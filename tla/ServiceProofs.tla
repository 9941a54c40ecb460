----------------------------- MODULE ServiceProofs -----------------------------
(***************************************************************************)
(* Proofs about what surrounds the message path: the WebSocket bridge, the *)
(* lock of the skills engine and the engine itself, the development        *)
(* engine, evolution, and the delivery of replies.                         *)
(***************************************************************************)
EXTENDS MCServices, FiniteSetTheorems, SequenceTheorems, WellFoundedInduction, TLAPS

-----------------------------------------------------------------------------
(* The WebSocket bridge. *)

Places == {"new", "rejecting", "open", "register", "ack", "ending", "closed"}
Coroutine == [at : Places, agent : Names, authed : BOOLEAN]

\* An agent's entry names a coroutine that has locked this agent's name and still has its
\* finally block before it; a name is locked before a connection registers or reports in it.
Listed(a) ==
    /\ a # "" /\ connections[a] \in Conns
    /\ conn[connections[a]].at \notin {"new", "rejecting", "closed"}
    /\ conn[connections[a]].agent = a

Speaks(c) ==
    /\ conn[c].at = "register" => conn[c].agent # ""
    /\ reports[c] \subseteq {"", conn[c].agent}

BridgeInv ==
    /\ conn \in [Conns -> Coroutine]
    /\ reports \in [Conns -> SUBSET Names]
    /\ \A a \in DOMAIN connections : Listed(a)
    /\ \A c \in Conns : Speaks(c)

\* A coroutine that stays in the table, keeps a name it has, and does not report.
LEMMA BridgeMoves ==
    ASSUME BridgeInv, NEW c \in Conns, NEW to \in Coroutine,
           conn' = [conn EXCEPT ![c] = to],
           conn[c].agent \in {"", to.agent},
           to.at = "register" => to.agent # "",
           to.at \in {"new", "rejecting", "closed"} =>
               \A a \in DOMAIN connections : connections[a] # c,
           UNCHANGED connections,
           reports' \in [Conns -> SUBSET Names],
           \A d \in Conns : d # c => reports'[d] = reports[d],
           reports'[c] \subseteq reports[c] \cup {"", to.agent}
    PROVE  BridgeInv'
<1>1. /\ conn' \in [Conns -> Coroutine] /\ conn'[c] = to
      /\ \A d \in Conns : d # c => conn'[d] = conn[d]
  BY DEF BridgeInv
<1>2. ASSUME NEW a \in DOMAIN connections' PROVE Listed(a)'
  <2>1. Listed(a)
    BY DEF BridgeInv
  <2>2. CASE connections[a] = c
    BY <1>1, <2>1, <2>2 DEF Listed
  <2>3. CASE connections[a] # c
    BY <1>1, <2>1, <2>3 DEF Listed
  <2>4. QED
    BY <2>2, <2>3
<1>3. ASSUME NEW d \in Conns PROVE Speaks(d)'
  <2>1. Speaks(d)
    BY DEF BridgeInv
  <2>2. CASE d = c
    BY <1>1, <2>1, <2>2 DEF Speaks
  <2>3. CASE d # c
    BY <1>1, <2>1, <2>3 DEF Speaks
  <2>4. QED
    BY <2>2, <2>3
<1>4. QED
  BY <1>1, <1>2, <1>3 DEF BridgeInv

\* The bridge starts with nobody connected.
LEMMA BridgeInit == WsInit => BridgeInv
<1> SUFFICES ASSUME WsInit PROVE BridgeInv
  OBVIOUS
<1> DEFINE start == [at |-> "new", agent |-> "", authed |-> ~TokenRequired]
<1>1. (~TokenRequired) \in BOOLEAN
  OBVIOUS
<1>2. start \in Coroutine
  BY <1>1 DEF Coroutine, Places, Names
<1>3. conn = [c \in Conns |-> start] /\ start.at = "new" /\ connections = << >>
      /\ reports = [c \in Conns |-> {}]
  BY DEF WsInit
<1> HIDE DEF start
<1>4. DOMAIN connections = {}
  BY <1>3
<1>5. QED
  BY <1>2, <1>3, <1>4 DEF BridgeInv, Speaks, Listed

\* Every step keeps the table of the bridge in accord with its connections.
LEMMA BridgeNext == BridgeInv /\ [WsNext]_wsVars => BridgeInv'
<1> SUFFICES ASSUME BridgeInv, [WsNext]_wsVars PROVE BridgeInv'
  OBVIOUS
<1>0. /\ conn \in [Conns -> Coroutine] /\ reports \in [Conns -> SUBSET Names]
      /\ \A c \in Conns : conn[c] \in Coroutine
  BY DEF BridgeInv
<1>1. ASSUME NEW c \in Conns, NEW at \in Places, Set(c, at), UNCHANGED <<connections, reports>>,
             at = "register" => conn[c].agent # "",
             at \in {"new", "rejecting", "closed"} =>
                \A a \in DOMAIN connections : connections[a] # c
      PROVE  BridgeInv'
  <2> DEFINE to == [conn[c] EXCEPT !.at = at]
  <2>1. /\ to \in Coroutine /\ to.agent = conn[c].agent /\ to.at = at
        /\ conn' = [conn EXCEPT ![c] = to]
    BY <1>0, <1>1 DEF Set, Coroutine
  <2> HIDE DEF to
  <2>2. QED
    BY <1>0, <1>1, <2>1, BridgeMoves
<1>2. ASSUME NEW c \in Conns, NEW name \in Names
      PROVE  /\ conn[c].agent \in {"", LockedName(c, name)}
             /\ Authorized(c, name) \in Coroutine
             /\ Authorized(c, name).at = conn[c].at
             /\ Authorized(c, name).agent = LockedName(c, name)
  <2>1. conn[c].agent \in Names /\ conn[c] \in Coroutine
    BY <1>0 DEF Coroutine
  <2>2. LockedName(c, name) \in Names /\ conn[c].agent \in {"", LockedName(c, name)}
    BY <2>1 DEF LockedName
  <2> DEFINE a == [conn[c] EXCEPT !.authed = TRUE]
  <2>3. a \in Coroutine /\ a.at = conn[c].at
    BY <2>1 DEF Coroutine
  <2>4. Authorized(c, name) = [a EXCEPT !.agent = LockedName(c, name)]
    BY DEF Authorized
  <2> HIDE DEF a
  <2>5. QED
    BY <2>2, <2>3, <2>4 DEF Coroutine
<1>3. ASSUME NEW c \in Conns, AcceptConnection(c) PROVE BridgeInv'
  <2>1. conn[c].at = "new" /\ \A a \in DOMAIN connections : connections[a] # c
    BY <1>3 DEF AcceptConnection, BridgeInv, Listed
  <2>2. QED
    BY <1>1, <1>3, <2>1 DEF AcceptConnection, Places
<1>4. ASSUME NEW c \in Conns, RejectConnection(c) PROVE BridgeInv'
  <2>1. conn[c].at = "rejecting" /\ \A a \in DOMAIN connections : connections[a] # c
    BY <1>4 DEF RejectConnection, BridgeInv, Listed
  <2>2. QED
    BY <1>1, <1>4, <2>1 DEF RejectConnection, Places
<1>5. ASSUME NEW c \in Conns, Unauthorized(c) \/ Acknowledge(c) \/ ConnectionLost(c)
      PROVE  BridgeInv'
  BY <1>1, <1>5 DEF Unauthorized, Acknowledge, ConnectionLost, Places
<1>6. ASSUME NEW c \in Conns, NEW name \in Names, Heartbeat(c, name) PROVE BridgeInv'
  <2> DEFINE to == [Authorized(c, name) EXCEPT
                       !.at = IF LockedName(c, name) = "" THEN "ack" ELSE "register"]
  <2>1. /\ to \in Coroutine /\ to.agent = LockedName(c, name)
        /\ to.at = (IF LockedName(c, name) = "" THEN "ack" ELSE "register")
    <3> DEFINE a == Authorized(c, name)
               p == IF LockedName(c, name) = "" THEN "ack" ELSE "register"
    <3>1. p \in Places /\ a \in Coroutine /\ a.agent = LockedName(c, name)
      BY <1>2 DEF Places
    <3>2. to = [a EXCEPT !.at = p]
      OBVIOUS
    <3> HIDE DEF to, a, p
    <3>3. to \in Coroutine /\ to.agent = a.agent /\ to.at = p
      BY <3>1, <3>2 DEF Coroutine
    <3>4. QED
      BY <3>1, <3>3 DEF p
  <2>2. conn' = [conn EXCEPT ![c] = to] /\ UNCHANGED <<connections, reports>>
    BY <1>6 DEF Heartbeat
  <2> HIDE DEF to
  <2>3. QED
    BY <1>0, <1>2, <2>1, <2>2, BridgeMoves
<1>7. ASSUME NEW c \in Conns, NEW name \in Names, NEW kind \in Reports, Report(c, kind, name)
      PROVE  BridgeInv'
  <2> DEFINE to == Authorized(c, name)
  <2>1. to \in Coroutine /\ to.agent = LockedName(c, name) /\ to.at = "open"
    BY <1>2, <1>7 DEF Report
  <2>2. conn' = [conn EXCEPT ![c] = to] /\ UNCHANGED connections
    BY <1>7 DEF Report
  <2> HIDE DEF to
  <2>3. /\ reports' \in [Conns -> SUBSET Names]
        /\ \A d \in Conns : d # c => reports'[d] = reports[d]
        /\ reports'[c] \subseteq reports[c] \cup {"", to.agent}
    <3> DEFINE told == IF LockedName(c, name) = "" /\ kind \in {"memory_patch", "memory_write"}
                       THEN reports[c] ELSE reports[c] \cup {LockedName(c, name)}
    <3>1. LockedName(c, name) \in Names /\ reports[c] \in SUBSET Names
      BY <1>0, <2>1 DEF Coroutine
    <3>2. told \in SUBSET Names /\ told \subseteq reports[c] \cup {"", to.agent}
      BY <2>1, <3>1
    <3>3. reports' = [reports EXCEPT ![c] = told]
      BY <1>7 DEF Report
    <3> HIDE DEF told
    <3>4. QED
      BY <1>0, <3>2, <3>3
  <2>4. QED
    BY <1>2, <2>1, <2>2, <2>3, BridgeMoves
<1>8. ASSUME NEW c \in Conns, Register(c) PROVE BridgeInv'
  <2> DEFINE to == [conn[c] EXCEPT !.at = "ack"]
  <2>1. conn[c].at = "register" /\ conn' = [conn EXCEPT ![c] = to] /\ reports' = reports
    BY <1>8 DEF Register, Set
  <2>2. to \in Coroutine /\ to.agent = conn[c].agent /\ to.at = "ack"
    BY <1>0 DEF Coroutine, Places
  <2>3. conn[c].agent # ""
    BY <2>1 DEF BridgeInv, Speaks
  <2>4. connections' = [a \in DOMAIN connections \cup {conn[c].agent} |->
                          IF a = conn[c].agent THEN c ELSE connections[a]]
    BY <1>8 DEF Register
  <2> HIDE DEF to
  <2>5. /\ conn' \in [Conns -> Coroutine] /\ conn'[c] = to
        /\ \A d \in Conns : d # c => conn'[d] = conn[d]
    BY <1>0, <2>1, <2>2
  <2>6. ASSUME NEW a \in DOMAIN connections' PROVE Listed(a)'
    <3>1. CASE a = conn[c].agent
      BY <2>2, <2>3, <2>4, <2>5, <3>1 DEF Listed
    <3>2. CASE a # conn[c].agent
      <4>1. a \in DOMAIN connections /\ connections'[a] = connections[a]
        BY <2>4, <3>2
      <4>2. Listed(a)
        BY <4>1 DEF BridgeInv
      <4>3. connections[a] # c
        BY <3>2, <4>2 DEF Listed
      <4>4. QED
        BY <2>5, <4>1, <4>2, <4>3 DEF Listed
    <3>3. QED
      BY <3>1, <3>2
  <2>7. ASSUME NEW d \in Conns PROVE Speaks(d)'
    <3>1. Speaks(d)
      BY DEF BridgeInv
    <3>2. QED
      BY <2>1, <2>2, <2>5, <3>1 DEF Speaks
  <2>8. QED
    BY <1>0, <2>1, <2>5, <2>6, <2>7 DEF BridgeInv
<1>9. ASSUME NEW c \in Conns, EndConnection(c) PROVE BridgeInv'
  <2>1. /\ conn' \in [Conns -> Coroutine] /\ conn'[c].at = "closed"
        /\ conn'[c].agent = conn[c].agent
        /\ \A d \in Conns : d # c => conn'[d] = conn[d]
        /\ reports' = reports
    BY <1>0, <1>9 DEF EndConnection, Set, Coroutine, Places
  <2>2. /\ DOMAIN connections' = DOMAIN connections \ {conn[c].agent}
        /\ \A a \in DOMAIN connections' : connections'[a] = connections[a]
    BY <1>9 DEF EndConnection, DropEntry, Restrict
  <2>3. ASSUME NEW a \in DOMAIN connections' PROVE Listed(a)'
    <3>1. Listed(a) /\ a # conn[c].agent /\ connections'[a] = connections[a]
      BY <2>2 DEF BridgeInv
    <3>2. connections[a] # c
      BY <3>1 DEF Listed
    <3>3. QED
      BY <2>1, <3>1, <3>2 DEF Listed
  <2>4. ASSUME NEW d \in Conns PROVE Speaks(d)'
    <3>1. Speaks(d)
      BY DEF BridgeInv
    <3>2. QED
      BY <2>1, <3>1 DEF Speaks
  <2>5. QED
    BY <1>0, <2>1, <2>3, <2>4 DEF BridgeInv
<1>10. CASE UNCHANGED wsVars
  BY <1>10 DEF wsVars, BridgeInv, Listed, Speaks
<1>11. QED
  BY <1>3, <1>4, <1>5, <1>6, <1>7, <1>8, <1>9, <1>10 DEF WsNext

\* However many connections an agent opens, loses and opens again, _connections holds only
\* coroutines that have not ended, each under the name it registered, and a connection
\* reports in that name alone (_handle_connection, its finally block, the locked agent_id).
THEOREM BridgeStaysSound == WsSpec => []BridgeSound
<1>1. BridgeInv => BridgeSound
  <2> SUFFICES ASSUME BridgeInv PROVE BridgeSound
    OBVIOUS
  <2>1. NoDeadConnection
    BY DEF BridgeInv, Listed, NoDeadConnection
  <2>2. ASSUME NEW c \in Conns PROVE Cardinality(reports[c] \ {""}) <= 1
    <3>1. reports[c] \ {""} \subseteq {conn[c].agent}
      BY DEF BridgeInv, Speaks
    <3>2. IsFiniteSet({conn[c].agent}) /\ Cardinality({conn[c].agent}) = 1
      BY FS_Singleton
    <3>3. Cardinality(reports[c] \ {""}) <= Cardinality({conn[c].agent})
      BY <3>1, <3>2, FS_Subset
    <3>4. QED
      BY <3>2, <3>3
  <2>3. QED
    BY <2>1, <2>2 DEF BridgeSound, OneIdentity
<1>2. QED
  BY <1>1, BridgeInit, BridgeNext, PTL DEF WsSpec

-----------------------------------------------------------------------------
(* The lock of the skills engine. *)

CallerPlaces == {"idle", "read", "unlink", "create_again", "write", "held"}

\* As long as no process took away another's file, the file is that of whoever is past
\* acquire_lock.
LockInv ==
    /\ caller \in [LockProcs -> CallerPlaces]
    /\ file \in [creator : LockProcs \cup {"none", "dead"}, written : BOOLEAN]
    /\ ~stolen => \A p \in LockProcs : caller[p] \in {"write", "held"} => file.creator = p

\* The conjuncts on their own, for the provers.
LockTypes ==
    /\ caller \in [LockProcs -> CallerPlaces]
    /\ file \in [creator : LockProcs \cup {"none", "dead"}, written : BOOLEAN]

\* A file of a known creator is a lock file.
LEMMA LockFile ==
    ASSUME NEW c \in LockProcs \cup {"none", "dead"}, NEW w \in BOOLEAN
    PROVE  [creator |-> c, written |-> w] \in
               [creator : LockProcs \cup {"none", "dead"}, written : BOOLEAN]
OBVIOUS

\* The lock's invariant holds at first: nobody is past acquire_lock.
LEMMA LockInvInit == LockInit => LockInv
<1> SUFFICES ASSUME LockInit PROVE LockInv
  OBVIOUS
<1>1. caller \in [LockProcs -> CallerPlaces]
  BY DEF LockInit, CallerPlaces
<1>2. file \in [creator : LockProcs \cup {"none", "dead"}, written : BOOLEAN]
  <2>1. [creator |-> "none", written |-> FALSE] \in
            [creator : LockProcs \cup {"none", "dead"}, written : BOOLEAN]
    BY LockFile, Zenon
  <2>2. [creator |-> "dead", written |-> TRUE] \in
            [creator : LockProcs \cup {"none", "dead"}, written : BOOLEAN]
    BY LockFile, Zenon
  <2>3. file = [creator |-> "none", written |-> FALSE]
            \/ file = [creator |-> "dead", written |-> TRUE]
    BY Zenon DEF LockInit, NoFile
  <2>4. QED
    BY <2>1, <2>2, <2>3, Zenon
<1>3. \A p \in LockProcs : caller[p] \notin {"write", "held"}
  BY DEF LockInit
<1>4. QED
  BY <1>1, <1>2, <1>3 DEF LockInv

\* Every step keeps the types of the lock.
LEMMA LockTypesNext == LockTypes /\ [LockNext]_lockVars => LockTypes'
<1> SUFFICES ASSUME LockTypes, [LockNext]_lockVars PROVE LockTypes'
  OBVIOUS
<1>1. caller' \in [LockProcs -> CallerPlaces]
  BY DEF LockTypes, LockNext, lockVars, Now, CallerPlaces, CreateFirst, CreateAgain, Create,
     WriteLockInfo, ReadExisting, Unlink, Release, Dies
<1>2. ASSUME NEW p \in LockProcs, file' = [creator |-> p, written |-> FALSE] \/ file' = NoFile
      PROVE  file' \in [creator : LockProcs \cup {"none", "dead"}, written : BOOLEAN]
  <2>1. [creator |-> p, written |-> FALSE] \in
            [creator : LockProcs \cup {"none", "dead"}, written : BOOLEAN]
    BY LockFile, Zenon
  <2>2. NoFile \in [creator : LockProcs \cup {"none", "dead"}, written : BOOLEAN]
    BY LockFile, Zenon DEF NoFile
  <2>3. QED
    BY <1>2, <2>1, <2>2, Zenon
<1>3. file' = [file EXCEPT !.written = TRUE] \/ file' = [file EXCEPT !.creator = "dead"] =>
          file' \in [creator : LockProcs \cup {"none", "dead"}, written : BOOLEAN]
  BY DEF LockTypes
<1>4. \/ UNCHANGED file
      \/ \E p \in LockProcs : file' = [creator |-> p, written |-> FALSE] \/ file' = NoFile
      \/ file' = [file EXCEPT !.written = TRUE] \/ file' = [file EXCEPT !.creator = "dead"]
  BY DEF LockNext, lockVars, CreateFirst, CreateAgain, Create, WriteLockInfo, ReadExisting,
     Unlink, Release, Dies, DropFile
<1>5. QED
  BY <1>1, <1>2, <1>3, <1>4 DEF LockTypes

\* Every step keeps what links the lock's file to its holder, until it is stolen.
LEMMA LockInvNext == LockInv /\ [LockNext]_lockVars => LockInv'
<1> SUFFICES ASSUME LockInv, [LockNext]_lockVars PROVE LockInv'
  OBVIOUS
<1>1. LockTypes /\ LockTypes'
  BY LockTypesNext DEF LockInv, LockTypes
<1>2. ASSUME ~stolen', NEW q \in LockProcs, caller'[q] \in {"write", "held"}
      PROVE  file'.creator = q
  <2>0. /\ caller \in [LockProcs -> CallerPlaces]
        /\ file \in [creator : LockProcs \cup {"none", "dead"}, written : BOOLEAN]
    BY <1>1 DEF LockTypes
  <2>1. ~stolen
    BY <1>2 DEF LockNext, lockVars, CreateFirst, CreateAgain, Create, WriteLockInfo,
       ReadExisting, Unlink, Release, Dies, DropFile
  <2>2. \A p \in LockProcs : caller[p] \in {"write", "held"} => file.creator = p
    BY <2>1 DEF LockInv
  <2>3. \A p \in LockProcs : p # "none" /\ p # "dead"
    BY LockAssumption
  <2>4. ASSUME NEW p \in LockProcs, CreateFirst(p) \/ CreateAgain(p) PROVE file'.creator = q
    <3>1. \/ file = NoFile /\ file' = [creator |-> p, written |-> FALSE] /\ Now(p, "write")
          \/ (Now(p, "read") \/ Now(p, "idle")) /\ UNCHANGED file
      BY <2>4 DEF CreateFirst, CreateAgain, Create
    <3>2. CASE file = NoFile /\ file' = [creator |-> p, written |-> FALSE] /\ Now(p, "write")
      <4>1. file.creator = "none" /\ file'.creator = p
        BY <3>2 DEF NoFile
      <4>2. caller[q] \notin {"write", "held"}
        BY <2>2, <2>3, <4>1
      <4>3. q = p
        BY <1>2, <2>0, <3>2, <4>2 DEF Now
      <4>4. QED
        BY <4>1, <4>3
    <3>3. CASE (Now(p, "read") \/ Now(p, "idle")) /\ UNCHANGED file
      BY <1>2, <2>0, <2>2, <3>3 DEF Now
    <3>4. QED
      BY <3>1, <3>2, <3>3
  <2>5. ASSUME NEW p \in LockProcs, WriteLockInfo(p) PROVE file'.creator = q
    <3>1. caller[q] \in {"write", "held"}
      BY <1>2, <2>0, <2>5 DEF WriteLockInfo, Now
    <3>2. file'.creator = file.creator
      BY <2>0, <2>5 DEF WriteLockInfo
    <3>3. QED
      BY <2>2, <3>1, <3>2
  <2>6. ASSUME NEW p \in LockProcs, ReadExisting(p) PROVE file'.creator = q
    BY <1>2, <2>0, <2>2, <2>6 DEF ReadExisting, Now
  <2>7. ASSUME NEW p \in LockProcs, Unlink(p) PROVE file'.creator = q
    <3>1. caller[q] \in {"write", "held"} /\ q # p
      BY <1>2, <2>0, <2>7 DEF Unlink, Now
    <3>2. file.creator \notin LockProcs \ {p}
      BY <1>2, <2>7 DEF Unlink, DropFile
    <3>3. QED
      BY <2>2, <3>1, <3>2
  <2>8. ASSUME NEW p \in LockProcs, Release(p) PROVE file'.creator = q
    <3>1. caller[p] = "held" /\ Now(p, "idle")
      BY <2>8 DEF Release
    <3>2. caller[q] \in {"write", "held"} /\ q # p
      BY <1>2, <2>0, <3>1 DEF Now
    <3>3. QED
      BY <2>2, <3>1, <3>2
  <2>9. ASSUME NEW p \in LockProcs, Dies(p) PROVE file'.creator = q
    <3>1. caller[q] \in {"write", "held"} /\ q # p
      BY <1>2, <2>0, <2>9 DEF Dies, Now
    <3>2. file' = file
      BY <2>2, <2>9, <3>1 DEF Dies
    <3>3. QED
      BY <2>2, <3>1, <3>2
  <2>10. CASE UNCHANGED lockVars
    BY <1>2, <2>2, <2>10 DEF lockVars
  <2>11. QED
    BY <2>4, <2>5, <2>6, <2>7, <2>8, <2>9, <2>10 DEF LockNext
<1>3. QED
  BY <1>1, <1>2 DEF LockInv, LockTypes

\* Unless a process removed the file of another living one, no two of any number of
\* processes are past acquire_lock together, whichever of them dies where.
THEOREM LockExcludes == LockSpec => []LockExclusive
<1>1. LockInv => LockExclusive
  <2> SUFFICES ASSUME LockInv, ~stolen PROVE Cardinality(Inside) <= 1
    BY DEF LockExclusive
  <2>1. Inside \subseteq {file.creator}
    BY DEF Inside, LockInv
  <2>2. IsFiniteSet({file.creator}) /\ Cardinality({file.creator}) = 1
    BY FS_Singleton
  <2>3. Cardinality(Inside) <= Cardinality({file.creator})
    BY <2>1, <2>2, FS_Subset
  <2>4. QED
    BY <2>2, <2>3
<1>2. QED
  BY <1>1, LockInvInit, LockInvNext, PTL DEF LockSpec

-----------------------------------------------------------------------------
(* The development engine. *)

\* What the first n stages leave behind.
Upto(n) == {STAGE_ORDER[i] : i \in 1..n}

WellFormed(copy) == copy \in Row /\ \E n \in 0..7 : copy.artifacts = Upto(n)

\* A run at a stage has the artifacts of the stages before it.
InOrder(r) == r.at \in Stages => \E n \in 1..7 : r.at = STAGE_ORDER[n]
                                              /\ r.copy.artifacts = Upto(n - 1)

Running == [at : Stages \cup {"select", "announce"}, s : Sessions, copy : Row]

DevTypes ==
    /\ row \in [Sessions -> Row \cup {NoSession}]
    /\ cancelling \in [Sessions -> Row \cup {NoSession}]
    /\ run \in [DevGroups -> Running \cup {NoRun}]

RowOf(s) == row[s] # NoSession => WellFormed(row[s])
LoadedOf(s) == cancelling[s] # NoSession => WellFormed(cancelling[s])

\* The session of a run is marked as running, unless it was cancelled meanwhile, and no
\* other group runs it: neither mark can be resumed.
RunOf(g) ==
    run[g] # NoRun =>
        /\ WellFormed(run[g].copy) /\ InOrder(run[g]) /\ run[g].copy.status = "running"
        /\ row[run[g].s].status \in {"running", "cancelled"}
        /\ \A h \in DevGroups : run[h] # NoRun /\ run[h].s = run[g].s => h = g

DevInv ==
    /\ DevTypes
    /\ \A s \in Sessions : RowOf(s) /\ LoadedOf(s)
    /\ \A g \in DevGroups : RunOf(g)
    /\ deployed \in [Sessions -> SUBSET {"pass"}]

\* The seven stages of STAGE_ORDER are different.
LEMMA StagesDiffer ==
    /\ Len(STAGE_ORDER) = 7 /\ DOMAIN STAGE_ORDER = 1..7
    /\ Stages = {STAGE_ORDER[i] : i \in 1..7}
    /\ \A i, j \in 1..7 : STAGE_ORDER[i] = STAGE_ORDER[j] => i = j
<1>1. Len(STAGE_ORDER) = 7 /\ DOMAIN STAGE_ORDER = 1..7
  BY DEF STAGE_ORDER
<1>2. Stages = {STAGE_ORDER[i] : i \in 1..7}
  BY <1>1 DEF Stages, ToSet
<1>3. ASSUME NEW i \in 1..7, NEW j \in 1..7, STAGE_ORDER[i] = STAGE_ORDER[j]
      PROVE  i = j
  <2>1. i \in {1, 2, 3, 4, 5, 6, 7} /\ j \in {1, 2, 3, 4, 5, 6, 7}
    BY SMT
  <2>2. QED
    BY <1>3, <2>1 DEF STAGE_ORDER
<1>4. QED
  BY <1>1, <1>2, <1>3

\* run() visits the stages in order: the next stage after the first n is the one at n + 1.
LEMMA NextInOrder ==
    ASSUME NEW STATE copy, NEW n \in 0..7, copy.artifacts = Upto(n), Remaining(copy) # {}
    PROVE  n + 1 \in 1..7 /\ NextStage(copy) = STAGE_ORDER[n + 1]
<1>1. Remaining(copy) = {i \in 1..7 : i > n}
  BY StagesDiffer DEF Remaining, Upto
<1>2. n + 1 \in Remaining(copy) /\ \A i \in Remaining(copy) : n + 1 <= i
  BY <1>1
<1>3. Min(Remaining(copy)) = n + 1
  BY <1>1, <1>2 DEF Min
<1>4. QED
  BY <1>1, <1>2, <1>3 DEF NextStage

\* A stage's artifact makes the first n - 1 the first n.
LEMMA StageAdds ==
    ASSUME NEW n \in 1..7
    PROVE  Upto(n - 1) \cup {STAGE_ORDER[n]} = Upto(n)
<1>1. 1..n = (1..(n - 1)) \cup {n}
  OBVIOUS
<1>2. QED
  BY <1>1 DEF Upto

\* A row without status "no_row" is a row, and a run with another place than "no_run" is a run.
LEMMA NoneApart ==
    /\ \A c \in Row : c # NoSession
    /\ \A r \in Running : r # NoRun
<1>1. \A c \in Row : c.status # "no_row"
  BY DEF Row
<1>2. \A r \in Running : r.at # "no_run"
  BY StagesDiffer DEF Running, STAGE_ORDER
<1>3. NoSession.status = "no_row" /\ NoRun.at = "no_run"
  BY DEF NoSession, NoRun
<1>4. QED
  BY <1>1, <1>2, <1>3

\* A group's run saves a session no other run has and goes on in it, or ends.
LEMMA RunWrites ==
    ASSUME DevInv, NEW g \in DevGroups, NEW s \in Sessions, NEW STATE c, NEW STATE r,
           WellFormed(c), row' = [row EXCEPT ![s] = c], run' = [run EXCEPT ![g] = r],
           UNCHANGED cancelling,
           \A h \in DevGroups : h # g /\ run[h] # NoRun => run[h].s # s,
           \/ r = NoRun /\ (run[g] # NoRun => run[g].s = s)
           \/ /\ r \in Running /\ r.s = s /\ WellFormed(r.copy) /\ InOrder(r)
              /\ r.copy.status = "running" /\ c.status \in {"running", "cancelled"}
    PROVE  /\ DevTypes'
           /\ \A t \in Sessions : RowOf(t)' /\ LoadedOf(t)'
           /\ \A h \in DevGroups : RunOf(h)'
<1>1. DevTypes /\ c \in Row
  BY DEF DevInv, WellFormed
<1>2. DevTypes'
  BY <1>1 DEF DevTypes
<1>3. /\ row'[s] = c /\ \A t \in Sessions : t # s => row'[t] = row[t]
      /\ run'[g] = r /\ \A h \in DevGroups : h # g => run'[h] = run[h]
  BY <1>1 DEF DevTypes
<1>4. ASSUME NEW t \in Sessions PROVE RowOf(t)' /\ LoadedOf(t)'
  BY <1>3 DEF DevInv, RowOf, LoadedOf, WellFormed
<1>5. ASSUME NEW h \in DevGroups, h # g, run[h] # NoRun PROVE run[h].s \in Sessions
  BY <1>1, <1>5 DEF DevTypes, Running
<1>6. ASSUME NEW h \in DevGroups, h # g PROVE RunOf(h)'
  <2> SUFFICES ASSUME run'[h] # NoRun PROVE RunOf(h)'
    BY DEF RunOf
  <2>1. run'[h] = run[h] /\ run[h] # NoRun /\ run[h].s \in Sessions /\ run[h].s # s
    BY <1>3, <1>5, <1>6
  <2>2. RunOf(h)
    BY DEF DevInv
  <2>3. row'[run'[h].s] = row[run[h].s]
    BY <1>3, <2>1
  <2>4. \A i \in DevGroups : run'[i] # NoRun /\ run'[i].s = run'[h].s => i = h
    BY <1>3, <2>1, <2>2 DEF RunOf
  <2>5. QED
    BY <2>1, <2>2, <2>3, <2>4 DEF RunOf, WellFormed, InOrder
<1>7. RunOf(g)'
  <2> SUFFICES ASSUME run'[g] # NoRun PROVE RunOf(g)'
    BY DEF RunOf
  <2>1. /\ r \in Running /\ r.s = s /\ WellFormed(r.copy) /\ InOrder(r)
        /\ r.copy.status = "running"
        /\ row'[run'[g].s].status \in {"running", "cancelled"}
    BY <1>3
  <2>2. \A i \in DevGroups : run'[i] # NoRun /\ run'[i].s = run'[g].s => i = g
    BY <1>3, <2>1
  <2>3. QED
    BY <1>3, <2>1, <2>2 DEF RunOf, WellFormed, InOrder
<1>8. QED
  BY <1>2, <1>4, <1>6, <1>7

\* Somebody else than a run writes a row: one that no run has, or as cancelled.
LEMMA OtherWrites ==
    ASSUME DevInv, NEW s \in Sessions, NEW STATE c, WellFormed(c),
           row' = [row EXCEPT ![s] = c], UNCHANGED run,
           \/ UNCHANGED cancelling
           \/ cancelling' = [cancelling EXCEPT ![s] = NoSession],
           \/ c.status = "cancelled"
           \/ row[s] = NoSession
    PROVE  /\ DevTypes'
           /\ \A t \in Sessions : RowOf(t)' /\ LoadedOf(t)'
           /\ \A h \in DevGroups : RunOf(h)'
<1>1. DevTypes /\ c \in Row
  BY DEF DevInv, WellFormed
<1>2. DevTypes'
  BY <1>1 DEF DevTypes
<1>3. /\ row'[s] = c /\ \A t \in Sessions : t # s => row'[t] = row[t]
      /\ \A t \in Sessions : cancelling'[t] \in {cancelling[t], NoSession}
  BY <1>1 DEF DevTypes
<1>4. ASSUME NEW t \in Sessions PROVE RowOf(t)' /\ LoadedOf(t)'
  BY <1>3 DEF DevInv, RowOf, LoadedOf, WellFormed
<1>5. ASSUME NEW h \in DevGroups PROVE RunOf(h)'
  <2> SUFFICES ASSUME run[h] # NoRun PROVE RunOf(h)'
    BY DEF RunOf
  <2>1. RunOf(h) /\ run[h].s \in Sessions
    BY <1>1 DEF DevInv, DevTypes, Running
  <2>2. row[run[h].s].status # "no_row"
    BY <2>1 DEF RunOf
  <2>3. row[run[h].s] # NoSession
    BY <2>2 DEF NoSession
  <2>4. row'[run[h].s].status \in {"running", "cancelled"}
    BY <1>3, <2>1, <2>3 DEF RunOf
  <2>5. QED
    BY <2>1, <2>4 DEF RunOf, WellFormed, InOrder
<1>6. QED
  BY <1>2, <1>4, <1>5

\* What the invariant says of a run.
LEMMA RunFacts ==
    ASSUME DevInv, NEW g \in DevGroups, run[g] # NoRun
    PROVE  /\ run[g] \in Running /\ run[g].s \in Sessions /\ run[g].copy \in Row
           /\ WellFormed(run[g].copy) /\ InOrder(run[g]) /\ run[g].copy.status = "running"
           /\ \A h \in DevGroups : h # g /\ run[h] # NoRun => run[h].s # run[g].s
BY DEF DevInv, DevTypes, RunOf, Running

\* A row with another status is well formed as well.
LEMMA StatusChanges ==
    ASSUME NEW STATE c, WellFormed(c),
           NEW status \in {"pending", "running", "paused", "completed", "failed", "cancelled"}
    PROVE  WellFormed([c EXCEPT !.status = status])
BY DEF WellFormed, Row

\* A session without a run's mark has no run.
LEMMA NotRunning ==
    ASSUME DevInv, NEW s \in Sessions, row[s].status \notin {"running", "cancelled"}
    PROVE  \A g \in DevGroups : run[g] # NoRun => run[g].s # s
BY DEF DevInv, RunOf

\* A run ends and saves how.
LEMMA Ends ==
    ASSUME DevInv, NEW g \in DevGroups, run[g] # NoRun, UNCHANGED cancelling,
           NEW status \in {"paused", "completed", "failed"}, EndRun(g, status)
    PROVE  /\ DevTypes'
           /\ \A t \in Sessions : RowOf(t)' /\ LoadedOf(t)'
           /\ \A h \in DevGroups : RunOf(h)'
<1>1. WellFormed([run[g].copy EXCEPT !.status = status])
  BY RunFacts, StatusChanges
<1>2. /\ row' = [row EXCEPT ![run[g].s] = [run[g].copy EXCEPT !.status = status]]
      /\ run' = [run EXCEPT ![g] = NoRun]
  BY DEF EndRun, SaveSession
<1>3. QED
  BY <1>1, <1>2, RunFacts, RunWrites

\* A run begins on a session nobody runs.
LEMMA Begins ==
    ASSUME DevInv, NEW g \in DevGroups, run[g] = NoRun, NEW s \in Sessions, NEW STATE c,
           WellFormed(c), row[s].status \notin {"running", "cancelled"},
           BeginRun(g, s, c), UNCHANGED cancelling
    PROVE  /\ DevTypes'
           /\ \A t \in Sessions : RowOf(t)' /\ LoadedOf(t)'
           /\ \A h \in DevGroups : RunOf(h)'
<1> DEFINE copy == [c EXCEPT !.status = "running"]
<1> DEFINE r == [at |-> "select", s |-> s, copy |-> copy]
<1>1. WellFormed(copy)
  BY StatusChanges
<1>2. copy \in Row /\ c \in Row
  BY <1>1 DEF WellFormed
<1>3. copy.status = "running"
  BY <1>2 DEF Row
<1>4. r \in Running /\ r.s = s /\ r.copy = copy /\ r.at = "select"
  BY <1>2 DEF Running
<1>5. "select" \notin Stages
  BY StagesDiffer DEF STAGE_ORDER
<1>6. InOrder(r)
  BY <1>4, <1>5 DEF InOrder
<1>7. run' = [run EXCEPT ![g] = r] /\ run'[g] = r
  BY DEF BeginRun, DevInv, DevTypes
<1>8. row' = [row EXCEPT ![s] = copy]
  BY <1>4, <1>7 DEF BeginRun, SaveSession
<1> HIDE DEF copy, r
<1>9. QED
  BY <1>1, <1>3, <1>4, <1>6, <1>7, <1>8, NotRunning, RunWrites

\* A stage's artifact is recorded: the artifacts stay those of the first stages.
LEMMA Records ==
    ASSUME DevInv, NEW g \in DevGroups, run[g].at \in Stages, UNCHANGED cancelling,
           NEW verdict \in Verdicts, Record(g, run[g].at, verdict)
    PROVE  /\ DevTypes'
           /\ \A t \in Sessions : RowOf(t)' /\ LoadedOf(t)'
           /\ \A h \in DevGroups : RunOf(h)'
<1>1. run[g] # NoRun
  BY StagesDiffer DEF NoRun, STAGE_ORDER
<1> DEFINE old == run[g].copy
<1> DEFINE copy == [old EXCEPT !.artifacts = @ \cup {run[g].at}, !.verdict = verdict]
<1> DEFINE r == [run[g] EXCEPT !.at = "announce", !.copy = copy]
<1>2. PICK n \in 1..7 : run[g].at = STAGE_ORDER[n] /\ old.artifacts = Upto(n - 1)
  BY <1>1, RunFacts DEF InOrder
<1>3. old \in Row /\ run[g] \in Running /\ run[g].at \in Stages /\ old.status = "running"
  BY <1>1, RunFacts
<1>4. copy \in Row /\ copy.artifacts = old.artifacts \cup {run[g].at} /\ copy.status = "running"
  BY <1>3 DEF Row
<1>5. copy.artifacts = Upto(n) /\ n \in 0..7
  BY <1>2, <1>4, StageAdds
<1>6. WellFormed(copy)
  BY <1>4, <1>5 DEF WellFormed
<1>7. r \in Running /\ r.s = run[g].s /\ r.copy = copy /\ r.at = "announce"
  BY <1>3, <1>4 DEF Running
<1>8. "announce" \notin Stages
  BY StagesDiffer DEF STAGE_ORDER
<1>9. InOrder(r)
  BY <1>7, <1>8 DEF InOrder
<1>10. run' = [run EXCEPT ![g] = r]
  BY <1>3 DEF Record, DevInv, DevTypes, Running, Row
<1>11. run'[g] = r
  BY <1>10 DEF DevInv, DevTypes
<1>12. row' = [row EXCEPT ![run[g].s] = copy]
  BY <1>7, <1>11 DEF Record, SaveSession
<1> HIDE DEF copy, r
<1>13. QED
  BY <1>1, <1>4, <1>6, <1>7, <1>9, <1>10, <1>12, RunFacts, RunWrites

\* The next stage is selected in order, or the session is completed.
LEMMA Selects ==
    ASSUME DevInv, NEW g \in DevGroups, SelectStage(g)
    PROVE  /\ DevTypes'
           /\ \A t \in Sessions : RowOf(t)' /\ LoadedOf(t)'
           /\ \A h \in DevGroups : RunOf(h)'
<1>1. run[g] # NoRun /\ UNCHANGED cancelling
  BY DEF SelectStage, NoRun
<1>2. CASE Remaining(run[g].copy) = {}
  BY <1>1, <1>2, Ends DEF SelectStage
<1>3. CASE Remaining(run[g].copy) # {}
  <2> DEFINE copy == run[g].copy
  <2> DEFINE r == [run[g] EXCEPT !.at = NextStage(copy)]
  <2>1. /\ run[g] \in Running /\ run[g].s \in Sessions /\ WellFormed(copy)
        /\ copy \in Row /\ copy.status = "running"
    BY <1>1, RunFacts
  <2>2. PICK n \in 0..7 : copy.artifacts = Upto(n)
    BY <2>1 DEF WellFormed
  <2>3. n + 1 \in 1..7 /\ NextStage(copy) = STAGE_ORDER[n + 1] /\ n = (n + 1) - 1
    BY <1>3, <2>2, NextInOrder
  <2>4. NextStage(copy) \in Stages
    BY <2>3, StagesDiffer
  <2>5. r \in Running /\ r.s = run[g].s /\ r.copy = copy /\ r.at = NextStage(copy)
    BY <2>1, <2>4 DEF Running
  <2>6. InOrder(r)
    BY <2>2, <2>3, <2>5 DEF InOrder
  <2>7. run' = [run EXCEPT ![g] = r] /\ row' = [row EXCEPT ![run[g].s] = copy]
    BY <1>3 DEF SelectStage, SaveSession
  <2> HIDE DEF copy, r
  <2>8. QED
    BY <1>1, <2>1, <2>5, <2>6, <2>7, RunFacts, RunWrites
<1>4. QED
  BY <1>2, <1>3

\* A run waits for the user, or goes on to the next stage.
LEMMA Goes ==
    ASSUME DevInv, NEW g \in DevGroups, AfterStage(g)
    PROVE  /\ DevTypes'
           /\ \A t \in Sessions : RowOf(t)' /\ LoadedOf(t)'
           /\ \A h \in DevGroups : RunOf(h)'
<1>1. run[g] # NoRun /\ UNCHANGED cancelling
  BY DEF AfterStage, NoRun
<1>2. CASE run[g].copy.mode = "interactive"
  BY <1>1, <1>2, Ends DEF AfterStage
<1>3. CASE run[g].copy.mode # "interactive"
  <2> DEFINE copy == run[g].copy
  <2> DEFINE r == [run[g] EXCEPT !.at = "select"]
  <2> DEFINE c == row[run[g].s]
  <2>1. /\ run[g] \in Running /\ run[g].s \in Sessions /\ WellFormed(copy)
        /\ copy \in Row /\ copy.status = "running"
    BY <1>1, RunFacts
  <2>2. r \in Running /\ r.s = run[g].s /\ r.copy = copy /\ r.at = "select"
    BY <2>1 DEF Running
  <2>3. InOrder(r)
    BY <2>2, StagesDiffer DEF InOrder, STAGE_ORDER
  <2>4. c.status \in {"running", "cancelled"}
    BY <1>1 DEF DevInv, RunOf
  <2>5. c # NoSession
    BY <2>4 DEF NoSession
  <2>6. WellFormed(c)
    BY <2>1, <2>5 DEF DevInv, RowOf
  <2>7. run' = [run EXCEPT ![g] = r] /\ UNCHANGED row
    BY <1>3 DEF AfterStage
  <2>8. row' = [row EXCEPT ![run[g].s] = c]
    BY <2>1, <2>7 DEF DevInv, DevTypes
  <2> HIDE DEF copy, r, c
  <2>9. QED
    BY <1>1, <2>1, <2>2, <2>3, <2>4, <2>6, <2>7, <2>8, RunFacts, RunWrites
<1>4. QED
  BY <1>2, <1>3

\* The tables stay well formed when a request is written or a cancellation loads a row.
LEMMA TablesKept ==
    ASSUME DevInv, UNCHANGED <<row, run>>,
           \/ UNCHANGED cancelling
           \/ \E s \in Sessions : /\ row[s] # NoSession
                                  /\ cancelling' = [cancelling EXCEPT ![s] = row[s]]
    PROVE  /\ DevTypes'
           /\ \A t \in Sessions : RowOf(t)' /\ LoadedOf(t)'
           /\ \A h \in DevGroups : RunOf(h)'
<1>1. DevTypes'
  BY DEF DevInv, DevTypes
<1>2. \A t \in Sessions : RowOf(t)'
  BY DEF DevInv, RowOf, WellFormed
<1>3. \A t \in Sessions : cancelling'[t] = cancelling[t] \/ cancelling'[t] = row[t]
  BY DEF DevInv, DevTypes
<1>4. \A t \in Sessions : LoadedOf(t)'
  BY <1>3 DEF DevInv, LoadedOf, RowOf, WellFormed
<1>5. \A h \in DevGroups : RunOf(h)'
  BY DEF DevInv, RunOf, WellFormed, InOrder
<1>6. QED
  BY <1>1, <1>2, <1>4, <1>5

\* A new session is well formed: it has no artifact yet.
LEMMA NewRowFormed ==
    ASSUME NEW mode \in Modes, NEW jid \in DevGroups \cup {"dashboard"}
    PROVE  WellFormed(NewRow(mode, jid))
<1>1. NewRow(mode, jid) \in Row
  BY DEF NewRow, Row, Verdicts
<1>2. Upto(0) = {} /\ NewRow(mode, jid).artifacts = {}
  BY DEF Upto, NewRow
<1>3. QED
  BY <1>1, <1>2 DEF WellFormed

\* Every step of a run keeps the tables, the order of the stages and one run per session.
LEMMA RunStepKeeps ==
    ASSUME DevInv, NEW g \in DevGroups, RunStep(g)
    PROVE  /\ DevTypes'
           /\ \A t \in Sessions : RowOf(t)' /\ LoadedOf(t)'
           /\ \A h \in DevGroups : RunOf(h)'
<1>1. CASE RunLlmStage(g)
  <2>1. run[g].at \in Stages /\ UNCHANGED cancelling
    BY <1>1 DEF RunLlmStage
  <2>2. run[g] # NoRun
    BY <2>1, StagesDiffer DEF NoRun, STAGE_ORDER
  <2>3. run[g].copy.verdict \in Verdicts
    BY <2>2, RunFacts DEF Row
  <2>4. \/ EndRun(g, "failed")
        \/ \E v \in Verdicts : Record(g, run[g].at, v)
    BY <1>1, <2>3 DEF RunLlmStage
  <2>5. QED
    BY <2>1, <2>2, <2>4, Ends, Records
<1>2. CASE DeployFiles(g)
  <2>1. run[g].at = "deploy" /\ UNCHANGED cancelling
    BY <1>2 DEF DeployFiles
  <2>2. STAGE_ORDER[7] = "deploy"
    BY DEF STAGE_ORDER
  <2>3. run[g].at \in Stages /\ run[g] # NoRun
    BY <2>1, <2>2, StagesDiffer DEF NoRun
  <2>4. run[g].copy.verdict \in Verdicts
    BY <2>3, RunFacts DEF Row
  <2>5. \/ EndRun(g, "failed")
        \/ \E v \in Verdicts : Record(g, run[g].at, v)
    BY <1>2, <2>1, <2>4 DEF DeployFiles
  <2>6. QED
    BY <2>1, <2>3, <2>5, Ends, Records
<1>3. QED
  BY <1>1, <1>2, Selects, Goes DEF RunStep

\* Files are written under the verdict of a review that passed, by _deploy_files only.
LEMMA DeployKeeps ==
    DevInv /\ [DevNext]_devVars => deployed' \in [Sessions -> SUBSET {"pass"}]
<1> SUFFICES ASSUME DevInv, [DevNext]_devVars
             PROVE  deployed' \in [Sessions -> SUBSET {"pass"}]
  OBVIOUS
<1>1. deployed \in [Sessions -> SUBSET {"pass"}]
  BY DEF DevInv
<1>2. ASSUME NEW g \in DevGroups, DeployFiles(g)
      PROVE  deployed' \in [Sessions -> SUBSET {"pass"}]
  <2>1. CASE ReviewPassed(run[g].copy)
    <3>1. deployed' = [deployed EXCEPT ![run[g].s] = @ \cup {run[g].copy.verdict}]
      BY <1>2, <2>1 DEF DeployFiles
    <3>2. run[g].copy.verdict = "pass"
      BY <2>1 DEF ReviewPassed
    <3>3. QED
      BY <1>1, <3>1, <3>2
  <2>2. QED
    BY <1>1, <1>2, <2>1 DEF DeployFiles
<1>3. UNCHANGED deployed \/ \E g \in DevGroups : DeployFiles(g)
  BY DEF DevNext, devVars, DashboardStart, StartSession, DashboardResume, LoadToCancel,
     SaveCancelled, ChatResume, HandleResume, RunStep, SelectStage, RunLlmStage, AfterStage,
     DevCrash
<1>4. QED
  BY <1>1, <1>2, <1>3

\* Every step keeps the invariant.
LEMMA DevInvNext == DevInv /\ [DevNext]_devVars => DevInv'
<1> DEFINE Kept == /\ DevTypes'
                   /\ \A t \in Sessions : RowOf(t)' /\ LoadedOf(t)'
                   /\ \A h \in DevGroups : RunOf(h)'
<1> SUFFICES ASSUME DevInv, [DevNext]_devVars PROVE Kept
  BY DeployKeeps DEF DevInv
<1>1. CASE UNCHANGED devVars
  BY <1>1, TablesKept DEF devVars
<1>2. ASSUME NEW s \in Sessions, NEW mode \in Modes, DashboardStart(s, mode) PROVE Kept
  <2>1. WellFormed(NewRow(mode, "dashboard"))
    BY NewRowFormed
  <2>2. QED
    BY <1>2, <2>1, OtherWrites DEF DashboardStart, SaveSession
<1>3. ASSUME NEW s \in Sessions, NEW g \in DevGroups, NEW mode \in Modes,
             StartSession(g, s, mode)
      PROVE  Kept
  <2>1. WellFormed(NewRow(mode, g))
    BY NewRowFormed
  <2>2. row[s].status \notin {"running", "cancelled"}
    BY <1>3 DEF StartSession, NoSession
  <2>3. QED
    BY <1>3, <2>1, <2>2, Begins DEF StartSession
<1>4. ASSUME NEW s \in Sessions, NEW g \in DevGroups, HandleResume(g, s) PROVE Kept
  <2>1. CASE run[g] = NoRun /\ Resumable(row[s].status)
    <3>1. row[s].status \notin {"running", "cancelled"} /\ row[s] # NoSession
      BY <2>1 DEF Resumable, NoSession
    <3>2. WellFormed(row[s])
      BY <3>1 DEF DevInv, RowOf
    <3>3. BeginRun(g, s, row[s]) /\ UNCHANGED cancelling
      BY <1>4, <2>1 DEF HandleResume
    <3>4. QED
      BY <2>1, <3>1, <3>2, <3>3, Begins
  <2>2. QED
    BY <1>4, <2>1, TablesKept DEF HandleResume
<1>5. ASSUME NEW s \in Sessions, LoadToCancel(s) PROVE Kept
  BY <1>5, TablesKept DEF LoadToCancel
<1>6. ASSUME NEW s \in Sessions, SaveCancelled(s) PROVE Kept
  <2> DEFINE c == [cancelling[s] EXCEPT !.status = "cancelled"]
  <2>1. WellFormed(cancelling[s])
    BY <1>6 DEF SaveCancelled, DevInv, LoadedOf
  <2>2. WellFormed(c)
    BY <2>1, StatusChanges
  <2>3. c.status = "cancelled"
    BY <2>1 DEF WellFormed, Row
  <2>4. /\ row' = [row EXCEPT ![s] = c] /\ UNCHANGED run
        /\ cancelling' = [cancelling EXCEPT ![s] = NoSession]
    BY <1>6 DEF SaveCancelled, SaveSession
  <2> HIDE DEF c
  <2>5. QED
    BY <2>2, <2>3, <2>4, OtherWrites
<1>7. CASE \E s \in Sessions : DashboardResume(s) \/ \E g \in DevGroups : ChatResume(g, s)
  BY <1>7, TablesKept DEF DashboardResume, ChatResume
<1>8. CASE DevCrash
  <2>1. DevTypes'
    BY <1>8 DEF DevCrash, DevInv, DevTypes
  <2>2. \A t \in Sessions : RowOf(t)' /\ LoadedOf(t)'
    BY <1>8 DEF DevCrash, DevInv, RowOf, LoadedOf, WellFormed
  <2>3. \A h \in DevGroups : RunOf(h)'
    BY <1>8 DEF DevCrash, RunOf
  <2>4. QED
    BY <2>1, <2>2, <2>3
<1>9. CASE \E g \in DevGroups : RunStep(g)
  BY <1>9, RunStepKeeps
<1> HIDE DEF Kept
<1>10. QED
  BY <1>1, <1>2, <1>3, <1>4, <1>5, <1>6, <1>7, <1>8, <1>9 DEF DevNext

\* The invariant holds at first: no session, no run.
LEMMA DevInvInit == DevInit => DevInv
BY DEF DevInit, DevInv, DevTypes, RowOf, LoadedOf, RunOf

\* What the invariant is for.
LEMMA DevInvMeans == DevInv => DevTypeOK /\ OneRunPerSession /\ DeployedReviewed
<1> SUFFICES ASSUME DevInv PROVE DevTypeOK /\ OneRunPerSession /\ DeployedReviewed
  OBVIOUS
<1>1. DeployedReviewed
  BY DEF DevInv, DeployedReviewed
<1>2. OneRunPerSession
  BY RunFacts DEF OneRunPerSession
<1>3. \A s \in Sessions : row[s] # NoSession => WellFormed(row[s])
  BY DEF DevInv, RowOf
<1>4. \A g \in DevGroups : run[g] # NoRun => run[g] \in Running
  BY RunFacts
<1>5. DevTypeOK
  BY <1>3, <1>4, StagesDiffer DEF DevTypeOK, WellFormed, Running, Upto
<1>6. QED
  BY <1>1, <1>2, <1>5

\* A step that changes the status of a cancelled session is one of a run that has it.
LEMMA CancelledKept ==
    ASSUME DevInv, [DevNext]_devVars, NEW s \in Sessions, row[s].status = "cancelled",
           \A g \in DevGroups : run[g] # NoRun => run[g].s # s
    PROVE  row'[s].status = "cancelled"
<1>0. DevTypes
  BY DEF DevInv
<1>1. row[s] # NoSession
  BY DEF NoSession
<1>2. CASE row'[s] = row[s]
  BY <1>2
<1>3. ASSUME NEW g \in DevGroups, NEW t \in Sessions, NEW STATE c, BeginRun(g, t, c), t # s
      PROVE  row'[s] = row[s]
  BY <1>0, <1>3 DEF BeginRun, SaveSession, DevTypes
<1>4. ASSUME NEW g \in DevGroups, RunStep(g) PROVE row'[s] = row[s]
  <2>1. run[g] # NoRun
    BY <1>4, StagesDiffer DEF RunStep, SelectStage, RunLlmStage, DeployFiles, AfterStage,
       NoRun, STAGE_ORDER
  <2>2. run[g].s # s
    BY <2>1
  <2>3. \A c : SaveSession(run[g].s, c) => row'[s] = row[s]
    BY <1>0, <2>2 DEF SaveSession, DevTypes
  <2>4. UNCHANGED row \/ \E c : SaveSession(run[g].s, c)
    BY <1>4 DEF RunStep, SelectStage, RunLlmStage, DeployFiles, AfterStage, EndRun, Record
  <2>5. QED
    BY <2>3, <2>4
<1>5. ASSUME NEW t \in Sessions, SaveCancelled(t) PROVE row'[s].status = "cancelled"
  <2>1. cancelling[t] \in Row
    BY <1>0, <1>5 DEF SaveCancelled, DevTypes
  <2>2. row'[s] = row[s] \/ row'[s] = [cancelling[t] EXCEPT !.status = "cancelled"]
    BY <1>0, <1>5 DEF SaveCancelled, SaveSession, DevTypes
  <2>3. QED
    BY <2>1, <2>2 DEF Row
<1>6. ASSUME NEW t \in Sessions, NEW mode \in Modes, DashboardStart(t, mode)
      PROVE  row'[s] = row[s]
  BY <1>0, <1>1, <1>6 DEF DashboardStart, SaveSession, DevTypes
<1>7. ASSUME NEW t \in Sessions, NEW g \in DevGroups, NEW mode \in Modes,
             StartSession(g, t, mode)
      PROVE  row'[s] = row[s]
  BY <1>1, <1>3, <1>7 DEF StartSession
<1>8. ASSUME NEW t \in Sessions, NEW g \in DevGroups, HandleResume(g, t)
      PROVE  row'[s] = row[s]
  BY <1>3, <1>8 DEF HandleResume, Resumable
<1>9. CASE UNCHANGED row
  BY <1>9
<1>10. QED
  BY <1>2, <1>4, <1>5, <1>6, <1>7, <1>8, <1>9 DEF DevNext, devVars, DashboardResume,
     LoadToCancel, ChatResume, DevCrash

\* run(), resume() and cancel() together, for any groups and sessions and any number of
\* requests, cancellations and crashes: sessions are well formed and their stages complete
\* in order, no two runs have one session, files reach the project under a passing review
\* only, and a session cancelled while no run held a copy stays cancelled.
THEOREM DevelopmentStaysSound == DevSpec => DevSound
<1>1. DevInv /\ [DevNext]_devVars => DevInv'
  BY DevInvNext
<1>2. DevInv /\ [DevNext]_devVars =>
          [\A s \in Sessions :
              (row[s].status = "cancelled" /\ \A g \in DevGroups : run[g] # NoRun => run[g].s # s)
              => row'[s].status = "cancelled"]_devVars
  BY CancelledKept
<1>3. QED
  BY <1>1, <1>2, DevInvInit, DevInvMeans, PTL DEF DevSpec, DevSound, CancelledStays

-----------------------------------------------------------------------------
(* Evolution. *)

Midway == {"validate", "reset", "fitness"}

\* What a thread midway in a group holds: the group, and what is left to do.
HasGroup(c) ==
    \E todo, group, ms : /\ group \in EvoGroups
                         /\ c = [at |-> c.at, todo |-> todo, group |-> group, ms |-> ms]

\* A thread that has a group keeps it; what it is to write is a genome one generation
\* after the stored one, as long as no other thread was at work meanwhile.
ThreadOf(t) ==
    /\ cycle[t].at \in Midway => HasGroup(cycle[t])
    /\ cycle[t].at = "read" => cycle[t].group \in EvoGroups
    /\ cycle[t].at = "write" =>
          /\ cycle[t].group \in EvoGroups /\ cycle[t].new \in Genome
          /\ ~excused => cycle[t].new.generation = genome[cycle[t].group].generation + 1

OneThread == \A t, u \in EvoThreads : cycle[t].at # "idle" /\ cycle[u].at # "idle" => t = u

GenomesInv ==
    /\ genome \in [EvoGroups -> Genome] /\ logged \in [EvoGroups -> Nat]
    /\ DOMAIN cycle = EvoThreads
    /\ \A t \in EvoThreads : ThreadOf(t)
    /\ ~excused => OneThread /\ \A g \in EvoGroups : genome[g].generation = logged[g]

\* What the process believes about a pass is no older than what is stored; before it has
\* read the table it believes that every pass is due.
ScheduleInv ==
    /\ since \in [Passes -> Nat] /\ saved \in [Passes -> Nat]
    /\ IF loaded THEN \A p \in Passes : since[p] <= saved[p] ELSE since = INTERVAL
    /\ early = {}

\* The smaller and the larger of two numbers, in whatever order they are listed.
LEMMA TwoNumbers ==
    ASSUME NEW a \in Int, NEW b \in Int, a <= b
    PROVE  Min({a, b}) = a /\ Min({b, a}) = a /\ Max({a, b}) = b /\ Max({b, a}) = b
<1>1. {a, b} = {b, a}
  OBVIOUS
<1>2. Min({a, b}) = a
  BY DEF Min
<1>3. Max({a, b}) = b
  BY DEF Max
<1>4. QED
  BY <1>1, <1>2, <1>3

\* update_formality with one of its two targets stays between them.
LEMMA FormalityStays ==
    ASSUME NEW f \in 500 .. 700, NEW target \in {500, 700},
           NEW n \in update_formality(f, target)
    PROVE  n \in 500 .. 700
<1>1. CASE f - target \in -9 .. 9
  BY <1>1 DEF update_formality
<1>2. CASE f - target \notin -9 .. 9
  <2> DEFINE num == 20 * f + target - f
  <2>1. n \in Rounded(num, 20) /\ num \in Int
    BY <1>2 DEF update_formality
  <2>2. num \div 20 \in Int
    BY <2>1
  <2>3. n \in Int /\ 2 * (n * 20 - num) \in -20 .. 20
    BY <2>1, <2>2 DEF Rounded
  <2>4. QED
    BY <2>3
<1>3. QED
  BY <1>1, <1>2

\* A depth raised or lowered and cut off at its limits is a depth.
LEMMA Raised ==
    ASSUME NEW n \in Int, n >= 0
    PROVE  Min({1000, n}) \in 0..1000
<1>1. CASE n <= 1000
  <2>1. Min({1000, n}) = n
    BY <1>1, TwoNumbers
  <2>2. QED
    BY <1>1, <2>1
<1>2. CASE n > 1000
  <2>1. Min({1000, n}) = 1000
    BY <1>2, TwoNumbers
  <2>2. QED
    BY <2>1
<1>3. QED
  BY <1>1, <1>2

\* The same at the lower limit.
LEMMA Lowered ==
    ASSUME NEW n \in Int, n <= 1000
    PROVE  Max({0, n}) \in 0..1000
<1>1. CASE n >= 0
  <2>1. Max({0, n}) = n
    BY <1>1, TwoNumbers
  <2>2. QED
    BY <1>1, <2>1
<1>2. CASE n < 0
  <2>1. Max({n, 0}) = 0
    BY <1>2, TwoNumbers
  <2>2. Max({n, 0}) \in 0..1000
    BY <2>1
  <2>3. {n, 0} = {0, n}
    OBVIOUS
  <2>4. QED
    BY <2>2, <2>3, Zenon
<1>3. QED
  BY <1>1, <1>2

\* One step of evolution keeps a genome in its ranges and counts one generation.
LEMMA EvolvedStays ==
    ASSUME NEW STATE old, old \in Genome, NEW STATE fitness, NEW STATE ms,
           NEW new \in Evolved(old, fitness, ms)
    PROVE  new \in Genome /\ new.generation = old.generation + 1
<1>1. PICK f \in NewFormality(old.formality, fitness, ms) :
          new = [style |-> NewStyle(old.style, fitness, ms), formality |-> f,
                 depth |-> NewDepth(old.depth, fitness, ms), generation |-> old.generation + 1]
  BY DEF Evolved
<1>2. f \in 500 .. 700
  BY FormalityStays DEF NewFormality, Genome
<1>3. DOMAIN Styles = 1..3
  BY DEF Styles
<1>4. NewStyle(old.style, fitness, ms) \in 1..3
  BY <1>3 DEF NewStyle, Genome, BadStyle
<1>5. NewDepth(old.depth, fitness, ms) \in 0..1000
  <2>1. old.depth \in 0..1000
    BY DEF Genome
  <2>2. PICK d \in 0..1000 : d = old.depth
    BY <2>1
  <2>3. Min({1000, d + 50}) \in 0..1000 /\ Max({0, d - 50}) \in 0..1000
    <3>1. d + 50 \in Int /\ d + 50 >= 0 /\ d - 50 \in Int /\ d - 50 <= 1000
      OBVIOUS
    <3>2. Min({1000, d + 50}) \in 0..1000
      BY <3>1, Raised
    <3>3. Max({0, d - 50}) \in 0..1000
      BY <3>1, Lowered
    <3>4. QED
      BY <3>2, <3>3
  <2>4. NewDepth(d, fitness, ms) \in 0..1000
    BY <2>3 DEF NewDepth
  <2>5. QED
    BY <2>2, <2>4, Zenon
<1>6. old.generation \in Nat
  BY DEF Genome
<1>7. QED
  BY <1>1, <1>2, <1>3, <1>4, <1>5, <1>6 DEF Genome

\* A thread that goes on by itself: the genomes and the log stay as they are, or only what
\* does not count for the generations changes.
LEMMA ThreadMoves ==
    ASSUME GenomesInv, NEW t \in EvoThreads, NEW STATE to, Go(t, to), UNCHANGED logged,
           excused => excused',
           genome' \in [EvoGroups -> Genome],
           \A g \in EvoGroups : genome'[g].generation = genome[g].generation,
           ~excused' => \A u \in EvoThreads : cycle[u].at # "idle" => u = t,
           to.at \in Midway => HasGroup(to),
           to.at = "read" => to.group \in EvoGroups,
           to.at = "write" => /\ to.group \in EvoGroups /\ to.new \in Genome
                              /\ ~excused' => to.new.generation = genome[to.group].generation + 1
    PROVE  GenomesInv'
<1>1. cycle'[t] = to /\ \A u \in EvoThreads : u # t => cycle'[u] = cycle[u]
  BY DEF GenomesInv, Go
<1>2. DOMAIN cycle' = EvoThreads
  BY DEF GenomesInv, Go
<1>3. ThreadOf(t)'
  BY <1>1 DEF ThreadOf
<1>4. ASSUME NEW u \in EvoThreads, u # t PROVE ThreadOf(u)'
  <2>1. ThreadOf(u) /\ cycle'[u] = cycle[u]
    BY <1>1, <1>4 DEF GenomesInv
  <2>2. cycle[u].at = "write" /\ ~excused' =>
            cycle[u].new.generation = genome'[cycle[u].group].generation + 1
    BY <2>1 DEF ThreadOf
  <2>3. cycle'[u].at \in Midway => HasGroup(cycle'[u])
    BY <2>1 DEF ThreadOf
  <2>4. cycle'[u].at = "read" => cycle'[u].group \in EvoGroups
    BY <2>1 DEF ThreadOf
  <2>5. cycle'[u].at = "write" =>
            /\ cycle'[u].group \in EvoGroups /\ cycle'[u].new \in Genome
            /\ ~excused' => cycle'[u].new.generation = genome'[cycle'[u].group].generation + 1
    BY <2>1, <2>2 DEF ThreadOf
  <2>6. QED
    BY <2>3, <2>4, <2>5 DEF ThreadOf
<1>5. ~excused' => OneThread' /\ \A g \in EvoGroups : genome'[g].generation = logged'[g]
  BY <1>1 DEF GenomesInv, OneThread
<1>6. QED
  BY <1>2, <1>3, <1>4, <1>5 DEF GenomesInv

\* The thread that is at work is the only one, as long as nothing is excused.
LEMMA OthersIdle ==
    ASSUME GenomesInv, NEW t \in EvoThreads, cycle[t].at # "idle"
    PROVE  ~excused => \A u \in EvoThreads : cycle[u].at # "idle" => u = t
BY DEF GenomesInv, OneThread

\* The write of a thread adds a generation and an event together, or neither.
LEMMA WriteKeeps ==
    ASSUME GenomesInv, NEW t \in EvoThreads, Write(t)
    PROVE  GenomesInv'
<1> DEFINE g == cycle[t].group
<1> DEFINE new == cycle[t].new
<1> DEFINE to == [at |-> "group", todo |-> cycle[t].todo \ {cycle[t].group}]
<1>1. /\ cycle[t].at = "write" /\ Go(t, to) /\ UNCHANGED excused
      /\ \/ UNCHANGED <<genome, logged>>
         \/ /\ genome' = [genome EXCEPT ![g] = new]
            /\ logged' = [logged EXCEPT ![g] = @ + 1]
  BY DEF Write, WriteGenome, NextGroup, Quiet
<1>2. /\ g \in EvoGroups /\ new \in Genome
      /\ ~excused => new.generation = genome[g].generation + 1
      /\ ~excused => \A u \in EvoThreads : cycle[u].at # "idle" => u = t
  BY <1>1, OthersIdle DEF GenomesInv, ThreadOf
<1>3. CASE UNCHANGED <<genome, logged>>
  BY <1>1, <1>2, <1>3, ThreadMoves DEF GenomesInv, Midway
<1>4. CASE genome' = [genome EXCEPT ![g] = new] /\ logged' = [logged EXCEPT ![g] = @ + 1]
  <2>1. /\ cycle'[t] = to /\ \A u \in EvoThreads : u # t => cycle'[u] = cycle[u]
        /\ DOMAIN cycle' = EvoThreads
    BY <1>1 DEF GenomesInv, Go
  <2> HIDE DEF g, new
  <2>2. genome' \in [EvoGroups -> Genome] /\ logged' \in [EvoGroups -> Nat]
    BY <1>2, <1>4 DEF GenomesInv
  <2>3. ThreadOf(t)'
    BY <2>1 DEF ThreadOf, Midway
  <2>4. ASSUME NEW u \in EvoThreads, u # t PROVE ThreadOf(u)'
    <3>1. ThreadOf(u) /\ cycle'[u] = cycle[u]
      BY <2>1, <2>4 DEF GenomesInv
    <3>2. cycle'[u].at \in Midway => HasGroup(cycle'[u])
      BY <3>1 DEF ThreadOf
    <3>3. cycle'[u].at = "read" => cycle'[u].group \in EvoGroups
      BY <3>1 DEF ThreadOf
    <3>4. cycle'[u].at = "write" => cycle'[u].group \in EvoGroups /\ cycle'[u].new \in Genome
      BY <3>1 DEF ThreadOf
    <3>5. cycle'[u].at = "write" => excused'
      BY <1>1, <1>2, <2>1, <2>4
    <3>6. QED
      BY <3>2, <3>3, <3>4, <3>5 DEF ThreadOf
  <2>5. ~excused' => OneThread' /\ \A h \in EvoGroups : genome'[h].generation = logged'[h]
    <3> SUFFICES ASSUME ~excused'
                 PROVE  OneThread' /\ \A h \in EvoGroups : genome'[h].generation = logged'[h]
      OBVIOUS
    <3>1. OneThread'
      BY <1>1, <1>2, <2>1 DEF OneThread
    <3>2. ASSUME NEW h \in EvoGroups PROVE genome'[h].generation = logged'[h]
      <4>1. genome[h].generation = logged[h] /\ ~excused
        BY <1>1 DEF GenomesInv
      <4>2. CASE h = g
        <5>1. genome'[h] = new /\ logged'[h] = logged[g] + 1
          BY <1>2, <1>4, <4>2 DEF GenomesInv
        <5>2. QED
          BY <1>2, <4>1, <4>2, <5>1
      <4>3. CASE h # g
        BY <1>2, <1>4, <4>1, <4>3 DEF GenomesInv
      <4>4. QED
        BY <4>2, <4>3
    <3>3. QED
      BY <3>1, <3>2
  <2>6. QED
    BY <2>1, <2>2, <2>3, <2>4, <2>5 DEF GenomesInv
<1>5. QED
  BY <1>1, <1>3, <1>4

\* What a thread midway in a group holds.
LEMMA MidwayHas ==
    ASSUME GenomesInv, NEW t \in EvoThreads, cycle[t].at \in Midway
    PROVE  /\ cycle[t].group \in EvoGroups
           /\ \A at \in Midway \cup {"read"} :
                 LET to == [cycle[t] EXCEPT !.at = at] IN to.at = at /\ HasGroup(to)
<1>1. PICK todo, group, ms :
          /\ group \in EvoGroups
          /\ cycle[t] = [at |-> cycle[t].at, todo |-> todo, group |-> group, ms |-> ms]
  BY DEF GenomesInv, ThreadOf, HasGroup
<1>2. cycle[t].group = group
  BY <1>1
<1>3. ASSUME NEW at
      PROVE  [cycle[t] EXCEPT !.at = at] = [at |-> at, todo |-> todo, group |-> group, ms |-> ms]
  BY <1>1
<1>4. ASSUME NEW at
      PROVE  LET to == [cycle[t] EXCEPT !.at = at] IN to.at = at /\ HasGroup(to)
  <2> DEFINE to == [cycle[t] EXCEPT !.at = at]
  <2>1. to = [at |-> at, todo |-> todo, group |-> group, ms |-> ms]
    BY <1>3
  <2> HIDE DEF to
  <2>2. to.at = at
    BY <2>1
  <2>3. HasGroup(to)
    BY <1>1, <2>1, <2>2, Zenon DEF HasGroup
  <2>4. QED
    BY <2>2, <2>3 DEF to
<1>5. QED
  BY <1>1, <1>2, <1>4, Zenon

\* The steps of a thread before it writes.
LEMMA ThreadKeeps ==
    ASSUME GenomesInv, NEW t \in EvoThreads,
           \/ \E g \in EvoGroups : Sample(t, g)
           \/ ValidateGenome(t) \/ Reset(t) \/ Measure(t) \/ EndCycle(t)
    PROVE  GenomesInv'
<1>1. /\ genome \in [EvoGroups -> Genome]
      /\ UNCHANGED <<logged, excused>> /\ cycle[t].at # "idle"
  <2>1. genome \in [EvoGroups -> Genome]
    BY DEF GenomesInv
  <2>2. ASSUME NEW g \in EvoGroups, Sample(t, g)
        PROVE  cycle[t].at = "group" /\ UNCHANGED <<logged, excused>>
    BY <2>2 DEF Sample, Quiet
  <2>3. ValidateGenome(t) => cycle[t].at = "validate" /\ UNCHANGED <<logged, excused>>
    BY DEF ValidateGenome, Quiet
  <2>4. Reset(t) => cycle[t].at = "reset" /\ UNCHANGED <<logged, excused>>
    BY DEF Reset, Quiet
  <2>5. Measure(t) => cycle[t].at = "fitness" /\ UNCHANGED <<logged, excused>>
    BY DEF Measure, Quiet
  <2>6. EndCycle(t) => cycle[t].at = "group" /\ UNCHANGED <<logged, excused>>
    BY DEF EndCycle, Quiet
  <2>7. QED
    BY <2>1, <2>2, <2>3, <2>4, <2>5, <2>6
<1>2. ~excused' => \A u \in EvoThreads : cycle[u].at # "idle" => u = t
  BY <1>1, OthersIdle
<1>3. ASSUME NEW g \in EvoGroups, Sample(t, g) PROVE GenomesInv'
  <2> DEFINE skip == [at |-> "group", todo |-> cycle[t].todo \ {g}]
  <2> DEFINE go == [at |-> "validate", todo |-> cycle[t].todo, group |-> g, ms |-> AvgMs(runs[g])]
  <2>1. (Go(t, skip) \/ Go(t, go)) /\ UNCHANGED genome
    BY <1>3 DEF Sample
  <2>2. skip.at = "group" /\ go.at = "validate"
    OBVIOUS
  <2>3. HasGroup(go)
    BY DEF HasGroup
  <2> HIDE DEF skip, go
  <2>4. CASE Go(t, skip)
    BY <1>1, <1>2, <2>1, <2>2, <2>4, ThreadMoves DEF Midway
  <2>5. CASE Go(t, go)
    BY <1>1, <1>2, <2>1, <2>2, <2>3, <2>5, ThreadMoves DEF Midway
  <2>6. QED
    BY <2>1, <2>4, <2>5
<1>4. ASSUME NEW at \in Midway, cycle[t].at \in Midway, Go(t, [cycle[t] EXCEPT !.at = at]),
             genome' \in [EvoGroups -> Genome],
             \A h \in EvoGroups : genome'[h].generation = genome[h].generation
      PROVE  GenomesInv'
  <2> DEFINE to == [cycle[t] EXCEPT !.at = at]
  <2>1. to.at = at
    BY <1>4, MidwayHas
  <2>2. HasGroup(to)
    BY <1>4, MidwayHas
  <2>3. Go(t, to)
    BY <1>4
  <2> HIDE DEF to
  <2>4. QED
    BY <1>1, <1>2, <1>4, <2>1, <2>2, <2>3, ThreadMoves DEF Midway
<1>5. CASE ValidateGenome(t)
  <2>1. \E at \in {"fitness", "reset"} : Go(t, [cycle[t] EXCEPT !.at = at])
    BY <1>5 DEF ValidateGenome
  <2>2. cycle[t].at \in Midway /\ UNCHANGED genome
    BY <1>5 DEF ValidateGenome, Midway
  <2>3. QED
    BY <1>1, <1>4, <2>1, <2>2 DEF Midway
<1>6. CASE Reset(t)
  <2>1. Go(t, [cycle[t] EXCEPT !.at = "fitness"]) /\ cycle[t].at \in Midway
    BY <1>6 DEF Reset, Midway
  <2>2. cycle[t].group \in EvoGroups
    BY <2>1, MidwayHas
  <2> DEFINE g == cycle[t].group
  <2> DEFINE default == [DEFAULT_GENOME EXCEPT !.generation = genome[g].generation]
  <2>3. UNCHANGED genome \/ genome' = [genome EXCEPT ![g] = default]
    BY <1>6 DEF Reset
  <2>4. default = [style |-> 2, formality |-> 500, depth |-> 500,
                   generation |-> genome[g].generation]
    BY DEF DEFAULT_GENOME
  <2>5. genome[g].generation \in Nat
    BY <1>1, <2>2 DEF Genome
  <2>6. 2 \in DOMAIN Styles
    BY DEF Styles
  <2> HIDE DEF default, g
  <2>7. default \in Genome /\ default.generation = genome[g].generation
    BY <2>4, <2>5, <2>6 DEF Genome
  <2>8. /\ genome' \in [EvoGroups -> Genome]
        /\ \A h \in EvoGroups : genome'[h].generation = genome[h].generation
    BY <1>1, <2>3, <2>7
  <2>9. QED
    BY <1>4, <2>1, <2>8 DEF Midway
<1>7. CASE Measure(t)
  <2>1. PICK f \in {compute_fitness(runs[cycle[t].group]), 5000} :
            Go(t, [at |-> "read", todo |-> cycle[t].todo, group |-> cycle[t].group,
                   ms |-> cycle[t].ms, fitness |-> f])
    BY <1>7 DEF Measure
  <2> DEFINE to == [at |-> "read", todo |-> cycle[t].todo, group |-> cycle[t].group,
                    ms |-> cycle[t].ms, fitness |-> f]
  <2>2. cycle[t].at \in Midway /\ UNCHANGED genome
    BY <1>7 DEF Measure, Midway
  <2>3. to.at = "read" /\ to.group \in EvoGroups
    BY <2>2, MidwayHas
  <2>4. Go(t, to)
    BY <2>1
  <2> HIDE DEF to
  <2>5. QED
    BY <1>1, <1>2, <2>2, <2>3, <2>4, ThreadMoves DEF Midway
<1>8. CASE EndCycle(t)
  <2>1. Go(t, NoCycle) /\ UNCHANGED genome /\ NoCycle.at = "idle"
    BY <1>8 DEF EndCycle, NoCycle
  <2>2. QED
    BY <1>1, <1>2, <2>1, ThreadMoves DEF Midway
<1>9. QED
  BY <1>3, <1>5, <1>6, <1>7, <1>8

\* A thread reads the genome; what it is to write is one generation on, or is excused.
LEMMA ReadKeeps ==
    ASSUME GenomesInv, NEW t \in EvoThreads, ReadGenome(t)
    PROVE  GenomesInv'
<1> DEFINE g == cycle[t].group
<1>1. /\ cycle[t].at = "read" /\ UNCHANGED <<genome, logged>> /\ (excused => excused')
      /\ g \in EvoGroups /\ genome[g] \in Genome
  BY DEF ReadGenome, tables, GenomesInv, ThreadOf
<1>2. DEFAULT_GENOME \in Genome
  BY DEF DEFAULT_GENOME, Genome, Styles
<1>3. PICK old \in {genome[g], DEFAULT_GENOME} :
          /\ \E new \in Evolved(old, cycle[t].fitness, cycle[t].ms) :
                Go(t, [at |-> "write", todo |-> cycle[t].todo, group |-> g, new |-> new])
          /\ old # genome[g] => excused'
  BY DEF ReadGenome
<1>4. PICK new \in Evolved(old, cycle[t].fitness, cycle[t].ms) :
          Go(t, [at |-> "write", todo |-> cycle[t].todo, group |-> g, new |-> new])
  BY <1>3
<1>5. old \in Genome
  BY <1>1, <1>2
<1>6. new \in Genome /\ new.generation = old.generation + 1
  BY <1>5, EvolvedStays
<1> DEFINE to == [at |-> "write", todo |-> cycle[t].todo, group |-> g, new |-> new]
<1>7. /\ Go(t, to) /\ to.at = "write" /\ to.group = g /\ to.new = new
  BY <1>4
<1>8. ~excused' => \A u \in EvoThreads : cycle[u].at # "idle" => u = t
  BY <1>1, OthersIdle
<1>9. genome' \in [EvoGroups -> Genome]
  BY <1>1 DEF GenomesInv
<1> HIDE DEF to, g
<1>10. QED
  BY <1>1, <1>3, <1>6, <1>7, <1>8, <1>9, ThreadMoves DEF Midway

\* A cycle starts; while another one is at work, everything after it is excused.
LEMMA StartKeeps ==
    ASSUME GenomesInv, NEW t \in EvoThreads, StartCycle(t)
    PROVE  GenomesInv'
<1> DEFINE to == [at |-> "group", todo |-> EvoGroups]
<1>1. /\ Go(t, to) /\ to.at = "group" /\ UNCHANGED <<genome, logged>>
      /\ excused' = (excused \/ Working # {})
  BY DEF StartCycle, tables
<1>2. ~excused' => \A u \in EvoThreads : cycle[u].at # "idle" => u = t
  BY <1>1 DEF Working
<1>3. genome' \in [EvoGroups -> Genome]
  BY <1>1 DEF GenomesInv
<1> HIDE DEF to
<1>4. QED
  BY <1>1, <1>2, <1>3, ThreadMoves DEF Midway

\* Every step keeps the genomes in their ranges and the log complete.
LEMMA GenomesNext == GenomesInv /\ [EvoNext]_evoVars => GenomesInv'
<1> SUFFICES ASSUME GenomesInv, [EvoNext]_evoVars PROVE GenomesInv'
  OBVIOUS
<1>1. ASSUME UNCHANGED <<genome, logged, cycle, excused>> PROVE GenomesInv'
  BY <1>1 DEF GenomesInv, ThreadOf, OneThread
<1>2. ASSUME NEW g \in EvoGroups, Corrupt(g) PROVE GenomesInv'
  <2>1. /\ genome' = [genome EXCEPT ![g].style = BadStyle]
        /\ UNCHANGED <<logged, cycle, excused>>
    BY <1>2 DEF Corrupt
  <2>2. genome' \in [EvoGroups -> Genome]
    <3>1. genome[g] \in Genome /\ genome \in [EvoGroups -> Genome]
      BY DEF GenomesInv
    <3>2. [genome[g] EXCEPT !.style = BadStyle] \in Genome
      BY <3>1 DEF Genome
    <3>3. genome' = [genome EXCEPT ![g] = [genome[g] EXCEPT !.style = BadStyle]]
      BY <2>1
    <3>4. QED
      BY <3>1, <3>2, <3>3
  <2>3. \A h \in EvoGroups : genome'[h].generation = genome[h].generation
    BY <2>1 DEF GenomesInv, Genome
  <2>4. \A t \in EvoThreads : ThreadOf(t)'
    BY <2>1, <2>3 DEF GenomesInv, ThreadOf
  <2>5. QED
    BY <2>1, <2>2, <2>3, <2>4 DEF GenomesInv, OneThread
<1>3. CASE EvoCrash
  BY <1>3 DEF EvoCrash, GenomesInv, ThreadOf, OneThread, tables, NoCycle, Midway
<1>4. CASE \/ \E g \in EvoGroups, k \in RunKinds : RecordRun(g, k) \/ ExpireRun(g, k)
           \/ EndWait \/ RunPasses \/ UNCHANGED evoVars
  BY <1>1, <1>4 DEF RecordRun, ExpireRun, EndWait, RunPasses, evoVars, tables
<1>5. ASSUME NEW t \in EvoThreads, CycleStep(t) PROVE GenomesInv'
  BY <1>5, ThreadKeeps, ReadKeeps, WriteKeeps DEF CycleStep
<1>6. QED
  BY <1>2, <1>3, <1>4, <1>5, StartKeeps DEF EvoNext

\* Every step keeps what the process believes about the passes behind what is stored.
LEMMA ScheduleNext == ScheduleInv /\ [EvoNext]_evoVars => ScheduleInv'
<1> SUFFICES ASSUME ScheduleInv, [EvoNext]_evoVars PROVE ScheduleInv'
  OBVIOUS
<1>0. INTERVAL \in [Passes -> Nat \ {0}]
  BY IntervalAssumption
<1>1. CASE UNCHANGED schedule
  BY <1>1 DEF schedule, ScheduleInv
<1>2. ASSUME NEW t \in EvoThreads, StartCycle(t) PROVE ScheduleInv'
  <2>1. /\ since' = [p \in Passes |-> Min({since[p] + 1, INTERVAL[p]})]
        /\ saved' = [p \in Passes |-> Min({saved[p] + 1, INTERVAL[p]})]
        /\ UNCHANGED <<loaded, early>>
    BY <1>2 DEF StartCycle
  <2>2. ASSUME NEW p \in Passes, NEW n \in Nat
        PROVE  /\ Min({n + 1, INTERVAL[p]}) \in Nat
               /\ Min({n + 1, INTERVAL[p]}) = n + 1 \/ Min({n + 1, INTERVAL[p]}) = INTERVAL[p]
               /\ n + 1 <= INTERVAL[p] => Min({n + 1, INTERVAL[p]}) = n + 1
               /\ n + 1 >= INTERVAL[p] => Min({n + 1, INTERVAL[p]}) = INTERVAL[p]
    <3>1. PICK i \in Nat : i = INTERVAL[p]
      BY <1>0
    <3>2. n + 1 <= i => Min({n + 1, i}) = n + 1
      BY TwoNumbers
    <3>3. n + 1 >= i => Min({n + 1, i}) = i
      BY TwoNumbers
    <3>4. QED
      BY <3>1, <3>2, <3>3
  <2>3. \A p \in Passes : since[p] \in Nat /\ saved[p] \in Nat
    BY DEF ScheduleInv
  <2>4. since' \in [Passes -> Nat] /\ saved' \in [Passes -> Nat]
    BY <2>1, <2>2, <2>3
  <2>5. CASE loaded
    <3>1. ASSUME NEW p \in Passes PROVE since'[p] <= saved'[p]
      <4>1. since[p] <= saved[p]
        BY <2>5 DEF ScheduleInv
      <4>2. PICK i \in Nat : i = INTERVAL[p]
        BY <1>0
      <4>3. since'[p] = Min({since[p] + 1, i}) /\ saved'[p] = Min({saved[p] + 1, i})
        BY <2>1, <4>2
      <4>4. /\ since[p] + 1 <= i => since'[p] = since[p] + 1
            /\ since[p] + 1 >= i => since'[p] = i
            /\ saved[p] + 1 <= i => saved'[p] = saved[p] + 1
            /\ saved[p] + 1 >= i => saved'[p] = i
        BY <2>2, <2>3, <4>2, <4>3
      <4>5. QED
        BY <2>3, <4>1, <4>4
    <3>2. QED
      BY <2>1, <2>4, <2>5, <3>1 DEF ScheduleInv
  <2>6. CASE ~loaded
    <3>1. ASSUME NEW p \in Passes PROVE since'[p] = INTERVAL[p]
      <4>1. since[p] = INTERVAL[p] /\ since[p] \in Nat /\ since[p] + 1 >= INTERVAL[p]
        BY <2>3, <2>6 DEF ScheduleInv
      <4>2. QED
        BY <2>1, <2>2, <4>1
    <3>2. since' = INTERVAL
      BY <1>0, <2>4, <3>1
    <3>3. QED
      BY <2>1, <2>4, <2>6, <3>2 DEF ScheduleInv
  <2>7. QED
    BY <2>5, <2>6 DEF ScheduleInv
<1>3. CASE RunPasses
  <2>1. PICK known \in {LoadTimestamps, since}, recorded \in SUBSET Passes :
            /\ recorded \subseteq {p \in Passes : known[p] >= INTERVAL[p]}
            /\ since' = [p \in Passes |-> IF p \in {q \in Passes : known[q] >= INTERVAL[q]}
                                          THEN 0 ELSE known[p]]
            /\ saved' = [p \in Passes |-> IF p \in recorded THEN 0 ELSE saved[p]]
            /\ early' = early \cup (IF known = LoadTimestamps
                                    THEN {p \in recorded : saved[p] < INTERVAL[p]} ELSE {})
    BY <1>3 DEF RunPasses
  <2>2. loaded'
    BY <1>3 DEF RunPasses
  <2>3. /\ since \in [Passes -> Nat] /\ saved \in [Passes -> Nat] /\ early = {}
        /\ known \in {since, saved}
    BY DEF ScheduleInv, LoadTimestamps
  <2>4. since' \in [Passes -> Nat] /\ saved' \in [Passes -> Nat]
    BY <2>1, <2>3
  <2>5. ASSUME NEW p \in Passes, known[p] >= INTERVAL[p] \/ known[p] <= saved[p]
        PROVE  since'[p] <= saved'[p]
    BY <2>1, <2>3, <2>5
  <2>6. ASSUME NEW p \in Passes PROVE known[p] >= INTERVAL[p] \/ known[p] <= saved[p]
    BY <1>0, <2>1, <2>3 DEF ScheduleInv, LoadTimestamps
  <2>7. early' = {}
    <3>1. ASSUME known = LoadTimestamps, NEW p \in recorded PROVE ~(saved[p] < INTERVAL[p])
      <4>1. known[p] >= INTERVAL[p] /\ p \in Passes
        BY <2>1
      <4>2. known[p] <= saved[p]
        BY <2>3, <3>1, <4>1 DEF ScheduleInv, LoadTimestamps
      <4>3. QED
        BY <1>0, <2>3, <4>1, <4>2
    <3>2. QED
      BY <2>1, <2>3, <3>1
  <2>8. QED
    BY <2>2, <2>4, <2>5, <2>6, <2>7 DEF ScheduleInv
<1>4. CASE EvoCrash
  BY <1>0, <1>4 DEF EvoCrash, ScheduleInv
<1>5. CASE UNCHANGED evoVars
  BY <1>1, <1>5 DEF evoVars, schedule
<1>6. ASSUME NEW t \in EvoThreads, CycleStep(t) PROVE UNCHANGED schedule
  <2>1. Quiet => UNCHANGED schedule
    BY DEF Quiet
  <2>2. ReadGenome(t) => UNCHANGED schedule
    BY DEF ReadGenome
  <2>3. \A g \in EvoGroups : Sample(t, g) => Quiet
    BY DEF Sample
  <2>4. ValidateGenome(t) \/ Reset(t) => Quiet
    BY DEF ValidateGenome, Reset
  <2>5. Measure(t) => Quiet
    BY DEF Measure
  <2>6. Write(t) \/ EndCycle(t) => Quiet
    BY DEF Write, EndCycle
  <2>7. QED
    BY <1>6, <2>1, <2>2, <2>3, <2>4, <2>5, <2>6 DEF CycleStep
<1>7. CASE \/ \E g \in EvoGroups, k \in RunKinds : RecordRun(g, k) \/ ExpireRun(g, k)
           \/ \E g \in EvoGroups : Corrupt(g)
           \/ EndWait
  BY <1>1, <1>7 DEF RecordRun, ExpireRun, Corrupt, EndWait
<1>8. QED
  BY <1>1, <1>2, <1>3, <1>4, <1>5, <1>6, <1>7 DEF EvoNext

\* evolution_loop over any groups, runs, cycles, crashes, corrupt rows and failed
\* transactions: genomes stay in range, the log of evolutions is complete unless two cycles
\* overlapped or a row could not be read, and a restart repeats no memory pass early.
THEOREM EvolutionStaysSound == EvoSpec => []EvolutionSound
<1>1. EvoInit => GenomesInv
  BY StartAssumption DEF EvoInit, GenomesInv, ThreadOf, OneThread, NoCycle, Midway, Genome
<1>2. EvoInit => ScheduleInv
  BY IntervalAssumption DEF EvoInit, ScheduleInv
<1>3. GenomesInv /\ ScheduleInv => EvolutionSound
  BY DEF GenomesInv, ScheduleInv, EvolutionSound, GenomeInRange, HistoryKept, PassesSpaced, Genome
<1>4. QED
  BY <1>1, <1>2, <1>3, GenomesNext, ScheduleNext, PTL DEF EvoSpec

-----------------------------------------------------------------------------
(* Delivery: the chunks of a reply. *)

Calls == {[at |-> "idle"], [at |-> "store"], [at |-> "done"]}
         \cup [at : {"send"}, chunk : Nat \ {0}, attempt : Nat]
         \cup [at : {"notify"}, then : {[at |-> "store"]}]

\* What a chat has of a reply: chunks in order, one after the other or repeated, and no
\* notice yet.
InChat(r) ==
    \A i \in DOMAIN chat[r] :
        /\ chat[r][i] # Notice
        /\ IF i = 1 THEN chat[r][i] = 1 ELSE chat[r][i] - chat[r][i-1] \in {0, 1}

\* While a reply is sent its last chunk in the chat is the one before the current chunk, or
\* the current one after a lost answer; a call has not failed more often than there were
\* failures, and one that gives up failed in every attempt.
CallOf(r) ==
    /\ route[r].at = "idle" => chat[r] = <<>>
    /\ route[r].at = "send" =>
          /\ InChat(r)
          /\ IF chat[r] = <<>> THEN route[r].chunk = 1
             ELSE chat[r][Len(chat[r])] \in {route[r].chunk - 1, route[r].chunk}
          /\ route[r].attempt <= outBudget.faults
    /\ route[r].at = "notify" =>
          InChat(r) /\ outBudget.faults > CHUNK_MAX_RETRIES

RouteInv ==
    /\ route \in [Replies -> Calls]
    /\ chat \in [Replies -> Seq(Nat)]
    /\ outBudget \in [posts : Nat, faults : Nat]
    /\ \A r \in Replies : CallOf(r)
    /\ ChunksInOrder

\* A reply that nothing was done for keeps what is said of it, as failures only add up.
LEMMA CallRests ==
    ASSUME RouteInv, NEW r \in Replies, route'[r] = route[r], chat'[r] = chat[r],
           outBudget' \in [posts : Nat, faults : Nat], outBudget'.faults >= outBudget.faults
    PROVE  CallOf(r)'
<1>1. CallOf(r)
  BY DEF RouteInv
<1>2. outBudget.faults \in Nat /\ outBudget'.faults \in Nat
  BY DEF RouteInv
<1>3. CHUNK_MAX_RETRIES \in Nat
  BY OutAssumption
<1>4. route[r].at = "send" => route[r].attempt \in Nat
  <2>1. route[r] \in Calls
    BY DEF RouteInv
  <2>2. QED
    BY <2>1 DEF Calls
<1>5. InChat(r)' <=> InChat(r)
  BY DEF InChat
<1>6. QED
  BY <1>1, <1>2, <1>3, <1>4, <1>5 DEF CallOf

\* The chunks of a reply as ChunksInOrder states them.
ChunksOfOne(r) ==
    /\ \A i \in DOMAIN chat[r] :
          IF chat[r][i] = Notice THEN i = Len(chat[r])
          ELSE IF i = 1 THEN chat[r][i] = 1
          ELSE chat[r][i] - chat[r][i-1] \in {0, 1}
    /\ route[r].at \in {"store", "done"} /\ r \notin Unroutable =>
          \/ outBudget.faults > CHUNK_MAX_RETRIES
          \/ chat[r] # <<>> /\ Last(chat[r]) = ChunksOf[r]

\* What happens to other replies keeps the chunks of this one in order.
LEMMA ChunksRest ==
    ASSUME RouteInv, NEW r \in Replies, route'[r] = route[r], chat'[r] = chat[r],
           outBudget' \in [posts : Nat, faults : Nat], outBudget'.faults >= outBudget.faults
    PROVE  ChunksOfOne(r)'
<1>1. ChunksOfOne(r)
  BY DEF RouteInv, ChunksInOrder, ChunksOfOne
<1>2. outBudget.faults \in Nat /\ outBudget'.faults \in Nat /\ CHUNK_MAX_RETRIES \in Nat
  BY OutAssumption DEF RouteInv
<1>3. QED
  BY <1>1, <1>2 DEF ChunksOfOne, Last

\* One call goes on, with a chunk or the notice in the chat or not; the others rest.
LEMMA CallMoves ==
    ASSUME RouteInv, NEW r \in Replies, NEW STATE to, To(r, to), to \in Calls,
           \/ UNCHANGED chat
           \/ \E c \in Nat : Arrives(r, c),
           outBudget' \in [posts : Nat, faults : Nat], outBudget'.faults >= outBudget.faults,
           CallOf(r)', ChunksOfOne(r)'
    PROVE  RouteInv'
<1>1. /\ route' \in [Replies -> Calls] /\ route'[r] = to
      /\ \A q \in Replies : q # r => route'[q] = route[q]
  BY DEF To, RouteInv
<1>2. /\ chat' \in [Replies -> Seq(Nat)]
      /\ \A q \in Replies : q # r => chat'[q] = chat[q]
  <2>1. chat \in [Replies -> Seq(Nat)]
    BY DEF RouteInv
  <2>2. ASSUME NEW c \in Nat, Arrives(r, c)
        PROVE  /\ chat' \in [Replies -> Seq(Nat)]
               /\ \A q \in Replies : q # r => chat'[q] = chat[q]
    <3>1. Append(chat[r], c) \in Seq(Nat)
      BY <2>1
    <3>2. chat' = [chat EXCEPT ![r] = Append(chat[r], c)]
      BY <2>2 DEF Arrives
    <3>3. QED
      BY <2>1, <3>1, <3>2
  <2>3. QED
    BY <2>1, <2>2
<1>3. \A q \in Replies : CallOf(q)'
  BY <1>1, <1>2, CallRests
<1>4. \A q \in Replies : ChunksOfOne(q)'
  BY <1>1, <1>2, ChunksRest
<1>5. ChunksInOrder'
  BY <1>4 DEF ChunksInOrder, ChunksOfOne
<1>6. QED
  BY <1>1, <1>2, <1>3, <1>5 DEF RouteInv

\* What Append does to a sequence of numbers.
LEMMA Appended ==
    ASSUME NEW s \in Seq(Nat), NEW c \in Nat
    PROVE  /\ Append(s, c) # <<>> /\ Append(s, c) \in Seq(Nat)
           /\ Len(s) \in Nat /\ DOMAIN s = 1..Len(s) /\ Len(Append(s, c)) = Len(s) + 1
           /\ DOMAIN Append(s, c) = 1..(Len(s) + 1) /\ Append(s, c)[Len(s) + 1] = c
           /\ \A i \in 1..Len(s) : Append(s, c)[i] = s[i]
OBVIOUS

\* A chunk that arrives is the next one, or the last one once more.
LEMMA ChunkArrives ==
    ASSUME RouteInv, NEW r \in Replies, route[r].at = "send", Arrives(r, route[r].chunk)
    PROVE  /\ InChat(r)'
           /\ chat'[r] # <<>> /\ chat'[r] \in Seq(Nat) /\ chat'[r][Len(chat'[r])] = route[r].chunk
<1>1. chat[r] \in Seq(Nat) /\ route[r] \in Calls /\ CallOf(r)
  BY DEF RouteInv
<1>2. route[r].chunk \in Nat \ {0}
  BY <1>1 DEF Calls
<1>3. chat'[r] = Append(chat[r], route[r].chunk)
  BY DEF Arrives, RouteInv
<1>4. /\ chat'[r] # <<>> /\ chat'[r] \in Seq(Nat) /\ Len(chat'[r]) = Len(chat[r]) + 1
      /\ DOMAIN chat'[r] = 1..(Len(chat[r]) + 1)
      /\ chat'[r][Len(chat'[r])] = route[r].chunk
      /\ Len(chat[r]) \in Nat /\ DOMAIN chat[r] = 1..Len(chat[r])
      /\ \A i \in 1..Len(chat[r]) : chat'[r][i] = chat[r][i]
  <2>1. route[r].chunk \in Nat
    BY <1>2
  <2> DEFINE new == Append(chat[r], route[r].chunk)
  <2>2. /\ new # <<>> /\ new \in Seq(Nat)
        /\ Len(chat[r]) \in Nat /\ DOMAIN chat[r] = 1..Len(chat[r]) /\ Len(new) = Len(chat[r]) + 1
        /\ DOMAIN new = 1..(Len(chat[r]) + 1) /\ new[Len(chat[r]) + 1] = route[r].chunk
        /\ \A i \in 1..Len(chat[r]) : new[i] = chat[r][i]
    BY <1>1, <2>1, Appended, Zenon
  <2>3. chat'[r] = new
    BY <1>3
  <2> HIDE DEF new
  <2>4. QED
    BY <2>2, <2>3, Zenon
<1>5. InChat(r)'
  <2> SUFFICES ASSUME NEW i \in 1..(Len(chat[r]) + 1)
               PROVE  /\ chat'[r][i] # Notice
                      /\ IF i = 1 THEN chat'[r][i] = 1
                         ELSE chat'[r][i] - chat'[r][i-1] \in {0, 1}
    BY <1>4 DEF InChat
  <2>1. InChat(r) /\ DOMAIN chat[r] = 1..Len(chat[r]) /\ Len(chat[r]) \in Nat
    BY <1>1, <1>4 DEF CallOf
  <2>2. CASE i <= Len(chat[r])
    <3>1. i \in 1..Len(chat[r]) /\ (i # 1 => i - 1 \in 1..Len(chat[r]))
      BY <2>1, <2>2
    <3>2. chat'[r][i] = chat[r][i] /\ (i # 1 => chat'[r][i-1] = chat[r][i-1])
      BY <1>4, <3>1
    <3>3. /\ chat[r][i] # Notice
          /\ IF i = 1 THEN chat[r][i] = 1 ELSE chat[r][i] - chat[r][i-1] \in {0, 1}
      BY <2>1, <3>1 DEF InChat
    <3>4. QED
      BY <3>2, <3>3
  <2>3. CASE i = Len(chat[r]) + 1
    <3>1. chat'[r][i] = route[r].chunk
      BY <1>4, <2>3
    <3>2. CASE chat[r] = <<>>
      BY <1>1, <1>2, <2>3, <3>1, <3>2 DEF CallOf, Notice
    <3>3. CASE chat[r] # <<>>
      <4>1. Len(chat[r]) \in 1..Len(chat[r])
        BY <1>1, <3>3
      <4>2. /\ chat[r][Len(chat[r])] \in {route[r].chunk - 1, route[r].chunk}
            /\ chat'[r][i-1] = chat[r][Len(chat[r])] /\ i # 1
        BY <1>1, <1>4, <2>1, <2>3, <3>3, <4>1 DEF CallOf
      <4>3. QED
        BY <1>2, <3>1, <4>2 DEF Notice
    <3>4. QED
      BY <3>2, <3>3
  <2>4. QED
    BY <2>1, <2>2, <2>3
<1>6. QED
  BY <1>4, <1>5

\* What is in order and has no notice is as ChunksInOrder states.
LEMMA InChatMeans ==
    ASSUME NEW r \in Replies, InChat(r)', route'[r].at \notin {"store", "done"}
    PROVE  ChunksOfOne(r)'
BY DEF InChat, ChunksOfOne

\* A call of route_outbound starts.
LEMMA StartRouteKeeps ==
    ASSUME RouteInv, NEW r \in Replies, StartRoute(r) PROVE RouteInv'
<1> DEFINE store == [at |-> "store"]
<1> DEFINE send == [at |-> "send", chunk |-> 1, attempt |-> 0]
<1>1. /\ To(r, IF r \in Unroutable THEN store ELSE send) /\ UNCHANGED <<chat, outBudget>>
      /\ route[r].at = "idle"
  BY DEF StartRoute
<1>2. store \in Calls /\ send \in Calls
  BY DEF Calls
<1>3. /\ chat[r] = <<>> /\ outBudget \in [posts : Nat, faults : Nat]
      /\ route \in [Replies -> Calls]
  BY <1>1 DEF RouteInv, CallOf
<1>4. /\ store.at = "store"
      /\ send.at = "send" /\ send.chunk = 1 /\ send.attempt = 0
  OBVIOUS
<1>5. route'[r] = IF r \in Unroutable THEN store ELSE send
  BY <1>1, <1>3 DEF To
<1> HIDE DEF store, send
<1>6. InChat(r)'
  BY <1>1, <1>3 DEF InChat
<1>7. outBudget.faults \in Nat
  BY <1>3
<1>8. CASE r \in Unroutable
  <2>1. To(r, store) /\ route'[r].at = "store"
    BY <1>1, <1>4, <1>5, <1>8
  <2>2. CallOf(r)'
    BY <2>1 DEF CallOf
  <2>3. ChunksOfOne(r)'
    BY <1>6, <1>8 DEF ChunksOfOne, InChat
  <2>4. QED
    BY <1>1, <1>2, <1>3, <1>7, <2>1, <2>2, <2>3, CallMoves
<1>9. CASE r \notin Unroutable
  <2>1. To(r, send) /\ route'[r] = send
    BY <1>1, <1>5, <1>9
  <2>2. CallOf(r)'
    BY <1>1, <1>3, <1>4, <1>6, <1>7, <2>1 DEF CallOf
  <2>3. ChunksOfOne(r)'
    BY <1>4, <1>6, <2>1, InChatMeans
  <2>4. QED
    BY <1>1, <1>2, <1>3, <1>7, <2>1, <2>2, <2>3, CallMoves
<1>10. QED
  BY <1>8, <1>9

\* A chunk is sent, and the next one is due, or the reply is through.
LEMMA SendChunkKeeps ==
    ASSUME RouteInv, NEW r \in Replies, SendChunk(r) PROVE RouteInv'
<1>1. /\ To(r, NextChunk(r)) /\ Arrives(r, route[r].chunk) /\ UNCHANGED outBudget
      /\ route[r].at = "send"
  BY DEF SendChunk
<1>2. /\ InChat(r)' /\ chat'[r] # <<>> /\ chat'[r] \in Seq(Nat)
      /\ chat'[r][Len(chat'[r])] = route[r].chunk
  BY <1>1, ChunkArrives
<1>3. /\ route \in [Replies -> Calls] /\ outBudget \in [posts : Nat, faults : Nat]
      /\ outBudget.faults \in Nat
  BY DEF RouteInv
<1>4. route[r].chunk \in Nat \ {0}
  <2>1. route[r] \in Calls
    BY <1>3
  <2>2. QED
    BY <1>1, <2>1 DEF Calls
<1>5. route'[r] = NextChunk(r)
  BY <1>1, <1>3 DEF To
<1> DEFINE store == [at |-> "store"]
<1> DEFINE send == [at |-> "send", chunk |-> route[r].chunk + 1, attempt |-> 0]
<1>6. store \in Calls /\ send \in Calls
  BY <1>4 DEF Calls
<1>7. /\ store.at = "store"
      /\ send.at = "send" /\ send.chunk = route[r].chunk + 1 /\ send.attempt = 0
  OBVIOUS
<1>8. NextChunk(r) = IF route[r].chunk = ChunksOf[r] THEN store ELSE send
  BY DEF NextChunk
<1> HIDE DEF store, send
<1>9. CASE route[r].chunk = ChunksOf[r]
  <2>1. To(r, store) /\ route'[r].at = "store"
    BY <1>1, <1>5, <1>7, <1>8, <1>9
  <2>2. CallOf(r)'
    BY <2>1 DEF CallOf
  <2>3. ChunksOfOne(r)'
    BY <1>2, <1>9 DEF ChunksOfOne, InChat, Last
  <2>4. QED
    BY <1>1, <1>3, <1>4, <1>6, <2>1, <2>2, <2>3, CallMoves
<1>10. CASE route[r].chunk # ChunksOf[r]
  <2>1. To(r, send) /\ route'[r] = send
    BY <1>1, <1>5, <1>8, <1>10
  <2>2. CallOf(r)'
    BY <1>1, <1>2, <1>3, <1>4, <1>7, <2>1 DEF CallOf
  <2>3. ChunksOfOne(r)'
    BY <1>2, <1>7, <2>1, InChatMeans
  <2>4. QED
    BY <1>1, <1>3, <1>4, <1>6, <2>1, <2>2, <2>3, CallMoves
<1>11. QED
  BY <1>9, <1>10

\* A sending fails, with its chunk in the chat or not: another attempt, or the notice.
LEMMA SendFailsKeeps ==
    ASSUME RouteInv, NEW r \in Replies, SendFails(r) PROVE RouteInv'
<1> DEFINE again == [route[r] EXCEPT !.attempt = @ + 1]
<1>1. /\ To(r, IF route[r].attempt < CHUNK_MAX_RETRIES THEN again ELSE GiveUp(r))
      /\ Arrives(r, route[r].chunk) \/ UNCHANGED chat
      /\ outBudget' = [outBudget EXCEPT !.faults = @ + 1] /\ route[r].at = "send"
  BY DEF SendFails, OutFault
<1>2. /\ route \in [Replies -> Calls] /\ outBudget \in [posts : Nat, faults : Nat]
      /\ outBudget.faults \in Nat /\ CHUNK_MAX_RETRIES \in Nat /\ CallOf(r)
  BY OutAssumption DEF RouteInv
<1>3. route[r] \in [at : {"send"}, chunk : Nat \ {0}, attempt : Nat]
  <2>1. route[r] \in Calls
    BY <1>2
  <2>2. QED
    BY <1>1, <2>1 DEF Calls
<1>4. /\ outBudget' \in [posts : Nat, faults : Nat]
      /\ outBudget'.faults = outBudget.faults + 1
  BY <1>1, <1>2
<1>5. /\ InChat(r)'
      /\ IF chat'[r] = <<>> THEN route[r].chunk = 1
         ELSE chat'[r][Len(chat'[r])] \in {route[r].chunk - 1, route[r].chunk}
  <2>1. CASE UNCHANGED chat
    <3>1. InChat(r)' <=> InChat(r)
      BY <2>1 DEF InChat
    <3>2. QED
      BY <1>1, <1>2, <2>1, <3>1 DEF CallOf
  <2>2. CASE Arrives(r, route[r].chunk)
    BY <1>1, <2>2, ChunkArrives
  <2>3. QED
    BY <1>1, <2>1, <2>2
<1>6. /\ again \in Calls /\ again.at = "send" /\ again.chunk = route[r].chunk
      /\ again.attempt = route[r].attempt + 1
  BY <1>3 DEF Calls
<1>7. GiveUp(r) \in Calls /\ GiveUp(r).at = "notify"
  BY DEF GiveUp, Calls
<1>8. route[r].attempt <= outBudget.faults /\ route[r].attempt \in Nat
  BY <1>1, <1>2, <1>3 DEF CallOf
<1> HIDE DEF again
<1>9. UNCHANGED chat \/ \E c \in Nat : Arrives(r, c)
  BY <1>1, <1>3
<1>10. CASE route[r].attempt < CHUNK_MAX_RETRIES
  <2>1. To(r, again) /\ route'[r] = again
    BY <1>1, <1>2, <1>10 DEF To
  <2>2. CallOf(r)'
    BY <1>2, <1>4, <1>5, <1>6, <1>8, <2>1 DEF CallOf
  <2>3. ChunksOfOne(r)'
    BY <1>5, <1>6, <2>1, InChatMeans
  <2>4. QED
    BY <1>2, <1>4, <1>6, <1>9, <2>1, <2>2, <2>3, CallMoves
<1>11. CASE ~(route[r].attempt < CHUNK_MAX_RETRIES)
  <2>1. To(r, GiveUp(r)) /\ route'[r] = GiveUp(r)
    BY <1>1, <1>2, <1>11 DEF To
  <2>2. CallOf(r)'
    BY <1>2, <1>4, <1>5, <1>7, <1>8, <1>11, <2>1 DEF CallOf
  <2>3. ChunksOfOne(r)'
    BY <1>5, <1>7, <2>1, InChatMeans
  <2>4. QED
    BY <1>2, <1>4, <1>7, <1>9, <2>1, <2>2, <2>3, CallMoves
<1>12. QED
  BY <1>10, <1>11

\* The notice ends what a chat gets of a reply.
LEMMA NotifyKeeps ==
    ASSUME RouteInv, NEW r \in Replies, Notify(r) PROVE RouteInv'
<1> DEFINE store == [at |-> "store"]
<1>1. /\ To(r, route[r].then) /\ route[r].at = "notify"
      /\ \/ Arrives(r, Notice) /\ UNCHANGED outBudget
         \/ outBudget' = [outBudget EXCEPT !.faults = @ + 1] /\ UNCHANGED chat
  BY DEF Notify, OutFault
<1>2. /\ route \in [Replies -> Calls] /\ outBudget \in [posts : Nat, faults : Nat]
      /\ outBudget.faults \in Nat /\ CHUNK_MAX_RETRIES \in Nat /\ CallOf(r)
      /\ chat[r] \in Seq(Nat) /\ chat \in [Replies -> Seq(Nat)]
  BY OutAssumption DEF RouteInv
<1>3. route[r].then = store
  <2>1. route[r] \in Calls
    BY <1>2
  <2>2. QED
    BY <1>1, <2>1 DEF Calls
<1>4. store \in Calls /\ store.at = "store"
  BY DEF Calls
<1> HIDE DEF store
<1>5. To(r, store) /\ route'[r] = store
  BY <1>1, <1>2, <1>3 DEF To
<1>6. CallOf(r)'
  BY <1>4, <1>5 DEF CallOf
<1>7. /\ outBudget' \in [posts : Nat, faults : Nat] /\ outBudget'.faults >= outBudget.faults
      /\ outBudget'.faults > CHUNK_MAX_RETRIES
  BY <1>1, <1>2 DEF CallOf
<1>8. InChat(r)
  BY <1>1, <1>2 DEF CallOf
<1>9. CASE UNCHANGED chat
  <2>1. ChunksOfOne(r)'
    BY <1>7, <1>8, <1>9 DEF ChunksOfOne, InChat
  <2>2. QED
    BY <1>4, <1>5, <1>6, <1>7, <1>9, <2>1, CallMoves
<1>10. CASE Arrives(r, Notice)
  <2>1. chat'[r] = Append(chat[r], Notice) /\ Notice \in Nat
    BY <1>2, <1>10 DEF Arrives, Notice
  <2> DEFINE new == Append(chat[r], Notice)
  <2>2. /\ Len(chat[r]) \in Nat /\ DOMAIN chat[r] = 1..Len(chat[r]) /\ Len(new) = Len(chat[r]) + 1
        /\ DOMAIN new = 1..(Len(chat[r]) + 1) /\ new[Len(chat[r]) + 1] = Notice
        /\ \A i \in 1..Len(chat[r]) : new[i] = chat[r][i]
    BY <1>2, <2>1, Appended, Zenon
  <2> HIDE DEF new
  <2>3. ASSUME NEW i \in 1..(Len(chat[r]) + 1)
        PROVE  IF new[i] = Notice THEN i = Len(new)
               ELSE IF i = 1 THEN new[i] = 1
               ELSE new[i] - new[i-1] \in {0, 1}
    <3>1. CASE i <= Len(chat[r])
      <4>1. i \in 1..Len(chat[r]) /\ (i # 1 => i - 1 \in 1..Len(chat[r]))
        BY <2>2, <3>1
      <4>2. new[i] = chat[r][i] /\ (i # 1 => new[i-1] = chat[r][i-1])
        BY <2>2, <4>1
      <4>3. /\ chat[r][i] # Notice
            /\ IF i = 1 THEN chat[r][i] = 1 ELSE chat[r][i] - chat[r][i-1] \in {0, 1}
        BY <1>8, <2>2, <4>1 DEF InChat
      <4>4. QED
        BY <4>2, <4>3
    <3>2. CASE i = Len(chat[r]) + 1
      BY <2>2, <3>2
    <3>3. QED
      BY <2>2, <3>1, <3>2
  <2>4. chat'[r] = new
    BY <2>1 DEF new
  <2>5. ChunksOfOne(r)'
    BY <1>7, <2>2, <2>3, <2>4 DEF ChunksOfOne
  <2>6. QED
    BY <1>4, <1>5, <1>6, <1>7, <1>10, <2>1, <2>5, CallMoves
<1>11. QED
  BY <1>1, <1>9, <1>10

\* Storing the reply ends the call; what the chat has stays.
LEMMA DeliverKeeps ==
    ASSUME RouteInv, NEW r \in Replies, DeliverReply(r) PROVE RouteInv'
<1> DEFINE done == [at |-> "done"]
<1>1. To(r, done) /\ UNCHANGED <<chat, outBudget>> /\ route[r].at = "store"
  BY DEF DeliverReply
<1>2. /\ route \in [Replies -> Calls] /\ outBudget \in [posts : Nat, faults : Nat]
      /\ outBudget.faults \in Nat /\ ChunksOfOne(r)
  BY DEF RouteInv, ChunksInOrder, ChunksOfOne
<1>3. done \in Calls /\ done.at = "done"
  BY DEF Calls
<1> HIDE DEF done
<1>4. route'[r] = done
  BY <1>1, <1>2 DEF To
<1>5. CallOf(r)'
  BY <1>3, <1>4 DEF CallOf
<1>6. ChunksOfOne(r)'
  BY <1>1, <1>2, <1>3, <1>4 DEF ChunksOfOne, Last
<1>7. QED
  BY <1>1, <1>2, <1>3, <1>5, <1>6, CallMoves

\* Every step keeps the chunks in order.
LEMMA RouteNext == RouteInv /\ [OutNext]_outVars => RouteInv'
<1> SUFFICES ASSUME RouteInv, [OutNext]_outVars PROVE RouteInv'
  OBVIOUS
<1>1. ASSUME UNCHANGED <<route, chat>>, outBudget' \in [posts : Nat, faults : Nat],
             outBudget'.faults >= outBudget.faults
      PROVE  RouteInv'
  <2>1. \A r \in Replies : CallOf(r)'
    BY <1>1, CallRests
  <2>2. \A r \in Replies : ChunksOfOne(r)'
    BY <1>1, ChunksRest
  <2>3. ChunksInOrder'
    BY <2>2 DEF ChunksInOrder, ChunksOfOne
  <2>4. QED
    BY <1>1, <2>1, <2>3 DEF RouteInv
<1>2. outBudget \in [posts : Nat, faults : Nat]
  BY DEF RouteInv
<1>3. CASE PostStarts
  BY <1>1, <1>2, <1>3 DEF PostStarts
<1>4. CASE \/ \E g \in OutChats : OpenPortalSession(g)
           \/ SendPoll
           \/ \E p \in polls : ServePoll(p) \/ ShowPoll(p)
           \/ PostAppends \/ Idling \/ UNCHANGED outVars
  <2>1. UNCHANGED <<route, chat, outBudget>>
    BY <1>4 DEF OpenPortalSession, SendPoll, ServePoll, ShowPoll, PostAppends, Idling, outVars
  <2>2. QED
    BY <1>1, <1>2, <2>1
<1>5. QED
  BY <1>3, <1>4, StartRouteKeeps, SendChunkKeeps, SendFailsKeeps, NotifyKeeps, DeliverKeeps
     DEF OutNext

-----------------------------------------------------------------------------
(* Delivery: the sessions of the portal and its page. *)

Msg == [text : Replies \cup {"question"}, ts : Nat]
Kept == [chat : OutChats, messages : Seq(Msg), idle : Nat]

\* The messages of a session, and those of the page's.
Msgs(one) == IF one = NoPortalSession THEN {} ELSE ToSet(one.messages)
Held(s) == Msgs(sessions[s])
PageHeld == IF page.session \in PortalSessions THEN Held(page.session) ELSE {}

PostOf ==
    \/ post.at = "idle"
    \/ /\ post.at = "append" /\ post.session \in PortalSessions
       /\ post.ts \in Nat /\ post.ts <= clock

PortalTypes ==
    /\ sessions \in [PortalSessions -> Kept \cup {NoPortalSession}]
    /\ clock \in Nat
    /\ page \in [session : PortalSessions \cup {"none"}, lastTs : Nat, shown : SUBSET Msg, twice : BOOLEAN]

\* What is stored and shown is not from the future, and nothing shown is newer than lastTs.
\* What the page's session has of replies up to lastTs is on the page.
PageInv ==
    /\ \A s \in PortalSessions : \A m \in Held(s) : m.ts <= clock
    /\ page.lastTs <= clock
    /\ \A m \in page.shown : m.ts <= page.lastTs
    /\ "switch" \notin races =>
          \A m \in PageHeld : m.text \in Replies /\ m.ts <= page.lastTs => m \in page.shown
    /\ races = {} => ~page.twice

\* A request that was sent asks for what the page does not have yet.
SentOf(p) ==
    "since" \in DOMAIN p =>
        /\ p.session \in PortalSessions /\ p.since \in Nat
        /\ "switch" \notin races => p.session = page.session /\ p.since <= page.lastTs
        /\ races = {} => p.since = page.lastTs

\* An answer holds every reply of the session that is not on the page and not newer than
\* another message of the answer.
AnswerOf(p) ==
    "messages" \in DOMAIN p =>
        /\ p.messages \subseteq Msg
        /\ \A m \in p.messages : m.ts <= clock
        /\ "switch" \notin races =>
              \A m \in PageHeld, n \in p.messages :
                  m.text \in Replies /\ m.ts <= n.ts => m \in page.shown \cup p.messages
        /\ races = {} => \A m \in p.messages : m.ts > page.lastTs

PortalInv ==
    /\ PortalTypes /\ PageInv /\ PostOf
    /\ \A p \in polls : SentOf(p) /\ AnswerOf(p)
    /\ races = {} => \A p, q \in polls : p = q

\* A message added to a session may push out the oldest one.
LEMMA AddedTo ==
    ASSUME NEW one \in Kept, NEW m \in Msg
    PROVE  /\ AddTo(one, m) \in Kept
           /\ ToSet(AddTo(one, m).messages) \subseteq ToSet(one.messages) \cup {m}
<1> DEFINE old == one.messages
<1> DEFINE rest == IF Len(old) >= MAX_SESSION_MESSAGES THEN Tail(old) ELSE old
<1>1. old \in Seq(Msg) /\ MAX_SESSION_MESSAGES \in Nat \ {0}
  BY OutAssumption DEF Kept
<1>2. rest \in Seq(Msg) /\ ToSet(rest) \subseteq ToSet(old)
  <2>1. CASE Len(old) >= MAX_SESSION_MESSAGES
    <3>1. old # <<>> /\ Len(old) \in Nat
      BY <1>1, <2>1
    <3>2. Tail(old) \in Seq(Msg) /\ Len(Tail(old)) = Len(old) - 1
      BY <1>1, <3>1
    <3>3. ASSUME NEW i \in 1..(Len(old) - 1)
          PROVE  Tail(old)[i] = old[i+1] /\ i + 1 \in 1..Len(old)
      BY <1>1, <3>1
    <3>4. DOMAIN Tail(old) = 1..(Len(old) - 1) /\ DOMAIN old = 1..Len(old)
      BY <1>1, <3>1, <3>2
    <3>5. ToSet(Tail(old)) \subseteq ToSet(old)
      BY <3>3, <3>4 DEF ToSet
    <3>6. QED
      BY <2>1, <3>2, <3>5
  <2>2. QED
    BY <1>1, <2>1
<1> HIDE DEF rest
<1>3. Append(rest, m) \in Seq(Msg) /\ ToSet(Append(rest, m)) \subseteq ToSet(rest) \cup {m}
  <2>1. /\ Append(rest, m) \in Seq(Msg)
        /\ DOMAIN Append(rest, m) = 1..(Len(rest) + 1) /\ Append(rest, m)[Len(rest) + 1] = m
        /\ \A i \in 1..Len(rest) : Append(rest, m)[i] = rest[i]
        /\ DOMAIN rest = 1..Len(rest) /\ Len(rest) \in Nat
    BY <1>2
  <2>2. ASSUME NEW i \in 1..(Len(rest) + 1)
        PROVE  i \in 1..Len(rest) \/ i = Len(rest) + 1
    BY <2>1
  <2>3. QED
    BY <2>1, <2>2 DEF ToSet
<1>4. AddTo(one, m) = [one EXCEPT !.messages = Append(rest, m)]
  BY DEF AddTo, rest
<1>5. AddTo(one, m) \in Kept /\ AddTo(one, m).messages = Append(rest, m)
  BY <1>3, <1>4 DEF Kept
<1>6. QED
  BY <1>2, <1>3, <1>5

\* A bounded, non-empty set of times has a newest one.
LEMMA Newest ==
    ASSUME NEW S \in SUBSET Nat, NEW b \in Nat, S # {}, \A x \in S : x <= b
    PROVE  Max(S) \in S /\ \A x \in S : x <= Max(S)
<1> DEFINE T == {n \in Nat : b - n \in S}
<1>1. PICK y \in S : TRUE
  OBVIOUS
<1>2. y \in Nat /\ y <= b
  BY <1>1
<1>3. b - y \in Nat /\ b - (b - y) = y
  BY <1>2
<1>4. T # {} /\ T \subseteq Nat
  BY <1>1, <1>3
<1>5. \E n \in T : \A k \in T : ~(<<k, n>> \in OpToRel(<, Nat))
  <2> HIDE DEF T
  <2>1. QED
    BY <1>4, NatLessThanWellFounded, WFMin
<1>6. PICK n \in T : \A k \in T : ~(<<k, n>> \in OpToRel(<, Nat))
  BY <1>5
<1>7. \A k \in T : ~(k < n)
  BY <1>4, <1>6 DEF OpToRel
<1>8. ASSUME NEW x \in S PROVE x <= b - n
  <2>1. x \in Nat /\ x <= b /\ n \in Nat
    BY <1>4, <1>6
  <2>2. b - x \in Nat /\ b - (b - x) = x
    BY <2>1
  <2>3. b - x \in T
    BY <2>2
  <2>4. ~(b - x < n)
    BY <1>7, <2>3
  <2>5. QED
    BY <2>1, <2>4
<1>9. b - n \in S
  BY <1>6
<1>10. \E x \in S : \A z \in S : x >= z
  <2>1. \A z \in S : b - n >= z
    BY <1>4, <1>6, <1>8
  <2>2. QED
    BY <1>9, <2>1
<1>11. Max(S) \in S /\ \A z \in S : Max(S) >= z
  BY <1>10 DEF Max
<1>12. QED
  BY <1>11

\* What the messages of a session are, and how little a step on it changes them.
LEMMA MsgsOf ==
    /\ \A k \in Kept \cup {NoPortalSession} : Msgs(k) \subseteq Msg
    /\ \A k \in Kept, i \in Nat :
          [k EXCEPT !.idle = i] \in Kept /\ Msgs([k EXCEPT !.idle = i]) = Msgs(k)
    /\ \A k \in Kept, m \in Msg :
          AddTo(k, m) \in Kept /\ Msgs(AddTo(k, m)) \subseteq Msgs(k) \cup {m}
    /\ \A k \in Kept : k # NoPortalSession
    /\ Msgs(NoPortalSession) = {}
<1>1. ASSUME NEW k \in Kept PROVE k # NoPortalSession /\ Msgs(k) = ToSet(k.messages)
  <2>1. k.chat \in OutChats /\ NoPortalSession.chat = "none"
    BY DEF Kept, NoPortalSession
  <2>2. k # NoPortalSession
    BY <2>1, NameAssumption
  <2>3. QED
    BY <2>2 DEF Msgs
<1>2. ASSUME NEW k \in Kept \cup {NoPortalSession} PROVE Msgs(k) \subseteq Msg
  <2>1. CASE k \in Kept
    BY <1>1, <2>1 DEF Kept, ToSet
  <2>2. CASE k = NoPortalSession
    BY <2>2 DEF Msgs
  <2>3. QED
    BY <2>1, <2>2
<1>3. ASSUME NEW k \in Kept, NEW i \in Nat
      PROVE  [k EXCEPT !.idle = i] \in Kept /\ Msgs([k EXCEPT !.idle = i]) = Msgs(k)
  <2>1. [k EXCEPT !.idle = i] \in Kept /\ [k EXCEPT !.idle = i].messages = k.messages
    BY DEF Kept
  <2>2. QED
    BY <1>1, <2>1
<1>4. ASSUME NEW k \in Kept, NEW m \in Msg
      PROVE  AddTo(k, m) \in Kept /\ Msgs(AddTo(k, m)) \subseteq Msgs(k) \cup {m}
  BY <1>1, AddedTo
<1>5. Msgs(NoPortalSession) = {}
  BY DEF Msgs
<1>6. QED
  BY <1>1, <1>2, <1>3, <1>4, <1>5

\* The page rests while the sessions change: a message in them is old, or not from the
\* future, and a reply among the new ones is newer than all that was.
LEMMA SessionsMove ==
    ASSUME PortalInv, UNCHANGED <<page, races>>,
           sessions' \in [PortalSessions -> Kept \cup {NoPortalSession}],
           clock' \in Nat, clock <= clock',
           \A s \in PortalSessions : \A m \in Msgs(sessions'[s]) :
               m \in Msgs(sessions[s]) \/ (m.ts <= clock' /\ (m.text \in Replies => m.ts > clock))
    PROVE  PortalTypes' /\ PageInv' /\ \A p \in polls : SentOf(p)' /\ AnswerOf(p)'
<1>1. PortalTypes /\ PageInv /\ \A p \in polls : SentOf(p) /\ AnswerOf(p)
  BY DEF PortalInv
<1>2. PortalTypes'
  BY <1>1 DEF PortalTypes
<1>3. /\ clock \in Nat /\ page.lastTs \in Nat /\ page.shown \subseteq Msg
      /\ page.lastTs <= clock
      /\ sessions \in [PortalSessions -> Kept \cup {NoPortalSession}]
  BY <1>1 DEF PortalTypes, PageInv
<1>4. \A s \in PortalSessions : Msgs(sessions[s]) \subseteq Msg /\ Msgs(sessions'[s]) \subseteq Msg
  BY <1>3, MsgsOf
<1>5. \A m \in Msg : m.ts \in Nat
  BY DEF Msg
<1>6. ASSUME NEW s \in PortalSessions, NEW m \in Msgs(sessions'[s]) PROVE m.ts <= clock'
  BY <1>1, <1>3, <1>4, <1>5, <1>6 DEF PageInv, Held
<1>7. ASSUME NEW m \in PageHeld', m.text \in Replies PROVE m \in PageHeld \/ m.ts > clock
  BY <1>7 DEF PageHeld, Held
<1>8. PageHeld' \subseteq Msg
  BY <1>4 DEF PageHeld, Held
<1>9. PageInv'
  <2>1. \A s \in PortalSessions : \A m \in Held(s)' : m.ts <= clock'
    BY <1>6 DEF Held
  <2>2. page'.lastTs <= clock'
    BY <1>3
  <2>3. \A m \in page'.shown : m.ts <= page'.lastTs
    BY <1>1 DEF PageInv
  <2>4. ASSUME "switch" \notin races', NEW m \in PageHeld', m.text \in Replies, m.ts <= page'.lastTs
        PROVE  m \in page'.shown
    <3>1. ~(m.ts > clock)
      BY <1>3, <1>5, <1>8, <2>4
    <3>2. m \in PageHeld
      BY <1>7, <2>4, <3>1
    <3>3. QED
      BY <1>1, <2>4, <3>2 DEF PageInv
  <2>5. races' = {} => ~page'.twice
    BY <1>1 DEF PageInv
  <2>6. QED
    BY <2>1, <2>2, <2>3, <2>4, <2>5 DEF PageInv
<1>10. ASSUME NEW p \in polls PROVE SentOf(p)' /\ AnswerOf(p)'
  <2>1. SentOf(p) /\ AnswerOf(p)
    BY <1>1
  <2>2. SentOf(p)'
    BY <2>1 DEF SentOf
  <2>3. AnswerOf(p)'
    <3> SUFFICES ASSUME "messages" \in DOMAIN p PROVE AnswerOf(p)'
      BY DEF AnswerOf
    <3>1. p.messages \subseteq Msg /\ \A m \in p.messages : m.ts <= clock
      BY <2>1 DEF AnswerOf
    <3>2. \A m \in p.messages : m.ts <= clock'
      BY <1>3, <1>5, <3>1
    <3>3. ASSUME "switch" \notin races', NEW m \in PageHeld', NEW n \in p.messages,
                 m.text \in Replies, m.ts <= n.ts
          PROVE  m \in page'.shown \cup p.messages
      <4>1. m.ts \in Nat /\ n.ts \in Nat /\ n.ts <= clock
        BY <1>5, <1>8, <3>1
      <4>2. ~(m.ts > clock)
        BY <1>3, <3>3, <4>1
      <4>3. m \in PageHeld
        BY <1>7, <3>3, <4>2
      <4>4. QED
        BY <2>1, <3>3, <4>3 DEF AnswerOf
    <3>4. races' = {} => \A m \in p.messages : m.ts > page'.lastTs
      BY <2>1 DEF AnswerOf
    <3>5. QED
      BY <3>1, <3>2, <3>3, <3>4 DEF AnswerOf
  <2>4. QED
    BY <2>2, <2>3
<1>11. QED
  BY <1>2, <1>9, <1>10

\* A reply is stored in every session of its chat, with a time later than all others.
LEMMA DeliverKeepsPage ==
    ASSUME PortalInv, NEW r \in Replies, DeliverReply(r) PROVE PortalInv'
<1>1. /\ clock' = clock + 1 /\ UNCHANGED <<page, polls, post, races>>
      /\ sessions' = [s \in PortalSessions |->
            IF sessions[s].chat = ChatOf[r] THEN AddTo(sessions[s], [text |-> r, ts |-> clock'])
            ELSE sessions[s]]
  BY DEF DeliverReply
<1>2. /\ clock \in Nat /\ sessions \in [PortalSessions -> Kept \cup {NoPortalSession}]
      /\ PostOf /\ (races = {} => \A p, q \in polls : p = q)
  BY DEF PortalInv, PortalTypes
<1>3. clock' \in Nat /\ clock <= clock' /\ clock' > clock
  BY <1>1, <1>2
<1> DEFINE new == [text |-> r, ts |-> clock']
<1>4. new \in Msg /\ new.ts = clock'
  BY <1>3 DEF Msg
<1>5. ASSUME NEW s \in PortalSessions, sessions[s].chat = ChatOf[r] PROVE sessions[s] \in Kept
  <2>1. ChatOf[r] \in OutChats /\ NoPortalSession.chat = "none"
    BY OutAssumption DEF NoPortalSession
  <2>2. QED
    BY <1>2, <1>5, <2>1, NameAssumption
<1>6. ASSUME NEW s \in PortalSessions
      PROVE  /\ sessions'[s] \in Kept \cup {NoPortalSession}
             /\ Msgs(sessions'[s]) \subseteq Msgs(sessions[s]) \cup {new}
  <2>1. CASE sessions[s].chat = ChatOf[r]
    <3>1. sessions'[s] = AddTo(sessions[s], new)
      BY <1>1, <2>1
    <3> HIDE DEF new
    <3>2. QED
      BY <1>4, <1>5, <2>1, <3>1, MsgsOf
  <2>2. CASE sessions[s].chat # ChatOf[r]
    BY <1>1, <1>2, <2>2
  <2>3. QED
    BY <2>1, <2>2
<1> HIDE DEF new
<1>7. sessions' \in [PortalSessions -> Kept \cup {NoPortalSession}]
  <2>1. \E f : sessions' = [s \in PortalSessions |-> f[s]]
    <3>1. sessions' = [s \in PortalSessions |-> sessions'[s]]
      BY <1>1
    <3>2. QED
      BY <3>1
  <2>2. QED
    BY <1>6, <2>1
<1>8. \A s \in PortalSessions : \A m \in Msgs(sessions'[s]) :
          m \in Msgs(sessions[s]) \/ (m.ts <= clock' /\ (m.text \in Replies => m.ts > clock))
  BY <1>3, <1>4, <1>6
<1>9. PortalTypes' /\ PageInv' /\ \A p \in polls : SentOf(p)' /\ AnswerOf(p)'
  BY <1>1, <1>3, <1>7, <1>8, SessionsMove
<1>10. PostOf'
  BY <1>1, <1>2 DEF PostOf
<1>11. QED
  BY <1>1, <1>2, <1>9, <1>10 DEF PortalInv

\* A question is asked: its time is taken.
LEMMA PostStartsKeepsPage ==
    ASSUME PortalInv, PostStarts PROVE PortalInv'
<1>1. /\ clock' = clock + 1 /\ UNCHANGED <<sessions, page, polls, races>>
      /\ post' = [at |-> "append", session |-> page.session, ts |-> clock']
      /\ page.session # "none"
  BY DEF PostStarts
<1>2. /\ clock \in Nat /\ sessions \in [PortalSessions -> Kept \cup {NoPortalSession}]
      /\ (races = {} => \A p, q \in polls : p = q) /\ page.session \in PortalSessions
  BY <1>1 DEF PortalInv, PortalTypes
<1>3. clock' \in Nat /\ clock <= clock'
  BY <1>1, <1>2
<1>4. PortalTypes' /\ PageInv' /\ \A p \in polls : SentOf(p)' /\ AnswerOf(p)'
  BY <1>1, <1>2, <1>3, SessionsMove
<1>5. PostOf'
  BY <1>1, <1>2, <1>3 DEF PostOf
<1>6. QED
  BY <1>1, <1>2, <1>4, <1>5 DEF PortalInv

\* It is stored, in a session that may have expired.
LEMMA PostAppendsKeepsPage ==
    ASSUME PortalInv, PostAppends PROVE PortalInv'
<1> DEFINE new == [text |-> "question", ts |-> post.ts]
<1>1. /\ UNCHANGED <<clock, page, polls, races>> /\ post.at = "append" /\ post'.at = "idle"
      /\ sessions' = IF sessions[post.session] = NoPortalSession THEN sessions
                     ELSE [sessions EXCEPT ![post.session] = AddTo(sessions[post.session], new)]
  BY DEF PostAppends
<1>2. /\ clock \in Nat /\ sessions \in [PortalSessions -> Kept \cup {NoPortalSession}]
      /\ (races = {} => \A p, q \in polls : p = q)
      /\ post.session \in PortalSessions /\ post.ts \in Nat /\ post.ts <= clock
  BY <1>1 DEF PortalInv, PortalTypes, PostOf
<1>3. new \in Msg /\ new.ts <= clock /\ new.text \notin Replies
  BY <1>2, NameAssumption DEF Msg
<1> HIDE DEF new
<1>4. ASSUME NEW s \in PortalSessions
      PROVE  /\ sessions'[s] \in Kept \cup {NoPortalSession}
             /\ Msgs(sessions'[s]) \subseteq Msgs(sessions[s]) \cup {new}
  <2>1. CASE sessions[post.session] # NoPortalSession /\ s = post.session
    <3>1. sessions[s] \in Kept /\ sessions'[s] = AddTo(sessions[s], new)
      BY <1>1, <1>2, <2>1
    <3>2. QED
      BY <1>3, <3>1, MsgsOf
  <2>2. CASE ~(sessions[post.session] # NoPortalSession /\ s = post.session)
    BY <1>1, <1>2, <2>2
  <2>3. QED
    BY <2>1, <2>2
<1>5. sessions' \in [PortalSessions -> Kept \cup {NoPortalSession}]
  <2>1. CASE sessions[post.session] = NoPortalSession
    BY <1>1, <1>2, <2>1
  <2>2. CASE sessions[post.session] # NoPortalSession
    <3>1. sessions' = [sessions EXCEPT ![post.session] = AddTo(sessions[post.session], new)]
      BY <1>1, <2>2
    <3>2. AddTo(sessions[post.session], new) \in Kept
      BY <1>2, <1>3, <2>2, MsgsOf
    <3>3. QED
      BY <1>2, <3>1, <3>2
  <2>3. QED
    BY <2>1, <2>2
<1>6. clock' \in Nat /\ clock <= clock'
  BY <1>1, <1>2
<1>7. \A s \in PortalSessions : \A m \in Msgs(sessions'[s]) :
          m \in Msgs(sessions[s]) \/ (m.ts <= clock' /\ (m.text \in Replies => m.ts > clock))
  BY <1>1, <1>3, <1>4
<1>8. PortalTypes' /\ PageInv' /\ \A p \in polls : SentOf(p)' /\ AnswerOf(p)'
  BY <1>1, <1>5, <1>6, <1>7, SessionsMove
<1>9. PostOf'
  BY <1>1 DEF PostOf
<1>10. QED
  BY <1>1, <1>2, <1>8, <1>9 DEF PortalInv

\* Sessions that lose messages, or expire, are sessions still.
LEMMA SessionsLessen ==
    ASSUME PortalInv, UNCHANGED <<clock, page, races>>,
           sessions' \in [PortalSessions -> Kept \cup {NoPortalSession}],
           \A s \in PortalSessions : Msgs(sessions'[s]) \subseteq Msgs(sessions[s])
    PROVE  PortalTypes' /\ PageInv' /\ \A p \in polls : SentOf(p)' /\ AnswerOf(p)'
<1>1. clock \in Nat
  BY DEF PortalInv, PortalTypes
<1>2. clock' \in Nat /\ clock <= clock'
  BY <1>1
<1>3. QED
  BY <1>2, SessionsMove

\* The sessions grow idle.
LEMMA IdlingKeepsPage ==
    ASSUME PortalInv, Idling PROVE PortalInv'
<1>1. UNCHANGED <<clock, page, polls, post, races>>
  BY DEF Idling
<1>2. /\ sessions \in [PortalSessions -> Kept \cup {NoPortalSession}]
      /\ PostOf /\ (races = {} => \A p, q \in polls : p = q)
  BY DEF PortalInv, PortalTypes
<1>3. ASSUME NEW s \in PortalSessions
      PROVE  /\ sessions'[s] \in Kept \cup {NoPortalSession}
             /\ Msgs(sessions'[s]) \subseteq Msgs(sessions[s])
  <2>1. CASE s \in Live
    <3> DEFINE older == Min({sessions[s].idle + 1, SESSION_TTL + 1})
    <3>1. sessions[s] \in Kept
      BY <1>2, <2>1 DEF Live
    <3>2. older \in Nat
      <4>1. PICK i \in Nat, l \in Nat : i = sessions[s].idle + 1 /\ l = SESSION_TTL + 1
        <5>1. sessions[s].idle \in Nat /\ SESSION_TTL \in Nat
          BY <3>1, OutAssumption DEF Kept
        <5>2. QED
          BY <5>1
      <4>2. Min({i, l}) \in {i, l}
        <5>1. i <= l => Min({i, l}) = i
          BY TwoNumbers
        <5>2. l <= i => Min({i, l}) = l
          BY TwoNumbers
        <5>3. QED
          BY <5>1, <5>2
      <4>3. QED
        BY <4>1, <4>2
    <3>3. sessions'[s] = [sessions[s] EXCEPT !.idle = older]
      BY <2>1 DEF Idling
    <3> HIDE DEF older
    <3>4. QED
      BY <3>1, <3>2, <3>3, MsgsOf
  <2>2. CASE s \notin Live
    BY <1>2, <2>2 DEF Idling
  <2>3. QED
    BY <2>1, <2>2
<1>4. sessions' \in [PortalSessions -> Kept \cup {NoPortalSession}]
  <2>1. sessions' = [s \in PortalSessions |-> sessions'[s]]
    BY DEF Idling
  <2>2. QED
    BY <1>3, <2>1
<1>5. PortalTypes' /\ PageInv' /\ \A p \in polls : SentOf(p)' /\ AnswerOf(p)'
  BY <1>1, <1>3, <1>4, SessionsLessen
<1>6. PostOf'
  BY <1>1, <1>2 DEF PostOf
<1>7. QED
  BY <1>1, <1>2, <1>5, <1>6 DEF PortalInv

\* Expired sessions are gone, the others are as they were.
LEMMA Expiring ==
    ASSUME NEW table \in [PortalSessions -> Kept \cup {NoPortalSession}]
    PROVE  /\ ExpireSessions(table) \in [PortalSessions -> Kept \cup {NoPortalSession}]
           /\ \A s \in PortalSessions : Msgs(ExpireSessions(table)[s]) \subseteq Msgs(table[s])
           /\ \A s \in PortalSessions : ExpireSessions(table)[s] \in {table[s], NoPortalSession}
<1>1. \A s \in PortalSessions : ExpireSessions(table)[s] \in {table[s], NoPortalSession}
  BY DEF ExpireSessions
<1>2. ExpireSessions(table) \in [PortalSessions -> Kept \cup {NoPortalSession}]
  BY DEF ExpireSessions
<1>3. QED
  BY <1>1, <1>2, MsgsOf

\* A request is sent from where the page stands.
LEMMA SendPollKeepsPage ==
    ASSUME PortalInv, SendPoll PROVE PortalInv'
<1>0. PICK sent : sent = [id |-> Free, session |-> page.session, since |-> page.lastTs]
  OBVIOUS
<1>1. /\ UNCHANGED <<clock, sessions, page, post>> /\ polls' = polls \cup {sent}
      /\ races' = IF polls # {} THEN races \cup {"overlap"} ELSE races
      /\ page.session # "none"
  BY <1>0 DEF SendPoll
<1>2. PortalTypes' /\ PostOf'
  BY <1>1 DEF PortalInv, PortalTypes, PostOf
<1>3. ("switch" \notin races' => "switch" \notin races) /\ (races' = {} => races = {} /\ polls = {})
  BY <1>1
<1>4. PageHeld' = PageHeld
  BY <1>1 DEF PageHeld, Held
<1>5. PageInv'
  BY <1>1, <1>3, <1>4 DEF PortalInv, PageInv, Held
<1>6. /\ "since" \in DOMAIN sent /\ "messages" \notin DOMAIN sent
      /\ sent.session = page.session /\ sent.since = page.lastTs
  BY <1>0
<1>7. SentOf(sent)' /\ AnswerOf(sent)'
  <2>1. page.session \in PortalSessions /\ page.lastTs \in Nat
    BY <1>1 DEF PortalInv, PortalTypes
  <2>2. page.lastTs <= page.lastTs
    BY <2>1
  <2>3. SentOf(sent)'
    BY <1>1, <1>6, <2>1, <2>2, Zenon DEF SentOf
  <2>4. AnswerOf(sent)'
    BY <1>6, Zenon DEF AnswerOf
  <2>5. QED
    BY <2>3, <2>4
<1>8. ASSUME NEW p \in polls PROVE SentOf(p)' /\ AnswerOf(p)'
  <2>1. SentOf(p) /\ AnswerOf(p)
    BY DEF PortalInv
  <2>2. QED
    BY <1>1, <1>3, <1>4, <2>1 DEF SentOf, AnswerOf
<1>9. races' = {} => \A p, q \in polls' : p = q
  BY <1>1, <1>3
<1>10. QED
  BY <1>1, <1>2, <1>5, <1>7, <1>8, <1>9 DEF PortalInv

\* The page gets a session it did not have, or none.
LEMMA OpenKeepsPage ==
    ASSUME PortalInv, NEW g \in OutChats, OpenPortalSession(g) PROVE PortalInv'
<1> DEFINE rest == ExpireSessions(sessions)
<1> DEFINE fresh == [chat |-> g, messages |-> <<>>, idle |-> 0]
<1>1. /\ \/ \E s \in PortalSessions : sessions' = [rest EXCEPT ![s] = fresh] /\ page' = PageOf(s)
         \/ sessions' = rest /\ page' = PageOf("none")
      /\ races' = IF polls # {} THEN races \cup {"switch"} ELSE races
      /\ UNCHANGED <<clock, polls, post>>
  BY DEF OpenPortalSession
<1>2. PortalTypes /\ PageInv /\ PostOf /\ \A p \in polls : SentOf(p) /\ AnswerOf(p)
  BY DEF PortalInv
<1>3. /\ rest \in [PortalSessions -> Kept \cup {NoPortalSession}]
      /\ \A s \in PortalSessions : Msgs(rest[s]) \subseteq Msgs(sessions[s])
  BY <1>2, Expiring DEF PortalTypes
<1>4. fresh \in Kept /\ Msgs(fresh) = {}
  <2>1. fresh \in Kept
    BY DEF Kept
  <2>2. fresh.messages = <<>>
    OBVIOUS
  <2>3. ToSet(<<>>) = {}
    BY DEF ToSet
  <2>4. QED
    BY <2>1, <2>2, <2>3 DEF Msgs
<1> HIDE DEF rest, fresh
<1>5. \E t \in PortalSessions \cup {"none"} :
          /\ page' = PageOf(t)
          /\ sessions' = IF t = "none" THEN rest ELSE [rest EXCEPT ![t] = fresh]
  <2>1. CASE sessions' = rest /\ page' = PageOf("none")
    BY <2>1
  <2>2. ASSUME NEW s \in PortalSessions,
               sessions' = [rest EXCEPT ![s] = fresh], page' = PageOf(s)
        PROVE  \E t \in PortalSessions \cup {"none"} :
                  /\ page' = PageOf(t)
                  /\ sessions' = IF t = "none" THEN rest ELSE [rest EXCEPT ![t] = fresh]
    <3>1. s # "none"
      BY NameAssumption
    <3>2. QED
      BY <2>2, <3>1
  <2>3. QED
    BY <1>1, <2>1, <2>2
<1>5a. PICK t \in PortalSessions \cup {"none"} :
          /\ page' = PageOf(t)
          /\ sessions' = IF t = "none" THEN rest ELSE [rest EXCEPT ![t] = fresh]
  BY <1>5
<1>6. /\ page'.session = t /\ page'.lastTs = 0 /\ page'.shown = {} /\ ~page'.twice
      /\ page' \in [session : PortalSessions \cup {"none"}, lastTs : Nat,
                    shown : SUBSET Msg, twice : BOOLEAN]
  BY <1>5a DEF PageOf
<1>7. /\ sessions' \in [PortalSessions -> Kept \cup {NoPortalSession}]
      /\ \A s \in PortalSessions : Msgs(sessions'[s]) \subseteq Msgs(sessions[s])
      /\ t # "none" => Msgs(sessions'[t]) = {}
  BY <1>3, <1>4, <1>5a
<1>8. clock \in Nat /\ clock' = clock
  BY <1>1, <1>2 DEF PortalTypes
<1>9. PortalTypes' /\ PostOf'
  BY <1>1, <1>2, <1>6, <1>7, <1>8 DEF PortalTypes, PostOf
<1>10. PageHeld' = {}
  BY <1>6, <1>7, NameAssumption DEF PageHeld, Held
<1>11. PageInv'
  <2>1. \A s \in PortalSessions : \A m \in Held(s)' : m.ts <= clock'
    BY <1>2, <1>7, <1>8 DEF PageInv, Held
  <2>2. QED
    BY <1>6, <1>8, <1>10, <2>1 DEF PageInv
<1>12. ASSUME NEW p \in polls PROVE SentOf(p)' /\ AnswerOf(p)'
  <2>1. "switch" \in races' /\ races' # {}
    BY <1>1
  <2>2. SentOf(p) /\ AnswerOf(p)
    BY <1>2
  <2>3. QED
    BY <1>8, <2>1, <2>2 DEF SentOf, AnswerOf
<1>13. races' = {} => \A p, q \in polls' : p = q
  BY <1>1
<1>14. QED
  BY <1>1, <1>9, <1>11, <1>12, <1>13 DEF PortalInv

\* A request is answered with what is newer than it asks for; sessions may expire then.
LEMMA ServePollKeepsPage ==
    ASSUME PortalInv, NEW p \in polls, ServePoll(p) PROVE PortalInv'
<1> DEFINE known == sessions[p.session] # NoPortalSession
<1> DEFINE table == IF known THEN [sessions EXCEPT ![p.session].idle = 0] ELSE sessions
<1>0. PICK found : found = IF known THEN {m \in ToSet(sessions[p.session].messages) : Newer(m, p.since)}
                           ELSE {}
  OBVIOUS
<1>1. PICK answer : answer = [id |-> p.id, messages |-> found]
  OBVIOUS
<1>2. /\ polls' = (polls \ {p}) \cup {answer}
      /\ sessions' \in {table, ExpireSessions(table)}
      /\ UNCHANGED <<clock, page, post, races>> /\ "since" \in DOMAIN p
  BY <1>0, <1>1 DEF ServePoll
<1>3. /\ PortalTypes /\ PageInv /\ PostOf /\ \A q \in polls : SentOf(q) /\ AnswerOf(q)
      /\ races = {} => \A q, t \in polls : q = t
      /\ sessions \in [PortalSessions -> Kept \cup {NoPortalSession}]
      /\ page.lastTs \in Nat /\ page.lastTs <= clock /\ clock \in Nat
  BY DEF PortalInv, PortalTypes, PageInv
<1>4. /\ p.session \in PortalSessions /\ p.since \in Nat
      /\ "switch" \notin races => p.session = page.session /\ p.since <= page.lastTs
      /\ races = {} => p.since = page.lastTs
  BY <1>2, <1>3 DEF SentOf
<1>5. /\ found \subseteq Held(p.session)
      /\ \A m \in found : m.ts > p.since
      /\ \A m \in Held(p.session) : m.ts > p.since => m \in found
  BY <1>0, <1>4 DEF Held, Msgs, Newer
<1>6. /\ table \in [PortalSessions -> Kept \cup {NoPortalSession}]
      /\ \A s \in PortalSessions : Msgs(table[s]) \subseteq Msgs(sessions[s])
  <2>1. CASE known
    <3>1. sessions[p.session] \in Kept
      BY <1>3, <1>4, <2>1
    <3>2. /\ [sessions[p.session] EXCEPT !.idle = 0] \in Kept
          /\ Msgs([sessions[p.session] EXCEPT !.idle = 0]) = Msgs(sessions[p.session])
      BY <3>1, MsgsOf
    <3>3. table = [sessions EXCEPT ![p.session] = [sessions[p.session] EXCEPT !.idle = 0]]
      BY <2>1
    <3> HIDE DEF table, known
    <3>4. QED
      BY <1>3, <1>4, <3>2, <3>3
  <2>2. CASE ~known
    BY <1>3, <2>2
  <2>3. QED
    BY <2>1, <2>2
<1> HIDE DEF table, known
<1>7. /\ sessions' \in [PortalSessions -> Kept \cup {NoPortalSession}]
      /\ \A s \in PortalSessions : Msgs(sessions'[s]) \subseteq Msgs(sessions[s])
  BY <1>2, <1>6, Expiring
<1>8. PortalTypes' /\ PageInv' /\ \A q \in polls : SentOf(q)' /\ AnswerOf(q)'
  BY <1>2, <1>7, SessionsLessen
<1>9. PostOf'
  BY <1>2, <1>3 DEF PostOf
<1>10. "messages" \in DOMAIN answer /\ "since" \notin DOMAIN answer /\ answer.messages = found
  BY <1>1
<1>11. Held(p.session) \subseteq Msg /\ \A m \in Msg : m.ts \in Nat
  BY <1>3, <1>4, MsgsOf DEF Held, Msg
<1>12. SentOf(answer)'
  BY <1>10 DEF SentOf
<1>13. AnswerOf(answer)'
  <2>1. found \subseteq Msg /\ \A m \in found : m.ts <= clock'
    BY <1>2, <1>3, <1>4, <1>5, <1>11 DEF PageInv
  <2>2. ASSUME "switch" \notin races', NEW m \in PageHeld', NEW n \in found,
               m.text \in Replies, m.ts <= n.ts
        PROVE  m \in page'.shown \cup found
    <3>1. p.session = page.session /\ p.since <= page.lastTs
      BY <1>2, <1>4, <2>2
    <3>2. m \in Held(p.session) /\ m \in PageHeld
      BY <1>2, <1>4, <1>7, <2>2, <3>1 DEF PageHeld, Held
    <3>3. CASE m.ts > p.since
      BY <1>5, <3>2, <3>3
    <3>4. CASE ~(m.ts > p.since)
      <4>1. m.ts <= page.lastTs
        BY <1>3, <1>4, <1>11, <3>1, <3>2, <3>4
      <4>2. QED
        BY <1>2, <1>3, <2>2, <3>2, <4>1 DEF PageInv
    <3>5. QED
      BY <3>3, <3>4
  <2>3. races' = {} => \A m \in found : m.ts > page'.lastTs
    BY <1>2, <1>4, <1>5
  <2>4. QED
    BY <1>10, <2>1, <2>2, <2>3 DEF AnswerOf
<1>14. races' = {} => \A q, t \in polls' : q = t
  BY <1>2, <1>3
<1>15. QED
  BY <1>2, <1>8, <1>9, <1>12, <1>13, <1>14 DEF PortalInv

\* The page shows an answer: lastTs is then the newest time it has seen.
LEMMA ShowPollKeepsPage ==
    ASSUME PortalInv, NEW p \in polls, ShowPoll(p) PROVE PortalInv'
<1>1. /\ PortalTypes /\ PageInv /\ PostOf /\ \A q \in polls : SentOf(q) /\ AnswerOf(q)
      /\ races = {} => \A q, t \in polls : q = t
      /\ page \in [session : PortalSessions \cup {"none"}, lastTs : Nat, shown : SUBSET Msg,
                   twice : BOOLEAN]
      /\ page.lastTs \in Nat /\ page.lastTs <= clock /\ clock \in Nat
  BY DEF PortalInv, PortalTypes, PageInv
<1> DEFINE times == {page.lastTs} \cup {m.ts : m \in p.messages}
<1>2. PICK last : last = Max(times)
  OBVIOUS
<1>3. /\ polls' = polls \ {p} /\ UNCHANGED <<clock, sessions, post, races>>
      /\ "messages" \in DOMAIN p
      /\ page' = [page EXCEPT !.shown = @ \cup p.messages,
                              !.twice = @ \/ page.shown \cap p.messages # {},
                              !.lastTs = last]
  BY <1>2 DEF ShowPoll
<1>4. p.messages \subseteq Msg /\ (\A m \in p.messages : m.ts <= clock) /\ \A m \in Msg : m.ts \in Nat
  BY <1>1, <1>3 DEF AnswerOf, Msg
<1>5. last \in times /\ \A x \in times : x <= last
  <2>1. times \in SUBSET Nat /\ times # {} /\ \A x \in times : x <= clock
    BY <1>1, <1>4
  <2> HIDE DEF times
  <2>2. QED
    BY <1>1, <1>2, <2>1, Newest
<1>6. /\ last \in Nat /\ page.lastTs <= last /\ last <= clock
      /\ \A m \in p.messages : m.ts <= last
      /\ last = page.lastTs \/ \E n \in p.messages : last = n.ts
  BY <1>1, <1>4, <1>5
<1>7. /\ page'.session = page.session /\ page'.lastTs = last
      /\ page'.shown = page.shown \cup p.messages
      /\ page'.twice <=> page.twice \/ page.shown \cap p.messages # {}
      /\ page' \in [session : PortalSessions \cup {"none"}, lastTs : Nat, shown : SUBSET Msg,
                    twice : BOOLEAN]
  <2>1. page.shown \cup p.messages \in SUBSET Msg
    BY <1>1, <1>4
  <2> DEFINE again == page.twice \/ page.shown \cap p.messages # {}
  <2>2. again \in BOOLEAN
    BY <1>1
  <2>3. page' = [page EXCEPT !.shown = page.shown \cup p.messages, !.twice = again, !.lastTs = last]
    BY <1>3
  <2> HIDE DEF again
  <2>4. /\ page'.session = page.session /\ page'.lastTs = last
        /\ page'.shown = page.shown \cup p.messages /\ page'.twice = again
        /\ page' \in [session : PortalSessions \cup {"none"}, lastTs : Nat, shown : SUBSET Msg,
                      twice : BOOLEAN]
    BY <1>1, <1>6, <2>1, <2>2, <2>3
  <2>5. QED
    BY <2>4 DEF again
<1> HIDE DEF times
<1>8. PortalTypes' /\ PostOf'
  BY <1>1, <1>3, <1>7 DEF PortalTypes, PostOf
<1>9. PageHeld' = PageHeld
  BY <1>3, <1>7 DEF PageHeld, Held
<1>10. PageHeld \subseteq Msg
  BY <1>1, MsgsOf DEF PageHeld, Held, PortalTypes
<1>11. PageInv'
  <2>1. \A s \in PortalSessions : \A m \in Held(s)' : m.ts <= clock'
    BY <1>1, <1>3 DEF PageInv, Held
  <2>2. page'.lastTs <= clock'
    BY <1>3, <1>6, <1>7
  <2>3. ASSUME NEW m \in page'.shown PROVE m.ts <= page'.lastTs
    <3>1. CASE m \in page.shown
      <4>1. m.ts <= page.lastTs /\ m.ts \in Nat
        BY <1>1, <1>4, <3>1 DEF PageInv
      <4>2. QED
        BY <1>1, <1>6, <1>7, <4>1
    <3>2. QED
      BY <1>6, <1>7, <2>3, <3>1
  <2>4. ASSUME "switch" \notin races', NEW m \in PageHeld', m.text \in Replies, m.ts <= page'.lastTs
        PROVE  m \in page'.shown
    <3>1. m \in PageHeld /\ m.ts \in Nat /\ m.ts <= last /\ "switch" \notin races
      BY <1>3, <1>4, <1>7, <1>9, <1>10, <2>4
    <3>2. CASE last = page.lastTs
      BY <1>1, <1>7, <2>4, <3>1, <3>2 DEF PageInv
    <3>3. CASE \E n \in p.messages : last = n.ts
      BY <1>1, <1>3, <1>7, <2>4, <3>1, <3>3 DEF AnswerOf
    <3>4. QED
      BY <1>6, <3>2, <3>3
  <2>5. races' = {} => ~page'.twice
    <3> SUFFICES ASSUME races = {} PROVE page.shown \cap p.messages = {} /\ ~page.twice
      BY <1>3, <1>7
    <3>1. \A m \in p.messages : m.ts > page.lastTs
      BY <1>1, <1>3 DEF AnswerOf
    <3>2. ASSUME NEW m \in page.shown, m \in p.messages PROVE FALSE
      <4>1. m.ts <= page.lastTs /\ m.ts > page.lastTs /\ m.ts \in Nat
        BY <1>1, <1>4, <3>1, <3>2 DEF PageInv
      <4>2. QED
        BY <1>1, <4>1
    <3>3. QED
      BY <1>1, <3>2 DEF PageInv
  <2>6. QED
    BY <2>1, <2>2, <2>3, <2>4, <2>5 DEF PageInv
<1>12. ASSUME NEW q \in polls \ {p} PROVE SentOf(q)' /\ AnswerOf(q)'
  <2>1. SentOf(q) /\ AnswerOf(q) /\ races # {}
    BY <1>1
  <2>2. SentOf(q)'
    <3> SUFFICES ASSUME "since" \in DOMAIN q PROVE SentOf(q)'
      BY DEF SentOf
    <3>1. /\ q.session \in PortalSessions /\ q.since \in Nat
          /\ "switch" \notin races => q.session = page.session /\ q.since <= page.lastTs
      BY <2>1 DEF SentOf
    <3>2. q.since <= page.lastTs => q.since <= last
      BY <1>1, <1>6, <3>1
    <3>3. QED
      BY <1>3, <1>7, <2>1, <3>1, <3>2 DEF SentOf
  <2>3. AnswerOf(q)'
    BY <1>3, <1>7, <1>9, <2>1 DEF AnswerOf
  <2>4. QED
    BY <2>2, <2>3
<1>13. races' = {} => \A q, t \in polls' : q = t
  BY <1>1, <1>3
<1>14. QED
  BY <1>3, <1>8, <1>11, <1>12, <1>13 DEF PortalInv

\* Every step keeps the page complete and, without a race, free of repetition.
LEMMA PortalNext == PortalInv /\ [OutNext]_outVars => PortalInv'
<1> SUFFICES ASSUME PortalInv, [OutNext]_outVars PROVE PortalInv'
  OBVIOUS
<1>1. ASSUME UNCHANGED <<clock, portalVars>> PROVE PortalInv'
  <2>1. UNCHANGED <<clock, sessions, page, polls, post, races>>
    BY <1>1 DEF portalVars
  <2>2. PageHeld' = PageHeld /\ \A s \in PortalSessions : Held(s)' = Held(s)
    BY <2>1 DEF PageHeld, Held
  <2>3. PortalTypes' /\ PageInv' /\ PostOf'
    BY <2>1, <2>2 DEF PortalInv, PortalTypes, PageInv, PostOf
  <2>4. \A p \in polls : SentOf(p)' /\ AnswerOf(p)'
    BY <2>1, <2>2 DEF PortalInv, SentOf, AnswerOf
  <2>5. QED
    BY <2>1, <2>3, <2>4 DEF PortalInv
<1>2. ASSUME NEW r \in Replies, StartRoute(r) \/ SendChunk(r) \/ SendFails(r) \/ Notify(r)
      PROVE  PortalInv'
  BY <1>1, <1>2 DEF StartRoute, SendChunk, SendFails, Notify
<1>3. CASE UNCHANGED outVars
  BY <1>1, <1>3 DEF outVars, portalVars
<1>4. QED
  BY <1>2, <1>3, DeliverKeepsPage, OpenKeepsPage, SendPollKeepsPage, ServePollKeepsPage,
     ShowPollKeepsPage, PostStartsKeepsPage, PostAppendsKeepsPage, IdlingKeepsPage DEF OutNext

\* Any replies, chunks, chats, sessions, polls, posts and faults: a chat gets the chunks of a
\* reply in order and with none left out, and the portal's page shows every reply up to its
\* lastTs, and nothing twice, except in the races the parts of DeliverySound name.
THEOREM DeliveryStaysSound == OutSpec => []DeliverySound
<1>1. OutInit => RouteInv
  <2> SUFFICES ASSUME OutInit PROVE RouteInv
    OBVIOUS
  <2>1. /\ route = [r \in Replies |-> [at |-> "idle"]] /\ chat = [r \in Replies |-> <<>>]
        /\ outBudget = [posts |-> 0, faults |-> 0]
    BY DEF OutInit
  <2>2. \A r \in Replies : route[r].at = "idle" /\ chat[r] = <<>> /\ chat[r] \in Seq(Nat)
    BY <2>1
  <2>3. route \in [Replies -> Calls]
    BY <2>1 DEF Calls
  <2>4. \A r \in Replies : CallOf(r)
    BY <2>2 DEF CallOf
  <2>5. ChunksInOrder
    BY <2>2 DEF ChunksInOrder
  <2>6. chat \in [Replies -> Seq(Nat)] /\ outBudget \in [posts : Nat, faults : Nat]
    BY <2>1, <2>2
  <2>7. QED
    BY <2>3, <2>4, <2>5, <2>6 DEF RouteInv
<1>2. OutInit => PortalInv
  <2> SUFFICES ASSUME OutInit PROVE PortalInv
    OBVIOUS
  <2>1. /\ clock = 0 /\ polls = {} /\ post.at = "idle" /\ races = {}
        /\ sessions = [s \in PortalSessions |-> NoPortalSession]
        /\ page = PageOf("none")
    BY DEF OutInit
  <2>2. page.session = "none" /\ page.lastTs = 0 /\ page.shown = {} /\ ~page.twice
    BY <2>1 DEF PageOf
  <2>3. PortalTypes
    BY <2>1 DEF PortalTypes, PageOf
  <2>4. PageHeld = {} /\ \A s \in PortalSessions : Held(s) = {}
    BY <2>1, <2>2, MsgsOf, NameAssumption DEF PageHeld, Held
  <2>5. PageInv
    BY <2>1, <2>2, <2>4 DEF PageInv
  <2>6. QED
    BY <2>1, <2>3, <2>5 DEF PortalInv, PostOf
<1>3. RouteInv => ChunksInOrder
  BY DEF RouteInv
<1>4. PortalInv => NoReplyMissed /\ ShownOnce
  <2> SUFFICES ASSUME PortalInv PROVE NoReplyMissed /\ ShownOnce
    OBVIOUS
  <2>1. ASSUME page.session \in Live, "switch" \notin races,
               NEW i \in DOMAIN sessions[page.session].messages
        PROVE  LET m == sessions[page.session].messages[i]
               IN  m.text \in Replies /\ m.ts <= page.lastTs => m \in page.shown
    <3>1. sessions[page.session].messages[i] \in PageHeld
      BY <2>1 DEF Live, PageHeld, Held, Msgs, ToSet
    <3>2. QED
      BY <2>1, <3>1 DEF PortalInv, PageInv
  <2>2. ShownOnce
    BY DEF PortalInv, PageInv, ShownOnce
  <2>3. QED
    BY <2>1, <2>2 DEF NoReplyMissed
<1>5. RouteInv /\ PortalInv => DeliverySound
  BY <1>3, <1>4 DEF DeliverySound
<1>6. QED
  BY <1>1, <1>2, <1>5, RouteNext, PortalNext, PTL DEF OutSpec

-----------------------------------------------------------------------------
(* The skills engine. *)

Trees == [Files -> SUBSET Atoms]
ApplyPcs == {"backup", "adds", "merge", "post", "record", "test", "unrecord", "rollback", "clear"}
ReplayPcs == {"reset", "replay"}
Pcs == {"idle", "lock"} \cup ApplyPcs \cup ReplayPcs

\* Where a process is says which operation it runs, and that one on which skill.
Operation ==
    {r \in [op : {"none", "apply", "uninstall", "rebase"}, pc : Pcs,
            skill : Skills \cup {"none"}, list : Seq(Skills), todo : SUBSET Files] :
        /\ r.pc # "idle" => r.op # "none"
        /\ r.pc \in ApplyPcs => r.op = "apply"
        /\ r.pc \in ReplayPcs => r.op # "apply"
        /\ r.op \in {"apply", "uninstall"} => r.skill \in Skills}

SkillTypes ==
    /\ ready \in BOOLEAN
    /\ applied \in Seq(Skills) /\ IsInjective(applied)
    /\ tree \in Trees /\ base \in Trees
    /\ before.base \in Trees /\ before.tree \in Trees /\ before.applied \in Seq(Skills)
    /\ backup \in [Files -> [copy : SUBSET Atoms, tomb : BOOLEAN]]
    /\ tools \subseteq Skills
    /\ session \subseteq Files
    /\ lock \in Procs \cup {NoOwner}
    /\ proc \in [Procs -> Operation]
    /\ faults \in 0 .. FaultBound

\* The lock excludes: who is inside an operation owns it.
OneInside == \A p \in Procs : Locked(p) => lock = p

\* A sequence without the element at one position.
LEMMA Cut ==
    ASSUME NEW S, NEW list \in Seq(S), NEW i \in 1 .. Len(list)
    PROVE  /\ RemoveAt(list, i) \in Seq(S) /\ Len(RemoveAt(list, i)) = Len(list) - 1
           /\ \A j \in 1 .. (Len(list) - 1) :
                 RemoveAt(list, i)[j] = IF j < i THEN list[j] ELSE list[j + 1]
<1>1. Len(list) \in Nat /\ i \in Nat /\ i >= 1 /\ i <= Len(list) /\ \A j \in 1 .. Len(list) : list[j] \in S
  OBVIOUS
<1>2. PICK a : a = SubSeq(list, 1, i - 1)
  OBVIOUS
<1>3. PICK c : c = SubSeq(list, i + 1, Len(list))
  OBVIOUS
<1>4. /\ a \in Seq(S) /\ Len(a) = i - 1
      /\ \A j \in 1 .. (i - 1) : a[j] = list[j]
  <2>1. 1 \in Int /\ i - 1 \in Int /\ \A j \in 1 .. (i - 1) : list[j] \in S
    BY <1>1
  <2>2. /\ a \in Seq(S) /\ Len(a) = (IF 1 <= i - 1 THEN (i - 1) - 1 + 1 ELSE 0)
        /\ \A j \in 1 .. (i - 1) - 1 + 1 : a[j] = list[1 + j - 1]
    BY <1>2, <2>1, SubSeqProperties
  <2>3. \A j \in 1 .. (i - 1) : j \in 1 .. (i - 1) - 1 + 1 /\ 1 + j - 1 = j
    BY <1>1
  <2>4. QED
    BY <1>1, <2>2, <2>3
<1>5. /\ c \in Seq(S) /\ Len(c) = Len(list) - i
      /\ \A j \in 1 .. (Len(list) - i) : c[j] = list[i + j]
  <2>1. i + 1 \in Int /\ Len(list) \in Int /\ \A j \in (i + 1) .. Len(list) : list[j] \in S
    BY <1>1
  <2>2. /\ c \in Seq(S) /\ Len(c) = (IF i + 1 <= Len(list) THEN Len(list) - (i + 1) + 1 ELSE 0)
        /\ \A j \in 1 .. Len(list) - (i + 1) + 1 : c[j] = list[(i + 1) + j - 1]
    BY <1>3, <2>1, SubSeqProperties
  <2>3. \A j \in 1 .. (Len(list) - i) : j \in 1 .. Len(list) - (i + 1) + 1 /\ (i + 1) + j - 1 = i + j
    BY <1>1
  <2>4. QED
    BY <1>1, <2>2, <2>3
<1>6. RemoveAt(list, i) = a \o c
  BY <1>2, <1>3 DEF RemoveAt
<1>7. /\ a \o c \in Seq(S) /\ Len(a \o c) = Len(a) + Len(c)
      /\ \A j \in 1 .. Len(a) + Len(c) : (a \o c)[j] = IF j <= Len(a) THEN a[j] ELSE c[j - Len(a)]
  BY <1>4, <1>5, ConcatProperties
<1>8. ASSUME NEW j \in 1 .. (Len(list) - 1)
      PROVE  (a \o c)[j] = IF j < i THEN list[j] ELSE list[j + 1]
  <2>1. j \in 1 .. Len(a) + Len(c) /\ (j <= Len(a) <=> j < i)
    BY <1>1, <1>4, <1>5
  <2>2. CASE j < i
    <3>1. (a \o c)[j] = a[j] /\ j \in 1 .. (i - 1)
      BY <1>1, <1>7, <2>1, <2>2
    <3>2. QED
      BY <1>4, <2>2, <3>1
  <2>3. CASE ~(j < i)
    <3>1. (a \o c)[j] = c[j - Len(a)] /\ j - Len(a) \in 1 .. (Len(list) - i) /\ i + (j - Len(a)) = j + 1
      BY <1>1, <1>4, <1>7, <2>1, <2>3
    <3>2. QED
      BY <1>5, <2>3, <3>1
  <2>4. QED
    BY <2>2, <2>3
<1>9. QED
  BY <1>1, <1>4, <1>5, <1>6, <1>7, <1>8

\* Taking a skill off the list removes it and nothing else.
LEMMA WithoutSkill ==
    ASSUME NEW list \in Seq(Skills), IsInjective(list), NEW s
    PROVE  /\ Without(list, s) \in Seq(Skills) /\ IsInjective(Without(list, s))
           /\ ToSet(Without(list, s)) = ToSet(list) \ {s}
<1>1. CASE s \notin ToSet(list)
  BY <1>1 DEF Without
<1>2. CASE s \in ToSet(list)
  <2>1. PICK i : i = (CHOOSE j \in DOMAIN list : list[j] = s)
    OBVIOUS
  <2>2. i \in DOMAIN list /\ list[i] = s /\ Without(list, s) = RemoveAt(list, i)
    BY <1>2, <2>1 DEF ToSet, Without
  <2>3. PICK rest : rest = RemoveAt(list, i)
    OBVIOUS
  <2>4. i \in 1 .. Len(list) /\ Len(list) \in Nat /\ DOMAIN list = 1 .. Len(list)
    BY <2>2
  <2>5. /\ rest \in Seq(Skills) /\ Len(rest) = Len(list) - 1
        /\ \A j \in 1 .. (Len(list) - 1) : rest[j] = IF j < i THEN list[j] ELSE list[j + 1]
    BY <2>3, <2>4, Cut
  <2>6. DOMAIN rest = 1 .. (Len(list) - 1)
    BY <2>5
  <2>7. \A j, k \in DOMAIN list : list[j] = list[k] => j = k
    BY DEF IsInjective
  <2>8. ASSUME NEW j \in DOMAIN rest
        PROVE  \E k \in DOMAIN list : rest[j] = list[k] /\ k = (IF j < i THEN j ELSE j + 1)
    <3>1. j \in 1 .. (Len(list) - 1) /\ (IF j < i THEN j ELSE j + 1) \in 1 .. Len(list)
      BY <2>4, <2>6
    <3>2. rest[j] = list[IF j < i THEN j ELSE j + 1]
      BY <2>5, <3>1
    <3>3. QED
      BY <2>4, <3>1, <3>2
  <2>9. ASSUME NEW j1 \in DOMAIN rest, NEW j2 \in DOMAIN rest, rest[j1] = rest[j2] PROVE j1 = j2
    <3>1. PICK k1 \in DOMAIN list : rest[j1] = list[k1] /\ k1 = (IF j1 < i THEN j1 ELSE j1 + 1)
      BY <2>8
    <3>2. PICK k2 \in DOMAIN list : rest[j2] = list[k2] /\ k2 = (IF j2 < i THEN j2 ELSE j2 + 1)
      BY <2>8
    <3>3. k1 = k2
      BY <2>7, <2>9, <3>1, <3>2
    <3>4. j1 \in Nat /\ j2 \in Nat /\ i \in Nat
      BY <2>4, <2>6
    <3>5. QED
      BY <3>1, <3>2, <3>3, <3>4
  <2>10. ASSUME NEW j \in DOMAIN rest PROVE rest[j] \in ToSet(list) \ {s}
    <3>1. PICK k \in DOMAIN list : rest[j] = list[k] /\ k = (IF j < i THEN j ELSE j + 1)
      BY <2>8
    <3>2. k # i
      BY <2>4, <2>6, <3>1
    <3>3. list[k] # s
      BY <2>2, <2>7, <3>2
    <3>4. QED
      BY <3>1, <3>3 DEF ToSet
  <2>11. ASSUME NEW t \in ToSet(list) \ {s} PROVE \E j \in DOMAIN rest : rest[j] = t
    <3>1. PICK j \in DOMAIN list : list[j] = t
      BY DEF ToSet
    <3>2. j # i /\ j \in Nat
      BY <2>2, <2>4, <3>1
    <3>3. CASE j < i
      BY <2>4, <2>5, <2>6, <3>1, <3>3
    <3>4. CASE j > i
      <4>1. j - 1 \in 1 .. (Len(list) - 1) /\ ~(j - 1 < i) /\ (j - 1) + 1 = j
        BY <2>4, <3>1, <3>4
      <4>2. QED
        BY <2>5, <2>6, <3>1, <4>1
    <3>5. QED
      BY <2>4, <3>2, <3>3, <3>4
  <2>12. ToSet(rest) = ToSet(list) \ {s}
    BY <2>10, <2>11 DEF ToSet
  <2>13. IsInjective(rest)
    BY <2>9 DEF IsInjective
  <2>14. QED
    BY <2>2, <2>3, <2>5, <2>12, <2>13
<1>3. QED
  BY <1>1, <1>2

\* The elements of a longer and of a shorter list.
LEMMA ListElements ==
    ASSUME NEW list \in Seq(Skills)
    PROVE  /\ ToSet(list) \subseteq Skills
           /\ \A s \in Skills : ToSet(Append(list, s)) = ToSet(list) \cup {s}
           /\ list # <<>> => /\ Head(list) \in Skills /\ Tail(list) \in Seq(Skills)
                             /\ ToSet(list) = ToSet(Tail(list)) \cup {Head(list)}
           /\ list = <<>> => ToSet(list) = {}
<1>1. \A i \in DOMAIN list : list[i] \in Skills
  OBVIOUS
<1>2. ToSet(list) \subseteq Skills
  BY <1>1 DEF ToSet
<1>3. ASSUME NEW s \in Skills PROVE ToSet(Append(list, s)) = ToSet(list) \cup {s}
  <2>1. /\ DOMAIN Append(list, s) = DOMAIN list \cup {Len(list) + 1}
        /\ \A i \in DOMAIN list : Append(list, s)[i] = list[i]
        /\ Append(list, s)[Len(list) + 1] = s
    OBVIOUS
  <2>2. QED
    BY <2>1 DEF ToSet
<1>4. ASSUME list # <<>>
      PROVE  /\ Head(list) \in Skills /\ Tail(list) \in Seq(Skills)
             /\ ToSet(list) = ToSet(Tail(list)) \cup {Head(list)}
  <2>1. /\ Tail(list) \in Seq(Skills) /\ Head(list) = list[1] /\ 1 \in DOMAIN list
        /\ Len(list) \in Nat /\ DOMAIN list = 1 .. Len(list)
        /\ DOMAIN Tail(list) = 1 .. (Len(list) - 1)
        /\ \A i \in 1 .. (Len(list) - 1) : Tail(list)[i] = list[i + 1]
    BY <1>4
  <2>2. ASSUME NEW i \in DOMAIN list, i # 1 PROVE i - 1 \in DOMAIN Tail(list) /\ Tail(list)[i - 1] = list[i]
    BY <2>1, <2>2
  <2>3. ToSet(list) \subseteq ToSet(Tail(list)) \cup {Head(list)}
    BY <2>1, <2>2 DEF ToSet
  <2>4. ToSet(Tail(list)) \cup {Head(list)} \subseteq ToSet(list)
    <3>1. \A i \in DOMAIN Tail(list) : i + 1 \in DOMAIN list /\ Tail(list)[i] = list[i + 1]
      BY <2>1
    <3>2. QED
      BY <2>1, <3>1 DEF ToSet
  <2>5. QED
    BY <1>1, <2>1, <2>3, <2>4
<1>5. list = <<>> => ToSet(list) = {}
  BY DEF ToSet
<1>6. QED
  BY <1>2, <1>3, <1>4, <1>5

\* The manifests, in short.
LEMMA Manifests ==
    ASSUME NEW s \in Skills
    PROVE  /\ Adds[s] \subseteq Files /\ Modifies[s] \subseteq Files /\ Deletes[s] \subseteq Files
           /\ Structured[s] \subseteq Files /\ Depends[s] \subseteq Skills
           /\ BaseFiles \subseteq Files /\ Shipped \subseteq Files
  BY SkillsAssumption DEF Shipped

\* Merges, copies and structured operations give files that are sets of atoms.
LEMMA TreeOperations ==
    ASSUME NEW b \in Trees, NEW t \in Trees, NEW s \in Skills
    PROVE  /\ FileOpsAndAdds(t, s) \in Trees
           /\ \A fs : /\ MergeModified(b, t, s, fs).base \in Trees
                      /\ MergeModified(b, t, s, fs).tree \in Trees
           /\ \A fs : fs \subseteq Skills => MergeStructured(t, fs) \in Trees
           /\ \A list : ResetTouched(b, t, list) \in Trees
           /\ ReplayOne(b, t, s).base \in Trees /\ ReplayOne(b, t, s).tree \in Trees
<1>1. \A f : Theirs(s, f) \subseteq Atoms
  BY Manifests DEF Theirs, Atoms
<1>2. FileOpsAndAdds(t, s) \in Trees
  BY DEF FileOpsAndAdds, Trees, Atoms
<1>3. ASSUME NEW u \in Trees, NEW fs
      PROVE  MergeModified(b, u, s, fs).base \in Trees /\ MergeModified(b, u, s, fs).tree \in Trees
  <2>1. ASSUME NEW f \in Files PROVE CleanCopy(b, u, f) \subseteq Atoms
    BY DEF CleanCopy, Trees
  <2>2. ASSUME NEW f \in Files PROVE MergedFile(b, u, s, f) \subseteq Atoms
    BY <1>1, <2>1 DEF MergedFile, MergeFile, Trees
  <2>3. \A f \in Files : b[f] \subseteq Atoms /\ u[f] \subseteq Atoms
    BY DEF Trees
  <2>4. QED
    BY <2>1, <2>2, <2>3 DEF MergeModified, Trees
<1>4. \A fs : fs \subseteq Skills => MergeStructured(t, fs) \in Trees
  BY DEF MergeStructured, Trees, Atoms
<1>5. \A list : ResetTouched(b, t, list) \in Trees
  BY DEF ResetTouched, Trees
<1>6. QED
  BY <1>2, <1>3, <1>4, <1>5 DEF ReplayOne, MergeAll

-----------------------------------------------------------------------------

\* A process that starts an operation, moves on in it, or ends it.
LEMMA Becomes ==
    ASSUME SkillTypes, NEW p \in Procs, NEW r \in Operation, proc' = [proc EXCEPT ![p] = r]
    PROVE  /\ proc' \in [Procs -> Operation]
           /\ proc'[p] = r
           /\ \A q \in Procs : q # p => proc'[q] = proc[q]
  BY DEF SkillTypes

\* The record of a process that is not running anything.
LEMMA IdleType == Idle \in Operation /\ Idle.pc = "idle" /\ Idle.op = "none"
  BY DEF Idle, Operation, Pcs, ApplyPcs, ReplayPcs

\* Going to another point of the operation changes nothing else of it.
LEMMA GoesOn ==
    ASSUME SkillTypes, NEW p \in Procs, NEW label \in Pcs, Goto(p, label),
           label # "idle" => proc[p].op # "none",
           label \in ApplyPcs => proc[p].op = "apply",
           label \in ReplayPcs => proc[p].op # "apply"
    PROVE  /\ proc' \in [Procs -> Operation]
           /\ \A q \in Procs : q # p => proc'[q] = proc[q]
           /\ proc'[p].pc = label /\ proc'[p].op = proc[p].op /\ proc'[p].skill = proc[p].skill
           /\ proc'[p].list = proc[p].list /\ proc'[p].todo = proc[p].todo
<1>1. proc[p] \in Operation /\ proc \in [Procs -> Operation]
  BY DEF SkillTypes
<1>2. proc' = [proc EXCEPT ![p].pc = label]
  BY DEF Goto
<1>3. proc' = [proc EXCEPT ![p] = [proc[p] EXCEPT !.pc = label]]
  BY <1>1, <1>2
<1>4. [proc[p] EXCEPT !.pc = label] \in Operation
  BY <1>1 DEF Operation
<1>5. proc'[p] = [proc[p] EXCEPT !.pc = label]
  BY <1>1, <1>3
<1>6. QED
  BY <1>1, <1>3, <1>4, <1>5, Becomes DEF Operation

\* Who owns the lock is the only one inside, also after a step of one process that leaves the
\* lock to another that holds it.
LEMMA InsideNext ==
    ASSUME OneInside, NEW p \in Procs, \A q \in Procs : q # p => proc'[q] = proc[q],
           Locked(p)' => lock' = p,
           \A q \in Procs : q # p /\ Locked(q) => lock' = q
    PROVE  OneInside'
  BY DEF OneInside, Locked

\* The owner of the lock is alone.
LEMMA Alone ==
    ASSUME OneInside, NEW p \in Procs, Locked(p)
    PROVE  \A q \in Procs : q # p => ~Locked(q)
  BY DEF OneInside

\* The lock is taken only when nobody is inside.
LEMMA FreeLock ==
    ASSUME OneInside, LockFree
    PROVE  \A q \in Procs : ~Locked(q)
<1>1. SUFFICES ASSUME NEW q \in Procs, Locked(q) PROVE FALSE
  OBVIOUS
<1>2. lock = q
  BY <1>1 DEF OneInside
<1>3. lock # NoOwner
  BY <1>2, AtomAssumption
<1>4. QED
  BY <1>1, <1>2, <1>3 DEF LockFree

\* Releasing the lock.
LEMMA Releases ==
    ASSUME SkillTypes, OneInside, NEW p \in Procs, Locked(p), ReleaseLock(p)
    PROVE  /\ proc' \in [Procs -> Operation] /\ OneInside' /\ lock' \in Procs \cup {NoOwner}
           /\ proc'[p] = Idle /\ \A q \in Procs : q # p => proc'[q] = proc[q]
<1>1. /\ proc' \in [Procs -> Operation] /\ proc'[p] = Idle
      /\ \A q \in Procs : q # p => proc'[q] = proc[q]
  BY Becomes, IdleType DEF ReleaseLock
<1>2. Locked(p)' => lock' = p
  BY <1>1, IdleType DEF Locked
<1>3. \A q \in Procs : q # p /\ Locked(q) => lock' = q
  BY Alone
<1>4. QED
  BY <1>1, <1>2, <1>3, InsideNext DEF ReleaseLock, SkillTypes

\* Saved files are copies of project files.
LEMMA SavedTypes ==
    ASSUME SkillTypes, NEW s \in Skills
    PROVE  CreateBackup(s) \in [Files -> [copy : SUBSET Atoms, tomb : BOOLEAN]]
<1>1. \A f \in Files : /\ backup[f] \in [copy : SUBSET Atoms, tomb : BOOLEAN]
                       /\ tree[f] \in SUBSET Atoms
  BY DEF SkillTypes, Trees
<1>2. ASSUME NEW f \in Files
      PROVE  /\ [backup[f] EXCEPT !.copy = tree[f]] \in [copy : SUBSET Atoms, tomb : BOOLEAN]
             /\ [backup[f] EXCEPT !.tomb = TRUE] \in [copy : SUBSET Atoms, tomb : BOOLEAN]
  BY <1>1
<1>3. QED
  BY <1>1, <1>2 DEF CreateBackup

\* The steps before the lock, and those of users and of a crash, keep the types and the lock.
LEMMA OuterTypes ==
    ASSUME SkillTypes, OneInside, NEW p \in Procs,
           \/ InitSkillsSystem(p) \/ RebaseSkills(p) \/ Crash(p)
           \/ \E s \in Skills : ApplySkill(p, s) \/ UninstallSkill(p, s)
    PROVE  SkillTypes' /\ OneInside'
<1>0. /\ tree \in Trees /\ base \in Trees /\ before.base \in Trees /\ before.tree \in Trees
      /\ applied \in Seq(Skills) /\ IsInjective(applied) /\ faults \in 0 .. FaultBound
      /\ proc \in [Procs -> Operation] /\ FaultBound \in Nat
  BY SkillsAssumption DEF SkillTypes
<1>1. CASE InitSkillsSystem(p)
  <2>1. Snapshot \in Trees
    BY <1>0 DEF Snapshot, Trees
  <2>2. <<>> \in Seq(Skills) /\ IsInjective(<<>>)
    BY DEF IsInjective
  <2>3. SkillTypes'
    BY <1>1, <2>1, <2>2 DEF InitSkillsSystem, SkillTypes
  <2>4. QED
    BY <1>1, <2>3 DEF InitSkillsSystem, OneInside, Locked
<1>2. CASE RebaseSkills(p)
  <2>1. PICK r : r = [op |-> "rebase", pc |-> "lock", skill |-> "none", list |-> applied, todo |-> {}]
    OBVIOUS
  <2>2. r \in Operation /\ r.pc = "lock"
    BY <1>0, <2>1 DEF Operation, Pcs, ApplyPcs, ReplayPcs
  <2>3. proc' = [proc EXCEPT ![p] = r]
    BY <1>2, <2>1 DEF RebaseSkills
  <2>4. /\ proc' \in [Procs -> Operation] /\ proc'[p] = r
        /\ \A q \in Procs : q # p => proc'[q] = proc[q]
    BY <2>2, <2>3, Becomes
  <2>5. SkillTypes'
    BY <1>2, <2>4 DEF RebaseSkills, SkillTypes
  <2>6. ~Locked(p)'
    BY <2>2, <2>4 DEF Locked
  <2>7. \A q \in Procs : q # p /\ Locked(q) => lock' = q
    BY <1>2 DEF RebaseSkills, OneInside
  <2>8. QED
    BY <2>4, <2>5, <2>6, <2>7, InsideNext
<1>3. CASE Crash(p)
  <2>1. proc' = [proc EXCEPT ![p] = Idle]
    BY <1>3 DEF Crash
  <2>2. /\ proc' \in [Procs -> Operation] /\ proc'[p] = Idle
        /\ \A q \in Procs : q # p => proc'[q] = proc[q]
    BY <2>1, IdleType, Becomes
  <2>3. before' = before \/ before' = [applied |-> applied, base |-> base, tree |-> tree]
    BY <1>3 DEF Crash, Noted
  <2>4. before'.base \in Trees /\ before'.tree \in Trees /\ before'.applied \in Seq(Skills)
    BY <1>0, <2>3 DEF SkillTypes
  <2>5. faults' \in 0 .. FaultBound
    BY <1>0, <1>3 DEF Crash, Fault
  <2>6. SkillTypes'
    BY <1>3, <2>2, <2>4, <2>5 DEF Crash, SkillTypes
  <2>7. ~Locked(p)'
    BY <2>2, IdleType DEF Locked
  <2>8. \A q \in Procs : q # p /\ Locked(q) => lock' = q
    BY <1>3 DEF Crash, OneInside
  <2>9. QED
    BY <2>2, <2>6, <2>7, <2>8, InsideNext
<1>4. ASSUME NEW s \in Skills, ApplySkill(p, s) PROVE SkillTypes' /\ OneInside'
  <2>1. PICK r : r = [op |-> "apply", pc |-> "lock", skill |-> s, list |-> <<>>, todo |-> {}]
    OBVIOUS
  <2>2. r \in Operation /\ r.pc = "lock"
    BY <2>1 DEF Operation, Pcs, ApplyPcs, ReplayPcs
  <2>3. proc' = [proc EXCEPT ![p] = r]
    BY <1>4, <2>1 DEF ApplySkill
  <2>4. /\ proc' \in [Procs -> Operation] /\ proc'[p] = r
        /\ \A q \in Procs : q # p => proc'[q] = proc[q]
    BY <2>2, <2>3, Becomes
  <2>5. Snapshot \in Trees
    BY <1>0 DEF Snapshot, Trees
  <2>6. base' \in Trees
    BY <1>0, <1>4, <2>5 DEF ApplySkill
  <2>7. SkillTypes'
    BY <1>4, <2>4, <2>6 DEF ApplySkill, SkillTypes
  <2>8. ~Locked(p)'
    BY <2>2, <2>4 DEF Locked
  <2>9. \A q \in Procs : q # p /\ Locked(q) => lock' = q
    BY <1>4 DEF ApplySkill, OneInside
  <2>10. QED
    BY <2>4, <2>7, <2>8, <2>9, InsideNext
<1>5. ASSUME NEW s \in Skills, UninstallSkill(p, s) PROVE SkillTypes' /\ OneInside'
  <2>1. PICK r : r = [op |-> "uninstall", pc |-> "lock", skill |-> s,
                      list |-> Without(applied, s), todo |-> {}]
    OBVIOUS
  <2>2. Without(applied, s) \in Seq(Skills)
    BY <1>0, WithoutSkill
  <2>3. r \in Operation /\ r.pc = "lock"
    BY <2>1, <2>2 DEF Operation, Pcs, ApplyPcs, ReplayPcs
  <2>4. CASE proc' = [proc EXCEPT ![p] = r] /\ tools' = tools \ {s} /\ UNCHANGED faults
    <3>1. /\ proc' \in [Procs -> Operation] /\ proc'[p] = r
          /\ \A q \in Procs : q # p => proc'[q] = proc[q]
      BY <2>3, <2>4, Becomes
    <3>2. SkillTypes'
      BY <1>5, <2>4, <3>1 DEF UninstallSkill, SkillTypes
    <3>3. ~Locked(p)'
      BY <2>3, <3>1 DEF Locked
    <3>4. \A q \in Procs : q # p /\ Locked(q) => lock' = q
      BY <1>5 DEF UninstallSkill, OneInside
    <3>5. QED
      BY <3>1, <3>2, <3>3, <3>4, InsideNext
  <2>5. CASE Fault("no_dir") /\ UNCHANGED <<proc, tools>>
    <3>1. faults' \in 0 .. FaultBound
      BY <1>0, <2>5 DEF Fault
    <3>2. SkillTypes'
      BY <1>5, <2>5, <3>1 DEF UninstallSkill, SkillTypes
    <3>3. QED
      BY <1>5, <2>5, <3>2 DEF UninstallSkill, OneInside, Locked
  <2>6. QED
    BY <1>5, <2>1, <2>4, <2>5 DEF UninstallSkill
<1>6. QED
  BY <1>1, <1>2, <1>3, <1>4, <1>5

\* The same for what is done under the lock that is not the last step of an operation.
LEMMA InnerTypes ==
    ASSUME SkillTypes, OneInside, NEW p \in Procs,
           \/ SaveFiles(p) \/ CopyAdds(p) \/ MergeNext(p) \/ MergesDone(p) \/ PostApply(p)
           \/ RecordSkillApplication(p) \/ RunTest(p) \/ RollBack(p) \/ ReplayReset(p)
    PROVE  /\ SkillTypes' /\ OneInside' /\ Locked(p)
           /\ \A q \in Procs : q # p => proc'[q] = proc[q]
           /\ proc'[p].op = proc[p].op /\ proc'[p].skill = proc[p].skill
           /\ proc'[p].list = proc[p].list
           /\ lock' = lock /\ ready' = ready
<1>0. /\ tree \in Trees /\ base \in Trees /\ before.base \in Trees /\ before.tree \in Trees
      /\ applied \in Seq(Skills) /\ IsInjective(applied) /\ faults \in 0 .. FaultBound
      /\ proc \in [Procs -> Operation] /\ FaultBound \in Nat /\ proc[p] \in Operation
      /\ tools \subseteq Skills
  BY SkillsAssumption DEF SkillTypes
<1>1. /\ proc[p].pc \in ApplyPcs => proc[p].op = "apply" /\ proc[p].skill \in Skills
      /\ proc[p].pc \in ReplayPcs => proc[p].op # "apply" /\ proc[p].op # "none"
  BY <1>0 DEF Operation, ReplayPcs
<1>2. \A q \in Procs : q # p /\ Locked(q) => lock = q
  BY DEF OneInside
<1>3. ASSUME Locked(p), \A q \in Procs : q # p => proc'[q] = proc[q], lock' = lock
      PROVE  OneInside'
  <2>1. lock = p
    BY <1>3 DEF OneInside
  <2>2. QED
    BY <1>2, <1>3, <2>1, InsideNext
<1>4. \A kind : Fault(kind) => faults' \in 0 .. FaultBound
  BY <1>0 DEF Fault
<1>5. CASE SaveFiles(p)
  <2>1. At(p, "backup") /\ Goto(p, "adds") /\ Locked(p) /\ proc[p].op = "apply" /\ proc[p].skill \in Skills
    BY <1>1, <1>5 DEF SaveFiles, At, ApplyPcs, Locked
  <2>2. /\ proc' \in [Procs -> Operation] /\ \A q \in Procs : q # p => proc'[q] = proc[q]
        /\ proc'[p].op = proc[p].op /\ proc'[p].skill = proc[p].skill /\ proc'[p].list = proc[p].list
    BY <2>1, GoesOn DEF Pcs, ApplyPcs, ReplayPcs
  <2>3. backup' \in [Files -> [copy : SUBSET Atoms, tomb : BOOLEAN]]
    BY <1>5, <2>1, SavedTypes DEF SaveFiles
  <2>4. SkillTypes'
    BY <1>5, <2>2, <2>3 DEF SaveFiles, SkillTypes
  <2>5. QED
    BY <1>3, <1>5, <2>1, <2>2, <2>4 DEF SaveFiles
<1>6. CASE CopyAdds(p)
  <2>1. At(p, "adds") /\ Locked(p) /\ proc[p].op = "apply" /\ proc[p].skill \in Skills
    BY <1>1, <1>6 DEF CopyAdds, At, ApplyPcs, Locked
  <2>2. PICK s : s = proc[p].skill /\ s \in Skills
    BY <2>1
  <2>3. CASE /\ tree' = FileOpsAndAdds(tree, s)
             /\ tools' = IF s \in HasTools THEN tools \cup {s} ELSE tools
             /\ proc' = [proc EXCEPT ![p].pc = "merge", ![p].todo = Modifies[s]]
             /\ UNCHANGED faults
    <3>1. PICK r : r = [proc[p] EXCEPT !.pc = "merge", !.todo = Modifies[s]]
      OBVIOUS
    <3>2. r \in Operation /\ r.op = proc[p].op /\ r.skill = proc[p].skill /\ r.list = proc[p].list
      BY <1>0, <2>1, <2>2, <3>1, Manifests DEF Operation, Pcs, ApplyPcs, ReplayPcs
    <3>3. proc' = [proc EXCEPT ![p] = r]
      BY <1>0, <2>3, <3>1
    <3>4. /\ proc' \in [Procs -> Operation] /\ proc'[p] = r
          /\ \A q \in Procs : q # p => proc'[q] = proc[q]
      BY <3>2, <3>3, Becomes
    <3>5. tree' \in Trees /\ tools' \subseteq Skills
      BY <1>0, <2>2, <2>3, TreeOperations
    <3>6. SkillTypes'
      BY <1>6, <2>3, <3>4, <3>5 DEF CopyAdds, SkillTypes
    <3>7. QED
      BY <1>3, <1>6, <2>1, <3>2, <3>4, <3>6 DEF CopyAdds
  <2>4. CASE Fault("file_ops") /\ Goto(p, "rollback") /\ UNCHANGED <<tree, tools>>
    <3>1. /\ proc' \in [Procs -> Operation] /\ \A q \in Procs : q # p => proc'[q] = proc[q]
          /\ proc'[p].op = proc[p].op /\ proc'[p].skill = proc[p].skill /\ proc'[p].list = proc[p].list
      BY <2>1, <2>4, GoesOn DEF Pcs, ApplyPcs, ReplayPcs
    <3>2. SkillTypes'
      BY <1>4, <1>6, <2>4, <3>1 DEF CopyAdds, SkillTypes
    <3>3. QED
      BY <1>3, <1>6, <2>1, <3>1, <3>2 DEF CopyAdds
  <2>5. QED
    BY <1>6, <2>2, <2>3, <2>4 DEF CopyAdds
<1>7. CASE MergeNext(p)
  <2>1. At(p, "merge") /\ Locked(p) /\ proc[p].op = "apply" /\ proc[p].skill \in Skills
    BY <1>1, <1>7 DEF MergeNext, At, ApplyPcs, Locked
  <2>2. PICK s : s = proc[p].skill /\ s \in Skills
    BY <2>1
  <2>3. PICK f \in proc[p].todo :
           \/ /\ base' = MergeModified(base, tree, s, {f}).base
              /\ tree' = MergeModified(base, tree, s, {f}).tree
              /\ proc' = [proc EXCEPT ![p].todo = @ \ {f}]
              /\ UNCHANGED faults
           \/ /\ base' = MergeModified(base, tree, s, {f}).base
              /\ tree' = MergeModified(base, tree, s, {f}).tree
              /\ \E kind : Fault(kind)
              /\ Goto(p, "rollback")
           \/ (\E kind : Fault(kind)) /\ Goto(p, "rollback") /\ UNCHANGED <<base, tree>>
    BY <1>7, <2>2 DEF MergeNext
  <2>4. base' \in Trees /\ tree' \in Trees
    BY <1>0, <2>2, <2>3, TreeOperations
  <2>5. faults' \in 0 .. FaultBound
    BY <1>0, <1>4, <2>3
  <2>6. /\ proc' \in [Procs -> Operation] /\ \A q \in Procs : q # p => proc'[q] = proc[q]
        /\ proc'[p].op = proc[p].op /\ proc'[p].skill = proc[p].skill /\ proc'[p].list = proc[p].list
    <3>1. CASE proc' = [proc EXCEPT ![p].todo = @ \ {f}]
      <4>1. PICK r : r = [proc[p] EXCEPT !.todo = @ \ {f}]
        OBVIOUS
      <4>2. r \in Operation /\ r.op = proc[p].op /\ r.skill = proc[p].skill /\ r.list = proc[p].list
        BY <1>0, <4>1 DEF Operation
      <4>3. proc' = [proc EXCEPT ![p] = r]
        BY <1>0, <3>1, <4>1
      <4>4. QED
        BY <4>2, <4>3, Becomes
    <3>2. CASE Goto(p, "rollback")
      BY <2>1, <3>2, GoesOn DEF Pcs, ApplyPcs, ReplayPcs
    <3>3. QED
      BY <2>3, <3>1, <3>2
  <2>7. SkillTypes'
    BY <1>7, <2>4, <2>5, <2>6 DEF MergeNext, SkillTypes
  <2>8. QED
    BY <1>3, <1>7, <2>1, <2>6, <2>7 DEF MergeNext
<1>8. CASE MergesDone(p)
  <2>1. At(p, "merge") /\ Locked(p) /\ proc[p].op = "apply" /\ proc[p].skill \in Skills
    BY <1>1, <1>8 DEF MergesDone, At, ApplyPcs, Locked
  <2>2. /\ proc' \in [Procs -> Operation] /\ \A q \in Procs : q # p => proc'[q] = proc[q]
        /\ proc'[p].op = proc[p].op /\ proc'[p].skill = proc[p].skill /\ proc'[p].list = proc[p].list
    BY <1>8, <2>1, GoesOn DEF Pcs, ApplyPcs, ReplayPcs, MergesDone
  <2>3. tree' \in Trees
    BY <1>0, <1>8, <2>1, TreeOperations DEF MergesDone
  <2>4. SkillTypes'
    BY <1>8, <2>2, <2>3 DEF MergesDone, SkillTypes
  <2>5. QED
    BY <1>3, <1>8, <2>1, <2>2, <2>4 DEF MergesDone
<1>9. CASE PostApply(p)
  <2>1. At(p, "post") /\ Locked(p) /\ proc[p].op = "apply"
    BY <1>1, <1>9 DEF PostApply, At, ApplyPcs, Locked
  <2>2. /\ Goto(p, "record") \/ Goto(p, "rollback")
        /\ faults' \in 0 .. FaultBound
    BY <1>0, <1>4, <1>9 DEF PostApply
  <2>3. /\ proc' \in [Procs -> Operation] /\ \A q \in Procs : q # p => proc'[q] = proc[q]
        /\ proc'[p].op = proc[p].op /\ proc'[p].skill = proc[p].skill /\ proc'[p].list = proc[p].list
    BY <2>1, <2>2, GoesOn DEF Pcs, ApplyPcs, ReplayPcs
  <2>4. SkillTypes'
    BY <1>9, <2>2, <2>3 DEF PostApply, SkillTypes
  <2>5. QED
    BY <1>3, <1>9, <2>1, <2>3, <2>4 DEF PostApply
<1>10. CASE RecordSkillApplication(p)
  <2>1. At(p, "record") /\ Locked(p) /\ proc[p].op = "apply" /\ proc[p].skill \in Skills
    BY <1>1, <1>10 DEF RecordSkillApplication, At, ApplyPcs, Locked
  <2>2. /\ proc' \in [Procs -> Operation] /\ \A q \in Procs : q # p => proc'[q] = proc[q]
        /\ proc'[p].op = proc[p].op /\ proc'[p].skill = proc[p].skill /\ proc'[p].list = proc[p].list
    BY <1>10, <2>1, GoesOn DEF Pcs, ApplyPcs, ReplayPcs, RecordSkillApplication
  <2>3. PICK a : a = Without(applied, proc[p].skill)
    OBVIOUS
  <2>4. a \in Seq(Skills) /\ IsInjective(a) /\ proc[p].skill \notin ToSet(a)
    BY <1>0, <2>3, WithoutSkill
  <2>5. applied' = Append(a, proc[p].skill)
    BY <1>10, <2>3 DEF RecordSkillApplication
  <2>6. applied' \in Seq(Skills) /\ IsInjective(applied')
    <3>1. applied' \in Seq(Skills) /\ Len(a) \in Nat /\ DOMAIN applied' = 1 .. Len(a) + 1
      BY <2>1, <2>4, <2>5
    <3>2. \A i \in 1 .. Len(a) : applied'[i] = a[i] /\ a[i] # proc[p].skill
      BY <2>1, <2>4, <2>5 DEF ToSet
    <3>3. applied'[Len(a) + 1] = proc[p].skill
      BY <2>1, <2>4, <2>5
    <3>4. \A i, j \in 1 .. Len(a) : a[i] = a[j] => i = j
      BY <2>4 DEF IsInjective
    <3>5. ASSUME NEW i \in DOMAIN applied', NEW j \in DOMAIN applied', applied'[i] = applied'[j]
          PROVE  i = j
      <4>1. (i \in 1 .. Len(a) \/ i = Len(a) + 1) /\ (j \in 1 .. Len(a) \/ j = Len(a) + 1)
        BY <3>1
      <4>2. QED
        BY <3>2, <3>3, <3>4, <3>5, <4>1
    <3>6. QED
      BY <3>1, <3>5 DEF IsInjective
  <2>7. SkillTypes'
    BY <1>10, <2>2, <2>6 DEF RecordSkillApplication, SkillTypes
  <2>8. QED
    BY <1>3, <1>10, <2>1, <2>2, <2>7 DEF RecordSkillApplication
<1>11. CASE RunTest(p)
  <2>1. At(p, "test") /\ Locked(p) /\ proc[p].op = "apply"
    BY <1>1, <1>11 DEF RunTest, At, ApplyPcs, Locked
  <2>2. /\ Goto(p, "clear") \/ Goto(p, "unrecord") \/ Goto(p, "rollback")
        /\ faults' \in 0 .. FaultBound
    BY <1>0, <1>4, <1>11 DEF RunTest
  <2>3. /\ proc' \in [Procs -> Operation] /\ \A q \in Procs : q # p => proc'[q] = proc[q]
        /\ proc'[p].op = proc[p].op /\ proc'[p].skill = proc[p].skill /\ proc'[p].list = proc[p].list
    BY <2>1, <2>2, GoesOn DEF Pcs, ApplyPcs, ReplayPcs
  <2>4. SkillTypes'
    BY <1>11, <2>2, <2>3 DEF RunTest, SkillTypes
  <2>5. QED
    BY <1>3, <1>11, <2>1, <2>3, <2>4 DEF RunTest
<1>12. CASE RollBack(p)
  <2>1. Locked(p) /\ proc[p].op = "apply"
    BY <1>1, <1>12 DEF RollBack, At, ApplyPcs, Locked
  <2>2. /\ proc' \in [Procs -> Operation] /\ \A q \in Procs : q # p => proc'[q] = proc[q]
        /\ proc'[p].op = proc[p].op /\ proc'[p].skill = proc[p].skill /\ proc'[p].list = proc[p].list
    BY <1>12, <2>1, GoesOn DEF Pcs, ApplyPcs, ReplayPcs, RollBack
  <2>3. applied' \in Seq(Skills) /\ IsInjective(applied')
    BY <1>0, <1>12, WithoutSkill DEF RollBack
  <2>4. RemoveAdded(p) \in Trees
    BY <1>0 DEF RemoveAdded, Trees
  <2>5. \A f \in Files : backup[f].copy \subseteq Atoms
    BY DEF SkillTypes
  <2>6. RestoredFrom(backup, RemoveAdded(p)) \subseteq Trees
    BY <2>4, <2>5 DEF RestoredFrom, Trees
  <2>7. tree' \in Trees
    BY <1>12, <2>6 DEF RollBack
  <2>8. SkillTypes'
    BY <1>12, <2>2, <2>3, <2>7 DEF RollBack, SkillTypes
  <2>9. QED
    BY <1>3, <1>12, <2>1, <2>2, <2>8 DEF RollBack
<1>13. CASE ReplayReset(p)
  <2>1. At(p, "reset") /\ Locked(p) /\ proc[p].op # "apply" /\ proc[p].op # "none"
    BY <1>1, <1>13 DEF ReplayReset, At, ReplayPcs, Locked
  <2>2. /\ proc' \in [Procs -> Operation] /\ \A q \in Procs : q # p => proc'[q] = proc[q]
        /\ proc'[p].op = proc[p].op /\ proc'[p].skill = proc[p].skill /\ proc'[p].list = proc[p].list
    BY <1>13, <2>1, GoesOn DEF Pcs, ApplyPcs, ReplayPcs, ReplayReset
  <2>3. tree' \in Trees
    <3>1. CASE Skills = {}
      BY <1>0, <1>13, <3>1 DEF ReplayReset, ResetTouched, Trees
    <3>2. CASE Skills # {}
      BY <1>0, <1>13, <3>2, TreeOperations DEF ReplayReset
    <3>3. QED
      BY <3>1, <3>2
  <2>4. SkillTypes'
    BY <1>13, <2>2, <2>3 DEF ReplayReset, SkillTypes
  <2>5. QED
    BY <1>3, <1>13, <2>1, <2>2, <2>4 DEF ReplayReset
<1>14. QED
  BY <1>5, <1>6, <1>7, <1>8, <1>9, <1>10, <1>11, <1>12, <1>13

\* The same for taking the lock, and for the steps that may end an operation.
LEMMA EdgeTypes ==
    ASSUME SkillTypes, OneInside, NEW p \in Procs,
           AcquireLock(p) \/ ClearBackup(p) \/ ReplayNext(p) \/ ReplayDone(p)
    PROVE  SkillTypes' /\ OneInside' /\ \A q \in Procs : q # p => proc'[q] = proc[q]
<1>0. /\ tree \in Trees /\ base \in Trees /\ before.base \in Trees /\ before.tree \in Trees
      /\ applied \in Seq(Skills) /\ IsInjective(applied) /\ faults \in 0 .. FaultBound
      /\ proc \in [Procs -> Operation] /\ FaultBound \in Nat /\ proc[p] \in Operation
      /\ before.applied \in Seq(Skills)
  BY SkillsAssumption DEF SkillTypes
<1>1. /\ proc[p].pc \in ApplyPcs => proc[p].op = "apply" /\ proc[p].skill \in Skills
      /\ proc[p].pc \in ReplayPcs => proc[p].op # "apply" /\ proc[p].op # "none"
      /\ proc[p].pc = "lock" => proc[p].op # "none"
      /\ proc[p].list \in Seq(Skills)
  BY <1>0 DEF Operation, ReplayPcs
<1>2. CASE AcquireLock(p)
  <2>1. proc[p].pc = "lock" /\ proc[p].op # "none"
    BY <1>1, <1>2 DEF AcquireLock, At
  <2>2. CASE /\ LockFree
             /\ lock' = p
             /\ Goto(p, IF proc[p].op = "apply" THEN "backup" ELSE "reset")
             /\ Noted(applied, base, tree)
    <3>1. PICK label : label = IF proc[p].op = "apply" THEN "backup" ELSE "reset"
      OBVIOUS
    <3>2. /\ label \in Pcs /\ (label \in ApplyPcs => proc[p].op = "apply")
          /\ (label \in ReplayPcs => proc[p].op # "apply")
      BY <3>1 DEF Pcs, ApplyPcs, ReplayPcs
    <3>3. /\ proc' \in [Procs -> Operation] /\ \A q \in Procs : q # p => proc'[q] = proc[q]
      BY <2>1, <2>2, <3>1, <3>2, GoesOn
    <3>4. OneInside'
      BY <2>2, <3>3, FreeLock, InsideNext
    <3>5. before' = [applied |-> applied, base |-> base, tree |-> tree]
      BY <2>2 DEF Noted
    <3>6. SkillTypes'
      BY <1>0, <1>2, <2>2, <3>3, <3>5 DEF AcquireLock, SkillTypes
    <3>7. QED
      BY <3>3, <3>4, <3>6
  <2>3. CASE proc' = [proc EXCEPT ![p] = Idle] /\ UNCHANGED <<lock, before, holes>>
    <3>1. /\ proc' \in [Procs -> Operation] /\ proc'[p] = Idle
          /\ \A q \in Procs : q # p => proc'[q] = proc[q]
      BY <2>3, Becomes, IdleType
    <3>2. ~Locked(p)'
      BY <3>1, IdleType DEF Locked
    <3>3. \A q \in Procs : q # p /\ Locked(q) => lock' = q
      BY <2>3 DEF OneInside
    <3>4. SkillTypes'
      BY <1>2, <2>3, <3>1 DEF AcquireLock, SkillTypes
    <3>5. QED
      BY <3>1, <3>2, <3>3, <3>4, InsideNext
  <2>4. QED
    BY <1>2, <2>2, <2>3 DEF AcquireLock
<1>3. CASE ClearBackup(p)
  <2>1. Locked(p) /\ ReleaseLock(p)
    BY <1>3 DEF ClearBackup, At, Locked
  <2>2. /\ proc' \in [Procs -> Operation] /\ OneInside' /\ lock' \in Procs \cup {NoOwner}
        /\ \A q \in Procs : q # p => proc'[q] = proc[q]
    BY <2>1, Releases
  <2>3. before' = [applied |-> applied, base |-> base, tree |-> tree]
    BY <1>3 DEF ClearBackup, Noted
  <2>4. NoBackup \in [Files -> [copy : SUBSET Atoms, tomb : BOOLEAN]]
    BY DEF NoBackup
  <2>5. SkillTypes'
    BY <1>0, <1>3, <2>2, <2>3, <2>4 DEF ClearBackup, SkillTypes
  <2>6. QED
    BY <2>2, <2>5
<1>4. CASE ReplayNext(p)
  <2>1. At(p, "replay") /\ proc[p].list # <<>> /\ Locked(p)
    BY <1>4 DEF ReplayNext, At, Locked
  <2>2. PICK s : s = Head(proc[p].list)
    OBVIOUS
  <2>3. s \in Skills /\ Tail(proc[p].list) \in Seq(Skills)
    BY <1>1, <2>1, <2>2
  <2>4. PICK one : one = ReplayOne(base, tree, s)
    OBVIOUS
  <2>5. one.base \in Trees /\ one.tree \in Trees
    BY <1>0, <2>3, <2>4, TreeOperations
  <2>6. base' = one.base /\ tree' = one.tree
    BY <1>4, <2>2, <2>4 DEF ReplayNext
  <2>7. CASE /\ proc' = [proc EXCEPT ![p].list = Tail(@)]
             /\ UNCHANGED <<lock, before, holes, faults>>
    <3>1. PICK r : r = [proc[p] EXCEPT !.list = Tail(@)]
      OBVIOUS
    <3>2. r \in Operation /\ r.pc = proc[p].pc
      BY <1>0, <2>3, <3>1 DEF Operation
    <3>3. proc' = [proc EXCEPT ![p] = r]
      BY <1>0, <2>7, <3>1
    <3>4. /\ proc' \in [Procs -> Operation] /\ proc'[p] = r
          /\ \A q \in Procs : q # p => proc'[q] = proc[q]
      BY <3>2, <3>3, Becomes
    <3>5. OneInside'
      BY <2>1, <2>7, <3>4, InsideNext DEF OneInside
    <3>6. SkillTypes'
      BY <1>4, <2>5, <2>6, <2>7, <3>4 DEF ReplayNext, SkillTypes
    <3>7. QED
      BY <3>4, <3>5, <3>6
  <2>8. CASE Fault("replay") /\ ReleaseLock(p) /\ Noted(applied, one.base, one.tree)
    <3>1. /\ proc' \in [Procs -> Operation] /\ OneInside' /\ lock' \in Procs \cup {NoOwner}
          /\ \A q \in Procs : q # p => proc'[q] = proc[q]
      BY <2>1, <2>8, Releases
    <3>2. before' = [applied |-> applied, base |-> one.base, tree |-> one.tree]
      BY <2>8 DEF Noted
    <3>3. faults' \in 0 .. FaultBound
      BY <1>0, <2>8 DEF Fault
    <3>4. SkillTypes'
      BY <1>0, <1>4, <2>5, <2>6, <3>1, <3>2, <3>3 DEF ReplayNext, SkillTypes
    <3>5. QED
      BY <3>1, <3>4
  <2>9. QED
    BY <1>4, <2>2, <2>4, <2>7, <2>8 DEF ReplayNext
<1>5. CASE ReplayDone(p)
  <2>1. At(p, "replay") /\ Locked(p) /\ ReleaseLock(p)
    BY <1>5 DEF ReplayDone, At, Locked
  <2>2. /\ proc' \in [Procs -> Operation] /\ OneInside' /\ lock' \in Procs \cup {NoOwner}
        /\ \A q \in Procs : q # p => proc'[q] = proc[q]
    BY <2>1, Releases
  <2>3. applied' \in Seq(Skills) /\ IsInjective(applied')
    BY <1>0, <1>5, WithoutSkill DEF ReplayDone
  <2>4. PICK done : done = IF proc[p].op = "rebase" THEN before.applied
                           ELSE Without(before.applied, proc[p].skill)
    OBVIOUS
  <2>5. PICK built : built = MergeStructured(tree, ToSet(done))
    OBVIOUS
  <2>6. /\ \/ tree' = built
           \/ tree' = [f \in Files |-> built[f] \cup (before.tree[f] \cap {"edit"})]
        /\ faults' \in 0 .. FaultBound
    BY <1>0, <1>5, <2>4, <2>5 DEF ReplayDone, Fault
  <2>7. built = [f \in Files |-> tree[f] \cup {s \in ToSet(done) : f \in Structured[s]}]
    BY <2>5 DEF MergeStructured
  <2>8. ToSet(done) \subseteq Skills
    <3>1. ToSet(before.applied) \subseteq Skills
      BY <1>0, ListElements
    <3>2. \A q : ToSet(Without(before.applied, q)) \subseteq ToSet(before.applied)
      <4>1. ASSUME NEW q PROVE ToSet(Without(before.applied, q)) \subseteq ToSet(before.applied)
        <5>1. CASE q \notin ToSet(before.applied)
          BY <5>1 DEF Without
        <5>2. CASE q \in ToSet(before.applied)
          <6>1. PICK i : i = (CHOOSE j \in DOMAIN before.applied : before.applied[j] = q)
            OBVIOUS
          <6>2. i \in DOMAIN before.applied /\ Without(before.applied, q) = RemoveAt(before.applied, i)
            BY <5>2, <6>1 DEF ToSet, Without
          <6>3. PICK rest : rest = RemoveAt(before.applied, i)
            OBVIOUS
          <6>4. i \in 1 .. Len(before.applied) /\ Len(before.applied) \in Nat
            BY <1>0, <6>2
          <6>5. /\ rest \in Seq(Skills) /\ Len(rest) = Len(before.applied) - 1
                /\ \A j \in 1 .. (Len(before.applied) - 1) :
                      rest[j] = IF j < i THEN before.applied[j] ELSE before.applied[j + 1]
            BY <1>0, <6>3, <6>4, Cut
          <6>6. ASSUME NEW j \in DOMAIN rest PROVE \E k \in DOMAIN before.applied : rest[j] = before.applied[k]
            <7>1. j \in 1 .. (Len(before.applied) - 1)
              BY <6>5
            <7>2. rest[j] = before.applied[IF j < i THEN j ELSE j + 1]
              BY <6>5, <7>1
            <7>3. (IF j < i THEN j ELSE j + 1) \in DOMAIN before.applied
              BY <1>0, <6>4, <7>1
            <7>4. QED
              BY <7>2, <7>3
          <6>7. QED
            BY <6>2, <6>3, <6>6 DEF ToSet
        <5>3. QED
          BY <5>1, <5>2
      <4>2. QED
        BY <4>1
    <3>3. QED
      BY <2>4, <3>1, <3>2
  <2>9. tree' \in Trees
    <3>1. \A f \in Files : tree[f] \subseteq Atoms /\ built[f] \subseteq Atoms
      BY <1>0, <2>7, <2>8 DEF Trees, Atoms
    <3>2. built \in Trees
      BY <2>7, <3>1 DEF Trees
    <3>3. [f \in Files |-> built[f] \cup (before.tree[f] \cap {"edit"})] \in Trees
      BY <3>1 DEF Trees, Atoms
    <3>4. QED
      BY <2>6, <3>2, <3>3
  <2>10. before' = [applied |-> applied', base |-> base, tree |-> tree']
    BY <1>5 DEF ReplayDone, Noted
  <2>11. SkillTypes'
    BY <1>0, <1>5, <2>2, <2>3, <2>6, <2>9, <2>10 DEF ReplayDone, SkillTypes
  <2>12. QED
    BY <2>2, <2>11
<1>6. QED
  BY <1>2, <1>3, <1>4, <1>5

\* The same for customize sessions.
LEMMA SessionTypes ==
    ASSUME SkillTypes, OneInside,
           CommitCustomize \/ \E f \in BaseFiles : StartCustomize(f) \/ UserEdits(f) \/ AbortCustomize(f)
    PROVE  SkillTypes' /\ OneInside' /\ proc' = proc /\ ready' = ready
<1>0. tree \in Trees /\ BaseFiles \subseteq Files
  BY SkillsAssumption DEF SkillTypes, Shipped
<1>1. proc' = proc /\ lock' = lock /\ ready' = ready
  BY DEF CommitCustomize, StartCustomize, UserEdits, AbortCustomize
<1>2. OneInside'
  BY <1>1 DEF OneInside, Locked
<1>3. CASE CommitCustomize
  BY <1>1, <1>2, <1>3 DEF CommitCustomize, SkillTypes
<1>4. ASSUME NEW f \in BaseFiles, StartCustomize(f) PROVE SkillTypes'
  BY <1>0, <1>1, <1>4 DEF StartCustomize, SkillTypes
<1>5. ASSUME NEW f \in BaseFiles, UserEdits(f) PROVE SkillTypes'
  <2>1. tree' \in Trees
    BY <1>0, <1>5 DEF UserEdits, Trees, Atoms
  <2>2. QED
    BY <1>1, <1>5, <2>1 DEF UserEdits, SkillTypes
<1>6. ASSUME NEW f \in BaseFiles, AbortCustomize(f) PROVE SkillTypes'
  <2>1. tree' \in Trees
    BY <1>0, <1>6 DEF AbortCustomize, Trees, Atoms
  <2>2. QED
    BY <1>1, <1>6, <2>1 DEF AbortCustomize, SkillTypes
<1>7. QED
  BY <1>1, <1>2, <1>3, <1>4, <1>5, <1>6

\* Every step keeps the types, and the owner of the lock alone.
LEMMA SkillTypesNext ==
    ASSUME SkillTypes, OneInside, [SkillsNext]_skillsVars
    PROVE  SkillTypes' /\ OneInside'
<1>1. ASSUME NEW p \in Procs, SkillsStep(p) PROVE SkillTypes' /\ OneInside'
  BY <1>1, InnerTypes, EdgeTypes DEF SkillsStep
<1>2. ASSUME UNCHANGED skillsVars PROVE SkillTypes' /\ OneInside'
  BY <1>2 DEF skillsVars, SkillTypes, OneInside, Locked
<1>3. QED
  BY <1>1, <1>2, OuterTypes, SessionTypes DEF SkillsNext

-----------------------------------------------------------------------------

\* The files of a skill, and that all of its changes are in them.
ChangedBy(s) == Adds[s] \cup Modifies[s]

Complete(s) == \A f \in ChangedBy(s) : s \in tree[f]

\* Manifests that do not undo each other's work: what is modified is shipped; two skills modify
\* one file only where init_evoclaw_dir makes its clean copy; they add different files; and no
\* skill deletes what another adds or any modifies.
Compatible ==
    /\ \A s, q \in Skills :
        /\ Modifies[s] \subseteq Shipped
        /\ Deletes[q] \cap Modifies[s] = {}
        /\ s # q => /\ Adds[s] \cap Adds[q] = {}
                    /\ Modifies[s] \cap Modifies[q] \subseteq BaseFiles
                    /\ Deletes[q] \cap Adds[s] = {}

\* Nothing has happened before the engine is initialised.
FreshInv == ~ready =>
    /\ applied = <<>> /\ session = {} /\ backup = NoBackup
    /\ \A p \in Procs : At(p, "idle")
    /\ \A f \in Files : base[f] = {} /\ tree[f] = IF f \in Shipped THEN {"core"} ELSE {}

\* What the invariants below say nothing about any more.
Clean == holes \subseteq {"crash"}

\* A clean copy never has a skill's change that the file does not have; the files copied by
\* init_evoclaw_dir are clean, and there is a copy of all that an applied skill modifies.
CopiesInv ==
    \A s \in Skills : \A f \in Modifies[s] :
        /\ ready /\ f \in BaseFiles => base[f] = {"core"}
        /\ tree[f] # {}
        /\ s \in base[f] => s \in tree[f]
        /\ s \in ToSet(applied) => base[f] # {}

\* A skill whose run is past the point where its backup is needed.
Late(s) == \E p \in Procs : proc[p].pc \in {"test", "unrecord", "clear"} /\ proc[p].skill = s

\* Putting the backup back takes no applied skill out of a file.
BackupInv ==
    \A s \in Skills :
        /\ \A f \in Modifies[s] : /\ ~backup[f].tomb
                                  /\ s \in base[f] /\ backup[f].copy # {} => s \in backup[f].copy
        /\ s \in ToSet(applied) /\ ~Late(s) =>
              \A f \in ChangedBy(s) : /\ ~backup[f].tomb
                                      /\ backup[f].copy # {} => s \in backup[f].copy

\* Except while files are rebuilt, every skill on the list is complete.
CompleteInv ==
    (\A p \in Procs : ~At(p, "replay")) => \A s \in ToSet(applied) : Complete(s)

\* What is on the list when a replay has ended.
Target(p) == IF proc[p].op = "uninstall" THEN ToSet(applied) \ {proc[p].skill} ELSE ToSet(applied)

\* How far the operation of a process is.
ApplyProgress(p) ==
    LET s == proc[p].skill
    IN  /\ At(p, "adds") => \A f \in Modifies[s] : backup[f].copy = tree[f]
        /\ At(p, "merge") =>
              /\ proc[p].todo \subseteq Modifies[s]
              /\ \A f \in proc[p].todo : backup[f].copy = tree[f]
              /\ \A f \in Adds[s] : s \in tree[f]
              /\ \A f \in Modifies[s] \ proc[p].todo : s \in tree[f] /\ base[f] # {}
        /\ proc[p].pc \in {"post", "record"} =>
              Complete(s) /\ \A f \in Modifies[s] : base[f] # {}
        /\ proc[p].pc \in ApplyPcs \ {"backup", "clear"} =>
              \A f \in BackedUp(s) : backup[f].copy # {} \/ backup[f].tomb

ReplayProgress(p) ==
    /\ At(p, "reset") => ToSet(proc[p].list) = Target(p)
    /\ At(p, "replay") => /\ ToSet(proc[p].list) \subseteq Target(p)
                          /\ \A s \in Target(p) \ ToSet(proc[p].list) : Complete(s)

ProgressInv == \A p \in Procs : ApplyProgress(p) /\ ReplayProgress(p)

Intact == CopiesInv /\ BackupInv /\ CompleteInv /\ ProgressInv

SkillsInv == SkillTypes /\ OneInside /\ FreshInv /\ (Clean => Intact)

\* Not between taking the lock and releasing it.
Outside(p) == proc[p].pc \in {"idle", "lock"}

\* Before the first initialisation nothing runs.
LEMMA FreshNext ==
    ASSUME FreshInv, SkillsNext
    PROVE  FreshInv'
<1>1. SUFFICES ASSUME ~ready' PROVE FALSE
  BY DEF FreshInv
<1>2. CASE ready
  BY <1>1, <1>2 DEF SkillsNext, SkillsStep, InitSkillsSystem, RebaseSkills, Crash, ApplySkill,
     UninstallSkill, CommitCustomize, StartCustomize, UserEdits, AbortCustomize, AcquireLock, SaveFiles,
     CopyAdds, MergeNext, MergesDone, PostApply, RecordSkillApplication, RunTest, RollBack, ClearBackup,
     ReplayReset, ReplayNext, ReplayDone
<1>3. CASE ~ready
  <2>1. session = {} /\ \A p \in Procs : proc[p].pc = "idle"
    BY <1>3 DEF FreshInv, At
  <2>2. \A p \in Procs : ~SkillsStep(p)
    BY <2>1 DEF SkillsStep, AcquireLock, SaveFiles, CopyAdds, MergeNext, MergesDone, PostApply,
       RecordSkillApplication, RunTest, RollBack, ClearBackup, ReplayReset, ReplayNext, ReplayDone, At
  <2>3. QED
    BY <1>1, <1>3, <2>1, <2>2 DEF SkillsNext, InitSkillsSystem, RebaseSkills, Crash, ApplySkill,
       UninstallSkill, CommitCustomize, StartCustomize, UserEdits, AbortCustomize, At
<1>4. QED
  BY <1>2, <1>3

\* What happened stays on record.
LEMMA HolesGrow ==
    ASSUME SkillsNext
    PROVE  holes \subseteq holes' /\ (Clean' => Clean)
<1>1. holes \subseteq holes'
  <2>1. ASSUME NEW p \in Procs, SkillsStep(p) PROVE holes \subseteq holes'
    BY <2>1 DEF SkillsStep, AcquireLock, SaveFiles, CopyAdds, MergeNext, MergesDone, PostApply,
       RecordSkillApplication, RunTest, RollBack, ClearBackup, ReplayReset, ReplayNext, ReplayDone
  <2>2. ASSUME NEW p \in Procs,
               InitSkillsSystem(p) \/ RebaseSkills(p) \/ Crash(p)
                   \/ \E s \in Skills : ApplySkill(p, s) \/ UninstallSkill(p, s)
        PROVE  holes \subseteq holes'
    BY <2>2 DEF InitSkillsSystem, RebaseSkills, Crash, ApplySkill, UninstallSkill
  <2>3. ASSUME CommitCustomize
                   \/ \E f \in BaseFiles : StartCustomize(f) \/ UserEdits(f) \/ AbortCustomize(f)
        PROVE  holes \subseteq holes'
    BY <2>3 DEF CommitCustomize, StartCustomize, UserEdits, AbortCustomize
  <2>4. QED
    BY <2>1, <2>2, <2>3 DEF SkillsNext
<1>2. QED
  BY <1>1 DEF Clean

\* While one process is inside, what the invariants say of all is what they say of it.
LEMMA OneMatters ==
    ASSUME OneInside, NEW p \in Procs, Locked(p), \A q \in Procs : q # p => proc'[q] = proc[q]
    PROVE  /\ (\E q \in Procs : At(q, "replay")) <=> At(p, "replay")
           /\ (\E q \in Procs : At(q, "replay")') <=> At(p, "replay")'
           /\ \A s : Late(s) <=> proc[p].pc \in {"test", "unrecord", "clear"} /\ proc[p].skill = s
           /\ \A s : Late(s)' <=> proc'[p].pc \in {"test", "unrecord", "clear"} /\ proc'[p].skill = s
           /\ ApplyProgress(p)' /\ ReplayProgress(p)' => ProgressInv'
<1>1. \A q \in Procs : q # p => proc[q].pc \in {"idle", "lock"}
  BY Alone DEF Locked
<1>2. \A q \in Procs : q # p => proc'[q].pc \in {"idle", "lock"}
  BY <1>1
<1>3. ASSUME ApplyProgress(p)', ReplayProgress(p)' PROVE ProgressInv'
  <2>1. SUFFICES ASSUME NEW q \in Procs, q # p PROVE ApplyProgress(q)' /\ ReplayProgress(q)'
    BY <1>3 DEF ProgressInv
  <2>2. proc'[q].pc \in {"idle", "lock"}
    BY <1>2, <2>1
  <2>3. QED
    BY <2>2 DEF ApplyProgress, ReplayProgress, At, ApplyPcs
<1>4. QED
  BY <1>1, <1>2, <1>3 DEF Late, At

\* A step outside the lock that leaves files, list, backup and clean copies alone.
LEMMA QuietStep ==
    ASSUME SkillTypes, Intact, NEW p \in Procs, \A q \in Procs : q # p => proc'[q] = proc[q],
           Outside(p), Outside(p)', UNCHANGED <<applied, tree, base, backup>>,
           ready \/ ~ready'
    PROVE  Intact'
<1>1. \A s : Late(s)' <=> Late(s)
  BY DEF Late, Outside
<1>2. \A q \in Procs : At(q, "replay")' <=> At(q, "replay")
  BY DEF Outside, At
<1>3. CopiesInv'
  BY DEF Intact, CopiesInv
<1>4. BackupInv'
  BY <1>1 DEF Intact, BackupInv
<1>5. CompleteInv'
  BY <1>2 DEF Intact, CompleteInv, Complete
<1>6. ASSUME NEW q \in Procs PROVE ApplyProgress(q)' /\ ReplayProgress(q)'
  <2>1. CASE q = p
    BY <2>1 DEF Outside, ApplyProgress, ReplayProgress, At, ApplyPcs
  <2>2. CASE q # p
    <3>1. ApplyProgress(q) /\ ReplayProgress(q) /\ proc'[q] = proc[q]
      BY <2>2 DEF Intact, ProgressInv
    <3>2. QED
      BY <3>1 DEF ApplyProgress, ReplayProgress, At, Target, Complete
  <2>3. QED
    BY <2>1, <2>2
<1>7. QED
  BY <1>3, <1>4, <1>5, <1>6 DEF Intact, ProgressInv

\* Merging one file keeps the changes of the skills that are in it, adds the skill's own, and takes
\* a clean copy only of a file that has none.
LEMMA MergedKeeps ==
    ASSUME Compatible, NEW b, NEW t, NEW s \in Skills, NEW f \in Modifies[s], t[f] # {},
           f \in BaseFiles => b[f] = {"core"},
           \A q \in Skills : f \in Modifies[q] /\ q \in b[f] => q \in t[f]
    PROVE  /\ s \in MergedFile(b, t, s, f)
           /\ \A q \in Skills : f \in Modifies[q] /\ q \in t[f] => q \in MergedFile(b, t, s, f)
           /\ CleanCopy(b, t, f) # {}
           /\ b[f] # {} => CleanCopy(b, t, f) = b[f]
           /\ b[f] = {} => CleanCopy(b, t, f) = t[f]
           /\ \A q \in Skills : f \in Modifies[q] /\ q \in CleanCopy(b, t, f) => q \in MergedFile(b, t, s, f)
<1>1. PICK old : old = CleanCopy(b, t, f)
  OBVIOUS
<1>2. old = (IF b[f] = {} THEN t[f] ELSE b[f]) /\ old # {}
  BY <1>1 DEF CleanCopy
<1>3. MergedFile(b, t, s, f) = (t[f] \ old) \cup (Theirs(s, f) \ old) \cup (t[f] \cap Theirs(s, f))
  BY <1>1 DEF MergedFile, MergeFile
<1>4. s \in Theirs(s, f)
  BY DEF Theirs
<1>5. s \in MergedFile(b, t, s, f)
  BY <1>2, <1>3, <1>4
<1>6. ASSUME NEW q \in Skills, f \in Modifies[q], q \in t[f], q # s PROVE q \in MergedFile(b, t, s, f)
  <2>1. f \in BaseFiles
    BY <1>6 DEF Compatible
  <2>2. old = {"core"}
    BY <1>2, <2>1
  <2>3. q # "core"
    BY AtomAssumption
  <2>4. QED
    BY <1>3, <1>6, <2>2, <2>3
<1>7. QED
  BY <1>1, <1>2, <1>5, <1>6

\* Deleting, moving and copying files touches no file that is modified, and of the added files
\* only the skill's own.
LEMMA CopiesKeep ==
    ASSUME Compatible, NEW t \in Trees, NEW s \in Skills
    PROVE  /\ \A q \in Skills : \A f \in Modifies[q] : FileOpsAndAdds(t, s)[f] = t[f]
           /\ \A f \in Adds[s] : FileOpsAndAdds(t, s)[f] = {s}
           /\ \A q \in Skills : q # s => \A f \in Adds[q] : FileOpsAndAdds(t, s)[f] = t[f]
<1>1. \A q \in Skills : Adds[q] \subseteq Files /\ Modifies[q] \subseteq Files
  BY Manifests
<1>2. \A q \in Skills : Modifies[q] \cap Adds[s] = {}
  BY DEF Compatible, Shipped
<1>3. QED
  BY <1>1, <1>2 DEF FileOpsAndAdds, Compatible

\* The steps outside the lock.
LEMMA OuterKeeps ==
    ASSUME Compatible, SkillsInv, Clean', Clean, NEW p \in Procs,
           \/ InitSkillsSystem(p) \/ RebaseSkills(p)
           \/ \E s \in Skills : ApplySkill(p, s) \/ UninstallSkill(p, s)
    PROVE  Intact'
<1>0. /\ SkillTypes /\ OneInside /\ FreshInv /\ Intact /\ proc \in [Procs -> Operation] /\ Outside(p)
      /\ tree \in Trees
  BY DEF SkillsInv, Outside, InitSkillsSystem, RebaseSkills, ApplySkill, UninstallSkill, At, SkillTypes
<1>a. ASSUME ~ready, NEW s \in Skills, NEW f \in Modifies[s]
      PROVE  f \in Files /\ tree[f] = {"core"}
  BY <1>0, <1>a, Manifests DEF FreshInv, Compatible
<1>1. CASE InitSkillsSystem(p)
  <2>1. /\ ready' /\ applied' = <<>> /\ base' = Snapshot /\ tree' = tree /\ backup' = backup /\ proc' = proc
        /\ "init" \notin holes' /\ "dirty_base" \notin holes'
    BY <1>1 DEF InitSkillsSystem, Clean
  <2>2. \A q \in Procs : At(q, "idle")
    BY <1>1, <2>1 DEF InitSkillsSystem
  <2>3. \A f \in Files : Snapshot[f] \subseteq {"core"}
    BY <1>1, <2>1 DEF InitSkillsSystem
  <2>4. ToSet(applied') = {}
    BY <2>1 DEF ToSet
  <2>5. ASSUME NEW s \in Skills, NEW f \in Modifies[s]
        PROVE  /\ base'[f] \subseteq {"core"} /\ (f \in BaseFiles => base'[f] = {"core"})
               /\ tree[f] # {} /\ s \notin base'[f] /\ ~backup[f].tomb
    <3>1. f \in Files /\ tree[f] # {} /\ ~backup[f].tomb
      BY <1>0, Manifests DEF Intact, CopiesInv, BackupInv
    <3>2. base'[f] \subseteq {"core"} /\ (f \in BaseFiles => base'[f] = tree[f])
      BY <2>1, <2>3, <3>1 DEF Snapshot
    <3>3. s # "core"
      BY AtomAssumption
    <3>4. QED
      BY <3>1, <3>2, <3>3
  <2>6. CopiesInv'
    BY <2>1, <2>4, <2>5 DEF CopiesInv
  <2>7. BackupInv'
    BY <2>1, <2>4, <2>5 DEF BackupInv
  <2>8. CompleteInv'
    BY <2>4 DEF CompleteInv
  <2>9. ProgressInv'
    BY <2>1, <2>2 DEF ProgressInv, ApplyProgress, ReplayProgress, At, ApplyPcs
  <2>10. QED
    BY <2>6, <2>7, <2>8, <2>9 DEF Intact
<1>2. CASE RebaseSkills(p)
  <2>1. PICK r : r = [op |-> "rebase", pc |-> "lock", skill |-> "none", list |-> applied, todo |-> {}]
    OBVIOUS
  <2>2. proc' = [proc EXCEPT ![p] = r] /\ UNCHANGED <<ready, applied, tree, base, backup>>
    BY <1>2, <2>1 DEF RebaseSkills
  <2>3. Outside(p)' /\ \A q \in Procs : q # p => proc'[q] = proc[q]
    BY <1>0, <2>1, <2>2 DEF Outside
  <2>4. QED
    BY <1>0, <2>2, <2>3, QuietStep
<1>3. ASSUME NEW s \in Skills, UninstallSkill(p, s) PROVE Intact'
  <2>1. PICK r : r = [op |-> "uninstall", pc |-> "lock", skill |-> s,
                      list |-> Without(applied, s), todo |-> {}]
    OBVIOUS
  <2>2. /\ proc' = [proc EXCEPT ![p] = r] \/ proc' = proc
        /\ UNCHANGED <<ready, applied, tree, base, backup>>
    BY <1>3, <2>1 DEF UninstallSkill
  <2>3. Outside(p)' /\ \A q \in Procs : q # p => proc'[q] = proc[q]
    BY <1>0, <2>1, <2>2 DEF Outside
  <2>4. QED
    BY <1>0, <2>2, <2>3, QuietStep
<1>4. ASSUME NEW s \in Skills, ApplySkill(p, s) PROVE Intact'
  <2>1. PICK r : r = [op |-> "apply", pc |-> "lock", skill |-> s, list |-> <<>>, todo |-> {}]
    OBVIOUS
  <2>2. /\ proc' = [proc EXCEPT ![p] = r] /\ UNCHANGED <<applied, tree, backup>>
        /\ ready' /\ base' = IF ready THEN base ELSE Snapshot
    BY <1>4, <2>1 DEF ApplySkill
  <2>3. proc'[p] = r /\ Outside(p)' /\ \A q \in Procs : q # p => proc'[q] = proc[q]
    BY <1>0, <2>1, <2>2 DEF Outside
  <2>4. CASE ready
    BY <1>0, <2>2, <2>3, <2>4, QuietStep
  <2>5. CASE ~ready
    <3>1. applied = <<>> /\ backup = NoBackup /\ \A q \in Procs : proc[q].pc = "idle"
      BY <1>0, <2>5 DEF FreshInv, At
    <3>2. ToSet(applied) = {}
      BY <3>1 DEF ToSet
    <3>3. ASSUME NEW q \in Skills, NEW f \in Modifies[q]
          PROVE  /\ (f \in BaseFiles => base'[f] = {"core"})
                 /\ tree[f] # {} /\ q \notin base'[f] /\ ~backup[f].tomb
      <4>1. f \in Files /\ tree[f] = {"core"}
        BY <1>a, <2>5
      <4>2. base'[f] = IF f \in BaseFiles THEN {"core"} ELSE {}
        BY <2>2, <2>5, <4>1 DEF Snapshot
      <4>3. ~backup[f].tomb
        BY <3>1, <4>1 DEF NoBackup
      <4>4. QED
        BY <4>1, <4>2, <4>3, AtomAssumption
    <3>4. CopiesInv'
      BY <2>2, <3>2, <3>3 DEF CopiesInv
    <3>5. BackupInv'
      BY <2>2, <3>2, <3>3 DEF BackupInv
    <3>6. CompleteInv'
      BY <2>2, <3>2 DEF CompleteInv
    <3>7. \A q \in Procs : proc'[q].pc \in {"idle", "lock"}
      BY <2>1, <2>3, <3>1
    <3>8. ProgressInv'
      BY <3>7 DEF ProgressInv, ApplyProgress, ReplayProgress, At, ApplyPcs
    <3>9. QED
      BY <3>4, <3>5, <3>6, <3>8 DEF Intact
  <2>6. QED
    BY <2>4, <2>5
<1>5. QED
  BY <1>1, <1>2, <1>3, <1>4

\* Customize sessions, while no process is inside and no skill loses a change.
LEMMA SessionKeeps ==
    ASSUME Compatible, SkillsInv, Clean', Clean,
           CommitCustomize \/ \E f \in BaseFiles : StartCustomize(f) \/ UserEdits(f) \/ AbortCustomize(f)
    PROVE  Intact'
<1>0. /\ SkillTypes /\ OneInside /\ Intact /\ tree \in Trees /\ BaseFiles \subseteq Shipped
      /\ BaseFiles \subseteq Files
  BY SkillsAssumption DEF SkillsInv, SkillTypes, Shipped
<1>1. ASSUME UNCHANGED <<ready, applied, base, backup, proc>>,
             \A p \in Procs : ~Locked(p),
             \A s \in Skills : \A f \in Modifies[s] : tree'[f] # {},
             \A s \in Skills : \A f \in Modifies[s] : s \in base[f] => s \in tree'[f],
             \A s \in ToSet(applied) : \A f \in ChangedBy(s) : s \in tree[f] => s \in tree'[f]
      PROVE  Intact'
  <2>1. \A p \in Procs : proc[p].pc \in {"idle", "lock"}
    BY <1>1 DEF Locked
  <2>2. CopiesInv'
    BY <1>0, <1>1 DEF Intact, CopiesInv
  <2>3. BackupInv'
    BY <1>0, <1>1 DEF Intact, BackupInv, Late
  <2>4. CompleteInv'
    BY <1>0, <1>1, <2>1 DEF Intact, CompleteInv, Complete, At
  <2>5. ProgressInv'
    BY <1>1, <2>1 DEF ProgressInv, ApplyProgress, ReplayProgress, At, ApplyPcs
  <2>6. QED
    BY <2>2, <2>3, <2>4, <2>5 DEF Intact
<1>2. CASE CommitCustomize \/ \E f \in BaseFiles : StartCustomize(f)
  <2>1. UNCHANGED <<ready, applied, tree, base, backup, proc>>
    BY <1>2 DEF CommitCustomize, StartCustomize
  <2>2. CopiesInv' /\ BackupInv' /\ CompleteInv'
    BY <1>0, <2>1 DEF Intact, CopiesInv, BackupInv, CompleteInv, Late, Complete, At
  <2>3. ProgressInv'
    BY <1>0, <2>1 DEF Intact, ProgressInv, ApplyProgress, ReplayProgress, At, Target, Complete
  <2>4. QED
    BY <2>2, <2>3 DEF Intact
<1>3. ASSUME NEW f \in BaseFiles, UserEdits(f) PROVE Intact'
  <2>1. /\ UNCHANGED <<ready, applied, base, backup, proc>>
        /\ tree' = [tree EXCEPT ![f] = @ \cup {"edit"}]
        /\ "session" \notin holes'
    BY <1>3 DEF UserEdits, Clean
  <2>2. \A p \in Procs : ~Locked(p)
    BY <1>3, <2>1 DEF UserEdits
  <2>3. \A g \in Files : tree[g] \subseteq tree'[g]
    BY <1>0, <2>1 DEF Trees
  <2>4. \A s \in Skills : Modifies[s] \subseteq Files /\ ChangedBy(s) \subseteq Files
    BY Manifests DEF ChangedBy
  <2>5. \A s \in Skills : \A g \in Modifies[s] : tree[g] # {} /\ (s \in base[g] => s \in tree[g])
    BY <1>0 DEF Intact, CopiesInv
  <2>6. ToSet(applied) \subseteq Skills
    BY <1>0, ListElements DEF SkillTypes
  <2>7. \A s \in Skills : \A g \in Modifies[s] : tree'[g] # {} /\ (s \in base[g] => s \in tree'[g])
    BY <2>3, <2>4, <2>5
  <2>8. \A s \in ToSet(applied) : \A g \in ChangedBy(s) : s \in tree[g] => s \in tree'[g]
    BY <2>3, <2>4, <2>6
  <2>9. QED
    BY <1>1, <2>1, <2>2, <2>7, <2>8
<1>4. ASSUME NEW f \in BaseFiles, AbortCustomize(f) PROVE Intact'
  <2>1. /\ UNCHANGED <<ready, applied, base, backup, proc>>
        /\ tree' = [tree EXCEPT ![f] = {"core"}]
        /\ "session" \notin holes' /\ "abort" \notin holes'
        /\ session = {f}
    BY <1>4 DEF AbortCustomize, Clean
  <2>2. (\A p \in Procs : ~Locked(p)) /\ tree[f] \cap ToSet(applied) = {}
    BY <1>4, <2>1 DEF AbortCustomize
  <2>3. tree'[f] = {"core"} /\ \A g \in Files : g # f => tree'[g] = tree[g]
    BY <1>0, <2>1 DEF Trees
  <2>4. \A s \in Skills : Modifies[s] \subseteq Files /\ ChangedBy(s) \subseteq Files
    BY Manifests DEF ChangedBy
  <2>5. ready
    BY <2>1 DEF SkillsInv, FreshInv
  <2>6. \A s \in Skills : \A g \in Modifies[s] : /\ tree[g] # {} /\ (s \in base[g] => s \in tree[g])
                                                /\ (g = f => base[g] = {"core"})
    BY <1>0, <2>5 DEF Intact, CopiesInv
  <2>7. ToSet(applied) \subseteq Skills
    BY <1>0, ListElements DEF SkillTypes
  <2>8. \A s \in Skills : s # "core"
    BY AtomAssumption
  <2>9. \A s \in Skills : \A g \in Modifies[s] : tree'[g] # {} /\ (s \in base[g] => s \in tree'[g])
    BY <2>3, <2>4, <2>6, <2>8
  <2>10. \A s \in ToSet(applied) : \A g \in ChangedBy(s) : s \in tree[g] => s \in tree'[g]
    BY <2>2, <2>3, <2>4, <2>7
  <2>11. QED
    BY <1>1, <2>1, <2>2, <2>9, <2>10
<1>5. QED
  BY <1>2, <1>3, <1>4

\* A process that dies before its replay and before its skill is on the list.
LEMMA CrashKeeps ==
    ASSUME Compatible, SkillsInv, Clean', Clean, NEW p \in Procs, Crash(p)
    PROVE  Intact'
<1>0. /\ SkillTypes /\ OneInside /\ Intact /\ proc \in [Procs -> Operation]
  BY DEF SkillsInv, SkillTypes
<1>1. /\ UNCHANGED <<ready, applied, tree, base, backup>> /\ proc' = [proc EXCEPT ![p] = Idle]
      /\ proc[p].pc # "idle"
  BY DEF Crash, At
<1>2. /\ proc'[p] = Idle /\ proc'[p].pc = "idle" /\ \A q \in Procs : q # p => proc'[q] = proc[q]
  BY <1>0, <1>1, IdleType
<1>3. CASE ~Locked(p)
  BY <1>0, <1>1, <1>2, <1>3, QuietStep DEF Outside, Locked
<1>4. CASE Locked(p)
  <2>1. PICK hole : /\ hole \in holes'
                    /\ hole = CASE At(p, "replay") -> "replay"
                                [] proc[p].pc \in {"test", "unrecord", "clear"} -> "late_crash"
                                [] OTHER -> "crash"
    BY <1>4 DEF Crash
  <2>2. hole = "crash"
    BY <2>1 DEF Clean
  <2>3. ~At(p, "replay") /\ proc[p].pc \notin {"test", "unrecord", "clear"}
    BY <2>1, <2>2
  <2>4. /\ \A q \in Procs : ~At(q, "replay")
        /\ \A s : ~Late(s)
    BY <1>0, <1>2, <1>4, <2>3, OneMatters
  <2>5. CopiesInv' /\ BackupInv'
    BY <1>0, <1>1, <2>4 DEF Intact, CopiesInv, BackupInv
  <2>6. CompleteInv'
    BY <1>0, <1>1, <2>4 DEF Intact, CompleteInv, Complete
  <2>7. ProgressInv'
    <3>1. ApplyProgress(p)' /\ ReplayProgress(p)'
      BY <1>2 DEF ApplyProgress, ReplayProgress, At, ApplyPcs
    <3>2. QED
      BY <1>0, <1>2, <1>4, <3>1, OneMatters
  <2>8. QED
    BY <2>5, <2>6, <2>7 DEF Intact
<1>5. QED
  BY <1>3, <1>4

\* Taking the lock, with the list that was read before it still being the list.
LEMMA AcquireKeeps ==
    ASSUME Compatible, SkillsInv, Clean', Clean, NEW p \in Procs, AcquireLock(p)
    PROVE  Intact'
<1>0. /\ SkillTypes /\ OneInside /\ Intact /\ proc \in [Procs -> Operation] /\ proc[p].pc = "lock"
      /\ proc[p].op # "none" /\ proc[p].op \in {"none", "apply", "uninstall", "rebase"}
      /\ applied \in Seq(Skills) /\ IsInjective(applied)
      /\ UNCHANGED <<ready, applied, tree, base, backup>>
  <2>1. proc[p] \in Operation /\ proc[p].pc = "lock"
    BY DEF SkillsInv, SkillTypes, AcquireLock, At
  <2>2. proc[p].op # "none" /\ proc[p].op \in {"none", "apply", "uninstall", "rebase"}
    BY <2>1 DEF Operation
  <2>3. QED
    BY <2>1, <2>2 DEF SkillsInv, SkillTypes, AcquireLock
<1>1. CASE proc' = [proc EXCEPT ![p] = Idle]
  <2>1. proc'[p].pc = "idle" /\ \A q \in Procs : q # p => proc'[q] = proc[q]
    BY <1>0, <1>1, IdleType
  <2>2. QED
    BY <1>0, <2>1, QuietStep DEF Outside
<1>2. CASE /\ LockFree /\ Goto(p, IF proc[p].op = "apply" THEN "backup" ELSE "reset")
           /\ holes' = holes \cup
                (IF \/ proc[p].op = "uninstall" /\ proc[p].list # Without(applied, proc[p].skill)
                    \/ proc[p].op = "rebase" /\ proc[p].list # applied
                 THEN {"stale_list"} ELSE {})
  <2>1. PICK label : label = IF proc[p].op = "apply" THEN "backup" ELSE "reset"
    OBVIOUS
  <2>2. proc' = [proc EXCEPT ![p].pc = label]
    BY <1>2, <2>1 DEF Goto
  <2>3. /\ proc'[p].pc = label /\ proc'[p].op = proc[p].op /\ proc'[p].skill = proc[p].skill
        /\ proc'[p].list = proc[p].list
        /\ \A q \in Procs : q # p => proc'[q] = proc[q]
    BY <1>0, <2>2 DEF Operation
  <2>4. \A q \in Procs : proc[q].pc \in {"idle", "lock"}
    BY <1>0, <1>2, FreeLock DEF Locked
  <2>5. /\ \A s : ~Late(s) /\ ~Late(s)'
        /\ \A q \in Procs : ~At(q, "replay")
        /\ \A q \in Procs : ~At(q, "replay")'
    BY <2>1, <2>3, <2>4 DEF Late, At
  <2>6. CopiesInv' /\ BackupInv' /\ CompleteInv'
    BY <1>0, <2>5 DEF Intact, CopiesInv, BackupInv, CompleteInv, Complete
  <2>7. "stale_list" \notin holes'
    BY DEF Clean
  <2>8. ~( \/ proc[p].op = "uninstall" /\ proc[p].list # Without(applied, proc[p].skill)
           \/ proc[p].op = "rebase" /\ proc[p].list # applied )
    BY <1>2, <2>7
  <2>9. ApplyProgress(p)'
    BY <2>1, <2>3 DEF ApplyProgress, At, ApplyPcs
  <2>10. ReplayProgress(p)'
    <3>1. CASE proc[p].op = "apply"
      BY <2>1, <2>3, <3>1 DEF ReplayProgress, At
    <3>2. CASE proc[p].op = "uninstall"
      <4>1. ToSet(proc[p].list) = ToSet(applied) \ {proc[p].skill}
        BY <1>0, <2>8, <3>2, WithoutSkill
      <4>2. QED
        BY <1>0, <2>1, <2>3, <3>2, <4>1 DEF ReplayProgress, At, Target
    <3>3. CASE proc[p].op = "rebase"
      BY <1>0, <2>1, <2>3, <2>8, <3>3 DEF ReplayProgress, At, Target
    <3>4. QED
      BY <1>0, <3>1, <3>2, <3>3
  <2>11. ProgressInv'
    <3>1. ASSUME NEW q \in Procs, q # p PROVE ApplyProgress(q)' /\ ReplayProgress(q)'
      <4>1. proc'[q].pc \in {"idle", "lock"}
        BY <2>3, <2>4, <3>1
      <4>2. QED
        BY <4>1 DEF ApplyProgress, ReplayProgress, At, ApplyPcs
    <3>2. QED
      BY <2>9, <2>10, <3>1 DEF ProgressInv
  <2>12. QED
    BY <2>6, <2>11 DEF Intact
<1>3. QED
  BY <1>1, <1>2 DEF AcquireLock

\* What an apply under the lock knows: its skill, that it is alone, and the point it goes to.
LEMMA ApplyingFacts ==
    ASSUME SkillsInv, Clean, NEW p \in Procs, proc[p].pc \in ApplyPcs
    PROVE  /\ SkillTypes /\ OneInside /\ Intact /\ Locked(p)
           /\ proc \in [Procs -> Operation] /\ proc[p] \in Operation
           /\ proc[p].op = "apply" /\ proc[p].skill \in Skills
           /\ ApplyProgress(p)
           /\ \A label : Goto(p, label) => proc'[p].pc = label /\ proc'[p].todo = proc[p].todo
<1>1. SkillTypes /\ OneInside /\ Intact /\ proc \in [Procs -> Operation] /\ proc[p] \in Operation
  BY DEF SkillsInv, SkillTypes
<1>2. proc[p].op = "apply" /\ proc[p].skill \in Skills
  BY <1>1 DEF Operation
<1>3. \A label : Goto(p, label) => proc'[p].pc = label /\ proc'[p].todo = proc[p].todo
  BY <1>1 DEF Goto, Operation
<1>4. Locked(p)
  BY DEF Locked, ApplyPcs
<1>5. ApplyProgress(p)
  BY <1>1 DEF Intact, ProgressInv
<1>6. QED
  BY <1>1, <1>2, <1>3, <1>4, <1>5

\* The backup is taken: what an applied skill is in is saved with the skill in it.
LEMMA SaveKeeps ==
    ASSUME Compatible, SkillsInv, Clean', Clean, NEW p \in Procs, SaveFiles(p)
    PROVE  Intact'
<1>1. proc[p].pc = "backup" /\ Goto(p, "adds") /\ UNCHANGED <<ready, applied, tree, base>>
  BY DEF SaveFiles, At
<1>2. /\ SkillTypes /\ OneInside /\ Intact /\ Locked(p) /\ proc[p].skill \in Skills /\ proc'[p].pc = "adds"
      /\ tree \in Trees /\ backup \in [Files -> [copy : SUBSET Atoms, tomb : BOOLEAN]]
      /\ applied \in Seq(Skills)
  BY <1>1, ApplyingFacts DEF ApplyPcs, SkillTypes
<1>3. /\ \A q \in Procs : q # p => proc'[q] = proc[q]
      /\ proc'[p].op = proc[p].op /\ proc'[p].skill = proc[p].skill /\ proc'[p].list = proc[p].list
  BY <1>2, InnerTypes
<1>4. PICK s : s = proc[p].skill /\ s \in Skills
  BY <1>2
<1>5. backup' = [f \in Files |-> IF f \notin BackedUp(s) THEN backup[f]
                                 ELSE IF tree[f] # {} THEN [backup[f] EXCEPT !.copy = tree[f]]
                                 ELSE [backup[f] EXCEPT !.tomb = TRUE]]
  BY <1>4 DEF SaveFiles, CreateBackup
<1>6. \A q : ~Late(q) /\ ~Late(q)'
  BY <1>1, <1>2, <1>3, OneMatters
<1>7. \A q \in Procs : ~At(q, "replay")
  BY <1>1, <1>2, <1>3, OneMatters DEF At
<1>8. ASSUME NEW f \in Files
      PROVE  /\ f \notin BackedUp(s) => backup'[f] = backup[f]
             /\ f \in BackedUp(s) /\ tree[f] # {} =>
                   backup'[f].copy = tree[f] /\ backup'[f].tomb = backup[f].tomb
             /\ f \in BackedUp(s) /\ tree[f] = {} =>
                   backup'[f].copy = backup[f].copy /\ backup'[f].tomb = TRUE
  BY <1>2, <1>5
<1>9. \A q \in Skills : Modifies[q] \subseteq Files /\ ChangedBy(q) \subseteq Files
  BY Manifests DEF ChangedBy
<1>10. BackupInv'
  <2>1. ASSUME NEW q \in Skills, NEW f \in Modifies[q]
        PROVE  /\ ~backup'[f].tomb
               /\ q \in base[f] /\ backup'[f].copy # {} => q \in backup'[f].copy
    <3>1. f \in Files /\ tree[f] # {} /\ (q \in base[f] => q \in tree[f])
      BY <1>2, <1>9 DEF Intact, CopiesInv
    <3>2. ~backup[f].tomb /\ (q \in base[f] /\ backup[f].copy # {} => q \in backup[f].copy)
      BY <1>2 DEF Intact, BackupInv
    <3>3. CASE f \in BackedUp(s)
      BY <1>8, <3>1, <3>2, <3>3
    <3>4. CASE f \notin BackedUp(s)
      BY <1>8, <3>1, <3>2, <3>4
    <3>5. QED
      BY <3>3, <3>4
  <2>2. ASSUME NEW q \in ToSet(applied), NEW f \in ChangedBy(q)
        PROVE  ~backup'[f].tomb /\ (backup'[f].copy # {} => q \in backup'[f].copy)
    <3>1. q \in Skills /\ q \in tree[f]
      BY <1>2, <1>7, ListElements DEF Intact, CompleteInv, Complete
    <3>2. ~backup[f].tomb /\ (backup[f].copy # {} => q \in backup[f].copy)
      BY <1>2, <1>6, <3>1 DEF Intact, BackupInv
    <3>3. QED
      BY <1>8, <1>9, <3>1, <3>2
  <2>3. QED
    BY <1>1, <2>1, <2>2 DEF BackupInv
<1>11. CopiesInv'
  BY <1>1, <1>2 DEF Intact, CopiesInv
<1>12. CompleteInv'
  BY <1>1, <1>2, <1>7 DEF Intact, CompleteInv, Complete
<1>13. ProgressInv'
  <2>1. \A f \in Modifies[s] : backup'[f].copy = tree[f]
    <3>1. ASSUME NEW f \in Modifies[s] PROVE backup'[f].copy = tree[f]
      <4>1. f \in Files /\ f \in BackedUp(s) /\ tree[f] # {}
        BY <1>2, <1>4, <1>9 DEF Intact, CopiesInv, BackedUp
      <4>2. QED
        BY <1>8, <4>1
    <3>2. QED
      BY <3>1
  <2>2. \A f \in BackedUp(s) : backup'[f].copy # {} \/ backup'[f].tomb
    <3>1. BackedUp(s) \subseteq Files
      BY <1>4, Manifests, SkillsAssumption DEF BackedUp
    <3>2. QED
      BY <1>8, <3>1
  <2>3. ApplyProgress(p)'
    BY <1>1, <1>2, <1>3, <1>4, <2>1, <2>2 DEF ApplyProgress, At
  <2>4. ReplayProgress(p)'
    BY <1>2 DEF ReplayProgress, At
  <2>5. QED
    BY <1>2, <1>3, <2>3, <2>4, OneMatters
<1>14. QED
  BY <1>10, <1>11, <1>12, <1>13 DEF Intact

\* File operations and added files.
LEMMA CopyAddsKeeps ==
    ASSUME Compatible, SkillsInv, Clean', Clean, NEW p \in Procs, CopyAdds(p)
    PROVE  Intact'
<1>1. proc[p].pc = "adds" /\ UNCHANGED <<ready, applied, base, backup>>
  BY DEF CopyAdds, At
<1>2. /\ SkillTypes /\ OneInside /\ Intact /\ Locked(p) /\ proc[p].skill \in Skills
      /\ proc[p] \in Operation /\ proc \in [Procs -> Operation]
      /\ tree \in Trees /\ applied \in Seq(Skills) /\ ApplyProgress(p)
      /\ \A label : Goto(p, label) => proc'[p].pc = label
  BY <1>1, ApplyingFacts DEF ApplyPcs, SkillTypes
<1>3. /\ \A q \in Procs : q # p => proc'[q] = proc[q]
      /\ proc'[p].op = proc[p].op /\ proc'[p].skill = proc[p].skill /\ proc'[p].list = proc[p].list
  BY <1>2, InnerTypes
<1>4. PICK s : s = proc[p].skill /\ s \in Skills
  BY <1>2
<1>5. \/ /\ tree' = FileOpsAndAdds(tree, s)
         /\ proc' = [proc EXCEPT ![p].pc = "merge", ![p].todo = Modifies[s]]
      \/ tree' = tree /\ Goto(p, "rollback")
  BY <1>4 DEF CopyAdds
<1>6. /\ \A f \in Modifies[s] : backup[f].copy = tree[f]
      /\ \A f \in BackedUp(s) : backup[f].copy # {} \/ backup[f].tomb
  BY <1>1, <1>2, <1>4 DEF ApplyProgress, At, ApplyPcs
<1>7. proc'[p].pc \in {"merge", "rollback"}
  BY <1>2, <1>5 DEF Operation
<1>8. /\ \A q : ~Late(q) /\ ~Late(q)'
      /\ \A q \in Procs : ~At(q, "replay")
  BY <1>1, <1>2, <1>3, <1>7, OneMatters DEF At
<1>9. /\ \A q \in Skills : \A f \in Modifies[q] : tree'[f] = tree[f]
      /\ \A q \in Skills : \A f \in Adds[q] : q \in tree[f] => q \in tree'[f]
  <2>1. CASE tree' = tree
    BY <2>1
  <2>2. CASE tree' = FileOpsAndAdds(tree, s)
    BY <1>2, <1>4, <2>2, CopiesKeep
  <2>3. QED
    BY <1>5, <2>1, <2>2
<1>10. CopiesInv' /\ BackupInv'
  BY <1>1, <1>2, <1>8, <1>9 DEF Intact, CopiesInv, BackupInv
<1>11. CompleteInv'
  <2>1. \A q \in ToSet(applied) : q \in Skills /\ Complete(q)
    BY <1>2, <1>8, ListElements DEF Intact, CompleteInv
  <2>2. \A q \in ToSet(applied) : Complete(q)'
    BY <1>9, <2>1 DEF Complete, ChangedBy
  <2>3. QED
    BY <1>1, <2>2 DEF CompleteInv
<1>12. ApplyProgress(p)'
  <2>1. CASE tree' = tree /\ Goto(p, "rollback")
    BY <1>1, <1>2, <1>3, <1>4, <1>6, <2>1 DEF ApplyProgress, At
  <2>2. CASE /\ tree' = FileOpsAndAdds(tree, s)
             /\ proc' = [proc EXCEPT ![p].pc = "merge", ![p].todo = Modifies[s]]
    <3>1. proc'[p].pc = "merge" /\ proc'[p].todo = Modifies[s]
      BY <1>2, <2>2 DEF Operation
    <3>2. \A f \in Adds[s] : s \in tree'[f]
      BY <1>2, <1>4, <2>2, CopiesKeep
    <3>3. QED
      BY <1>1, <1>3, <1>4, <1>6, <1>9, <3>1, <3>2 DEF ApplyProgress, At
  <2>3. QED
    BY <1>5, <2>1, <2>2
<1>13. ReplayProgress(p)'
  BY <1>7 DEF ReplayProgress, At
<1>14. QED
  BY <1>2, <1>3, <1>10, <1>11, <1>12, <1>13, OneMatters DEF Intact

\* The engine is initialised while something runs.
LEMMA ReadyInside ==
    ASSUME FreshInv, NEW p \in Procs, proc[p].pc # "idle"
    PROVE  ready
  BY DEF FreshInv, At

\* One merge.
LEMMA MergeNextKeeps ==
    ASSUME Compatible, SkillsInv, Clean', Clean, NEW p \in Procs, MergeNext(p)
    PROVE  Intact'
<1>1. proc[p].pc = "merge" /\ UNCHANGED <<ready, applied, backup>>
  BY DEF MergeNext, At
<1>2. /\ SkillTypes /\ OneInside /\ Intact /\ Locked(p) /\ proc[p].skill \in Skills
      /\ proc[p] \in Operation /\ proc \in [Procs -> Operation]
      /\ tree \in Trees /\ base \in Trees /\ applied \in Seq(Skills) /\ ApplyProgress(p)
      /\ \A label : Goto(p, label) => proc'[p].pc = label /\ proc'[p].todo = proc[p].todo
  BY <1>1, ApplyingFacts DEF ApplyPcs, SkillTypes
<1>3. /\ \A q \in Procs : q # p => proc'[q] = proc[q]
      /\ proc'[p].op = proc[p].op /\ proc'[p].skill = proc[p].skill /\ proc'[p].list = proc[p].list
  BY <1>2, InnerTypes
<1>4. PICK s : s = proc[p].skill /\ s \in Skills
  BY <1>2
<1>5. PICK f \in proc[p].todo :
         /\ \/ base' = base /\ tree' = tree /\ Goto(p, "rollback")
            \/ /\ base' = MergeModified(base, tree, s, {f}).base
               /\ tree' = MergeModified(base, tree, s, {f}).tree
               /\ proc' = [proc EXCEPT ![p].todo = @ \ {f}] \/ Goto(p, "rollback")
  BY <1>4 DEF MergeNext
<1>6. /\ proc[p].todo \subseteq Modifies[s]
      /\ \A g \in proc[p].todo : backup[g].copy = tree[g]
      /\ \A g \in Adds[s] : s \in tree[g]
      /\ \A g \in Modifies[s] \ proc[p].todo : s \in tree[g] /\ base[g] # {}
      /\ \A g \in BackedUp(s) : backup[g].copy # {} \/ backup[g].tomb
  BY <1>1, <1>2, <1>4 DEF ApplyProgress, At, ApplyPcs
<1>7. /\ proc'[p].pc \in {"merge", "rollback"}
      /\ proc'[p].pc = "merge" => proc'[p].todo = proc[p].todo \ {f}
  <2>1. CASE proc' = [proc EXCEPT ![p].todo = @ \ {f}]
    BY <1>1, <1>2, <2>1 DEF Operation
  <2>2. CASE Goto(p, "rollback")
    BY <1>2, <2>2
  <2>3. QED
    BY <1>5, <2>1, <2>2
<1>8. /\ \A q : ~Late(q) /\ ~Late(q)'
      /\ \A q \in Procs : ~At(q, "replay")
  BY <1>1, <1>2, <1>3, <1>7, OneMatters DEF At
<1>9. ready /\ f \in Modifies[s] /\ f \in Files
  BY <1>1, <1>4, <1>6, Manifests, ReadyInside DEF SkillsInv
<1>10. /\ \A q \in Skills : Modifies[q] \subseteq Files /\ Adds[q] \subseteq Files
       /\ \A q \in Skills : f \notin Adds[q]
  BY <1>4, <1>9, Manifests DEF Compatible, Shipped
<1>11. \A q \in Skills : \A g \in Modifies[q] :
          /\ g \in BaseFiles => base[g] = {"core"}
          /\ tree[g] # {} /\ (q \in base[g] => q \in tree[g])
          /\ q \in ToSet(applied) => base[g] # {}
  BY <1>2, <1>9 DEF Intact, CopiesInv
<1>12. CASE base' = base /\ tree' = tree /\ Goto(p, "rollback")
  <2>1. CopiesInv' /\ BackupInv' /\ CompleteInv'
    BY <1>1, <1>2, <1>8, <1>12 DEF Intact, CopiesInv, BackupInv, CompleteInv, Complete
  <2>2. proc'[p].pc = "rollback"
    BY <1>2, <1>12
  <2>3. ApplyProgress(p)'
    BY <1>1, <1>3, <1>4, <1>6, <2>2 DEF ApplyProgress, At
  <2>4. ReplayProgress(p)'
    BY <2>2 DEF ReplayProgress, At
  <2>5. QED
    BY <1>2, <1>3, <2>1, <2>3, <2>4, OneMatters DEF Intact
<1>13. CASE /\ base' = MergeModified(base, tree, s, {f}).base
            /\ tree' = MergeModified(base, tree, s, {f}).tree
  <2>1. /\ base'[f] = CleanCopy(base, tree, f) /\ tree'[f] = MergedFile(base, tree, s, f)
        /\ \A g \in Files : g # f => base'[g] = base[g] /\ tree'[g] = tree[g]
    BY <1>9, <1>13 DEF MergeModified
  <2>2. /\ s \in tree'[f]
        /\ \A q \in Skills : f \in Modifies[q] /\ q \in tree[f] => q \in tree'[f]
        /\ base'[f] # {}
        /\ base[f] # {} => base'[f] = base[f]
        /\ base[f] = {} => base'[f] = tree[f]
        /\ \A q \in Skills : f \in Modifies[q] /\ q \in base'[f] => q \in tree'[f]
    <3>1. f \in Modifies[s] /\ tree[f] # {} /\ (f \in BaseFiles => base[f] = {"core"})
      BY <1>4, <1>9, <1>11
    <3>2. \A q \in Skills : f \in Modifies[q] /\ q \in base[f] => q \in tree[f]
      BY <1>11
    <3>3. QED
      BY <1>4, <2>1, <3>1, <3>2, MergedKeeps
  <2>3. CopiesInv'
    <3>1. ASSUME NEW q \in Skills, NEW g \in Modifies[q]
          PROVE  /\ g \in BaseFiles => base'[g] = {"core"}
                 /\ tree'[g] # {} /\ (q \in base'[g] => q \in tree'[g])
                 /\ q \in ToSet(applied) => base'[g] # {}
      <4>1. CASE g = f
        BY <1>11, <2>2, <4>1
      <4>2. CASE g # f
        BY <1>10, <1>11, <2>1, <4>2
      <4>3. QED
        BY <4>1, <4>2
    <3>2. QED
      BY <1>1, <3>1 DEF CopiesInv
  <2>4. BackupInv'
    <3>1. ASSUME NEW q \in Skills, NEW g \in Modifies[q]
          PROVE  ~backup[g].tomb /\ (q \in base'[g] /\ backup[g].copy # {} => q \in backup[g].copy)
      <4>1. ~backup[g].tomb /\ (q \in base[g] /\ backup[g].copy # {} => q \in backup[g].copy)
        BY <1>2 DEF Intact, BackupInv
      <4>2. CASE g = f
        BY <1>6, <2>2, <4>1, <4>2
      <4>3. CASE g # f
        BY <1>10, <2>1, <4>1, <4>3
      <4>4. QED
        BY <4>2, <4>3
    <3>2. QED
      BY <1>1, <1>2, <1>8, <3>1 DEF Intact, BackupInv
  <2>5. \A q \in Skills : \A g \in ChangedBy(q) : q \in tree[g] => q \in tree'[g]
    <3>1. ASSUME NEW q \in Skills, NEW g \in ChangedBy(q), q \in tree[g] PROVE q \in tree'[g]
      <4>1. g \in Files /\ (g = f => g \in Modifies[q])
        BY <1>10 DEF ChangedBy
      <4>2. QED
        BY <2>1, <2>2, <3>1, <4>1
    <3>2. QED
      BY <3>1
  <2>6. CompleteInv'
    <3>1. \A q \in ToSet(applied) : q \in Skills /\ Complete(q)
      BY <1>2, <1>8, ListElements DEF Intact, CompleteInv
    <3>2. \A q \in ToSet(applied) : Complete(q)'
      BY <2>5, <3>1 DEF Complete
    <3>3. QED
      BY <1>1, <3>2 DEF CompleteInv
  <2>7. ApplyProgress(p)'
    <3>1. CASE proc'[p].pc = "rollback"
      BY <1>1, <1>3, <1>4, <1>6, <3>1 DEF ApplyProgress, At
    <3>2. CASE proc'[p].pc = "merge"
      <4>1. proc'[p].todo = proc[p].todo \ {f} /\ proc'[p].todo \subseteq Modifies[s]
        BY <1>6, <1>7, <3>2
      <4>2. \A g \in proc'[p].todo : backup[g].copy = tree'[g]
        BY <1>4, <1>6, <1>10, <2>1, <4>1
      <4>3. \A g \in Adds[s] : s \in tree'[g]
        BY <1>4, <1>6, <1>10, <2>1
      <4>4. ASSUME NEW g \in Modifies[s] \ proc'[p].todo PROVE s \in tree'[g] /\ base'[g] # {}
        <5>1. CASE g = f
          BY <2>2, <5>1
        <5>2. CASE g # f
          BY <1>4, <1>6, <1>10, <2>1, <4>1, <5>2
        <5>3. QED
          BY <5>1, <5>2
      <4>5. QED
        BY <1>1, <1>3, <1>4, <1>6, <3>2, <4>1, <4>2, <4>3, <4>4 DEF ApplyProgress, At
    <3>3. QED
      BY <1>7, <3>1, <3>2
  <2>8. ReplayProgress(p)'
    BY <1>7 DEF ReplayProgress, At
  <2>9. QED
    BY <1>2, <1>3, <2>3, <2>4, <2>6, <2>7, <2>8, OneMatters DEF Intact
<1>14. QED
  BY <1>5, <1>12, <1>13

\* Structured operations add, and a command or the list change no file.
LEMMA ApplyEndKeeps ==
    ASSUME Compatible, SkillsInv, Clean', Clean, NEW p \in Procs,
           MergesDone(p) \/ PostApply(p) \/ RecordSkillApplication(p) \/ RunTest(p)
    PROVE  Intact'
<1>1. proc[p].pc \in {"merge", "post", "record", "test"} /\ UNCHANGED <<ready, base, backup>>
  BY DEF MergesDone, PostApply, RecordSkillApplication, RunTest, At
<1>2. /\ SkillTypes /\ OneInside /\ Intact /\ Locked(p) /\ proc[p].skill \in Skills
      /\ proc[p] \in Operation /\ proc \in [Procs -> Operation]
      /\ tree \in Trees /\ applied \in Seq(Skills) /\ IsInjective(applied) /\ ApplyProgress(p)
      /\ \A label : Goto(p, label) => proc'[p].pc = label /\ proc'[p].todo = proc[p].todo
  BY <1>1, ApplyingFacts DEF ApplyPcs, SkillTypes
<1>3. /\ \A q \in Procs : q # p => proc'[q] = proc[q]
      /\ proc'[p].op = proc[p].op /\ proc'[p].skill = proc[p].skill /\ proc'[p].list = proc[p].list
  BY <1>2, InnerTypes
<1>4. PICK s : s = proc[p].skill /\ s \in Skills
  BY <1>2
<1>5. \A f \in BackedUp(s) : backup[f].copy # {} \/ backup[f].tomb
  BY <1>1, <1>2, <1>4 DEF ApplyProgress, At, ApplyPcs
<1>6. \A q \in Procs : ~At(q, "replay")
  BY <1>1, <1>2, <1>3, OneMatters DEF At
<1>7. \A q \in ToSet(applied) : q \in Skills /\ Complete(q)
  BY <1>2, <1>6, ListElements DEF Intact, CompleteInv
<1>8. \A q \in Skills : Modifies[q] \subseteq Files /\ ChangedBy(q) \subseteq Files
  BY Manifests DEF ChangedBy
<1>9. CASE MergesDone(p)
  <2>1. /\ UNCHANGED applied /\ tree' = MergeStructured(tree, {s}) /\ proc[p].todo = {} /\ proc[p].pc = "merge"
        /\ Goto(p, "post") \/ Goto(p, "record")
    BY <1>4, <1>9 DEF MergesDone, At
  <2>2. proc'[p].pc \in {"post", "record"}
    BY <1>2, <2>1
  <2>3. \A f \in Files : tree[f] \subseteq tree'[f]
    BY <2>1 DEF MergeStructured
  <2>4. \A q : ~Late(q) /\ ~Late(q)'
    BY <1>2, <1>3, <2>1, <2>2, OneMatters
  <2>5. CopiesInv'
    <3>1. ASSUME NEW q \in Skills, NEW g \in Modifies[q]
          PROVE  tree'[g] # {} /\ (q \in base[g] => q \in tree'[g])
      BY <1>2, <1>8, <2>3 DEF Intact, CopiesInv
    <3>2. QED
      BY <1>1, <1>2, <2>1, <3>1 DEF Intact, CopiesInv
  <2>6. BackupInv'
    BY <1>1, <1>2, <2>1, <2>4 DEF Intact, BackupInv
  <2>7. CompleteInv'
    <3>1. \A q \in ToSet(applied) : Complete(q)'
      BY <1>7, <1>8, <2>3 DEF Complete
    <3>2. QED
      BY <2>1, <3>1 DEF CompleteInv
  <2>8. ApplyProgress(p)'
    <3>1. /\ \A f \in Adds[s] : s \in tree[f]
          /\ \A f \in Modifies[s] : s \in tree[f] /\ base[f] # {}
      BY <1>2, <1>4, <2>1 DEF ApplyProgress, At
    <3>2. \A f \in ChangedBy(s) : s \in tree'[f]
      BY <1>4, <1>8, <2>3, <3>1 DEF ChangedBy
    <3>3. QED
      BY <1>1, <1>3, <1>4, <1>5, <2>2, <3>1, <3>2 DEF ApplyProgress, At, Complete
  <2>9. ReplayProgress(p)'
    BY <2>2 DEF ReplayProgress, At
  <2>10. QED
    BY <1>2, <1>3, <2>5, <2>6, <2>7, <2>8, <2>9, OneMatters DEF Intact
<1>10. CASE PostApply(p)
  <2>1. UNCHANGED <<applied, tree>> /\ proc[p].pc = "post" /\ (Goto(p, "record") \/ Goto(p, "rollback"))
    BY <1>10 DEF PostApply, At
  <2>2. proc'[p].pc \in {"record", "rollback"}
    BY <1>2, <2>1
  <2>3. \A q : ~Late(q) /\ ~Late(q)'
    BY <1>2, <1>3, <2>1, <2>2, OneMatters
  <2>4. CopiesInv' /\ BackupInv' /\ CompleteInv'
    BY <1>1, <1>2, <1>6, <2>1, <2>3 DEF Intact, CopiesInv, BackupInv, CompleteInv, Complete
  <2>5. Complete(s) /\ \A f \in Modifies[s] : base[f] # {}
    BY <1>2, <1>4, <2>1 DEF ApplyProgress, At
  <2>6. ApplyProgress(p)'
    BY <1>1, <1>3, <1>4, <1>5, <2>1, <2>2, <2>5 DEF ApplyProgress, At, Complete
  <2>7. ReplayProgress(p)'
    BY <2>2 DEF ReplayProgress, At
  <2>8. QED
    BY <1>2, <1>3, <2>4, <2>6, <2>7, OneMatters DEF Intact
<1>11. CASE RecordSkillApplication(p)
  <2>1. /\ UNCHANGED tree /\ proc[p].pc = "record" /\ applied' = Append(Without(applied, s), s)
        /\ Goto(p, "test") \/ Goto(p, "clear")
    BY <1>4, <1>11 DEF RecordSkillApplication, At
  <2>2. proc'[p].pc \in {"test", "clear"}
    BY <1>2, <2>1
  <2>3. /\ \A q : ~Late(q)
        /\ \A q : Late(q)' <=> q = s
    BY <1>2, <1>3, <1>4, <2>1, <2>2, OneMatters
  <2>4. ToSet(applied') = ToSet(applied) \cup {s}
    BY <1>2, <1>4, <2>1, WithoutSkill, ListElements
  <2>5. Complete(s) /\ \A f \in Modifies[s] : base[f] # {}
    BY <1>2, <1>4, <2>1 DEF ApplyProgress, At
  <2>6. CopiesInv'
    BY <1>1, <1>2, <2>1, <2>4, <2>5 DEF Intact, CopiesInv
  <2>7. BackupInv'
    BY <1>1, <1>2, <2>3, <2>4 DEF Intact, BackupInv
  <2>8. CompleteInv'
    BY <1>7, <2>1, <2>4, <2>5 DEF CompleteInv, Complete
  <2>9. ApplyProgress(p)'
    BY <1>1, <1>3, <1>4, <1>5, <2>2 DEF ApplyProgress, At
  <2>10. ReplayProgress(p)'
    BY <2>2 DEF ReplayProgress, At
  <2>11. QED
    BY <1>2, <1>3, <2>6, <2>7, <2>8, <2>9, <2>10, OneMatters DEF Intact
<1>12. CASE RunTest(p)
  <2>1. UNCHANGED <<applied, tree>> /\ proc[p].pc = "test" /\ "late_exception" \notin holes'
    BY <1>12 DEF RunTest, At, Clean
  <2>2. Goto(p, "clear") \/ Goto(p, "unrecord")
    BY <1>12, <2>1 DEF RunTest
  <2>3. proc'[p].pc \in {"clear", "unrecord"}
    BY <1>2, <2>2
  <2>4. \A q : Late(q)' <=> Late(q)
    BY <1>2, <1>3, <1>4, <2>1, <2>3, OneMatters
  <2>5. CopiesInv' /\ BackupInv' /\ CompleteInv'
    BY <1>1, <1>2, <1>6, <2>1, <2>4 DEF Intact, CopiesInv, BackupInv, CompleteInv, Complete
  <2>6. ApplyProgress(p)'
    BY <1>1, <1>3, <1>4, <1>5, <2>3 DEF ApplyProgress, At
  <2>7. ReplayProgress(p)'
    BY <2>3 DEF ReplayProgress, At
  <2>8. QED
    BY <1>2, <1>3, <2>5, <2>6, <2>7, OneMatters DEF Intact
<1>13. QED
  BY <1>9, <1>10, <1>11, <1>12

\* The backup is put back: no skill that stays on the list loses a change.
LEMMA RollBackKeeps ==
    ASSUME Compatible, SkillsInv, Clean', Clean, NEW p \in Procs, RollBack(p)
    PROVE  Intact'
<1>1. proc[p].pc \in {"rollback", "unrecord"} /\ UNCHANGED <<ready, base, backup>>
  BY DEF RollBack, At
<1>2. /\ SkillTypes /\ OneInside /\ Intact /\ Locked(p) /\ proc[p].skill \in Skills
      /\ proc[p] \in Operation /\ proc \in [Procs -> Operation]
      /\ tree \in Trees /\ applied \in Seq(Skills) /\ IsInjective(applied) /\ ApplyProgress(p)
      /\ \A label : Goto(p, label) => proc'[p].pc = label
  BY <1>1, ApplyingFacts DEF ApplyPcs, SkillTypes
<1>3. /\ \A q \in Procs : q # p => proc'[q] = proc[q]
      /\ proc'[p].op = proc[p].op /\ proc'[p].skill = proc[p].skill /\ proc'[p].list = proc[p].list
  BY <1>2, InnerTypes
<1>4. PICK s : s = proc[p].skill /\ s \in Skills
  BY <1>2
<1>5. \A f \in BackedUp(s) : backup[f].copy # {} \/ backup[f].tomb
  BY <1>1, <1>2, <1>4 DEF ApplyProgress, At, ApplyPcs
<1>6. proc'[p].pc = "clear"
  BY <1>2 DEF RollBack
<1>7. /\ \A q \in Procs : ~At(q, "replay")
      /\ \A q : Late(q) <=> proc[p].pc = "unrecord" /\ q = s
      /\ \A q : Late(q)' <=> q = s
  BY <1>1, <1>2, <1>3, <1>4, <1>6, OneMatters DEF At
<1>8. ToSet(applied') \subseteq ToSet(applied) /\ \A q \in ToSet(applied') : ~Late(q) /\ q \in Skills
  <2>1. CASE proc[p].pc = "rollback"
    <3>1. applied' = applied
      BY <2>1 DEF RollBack, At
    <3>2. QED
      BY <1>2, <1>7, <2>1, <3>1, ListElements
  <2>2. CASE proc[p].pc = "unrecord"
    <3>1. applied' = Without(applied, s)
      BY <1>4, <2>2 DEF RollBack, At
    <3>2. ToSet(applied') = ToSet(applied) \ {s}
      BY <1>2, <3>1, WithoutSkill
    <3>3. QED
      BY <1>2, <1>7, <3>2, ListElements
  <2>3. QED
    BY <1>1, <2>1, <2>2
<1>9. PICK deleted \in SUBSET {f \in Files : backup[f].tomb} :
         tree' = [f \in Files |-> IF f \in deleted THEN {}
                                  ELSE IF backup[f].copy # {} THEN backup[f].copy
                                  ELSE RemoveAdded(p)[f]]
  BY DEF RollBack, RestoredFrom
<1>10. ASSUME NEW f \in Files, ~backup[f].tomb
       PROVE  /\ backup[f].copy # {} => tree'[f] = backup[f].copy
              /\ backup[f].copy = {} => tree'[f] = tree[f]
  <2>1. f \notin deleted
    BY <1>10
  <2>2. CASE backup[f].copy # {}
    BY <1>9, <2>1, <2>2
  <2>3. CASE backup[f].copy = {}
    <3>1. f \notin Adds[s]
      BY <1>4, <1>5, <1>10, <2>3 DEF BackedUp
    <3>2. RemoveAdded(p)[f] = tree[f]
      BY <1>4, <3>1 DEF RemoveAdded
    <3>3. QED
      BY <1>9, <2>1, <2>3, <3>2
  <2>4. QED
    BY <2>2, <2>3
<1>11. \A q \in Skills : Modifies[q] \subseteq Files /\ ChangedBy(q) \subseteq Files
  BY Manifests DEF ChangedBy
<1>12. CopiesInv'
  <2>1. ASSUME NEW q \in Skills, NEW g \in Modifies[q]
        PROVE  tree'[g] # {} /\ (q \in base[g] => q \in tree'[g])
    <3>1. g \in Files /\ tree[g] # {} /\ (q \in base[g] => q \in tree[g])
      BY <1>2, <1>11 DEF Intact, CopiesInv
    <3>2. ~backup[g].tomb /\ (q \in base[g] /\ backup[g].copy # {} => q \in backup[g].copy)
      BY <1>2 DEF Intact, BackupInv
    <3>3. QED
      BY <1>10, <3>1, <3>2
  <2>2. \A q \in Skills : \A g \in Modifies[q] :
           /\ ready /\ g \in BaseFiles => base[g] = {"core"}
           /\ q \in ToSet(applied') => base[g] # {}
    BY <1>2, <1>8 DEF Intact, CopiesInv
  <2>3. QED
    BY <1>1, <2>1, <2>2 DEF CopiesInv
<1>13. BackupInv'
  BY <1>1, <1>2, <1>8 DEF Intact, BackupInv
<1>14. CompleteInv'
  <2>1. ASSUME NEW q \in ToSet(applied'), NEW g \in ChangedBy(q) PROVE q \in tree'[g]
    <3>1. q \in Skills /\ q \in ToSet(applied) /\ ~Late(q) /\ g \in Files
      BY <1>8, <1>11
    <3>2. q \in tree[g]
      BY <1>2, <1>7, <3>1 DEF Intact, CompleteInv, Complete
    <3>3. ~backup[g].tomb /\ (backup[g].copy # {} => q \in backup[g].copy)
      BY <1>2, <3>1 DEF Intact, BackupInv
    <3>4. QED
      BY <1>10, <3>1, <3>2, <3>3
  <2>2. QED
    BY <2>1 DEF CompleteInv, Complete
<1>15. ApplyProgress(p)' /\ ReplayProgress(p)'
  BY <1>6 DEF ApplyProgress, ReplayProgress, At, ApplyPcs
<1>16. QED
  BY <1>2, <1>3, <1>12, <1>13, <1>14, <1>15, OneMatters DEF Intact

\* The backup is dropped and the lock released.
LEMMA ClearBackupKeeps ==
    ASSUME Compatible, SkillsInv, Clean', Clean, NEW p \in Procs, ClearBackup(p)
    PROVE  Intact'
<1>1. proc[p].pc = "clear" /\ UNCHANGED <<ready, applied, tree, base>> /\ backup' = NoBackup
  BY DEF ClearBackup, At
<1>2. /\ SkillTypes /\ OneInside /\ Intact /\ Locked(p)
      /\ proc \in [Procs -> Operation] /\ applied \in Seq(Skills)
  BY <1>1, ApplyingFacts DEF ApplyPcs, SkillTypes
<1>3. proc'[p] = Idle /\ proc'[p].pc = "idle" /\ \A q \in Procs : q # p => proc'[q] = proc[q]
  BY <1>2, Releases, IdleType DEF ClearBackup
<1>4. \A q \in Procs : ~At(q, "replay")
  BY <1>1, <1>2, <1>3, OneMatters DEF At
<1>5. \A q \in Skills : Modifies[q] \subseteq Files /\ ChangedBy(q) \subseteq Files
  BY Manifests DEF ChangedBy
<1>6. BackupInv'
  BY <1>1, <1>5 DEF BackupInv, NoBackup
<1>7. CopiesInv' /\ CompleteInv'
  BY <1>1, <1>2, <1>4 DEF Intact, CopiesInv, CompleteInv, Complete
<1>8. ApplyProgress(p)' /\ ReplayProgress(p)'
  BY <1>3 DEF ApplyProgress, ReplayProgress, At, ApplyPcs
<1>9. QED
  BY <1>2, <1>3, <1>6, <1>7, <1>8, OneMatters DEF Intact

\* What a replay under the lock knows: the skills it rebuilds are on the list.
LEMMA ReplayingFacts ==
    ASSUME SkillsInv, Clean, NEW p \in Procs, proc[p].pc \in ReplayPcs
    PROVE  /\ SkillTypes /\ OneInside /\ Intact /\ Locked(p)
           /\ proc \in [Procs -> Operation] /\ proc[p] \in Operation
           /\ proc[p].op \in {"uninstall", "rebase"} /\ proc[p].list \in Seq(Skills)
           /\ tree \in Trees /\ base \in Trees /\ applied \in Seq(Skills) /\ IsInjective(applied)
           /\ ReplayProgress(p) /\ ready
           /\ Target(p) \subseteq ToSet(applied) /\ ToSet(applied) \subseteq Skills
           /\ \A q : ~Late(q)
<1>1. /\ SkillTypes /\ OneInside /\ Intact /\ proc \in [Procs -> Operation] /\ proc[p] \in Operation
      /\ tree \in Trees /\ base \in Trees /\ applied \in Seq(Skills) /\ IsInjective(applied)
  BY DEF SkillsInv, SkillTypes
<1>2. proc[p].op \in {"uninstall", "rebase"} /\ proc[p].list \in Seq(Skills)
  BY <1>1 DEF Operation, ReplayPcs
<1>3. Locked(p) /\ proc[p].pc # "idle"
  BY DEF Locked, ReplayPcs
<1>4. ReplayProgress(p)
  BY <1>1 DEF Intact, ProgressInv
<1>5. ready
  BY <1>3, ReadyInside DEF SkillsInv
<1>6. Target(p) \subseteq ToSet(applied) /\ ToSet(applied) \subseteq Skills
  BY <1>1, ListElements DEF Target
<1>7. \A q : ~Late(q)
  <2>1. \A q \in Procs : q # p => ~Locked(q)
    BY <1>1, <1>3, Alone
  <2>2. QED
    BY <2>1 DEF Late, Locked, ReplayPcs
<1>8. QED
  BY <1>1, <1>2, <1>3, <1>4, <1>5, <1>6, <1>7

\* The files of the skills to replay are taken from the clean copies.
LEMMA ReplayResetKeeps ==
    ASSUME Compatible, SkillsInv, Clean', Clean, NEW p \in Procs, ReplayReset(p)
    PROVE  Intact'
<1>1. /\ proc[p].pc = "reset" /\ Goto(p, "replay") /\ UNCHANGED <<ready, applied, base, backup>>
      /\ tree' = ResetTouched(base, tree, proc[p].list)
  BY DEF ReplayReset, At
<1>2. /\ SkillTypes /\ OneInside /\ Intact /\ Locked(p) /\ proc[p] \in Operation
      /\ proc \in [Procs -> Operation]
      /\ proc[p].list \in Seq(Skills) /\ ReplayProgress(p) /\ Target(p) \subseteq ToSet(applied)
      /\ ToSet(applied) \subseteq Skills /\ ready /\ \A q : ~Late(q)
  BY <1>1, ReplayingFacts DEF ReplayPcs
<1>3. /\ \A q \in Procs : q # p => proc'[q] = proc[q]
      /\ proc'[p].op = proc[p].op /\ proc'[p].skill = proc[p].skill /\ proc'[p].list = proc[p].list
  BY <1>2, InnerTypes
<1>4. proc'[p].pc = "replay"
  BY <1>1, <1>2 DEF Goto, Operation
<1>5. \A q : ~Late(q)'
  BY <1>2, <1>3, <1>4, OneMatters
<1>6. ToSet(proc[p].list) = Target(p)
  BY <1>1, <1>2 DEF ReplayProgress, At
<1>7. \A f \in Files : tree'[f] = IF f \in Touched(proc[p].list) THEN base[f] ELSE tree[f]
  BY <1>1 DEF ResetTouched
<1>8. CopiesInv'
  <2>1. ASSUME NEW q \in Skills, NEW g \in Modifies[q]
        PROVE  tree'[g] # {} /\ (q \in base[g] => q \in tree'[g])
    <3>1. g \in Files /\ tree[g] # {} /\ (q \in base[g] => q \in tree[g])
      BY <1>2, Manifests DEF Intact, CopiesInv
    <3>2. ASSUME g \in Touched(proc[p].list) PROVE base[g] # {}
      <4>1. PICK r \in ToSet(proc[p].list) : g \in Adds[r] \cup Modifies[r]
        BY <3>2 DEF Touched
      <4>2. r \in ToSet(applied) /\ r \in Skills
        BY <1>2, <1>6, <4>1
      <4>3. g \in Modifies[r]
        BY <4>1, <4>2 DEF Compatible, Shipped
      <4>4. QED
        BY <1>2, <4>2, <4>3 DEF Intact, CopiesInv
    <3>3. QED
      BY <1>7, <3>1, <3>2
  <2>2. QED
    BY <1>1, <1>2, <2>1 DEF Intact, CopiesInv
<1>9. BackupInv'
  BY <1>1, <1>2, <1>5 DEF Intact, BackupInv
<1>10. CompleteInv'
  BY <1>4 DEF CompleteInv, At
<1>11. ApplyProgress(p)'
  BY <1>4 DEF ApplyProgress, At, ApplyPcs
<1>12. ReplayProgress(p)'
  <2>1. Target(p)' = Target(p)
    BY <1>1, <1>3 DEF Target
  <2>2. QED
    BY <1>3, <1>4, <1>6, <2>1 DEF ReplayProgress, At
<1>13. QED
  BY <1>2, <1>3, <1>8, <1>9, <1>10, <1>11, <1>12, OneMatters DEF Intact

\* One skill is replayed: it is complete again, and those replayed before it stay so.
LEMMA ReplayNextKeeps ==
    ASSUME Compatible, SkillsInv, Clean', Clean, NEW p \in Procs, ReplayNext(p)
    PROVE  Intact'
<1>1. proc[p].pc = "replay" /\ proc[p].list # <<>> /\ UNCHANGED <<ready, applied, backup>>
  BY DEF ReplayNext, At
<1>2. /\ SkillTypes /\ OneInside /\ Intact /\ Locked(p) /\ proc[p] \in Operation
      /\ proc \in [Procs -> Operation]
      /\ proc[p].list \in Seq(Skills) /\ ReplayProgress(p) /\ Target(p) \subseteq ToSet(applied)
      /\ ToSet(applied) \subseteq Skills /\ ready /\ \A q : ~Late(q)
      /\ tree \in Trees /\ base \in Trees
  BY <1>1, ReplayingFacts DEF ReplayPcs
<1>3. PICK s : s = Head(proc[p].list)
  OBVIOUS
<1>4. /\ s \in Skills /\ Tail(proc[p].list) \in Seq(Skills)
      /\ ToSet(proc[p].list) = ToSet(Tail(proc[p].list)) \cup {s}
  BY <1>1, <1>2, <1>3, ListElements
<1>5. /\ ToSet(proc[p].list) \subseteq Target(p)
      /\ \A r \in Target(p) \ ToSet(proc[p].list) : Complete(r)
  BY <1>1, <1>2 DEF ReplayProgress, At
<1>6. s \in ToSet(applied)
  BY <1>2, <1>4, <1>5
<1>7. PICK mid : mid = FileOpsAndAdds(tree, s)
  OBVIOUS
<1>8. /\ \A q \in Skills : \A f \in Modifies[q] : mid[f] = tree[f]
      /\ \A f \in Adds[s] : mid[f] = {s}
      /\ \A q \in Skills : q # s => \A f \in Adds[q] : mid[f] = tree[f]
  BY <1>2, <1>4, <1>7, CopiesKeep
<1>9. /\ base' = MergeModified(base, mid, s, Modifies[s]).base
      /\ tree' = MergeModified(base, mid, s, Modifies[s]).tree
  BY <1>3, <1>7 DEF ReplayNext, ReplayOne, MergeAll
<1>10. "replay" \notin holes'
  BY DEF Clean
<1>11. proc' = [proc EXCEPT ![p].list = Tail(@)]
  BY <1>10 DEF ReplayNext
<1>12. /\ proc'[p].pc = "replay" /\ proc'[p].op = proc[p].op /\ proc'[p].skill = proc[p].skill
       /\ proc'[p].list = Tail(proc[p].list)
       /\ \A q \in Procs : q # p => proc'[q] = proc[q]
  BY <1>1, <1>2, <1>11 DEF Operation
<1>13. \A q \in Skills : \A f \in Modifies[q] :
          /\ f \in Files /\ (f \in BaseFiles => base[f] = {"core"})
          /\ tree[f] # {} /\ (q \in base[f] => q \in tree[f])
          /\ q \in ToSet(applied) => base[f] # {}
  BY <1>2, Manifests DEF Intact, CopiesInv
<1>14. ASSUME NEW f \in Modifies[s]
       PROVE  /\ base'[f] = base[f] /\ s \in tree'[f]
              /\ \A q \in Skills : f \in Modifies[q] /\ q \in tree[f] => q \in tree'[f]
  <2>1. /\ f \in Files /\ mid[f] # {} /\ mid[f] = tree[f] /\ base[f] # {}
        /\ f \in BaseFiles => base[f] = {"core"}
    BY <1>4, <1>6, <1>8, <1>13
  <2>2. \A q \in Skills : f \in Modifies[q] /\ q \in base[f] => q \in mid[f]
    BY <1>13, <2>1
  <2>3. base'[f] = CleanCopy(base, mid, f) /\ tree'[f] = MergedFile(base, mid, s, f)
    BY <1>9, <2>1 DEF MergeModified
  <2>4. /\ s \in MergedFile(base, mid, s, f)
        /\ \A q \in Skills : f \in Modifies[q] /\ q \in mid[f] => q \in MergedFile(base, mid, s, f)
        /\ CleanCopy(base, mid, f) = base[f]
    BY <1>4, <2>1, <2>2, MergedKeeps
  <2>5. QED
    BY <2>1, <2>3, <2>4
<1>15. \A f \in Files \ Modifies[s] : base'[f] = base[f] /\ tree'[f] = mid[f]
  BY <1>9 DEF MergeModified
<1>16. \A f \in Files : base'[f] = base[f]
  BY <1>14, <1>15
<1>17. ASSUME NEW q \in Skills, NEW f \in Modifies[q]
       PROVE  tree'[f] # {} /\ (q \in tree[f] => q \in tree'[f])
  <2>1. CASE f \in Modifies[s]
    BY <1>14, <2>1
  <2>2. CASE f \notin Modifies[s]
    BY <1>8, <1>13, <1>15, <2>2
  <2>3. QED
    BY <2>1, <2>2
<1>18. ASSUME NEW q \in Skills, NEW f \in Adds[q]
       PROVE  (q \in tree[f] => q \in tree'[f]) /\ (q = s => q \in tree'[f])
  <2>1. f \in Files /\ f \notin Modifies[s]
    BY <1>4, Manifests DEF Compatible, Shipped
  <2>2. tree'[f] = mid[f]
    BY <1>15, <2>1
  <2>3. QED
    BY <1>8, <2>2
<1>19. CopiesInv'
  BY <1>1, <1>2, <1>13, <1>16, <1>17 DEF CopiesInv
<1>20. \A q : ~Late(q)'
  BY <1>2, <1>12, OneMatters
<1>21. BackupInv'
  BY <1>1, <1>2, <1>13, <1>16, <1>20 DEF Intact, BackupInv
<1>22. CompleteInv'
  BY <1>12 DEF CompleteInv, At
<1>23. ApplyProgress(p)'
  BY <1>12 DEF ApplyProgress, At, ApplyPcs
<1>24. ReplayProgress(p)'
  <2>1. Target(p)' = Target(p)
    BY <1>1, <1>12 DEF Target
  <2>2. Complete(s)'
    BY <1>4, <1>14, <1>18 DEF Complete, ChangedBy
  <2>3. ASSUME NEW r \in Target(p) \ ToSet(Tail(proc[p].list)) PROVE Complete(r)'
    <3>1. CASE r = s
      BY <2>2, <3>1
    <3>2. CASE r # s
      <4>1. r \in Skills /\ Complete(r)
        BY <1>2, <1>4, <1>5, <3>2
      <4>2. QED
        BY <1>17, <1>18, <4>1 DEF Complete, ChangedBy
    <3>3. QED
      BY <3>1, <3>2
  <2>4. QED
    BY <1>4, <1>5, <1>12, <2>1, <2>3 DEF ReplayProgress, At
<1>25. QED
  BY <1>2, <1>12, <1>19, <1>21, <1>22, <1>23, <1>24, OneMatters DEF Intact

\* The replay is over: every skill that stays on the list was replayed.
LEMMA ReplayDoneKeeps ==
    ASSUME Compatible, SkillsInv, Clean', Clean, NEW p \in Procs, ReplayDone(p)
    PROVE  Intact'
<1>1. /\ proc[p].pc = "replay" /\ proc[p].list = <<>> /\ UNCHANGED <<ready, base, backup>>
      /\ applied' = IF proc[p].op = "uninstall" THEN Without(applied, proc[p].skill) ELSE applied
      /\ ReleaseLock(p)
  BY DEF ReplayDone, At
<1>2. /\ SkillTypes /\ OneInside /\ Intact /\ Locked(p) /\ proc[p] \in Operation
      /\ proc \in [Procs -> Operation] /\ applied \in Seq(Skills) /\ IsInjective(applied)
      /\ ReplayProgress(p) /\ Target(p) \subseteq ToSet(applied)
      /\ ToSet(applied) \subseteq Skills /\ ready /\ \A q : ~Late(q)
      /\ tree \in Trees
  BY <1>1, ReplayingFacts DEF ReplayPcs
<1>3. proc'[p] = Idle /\ proc'[p].pc = "idle" /\ \A q \in Procs : q # p => proc'[q] = proc[q]
  BY <1>1, <1>2, Releases, IdleType
<1>4. ToSet(applied') = Target(p)
  BY <1>1, <1>2, WithoutSkill DEF Target
<1>5. \A r \in Target(p) : Complete(r)
  <2>1. ToSet(proc[p].list) = {}
    BY <1>1 DEF ToSet
  <2>2. QED
    BY <1>1, <1>2, <2>1 DEF ReplayProgress, At
<1>6. \A f \in Files : tree[f] \subseteq tree'[f]
  <2>1. PICK done : done = IF proc[p].op = "rebase" THEN before.applied
                           ELSE Without(before.applied, proc[p].skill)
    OBVIOUS
  <2>2. PICK built : built = MergeStructured(tree, ToSet(done))
    OBVIOUS
  <2>3. \A f \in Files : tree[f] \subseteq built[f]
    BY <2>2 DEF MergeStructured
  <2>4. \/ tree' = built
        \/ tree' = [f \in Files |-> built[f] \cup (before.tree[f] \cap {"edit"})]
    BY <2>1, <2>2 DEF ReplayDone
  <2>5. QED
    BY <2>3, <2>4
<1>7. \A q \in Skills : Modifies[q] \subseteq Files /\ ChangedBy(q) \subseteq Files
  BY Manifests DEF ChangedBy
<1>8. CopiesInv'
  <2>1. ASSUME NEW q \in Skills, NEW g \in Modifies[q]
        PROVE  /\ ready /\ g \in BaseFiles => base[g] = {"core"}
               /\ tree'[g] # {} /\ (q \in base[g] => q \in tree'[g])
               /\ q \in ToSet(applied') => base[g] # {}
    <3>1. /\ ready /\ g \in BaseFiles => base[g] = {"core"}
          /\ tree[g] # {} /\ (q \in base[g] => q \in tree[g])
          /\ q \in ToSet(applied) => base[g] # {}
      BY <1>2 DEF Intact, CopiesInv
    <3>2. g \in Files
      BY <1>7
    <3>3. QED
      BY <1>2, <1>4, <1>6, <3>1, <3>2
  <2>2. QED
    BY <1>1, <2>1 DEF CopiesInv
<1>9. BackupInv'
  BY <1>1, <1>2, <1>4 DEF Intact, BackupInv
<1>10. CompleteInv'
  <2>1. \A r \in ToSet(applied') : Complete(r)'
    BY <1>2, <1>4, <1>5, <1>6, <1>7 DEF Complete
  <2>2. QED
    BY <2>1 DEF CompleteInv
<1>11. ApplyProgress(p)' /\ ReplayProgress(p)'
  BY <1>3 DEF ApplyProgress, ReplayProgress, At, ApplyPcs
<1>12. QED
  BY <1>2, <1>3, <1>8, <1>9, <1>10, <1>11, OneMatters DEF Intact

\* Every step of the engine keeps its invariant.
LEMMA SkillsNextKeeps ==
    ASSUME Compatible, SkillsInv, [SkillsNext]_skillsVars
    PROVE  SkillsInv'
<1>1. SkillTypes' /\ OneInside'
  BY SkillTypesNext DEF SkillsInv
<1>2. CASE SkillsNext
  <2>1. FreshInv'
    BY <1>2, FreshNext DEF SkillsInv
  <2>2. ASSUME Clean' PROVE Intact'
    <3>1. Clean
      BY <1>2, <2>2, HolesGrow
    <3>2. ASSUME NEW p \in Procs, SkillsStep(p) PROVE Intact'
      BY <2>2, <3>1, <3>2, AcquireKeeps, SaveKeeps, CopyAddsKeeps, MergeNextKeeps, ApplyEndKeeps,
         RollBackKeeps, ClearBackupKeeps, ReplayResetKeeps, ReplayNextKeeps, ReplayDoneKeeps DEF SkillsStep
    <3>3. QED
      BY <1>2, <2>2, <3>1, <3>2, OuterKeeps, CrashKeeps, SessionKeeps DEF SkillsNext
  <2>3. QED
    BY <1>1, <2>1, <2>2 DEF SkillsInv
<1>3. CASE UNCHANGED skillsVars
  <2>1. Intact => Intact'
    BY <1>3 DEF skillsVars, Intact, CopiesInv, BackupInv, CompleteInv, ProgressInv, Late, Complete,
       ApplyProgress, ReplayProgress, Target, At
  <2>2. FreshInv' /\ (Clean' => Clean)
    BY <1>3 DEF skillsVars, SkillsInv, FreshInv, Clean, At
  <2>3. QED
    BY <1>1, <2>1, <2>2 DEF SkillsInv
<1>4. QED
  BY <1>2, <1>3

\* A project in which the engine was never run.
LEMMA StartTypes ==
    ASSUME SkillsInit
    PROVE  SkillTypes /\ OneInside /\ FreshInv
<1>1. /\ ~ready /\ applied = <<>> /\ tree = [f \in Files |-> IF f \in Shipped THEN {"core"} ELSE {}]
      /\ base = [f \in Files |-> {}] /\ backup = NoBackup /\ tools = {} /\ session = {} /\ lock = NoOwner
      /\ proc = [p \in Procs |-> Idle] /\ before = [applied |-> applied, base |-> base, tree |-> tree]
      /\ holes = {} /\ faults = 0 /\ ready = FALSE
  BY DEF SkillsInit
<1>2. /\ applied \in Seq(Skills) /\ IsInjective(applied) /\ ToSet(applied) = {}
  BY <1>1 DEF IsInjective, ToSet
<1>3. tree \in Trees /\ base \in Trees /\ backup \in [Files -> [copy : SUBSET Atoms, tomb : BOOLEAN]]
  BY <1>1 DEF Trees, Atoms, NoBackup
<1>4. before.base \in Trees /\ before.tree \in Trees /\ before.applied \in Seq(Skills)
  BY <1>1, <1>2, <1>3
<1>5. proc \in [Procs -> Operation] /\ \A p \in Procs : proc[p].pc = "idle"
  BY <1>1, IdleType
<1>6. faults \in 0 .. FaultBound
  BY <1>1, SkillsAssumption
<1>7. SkillTypes
  BY <1>1, <1>2, <1>3, <1>4, <1>5, <1>6 DEF SkillTypes
<1>8. OneInside
  BY <1>5 DEF OneInside, Locked
<1>9. FreshInv
  BY <1>1, <1>5 DEF FreshInv, At
<1>10. QED
  BY <1>7, <1>8, <1>9

\* The invariant holds of such a project.
LEMMA SkillsStart ==
    ASSUME Compatible, SkillsInit
    PROVE  SkillsInv
<1>1. /\ ~ready /\ applied = <<>> /\ tree = [f \in Files |-> IF f \in Shipped THEN {"core"} ELSE {}]
      /\ base = [f \in Files |-> {}] /\ backup = NoBackup
  BY DEF SkillsInit
<1>2. ToSet(applied) = {}
  BY <1>1 DEF ToSet
<1>3. \A p \in Procs : proc[p].pc = "idle"
  BY IdleType DEF SkillsInit
<1>4. \A s \in Skills : \A f \in Modifies[s] : f \in Files /\ f \in Shipped
  BY Manifests DEF Compatible
<1>5. CopiesInv
  BY <1>1, <1>2, <1>4 DEF CopiesInv
<1>6. BackupInv
  BY <1>1, <1>2, <1>4 DEF BackupInv, NoBackup
<1>7. CompleteInv
  BY <1>2 DEF CompleteInv
<1>8. ProgressInv
  BY <1>3 DEF ProgressInv, ApplyProgress, ReplayProgress, At, ApplyPcs
<1>9. QED
  BY <1>5, <1>6, <1>7, <1>8, StartTypes DEF SkillsInv, Intact

\* Whatever applies, uninstalls, rebases and customises, with any skills whose manifests do not undo
\* each other's work and any number of processes, failures and crashes: what is on the list is
\* complete in the files, also after an apply that crashed at any point and whatever followed it;
\* and one process at a time is inside (apply.py, uninstall.py, rebase.py, replay.py, lock.py).
THEOREM SkillsStaySound ==
    ASSUME Compatible
    PROVE  SkillsSpec /\ LockSpec => []SkillsSound
<1>1. SkillsInit => SkillsInv
  BY SkillsStart
<1>2. SkillsInv /\ [SkillsNext]_skillsVars => SkillsInv'
  BY SkillsNextKeeps
<1>3. SkillsInv => SkillsTypeOK /\ AppliedComplete
  <2>1. SUFFICES ASSUME SkillsInv PROVE SkillsTypeOK /\ AppliedComplete
    OBVIOUS
  <2>2. SkillTypes
    BY <2>1 DEF SkillsInv
  <2>3. \A p \in Procs : proc[p] \in Operation
    BY <2>2 DEF SkillTypes
  <2>4. \A p \in Procs : proc[p].op \in {"none", "apply", "uninstall", "rebase"}
    BY <2>3 DEF Operation
  <2>5. SkillsTypeOK
    BY <2>2, <2>4 DEF SkillTypes, SkillsTypeOK, Trees
  <2>6. ASSUME InProgress = {}, Clean PROVE \A s \in ToSet(applied) : Complete(s)
    <3>1. \A p \in Procs : ~At(p, "replay")
      BY <2>6 DEF InProgress, Locked, At
    <3>2. QED
      BY <2>1, <2>6, <3>1 DEF SkillsInv, Intact, CompleteInv
  <2>7. AppliedComplete
    BY <2>6 DEF AppliedComplete, Clean, Complete, ChangedBy
  <2>8. QED
    BY <2>5, <2>7
<1>4. SkillsSpec => [](SkillsTypeOK /\ AppliedComplete)
  BY <1>1, <1>2, <1>3, PTL DEF SkillsSpec
<1>5. SkillsTypeOK /\ AppliedComplete /\ LockExclusive => SkillsSound
  BY DEF SkillsSound
<1>6. QED
  BY <1>4, <1>5, LockExcludes, PTL

-----------------------------------------------------------------------------
(* The skills engine's operations are atomic.  What is on disk in the middle of one is a function
   of what was there when the lock was taken and of how far it is (ExactInv).            *)

\* What create_backup saves of the project as it was when the lock was taken.
Saved(s) ==
    [f \in Files |->
        IF f \notin BackedUp(s) THEN [copy |-> {}, tomb |-> FALSE]
        ELSE IF before.tree[f] # {} THEN [copy |-> before.tree[f], tomb |-> FALSE]
        ELSE [copy |-> {}, tomb |-> TRUE]]

\* List and files as they were, as they are to be, or with some clean copies taken.
AsBefore == applied = before.applied /\ base = before.base /\ tree = before.tree

Installed(s) == [base |-> base, tree |-> tree] = InstallOf(before.base, before.tree, s)

ListedNow(s) == applied = Append(Without(before.applied, s), s)

Attempted(s) ==
    \A f \in Files : \/ base[f] = before.base[f]
                     \/ base[f] = InstallOf(before.base, before.tree, s).base[f]

\* What the backup does not cover is as it was, if the run changes no such file.
RestIntact(s) == NotSaved(s) = {} => \A f \in Files \ BackedUp(s) : tree[f] = before.tree[f]

\* Exactly how far an apply is.
ApplyExact(p) ==
    LET s == proc[p].skill
    IN  /\ At(p, "backup") => AsBefore /\ backup = NoBackup
        /\ At(p, "adds") => AsBefore
        /\ proc[p].pc \in ApplyPcs \ {"backup", "clear"} => backup = Saved(s)
        /\ proc[p].pc \in {"merge", "post", "record", "rollback"} => applied = before.applied
        /\ At(p, "merge") =>
              /\ proc[p].todo \subseteq Modifies[s]
              /\ [base |-> base, tree |-> tree] =
                    MergeModified(before.base, FileOpsAndAdds(before.tree, s), s, Modifies[s] \ proc[p].todo)
        /\ proc[p].pc \in {"post", "record", "test", "unrecord"} => Installed(s)
        /\ proc[p].pc \in {"test", "unrecord"} => ListedNow(s)
        /\ At(p, "rollback") => Attempted(s) /\ RestIntact(s)
        /\ At(p, "clear") => \/ applied = before.applied /\ tree = before.tree /\ Attempted(s)
                             \/ ListedNow(s) /\ Installed(s)

\* The list that a replay started with, and exactly how far it is.
WholeList(p) ==
    IF proc[p].op = "uninstall" THEN Without(before.applied, proc[p].skill) ELSE before.applied

ReplayExact(p) ==
    /\ At(p, "reset") => AsBefore /\ backup = NoBackup /\ proc[p].list = WholeList(p)
    /\ At(p, "replay") =>
          /\ applied = before.applied /\ backup = NoBackup
          /\ \E n \in 0 .. Len(WholeList(p)) :
                /\ proc[p].list = SubSeq(WholeList(p), n + 1, Len(WholeList(p)))
                /\ [base |-> base, tree |-> tree] = Replayed(before.base, before.tree, WholeList(p))[n]

\* As long as nothing happened that the engine does not cover.
Exact == (InProgress = {} => backup = NoBackup) /\ \A p \in Procs : ApplyExact(p) /\ ReplayExact(p)

ExactInv == holes = {} => Exact

\* Taking a skill off the list that was just put there.
LEMMA LastGone ==
    ASSUME NEW list \in Seq(Skills), NEW s \in Skills, s \notin ToSet(list)
    PROVE  Without(list, s) = list /\ Without(Append(list, s), s) = list
<1>1. Without(list, s) = list
  BY DEF Without
<1>2. PICK long : long = Append(list, s)
  OBVIOUS
<1>3. /\ long \in Seq(Skills) /\ Len(long) = Len(list) + 1 /\ Len(list) \in Nat
      /\ \A j \in 1 .. Len(list) : long[j] = list[j]
      /\ long[Len(list) + 1] = s
  BY <1>2
<1>4. \A j \in 1 .. Len(list) : list[j] # s
  BY DEF ToSet
<1>5. PICK i : i = (CHOOSE j \in DOMAIN long : long[j] = s)
  OBVIOUS
<1>6. Len(list) + 1 \in DOMAIN long /\ DOMAIN long = 1 .. Len(list) + 1
  BY <1>3
<1>7. i \in DOMAIN long /\ long[i] = s
  BY <1>3, <1>5, <1>6
<1>8. i = Len(list) + 1
  BY <1>3, <1>4, <1>6, <1>7
<1>9. s \in ToSet(long) /\ Without(long, s) = RemoveAt(long, i)
  BY <1>3, <1>5, <1>6 DEF ToSet, Without
<1>10. PICK rest : rest = RemoveAt(long, i)
  OBVIOUS
<1>11. i \in 1 .. Len(long)
  BY <1>6, <1>7, <1>3
<1>12. /\ rest \in Seq(Skills) /\ Len(rest) = Len(long) - 1
       /\ \A j \in 1 .. (Len(long) - 1) : rest[j] = IF j < i THEN long[j] ELSE long[j + 1]
  BY <1>3, <1>10, <1>11, Cut
<1>13. Len(rest) = Len(list) /\ \A j \in 1 .. Len(list) : rest[j] = list[j]
  BY <1>3, <1>8, <1>12
<1>14. rest = list
  BY <1>12, <1>13
<1>15. QED
  BY <1>1, <1>2, <1>9, <1>10, <1>14

\* What can be shown for a number by the least number for which it fails.
LEMMA LeastFailing ==
    ASSUME NEW T \in SUBSET Nat, T # {}
    PROVE  \E n \in T : \A m \in T : n <= m
<1>1. PICK n \in T : \A m \in T : <<m, n>> \notin OpToRel(<, Nat)
  BY NatLessThanWellFounded, WFMin
<1>2. ASSUME NEW m \in T PROVE n <= m
  <2>1. ~(m < n)
    BY <1>1 DEF OpToRel
  <2>2. QED
    BY <2>1
<1>3. QED
  BY <1>2

\* The stages of a replay: the files as they were reset, and one skill after the other.
LEMMA ReplayStages ==
    ASSUME NEW b, NEW t, NEW list \in Seq(Skills)
    PROVE  /\ Replayed(b, t, list)[0] = [base |-> b, tree |-> ResetTouched(b, t, list)]
           /\ \A n \in 1 .. Len(list) :
                 Replayed(b, t, list)[n] =
                     ReplayOne(Replayed(b, t, list)[n - 1].base, Replayed(b, t, list)[n - 1].tree, list[n])
<1> DEFINE Start == [base |-> b, tree |-> ResetTouched(b, t, list)]
           StagesTo(r, m) == /\ r = [n \in 0 .. m |-> r[n]]
                         /\ r[0] = Start
                         /\ \A n \in 1 .. m : r[n] = ReplayOne(r[n - 1].base, r[n - 1].tree, list[n])
           Short == {m \in 0 .. Len(list) : ~ \E r : StagesTo(r, m)}
<1>1. Short = {}
  <2>1. SUFFICES ASSUME Short # {} PROVE FALSE
    OBVIOUS
  <2>2. Short \in SUBSET Nat
    OBVIOUS
  <2>3. PICK m \in Short : \A k \in Short : m <= k
    BY <2>1, <2>2, LeastFailing
  <2>4. CASE m = 0
    <3>1. PICK r : r = [n \in 0 .. 0 |-> Start]
      OBVIOUS
    <3>2. StagesTo(r, 0)
      BY <3>1
    <3>3. QED
      BY <2>3, <2>4, <3>2
  <2>5. CASE m # 0
    <3>1. m \in Nat /\ m - 1 \in 0 .. Len(list) /\ m - 1 \notin Short
      <4>1. m \in 0 .. Len(list)
        BY <2>3
      <4>2. m \in Nat /\ m - 1 \in 0 .. Len(list) /\ ~(m <= m - 1)
        BY <2>5, <4>1
      <4> HIDE DEF Short
      <4>3. QED
        BY <2>3, <4>2
    <3>2. PICK r : StagesTo(r, m - 1)
      BY <3>1
    <3>3. PICK u : u = [n \in 0 .. m |-> IF n < m THEN r[n]
                                        ELSE ReplayOne(r[m - 1].base, r[m - 1].tree, list[m])]
      OBVIOUS
    <3>4. u[0] = Start /\ u = [n \in 0 .. m |-> u[n]]
      BY <2>5, <3>1, <3>2, <3>3
    <3>5. ASSUME NEW n \in 1 .. m PROVE u[n] = ReplayOne(u[n - 1].base, u[n - 1].tree, list[n])
      <4>1. u[n - 1] = r[n - 1]
        BY <3>1, <3>3
      <4>2. CASE n < m
        <5>1. u[n] = r[n] /\ n \in 1 .. (m - 1)
          BY <3>1, <3>3, <4>2
        <5>2. \A k \in 1 .. (m - 1) : r[k] = ReplayOne(r[k - 1].base, r[k - 1].tree, list[k])
          BY <3>2
        <5>3. r[n] = ReplayOne(r[n - 1].base, r[n - 1].tree, list[n])
          BY <5>1, <5>2
        <5>4. QED
          BY <4>1, <5>1, <5>3
      <4>3. CASE n = m
        BY <3>1, <3>3, <4>1, <4>3
      <4>4. QED
        BY <3>1, <4>2, <4>3
    <3>6. StagesTo(u, m)
      BY <3>4, <3>5
    <3>7. QED
      BY <2>3, <3>6
  <2>6. QED
    BY <2>4, <2>5
<1>2. PICK r : StagesTo(r, Len(list))
  BY <1>1
<1>3. r = [n \in 0 .. Len(list) |-> IF n = 0 THEN Start
                                    ELSE ReplayOne(r[n - 1].base, r[n - 1].tree, list[n])]
  <2>1. \A n \in 0 .. Len(list) : n = 0 \/ n \in 1 .. Len(list)
    OBVIOUS
  <2>2. r = [n \in 0 .. Len(list) |-> r[n]]
    BY <1>2
  <2>3. QED
    BY <1>2, <2>1, <2>2
<1>4. PICK a : a = Replayed(b, t, list)
  OBVIOUS
<1>5. a = CHOOSE after : after = [n \in 0 .. Len(list) |->
                 IF n = 0 THEN Start ELSE ReplayOne(after[n - 1].base, after[n - 1].tree, list[n])]
  BY <1>4 DEF Replayed
<1>6. a = [n \in 0 .. Len(list) |-> IF n = 0 THEN Start
                                    ELSE ReplayOne(a[n - 1].base, a[n - 1].tree, list[n])]
  BY <1>3, <1>5
<1>7. QED
  BY <1>4, <1>6

\* Merging files one at a time.
LEMMA MergeOneMore ==
    ASSUME NEW b \in Trees, NEW t \in Trees, NEW s \in Skills, NEW fs, NEW f, f \notin fs,
           NEW m, m = MergeModified(b, t, s, fs)
    PROVE  MergeModified(m.base, m.tree, s, {f}) = MergeModified(b, t, s, fs \cup {f})
<1>1. \A g \in Files : /\ m.base[g] = IF g \in fs THEN CleanCopy(b, t, g) ELSE b[g]
                       /\ m.tree[g] = IF g \in fs THEN MergedFile(b, t, s, g) ELSE t[g]
  BY DEF MergeModified
<1>2. ASSUME NEW g \in Files, g = f
      PROVE  /\ CleanCopy(m.base, m.tree, g) = CleanCopy(b, t, g)
             /\ MergedFile(m.base, m.tree, s, g) = MergedFile(b, t, s, g)
  BY <1>1, <1>2 DEF CleanCopy, MergedFile
<1>3. \A g \in Files :
        /\ (IF g \in {f} THEN CleanCopy(m.base, m.tree, g) ELSE m.base[g])
              = (IF g \in fs \cup {f} THEN CleanCopy(b, t, g) ELSE b[g])
        /\ (IF g \in {f} THEN MergedFile(m.base, m.tree, s, g) ELSE m.tree[g])
              = (IF g \in fs \cup {f} THEN MergedFile(b, t, s, g) ELSE t[g])
  BY <1>1, <1>2
<1>4. QED
  BY <1>3 DEF MergeModified

\* Merging no file.
LEMMA MergeNothing ==
    ASSUME NEW b \in Trees, NEW t \in Trees, NEW s
    PROVE  MergeModified(b, t, s, {}) = [base |-> b, tree |-> t]
  BY DEF MergeModified, Trees

\* The owner of the lock has got exactly as far as it says, or nobody is inside.
LEMMA OneExact ==
    ASSUME OneInside, NEW p \in Procs, Locked(p), \A q \in Procs : q # p => proc'[q] = proc[q],
           ApplyExact(p)', ReplayExact(p)', Locked(p)' \/ backup' = NoBackup
    PROVE  Exact'
<1>1. \A q \in Procs : q # p => proc'[q].pc \in {"idle", "lock"}
  BY Alone DEF Locked
<1>2. ASSUME NEW q \in Procs, q # p PROVE ApplyExact(q)' /\ ReplayExact(q)'
  <2>1. proc'[q].pc \in {"idle", "lock"}
    BY <1>1, <1>2
  <2>2. QED
    BY <2>1 DEF ApplyExact, ReplayExact, At, ApplyPcs
<1>3. InProgress' = {} => backup' = NoBackup
  BY DEF InProgress
<1>4. QED
  BY <1>2, <1>3 DEF Exact

\* With nobody inside and no backup there is nothing to say.
LEMMA NobodyExact ==
    ASSUME \A q \in Procs : ~Locked(q)', backup' = NoBackup
    PROVE  Exact'
<1>1. \A q \in Procs : proc'[q].pc \in {"idle", "lock"}
  BY DEF Locked
<1>2. ASSUME NEW q \in Procs PROVE ApplyExact(q)' /\ ReplayExact(q)'
  BY <1>1 DEF ApplyExact, ReplayExact, At, ApplyPcs
<1>3. QED
  BY <1>2 DEF Exact

\* Outside the lock.
LEMMA QuietExact ==
    ASSUME Exact, NEW p \in Procs, \A q \in Procs : q # p => proc'[q] = proc[q],
           Outside(p), Outside(p)', UNCHANGED <<applied, tree, base, backup, before>>
    PROVE  Exact' /\ InProgress' = InProgress
<1>1. \A q \in Procs : Locked(q)' <=> Locked(q)
  BY DEF Outside, Locked
<1>2. InProgress' = InProgress
  BY <1>1 DEF InProgress
<1>3. ASSUME NEW q \in Procs PROVE ApplyExact(q)' /\ ReplayExact(q)'
  <2>1. CASE q = p
    BY <2>1 DEF Outside, ApplyExact, ReplayExact, At, ApplyPcs
  <2>2. CASE q # p
    <3>1. ApplyExact(q) /\ ReplayExact(q) /\ proc'[q] = proc[q]
      BY <2>2 DEF Exact
    <3>2. ApplyExact(q)'
      BY <3>1 DEF ApplyExact, At, AsBefore, Installed, ListedNow, Attempted, RestIntact, Saved
    <3>3. ReplayExact(q)'
      BY <3>1 DEF ReplayExact, At, AsBefore, WholeList
    <3>4. QED
      BY <3>2, <3>3
  <2>3. QED
    BY <2>1, <2>2
<1>4. QED
  BY <1>2, <1>3 DEF Exact

\* A step of the owner of the lock that keeps it is none that anybody sees.
LEMMA Unseen ==
    ASSUME NEW p \in Procs, Locked(p), Locked(p)', before' = before, holes = {}, holes' = {}
    PROVE  UNCHANGED Atomic!atomicVars
<1>1. InProgress # {} /\ InProgress' # {}
  BY DEF InProgress
<1>2. QED
  BY <1>1 DEF Atomic!atomicVars, Visible

\* What a step of an apply finds.
LEMMA ApplyingExactly ==
    ASSUME SkillTypes, OneInside, Exact, NEW p \in Procs, proc[p].pc \in ApplyPcs
    PROVE  /\ Locked(p) /\ proc \in [Procs -> Operation] /\ proc[p] \in Operation
           /\ proc[p].op = "apply" /\ proc[p].skill \in Skills
           /\ tree \in Trees /\ base \in Trees /\ before.tree \in Trees /\ before.base \in Trees
           /\ ApplyExact(p)
           /\ \A label : Goto(p, label) => proc'[p].pc = label /\ proc'[p].todo = proc[p].todo
<1>1. proc \in [Procs -> Operation] /\ proc[p] \in Operation
  BY DEF SkillTypes
<1>2. proc[p].op = "apply" /\ proc[p].skill \in Skills
  BY <1>1 DEF Operation
<1>3. Locked(p)
  BY DEF Locked, ApplyPcs
<1>4. ApplyExact(p)
  BY DEF Exact
<1>5. ASSUME NEW label, Goto(p, label) PROVE proc'[p].pc = label /\ proc'[p].todo = proc[p].todo
  <2>1. proc' = [proc EXCEPT ![p].pc = label]
    BY <1>5 DEF Goto
  <2>2. QED
    BY <1>1, <2>1 DEF Operation
<1>6. tree \in Trees /\ base \in Trees /\ before.tree \in Trees /\ before.base \in Trees
  BY DEF SkillTypes
<1>7. QED
  BY <1>1, <1>2, <1>3, <1>4, <1>5, <1>6

\* The backup covers all that an apply may change when it changes no file but those saved;
\* half an apply has taken some of the clean copies that the whole one takes.
LEMMA HalfApplied ==
    ASSUME NEW b \in Trees, NEW t \in Trees, NEW s \in Skills, NEW fs \in SUBSET Modifies[s],
           NEW m, m = MergeModified(b, FileOpsAndAdds(t, s), s, fs)
    PROVE  /\ \A f \in Files : m.base[f] \in {b[f], InstallOf(b, t, s).base[f]}
           /\ NotSaved(s) = {} => \A f \in Files \ BackedUp(s) :
                  m.tree[f] = t[f] /\ InstallOf(b, t, s).tree[f] = t[f]
<1>1. PICK mid : mid = FileOpsAndAdds(t, s)
  OBVIOUS
<1>2. \A f \in Files : mid[f] = IF f \in Adds[s] THEN {s} ELSE IF f \in Deletes[s] THEN {} ELSE t[f]
  BY <1>1 DEF FileOpsAndAdds
<1>3. \A f \in Files : /\ m.base[f] = IF f \in fs THEN CleanCopy(b, mid, f) ELSE b[f]
                       /\ m.tree[f] = IF f \in fs THEN MergedFile(b, mid, s, f) ELSE mid[f]
  BY <1>1 DEF MergeModified
<1>4. PICK whole : whole = MergeModified(b, mid, s, Modifies[s])
  OBVIOUS
<1>5. \A f \in Files : /\ whole.base[f] = IF f \in Modifies[s] THEN CleanCopy(b, mid, f) ELSE b[f]
                       /\ whole.tree[f] = IF f \in Modifies[s] THEN MergedFile(b, mid, s, f) ELSE mid[f]
  BY <1>4 DEF MergeModified
<1>6. InstallOf(b, t, s) = [base |-> whole.base, tree |-> MergeStructured(whole.tree, {s})]
  BY <1>1, <1>4 DEF InstallOf, MergeAll
<1>7. \A f \in Files : InstallOf(b, t, s).base[f] = whole.base[f]
  BY <1>6
<1>8. \A f \in Files : InstallOf(b, t, s).tree[f] = whole.tree[f] \cup {r \in {s} : f \in Structured[r]}
  BY <1>6 DEF MergeStructured
<1>9. ASSUME NEW f \in Files PROVE m.base[f] \in {b[f], InstallOf(b, t, s).base[f]}
  BY <1>3, <1>5, <1>7
<1>10. ASSUME NotSaved(s) = {}, NEW f \in Files \ BackedUp(s)
       PROVE  m.tree[f] = t[f] /\ InstallOf(b, t, s).tree[f] = t[f]
  <2>1. f \notin Adds[s] /\ f \notin Modifies[s] /\ f \notin Deletes[s] /\ f \notin Structured[s]
    BY <1>10 DEF NotSaved, BackedUp
  <2>2. mid[f] = t[f]
    BY <1>2, <2>1
  <2>3. {r \in {s} : f \in Structured[r]} = {}
    BY <2>1
  <2>4. whole.tree[f] = t[f] /\ m.tree[f] = t[f]
    BY <1>3, <1>5, <2>1, <2>2
  <2>5. InstallOf(b, t, s).tree[f] = whole.tree[f] \cup {}
    BY <1>8, <2>3
  <2>6. QED
    BY <2>4, <2>5
<1>11. QED
  BY <1>9, <1>10

\* The entry of a file in a backup that had none.
LEMMA NewEntry ==
    ASSUME NEW r, r = [copy |-> {}, tomb |-> FALSE], NEW c
    PROVE  /\ [r EXCEPT !.copy = c] = [copy |-> c, tomb |-> FALSE]
           /\ [r EXCEPT !.tomb = TRUE] = [copy |-> {}, tomb |-> TRUE]
<1>1. PICK u : u = [r EXCEPT !.copy = c]
  OBVIOUS
<1>2. u.copy = c /\ u.tomb = FALSE
  BY <1>1
<1>3. u = [x \in {"copy", "tomb"} |-> u[x]]
  BY <1>1
<1>4. u = [copy |-> c, tomb |-> FALSE]
  BY <1>2, <1>3
<1>5. PICK v : v = [r EXCEPT !.tomb = TRUE]
  OBVIOUS
<1>6. v.copy = {} /\ v.tomb = TRUE
  BY <1>5
<1>7. v = [x \in {"copy", "tomb"} |-> v[x]]
  BY <1>5
<1>8. v = [copy |-> {}, tomb |-> TRUE]
  BY <1>6, <1>7
<1>9. QED
  BY <1>1, <1>4, <1>5, <1>8

\* The parts of an apply up to the merges.
LEMMA SaveExact ==
    ASSUME SkillTypes, OneInside, Exact, NEW p \in Procs, SaveFiles(p)
    PROVE  Exact' /\ Locked(p) /\ Locked(p)'
<1>1. proc[p].pc = "backup" /\ backup' = CreateBackup(proc[p].skill) /\ Goto(p, "adds")
      /\ UNCHANGED <<applied, tree, base, before>>
  BY DEF SaveFiles, At
<1>2. /\ Locked(p) /\ proc[p].skill \in Skills /\ ApplyExact(p) /\ proc'[p].pc = "adds"
  BY <1>1, ApplyingExactly DEF ApplyPcs
<1>3. /\ \A q \in Procs : q # p => proc'[q] = proc[q]
      /\ proc'[p].skill = proc[p].skill
  BY InnerTypes
<1>4. AsBefore /\ backup = NoBackup
  BY <1>1, <1>2 DEF ApplyExact, At
<1>5. CreateBackup(proc[p].skill) = Saved(proc[p].skill)
  <2>1. tree = before.tree /\ \A f \in Files : backup[f] = [copy |-> {}, tomb |-> FALSE]
    BY <1>4 DEF AsBefore, NoBackup
  <2>2. ASSUME NEW f \in Files
        PROVE  (IF tree[f] # {} THEN [backup[f] EXCEPT !.copy = tree[f]] ELSE [backup[f] EXCEPT !.tomb = TRUE])
                   = (IF before.tree[f] # {} THEN [copy |-> before.tree[f], tomb |-> FALSE]
                      ELSE [copy |-> {}, tomb |-> TRUE])
    <3>1. tree[f] = before.tree[f] /\ backup[f] = [copy |-> {}, tomb |-> FALSE]
      BY <2>1
    <3>2. /\ [backup[f] EXCEPT !.copy = tree[f]] = [copy |-> tree[f], tomb |-> FALSE]
          /\ [backup[f] EXCEPT !.tomb = TRUE] = [copy |-> {}, tomb |-> TRUE]
      BY <3>1, NewEntry
    <3>3. QED
      BY <3>1, <3>2
  <2>3. \A f \in Files : backup[f] = [copy |-> {}, tomb |-> FALSE]
    BY <2>1
  <2>4. QED
    BY <2>2, <2>3 DEF CreateBackup, Saved
<1>6. Saved(proc[p].skill)' = Saved(proc[p].skill) /\ AsBefore'
  BY <1>1, <1>3, <1>4 DEF Saved, AsBefore
<1>7. ApplyExact(p)'
  BY <1>1, <1>2, <1>3, <1>5, <1>6 DEF ApplyExact, At
<1>8. ReplayExact(p)' /\ Locked(p)'
  BY <1>2 DEF ReplayExact, At, Locked
<1>9. QED
  BY <1>2, <1>3, <1>7, <1>8, OneExact

\* File operations and the files of add/, of which a failure leaves nothing.
LEMMA CopyAddsExact ==
    ASSUME SkillTypes, OneInside, Exact, NEW p \in Procs, CopyAdds(p)
    PROVE  Exact' /\ Locked(p) /\ Locked(p)'
<1>1. proc[p].pc = "adds" /\ UNCHANGED <<applied, base, backup, before>>
  BY DEF CopyAdds, At
<1>2. PICK s : s = proc[p].skill
  OBVIOUS
<1>3. /\ Locked(p) /\ s \in Skills /\ ApplyExact(p) /\ proc \in [Procs -> Operation] /\ proc[p] \in Operation
      /\ tree \in Trees /\ base \in Trees
      /\ \A label : Goto(p, label) => proc'[p].pc = label
  BY <1>1, <1>2, ApplyingExactly DEF ApplyPcs
<1>4. /\ \A q \in Procs : q # p => proc'[q] = proc[q]
      /\ proc'[p].skill = s
  BY <1>2, InnerTypes
<1>5. AsBefore /\ backup = Saved(s)
  BY <1>1, <1>2, <1>3 DEF ApplyExact, At, ApplyPcs
<1>6. backup' = Saved(s)' /\ applied' = before'.applied
  BY <1>1, <1>5 DEF Saved, AsBefore
<1>7. CASE tree' = FileOpsAndAdds(tree, s) /\ proc' = [proc EXCEPT ![p].pc = "merge", ![p].todo = Modifies[s]]
  <2>1. proc'[p].pc = "merge" /\ proc'[p].todo = Modifies[s]
    BY <1>3, <1>7 DEF Operation
  <2>2. FileOpsAndAdds(tree, s) \in Trees
    BY <1>3, TreeOperations
  <2>3. MergeModified(base, FileOpsAndAdds(tree, s), s, {}) = [base |-> base, tree |-> FileOpsAndAdds(tree, s)]
    BY <1>3, <2>2, MergeNothing
  <2>4. base = before.base /\ tree = before.tree
    BY <1>5 DEF AsBefore
  <2>5. Modifies[s] \ Modifies[s] = {}
    OBVIOUS
  <2>6. [base |-> base', tree |-> tree'] =
            MergeModified(before'.base, FileOpsAndAdds(before'.tree, s), s, Modifies[s] \ Modifies[s])
    BY <1>1, <1>7, <2>3, <2>4, <2>5
  <2>7. ApplyExact(p)'
    BY <1>4, <1>6, <2>1, <2>6 DEF ApplyExact, At
  <2>8. ReplayExact(p)' /\ Locked(p)'
    BY <2>1 DEF ReplayExact, At, Locked
  <2>9. QED
    BY <1>3, <1>4, <2>7, <2>8, OneExact
<1>8. CASE Goto(p, "rollback") /\ UNCHANGED tree
  <2>1. proc'[p].pc = "rollback"
    BY <1>3, <1>8
  <2>2. Attempted(s)' /\ RestIntact(s)'
    BY <1>1, <1>5, <1>8 DEF AsBefore, Attempted, RestIntact
  <2>3. ApplyExact(p)'
    BY <1>4, <1>6, <2>1, <2>2 DEF ApplyExact, At
  <2>4. ReplayExact(p)' /\ Locked(p)'
    BY <2>1 DEF ReplayExact, At, Locked
  <2>5. QED
    BY <1>3, <1>4, <2>3, <2>4, OneExact
<1>9. QED
  BY <1>2, <1>7, <1>8 DEF CopyAdds

\* Some merges done, and the apply to be undone.
LEMMA MergesGivenUp ==
    ASSUME NEW p \in Procs, NEW s \in Skills, NEW fs \in SUBSET Modifies[s],
           before.tree \in Trees, before.base \in Trees,
           [base |-> base', tree |-> tree'] = MergeModified(before.base, FileOpsAndAdds(before.tree, s), s, fs),
           proc'[p].pc = "rollback", proc'[p].skill = s, applied = before.applied, backup = Saved(s),
           UNCHANGED <<applied, backup, before>>
    PROVE  ApplyExact(p)' /\ ReplayExact(p)' /\ Locked(p)'
<1>1. PICK m : m = MergeModified(before.base, FileOpsAndAdds(before.tree, s), s, fs)
  OBVIOUS
<1>2. base' = m.base /\ tree' = m.tree
  BY <1>1
<1>3. /\ \A f \in Files : m.base[f] \in {before.base[f], InstallOf(before.base, before.tree, s).base[f]}
      /\ NotSaved(s) = {} => \A f \in Files \ BackedUp(s) : m.tree[f] = before.tree[f]
  BY <1>1, HalfApplied
<1>4. Attempted(s)' /\ RestIntact(s)'
  BY <1>2, <1>3 DEF Attempted, RestIntact
<1>5. backup' = Saved(s)'
  BY DEF Saved
<1>6. QED
  BY <1>4, <1>5 DEF ApplyExact, ReplayExact, At, Locked

\* A merge, one that conflicts, and one that fails.
LEMMA MergeNextExact ==
    ASSUME SkillTypes, OneInside, Exact, NEW p \in Procs, MergeNext(p)
    PROVE  Exact' /\ Locked(p) /\ Locked(p)'
<1>1. proc[p].pc = "merge" /\ UNCHANGED <<applied, backup, before>>
  BY DEF MergeNext, At
<1>2. PICK s : s = proc[p].skill
  OBVIOUS
<1>3. /\ Locked(p) /\ s \in Skills /\ ApplyExact(p) /\ proc \in [Procs -> Operation] /\ proc[p] \in Operation
      /\ before.tree \in Trees /\ before.base \in Trees
      /\ \A label : Goto(p, label) => proc'[p].pc = label
  BY <1>1, <1>2, ApplyingExactly DEF ApplyPcs
<1>4. /\ \A q \in Procs : q # p => proc'[q] = proc[q]
      /\ proc'[p].skill = s
  BY <1>2, InnerTypes
<1>5. PICK todo : todo = proc[p].todo
  OBVIOUS
<1>6. PICK old : old = FileOpsAndAdds(before.tree, s)
  OBVIOUS
<1>7. /\ backup = Saved(s) /\ applied = before.applied /\ todo \subseteq Modifies[s]
      /\ [base |-> base, tree |-> tree] = MergeModified(before.base, old, s, Modifies[s] \ todo)
  BY <1>1, <1>2, <1>3, <1>5, <1>6 DEF ApplyExact, At, ApplyPcs
<1>8. old \in Trees
  BY <1>3, <1>6, TreeOperations
<1>9. PICK f \in todo :
         LET merged == MergeModified(base, tree, s, {f})
         IN  \/ /\ base' = merged.base /\ tree' = merged.tree
                /\ proc' = [proc EXCEPT ![p].todo = @ \ {f}]
             \/ /\ base' = merged.base /\ tree' = merged.tree /\ Goto(p, "rollback")
             \/ Goto(p, "rollback") /\ UNCHANGED <<base, tree>>
  BY <1>2, <1>5 DEF MergeNext
<1>10. PICK m : m = MergeModified(before.base, old, s, Modifies[s] \ todo)
  OBVIOUS
<1>11. m.base = base /\ m.tree = tree
  BY <1>7, <1>10
<1>12. MergeModified(base, tree, s, {f}) = MergeModified(before.base, old, s, (Modifies[s] \ todo) \cup {f})
  <2>1. PICK done : done = Modifies[s] \ todo
    OBVIOUS
  <2>2. f \notin done /\ m = MergeModified(before.base, old, s, done)
    BY <1>10, <2>1
  <2>3. MergeModified(m.base, m.tree, s, {f}) = MergeModified(before.base, old, s, done \cup {f})
    <3>1. PICK b : b = before.base
      OBVIOUS
    <3>2. b \in Trees /\ old \in Trees /\ s \in Skills /\ m = MergeModified(b, old, s, done) /\ f \notin done
      BY <1>3, <1>8, <2>2, <3>1
    <3>3. MergeModified(m.base, m.tree, s, {f}) = MergeModified(b, old, s, done \cup {f})
      BY <3>2, MergeOneMore
    <3>4. QED
      BY <3>1, <3>3
  <2>4. QED
    BY <1>11, <2>1, <2>3
<1>13. (Modifies[s] \ todo) \cup {f} = Modifies[s] \ (todo \ {f})
  BY <1>7
<1>14. PICK fs : fs = Modifies[s] \ (todo \ {f})
  OBVIOUS
<1>15. ASSUME base' = MergeModified(base, tree, s, {f}).base, tree' = MergeModified(base, tree, s, {f}).tree
       PROVE  [base |-> base', tree |-> tree'] = MergeModified(before.base, old, s, fs)
  <2>1. PICK u : u = MergeModified(before.base, old, s, fs)
    OBVIOUS
  <2>2. base' = u.base /\ tree' = u.tree
    BY <1>12, <1>13, <1>14, <1>15, <2>1
  <2>3. u = [base |-> u.base, tree |-> u.tree]
    BY <2>1 DEF MergeModified
  <2>4. QED
    BY <2>1, <2>2, <2>3
<1>16. CASE /\ base' = MergeModified(base, tree, s, {f}).base /\ tree' = MergeModified(base, tree, s, {f}).tree
            /\ proc' = [proc EXCEPT ![p].todo = @ \ {f}]
  <2>1. proc'[p].pc = "merge" /\ proc'[p].todo = todo \ {f}
    BY <1>1, <1>3, <1>5, <1>16 DEF Operation
  <2>2. [base |-> base', tree |-> tree'] =
            MergeModified(before'.base, FileOpsAndAdds(before'.tree, s), s, Modifies[s] \ (todo \ {f}))
    BY <1>1, <1>6, <1>14, <1>15, <1>16
  <2>3. backup' = Saved(s)' /\ applied' = before'.applied /\ todo \ {f} \subseteq Modifies[s]
    BY <1>1, <1>7 DEF Saved
  <2>4. ApplyExact(p)'
    BY <1>4, <2>1, <2>2, <2>3 DEF ApplyExact, At
  <2>5. ReplayExact(p)' /\ Locked(p)'
    BY <2>1 DEF ReplayExact, At, Locked
  <2>6. QED
    BY <1>3, <1>4, <2>4, <2>5, OneExact
<1>17. CASE /\ base' = MergeModified(base, tree, s, {f}).base /\ tree' = MergeModified(base, tree, s, {f}).tree
            /\ Goto(p, "rollback")
  <2>1. proc'[p].pc = "rollback" /\ fs \in SUBSET Modifies[s]
    BY <1>3, <1>14, <1>17
  <2>2. ApplyExact(p)' /\ ReplayExact(p)' /\ Locked(p)'
    BY <1>1, <1>3, <1>4, <1>6, <1>7, <1>15, <1>17, <2>1, MergesGivenUp
  <2>3. QED
    BY <1>3, <1>4, <2>2, OneExact
<1>18. CASE Goto(p, "rollback") /\ UNCHANGED <<base, tree>>
  <2>1. proc'[p].pc = "rollback" /\ Modifies[s] \ todo \in SUBSET Modifies[s]
    BY <1>3, <1>18
  <2>2. [base |-> base', tree |-> tree'] = MergeModified(before.base, FileOpsAndAdds(before.tree, s), s, Modifies[s] \ todo)
    BY <1>6, <1>7, <1>18
  <2>3. ApplyExact(p)' /\ ReplayExact(p)' /\ Locked(p)'
    BY <1>1, <1>3, <1>4, <1>7, <2>1, <2>2, MergesGivenUp
  <2>4. QED
    BY <1>3, <1>4, <2>3, OneExact
<1>19. QED
  BY <1>9, <1>16, <1>17, <1>18

\* What a whole apply leaves, the backup covers.
LEMMA InstalledIsCovered ==
    ASSUME NEW s \in Skills, before.tree \in Trees, before.base \in Trees, Installed(s)
    PROVE  Attempted(s) /\ RestIntact(s)
<1>1. PICK whole : whole = InstallOf(before.base, before.tree, s)
  OBVIOUS
<1>2. base = whole.base /\ tree = whole.tree
  BY <1>1 DEF Installed
<1>3. PICK m : m = MergeModified(before.base, FileOpsAndAdds(before.tree, s), s, {})
  OBVIOUS
<1>4. {} \in SUBSET Modifies[s]
  OBVIOUS
<1>5. NotSaved(s) = {} => \A f \in Files \ BackedUp(s) :
          InstallOf(before.base, before.tree, s).tree[f] = before.tree[f]
  BY <1>3, <1>4, HalfApplied
<1>6. QED
  BY <1>1, <1>2, <1>5 DEF Attempted, RestIntact

\* The parts of an apply after the merges.
LEMMA ApplyEndExact ==
    ASSUME SkillTypes, OneInside, Exact, holes' = {}, NEW p \in Procs,
           MergesDone(p) \/ PostApply(p) \/ RecordSkillApplication(p) \/ RunTest(p)
    PROVE  Exact' /\ Locked(p) /\ Locked(p)'
<1>1. proc[p].pc \in {"merge", "post", "record", "test"} /\ UNCHANGED <<base, backup, before>>
  BY DEF MergesDone, PostApply, RecordSkillApplication, RunTest, At
<1>2. PICK s : s = proc[p].skill
  OBVIOUS
<1>3. /\ Locked(p) /\ s \in Skills /\ ApplyExact(p)
      /\ before.tree \in Trees /\ before.base \in Trees
      /\ \A label : Goto(p, label) => proc'[p].pc = label
  BY <1>1, <1>2, ApplyingExactly DEF ApplyPcs
<1>4. /\ \A q \in Procs : q # p => proc'[q] = proc[q]
      /\ proc'[p].skill = s
  BY <1>2, InnerTypes
<1>5. backup = Saved(s) /\ Saved(s)' = Saved(s)
  BY <1>1, <1>2, <1>3 DEF ApplyExact, ApplyPcs, Saved
<1>6. CASE MergesDone(p)
  <2>1. PICK old : old = FileOpsAndAdds(before.tree, s)
    OBVIOUS
  <2>2. /\ proc[p].todo = {} /\ applied = before.applied /\ applied' = applied
        /\ tree' = MergeStructured(tree, {s})
        /\ [base |-> base, tree |-> tree] = MergeModified(before.base, old, s, Modifies[s] \ proc[p].todo)
    BY <1>2, <1>3, <1>6, <2>1 DEF ApplyExact, MergesDone, At
  <2>3. PICK merged : merged = MergeModified(before.base, old, s, Modifies[s])
    OBVIOUS
  <2>4. Modifies[s] \ {} = Modifies[s]
    OBVIOUS
  <2>5. merged.base = base /\ merged.tree = tree
    BY <2>2, <2>3, <2>4
  <2>6. InstallOf(before.base, before.tree, s) = [base |-> merged.base, tree |-> MergeStructured(merged.tree, {s})]
    BY <2>1, <2>3 DEF InstallOf, MergeAll
  <2>7. Installed(s)'
    BY <1>1, <2>2, <2>5, <2>6 DEF Installed
  <2>8. proc'[p].pc \in {"post", "record"}
    BY <1>3, <1>6 DEF MergesDone
  <2>9. ApplyExact(p)' /\ ReplayExact(p)' /\ Locked(p)'
    BY <1>1, <1>4, <1>5, <2>2, <2>7, <2>8 DEF ApplyExact, ReplayExact, At, Locked
  <2>10. QED
    BY <1>3, <1>4, <2>9, OneExact
<1>7. CASE PostApply(p)
  <2>1. applied = before.applied /\ Installed(s) /\ UNCHANGED <<applied, tree>>
    BY <1>2, <1>3, <1>7 DEF ApplyExact, PostApply, At
  <2>2. Installed(s)' /\ proc'[p].pc \in {"record", "rollback"}
    BY <1>1, <1>3, <1>7, <2>1 DEF Installed, PostApply
  <2>3. Attempted(s) /\ RestIntact(s)
    BY <1>3, <2>1, InstalledIsCovered
  <2>4. Attempted(s)' /\ RestIntact(s)'
    BY <1>1, <2>1, <2>3 DEF Attempted, RestIntact
  <2>5. ApplyExact(p)' /\ ReplayExact(p)' /\ Locked(p)'
    BY <1>1, <1>4, <1>5, <2>1, <2>2, <2>4 DEF ApplyExact, ReplayExact, At, Locked
  <2>6. QED
    BY <1>3, <1>4, <2>5, OneExact
<1>8. CASE RecordSkillApplication(p)
  <2>1. applied = before.applied /\ Installed(s) /\ UNCHANGED tree /\ applied' = Append(Without(applied, s), s)
    BY <1>2, <1>3, <1>8 DEF ApplyExact, RecordSkillApplication, At
  <2>2. Installed(s)' /\ ListedNow(s)' /\ proc'[p].pc \in {"test", "clear"}
    BY <1>1, <1>3, <1>8, <2>1 DEF Installed, ListedNow, RecordSkillApplication
  <2>3. ApplyExact(p)' /\ ReplayExact(p)' /\ Locked(p)'
    BY <1>1, <1>4, <1>5, <2>1, <2>2 DEF ApplyExact, ReplayExact, At, Locked
  <2>4. QED
    BY <1>3, <1>4, <2>3, OneExact
<1>9. CASE RunTest(p)
  <2>1. ListedNow(s) /\ Installed(s) /\ UNCHANGED <<applied, tree>>
    BY <1>2, <1>3, <1>9 DEF ApplyExact, RunTest, At
  <2>2. Installed(s)' /\ ListedNow(s)' /\ proc'[p].pc \in {"clear", "unrecord"}
    BY <1>1, <1>3, <1>9, <2>1 DEF Installed, ListedNow, RunTest
  <2>3. ApplyExact(p)' /\ ReplayExact(p)' /\ Locked(p)'
    BY <1>1, <1>4, <1>5, <2>1, <2>2 DEF ApplyExact, ReplayExact, At, Locked
  <2>4. QED
    BY <1>3, <1>4, <2>3, OneExact
<1>10. QED
  BY <1>6, <1>7, <1>8, <1>9

\* What was saved put back over what the backup does not cover.
LEMMA PutBack ==
    ASSUME NEW p \in Procs, NEW s \in Skills, s = proc[p].skill, backup = Saved(s), RestIntact(s),
           NotSaved(s) = {}, before.tree \in Trees, tree' \in RestoredFrom(backup, RemoveAdded(p))
    PROVE  tree' = before.tree
<1>1. PICK deleted \in SUBSET {f \in Files : backup[f].tomb} :
          /\ \A f \in Files : backup[f].tomb /\ backup[f].copy = {} => f \in deleted
          /\ tree' = [f \in Files |-> IF f \in deleted THEN {}
                                      ELSE IF backup[f].copy # {} THEN backup[f].copy ELSE RemoveAdded(p)[f]]
  BY DEF RestoredFrom
<1>2. ASSUME NEW f \in Files PROVE tree'[f] = before.tree[f]
  <2>1. tree'[f] = IF f \in deleted THEN {}
                   ELSE IF backup[f].copy # {} THEN backup[f].copy ELSE RemoveAdded(p)[f]
    BY <1>1
  <2>2. CASE f \notin BackedUp(s)
    <3>1. backup[f].copy = {} /\ backup[f].tomb = FALSE
      BY <2>2 DEF Saved
    <3>2. f \notin deleted
      BY <1>1, <3>1
    <3>3. f \notin Adds[s]
      BY <2>2 DEF BackedUp
    <3>4. RemoveAdded(p)[f] = tree[f]
      BY <3>3 DEF RemoveAdded
    <3>5. tree[f] = before.tree[f]
      BY <2>2 DEF RestIntact
    <3>6. QED
      BY <2>1, <3>1, <3>2, <3>4, <3>5
  <2>3. CASE f \in BackedUp(s) /\ before.tree[f] # {}
    <3>1. backup[f].copy = before.tree[f] /\ backup[f].tomb = FALSE
      BY <2>3 DEF Saved
    <3>2. QED
      BY <1>1, <2>1, <2>3, <3>1
  <2>4. CASE f \in BackedUp(s) /\ before.tree[f] = {}
    <3>1. backup[f].copy = {} /\ backup[f].tomb
      BY <2>4 DEF Saved
    <3>2. QED
      BY <1>1, <2>1, <2>4, <3>1
  <2>5. QED
    BY <2>2, <2>3, <2>4
<1>3. tree' = [f \in Files |-> tree'[f]] /\ before.tree = [f \in Files |-> before.tree[f]]
  <2>1. tree' = [f \in Files |-> tree'[f]]
    BY <1>1
  <2>2. QED
    BY <2>1 DEF Trees
<1>4. QED
  BY <1>2, <1>3

\* A roll-back puts back what was there when the lock was taken.
LEMMA RollBackExact ==
    ASSUME SkillTypes, OneInside, Exact, holes' = {}, NEW p \in Procs, RollBack(p)
    PROVE  Exact' /\ Locked(p) /\ Locked(p)'
<1>1. /\ proc[p].pc \in {"rollback", "unrecord"} /\ UNCHANGED <<base, backup, before>>
      /\ tree' \in RestoredFrom(backup, RemoveAdded(p)) /\ Goto(p, "clear")
      /\ applied' = IF proc[p].pc = "unrecord" THEN Without(applied, proc[p].skill) ELSE applied
  BY DEF RollBack, At
<1>2. PICK s : s = proc[p].skill
  OBVIOUS
<1>3. /\ Locked(p) /\ s \in Skills /\ ApplyExact(p)
      /\ before.tree \in Trees /\ before.base \in Trees /\ proc'[p].pc = "clear"
  BY <1>1, <1>2, ApplyingExactly DEF ApplyPcs
<1>4. /\ \A q \in Procs : q # p => proc'[q] = proc[q]
      /\ proc'[p].skill = s
  BY <1>2, InnerTypes
<1>5. NotSaved(s) = {}
  <2>1. \A f \in NotSaved(s) : "not_saved" \in holes'
    BY <1>2 DEF RollBack
  <2>2. QED
    BY <2>1
<1>6. backup = Saved(s)
  BY <1>1, <1>2, <1>3 DEF ApplyExact, ApplyPcs
<1>7. Attempted(s) /\ RestIntact(s) /\ applied' = before.applied
  <2>1. CASE proc[p].pc = "rollback"
    BY <1>1, <1>2, <1>3, <2>1 DEF ApplyExact, At
  <2>2. CASE proc[p].pc = "unrecord"
    <3>1. Installed(s) /\ ListedNow(s)
      BY <1>2, <1>3, <2>2 DEF ApplyExact, At
    <3>2. Attempted(s) /\ RestIntact(s)
      BY <1>3, <3>1, InstalledIsCovered
    <3>3. s \notin ToSet(before.applied)
      <4>1. s \in ToSet(before.applied) => "was_applied" \in holes'
        BY <1>2, <2>2 DEF RollBack, At
      <4>2. QED
        BY <4>1
    <3>4. PICK list : list = before.applied
      OBVIOUS
    <3>5. list \in Seq(Skills)
      BY <3>4 DEF SkillTypes
    <3>6. Without(list, s) = list /\ Without(Append(list, s), s) = list
      BY <1>3, <3>3, <3>4, <3>5, LastGone
    <3>7. QED
      BY <1>1, <1>2, <2>2, <3>1, <3>2, <3>4, <3>6 DEF ListedNow
  <2>3. QED
    BY <1>1, <2>1, <2>2
<1>8. tree' = before.tree
  BY <1>1, <1>2, <1>3, <1>5, <1>6, <1>7, PutBack
<1>9. Attempted(s)'
  BY <1>1, <1>7 DEF Attempted
<1>10. ApplyExact(p)' /\ ReplayExact(p)' /\ Locked(p)'
  BY <1>1, <1>3, <1>4, <1>7, <1>8, <1>9 DEF ApplyExact, ReplayExact, At, Locked, ApplyPcs
<1>11. QED
  BY <1>3, <1>4, <1>10, OneExact

\* What is seen by somebody who looks between operations.
AtomicStep == Atomic!AtomicNext \/ UNCHANGED Atomic!atomicVars

\* The promise takes skills off the list as the engine does.
LEMMA SameList ==
    ASSUME NEW list, NEW s
    PROVE  Atomic!Without(list, s) = Without(list, s)
  BY DEF Atomic!Without, Without, Atomic!ToSet, ToSet, Atomic!RemoveAt, RemoveAt

\* The lock is released: whoever looks sees the whole operation in one step.
LEMMA SeenAtRelease ==
    ASSUME SkillTypes, OneInside, NEW p \in Procs, Locked(p), ReleaseLock(p), holes = {}, holes' = {}
    PROVE  /\ \A q \in Procs : ~Locked(q)'
           /\ Visible(applied, before.applied) = before.applied /\ Visible(applied, before.applied)' = applied'
           /\ Visible(base, before.base) = before.base /\ Visible(base, before.base)' = base'
           /\ Visible(tree, before.tree) = before.tree /\ Visible(tree, before.tree)' = tree'
           /\ (holes # {})' = (holes # {})
<1>1. proc'[p] = Idle /\ \A q \in Procs : q # p => proc'[q] = proc[q]
  BY Releases
<1>2. \A q \in Procs : ~Locked(q)'
  BY <1>1, Alone, IdleType DEF Locked
<1>3. InProgress # {} /\ InProgress' = {}
  BY <1>2 DEF InProgress
<1>4. QED
  BY <1>2, <1>3 DEF Visible

\* The end of an apply.
LEMMA ClearExact ==
    ASSUME SkillTypes, OneInside, Exact, holes = {}, holes' = {}, NEW p \in Procs, ClearBackup(p)
    PROVE  Exact' /\ AtomicStep
<1>1. /\ proc[p].pc = "clear" /\ backup' = NoBackup /\ ReleaseLock(p)
      /\ UNCHANGED <<applied, tree, base>>
  BY DEF ClearBackup, At
<1>2. PICK s : s = proc[p].skill
  OBVIOUS
<1>3. Locked(p) /\ s \in Skills /\ ApplyExact(p)
  BY <1>1, <1>2, ApplyingExactly DEF ApplyPcs
<1>4. /\ \A q \in Procs : ~Locked(q)'
      /\ Visible(applied, before.applied) = before.applied /\ Visible(applied, before.applied)' = applied'
      /\ Visible(base, before.base) = before.base /\ Visible(base, before.base)' = base'
      /\ Visible(tree, before.tree) = before.tree /\ Visible(tree, before.tree)' = tree'
      /\ (holes # {})' = (holes # {})
  BY <1>1, <1>3, SeenAtRelease
<1>5. Exact'
  BY <1>1, <1>4, NobodyExact
<1>6. \/ applied = before.applied /\ tree = before.tree /\ Attempted(s)
      \/ ListedNow(s) /\ Installed(s)
  BY <1>1, <1>2, <1>3 DEF ApplyExact, At
<1>7. CASE applied = before.applied /\ tree = before.tree /\ Attempted(s)
  <2>1. Atomic!Attempt(s)
    BY <1>1, <1>4, <1>7 DEF Atomic!Attempt, Attempted
  <2>2. QED
    BY <1>3, <1>5, <2>1 DEF AtomicStep, Atomic!AtomicNext
<1>8. CASE ListedNow(s) /\ Installed(s)
  <2>1. /\ applied' = Append(Without(before.applied, s), s)
        /\ [base |-> base', tree |-> tree'] = InstallOf(before.base, before.tree, s)
    BY <1>1, <1>8 DEF ListedNow, Installed
  <2>2. Atomic!Without(before.applied, s) = Without(before.applied, s)
    BY SameList
  <2>3. Atomic!Install(s)
    BY <1>4, <2>1, <2>2 DEF Atomic!Install
  <2>4. QED
    BY <1>3, <1>5, <2>3 DEF AtomicStep, Atomic!AtomicNext
<1>9. QED
  BY <1>6, <1>7, <1>8

\* The rest of the list to replay.
LEMMA RestOfList ==
    ASSUME NEW list \in Seq(Skills), NEW n \in 0 .. Len(list), NEW rest, rest = SubSeq(list, n + 1, Len(list))
    PROVE  /\ n = 0 => rest = list
           /\ rest = <<>> <=> n = Len(list)
           /\ rest # <<>> => /\ n + 1 \in 1 .. Len(list) /\ Head(rest) = list[n + 1]
                             /\ Tail(rest) = SubSeq(list, (n + 1) + 1, Len(list))
<1>1. n \in Nat /\ Len(list) \in Nat /\ n <= Len(list) /\ \A j \in 1 .. Len(list) : list[j] \in Skills
  OBVIOUS
<1>2. /\ rest \in Seq(Skills) /\ Len(rest) = Len(list) - n
      /\ \A j \in 1 .. (Len(list) - n) : rest[j] = list[n + j]
  <2>1. n + 1 \in Int /\ Len(list) \in Int /\ \A j \in (n + 1) .. Len(list) : list[j] \in Skills
    BY <1>1
  <2>2. /\ rest \in Seq(Skills) /\ Len(rest) = (IF n + 1 <= Len(list) THEN Len(list) - (n + 1) + 1 ELSE 0)
        /\ \A j \in 1 .. Len(list) - (n + 1) + 1 : rest[j] = list[(n + 1) + j - 1]
    BY <2>1, SubSeqProperties
  <2>3. \A j \in 1 .. (Len(list) - n) : j \in 1 .. Len(list) - (n + 1) + 1 /\ (n + 1) + j - 1 = n + j
    BY <1>1
  <2>4. QED
    BY <1>1, <2>2, <2>3
<1>3. n = 0 => rest = list
  BY <1>1, <1>2
<1>4. rest = <<>> <=> n = Len(list)
  <2>1. rest = <<>> <=> Len(rest) = 0
    BY <1>2, EmptySeq
  <2>2. QED
    BY <1>1, <1>2, <2>1
<1>5. ASSUME rest # <<>>
      PROVE  /\ n + 1 \in 1 .. Len(list) /\ Head(rest) = list[n + 1]
             /\ Tail(rest) = SubSeq(list, (n + 1) + 1, Len(list))
  <2>1. n + 1 \in 1 .. Len(list)
    BY <1>1, <1>4, <1>5
  <2>2. Head(rest) = list[n + 1]
    BY <1>1, <1>2, <1>5, <2>1
  <2>3. PICK tail : tail = SubSeq(list, n + 2, Len(list))
    OBVIOUS
  <2>4. /\ tail \in Seq(Skills) /\ Len(tail) = Len(list) - (n + 1)
        /\ \A j \in 1 .. (Len(list) - (n + 1)) : tail[j] = list[(n + 1) + j]
    <3>1. n + 2 \in Int /\ Len(list) \in Int /\ \A j \in (n + 2) .. Len(list) : list[j] \in Skills
      BY <1>1
    <3>2. /\ tail \in Seq(Skills) /\ Len(tail) = (IF n + 2 <= Len(list) THEN Len(list) - (n + 2) + 1 ELSE 0)
          /\ \A j \in 1 .. Len(list) - (n + 2) + 1 : tail[j] = list[(n + 2) + j - 1]
      BY <2>3, <3>1, SubSeqProperties
    <3>3. \A j \in 1 .. (Len(list) - (n + 1)) :
              j \in 1 .. Len(list) - (n + 2) + 1 /\ (n + 2) + j - 1 = (n + 1) + j
      BY <1>1
    <3>4. QED
      BY <1>1, <2>1, <3>2, <3>3
  <2>5. PICK u : u = Tail(rest)
    OBVIOUS
  <2>6. u \in Seq(Skills) /\ Len(u) = Len(rest) - 1 /\ \A j \in 1 .. (Len(rest) - 1) : u[j] = rest[j + 1]
    BY <1>2, <1>5, <2>5
  <2>7. ASSUME NEW j \in 1 .. (Len(list) - (n + 1)) PROVE u[j] = tail[j]
    <3>1. j \in 1 .. (Len(rest) - 1) /\ j + 1 \in 1 .. (Len(list) - n) /\ n + (j + 1) = (n + 1) + j
      <4>1. PICK l \in Nat : l = Len(list)
        BY <1>1
      <4>2. Len(rest) = l - n /\ n \in Nat /\ n <= l /\ j \in 1 .. (l - (n + 1))
        BY <1>1, <1>2, <4>1
      <4>3. j \in Nat /\ 1 <= j /\ j <= l - (n + 1)
        BY <4>1, <4>2
      <4>4. j + 1 \in 1 .. (l - n) /\ n + (j + 1) = (n + 1) + j
        BY <4>1, <4>2, <4>3
      <4>5. j \in 1 .. (Len(rest) - 1)
        BY <4>1, <4>2, <4>3
      <4>6. QED
        BY <4>1, <4>4, <4>5
    <3>2. u[j] = rest[j + 1] /\ rest[j + 1] = list[n + (j + 1)] /\ tail[j] = list[(n + 1) + j]
      BY <1>2, <2>4, <2>6, <3>1
    <3>3. QED
      BY <3>1, <3>2
  <2>8. Len(u) = Len(tail)
    BY <1>1, <1>2, <2>4, <2>6
  <2>9. u = tail
    <3>1. PICK k : k = Len(list) - (n + 1)
      OBVIOUS
    <3>2. k \in Nat /\ Len(u) = k /\ Len(tail) = k /\ \A j \in 1 .. k : u[j] = tail[j]
      BY <1>1, <2>1, <2>4, <2>7, <2>8, <3>1
    <3>3. u \in Seq(Skills) /\ tail \in Seq(Skills)
      BY <2>4, <2>6
    <3>4. QED
      BY <3>2, <3>3, SeqEqual
  <2>10. (n + 1) + 1 = n + 2
    BY <1>1
  <2>11. QED
    BY <2>1, <2>2, <2>3, <2>5, <2>9, <2>10
<1>6. QED
  BY <1>3, <1>4, <1>5

\* What a step of a replay finds.
LEMMA ReplayingExactly ==
    ASSUME SkillTypes, OneInside, Exact, NEW p \in Procs, proc[p].pc \in ReplayPcs
    PROVE  /\ Locked(p) /\ proc \in [Procs -> Operation] /\ proc[p] \in Operation
           /\ proc[p].op \in {"uninstall", "rebase"}
           /\ proc[p].op = "uninstall" => proc[p].skill \in Skills
           /\ WholeList(p) \in Seq(Skills) /\ ReplayExact(p)
<1>1. proc \in [Procs -> Operation] /\ proc[p] \in Operation
  BY DEF SkillTypes
<1>2. proc[p].op \in {"uninstall", "rebase"} /\ (proc[p].op = "uninstall" => proc[p].skill \in Skills)
  BY <1>1 DEF Operation, ReplayPcs
<1>3. Locked(p)
  BY DEF Locked, ReplayPcs
<1>4. ReplayExact(p)
  BY DEF Exact
<1>5. WholeList(p) \in Seq(Skills)
  <2>1. PICK list : list = before.applied
    OBVIOUS
  <2>2. list \in Seq(Skills)
    BY <2>1 DEF SkillTypes
  <2>3. PICK s : s = proc[p].skill
    OBVIOUS
  <2>4. Without(list, s) \in Seq(Skills)
    <3>1. CASE s \notin ToSet(list)
      BY <2>2, <3>1 DEF Without
    <3>2. CASE s \in ToSet(list)
      <4>1. PICK i : i = (CHOOSE j \in DOMAIN list : list[j] = s)
        OBVIOUS
      <4>2. i \in DOMAIN list /\ Without(list, s) = RemoveAt(list, i)
        BY <3>2, <4>1 DEF ToSet, Without
      <4>3. i \in 1 .. Len(list)
        BY <2>2, <4>2
      <4>4. QED
        BY <2>2, <4>2, <4>3, Cut
    <3>3. QED
      BY <3>1, <3>2
  <2>5. QED
    BY <2>1, <2>2, <2>3, <2>4 DEF WholeList
<1>6. QED
  BY <1>1, <1>2, <1>3, <1>4, <1>5

\* A replay begins at the first stage.
LEMMA ReplayResetExact ==
    ASSUME SkillTypes, OneInside, Exact, NEW p \in Procs, ReplayReset(p)
    PROVE  Exact' /\ Locked(p) /\ Locked(p)'
<1>1. /\ proc[p].pc = "reset" /\ Goto(p, "replay") /\ tree' = ResetTouched(base, tree, proc[p].list)
      /\ UNCHANGED <<applied, base, backup, before>>
  BY DEF ReplayReset, At
<1>2. /\ Locked(p) /\ proc \in [Procs -> Operation] /\ proc[p] \in Operation
      /\ WholeList(p) \in Seq(Skills) /\ ReplayExact(p)
  BY <1>1, ReplayingExactly DEF ReplayPcs
<1>3. /\ \A q \in Procs : q # p => proc'[q] = proc[q]
      /\ proc'[p].skill = proc[p].skill /\ proc'[p].op = proc[p].op /\ proc'[p].list = proc[p].list
  BY InnerTypes
<1>4. proc'[p].pc = "replay"
  <2>1. proc' = [proc EXCEPT ![p].pc = "replay"]
    BY <1>1 DEF Goto
  <2>2. QED
    BY <1>2, <2>1 DEF Operation
<1>5. AsBefore /\ backup = NoBackup /\ proc[p].list = WholeList(p)
  BY <1>1, <1>2 DEF ReplayExact, At
<1>6. PICK list : list = WholeList(p)
  OBVIOUS
<1>7. WholeList(p)' = list
  BY <1>1, <1>3, <1>6 DEF WholeList
<1>8. list = SubSeq(list, 0 + 1, Len(list)) /\ 0 \in 0 .. Len(list)
  BY <1>2, <1>6, RestOfList
<1>9. Replayed(before.base, before.tree, list)[0] =
          [base |-> before.base, tree |-> ResetTouched(before.base, before.tree, list)]
  BY <1>2, <1>6, ReplayStages
<1>10. [base |-> base', tree |-> tree'] = Replayed(before.base, before.tree, list)[0]
  BY <1>1, <1>5, <1>6, <1>9 DEF AsBefore
<1>11. applied' = before'.applied /\ backup' = NoBackup
  BY <1>1, <1>5 DEF AsBefore
<1>12. ReplayExact(p)'
  <2>1. \E n \in 0 .. Len(list) :
          /\ proc'[p].list = SubSeq(list, n + 1, Len(list))
          /\ [base |-> base', tree |-> tree'] = Replayed(before'.base, before'.tree, list)[n]
    BY <1>1, <1>3, <1>5, <1>6, <1>8, <1>10
  <2>2. QED
    BY <1>4, <1>7, <1>11, <2>1 DEF ReplayExact, At
<1>13. ApplyExact(p)' /\ Locked(p)'
  BY <1>4 DEF ApplyExact, At, ApplyPcs, Locked
<1>14. QED
  BY <1>2, <1>3, <1>12, <1>13, OneExact

\* Each skill of the list takes the replay a stage on.
LEMMA ReplayNextExact ==
    ASSUME SkillTypes, OneInside, Exact, holes' = {}, NEW p \in Procs, ReplayNext(p)
    PROVE  Exact' /\ Locked(p) /\ Locked(p)' /\ before' = before
<1>1. /\ proc[p].pc = "replay" /\ proc[p].list # <<>>
      /\ base' = ReplayOne(base, tree, Head(proc[p].list)).base
      /\ tree' = ReplayOne(base, tree, Head(proc[p].list)).tree
      /\ proc' = [proc EXCEPT ![p].list = Tail(@)]
      /\ UNCHANGED <<applied, backup, before>>
  BY DEF ReplayNext, At
<1>2. /\ Locked(p) /\ proc \in [Procs -> Operation] /\ proc[p] \in Operation
      /\ WholeList(p) \in Seq(Skills) /\ ReplayExact(p)
  BY <1>1, ReplayingExactly DEF ReplayPcs
<1>3. /\ \A q \in Procs : q # p => proc'[q] = proc[q]
      /\ proc'[p].skill = proc[p].skill /\ proc'[p].op = proc[p].op /\ proc'[p].list = Tail(proc[p].list)
      /\ proc'[p].pc = "replay"
  BY <1>1, <1>2 DEF Operation
<1>4. PICK list \in Seq(Skills) : list = WholeList(p)
  BY <1>2
<1>5. WholeList(p)' = list
  BY <1>1, <1>3, <1>4 DEF WholeList
<1>6. PICK rest : rest = proc[p].list
  OBVIOUS
<1>7. PICK stage : stage = Replayed(before.base, before.tree, list)
  OBVIOUS
<1>8. PICK n \in 0 .. Len(list) : /\ rest = SubSeq(list, n + 1, Len(list))
                                  /\ [base |-> base, tree |-> tree] = stage[n]
  BY <1>1, <1>2, <1>4, <1>6, <1>7 DEF ReplayExact, At
<1>9. /\ n + 1 \in 1 .. Len(list) /\ Head(rest) = list[n + 1]
      /\ Tail(rest) = SubSeq(list, (n + 1) + 1, Len(list))
  BY <1>1, <1>6, <1>8, RestOfList
<1>10. stage[n + 1] = ReplayOne(stage[(n + 1) - 1].base, stage[(n + 1) - 1].tree, list[n + 1])
  BY <1>7, <1>9, ReplayStages
<1>11. (n + 1) - 1 = n /\ n + 1 \in 0 .. Len(list)
  BY <1>9
<1>12. stage[n].base = base /\ stage[n].tree = tree
  BY <1>8
<1>13. [base |-> base', tree |-> tree'] = stage[n + 1]
  <2>1. PICK one : one = ReplayOne(base, tree, list[n + 1])
    OBVIOUS
  <2>2. one = [base |-> one.base, tree |-> one.tree]
    BY <2>1 DEF ReplayOne, MergeAll, MergeModified
  <2>3. stage[n + 1] = one
    BY <1>10, <1>11, <1>12, <2>1
  <2>4. base' = one.base /\ tree' = one.tree
    BY <1>1, <1>6, <1>9, <2>1
  <2>5. QED
    BY <2>2, <2>3, <2>4
<1>14. applied' = before'.applied /\ backup' = NoBackup
  BY <1>1, <1>2 DEF ReplayExact, At
<1>15. ReplayExact(p)'
  <2>1. \E m \in 0 .. Len(list) :
          /\ proc'[p].list = SubSeq(list, m + 1, Len(list))
          /\ [base |-> base', tree |-> tree'] = Replayed(before'.base, before'.tree, list)[m]
    BY <1>1, <1>3, <1>6, <1>7, <1>9, <1>11, <1>13
  <2>2. QED
    BY <1>3, <1>5, <1>14, <2>1 DEF ReplayExact, At
<1>16. ApplyExact(p)' /\ Locked(p)'
  BY <1>3 DEF ApplyExact, At, ApplyPcs, Locked
<1>17. QED
  BY <1>1, <1>2, <1>3, <1>15, <1>16, OneExact

\* The end of a replay: the list was replayed as a whole.
LEMMA ReplayDoneExact ==
    ASSUME SkillTypes, OneInside, Exact, holes = {}, holes' = {}, NEW p \in Procs, ReplayDone(p)
    PROVE  Exact' /\ AtomicStep
<1>1. /\ proc[p].pc = "replay" /\ proc[p].list = <<>> /\ ReleaseLock(p) /\ UNCHANGED <<base, backup>>
      /\ applied' = IF proc[p].op = "uninstall" THEN Without(applied, proc[p].skill) ELSE applied
  BY DEF ReplayDone, At
<1>2. /\ Locked(p) /\ proc[p].op \in {"uninstall", "rebase"}
      /\ proc[p].op = "uninstall" => proc[p].skill \in Skills
      /\ WholeList(p) \in Seq(Skills) /\ ReplayExact(p)
  BY <1>1, ReplayingExactly DEF ReplayPcs
<1>3. /\ \A q \in Procs : ~Locked(q)'
      /\ Visible(applied, before.applied) = before.applied /\ Visible(applied, before.applied)' = applied'
      /\ Visible(base, before.base) = before.base /\ Visible(base, before.base)' = base'
      /\ Visible(tree, before.tree) = before.tree /\ Visible(tree, before.tree)' = tree'
      /\ (holes # {})' = (holes # {})
  BY <1>1, <1>2, SeenAtRelease
<1>4. PICK list \in Seq(Skills) : list = WholeList(p)
  BY <1>2
<1>5. PICK n \in 0 .. Len(list) :
         /\ proc[p].list = SubSeq(list, n + 1, Len(list))
         /\ [base |-> base, tree |-> tree] = Replayed(before.base, before.tree, list)[n]
  BY <1>1, <1>2, <1>4 DEF ReplayExact, At
<1>6. n = Len(list)
  BY <1>1, <1>5, RestOfList
<1>7. applied = before.applied /\ backup' = NoBackup
  BY <1>1, <1>2 DEF ReplayExact, At
<1>8. PICK built : built = MergeStructured(tree, ToSet(list))
  OBVIOUS
<1>9. RebuildOf(before.base, before.tree, list) = [base |-> base, tree |-> built]
  <2>1. PICK last : last = Replayed(before.base, before.tree, list)[Len(list)]
    OBVIOUS
  <2>2. last.base = base /\ last.tree = tree
    BY <1>5, <1>6, <2>1
  <2>3. RebuildOf(before.base, before.tree, list) =
            [base |-> last.base, tree |-> MergeStructured(last.tree, ToSet(list))]
    BY <2>1 DEF RebuildOf
  <2>4. QED
    BY <1>8, <2>2, <2>3
<1>10. Exact'
  BY <1>3, <1>7, NobodyExact
<1>11. list = IF proc[p].op = "rebase" THEN before.applied ELSE Without(before.applied, proc[p].skill)
  BY <1>2, <1>4 DEF WholeList
<1>12. \/ proc[p].op = "uninstall" /\ tree' = built
       \/ proc[p].op = "rebase" /\ tree' = built
       \/ proc[p].op = "rebase" /\ tree' = [f \in Files |-> built[f] \cup (before.tree[f] \cap {"edit"})]
  BY <1>8, <1>11 DEF ReplayDone
<1>13. CASE proc[p].op = "uninstall"
  <2>1. PICK s \in Skills : s = proc[p].skill
    BY <1>2, <1>13
  <2>2. applied' = Without(before.applied, s) /\ applied' = list
    BY <1>1, <1>7, <1>11, <1>13, <2>1
  <2>3. [base |-> base', tree |-> tree'] = RebuildOf(before.base, before.tree, applied')
    BY <1>1, <1>9, <1>12, <1>13, <2>2
  <2>4. applied' = Atomic!Without(before.applied, s)
    BY <2>2, SameList
  <2>5. Atomic!Uninstall(s)
    BY <1>3, <2>3, <2>4 DEF Atomic!Uninstall
  <2>6. QED
    BY <1>10, <2>5 DEF AtomicStep, Atomic!AtomicNext
<1>14. CASE proc[p].op = "rebase"
  <2>1. list = before.applied /\ applied' = before.applied
    BY <1>1, <1>7, <1>11, <1>14
  <2>2. PICK rebuilt : rebuilt = RebuildOf(before.base, before.tree, before.applied)
    OBVIOUS
  <2>3. rebuilt.base = base /\ rebuilt.tree = built
    BY <1>9, <2>1, <2>2
  <2>4. Atomic!Rebase
    BY <1>1, <1>3, <1>12, <1>14, <2>1, <2>2, <2>3 DEF Atomic!Rebase
  <2>5. QED
    BY <1>10, <2>4 DEF AtomicStep, Atomic!AtomicNext
<1>15. QED
  BY <1>2, <1>13, <1>14

\* Nothing an observer knows changes.
LEMMA QuietSeen ==
    ASSUME InProgress' = InProgress, UNCHANGED <<applied, base, tree, before>>, holes = {}, holes' = {}
    PROVE  AtomicStep
<1>1. UNCHANGED Atomic!atomicVars
  BY DEF Atomic!atomicVars, Visible
<1>2. QED
  BY <1>1 DEF AtomicStep

\* As long as nobody holds the lock, what there is is what an observer sees.
LEMMA SeenOutside ==
    ASSUME \A q \in Procs : ~Locked(q), \A q \in Procs : ~Locked(q)', holes = {}, holes' = {}
    PROVE  /\ InProgress = {} /\ InProgress' = {} /\ InProgress' = InProgress
           /\ Visible(applied, before.applied) = applied /\ Visible(applied, before.applied)' = applied'
           /\ Visible(base, before.base) = base /\ Visible(base, before.base)' = base'
           /\ Visible(tree, before.tree) = tree /\ Visible(tree, before.tree)' = tree'
           /\ (holes # {})' = (holes # {})
<1>1. InProgress = {} /\ InProgress' = {}
  BY DEF InProgress
<1>2. QED
  BY <1>1 DEF Visible

\* A new clean copy while no operation runs is a reset.
LEMMA SnapshotExact ==
    ASSUME Exact, \A q \in Procs : ~Locked(q), \A q \in Procs : ~Locked(q)', holes = {}, holes' = {},
           applied' = <<>>, base' = Snapshot, UNCHANGED <<tree, backup>>
    PROVE  Exact' /\ AtomicStep
<1>1. /\ InProgress = {}
      /\ Visible(applied, before.applied)' = applied'
      /\ Visible(base, before.base)' = base'
      /\ Visible(tree, before.tree) = tree /\ Visible(tree, before.tree)' = tree'
      /\ (holes # {})' = (holes # {})
  BY SeenOutside
<1>2. backup' = NoBackup
  BY <1>1 DEF Exact
<1>3. Exact'
  BY <1>2, NobodyExact
<1>4. \A f \in Files : base'[f] \in {{}, tree[f]}
  BY DEF Snapshot
<1>5. Atomic!Reset
  BY <1>1, <1>4 DEF Atomic!Reset
<1>6. QED
  BY <1>3, <1>5 DEF AtomicStep, Atomic!AtomicNext

\* Operations up to the lock.
LEMMA OuterExact ==
    ASSUME SkillTypes, OneInside, FreshInv, Exact, holes = {}, holes' = {}, NEW p \in Procs,
           \/ InitSkillsSystem(p) \/ RebaseSkills(p) \/ Crash(p)
           \/ \E s \in Skills : ApplySkill(p, s) \/ UninstallSkill(p, s)
    PROVE  Exact' /\ AtomicStep
<1>0. proc \in [Procs -> Operation]
  BY DEF SkillTypes
<1>1. CASE InitSkillsSystem(p)
  <2>1. \A q \in Procs : At(q, "idle")
    <3>1. \A q \in Procs : ~At(q, "idle") => "init" \in holes'
      BY <1>1 DEF InitSkillsSystem
    <3>2. QED
      BY <3>1
  <2>2. \A q \in Procs : ~Locked(q) /\ ~Locked(q)'
    BY <1>1, <2>1 DEF InitSkillsSystem, At, Locked
  <2>3. applied' = <<>> /\ base' = Snapshot /\ UNCHANGED <<tree, backup>>
    BY <1>1 DEF InitSkillsSystem
  <2>4. QED
    BY <2>2, <2>3, SnapshotExact
<1>2. CASE RebaseSkills(p)
  <2>1. PICK r : r = [op |-> "rebase", pc |-> "lock", skill |-> "none", list |-> applied, todo |-> {}]
    OBVIOUS
  <2>2. proc' = [proc EXCEPT ![p] = r] /\ r.pc = "lock"
    BY <1>2, <2>1 DEF RebaseSkills
  <2>3. Outside(p) /\ Outside(p)' /\ \A q \in Procs : q # p => proc'[q] = proc[q]
    BY <1>0, <1>2, <2>2 DEF RebaseSkills, Outside, At
  <2>4. UNCHANGED <<applied, tree, base, backup, before>>
    BY <1>2 DEF RebaseSkills
  <2>5. QED
    BY <2>3, <2>4, QuietExact, QuietSeen
<1>3. CASE Crash(p)
  <2>1. ~Locked(p)
    <3>1. Locked(p) => holes' # {}
      <4>1. Locked(p) => p \in {q \in {p} : Locked(q)}
        OBVIOUS
      <4>2. QED
        BY <1>3, <4>1 DEF Crash
    <3>2. QED
      BY <3>1
  <2>2. proc' = [proc EXCEPT ![p] = Idle] /\ UNCHANGED <<applied, tree, base, backup, before>>
    BY <1>3, <2>1 DEF Crash
  <2>3. Outside(p) /\ Outside(p)' /\ \A q \in Procs : q # p => proc'[q] = proc[q]
    BY <1>0, <2>1, <2>2, IdleType DEF Outside, Locked
  <2>4. QED
    BY <2>2, <2>3, QuietExact, QuietSeen
<1>4. ASSUME NEW s \in Skills, ApplySkill(p, s) PROVE Exact' /\ AtomicStep
  <2>1. PICK r : r = [op |-> "apply", pc |-> "lock", skill |-> s, list |-> <<>>, todo |-> {}]
    OBVIOUS
  <2>2. proc' = [proc EXCEPT ![p] = r] /\ r.pc = "lock"
    BY <1>4, <2>1 DEF ApplySkill
  <2>3. Outside(p) /\ Outside(p)' /\ \A q \in Procs : q # p => proc'[q] = proc[q]
    BY <1>0, <1>4, <2>2 DEF ApplySkill, Outside, At
  <2>4. UNCHANGED <<applied, tree, backup, before>> /\ base' = IF ready THEN base ELSE Snapshot
    BY <1>4 DEF ApplySkill
  <2>5. CASE ready
    BY <2>3, <2>4, <2>5, QuietExact, QuietSeen
  <2>6. CASE ~ready
    <3>1. applied = <<>> /\ \A q \in Procs : proc[q].pc = "idle"
      BY <2>6 DEF FreshInv, At
    <3>2. \A q \in Procs : ~Locked(q) /\ ~Locked(q)'
      BY <2>3, <3>1 DEF Locked, Outside
    <3>3. QED
      BY <2>4, <2>6, <3>1, <3>2, SnapshotExact
  <2>7. QED
    BY <2>5, <2>6
<1>5. ASSUME NEW s \in Skills, UninstallSkill(p, s) PROVE Exact' /\ AtomicStep
  <2>1. PICK r : r = [op |-> "uninstall", pc |-> "lock", skill |-> s, list |-> Without(applied, s), todo |-> {}]
    OBVIOUS
  <2>2. (proc' = [proc EXCEPT ![p] = r] \/ proc' = proc) /\ r.pc = "lock"
    BY <1>5, <2>1 DEF UninstallSkill
  <2>3. Outside(p) /\ Outside(p)' /\ \A q \in Procs : q # p => proc'[q] = proc[q]
    BY <1>0, <1>5, <2>2 DEF UninstallSkill, Outside, At
  <2>4. UNCHANGED <<applied, tree, base, backup, before>>
    BY <1>5 DEF UninstallSkill
  <2>5. QED
    BY <2>3, <2>4, QuietExact, QuietSeen
<1>6. QED
  BY <1>1, <1>2, <1>3, <1>4, <1>5

\* Nothing but what has no part in an operation changes.
LEMMA StillExact ==
    ASSUME Exact, UNCHANGED <<applied, tree, base, backup, before, proc>>
    PROVE  Exact' /\ InProgress' = InProgress
<1>1. InProgress' = InProgress
  BY DEF InProgress, Locked
<1>2. ASSUME NEW q \in Procs PROVE ApplyExact(q)' /\ ReplayExact(q)'
  <2>1. ApplyExact(q) /\ ReplayExact(q)
    BY DEF Exact
  <2>2. ApplyExact(q)'
    BY <2>1 DEF ApplyExact, At, AsBefore, Installed, ListedNow, Attempted, RestIntact, Saved
  <2>3. ReplayExact(q)'
    BY <2>1 DEF ReplayExact, At, AsBefore, WholeList
  <2>4. QED
    BY <2>2, <2>3
<1>3. QED
  BY <1>1, <1>2 DEF Exact

\* Customize sessions.
LEMMA SessionExact ==
    ASSUME SkillTypes, OneInside, Exact, holes = {}, holes' = {},
           CommitCustomize \/ \E f \in BaseFiles : StartCustomize(f) \/ UserEdits(f) \/ AbortCustomize(f)
    PROVE  Exact' /\ AtomicStep
<1>1. CASE CommitCustomize \/ \E f \in BaseFiles : StartCustomize(f)
  <2>1. UNCHANGED <<applied, tree, base, backup, before, proc>>
    BY <1>1 DEF CommitCustomize, StartCustomize
  <2>2. QED
    BY <2>1, StillExact, QuietSeen
<1>2. ASSUME NEW f \in BaseFiles, UserEdits(f) \/ AbortCustomize(f) PROVE Exact' /\ AtomicStep
  <2>1. /\ tree' \in {[tree EXCEPT ![f] = @ \cup {"edit"}], [tree EXCEPT ![f] = {"core"}]}
        /\ UNCHANGED <<applied, base, backup, proc>>
    BY <1>2 DEF UserEdits, AbortCustomize
  <2>2. \A q \in Procs : ~Locked(q)
    <3>1. \A q \in Procs : Locked(q) => "session" \in holes'
      BY <1>2 DEF UserEdits, AbortCustomize
    <3>2. QED
      BY <3>1
  <2>3. \A q \in Procs : ~Locked(q)'
    BY <2>1, <2>2 DEF Locked
  <2>4. /\ InProgress = {}
        /\ Visible(applied, before.applied) = applied /\ Visible(applied, before.applied)' = applied'
        /\ Visible(base, before.base) = base /\ Visible(base, before.base)' = base'
        /\ Visible(tree, before.tree) = tree /\ Visible(tree, before.tree)' = tree'
        /\ (holes # {})' = (holes # {})
    BY <2>2, <2>3, SeenOutside
  <2>5. Exact'
    BY <2>1, <2>3, <2>4, NobodyExact DEF Exact
  <2>6. Atomic!Edit(f)
    BY <2>1, <2>4 DEF Atomic!Edit
  <2>7. f \in Files
    BY SkillsAssumption DEF Shipped
  <2>8. QED
    BY <2>5, <2>6, <2>7 DEF AtomicStep, Atomic!AtomicNext
<1>3. QED
  BY <1>1, <1>2

\* Taking the lock starts an operation and changes nothing.
LEMMA AcquireExact ==
    ASSUME SkillTypes, OneInside, Exact, holes = {}, holes' = {}, NEW p \in Procs, AcquireLock(p)
    PROVE  Exact' /\ AtomicStep
<1>1. /\ proc[p].pc = "lock" /\ UNCHANGED <<applied, tree, base, backup>> /\ proc \in [Procs -> Operation]
      /\ proc[p] \in Operation
  BY DEF AcquireLock, At, SkillTypes
<1>2. CASE proc' = [proc EXCEPT ![p] = Idle] /\ UNCHANGED before
  <2>1. Outside(p) /\ Outside(p)' /\ \A q \in Procs : q # p => proc'[q] = proc[q]
    BY <1>1, <1>2, IdleType DEF Outside
  <2>2. QED
    BY <1>1, <1>2, <2>1, QuietExact, QuietSeen
<1>3. CASE /\ LockFree /\ Goto(p, IF proc[p].op = "apply" THEN "backup" ELSE "reset")
           /\ Noted(applied, base, tree)
           /\ holes' = holes \cup
                (IF \/ proc[p].op = "uninstall" /\ proc[p].list # Without(applied, proc[p].skill)
                    \/ proc[p].op = "rebase" /\ proc[p].list # applied
                 THEN {"stale_list"} ELSE {})
  <2>1. PICK label : label = IF proc[p].op = "apply" THEN "backup" ELSE "reset"
    OBVIOUS
  <2>2. proc' = [proc EXCEPT ![p].pc = label]
    BY <1>3, <2>1 DEF Goto
  <2>3. /\ proc'[p].pc = label /\ proc'[p].op = proc[p].op /\ proc'[p].skill = proc[p].skill
        /\ proc'[p].list = proc[p].list
        /\ \A q \in Procs : q # p => proc'[q] = proc[q]
    BY <1>1, <2>2 DEF Operation
  <2>4. \A q \in Procs : proc[q].pc \in {"idle", "lock"}
    BY <1>3, FreeLock DEF Locked
  <2>5. Locked(p)'
    BY <2>1, <2>3 DEF Locked
  <2>6. InProgress = {} /\ InProgress' # {}
    BY <2>4, <2>5 DEF InProgress, Locked
  <2>7. before'.applied = applied /\ before'.base = base /\ before'.tree = tree
    BY <1>3 DEF Noted
  <2>8. backup' = NoBackup /\ AsBefore'
    BY <1>1, <2>6, <2>7 DEF Exact, AsBefore
  <2>9. ApplyExact(p)'
    BY <2>1, <2>3, <2>8 DEF ApplyExact, At, ApplyPcs
  <2>10. ReplayExact(p)'
    <3>1. CASE proc[p].op = "apply"
      BY <2>1, <2>3, <3>1 DEF ReplayExact, At
    <3>2. CASE proc[p].op # "apply"
      <4>1. proc[p].op \in {"uninstall", "rebase"} /\ label = "reset"
        BY <1>1, <2>1, <3>2 DEF Operation
      <4>2. proc[p].list = IF proc[p].op = "uninstall" THEN Without(applied, proc[p].skill) ELSE applied
        BY <1>3, <4>1
      <4>3. WholeList(p)' = proc'[p].list
        BY <2>3, <2>7, <4>2 DEF WholeList
      <4>4. QED
        BY <2>3, <2>8, <4>1, <4>3 DEF ReplayExact, At
    <3>3. QED
      BY <3>1, <3>2
  <2>11. Exact'
    <3>1. ASSUME NEW q \in Procs, q # p PROVE ApplyExact(q)' /\ ReplayExact(q)'
      <4>1. proc'[q].pc \in {"idle", "lock"}
        BY <2>3, <2>4, <3>1
      <4>2. QED
        BY <4>1 DEF ApplyExact, ReplayExact, At, ApplyPcs
    <3>2. QED
      BY <2>6, <2>9, <2>10, <3>1 DEF Exact
  <2>12. UNCHANGED Atomic!atomicVars
    BY <1>1, <2>6, <2>7 DEF Atomic!atomicVars, Visible
  <2>13. QED
    BY <2>11, <2>12 DEF AtomicStep
<1>4. QED
  BY <1>2, <1>3 DEF AcquireLock

\* Steps inside an operation that do not end it.
LEMMA InnerExact ==
    ASSUME SkillTypes, OneInside, Exact, holes = {}, holes' = {}, NEW p \in Procs,
           \/ SaveFiles(p) \/ CopyAdds(p) \/ MergeNext(p) \/ MergesDone(p) \/ PostApply(p)
           \/ RecordSkillApplication(p) \/ RunTest(p) \/ RollBack(p) \/ ReplayReset(p) \/ ReplayNext(p)
    PROVE  Exact' /\ AtomicStep
<1>1. Exact' /\ Locked(p) /\ Locked(p)'
  BY SaveExact, CopyAddsExact, MergeNextExact, ApplyEndExact, RollBackExact, ReplayResetExact, ReplayNextExact
<1>2. before' = before
  <2>1. CASE ReplayNext(p)
    BY <2>1, ReplayNextExact
  <2>2. CASE ~ReplayNext(p)
    BY <2>2 DEF SaveFiles, CopyAdds, MergeNext, MergesDone, PostApply, RecordSkillApplication, RunTest,
       RollBack, ReplayReset
  <2>3. QED
    BY <2>1, <2>2
<1>3. QED
  BY <1>1, <1>2, Unseen DEF AtomicStep

\* Every step of the engine is one of the promise's, or none.
LEMMA ExactNext ==
    ASSUME SkillTypes, OneInside, FreshInv, Exact, holes = {}, holes' = {}, [SkillsNext]_skillsVars
    PROVE  Exact' /\ AtomicStep
<1>1. CASE UNCHANGED skillsVars
  BY <1>1, StillExact, QuietSeen DEF skillsVars
<1>2. ASSUME NEW p \in Procs, SkillsStep(p) PROVE Exact' /\ AtomicStep
  BY <1>2, AcquireExact, InnerExact, ClearExact, ReplayDoneExact DEF SkillsStep
<1>3. CASE SkillsNext
  BY <1>2, <1>3, OuterExact, SessionExact DEF SkillsNext
<1>4. QED
  BY <1>1, <1>3

\* The skills engine keeps its promise whatever the manifests say: to whoever looks between
\* operations, applying, uninstalling and rebasing are single steps that take place as a whole
\* or leave the list and the files as they were, for as long as none of the things has happened
\* that the engine does not cover (`holes`).
THEOREM SkillsAreAtomic == SkillsSpec => OperationsAtomic
<1> DEFINE Inv == SkillTypes /\ OneInside /\ FreshInv /\ ExactInv
<1>1. SkillsInit => Inv /\ applied = <<>> /\ holes = {} /\ InProgress = {}
  <2>1. SUFFICES ASSUME SkillsInit PROVE Inv /\ applied = <<>> /\ holes = {} /\ InProgress = {}
    OBVIOUS
  <2>2. SkillTypes /\ OneInside /\ FreshInv
    BY <2>1, StartTypes
  <2>3. /\ proc = [p \in Procs |-> Idle] /\ backup = NoBackup /\ applied = <<>> /\ holes = {}
    BY <2>1 DEF SkillsInit
  <2>4. \A p \in Procs : proc[p].pc = "idle"
    BY <2>3, IdleType
  <2>5. InProgress = {}
    BY <2>4 DEF InProgress, Locked
  <2>6. Exact
    BY <2>3, <2>4 DEF Exact, ApplyExact, ReplayExact, At, ApplyPcs
  <2>7. QED
    BY <2>2, <2>3, <2>5, <2>6 DEF ExactInv
<1>2. applied = <<>> /\ holes = {} /\ InProgress = {} => Visible(applied, before.applied) = <<>> /\ ~(holes # {})
  BY DEF Visible
<1>3. Inv /\ [SkillsNext]_skillsVars => Inv' /\ [~(holes # {}) => Atomic!AtomicNext]_Atomic!atomicVars
  <2>1. SUFFICES ASSUME Inv, [SkillsNext]_skillsVars
                 PROVE  Inv' /\ [~(holes # {}) => Atomic!AtomicNext]_Atomic!atomicVars
    OBVIOUS
  <2>2. SkillTypes' /\ OneInside'
    BY <2>1, SkillTypesNext
  <2>3. FreshInv'
    <3>1. CASE SkillsNext
      BY <2>1, <3>1, FreshNext
    <3>2. CASE UNCHANGED skillsVars
      BY <2>1, <3>2 DEF skillsVars, FreshInv, At
    <3>3. QED
      BY <2>1, <3>1, <3>2
  <2>4. CASE holes # {}
    <3>1. holes' # {}
      BY <2>1, <2>4, HolesGrow DEF skillsVars
    <3>2. QED
      BY <2>2, <2>3, <2>4, <3>1 DEF ExactInv
  <2>5. CASE holes = {} /\ holes' # {}
    <3>1. Atomic!AtomicNext
      BY <2>5 DEF Atomic!AtomicNext, Atomic!Damage
    <3>2. QED
      BY <2>2, <2>3, <2>5, <3>1 DEF ExactInv
  <2>6. CASE holes = {} /\ holes' = {}
    <3>1. Exact' /\ AtomicStep
      BY <2>1, <2>6, ExactNext DEF ExactInv
    <3>2. QED
      BY <2>2, <2>3, <2>6, <3>1 DEF ExactInv, AtomicStep
  <2>7. QED
    BY <2>4, <2>5, <2>6
<1>4. QED
  BY <1>1, <1>2, <1>3, PTL DEF SkillsSpec, OperationsAtomic, Atomic!AtomicSpec

=============================================================================
