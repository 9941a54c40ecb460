------------------------------ MODULE WsBridge ------------------------------
(* The WebSocket bridge of host/ws_bridge.py: agents connect, register with a *)
(* heartbeat and report back under the identity they registered.  One         *)
(* coroutine serves each connection, and an asyncio lock guards the table of  *)
(* connections; it is held across an await only where a connection is turned  *)
(* away.  A client may connect again under the same name while its old        *)
(* connection has not been noticed to be dead.                                *)
EXTENDS Integers, FiniteSets, FiniteSetsExt, Functions

CONSTANTS
    WsAgents,           \* agent identifiers; "" is none
    Conns,              \* connections, a bound
    MAX_CONNECTIONS,
    TokenRequired       \* WS_BRIDGE_TOKEN is set

ASSUME WsAssumption == MAX_CONNECTIONS \in Nat \ {0} /\ "" \notin WsAgents

Names == WsAgents \cup {""}
Reports == {"fitness_update", "memory_patch", "memory_write", "task_complete"}

VARIABLES
    conn,           \* the coroutines: where they are, agent_id, _authenticated
    connections,    \* _connections
    table_lock,     \* the connection that holds _connections_lock across an await, or "free"
    reports         \* history: the names in which each connection reported

wsVars == <<conn, connections, table_lock, reports>>

WsInit ==
    /\ conn = [c \in Conns |-> [at |-> "new", agent |-> "", authed |-> ~TokenRequired]]
    /\ connections = << >>
    /\ table_lock = "free"
    /\ reports = [c \in Conns |-> {}]

Set(c, at) == conn' = [conn EXCEPT ![c].at = at]

-----------------------------------------------------------------------------
(* _handle_connection.                                                        *)

\* The cap is checked against the agents that have sent a heartbeat.
AcceptConnection(c) ==
    /\ conn[c].at = "new" /\ table_lock = "free"
    /\ IF Cardinality(DOMAIN connections) >= MAX_CONNECTIONS
       THEN Set(c, "rejecting") /\ table_lock' = c
       ELSE Set(c, "open") /\ UNCHANGED table_lock
    /\ UNCHANGED <<connections, reports>>

\* The error is sent and the socket closed with the lock still held.
RejectConnection(c) ==
    /\ conn[c].at = "rejecting"
    /\ Set(c, "closed") /\ table_lock' = "free"
    /\ UNCHANGED <<connections, reports>>

\* A message without the token, before one with it: the connection ends.
Unauthorized(c) ==
    /\ conn[c].at = "open" /\ ~conn[c].authed
    /\ Set(c, "ending")
    /\ UNCHANGED <<connections, table_lock, reports>>

\* Mutant: every message sets the identity.
LastName(c, name) == IF name = "" THEN conn[c].agent ELSE name

\* The first name a connection gives stays its identity; another one is ignored.
LockedName(c, name) == IF conn[c].agent = "" THEN name ELSE conn[c].agent

Authorized(c, name) == [conn[c] EXCEPT !.authed = TRUE, !.agent = LockedName(c, name)]

\* A heartbeat is to be registered, under the lock, and acknowledged.
Heartbeat(c, name) ==
    /\ conn[c].at = "open"
    /\ conn' = [conn EXCEPT ![c] = [Authorized(c, name) EXCEPT
                  !.at = IF LockedName(c, name) = "" THEN "ack" ELSE "register"]]
    /\ UNCHANGED <<connections, table_lock, reports>>

Register(c) ==
    /\ conn[c].at = "register" /\ table_lock = "free"
    /\ connections' = [a \in DOMAIN connections \cup {conn[c].agent} |->
                          IF a = conn[c].agent THEN c ELSE connections[a]]
    /\ Set(c, "ack")
    /\ UNCHANGED <<table_lock, reports>>

\* The acknowledgement is sent, or raises because the socket is gone.
Acknowledge(c) ==
    /\ conn[c].at = "ack"
    /\ Set(c, "open") \/ Set(c, "ending")
    /\ UNCHANGED <<connections, table_lock, reports>>

\* The four reports run their callbacks or write to the memory bus (MemoryStores) in the
\* name of the connection.  Without any name a score counts for "unknown", a patch or a
\* write is dropped, a finished task has no name.  A score that is no number, or an error
\* of the memory bus, ends the connection.
Report(c, kind, name) ==
    /\ conn[c].at = "open"
    /\ conn' = [conn EXCEPT ![c] = Authorized(c, name)]
    /\ reports' = [reports EXCEPT ![c] =
          IF LockedName(c, name) = "" /\ kind \in {"memory_patch", "memory_write"} THEN @
          ELSE @ \cup {LockedName(c, name)}]
    /\ UNCHANGED <<connections, table_lock>>

\* The client is gone, a heartbeat or a report raised, or the loop over the messages ended.
ConnectionLost(c) ==
    /\ conn[c].at = "open"
    /\ Set(c, "ending")
    /\ UNCHANGED <<connections, table_lock, reports>>

\* Mutant: the entry stays.
KeepEntry(c) == connections

\* The finally block: the entry of the agent goes, whichever connection it names.
DropEntry(c) == Restrict(connections, DOMAIN connections \ {conn[c].agent})

EndConnection(c) ==
    /\ conn[c].at = "ending" /\ table_lock = "free"
    /\ connections' = DropEntry(c)
    /\ Set(c, "closed")
    /\ UNCHANGED <<table_lock, reports>>

WsNext ==
    \E c \in Conns :
        \/ AcceptConnection(c) \/ RejectConnection(c) \/ Unauthorized(c)
        \/ Register(c) \/ Acknowledge(c) \/ ConnectionLost(c) \/ EndConnection(c)
        \/ \E name \in Names : Heartbeat(c, name) \/ \E kind \in Reports : Report(c, kind, name)

WsSpec == WsInit /\ [][WsNext]_wsVars

-----------------------------------------------------------------------------
(* Properties.                                                                *)

\* send_task never finds a connection whose coroutine is over: whatever the order in which
\* the connections of an agent register and end, _connections holds only live ones, each
\* registered by a coroutine of that very agent.
NoDeadConnection ==
    \A a \in DOMAIN connections :
        conn[connections[a]].at \notin {"new", "rejecting", "closed"} /\ conn[connections[a]].agent = a

\* A connection reports in one name only, besides the reports before it has given any.
OneIdentity ==
    \A c \in Conns : Cardinality(reports[c] \ {""}) <= 1

\* An agent with an open connection that has been acknowledged can be reached (violated: the
\* end of its previous connection removes the entry of the new one until its next heartbeat).
LiveAgentListed ==
    \A c \in Conns : conn[c].at = "ack" /\ conn[c].agent # "" => conn[c].agent \in DOMAIN connections

\* The agents registered stay within MAX_CONNECTIONS (violated: connections that have not
\* sent a heartbeat are not counted when another is let in).
ConnectionsCapped == Cardinality(DOMAIN connections) <= MAX_CONNECTIONS

\* _handle_connection keeps the table of connections and the names of its agents straight,
\* however connections of one agent overlap.
BridgeSound == NoDeadConnection /\ OneIdentity

=============================================================================
