------------------------------ MODULE Outbound ------------------------------
(* The way of a reply to its reader: route_outbound of host/router.py, which  *)
(* sends it in chunks to a channel, and host/webportal.py, which keeps a copy *)
(* in the sessions of a chat for the page that polls them.  A request is a    *)
(* thread of the HTTP server; what it does under _sessions_lock is one step.  *)
(* Every reading of the clock is later than the one before it; the page of    *)
(* the portal is part of the model.                                           *)
EXTENDS Integers, Sequences, SequencesExt, FiniteSets, FiniteSetsExt

CONSTANTS
    Replies,        \* calls of route_outbound followed by _store_bot_reply
    ChunksOf,       \* the number of chunks _split_message makes of each
    Unroutable,     \* replies to a chat no channel owns
    OutChats, ChatOf,               \* chats, and the chat of each reply
    CHUNK_MAX_RETRIES,
    PortalSessions,                       \* session identifiers
    MAX_SESSIONS, MAX_SESSION_MESSAGES, SESSION_TTL,
    MaxOpenPolls, MaxPosts, MaxOutFaults     \* bounds

ASSUME OutAssumption ==
    /\ CHUNK_MAX_RETRIES \in Nat /\ SESSION_TTL \in Nat /\ MAX_SESSIONS \in Nat \ {0} /\ MAX_SESSION_MESSAGES \in Nat \ {0}
    /\ \A r \in Replies : ChunksOf[r] \in Nat \ {0} /\ ChatOf[r] \in OutChats

\* Neither name stands for a reply, a session or a chat.
ASSUME NameAssumption == "question" \notin Replies /\ "none" \notin PortalSessions \cup OutChats

Notice == 0     \* the message that tells of a failed delivery, among the chunks of a reply

VARIABLES
    route,      \* the calls of route_outbound
    chat,       \* for each reply: the chunks, in the order they reached the chat
    clock,      \* time.time()
    sessions,   \* _sessions
    page,       \* the page: its session, lastTs, what it shows, and whether anything twice
    polls,      \* requests of the page: sent, or answered and on their way back
    post,       \* the request in _api_send
    races,      \* history: what the page did that it cannot cope with
    outBudget   \* posts and faults so far

outVars == <<route, chat, clock, sessions, page, polls, post, races, outBudget>>
portalVars == <<sessions, page, polls, post, races>>

NoPortalSession == [chat |-> "none"]
PageOf(s) == [session |-> s, lastTs |-> 0, shown |-> {}, twice |-> FALSE]
Live == {s \in PortalSessions : sessions[s] # NoPortalSession}

OutInit ==
    /\ route = [r \in Replies |-> [at |-> "idle"]]
    /\ chat = [r \in Replies |-> <<>>]
    /\ clock = 0
    /\ sessions = [s \in PortalSessions |-> NoPortalSession]
    /\ page = PageOf("none")
    /\ polls = {} /\ post = [at |-> "idle"] /\ races = {}
    /\ outBudget = [posts |-> 0, faults |-> 0]

OutFault == outBudget.faults < MaxOutFaults /\ outBudget' = [outBudget EXCEPT !.faults = @ + 1]

-----------------------------------------------------------------------------
(* route_outbound: chunk after chunk, each with its retries.                  *)

To(r, state) == route' = [route EXCEPT ![r] = state]
Arrives(r, c) == chat' = [chat EXCEPT ![r] = Append(@, c)]

StartRoute(r) ==
    /\ route[r].at = "idle"
    /\ To(r, IF r \in Unroutable THEN [at |-> "store"] ELSE [at |-> "send", chunk |-> 1, attempt |-> 0])
    /\ UNCHANGED <<chat, clock, portalVars, outBudget>>

NextChunk(r) ==
    IF route[r].chunk = ChunksOf[r] THEN [at |-> "store"]
    ELSE [at |-> "send", chunk |-> route[r].chunk + 1, attempt |-> 0]

SendChunk(r) ==
    /\ route[r].at = "send"
    /\ Arrives(r, route[r].chunk)
    /\ To(r, NextChunk(r))
    /\ UNCHANGED <<clock, portalVars, outBudget>>

\* Mutant: the loop over the chunks goes on after the notice.
SkipChunk(r) == [at |-> "notify", then |-> NextChunk(r)]

\* The last attempt failed: the user is told, and the rest is dropped.
GiveUp(r) == [at |-> "notify", then |-> [at |-> "store"]]

\* send_message raises, before the chunk arrived or after it (a lost answer).
SendFails(r) ==
    /\ route[r].at = "send" /\ OutFault
    /\ Arrives(r, route[r].chunk) \/ UNCHANGED chat
    /\ To(r, IF route[r].attempt < CHUNK_MAX_RETRIES THEN [route[r] EXCEPT !.attempt = @ + 1] ELSE GiveUp(r))
    /\ UNCHANGED <<clock, portalVars>>

\* The notice has one attempt of its own, and its failure is swallowed.
Notify(r) ==
    /\ route[r].at = "notify"
    /\ \/ Arrives(r, Notice) /\ UNCHANGED outBudget
       \/ OutFault /\ UNCHANGED chat
    /\ To(r, route[r].then)
    /\ UNCHANGED <<clock, portalVars>>

-----------------------------------------------------------------------------
(* The sessions of the portal.                                                *)

\* A full session forgets its oldest message.
AddTo(session, m) ==
    [session EXCEPT !.messages =
        Append(IF Len(@) >= MAX_SESSION_MESSAGES THEN Tail(@) ELSE @, m)]

\* deliver_reply: every session of the chat gets the whole reply, whatever the channel got.
DeliverReply(r) ==
    /\ route[r].at = "store"
    /\ clock' = clock + 1
    /\ sessions' = [s \in PortalSessions |->
          IF sessions[s].chat = ChatOf[r] THEN AddTo(sessions[s], [text |-> r, ts |-> clock']) ELSE sessions[s]]
    /\ To(r, [at |-> "done"])
    /\ UNCHANGED <<chat, page, polls, post, races, outBudget>>

Expired(table) == {s \in PortalSessions : table[s] # NoPortalSession /\ table[s].idle > SESSION_TTL}
ExpireSessions(table) == [s \in PortalSessions |-> IF s \in Expired(table) THEN NoPortalSession ELSE table[s]]

\* /api/session, and the page that selects a chat.  At the cap it gets no session.
OpenPortalSession(g) ==
    LET rest == ExpireSessions(sessions)
        used == {s \in PortalSessions : rest[s] # NoPortalSession}
    IN  /\ \/ /\ Cardinality(used) < MAX_SESSIONS
              /\ \E s \in PortalSessions \ (used \cup {page.session}) :
                    /\ sessions' = [rest EXCEPT ![s] = [chat |-> g, messages |-> <<>>, idle |-> 0]]
                    /\ page' = PageOf(s)
           \/ /\ Cardinality(used) >= MAX_SESSIONS
              /\ sessions' = rest
              /\ page' = PageOf("none")
        /\ races' = IF polls # {} THEN races \cup {"switch"} ELSE races
        /\ UNCHANGED <<route, chat, clock, polls, post, outBudget>>

-----------------------------------------------------------------------------
(* The page polls once a second, whether or not the last answer is back.      *)

Free == CHOOSE i \in 1..MaxOpenPolls : \A p \in polls : p.id # i

SendPoll ==
    /\ page.session # "none" /\ Cardinality(polls) < MaxOpenPolls
    /\ polls' = polls \cup {[id |-> Free, session |-> page.session, since |-> page.lastTs]}
    /\ races' = IF polls # {} THEN races \cup {"overlap"} ELSE races
    /\ UNCHANGED <<route, chat, clock, sessions, page, post, outBudget>>

\* Mutant: what is as old as the newest message shown is sent again.
NotOlder(m, since) == m.ts >= since

Newer(m, since) == m.ts > since

\* _api_poll; every sixtieth also expires sessions.  An unknown session has no messages.
ServePoll(p) ==
    /\ p \in polls /\ "since" \in DOMAIN p
    /\ LET known == sessions[p.session] # NoPortalSession
           table == IF known THEN [sessions EXCEPT ![p.session].idle = 0] ELSE sessions
           found == IF known THEN {m \in ToSet(sessions[p.session].messages) : Newer(m, p.since)} ELSE {}
       IN  /\ polls' = (polls \ {p}) \cup {[id |-> p.id, messages |-> found]}
           /\ sessions' \in {table, ExpireSessions(table)}
    /\ UNCHANGED <<route, chat, clock, page, post, races, outBudget>>

ShowPoll(p) ==
    /\ p \in polls /\ "messages" \in DOMAIN p
    /\ polls' = polls \ {p}
    /\ page' = [page EXCEPT !.shown = @ \cup p.messages,
                            !.twice = @ \/ page.shown \cap p.messages # {},
                            !.lastTs = Max({@} \cup {m.ts : m \in p.messages})]
    /\ UNCHANGED <<route, chat, clock, sessions, post, races, outBudget>>

-----------------------------------------------------------------------------
(* _api_send: the time is taken before the lock, the session looked up twice. *)

PostStarts ==
    /\ post.at = "idle" /\ page.session # "none" /\ outBudget.posts < MaxPosts
    /\ sessions[page.session] # NoPortalSession
    /\ clock' = clock + 1
    /\ post' = [at |-> "append", session |-> page.session, ts |-> clock']
    /\ outBudget' = [outBudget EXCEPT !.posts = @ + 1]
    /\ UNCHANGED <<route, chat, sessions, page, polls, races>>

\* The session may have expired in between.  The message then goes into the database
\* (MessagePipeline); what _pending_replies records is never read.
PostAppends ==
    /\ post.at = "append"
    /\ post' = [at |-> "idle"]
    /\ sessions' = IF sessions[post.session] = NoPortalSession THEN sessions
                   ELSE [sessions EXCEPT ![post.session] = AddTo(@, [text |-> "question", ts |-> post.ts])]
    /\ UNCHANGED <<route, chat, clock, page, polls, races, outBudget>>

\* The page is suspended, or its network is gone: the sessions grow idle.
Idling ==
    /\ \E s \in Live : sessions[s].idle <= SESSION_TTL
    /\ sessions' = [s \in PortalSessions |->
          IF s \in Live THEN [sessions[s] EXCEPT !.idle = Min({@ + 1, SESSION_TTL + 1})] ELSE sessions[s]]
    /\ UNCHANGED <<route, chat, clock, page, polls, post, races, outBudget>>

OutNext ==
    \/ \E r \in Replies : StartRoute(r) \/ SendChunk(r) \/ SendFails(r) \/ Notify(r) \/ DeliverReply(r)
    \/ \E g \in OutChats : OpenPortalSession(g)
    \/ SendPoll
    \/ \E p \in polls : ServePoll(p) \/ ShowPoll(p)
    \/ PostStarts \/ PostAppends
    \/ Idling

OutSpec == OutInit /\ [][OutNext]_outVars

-----------------------------------------------------------------------------
(* Properties.                                                                *)

\* route_outbound leaves no gap: what a chat has of a reply are its first chunks in order, a
\* chunk repeated where the answer to its sending was lost, and nothing after the notice.
\* A routable reply that is through without its last chunk met a failure.
ChunksInOrder ==
    \A r \in Replies :
        /\ \A i \in DOMAIN chat[r] :
              IF chat[r][i] = Notice THEN i = Len(chat[r])
              ELSE IF i = 1 THEN chat[r][i] = 1
              ELSE chat[r][i] - chat[r][i-1] \in {0, 1}
        /\ route[r].at \in {"store", "done"} /\ r \notin Unroutable =>
              \/ outBudget.faults > CHUNK_MAX_RETRIES
              \/ chat[r] # <<>> /\ Last(chat[r]) = ChunksOf[r]

\* The page shows every reply of its session that is not newer than lastTs, which is what
\* the next poll of _api_poll leaves out, unless it changed its session while a poll was
\* under way.  (The user's own messages carry a time taken before the lock and may be missed.)
NoReplyMissed ==
    page.session \in Live /\ "switch" \notin races =>
        \A i \in DOMAIN sessions[page.session].messages :
            LET m == sessions[page.session].messages[i]
            IN  m.text \in Replies /\ m.ts <= page.lastTs => m \in page.shown

\* The page shows nothing twice, unless two polls were under way at once: setInterval does
\* not wait for the answer.
ShownOnce == races = {} => ~page.twice

\* A reply reaches its chat without a gap (route_outbound) and the portal's page completely
\* and once (deliver_reply, _api_poll), except in the races the parts name.
DeliverySound == ChunksInOrder /\ NoReplyMissed /\ ShownOnce

=============================================================================
