------------------------------ MODULE Inbound ------------------------------
(* The way of a message from a channel into the messages table: _on_message   *)
(* of host/main.py with its limiters and duplicate filter, and the immune     *)
(* memory of host/evolution/immune.py it consults.  Everything between the    *)
(* arrival and the INSERT runs without an await that yields, so one delivery  *)
(* is one step; limiters and filter live in memory, the immune memory is a    *)
(* table that survives the process.  Times are kept as ages, up to the age at *)
(* which nothing tells them apart any more.  Of the notices to the chat only  *)
(* those of a refusal are kept, as part of the history.                       *)
EXTENDS Integers, Sequences, SequencesExt, FiniteSets, FiniteSetsExt

CONSTANTS
    Senders, Chats, Texts,
    Injections,         \* the texts one of INJECTION_PATTERNS matches
    Allowlist,          \* load_sender_allowlist(): {} allows everybody
    Grants,             \* senders with a role that may submit; {} is unconfigured
    SENDER_MAX, GROUP_MAX, WINDOW,        \* the two sliding windows
    SENDERS_MAX,                          \* _SENDER_TIMESTAMPS_MAX
    DEDUP_TTL, DEDUP_MAX,
    SPAM_THRESHOLD, THREAT_BLOCK_THRESHOLD,
    HOUR, QUARTER,      \* the spam window and the 90 days of the pruning
    MaxDeliveries, MaxInFaults    \* bounds; a crash is one of the faults

ASSUME InAssumption ==
    /\ SENDER_MAX \in Nat \ {0} /\ GROUP_MAX \in Nat \ {0}
    /\ SENDERS_MAX \in Nat \ {0} /\ DEDUP_MAX \in Nat \ {0}
    /\ {WINDOW, DEDUP_TTL} \subseteq Nat \ {0}
    /\ WINDOW < HOUR /\ DEDUP_TTL < HOUR /\ HOUR < QUARTER
    /\ {HOUR, QUARTER, MaxDeliveries, MaxInFaults} \subseteq Nat
    /\ Injections \subseteq Texts

Messages == [chat : Chats, sender : Senders, text : Texts]
NoStore == [copies |-> 0, age |-> DEDUP_TTL]

VARIABLES
    senderQ,    \* _sender_msg_timestamps: the senders in insertion order, and their ages
    groupQ,     \* _group_msg_timestamps
    seen,       \* _seen_msg_fingerprints: least recently used first, and their ages
    threats,    \* rows of immune_threats, by sender and content hash; count 0: no row
    stored,     \* rows of messages: the copies of each message and the age of the last
    welcomed,   \* chats with the state "welcomed:<jid>"
    passed,     \* history: ages, up to WINDOW, of what passed each limiter since it last forgot
    settled,    \* history: age of the last time each message was stored, or refused with a notice
    lost,       \* history: messages whose INSERT failed
    forgot,     \* history: messages whose fingerprint was evicted or died with the process
    incidents,  \* history: injections and spam of each sender
    inBudget    \* deliveries and faults so far

inVars == <<senderQ, groupQ, seen, threats, stored, welcomed, passed, settled, lost, forgot, incidents, inBudget>>
memoryVars == <<senderQ, groupQ, seen, passed, forgot>>

\* What is in memory when the process starts.  A sender without an entry has no ages, a
\* message without a fingerprint the age at which nothing tells them apart any more.
NoSenders == [order |-> <<>>, ages |-> [s \in Senders |-> <<>>]]
NoGroups == [g \in Chats |-> <<>>]
NoneSeen == [order |-> <<>>, age |-> [m \in Messages |-> DEDUP_TTL]]
NonePassed == [senders |-> [s \in Senders |-> <<>>], chats |-> [g \in Chats |-> <<>>]]

NoRow == [count |-> 0, blocked |-> FALSE, last_seen |-> QUARTER + 1]

InInit ==
    /\ senderQ = NoSenders /\ groupQ = NoGroups /\ seen = NoneSeen
    /\ threats = [p \in Senders \X Texts |-> NoRow]
    /\ stored = [m \in Messages |-> NoStore]
    /\ welcomed = {}
    /\ passed = NonePassed
    /\ settled = [m \in Messages |-> DEDUP_TTL]
    /\ lost = {} /\ forgot = {}
    /\ incidents = [s \in Senders |-> 0]
    /\ inBudget = [deliveries |-> 0, faults |-> 0]

-----------------------------------------------------------------------------
(* Who may write at all.                                                      *)

is_sender_allowed(s) == Allowlist = {} \/ s \in Allowlist

has_permission(s) == Grants = {} \/ s \in Grants

-----------------------------------------------------------------------------
(* The sliding windows.                                                       *)

\* The oldest entries are dropped while they are out of the window.
Recent(q, age) ==
    LET first == SelectInSeq(q, LAMBDA t : t <= age)
    IN  IF first = 0 THEN <<>> ELSE SubSeq(q, first, Len(q))

\* Mutant: a timestamp leaves the window one tick early.
InWindowShort(q) == Recent(q, WINDOW - 1)

InWindow(q) == Recent(q, WINDOW)

SenderAges(s) == senderQ.ages[s]

\* The table of senders when s is looked up: the oldest entry makes room for a new one.
Evicting(s) == s \notin ToSet(senderQ.order) /\ Len(senderQ.order) >= SENDERS_MAX

Evicted(s) == IF Evicting(s) THEN {Head(senderQ.order)} ELSE {}

SendersWith(s, ages) ==
    [order |-> IF s \in ToSet(senderQ.order) THEN senderQ.order
               ELSE Append(IF Evicting(s) THEN Tail(senderQ.order) ELSE senderQ.order, s),
     ages |-> [x \in Senders |-> IF x = s THEN ages
                                 ELSE IF x \in Evicted(s) THEN <<>> ELSE SenderAges(x)]]

SenderLimited(s) == Len(InWindow(SenderAges(s))) >= SENDER_MAX
GroupLimited(g) == Len(InWindow(groupQ[g])) >= GROUP_MAX

\* An evicted sender starts afresh, and so does the history of its window.
Forgotten(s) ==
    [x \in Senders |-> IF x \in Evicted(s) THEN <<>> ELSE passed.senders[x]]

\* _is_sender_rate_limited: a refused message takes no slot.
SenderSlot(s, taken) ==
    /\ senderQ' = SendersWith(s, InWindow(SenderAges(s)) \o taken)

\* _is_rate_limited
GroupSlot(g, taken) ==
    /\ groupQ' = [groupQ EXCEPT ![g] = InWindow(@) \o taken]

-----------------------------------------------------------------------------
(* The duplicate filter.                                                      *)

Others(m) == RemoveFirst(seen.order, m)

\* Mutant: a fingerprint never expires.
SeenEver(m) == m \in ToSet(seen.order)

SeenRecently(m) == m \in ToSet(seen.order) /\ seen.age[m] < DEDUP_TTL

\* A duplicate becomes the most recently used entry and keeps its time.
Touch(m) == seen' = [seen EXCEPT !.order = Append(Others(m), m)]

\* The fingerprints with that of m as a new one; when there are too many, without the first.
Fingerprints(m) == Append(Others(m), m)
Dropped(m) == IF Len(Fingerprints(m)) > DEDUP_MAX THEN {Head(Fingerprints(m))} ELSE {}

\* Mutant: an expired fingerprint is deleted and not recorded again.
RememberOnce(m) ==
    /\ seen' = IF m \in ToSet(seen.order)
               THEN [order |-> Others(m), age |-> [seen.age EXCEPT ![m] = DEDUP_TTL]]
               ELSE [order |-> Fingerprints(m), age |-> [seen.age EXCEPT ![m] = 0]]
    /\ forgot' = forgot

\* The fingerprint is recorded before the message is checked or stored.
RememberMsg(m) ==
    /\ seen' = [order |-> IF Dropped(m) = {} THEN Fingerprints(m) ELSE Tail(Fingerprints(m)),
                age |-> [x \in Messages |-> IF x \in Dropped(m) THEN DEDUP_TTL
                                             ELSE IF x = m THEN 0 ELSE seen.age[x]]]
    /\ forgot' = (forgot \ {m}) \cup Dropped(m)

-----------------------------------------------------------------------------
(* The immune memory.                                                         *)

\* db.record_immune_threat: one row per sender and content, whatever its type.
Recorded(rows, s, t) ==
    [rows EXCEPT ![<<s, t>>] = [count |-> @.count + 1, blocked |-> @.blocked, last_seen |-> 0]]

\* What record_immune_threat returns: the sum over all rows of the sender.
Total(rows, s) == MapThenSumSet(LAMBDA t : rows[s, t].count, Texts)

\* db.block_sender marks the rows the sender has.
Blocked(rows, s) ==
    [p \in DOMAIN rows |->
        IF p[1] = s /\ rows[p].count > 0 THEN [rows[p] EXCEPT !.blocked = TRUE] ELSE rows[p]]

\* immune._record_threat; its errors are swallowed.
RecordThreat(rows, s, t) ==
    LET new == Recorded(rows, s, t)
    IN  IF Total(new, s) >= THREAT_BLOCK_THRESHOLD THEN Blocked(new, s) ELSE new

is_sender_blocked(s) == \E t \in Texts : threats[s, t].blocked

\* get_recent_threat_count on the rows after _track_message.
IsSpam(rows, s, t) ==
    rows[s, t].count >= SPAM_THRESHOLD /\ rows[s, t].last_seen < HOUR

Tracked(m) == Recorded(threats, m.sender, m.text)

Result(verdict, rows) == [verdict |-> verdict, rows |-> rows]

\* _is_spam after _track_message left these rows.
SpamCheck(rows, s, t) ==
    IF IsSpam(rows, s, t) THEN Result("spam", RecordThreat(rows, s, t)) ELSE Result("safe", rows)

\* check_message without errors: the verdict, and the rows it leaves.
check_message(m) ==
    IF is_sender_blocked(m.sender) THEN Result("blocked", threats)
    ELSE IF m.text \in Injections THEN Result("injection", RecordThreat(threats, m.sender, m.text))
    ELSE SpamCheck(Tracked(m), m.sender, m.text)

\* With one error of SQLite.  A locked database lets the message through unseen, any other
\* error of the first query refuses it.  Later errors are swallowed: a threat that is not
\* recorded, or recorded and not followed by the block; a message that is not tracked; a
\* count that reads as no spam.
CheckFaulty(m) ==
    {Result("safe", threats), Result("immune_check_error", threats)}
    \cup (IF is_sender_blocked(m.sender) THEN {}
          ELSE IF m.text \in Injections
          THEN {Result("injection", r) : r \in {threats, Recorded(threats, m.sender, m.text)}}
          ELSE {SpamCheck(threats, m.sender, m.text), Result("safe", Tracked(m))}
               \cup {Result("spam", r) :
                       r \in IF IsSpam(Tracked(m), m.sender, m.text)
                             THEN {Tracked(m), Recorded(Tracked(m), m.sender, m.text)} ELSE {}})

-----------------------------------------------------------------------------
(* _on_message: one action for each way a delivery ends.                      *)

Spend(what) == inBudget' = [inBudget EXCEPT ![what] = @ + 1]
CanDeliver == inBudget.deliveries < MaxDeliveries
MayFault == inBudget.faults < MaxInFaults

\* The allow-list and the roles come first and touch nothing.
Admissible(m) == is_sender_allowed(m.sender) /\ has_permission(m.sender)

Reject(m) == ~Admissible(m) /\ UNCHANGED inVars

LimitSender(m) ==
    /\ CanDeliver /\ Admissible(m) /\ SenderLimited(m.sender)
    /\ SenderSlot(m.sender, <<>>)
    /\ Spend("deliveries")
    /\ UNCHANGED <<groupQ, seen, threats, stored, welcomed, passed, settled, lost, forgot, incidents>>

\* A message over the group's limit has already used a slot of its sender.
LimitGroup(m) ==
    /\ CanDeliver /\ Admissible(m) /\ ~SenderLimited(m.sender) /\ GroupLimited(m.chat)
    /\ SenderSlot(m.sender, <<0>>) /\ GroupSlot(m.chat, <<>>)
    /\ passed' = [senders |-> [Forgotten(m.sender) EXCEPT ![m.sender] = Append(@, 0)],
                  chats |-> passed.chats]
    /\ Spend("deliveries")
    /\ UNCHANGED <<seen, threats, stored, welcomed, settled, lost, forgot, incidents>>

PassLimits(m) ==
    /\ CanDeliver /\ Admissible(m)
    /\ ~SenderLimited(m.sender) /\ ~GroupLimited(m.chat)
    /\ SenderSlot(m.sender, <<0>>) /\ GroupSlot(m.chat, <<0>>)
    /\ passed' = [senders |-> [Forgotten(m.sender) EXCEPT ![m.sender] = Append(@, 0)],
                  chats |-> [passed.chats EXCEPT ![m.chat] = Append(@, 0)]]

DropDuplicate(m) ==
    /\ PassLimits(m)
    /\ SeenRecently(m) /\ Touch(m)
    /\ Spend("deliveries")
    /\ UNCHANGED <<threats, stored, welcomed, settled, lost, forgot, incidents>>

\* The immune check refuses: the chat gets a notice, the message is not stored.
Refuse(m, check) ==
    /\ check.verdict # "safe"
    /\ threats' = check.rows
    /\ settled' = [settled EXCEPT ![m] = 0]
    /\ incidents' = [incidents EXCEPT ![m.sender] = IF check.verdict \in {"injection", "spam"} THEN @ + 1 ELSE @]
    /\ UNCHANGED <<stored, welcomed, lost>>

\* The message is stored and the queue is told (MessagePipeline, GroupQueue).  The welcome
\* and the notice that the group is busy are not sent: route_outbound is a local name of
\* _on_message, bound only where a message is refused, and the error is logged and dropped.
Accept(m, check) ==
    /\ check.verdict = "safe"
    /\ threats' = check.rows
    /\ stored' = [stored EXCEPT ![m] = [copies |-> @.copies + 1, age |-> 0]]
    /\ welcomed' = welcomed \cup {m.chat}
    /\ settled' = [settled EXCEPT ![m] = 0]
    /\ lost' = lost \ {m}
    /\ UNCHANGED incidents

\* db.store_message raises, and with it _on_message.
LoseMessage(m, check) ==
    /\ check.verdict = "safe"
    /\ threats' = check.rows
    /\ lost' = lost \cup {m}
    /\ UNCHANGED <<stored, welcomed, settled, incidents>>

Admit(m) ==
    /\ PassLimits(m)
    /\ ~SeenRecently(m) /\ RememberMsg(m)
    /\ \/ Spend("deliveries") /\ (Refuse(m, check_message(m)) \/ Accept(m, check_message(m)))
       \/ /\ MayFault /\ inBudget' = [deliveries |-> inBudget.deliveries + 1, faults |-> inBudget.faults + 1]
          /\ \/ \E c \in CheckFaulty(m) : Refuse(m, c) \/ Accept(m, c)
             \/ LoseMessage(m, check_message(m))

-----------------------------------------------------------------------------
(* The clock, the pruning of the evolution daemon, and the process.           *)

Older(age, cap) == Min({age + 1, cap})

OlderAll(ages) == [i \in DOMAIN ages |-> Older(ages[i], WINDOW + 1)]

InTick ==
    /\ senderQ' = [senderQ EXCEPT !.ages = [s \in Senders |-> OlderAll(SenderAges(s))]]
    /\ groupQ' = [g \in Chats |-> OlderAll(groupQ[g])]
    /\ seen' = [seen EXCEPT !.age = [m \in Messages |-> Older(seen.age[m], DEDUP_TTL)]]
    /\ threats' = [p \in DOMAIN threats |-> [threats[p] EXCEPT !.last_seen = Older(@, QUARTER + 1)]]
    /\ stored' = [m \in Messages |-> [stored[m] EXCEPT !.age = Older(@, DEDUP_TTL)]]
    /\ passed' = [senders |-> [s \in Senders |-> Recent(OlderAll(passed.senders[s]), WINDOW)],
                  chats |-> [g \in Chats |-> Recent(OlderAll(passed.chats[g]), WINDOW)]]
    /\ settled' = [m \in Messages |-> Older(settled[m], DEDUP_TTL)]
    /\ UNCHANGED <<welcomed, lost, forgot, incidents, inBudget>>

\* Mutant: what is blocked is pruned as well.
PrunableAny(row) == row.count = 1 /\ row.last_seen > QUARTER

Prunable(row) == row.count = 1 /\ ~row.blocked /\ row.last_seen > QUARTER

\* db.prune_old_logs on immune_threats; the messages go after 30 days.
PruneThreats ==
    /\ \E p \in DOMAIN threats : Prunable(threats[p])
    /\ threats' = [p \in DOMAIN threats |-> IF Prunable(threats[p]) THEN NoRow ELSE threats[p]]
    /\ UNCHANGED <<memoryVars, stored, welcomed, settled, lost, incidents, inBudget>>

InCrash ==
    /\ MayFault /\ Spend("faults")
    /\ senderQ' = NoSenders /\ groupQ' = NoGroups /\ seen' = NoneSeen
    /\ passed' = NonePassed
    /\ forgot' = Messages
    /\ UNCHANGED <<threats, stored, welcomed, settled, lost, incidents>>

InNext ==
    \/ \E m \in Messages :
          Reject(m) \/ LimitSender(m) \/ LimitGroup(m) \/ DropDuplicate(m) \/ Admit(m)
    \/ InTick
    \/ PruneThreats
    \/ InCrash

InSpec == InInit /\ [][InNext]_inVars

-----------------------------------------------------------------------------
(* Properties.                                                                *)

Copies(m) == stored[m].copies

\* In no interval of the window's length do more messages of a sender, or of a chat, get
\* past _is_sender_rate_limited and _is_rate_limited than their maxima, as long as the
\* limiter has not lost the sender to a full table or to a restart.
WindowsHold ==
    /\ \A s \in Senders : Len(passed.senders[s]) <= SENDER_MAX
    /\ \A g \in Chats : Len(passed.chats[g]) <= GROUP_MAX

\* _is_duplicate_message: a message is not stored again until _DEDUP_TTL_SECS after its
\* last copy, unless its fingerprint was evicted from the full table or lost in a restart.
StoredOncePerTtl ==
    [][stored' # stored => \A m \in Messages :
          Copies(m)' # Copies(m) /\ m \notin forgot => stored[m].age >= DEDUP_TTL]_inVars

\* A message that is dropped without a word as a duplicate was stored, or refused with a
\* notice, within the last _DEDUP_TTL_SECS, unless storing it failed: the fingerprint is
\* recorded first, so then the retry of the channel is dropped as well.
DuplicatesBacked ==
    [][inBudget' # inBudget => \A m \in Messages :
          DropDuplicate(m) /\ m \notin lost => settled[m] < DEDUP_TTL]_inVars

\* A blocked sender stays blocked, through restarts and prune_old_logs, and no message of
\* its is stored except by the check that a locked database lets through.
BlockHolds ==
    [][\A s \in Senders : is_sender_blocked(s) =>
          /\ is_sender_blocked(s)'
          /\ \A m \in Messages : m.sender = s /\ Copies(m)' # Copies(m)
                                    => inBudget'.faults > inBudget.faults]_inVars

\* immune.py blocks a sender once its threats reach THREAT_BLOCK_THRESHOLD.  What it counts
\* are the rows of every message the sender has sent (violated).
BlockedForThreats ==
    \A s \in Senders : is_sender_blocked(s) => incidents[s] >= THREAT_BLOCK_THRESHOLD

\* What _on_message lets through: the limits of both windows hold, nothing is stored twice
\* within _DEDUP_TTL_SECS, what is dropped as a duplicate was dealt with, and a block of
\* the immune system lasts.
AdmissionSound == []WindowsHold /\ StoredOncePerTtl /\ DuplicatesBacked /\ BlockHolds

=============================================================================
