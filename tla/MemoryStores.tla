---------------------------- MODULE MemoryStores ----------------------------
(* The memory layers of host/memory: hot memory (one text of bounded size per *)
(* group), the warm log and its periodic work (warm.py, compound.py), and the *)
(* memory bus over shared_memories and the vector index (memory_bus.py), which *)
(* remember() and the VectorIngestor both feed.  An embedding is awaited, so  *)
(* the coroutines of store() interleave over one queue of failed embeddings.  *)
EXTENDS Integers, Sequences, SequencesExt, FiniteSets

CONSTANTS
    Memories,       \* what agents remember, each by a coroutine of its own
    Logs,           \* entries of the warm log
    OwnerOf,        \* the agent that remembers each memory; a log's is its group
    ScopeOf,        \* "private" or "shared" for each memory
    HotMax,         \* size limit of hot memory, in entries (8 KB in the code)
    BATCH_SIZE,     \* logs the ingestor takes at a time
    MaxDbFaults,    \* bound: SQLite errors
    MaxMemCrashes   \* bound: ends of the host process

\* The notes of hot memory and the ingestor are told apart from what is remembered and logged.
ASSUME MemAssumption ==
    /\ HotMax \in Nat /\ BATCH_SIZE \in Nat \ {0}
    /\ IsFiniteSet(Logs) /\ Memories \cap Logs = {}
    /\ "ingestor" \notin Memories /\ {"sync", "week"} \cap Logs = {}

Ids == Memories \cup Logs
Agents == {OwnerOf[i] : i \in Ids}
Storers == Memories \cup {"ingestor"}

VARIABLES
    hot,           \* the group's hot memory, a sequence of entries
    warmLog,       \* "none", "new", "vectorized" or "pruned" for each log
    sharedRows,    \* rows of shared_memories
    vecRows,       \* rows of vec_memories and, in the same transaction, vec_index
    pendingEmbed,  \* VectorStore._pending_embed
    storer,        \* the coroutines inside VectorStore.store
    ingest_batch,  \* logs the ingestor has read and not yet stored
    excused,       \* history: ids lost for a reason (see NoEmbeddingLost)
    forgotten,     \* history: memories their owner has forgotten once they were settled
    memFaults      \* SQLite errors and crashes so far

memVars == <<hot, warmLog, sharedRows, vecRows, pendingEmbed, storer, ingest_batch, excused, forgotten, memFaults>>

IdleStorer == [at |-> "idle"]

MemInit ==
    /\ hot = <<>>
    /\ warmLog = [l \in Logs |-> "none"]
    /\ sharedRows = {} /\ vecRows = {}
    /\ pendingEmbed = <<>>
    /\ storer = [t \in Storers |-> IdleStorer]
    /\ ingest_batch = <<>>
    /\ excused = {} /\ forgotten = {}
    /\ memFaults = [db |-> 0, crashes |-> 0]

DbFault ==
    /\ memFaults.db < MaxDbFaults
    /\ memFaults' = [memFaults EXCEPT !.db = @ + 1]

-----------------------------------------------------------------------------
(* Hot memory and the warm log: synchronous code on the event loop.           *)

\* update_hot_memory, called only with what fits: the check is the callers'.
AppendHot(entry) ==
    hot' = IF Len(hot) < HotMax THEN Append(hot, entry) ELSE hot

\* append_warm_log: the entry is logged and, when it scores 0.85 or more, also
\* appended to hot memory.
AppendWarmLog(l) ==
    /\ warmLog[l] = "none"
    /\ warmLog' = [warmLog EXCEPT ![l] = "new"]
    /\ AppendHot(l) \/ UNCHANGED hot
    /\ UNCHANGED <<sharedRows, vecRows, pendingEmbed, storer, ingest_batch, excused, forgotten, memFaults>>

AddNoteAlways(note) == AppendHot(note)

\* A periodic note is added once: "if sync_note not in current_hot".
AddNote(note) == IF note \in ToSet(hot) THEN UNCHANGED hot ELSE AppendHot(note)

\* run_micro_sync: nothing without a recent log, else the day's note.
MicroSync ==
    /\ \E l \in Logs : warmLog[l] \in {"new", "vectorized"}
    /\ AddNote("sync")
    /\ UNCHANGED <<warmLog, sharedRows, vecRows, pendingEmbed, storer, ingest_batch, excused, forgotten, memFaults>>

\* run_weekly_compound: old logs are deleted and the week's note is added.
WeeklyCompound ==
    /\ \E old \in SUBSET {l \in Logs : warmLog[l] \in {"new", "vectorized"}} :
          warmLog' = [l \in Logs |-> IF l \in old THEN "pruned" ELSE warmLog[l]]
    /\ AddNote("week")
    /\ UNCHANGED <<sharedRows, vecRows, pendingEmbed, storer, ingest_batch, excused, forgotten, memFaults>>

-----------------------------------------------------------------------------
(* VectorStore.store: the failed embeddings are retried, then the new id.     *)

\* retry_pending takes the whole queue, and the new id comes last.
EnterStore(t, id) ==
    /\ storer' = [storer EXCEPT ![t] = [at |-> "store", id |-> id, queue |-> pendingEmbed]]
    /\ pendingEmbed' = <<>>

RetryHead(t, requeue) ==
    LET item == Head(storer[t].queue) IN
    /\ storer[t].at = "store" /\ storer[t].queue # <<>>
    /\ storer' = [storer EXCEPT ![t].queue = Tail(@)]
    /\ \/ /\ vecRows' = vecRows \cup {item}
          /\ UNCHANGED <<pendingEmbed, memFaults>>
       \/ /\ UNCHANGED memFaults \/ DbFault
          /\ pendingEmbed' = IF requeue THEN Append(pendingEmbed, item) ELSE pendingEmbed
          /\ UNCHANGED vecRows
    /\ UNCHANGED <<hot, warmLog, sharedRows, ingest_batch, excused, forgotten>>

RetryOnce(t) == RetryHead(t, FALSE)

\* An embedding of the taken queue arrives and both rows are written; without a
\* vector, or after an SQLite error, the item goes back to the queue.
RetryItem(t) == RetryHead(t, TRUE)

ReturnWith(t, mark) ==
    /\ storer' = [storer EXCEPT ![t] = IF t = "ingestor" THEN IdleStorer ELSE [at |-> "done"]]
    /\ IF t = "ingestor"
       THEN /\ ingest_batch' = Tail(ingest_batch)
            /\ warmLog' = [warmLog EXCEPT ![Head(ingest_batch)] = IF @ = "new" THEN mark ELSE @]
       ELSE UNCHANGED <<ingest_batch, warmLog>>

ReturnUnmarked(t) == ReturnWith(t, "new")

\* What follows store(): remember() returns; the ingestor marks the log as
\* vectorized, whatever became of it.
Return(t) == ReturnWith(t, "vectorized")

\* The new id's embedding arrives: without one the id is queued for retry; an
\* SQLite error is logged and the id is dropped.
StoreOwn(t) ==
    LET id == storer[t].id IN
    /\ storer[t].at = "store" /\ storer[t].queue = <<>>
    /\ \/ /\ pendingEmbed' = Append(pendingEmbed, id)
          /\ UNCHANGED <<vecRows, memFaults, excused>>
       \/ /\ vecRows' = vecRows \cup {id}
          /\ UNCHANGED <<pendingEmbed, memFaults, excused>>
       \/ /\ DbFault
          /\ excused' = excused \cup {id}
          /\ UNCHANGED <<vecRows, pendingEmbed>>
    /\ Return(t)
    /\ UNCHANGED <<hot, sharedRows, forgotten>>

\* The mark itself fails: the log is stored again in a later batch.
MarkFails ==
    /\ storer["ingestor"].at = "store" /\ storer["ingestor"].queue = <<>>
    /\ DbFault
    /\ vecRows' = vecRows \cup {storer["ingestor"].id}
    /\ storer' = [storer EXCEPT !["ingestor"] = IdleStorer]
    /\ ingest_batch' = Tail(ingest_batch)
    /\ UNCHANGED <<hot, warmLog, sharedRows, pendingEmbed, excused, forgotten>>

\* remember(): the row is written, or not (the error is logged), and the id goes
\* to the vector store either way.
Remember(m) ==
    /\ storer[m] = IdleStorer
    /\ \/ sharedRows' = sharedRows \cup {m} /\ UNCHANGED memFaults
       \/ DbFault /\ UNCHANGED sharedRows
    /\ EnterStore(m, m)
    /\ UNCHANGED <<hot, warmLog, vecRows, ingest_batch, excused, forgotten>>

\* _ingest_pending reads a batch of logs that are not vectorized ...
ReadBatch ==
    LET new == {l \in Logs : warmLog[l] = "new"} IN
    /\ ingest_batch = <<>> /\ storer["ingestor"] = IdleStorer /\ new # {}
    /\ \E taken \in SUBSET new :
          /\ taken # {} /\ Cardinality(taken) <= BATCH_SIZE
          /\ Cardinality(taken) = BATCH_SIZE \/ taken = new
          /\ ingest_batch' = SetToSeq(taken)
    /\ UNCHANGED <<hot, warmLog, sharedRows, vecRows, pendingEmbed, storer, excused, forgotten, memFaults>>

\* ... and stores them one by one.
IngestNext ==
    /\ ingest_batch # <<>> /\ storer["ingestor"] = IdleStorer
    /\ EnterStore("ingestor", Head(ingest_batch))
    /\ UNCHANGED <<hot, warmLog, sharedRows, vecRows, ingest_batch, excused, forgotten, memFaults>>

-----------------------------------------------------------------------------
(* The other operations of the bus.                                           *)

\* The scope conditions of both searches: owner, or shared.
Readable(agent, i) == OwnerOf[i] = agent \/ ScopeOf[i] = "shared"

\* The two searches, and recall(), which changes nothing that matters here: what
\* either finds for the agent, each id once.  Without an embedding of the query the
\* vector index gives nothing.
SharedSearch(agent) == {i \in sharedRows : Readable(agent, i)}
VectorSearch(agent, embedded) == {i \in vecRows : embedded /\ Readable(agent, i)}
Recall(agent, embedded) == VectorSearch(agent, embedded) \cup SharedSearch(agent)

\* Ids whose embedding is still to come: queued, or in the hands of a coroutine.
InFlight ==
    ToSet(pendingEmbed) \cup
    UNION {ToSet(storer[t].queue) \cup {storer[t].id} : t \in {s \in Storers : storer[s].at = "store"}}

DeleteRows(agent, m, vectors) ==
    /\ storer[m].at # "idle"
    /\ sharedRows' = IF OwnerOf[m] = agent THEN sharedRows \ {m} ELSE sharedRows
    /\ vecRows' = vecRows \ vectors
    /\ excused' = excused \cup {m}
    /\ forgotten' = IF OwnerOf[m] = agent /\ m \notin InFlight THEN forgotten \cup {m} ELSE forgotten
    /\ UNCHANGED <<hot, warmLog, pendingEmbed, storer, ingest_batch, memFaults>>

ForgetRow(agent, m) == DeleteRows(agent, m, {})

\* forget(): the row goes only if the agent owns it, the vector in any case.
Forget(agent, m) == DeleteRows(agent, m, {m})

\* The process ends: the queue and the coroutines are gone.
MemCrash ==
    /\ memFaults.crashes < MaxMemCrashes
    /\ memFaults' = [memFaults EXCEPT !.crashes = @ + 1]
    /\ excused' = excused \cup InFlight
    /\ pendingEmbed' = <<>> /\ ingest_batch' = <<>>
    /\ storer' = [t \in Storers |-> IF storer[t].at = "store" /\ t # "ingestor"
                                    THEN [at |-> "done"]
                                    ELSE IF t = "ingestor" THEN IdleStorer ELSE storer[t]]
    /\ UNCHANGED <<hot, warmLog, sharedRows, vecRows, forgotten>>

IngestorStep ==
    \/ ReadBatch \/ IngestNext \/ MarkFails
    \/ RetryItem("ingestor") \/ StoreOwn("ingestor")

MemNext ==
    \/ \E l \in Logs : AppendWarmLog(l)
    \/ MicroSync \/ WeeklyCompound \/ MemCrash
    \/ IngestorStep
    \/ \E m \in Memories : Remember(m) \/ RetryItem(m) \/ StoreOwn(m)
    \/ \E agent \in Agents, m \in Memories : Forget(agent, m)

\* The ingestor runs every 30 seconds and each embedding call has a time-out.
MemSpec == MemInit /\ [][MemNext]_memVars /\ WF_memVars(IngestorStep)

-----------------------------------------------------------------------------
(* Properties.                                                                *)

\* Type invariant, with the size limit of hot memory and each periodic note at
\* most once in it (run_micro_sync, run_weekly_compound).
MemTypeOK ==
    /\ Len(hot) <= HotMax /\ ToSet(hot) \subseteq Logs \cup {"sync", "week"}
    /\ \A i, j \in DOMAIN hot : hot[i] \in {"sync", "week"} /\ hot[i] = hot[j] => i = j
    /\ warmLog \in [Logs -> {"none", "new", "vectorized", "pruned"}]
    /\ sharedRows \subseteq Memories /\ vecRows \subseteq Ids
    /\ ToSet(pendingEmbed) \cup ToSet(ingest_batch) \subseteq Ids

\* Whatever was handed to VectorStore.store is in the index, waits in the queue of
\* failed embeddings, or is in the hands of a coroutine that is retrying it, unless
\* it was forgotten, its own insert met an SQLite error or the process ended:
\* several coroutines take and refill the queue between awaits (retry_pending).
NoEmbeddingLost ==
    {m \in Memories : storer[m].at = "done"} \cup {l \in Logs : warmLog[l] = "vectorized"}
        \subseteq vecRows \cup InFlight \cup excused

\* What recall() gives an agent is its own or shared, whichever layer found it, and
\* never a memory that its owner has forgotten, unless the embedding was still in
\* flight: then store() or retry_pending() writes the vector back (forget).
RecallSound ==
    \A agent \in Agents, embedded \in BOOLEAN : \A i \in Recall(agent, embedded) :
        /\ OwnerOf[i] = agent \/ ScopeOf[i] = "shared"
        /\ i \notin forgotten

\* Every log that is not pruned is at last marked vectorized (VectorIngestor), past
\* failed embeddings, SQLite errors and restarts.
LogsVectorised == []<>(\A l \in Logs : warmLog[l] # "new")

\* "Return warm log entries not yet vectorized" (db.py:1354): a log that is marked
\* is in the index, or at least still waits for its embedding.
MarkedIsIndexed ==
    \A l \in Logs : warmLog[l] = "vectorized" => l \in vecRows \cup InFlight

\* The memory bus and its stores: hot memory stays in bounds, no embedding is lost between
\* store, retry_pending and the ingestor, and recall() respects owners and forget().
MemorySound == MemTypeOK /\ NoEmbeddingLost /\ RecallSound

=============================================================================
