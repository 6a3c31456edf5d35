----------------------------- MODULE AudioIngest -----------------------------
(***************************************************************************)
(* Audio chunks on their way into the hub: IntelligenceService.submit_audio*)
(* with its two-level duplicate check (a cache in memory over the          *)
(* ingest_receipts table), called by several /ws handlers at once, and the *)
(* bounded priority queue of audio_ingest.py that the transcription worker *)
(* empties.                                                                *)
(*                                                                         *)
(* A chunk is its ingest key, the stable id under which the member's       *)
(* outbox submits it again until it is acknowledged.  The queue's lock is  *)
(* never held across another await, so each of its methods is one step.    *)
(***************************************************************************)
EXTENDS Integers, FiniteSets, FiniteSetsExt, Functions

CONSTANTS
  Chunks,
  Sender,       \* the member whose chunk it is
  Priority,     \* and that member's priority
  Handlers,     \* the /ws handlers that may be submitting at a time
  NoChunk,      \* "no chunk"
  MaxQueue,     \* audio_queue_size
  MaxCache,     \* ingest_idempotency_cache_size
  MaxSequence,  \* bound: how many chunks a run of the hub enqueues
  MayExpire,    \* whether the idempotency window may pass
  MayRestart    \* whether the hub may crash and be started again

Members == Range(Sender)

ASSUME ConstantsOK ==
  /\ Priority \in [Chunks -> Nat] /\ DOMAIN Sender = Chunks
  /\ NoChunk \notin Chunks
  /\ MaxQueue \in Nat \ {0} /\ MaxCache \in Nat \ {0} /\ MaxSequence \in Nat
  /\ MayExpire \in BOOLEAN /\ MayRestart \in BOOLEAN

VARIABLES
  pc,        \* where a handler's submission is suspended
  item,      \* the chunk it submits
  saw,       \* the receipt its SELECT found
  cache,     \* _ingest_receipts, without the expired entries (pruned before use)
  receipt,   \* the row of ingest_receipts
  heap,      \* _entries, dropped ones included
  seqNo,     \* _next_sequence_no
  active,    \* _active_count
  depth,     \* _member_depths (0 for a member without a key)
  evicted,   \* evicted_chunks
  got,       \* how many chunks get() returned
  acked,     \* the chunks acknowledged for good: the outbox forgets them
  enqueued,  \* history: the chunks that have been in the queue
  renewed    \* history: the chunks whose idempotency window has passed

submitVars == <<pc, item, saw>>
dedupeVars == <<cache, receipt>>
queueVars  == <<heap, seqNo, active, depth, evicted, got>>
history    == <<acked, enqueued, renewed>>
vars == <<submitVars, dedupeVars, queueVars, history>>

Init ==
  /\ pc   = [h \in Handlers |-> "idle"]
  /\ item = [h \in Handlers |-> NoChunk]
  /\ saw  = [h \in Handlers |-> "none"]
  /\ cache = {} /\ receipt = [c \in Chunks |-> "none"]
  /\ heap = {} /\ seqNo = 0 /\ active = 0
  /\ depth = [m \in Members |-> 0]
  /\ evicted = 0 /\ got = 0
  /\ acked = {} /\ enqueued = {} /\ renewed = {}

-----------------------------------------------------------------------------
(* AudioIngest                                                             *)

Live == {e \in heap : ~e.dropped}

\* The order of the heap, and of _find_eviction_candidate.
Before(e, f) ==
  \/ Priority[e.chunk] > Priority[f.chunk]
  \/ Priority[e.chunk] = Priority[f.chunk] /\ e.seq <= f.seq

Evictable(e, f) ==
  \/ Priority[e.chunk] < Priority[f.chunk]
  \/ Priority[e.chunk] = Priority[f.chunk] /\ e.seq <= f.seq

Candidate == CHOOSE e \in Live : \A f \in Live : Evictable(e, f)

\* What taking the entries `es` out of the live ones does to the counters.
Removed(es, m) == Cardinality({e \in es : Sender[e.chunk] = m})

\* A fault: the evicted entries are still counted.
Enqueue_StillCounted(c, gone) ==
  /\ heap' = (heap \ gone) \cup {[e EXCEPT !.dropped = TRUE] : e \in gone}
                           \cup {[chunk |-> c, seq |-> seqNo, dropped |-> FALSE]}
  /\ seqNo'   = seqNo + 1
  /\ active'  = active + 1
  /\ evicted' = evicted + Cardinality(gone)
  /\ depth'   = [m \in Members |-> depth[m] + Removed({[chunk |-> c]}, m)]
  /\ enqueued' = enqueued \cup {c}
  /\ UNCHANGED got

\* put() of a chunk that the queue takes; `gone` are the entries it evicts,
\* which stay in the heap with their `dropped` set.
Enqueue(c, gone) ==
  /\ heap' = (heap \ gone) \cup {[e EXCEPT !.dropped = TRUE] : e \in gone}
                           \cup {[chunk |-> c, seq |-> seqNo, dropped |-> FALSE]}
  /\ seqNo'   = seqNo + 1
  /\ active'  = active - Cardinality(gone) + 1
  /\ evicted' = evicted + Cardinality(gone)
  /\ depth'   = [m \in Members |->
                   depth[m] - Removed(gone, m) + Removed({[chunk |-> c]}, m)]
  /\ enqueued' = enqueued \cup {c}
  /\ UNCHANGED got

\* A full queue refuses a chunk that ranks below the one it would evict.
Outranked(c) == active >= MaxQueue /\ Priority[c] < Priority[Candidate.chunk]

Put(c) ==
  /\ seqNo < MaxSequence
  /\ ~Outranked(c)
  /\ Enqueue(c, IF active >= MaxQueue THEN {Candidate} ELSE {})

\* get(), by the transcription worker: the dropped entries in front are
\* discarded, the first live one is taken out.
Get ==
  /\ Live # {}
  /\ LET first == CHOOSE e \in Live : \A f \in Live : Before(e, f)
     IN  /\ heap'   = {e \in heap : ~Before(e, first)}
         /\ active' = active - 1
         /\ depth'  = [depth EXCEPT ![Sender[first.chunk]] = @ - 1]
  /\ got' = got + 1
  /\ UNCHANGED <<submitVars, dedupeVars, seqNo, evicted, history>>

-----------------------------------------------------------------------------
(* submit_audio, by the handler h.                                         *)

Idle(h) ==
  /\ pc'   = [pc EXCEPT ![h] = "idle"]
  /\ item' = [item EXCEPT ![h] = NoChunk]
  /\ saw'  = [saw EXCEPT ![h] = "none"]

Acknowledge(c) == acked' = acked \cup {c}

\* The outbox sends a chunk until it is acknowledged.  A cached receipt makes
\* it a duplicate at once; otherwise the table is asked.
Submit(h, c) ==
  /\ pc[h] = "idle" /\ c \notin acked
  /\ IF c \in cache
     THEN Acknowledge(c) /\ UNCHANGED submitVars
     ELSE /\ pc'   = [pc EXCEPT ![h] = "select"]
          /\ item' = [item EXCEPT ![h] = c]
          /\ UNCHANGED <<saw, acked>>
  /\ UNCHANGED <<dedupeVars, queueVars, enqueued, renewed>>

\* claim_ingest_receipt is two statements, each a transaction of its own.
Select(h) ==
  /\ pc[h] = "select"
  /\ saw' = [saw EXCEPT ![h] = receipt[item[h]]]
  /\ pc'  = [pc EXCEPT ![h] = "claim"]
  /\ UNCHANGED <<item, dedupeVars, queueVars, history>>

\* The INSERT meets another one's row: the exception ends the connection, and
\* the outbox keeps the chunk.
ClaimFails(h) ==
  /\ pc[h] = "claim" /\ saw[h] = "none" /\ receipt[item[h]] # "none"
  /\ Idle(h)
  /\ UNCHANGED <<dedupeVars, queueVars, history>>

Claimable(h) ==
  /\ pc[h] = "claim"
  /\ saw[h] # "none" \/ receipt[item[h]] = "none"

\* The receipt is inserted or refreshed, and was fresh before.
Duplicate(h) ==
  /\ Claimable(h) /\ saw[h] = "fresh"
  /\ receipt' = [receipt EXCEPT ![item[h]] = "fresh"]
  /\ cache'   = cache \cup {item[h]}
  /\ Acknowledge(item[h])
  /\ Idle(h)
  /\ UNCHANGED <<queueVars, enqueued, renewed>>

\* The oldest keys leave a cache that is too large; never the new one.
Trimmed(all, c) ==
  {kept \in SUBSET all :
     /\ c \in kept
     /\ IF Cardinality(all) > MaxCache THEN Cardinality(kept) = MaxCache ELSE kept = all}

\* A fault: the receipt is only remembered in the cache.
New_NotDurable(h) ==
  /\ Claimable(h) /\ saw[h] # "fresh"
  /\ cache' \in Trimmed(cache \cup {item[h]}, item[h])
  /\ UNCHANGED receipt
  /\ IF Outranked(item[h])
     THEN UNCHANGED <<queueVars, acked, enqueued>>
     ELSE Put(item[h]) /\ Acknowledge(item[h])
  /\ Idle(h)
  /\ UNCHANGED renewed

\* A new chunk is claimed before it is offered to the queue, and its claim
\* stays when the queue refuses it.
New(h) ==
  /\ Claimable(h) /\ saw[h] # "fresh"
  /\ receipt' = [receipt EXCEPT ![item[h]] = "fresh"]
  /\ cache' \in Trimmed(cache \cup {item[h]}, item[h])
  /\ IF Outranked(item[h])
     THEN UNCHANGED <<queueVars, acked, enqueued>>
     ELSE Put(item[h]) /\ Acknowledge(item[h])
  /\ Idle(h)
  /\ UNCHANGED renewed

\* A submission whose acknowledgement is lost with its connection: the outbox
\* keeps the chunk.
AckLost(c) ==
  /\ c \in acked
  /\ acked' = acked \ {c}
  /\ UNCHANGED <<submitVars, dedupeVars, queueVars, enqueued, renewed>>

-----------------------------------------------------------------------------

\* The idempotency window passes for the row.  The cached receipt is as old,
\* or younger: a duplicate found in the cache refreshes that one only.
Expire(c) ==
  /\ MayExpire /\ receipt[c] = "fresh"
  /\ receipt' = [receipt EXCEPT ![c] = "expired"]
  /\ cache' \in {cache, cache \ {c}}
  /\ renewed' = renewed \cup {c}
  /\ UNCHANGED <<submitVars, queueVars, acked, enqueued>>

\* It passes for the cached receipt too.
ExpireCached(c) ==
  /\ c \in cache /\ receipt[c] = "expired"
  /\ cache' = cache \ {c}
  /\ UNCHANGED <<submitVars, receipt, queueVars, history>>

\* A crash and the next start: the table is all that stays.
Restart ==
  /\ MayRestart
  /\ pc'   = [h \in Handlers |-> "idle"]
  /\ item' = [h \in Handlers |-> NoChunk]
  /\ saw'  = [h \in Handlers |-> "none"]
  /\ cache' = {} /\ heap' = {} /\ seqNo' = 0 /\ active' = 0
  /\ depth' = [m \in Members |-> 0]
  /\ evicted' = 0 /\ got' = 0
  /\ UNCHANGED <<receipt, history>>

Next ==
  \/ \E h \in Handlers :
       \/ \E c \in Chunks : Submit(h, c)
       \/ Select(h) \/ ClaimFails(h) \/ Duplicate(h) \/ New(h)
  \/ Get
  \/ \E c \in Chunks : AckLost(c) \/ Expire(c) \/ ExpireCached(c)
  \/ Restart

Spec == Init /\ [][Next]_vars

-----------------------------------------------------------------------------
(* Properties of the code as it is.                                        *)

\* The counters the dashboard and put() go by agree with the heap, through
\* evictions (which leave entries behind) and gets: nothing accepted is lost
\* without being counted, no member's depth drifts, and the queue never has
\* more live chunks than its size.
Accounted ==
  /\ active <= MaxQueue
  /\ active = Cardinality(Live)
  /\ seqNo = active + evicted + got
  /\ \A m \in Members : depth[m] = Removed(Live, m)

\* Within its first idempotency window a chunk is enqueued at most once,
\* whichever connections submit it again, whatever the cache has dropped, and
\* whether or not the hub restarts in between.  (A window after that one is
\* not exclusive: the expired row is selected and updated in two statements.)
OnceInFirstWindow ==
  [][\A c \in enqueued \ renewed :
       \A e \in heap' \ heap : e.chunk # c \/ e.dropped]_vars

=============================================================================
