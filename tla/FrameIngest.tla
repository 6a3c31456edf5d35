------------------------------ MODULE FrameIngest ------------------------------
(***************************************************************************)
(* Sampled frames: from the /ws handler, which pairs a frame_meta message  *)
(* with the binary payload that follows it, through the bounded queue of   *)
(* frame_ingest.py to the vision worker, and the orderly stop of the       *)
(* intelligence service.                                                   *)
(*                                                                         *)
(* The queue's lock is never held across another await, so put() and get() *)
(* are one step each.  Entries that were evicted stay in the heap until    *)
(* get() skips them; only the live ones are kept here.  The receipts that  *)
(* make a submission a duplicate are the subject of AudioIngest: a claim   *)
(* may say either here.                                                    *)
(***************************************************************************)
EXTENDS Integers, FiniteSets

CONSTANTS
    Members,
    Observers,    \* members who are not sensors: lower priority, rate limited
    Handlers,     \* /ws handlers
    Scores,       \* change_score of a frame
    Dull,         \* frame_change_threshold
    Times,        \* captured_at, in seconds
    MaxQueue,     \* frame_queue_size
    MaxDepth,     \* frame_queue_depth_per_member
    MaxPuts       \* bound: frames accepted

FrameAssumption ==
    /\ Observers \subseteq Members
    /\ Scores \subseteq Nat /\ Times \subseteq Nat /\ Dull \in Nat
    /\ MaxQueue \in Nat \ {0} /\ MaxDepth \in Nat \ {0} /\ MaxPuts \in Nat

VARIABLES
    hand,       \* hand[h]: what the handler waits for, or is about to put
    queue,      \* the live entries
    accepted,   \* accepted_frames, also the next sequence number
    evicted,    \* evicted_frames
    active,     \* _active_count
    depth,      \* _member_depths (0 for a member without a key)
    last,       \* _last_frame_by_member
    observed,   \* _last_observer_frame_at
    open,       \* FrameIngest._running
    running,    \* VisionWorker._running
    worker,     \* the vision worker: waiting, at work on a frame, or done
    taken       \* processed_items

put == <<queue, accepted, evicted, active, depth, last, observed>>
service == <<open, running, worker, taken>>
vars == <<hand, put, service>>

Nothing == [is |-> "nothing"]
Waiting == [is |-> "waiting"]

PriorityOf(m) == IF m \in Observers THEN 1 ELSE 2

Init ==
    /\ hand = [h \in Handlers |-> Nothing]
    /\ queue = {} /\ accepted = 0 /\ evicted = 0 /\ active = 0
    /\ depth = [m \in Members |-> 0]
    /\ last = [m \in Members |-> Nothing]
    /\ observed = [m \in Members |-> Nothing]
    /\ open = TRUE /\ running = TRUE /\ worker = Waiting /\ taken = 0

-----------------------------------------------------------------------------
(* The handler.                                                            *)

\* audio_meta or frame_meta: the later one holds.
Meta(h, kind) ==
    /\ open /\ hand[h].is # "frame" /\ hand[h] # [is |-> kind]
    /\ hand' = [hand EXCEPT ![h] = [is |-> kind]]
    /\ UNCHANGED <<put, service>>

\* A payload that nothing announced, one that is too large, or one of audio:
\* no frame, and the announcement is used up.
NoFrame(h) ==
    /\ hand[h].is \in {"audio", "meta"}
    /\ hand' = [hand EXCEPT ![h] = Nothing]
    /\ UNCHANGED <<put, service>>

\* The payload of a frame, after its metadata or inline in a frame_sample; its
\* receipt is being claimed.
Payload(h, m, score, at) ==
    /\ open /\ hand[h].is \in {"nothing", "meta"}
    /\ hand' = [hand EXCEPT ![h] = [is |-> "frame", member |-> m, score |-> score, at |-> at]]
    /\ UNCHANGED <<put, service>>

\* The receipt exists, or the database does not answer.
Unclaimed(h) ==
    /\ hand[h].is = "frame"
    /\ hand' = [hand EXCEPT ![h] = Nothing]
    /\ UNCHANGED <<put, service>>

-----------------------------------------------------------------------------
(* FrameIngest.put                                                         *)

RateLimited(f) ==
    /\ f.member \in Observers
    /\ observed[f.member] # Nothing
    /\ f.at - observed[f.member].at < 1

\* How the frame compares with the last one: `same` payload, or only of the
\* same `size`.
Duplicate(f, how) ==
    LET former == last[f.member] IN
    /\ former # Nothing
    /\ f.at - former.at <= 2
    /\ \/ how = "same"
       \/ how = "size" /\ f.score <= Dull /\ former.score <= Dull

Of(m) == {e \in queue : e.member = m}

Dullest(es) ==
    CHOOSE e \in es : \A g \in es :
        e.score < g.score \/ (e.score = g.score /\ e.seq <= g.seq)

\* Mutant: the member's newest frame goes.
MemberVictim_Newest(f) ==
    IF depth[f.member] < MaxDepth THEN {}
    ELSE {CHOOSE e \in Of(f.member) : \A g \in Of(f.member) : g.seq <= e.seq}

\* The member's own dullest frame goes when it has too many.
MemberVictim(f) ==
    IF depth[f.member] < MaxDepth THEN {} ELSE {Dullest(Of(f.member))}

\* The dullest frame of all, lower priorities first, goes when the queue is
\* full even so.
GlobalVictim(f) ==
    IF active - Cardinality(MemberVictim(f)) < MaxQueue THEN {}
    ELSE {CHOOSE e \in queue : \A g \in queue :
            \/ e.score < g.score
            \/ e.score = g.score /\ PriorityOf(e.member) < PriorityOf(g.member)
            \/ e.score = g.score /\ PriorityOf(e.member) = PriorityOf(g.member) /\ e.seq <= g.seq}

Refused(f) ==
    \/ \E e \in MemberVictim(f) : f.score < e.score
    \/ \E e \in GlobalVictim(f) :
         \/ f.score < e.score
         \/ f.score = e.score /\ PriorityOf(f.member) < PriorityOf(e.member)

Depths(f, gone) ==
    [m \in Members |-> depth[m] - Cardinality({e \in gone : e.member = m})
                       + (IF m = f.member THEN 1 ELSE 0)]

\* The queue takes the frame.
Accept(f) ==
    LET gone == MemberVictim(f) \cup GlobalVictim(f) IN
    /\ accepted < MaxPuts /\ accepted' = accepted + 1
    /\ queue' = (queue \ gone) \cup
         {[member |-> f.member, score |-> f.score, seq |-> accepted]}
    /\ evicted' = evicted + Cardinality(gone)
    /\ active' = active - Cardinality(gone) + 1
    /\ depth' = Depths(f, gone)
    /\ last' = [last EXCEPT ![f.member] = f]
    /\ observed' = IF f.member \in Observers THEN [observed EXCEPT ![f.member] = f] ELSE observed

Put(h, how) ==
    LET f == hand[h] IN
    /\ f.is = "frame"
    /\ hand' = [hand EXCEPT ![h] = Nothing]
    /\ IF RateLimited(f) \/ Duplicate(f, how) THEN UNCHANGED put
       ELSE IF Refused(f)
       THEN \* a member's victim is dropped before the full queue refuses
            LET gone == IF \E e \in MemberVictim(f) : f.score < e.score
                        THEN {} ELSE MemberVictim(f) IN
            /\ queue' = queue \ gone
            /\ evicted' = evicted + Cardinality(gone)
            /\ active' = active - Cardinality(gone)
            /\ depth' = [depth EXCEPT ![f.member] = @ - Cardinality(gone)]
            /\ UNCHANGED <<accepted, last, observed>>
       ELSE Accept(f)
    /\ UNCHANGED service

-----------------------------------------------------------------------------
(* The vision worker (the transcription worker is built the same way).     *)

\* get() hands out the frame with the greatest change.
Take ==
    /\ worker = Waiting /\ queue # {}
    /\ LET e == CHOOSE e \in queue : \A g \in queue :
                  \/ e.score > g.score
                  \/ e.score = g.score /\ PriorityOf(e.member) > PriorityOf(g.member)
                  \/ e.score = g.score /\ PriorityOf(e.member) = PriorityOf(g.member) /\ e.seq <= g.seq
       IN /\ queue' = queue \ {e}
          /\ depth' = [depth EXCEPT ![e.member] = @ - 1]
          /\ worker' = [is |-> "analyse", seq |-> e.seq]
    /\ active' = active - 1 /\ taken' = taken + 1
    /\ UNCHANGED <<hand, accepted, evicted, last, observed, open, running>>

\* The analysis has a result, whose artifact and observation are written next.
Analysed ==
    /\ worker.is = "analyse"
    /\ worker' = [worker EXCEPT !.is = "observe"]
    /\ UNCHANGED <<hand, put, open, running, taken>>

\* No result, an error, or the observation written: the next frame.
Processed ==
    /\ worker.is \in {"analyse", "observe"}
    /\ worker' = Waiting
    /\ UNCHANGED <<hand, put, open, running, taken>>

\* Mutant: the loop looks at _running before it asks the queue.
MayQuit_AtOnce == ~running

\* get() returned None or timed out, which it does only on an empty queue.
MayQuit == queue = {} /\ (~open \/ ~running)

Quit ==
    /\ worker = Waiting /\ MayQuit
    /\ worker' = [is |-> "done"] /\ running' = FALSE
    /\ UNCHANGED <<hand, put, open, taken>>

\* IntelligenceService.stop, called when the server has ended its handlers:
\* the queues are closed, then the workers are told and awaited.
StopIngest ==
    /\ open /\ \A h \in Handlers : hand[h] = Nothing
    /\ open' = FALSE
    /\ UNCHANGED <<hand, put, running, worker, taken>>

StopWorker ==
    /\ ~open /\ running
    /\ running' = FALSE
    /\ UNCHANGED <<hand, put, open, worker, taken>>

Next ==
    \/ \E h \in Handlers :
         \/ \E kind \in {"audio", "meta"} : Meta(h, kind)
         \/ \E m \in Members, s \in Scores, t \in Times : Payload(h, m, s, t)
         \/ \E how \in {"same", "size", "other"} : Put(h, how)
         \/ NoFrame(h) \/ Unclaimed(h)
    \/ Take \/ Analysed \/ Processed \/ Quit \/ StopIngest \/ StopWorker

Spec == Init /\ [][Next]_vars

-----------------------------------------------------------------------------
\* A frame is given up only for one that shows at least as much, and its member
\* keeps none that shows less; a put() that refuses its frame costs nobody one.
KeepsTheBest ==
    [][\A e \in queue \ queue' :
         taken' = taken =>
           /\ \E new \in queue' \ queue : new.score >= e.score
           /\ \A g \in queue' : g.member = e.member => g.score >= e.score]_vars

\* An orderly stop leaves no frame behind: what the hub acknowledged and did
\* not evict has been through the analysis when the worker is done.
StopDrains == worker.is = "done" => queue = {} /\ accepted = evicted + taken
=============================================================================
