---------------------------- MODULE MCMedia_proofs ----------------------------
(* What holds of the two ingest queues and of the transcript for any members,  *)
(* chunks, frames and words, and any sizes of the queues.                      *)
EXTENDS MCMedia, FiniteSetTheorems, SequenceTheorems, WellFoundedInduction, TLAPS

-----------------------------------------------------------------------------
(* The composition.                                                        *)

\* Each part moves as its component does, or stands still.
LEMMA Composed == AllSpec => Spec /\ Frames!Spec /\ Talk!Spec
<1>1. AllInit => Init /\ Frames!Init /\ Talk!Init
  BY DEF AllInit
<1>2. [AllNext]_<<vars, frameVars, talkVars, part>> =>
        [Next]_vars /\ [Frames!Next]_(Frames!vars) /\ [Talk!Next]_(Talk!vars)
  BY DEF AllNext, frameVars, talkVars, Frames!vars, Frames!put, Frames!service, Talk!vars
<1> QED
  BY <1>1, <1>2, PTL DEF AllSpec, Spec, Frames!Spec, Talk!Spec

-----------------------------------------------------------------------------
(* The queues pick an entry that comes before all others.                  *)

Ahead(R, S) == {x \in S : \A y \in S : <<x, y>> \in R}

\* A finite set has a first element in any total order R of it.
LEMMA FirstIsThere ==
    ASSUME NEW S, IsFiniteSet(S), S # {}, NEW R,
           \A x, y \in S : <<x, y>> \in R \/ <<y, x>> \in R,
           \A x, y, z \in S : <<x, y>> \in R /\ <<y, z>> \in R => <<x, z>> \in R
    PROVE  Ahead(R, S) # {}
<1> DEFINE Bad(T) == T # {} /\ Ahead(R, T) = {}
           Sizes == {n \in Nat : \E T \in SUBSET S : Cardinality(T) = n /\ Bad(T)}
<1>1. SUFFICES ASSUME Bad(S) PROVE FALSE
  OBVIOUS
<1>2. \A T \in SUBSET S : IsFiniteSet(T) /\ Cardinality(T) \in Nat
  BY FS_Subset, FS_CardinalityType
<1>3. Cardinality(S) \in Sizes
  BY <1>1, <1>2
<1>4. PICK n \in Sizes : \A k \in Sizes : ~(<<k, n>> \in OpToRel(<, Nat))
  BY <1>3, NatLessThanWellFounded, WFMin
<1>5. PICK T \in SUBSET S : Cardinality(T) = n /\ Bad(T)
  OBVIOUS
<1>6. PICK x \in T : TRUE
  BY <1>5
<1>7. Cardinality(T \ {x}) = n - 1 /\ n \in Nat /\ n - 1 \in Nat
  <2>1. Cardinality(T \ {x}) = Cardinality(T) - 1
    BY <1>2, <1>6, FS_RemoveElement
  <2>2. Cardinality(T \ {x}) \in Nat
    BY <1>2
  <2> QED
    BY <1>5, <2>1, <2>2
<1>8. n - 1 \notin Sizes
  <2>1. n - 1 < n
    BY <1>7
  <2> HIDE DEF Sizes
  <2> QED
    BY <1>4, <1>7, <2>1 DEF OpToRel
<1>9. ~Bad(T \ {x})
  BY <1>7, <1>8
<1>10. CASE T \ {x} = {}
  <2>1. x \in Ahead(R, T)
    BY <1>6, <1>10 DEF Ahead
  <2> QED
    BY <1>5, <2>1
<1>11. CASE T \ {x} # {}
  <2>1. PICK y \in T \ {x} : \A z \in T \ {x} : <<y, z>> \in R
    BY <1>9, <1>11 DEF Ahead
  <2>2. <<x, x>> \in R /\ <<y, y>> \in R
    BY <1>6
  <2>3. CASE <<x, y>> \in R
    <3>1. x \in Ahead(R, T)
      BY <1>6, <2>1, <2>2, <2>3 DEF Ahead
    <3> QED
      BY <1>5, <3>1
  <2>4. CASE <<y, x>> \in R
    <3>1. y \in Ahead(R, T)
      BY <1>6, <2>1, <2>2, <2>4 DEF Ahead
    <3> QED
      BY <1>5, <3>1
  <2> QED
    BY <1>6, <2>3, <2>4
<1> QED
  BY <1>10, <1>11

-----------------------------------------------------------------------------
(* Audio chunks.                                                           *)

Entries == [chunk : Chunks, seq : Nat, dropped : BOOLEAN]

SubmitTypes ==
    /\ pc \in [Handlers -> {"idle", "select", "claim"}]
    /\ item \in [Handlers -> Chunks \cup {NoChunk}]
    /\ saw \in [Handlers -> {"none", "fresh", "expired"}]
    /\ receipt \in [Chunks -> {"none", "fresh", "expired"}]

QueueTypes ==
    /\ heap \in SUBSET Entries /\ IsFiniteSet(heap)
    /\ seqNo \in Nat /\ active \in Nat /\ evicted \in Nat /\ got \in Nat
    /\ depth \in [Members -> Int]

\* The numbers of the entries tell them apart.
Numbered ==
    /\ \A e \in heap : e.seq < seqNo
    /\ \A e, f \in heap : e.seq = f.seq => e = f

\* A chunk in its first window that has been in the queue has a fresh receipt,
\* and nobody goes by an older one.
Claims ==
    /\ \A h \in Handlers : pc[h] # "idle" => item[h] \in Chunks
    /\ \A c \in Chunks : receipt[c] = "expired" => c \in renewed
    /\ \A h \in Handlers : pc[h] = "claim" /\ saw[h] = "expired" => item[h] \in renewed
    /\ \A c \in enqueued \ renewed : c \in Chunks /\ receipt[c] = "fresh"

QueueInv == QueueTypes /\ Numbered /\ Accounted
ClaimInv == SubmitTypes /\ Claims

LEMMA SendersAreMembers ==
    /\ \A c \in Chunks : Sender[c] \in Members /\ Priority[c] \in Nat
    /\ MaxQueue \in Nat \ {0} /\ NoChunk \notin Chunks
BY ConstantsOK DEF Members, Range

LEMMA LiveIsFinite ==
    ASSUME QueueTypes
    PROVE  /\ IsFiniteSet(Live) /\ Live \subseteq heap /\ Cardinality(Live) \in Nat
           /\ \A e \in Live : e \in Entries /\ e.chunk \in Chunks /\ e.seq \in Nat
<1>1. Live \in SUBSET heap /\ \A e \in heap : e \in Entries
  BY DEF Live, QueueTypes
<1>2. \A e \in Entries : e.chunk \in Chunks /\ e.seq \in Nat
  BY DEF Entries
<1>3. IsFiniteSet(Live) /\ Cardinality(Live) \in Nat
  BY <1>1, FS_Subset, FS_CardinalityType DEF QueueTypes
<1> QED
  BY <1>1, <1>2, <1>3

\* The entry to evict, and the entry get() returns.
LEMMA CandidateIsThere ==
    ASSUME QueueTypes, Live # {}
    PROVE  Candidate \in Live
<1> DEFINE R == {x \in Live \X Live : Evictable(x[1], x[2])}
<1>1. \A e \in Live : Priority[e.chunk] \in Nat /\ e.seq \in Nat
  BY LiveIsFinite, SendersAreMembers
<1>2. \A e, f \in Live : <<e, f>> \in R <=> Evictable(e, f)
  OBVIOUS
<1>3. \A e, f \in Live : Evictable(e, f) \/ Evictable(f, e)
  BY <1>1 DEF Evictable
<1>4. \A e, f, g \in Live : Evictable(e, f) /\ Evictable(f, g) => Evictable(e, g)
  BY <1>1 DEF Evictable
<1> HIDE DEF R
<1>5. Ahead(R, Live) # {}
  BY <1>2, <1>3, <1>4, LiveIsFinite, FirstIsThere
<1>6. \E e \in Live : \A f \in Live : Evictable(e, f)
  BY <1>2, <1>5 DEF Ahead
<1> QED
  BY <1>6 DEF Candidate

LEMMA FrontIsThere ==
    ASSUME QueueTypes, Live # {}
    PROVE  \E e \in Live : \A f \in Live : Before(e, f)
<1> DEFINE R == {x \in Live \X Live : Before(x[1], x[2])}
<1>1. \A e \in Live : Priority[e.chunk] \in Nat /\ e.seq \in Nat
  BY LiveIsFinite, SendersAreMembers
<1>2. \A e, f \in Live : <<e, f>> \in R <=> Before(e, f)
  OBVIOUS
<1>3. \A e, f \in Live : Before(e, f) \/ Before(f, e)
  BY <1>1 DEF Before
<1>4. \A e, f, g \in Live : Before(e, f) /\ Before(f, g) => Before(e, g)
  BY <1>1 DEF Before
<1> HIDE DEF R
<1>5. Ahead(R, Live) # {}
  BY <1>2, <1>3, <1>4, LiveIsFinite, FirstIsThere
<1> QED
  BY <1>2, <1>5 DEF Ahead

\* What one entry more, or one less, does to the counters.
LEMMA RemovedOfOne ==
    ASSUME NEW e, NEW m
    PROVE  /\ Removed({e}, m) \in Nat
           /\ Sender[e.chunk] = m => Removed({e}, m) = 1
           /\ Sender[e.chunk] # m => Removed({e}, m) = 0
<1> DEFINE T == {f \in {e} : Sender[f.chunk] = m}
<1>1. Removed({e}, m) = Cardinality(T)
  BY DEF Removed
<1>2. (Sender[e.chunk] = m => T = {e}) /\ (Sender[e.chunk] # m => T = {})
  OBVIOUS
<1> HIDE DEF T
<1>3. Cardinality({e}) = 1 /\ Cardinality({}) = 0
  BY FS_EmptySet, FS_Singleton
<1> QED
  BY <1>1, <1>2, <1>3

LEMMA RemovedOfNone == \A m : Removed({}, m) = 0
<1> SUFFICES ASSUME NEW m PROVE Removed({}, m) = 0
  OBVIOUS
<1>1. {f \in {} : Sender[f.chunk] = m} = {}
  OBVIOUS
<1> QED
  BY <1>1, FS_EmptySet DEF Removed

LEMMA RemovedAdds ==
    ASSUME NEW S, IsFiniteSet(S), NEW e, e \notin S, NEW m
    PROVE  /\ Removed(S \cup {e}, m) = Removed(S, m) + Removed({e}, m)
           /\ Removed(S, m) \in Nat
<1> DEFINE T == {f \in S : Sender[f.chunk] = m}
           U == {f \in S \cup {e} : Sender[f.chunk] = m}
<1>1. Removed(S, m) = Cardinality(T) /\ Removed(S \cup {e}, m) = Cardinality(U)
  BY DEF Removed
<1>2. IsFiniteSet(T) /\ Cardinality(T) \in Nat /\ e \notin T
  BY FS_Subset, FS_CardinalityType
<1>3. U = IF Sender[e.chunk] = m THEN T \cup {e} ELSE T
  OBVIOUS
<1> HIDE DEF T, U
<1>4. CASE Sender[e.chunk] = m
  <2>1. U = T \cup {e}
    BY <1>3, <1>4
  <2>2. Cardinality(T \cup {e}) = Cardinality(T) + 1
    BY <1>2, FS_AddElement
  <2> QED
    BY <1>1, <1>2, <1>4, <2>1, <2>2, RemovedOfOne
<1>5. CASE Sender[e.chunk] # m
  <2>1. U = T
    BY <1>3, <1>5
  <2> QED
    BY <1>1, <1>2, <1>5, <2>1, RemovedOfOne
<1> QED
  BY <1>4, <1>5

LEMMA RemovedTakes ==
    ASSUME NEW S, IsFiniteSet(S), NEW e \in S, NEW m
    PROVE  /\ Removed(S \ {e}, m) = Removed(S, m) - Removed({e}, m)
           /\ Removed(S, m) \in Nat
<1> DEFINE T == S \ {e}
<1>1. IsFiniteSet(T) /\ e \notin T /\ T \cup {e} = S
  BY FS_RemoveElement
<1>2. Removed({e}, m) \in Nat
  BY RemovedOfOne
<1> HIDE DEF T
<1>3. Removed(S, m) = Removed(T, m) + Removed({e}, m) /\ Removed(T, m) \in Nat
  BY <1>1, RemovedAdds
<1> QED
  BY <1>2, <1>3 DEF T

\* The queue takes a chunk while it has room.
LEMMA RoomForOne ==
    ASSUME QueueInv, NEW c \in Chunks, Enqueue(c, {})  , active < MaxQueue
    PROVE  QueueInv'
<1> DEFINE x == [chunk |-> c, seq |-> seqNo, dropped |-> FALSE]
<1>1. QueueTypes /\ Numbered /\ Accounted
  BY DEF QueueInv
<1>2. x \in Entries /\ ~x.dropped /\ x.seq = seqNo /\ x.chunk = c
  BY <1>1 DEF Entries, QueueTypes
<1>3. x \notin heap /\ x \notin Live
  BY <1>1, <1>2 DEF Numbered, QueueTypes, Live
<1>4. \A m \in Members : Removed({[chunk |-> c]}, m) = Removed({x}, m)
  BY <1>2, RemovedOfOne, ZenonT(30)
<1>5. /\ heap' = heap \cup {x} /\ seqNo' = seqNo + 1 /\ got' = got
      /\ active' = active + 1 /\ evicted' = evicted
      /\ depth' = [m \in Members |-> depth[m] + Removed({x}, m)]
  <2>1. heap' = heap \cup {x}
    BY DEF Enqueue
  <2>2. active' = active - 0 + 1 /\ evicted' = evicted + 0
    BY FS_EmptySet DEF Enqueue
  <2>3. depth' = [m \in Members |-> depth[m] - 0 + Removed({[chunk |-> c]}, m)]
    BY RemovedOfNone DEF Enqueue
  <2>4. \A m \in Members : depth[m] \in Int
    BY <1>1 DEF QueueTypes
  <2>5. depth' = [m \in Members |-> depth[m] + Removed({x}, m)]
    <3> HIDE DEF x
    <3>1. ASSUME NEW m \in Members
          PROVE  depth[m] - 0 + Removed({[chunk |-> c]}, m) = depth[m] + Removed({x}, m)
      <4> DEFINE r == Removed({x}, m)
                 s == Removed({[chunk |-> c]}, m)
      <4>1. r \in Nat /\ s = r
        BY <1>4, RemovedOfOne
      <4> HIDE DEF r, s
      <4>2. depth[m] - 0 + s = depth[m] + r
        BY <2>4, <4>1
      <4> QED
        BY <4>2 DEF r, s
    <3> QED
      BY <2>3, <3>1
  <2> QED
    <3>1. seqNo' = seqNo + 1 /\ got' = got
      BY DEF Enqueue
    <3>2. active \in Nat /\ evicted \in Nat
      BY <1>1 DEF QueueTypes
    <3> HIDE DEF x
    <3> QED
      BY <2>1, <2>2, <2>5, <3>1, <3>2
<1>6. Live' = Live \cup {x}
  BY <1>2, <1>5 DEF Live
<1> HIDE DEF x
<1>7. \A m : Removed({x}, m) \in Nat
  BY RemovedOfOne
<1>8. /\ IsFiniteSet(heap') /\ Cardinality(Live') = Cardinality(Live) + 1
      /\ \A m \in Members : Removed(Live', m) = Removed(Live, m) + Removed({x}, m)
  <2>1. IsFiniteSet(heap) /\ IsFiniteSet(Live)
    BY <1>1, LiveIsFinite DEF QueueTypes
  <2>2. IsFiniteSet(heap') /\ Cardinality(Live') = Cardinality(Live) + 1
    BY <1>3, <1>5, <1>6, <2>1, FS_AddElement
  <2>3. ASSUME NEW m \in Members
        PROVE  Removed(Live', m) = Removed(Live, m) + Removed({x}, m)
    <3>1. Removed(Live \cup {x}, m) = Removed(Live, m) + Removed({x}, m)
      BY <1>3, <2>1, RemovedAdds
    <3> QED
      BY <1>6, <3>1
  <2> QED
    BY <2>2, <2>3
<1>9. QueueTypes'
  <2>1. heap' \in SUBSET Entries
    BY <1>1, <1>2, <1>5 DEF QueueTypes
  <2>2. depth' \in [Members -> Int]
    <3>1. ASSUME NEW m \in Members PROVE depth[m] + Removed({x}, m) \in Int
      BY <1>1, <1>7 DEF QueueTypes
    <3> QED
      BY <1>5, <3>1
  <2>3. seqNo' \in Nat /\ active' \in Nat /\ evicted' \in Nat /\ got' \in Nat
    BY <1>1, <1>5 DEF QueueTypes
  <2>4. IsFiniteSet(heap')
    BY <1>8
  <2> QED
    BY <2>1, <2>2, <2>3, <2>4 DEF QueueTypes
<1>10. Numbered'
  BY <1>1, <1>2, <1>5 DEF Numbered, QueueTypes, Entries
<1>11. Accounted'
  <2>1. active + 1 <= MaxQueue
    BY <1>1, SendersAreMembers DEF QueueTypes
  <2>2. active' <= MaxQueue /\ active' = Cardinality(Live')
    BY <1>1, <1>5, <1>8, <2>1 DEF Accounted
  <2>3. seqNo' = active' + evicted' + got'
    BY <1>1, <1>5 DEF Accounted, QueueTypes
  <2>4. ASSUME NEW m \in Members PROVE depth'[m] = Removed(Live', m)
    BY <1>1, <1>5, <1>8 DEF Accounted
  <2> QED
    BY <2>2, <2>3, <2>4 DEF Accounted
<1> QED
  BY <1>9, <1>10, <1>11 DEF QueueInv

LEMMA FullHasCandidate ==
    ASSUME QueueInv, active >= MaxQueue
    PROVE  Candidate \in Live /\ Candidate \in heap /\ Candidate \in Entries
<1>1. QueueTypes /\ Accounted
  BY DEF QueueInv
<1>2. active # 0 /\ active = Cardinality(Live)
  BY <1>1, SendersAreMembers DEF Accounted, QueueTypes
<1>3. Live # {}
  BY <1>2, FS_EmptySet
<1> QED
  BY <1>1, <1>3, CandidateIsThere, LiveIsFinite

\* Or it lets its last one go.
LEMMA OneForAnother ==
    ASSUME QueueInv, NEW c \in Chunks, Enqueue(c, {Candidate}), active >= MaxQueue
    PROVE  QueueInv'
<1> DEFINE x == [chunk |-> c, seq |-> seqNo, dropped |-> FALSE]
           e == Candidate
           d == [e EXCEPT !.dropped = TRUE]
<1>1. QueueTypes /\ Numbered /\ Accounted
  BY DEF QueueInv
<1>2. x \in Entries /\ ~x.dropped /\ x.seq = seqNo /\ x.chunk = c
  BY <1>1 DEF Entries, QueueTypes
<1>3. active = MaxQueue
  BY <1>1, SendersAreMembers DEF Accounted, QueueTypes
<1>4. e \in Live /\ e \in heap /\ e \in Entries
  BY FullHasCandidate
<1>5. d \in Entries /\ d.dropped /\ d.seq = e.seq
  BY <1>4 DEF Entries
<1>6. \A m \in Members : Removed({[chunk |-> c]}, m) = Removed({x}, m)
  BY <1>2, RemovedOfOne, ZenonT(30)
<1>7. x \notin heap /\ x \notin Live
  BY <1>1, <1>2 DEF Numbered, QueueTypes, Live
<1>8. /\ heap' = (heap \ {e}) \cup {d} \cup {x} /\ seqNo' = seqNo + 1 /\ got' = got
      /\ active' = active - Cardinality({e}) + 1 /\ evicted' = evicted + Cardinality({e})
      /\ depth' = [m \in Members |-> depth[m] - Removed({e}, m) + Removed({[chunk |-> c]}, m)]
  <2>1. {[g EXCEPT !.dropped = TRUE] : g \in {e}} = {d}
    OBVIOUS
  <2> HIDE DEF d
  <2> QED
    BY <2>1 DEF Enqueue
<1> HIDE DEF d, e
<1>9. Live' = (Live \ {e}) \cup {x}
  BY <1>2, <1>5, <1>8 DEF Live
<1> HIDE DEF x
<1>10. Cardinality({e}) = 1
  BY FS_Singleton
<1>11. \A m : Removed({x}, m) \in Nat /\ Removed({e}, m) \in Nat
  BY RemovedOfOne
<1>12. IsFiniteSet(heap')
  <2>1. IsFiniteSet(heap \ {e})
    BY <1>1, FS_RemoveElement DEF QueueTypes
  <2>2. IsFiniteSet((heap \ {e}) \cup {d})
    BY <2>1, FS_AddElement
  <2> QED
    BY <1>8, <2>2, FS_AddElement
<1>13. /\ IsFiniteSet(Live) /\ IsFiniteSet(Live \ {e})
       /\ Cardinality(Live \ {e}) = Cardinality(Live) - 1 /\ Cardinality(Live) \in Nat
  BY <1>1, <1>4, LiveIsFinite, FS_RemoveElement
<1>14. Cardinality(Live') = Cardinality(Live)
  <2>1. Cardinality(Live') = Cardinality(Live \ {e}) + 1
    BY <1>7, <1>9, <1>13, FS_AddElement
  <2> QED
    BY <1>13, <2>1
<1>15. ASSUME NEW m \in Members
       PROVE  Removed(Live', m) = Removed(Live, m) - Removed({e}, m) + Removed({x}, m)
  <2>1. Removed(Live \ {e}, m) = Removed(Live, m) - Removed({e}, m) /\ Removed(Live, m) \in Nat
    BY <1>4, <1>13, RemovedTakes
  <2>2. Removed(Live', m) = Removed(Live \ {e}, m) + Removed({x}, m)
    <3>1. Removed((Live \ {e}) \cup {x}, m) = Removed(Live \ {e}, m) + Removed({x}, m)
      BY <1>7, <1>13, RemovedAdds
    <3> QED
      BY <1>9, <3>1
  <2>3. Removed({x}, m) \in Nat /\ Removed({e}, m) \in Nat
    BY <1>11
  <2> QED
    BY <2>1, <2>2, <2>3
<1>16. active' = active /\ evicted' = evicted + 1
  BY <1>1, <1>8, <1>10 DEF QueueTypes
<1>17. QueueTypes'
  <2>1. heap' \in SUBSET Entries
    BY <1>1, <1>2, <1>5, <1>8 DEF QueueTypes
  <2>2. depth' \in [Members -> Int]
    <3>1. ASSUME NEW m \in Members
          PROVE  depth[m] - Removed({e}, m) + Removed({[chunk |-> c]}, m) \in Int
      <4> DEFINE r == Removed({e}, m)
                 s == Removed({[chunk |-> c]}, m)
      <4>1. r \in Nat /\ s \in Nat
        BY RemovedOfOne
      <4>2. depth[m] \in Int
        BY <1>1 DEF QueueTypes
      <4> HIDE DEF r, s
      <4>3. depth[m] - r + s \in Int
        BY <4>1, <4>2
      <4> QED
        BY <4>3 DEF r, s
    <3> QED
      BY <1>8, <3>1
  <2>3. seqNo' \in Nat /\ active' \in Nat /\ evicted' \in Nat /\ got' \in Nat
    BY <1>1, <1>8, <1>16 DEF QueueTypes
  <2> QED
    BY <1>12, <2>1, <2>2, <2>3 DEF QueueTypes
<1>18. Numbered'
  <2>1. \A f \in heap \ {e} : f.seq \in Nat /\ f.seq < seqNo /\ f.seq # e.seq
    BY <1>1, <1>4 DEF Numbered, QueueTypes, Entries
  <2>2. e.seq \in Nat /\ e.seq < seqNo /\ seqNo \in Nat
    BY <1>1, <1>4 DEF Numbered, QueueTypes, Entries
  <2>3. \A f \in heap' : f.seq < seqNo + 1
    BY <1>2, <1>5, <1>8, <2>1, <2>2
  <2>4. \A f, g \in heap' : f.seq = g.seq => f = g
    BY <1>1, <1>2, <1>5, <1>8, <2>1, <2>2 DEF Numbered
  <2> QED
    BY <1>8, <2>3, <2>4 DEF Numbered
<1>19. Accounted'
  <2>1. ASSUME NEW m \in Members PROVE depth'[m] = Removed(Live', m)
    BY <1>1, <1>6, <1>8, <1>15 DEF Accounted
  <2>2. active' = Cardinality(Live') /\ active' <= MaxQueue
    BY <1>1, <1>14, <1>16 DEF Accounted
  <2>3. seqNo' = active' + evicted' + got'
    BY <1>1, <1>8, <1>16 DEF Accounted, QueueTypes
  <2> QED
    BY <2>1, <2>2, <2>3 DEF Accounted
<1> QED
  BY <1>17, <1>18, <1>19 DEF QueueInv

LEMMA GetKeepsQueue == ASSUME QueueInv, Get PROVE QueueInv'
<1>1. QueueTypes /\ Numbered /\ Accounted
  BY DEF QueueInv
<1>2. PICK e \in Live :
         /\ \A f \in Live : Before(e, f)
         /\ heap' = {f \in heap : ~Before(f, e)}
         /\ active' = active - 1
         /\ depth' = [depth EXCEPT ![Sender[e.chunk]] = @ - 1]
  <2>1. \E e \in Live : \A f \in Live : Before(e, f)
    BY <1>1, FrontIsThere DEF Get
  <2> QED
    BY <2>1 DEF Get
<1>3. got' = got + 1 /\ UNCHANGED <<seqNo, evicted>>
  BY DEF Get
<1>4. /\ \A f \in heap : f.seq \in Nat /\ f.chunk \in Chunks /\ Priority[f.chunk] \in Nat
      /\ e \in heap /\ Sender[e.chunk] \in Members
  BY <1>1, <1>2, LiveIsFinite, SendersAreMembers DEF QueueTypes, Entries
<1>5. \A f \in Live : Before(f, e) <=> f = e
  BY <1>1, <1>2, <1>4, LiveIsFinite DEF Before, Numbered
<1>6. Live' = Live \ {e}
  BY <1>2, <1>5 DEF Live
<1>7. /\ IsFiniteSet(Live) /\ Cardinality(Live') = Cardinality(Live) - 1
      /\ Cardinality(Live) \in Nat /\ Cardinality(Live') \in Nat
  <2>1. IsFiniteSet(Live) /\ Cardinality(Live) \in Nat /\ IsFiniteSet(Live \ {e})
    BY <1>1, LiveIsFinite, FS_RemoveElement
  <2> QED
    BY <1>2, <1>6, <2>1, FS_RemoveElement, FS_CardinalityType
<1>8. \A m \in Members : /\ Removed(Live', m) = Removed(Live, m) - Removed({e}, m)
                         /\ Removed(Live, m) \in Nat
  BY <1>2, <1>6, <1>7, RemovedTakes
<1>9. \A m \in Members : depth'[m] = Removed(Live', m)
  BY <1>1, <1>2, <1>4, <1>8, RemovedOfOne DEF Accounted, QueueTypes
<1>10. IsFiniteSet(heap')
  BY <1>1, <1>2, FS_Subset DEF QueueTypes
<1>11. QueueTypes'
  <2>1. depth' \in [Members -> Int]
    <3>1. depth \in [Members -> Int] /\ depth[Sender[e.chunk]] - 1 \in Int
      BY <1>1, <1>4 DEF QueueTypes
    <3> QED
      BY <1>2, <3>1
  <2>2. active' \in Nat
    BY <1>1, <1>2, <1>7 DEF Accounted
  <2> QED
    BY <1>1, <1>2, <1>3, <1>10, <2>1, <2>2 DEF QueueTypes
<1>12. Numbered'
  BY <1>1, <1>2, <1>3 DEF Numbered
<1>13. Accounted'
  BY <1>1, <1>2, <1>3, <1>7, <1>9, SendersAreMembers DEF Accounted, QueueTypes
<1> QED
  BY <1>11, <1>12, <1>13 DEF QueueInv

LEMMA PutKeepsQueue ==
    ASSUME QueueInv, NEW c \in Chunks, Put(c)
    PROVE  QueueInv'
<1>1. CASE active >= MaxQueue
  BY <1>1, OneForAnother DEF Put
<1>2. CASE ~(active >= MaxQueue)
  <2>1. active < MaxQueue
    BY <1>2, SendersAreMembers DEF QueueInv, QueueTypes
  <2> QED
    BY <1>2, <2>1, RoomForOne DEF Put
<1> QED
  BY <1>1, <1>2

\* What the submissions and the windows leave true.
LEMMA ClaimSteps ==
    ASSUME ClaimInv, [Next]_vars
    PROVE  ClaimInv'
<1>0. SubmitTypes /\ Claims
  BY DEF ClaimInv
<1>1. ASSUME NEW h \in Handlers, NEW c \in Chunks, Submit(h, c) PROVE ClaimInv'
  BY <1>0, <1>1 DEF Submit, submitVars, dedupeVars, ClaimInv, SubmitTypes, Claims
<1>2. ASSUME NEW h \in Handlers, Select(h) PROVE ClaimInv'
  <2>1. item[h] \in Chunks /\ UNCHANGED <<item, receipt, enqueued, renewed>>
    BY <1>0, <1>2 DEF Select, dedupeVars, history, Claims
  <2>2. pc' = [pc EXCEPT ![h] = "claim"] /\ saw' = [saw EXCEPT ![h] = receipt[item[h]]]
    BY <1>2 DEF Select
  <2> QED
    BY <1>0, <2>1, <2>2 DEF ClaimInv, SubmitTypes, Claims
<1>3. ASSUME NEW h \in Handlers, Idle(h),
             \A c \in Chunks : /\ receipt'[c] \in {receipt[c], "fresh"}
                               /\ c # item[h] => receipt'[c] = receipt[c],
             receipt' \in [Chunks -> {"none", "fresh", "expired"}], renewed' = renewed,
             \/ enqueued' = enqueued
             \/ /\ enqueued' = enqueued \cup {item[h]}
                /\ item[h] \in Chunks /\ receipt'[item[h]] = "fresh"
      PROVE  ClaimInv'
  <2>1. /\ pc' = [pc EXCEPT ![h] = "idle"] /\ item' = [item EXCEPT ![h] = NoChunk]
        /\ saw' = [saw EXCEPT ![h] = "none"]
    BY <1>3 DEF Idle
  <2>2. SubmitTypes'
    BY <1>0, <1>3, <2>1 DEF SubmitTypes
  <2>3. Claims'
    BY <1>0, <1>3, <2>1 DEF SubmitTypes, Claims
  <2> QED
    BY <2>2, <2>3 DEF ClaimInv
<1>4. ASSUME NEW h \in Handlers, ClaimFails(h) PROVE ClaimInv'
  BY <1>0, <1>3, <1>4 DEF ClaimFails, dedupeVars, history, SubmitTypes
<1>5. ASSUME NEW h \in Handlers, Duplicate(h) PROVE ClaimInv'
  <2>1. item[h] \in Chunks /\ pc[h] # "idle"
    BY <1>0, <1>5 DEF Duplicate, Claimable, Claims
  <2>2. receipt' = [receipt EXCEPT ![item[h]] = "fresh"] /\ UNCHANGED <<enqueued, renewed>> /\ Idle(h)
    BY <1>5 DEF Duplicate
  <2> QED
    BY <1>0, <1>3, <2>1, <2>2 DEF SubmitTypes
<1>6. ASSUME NEW h \in Handlers, New(h) PROVE ClaimInv'
  <2>1. item[h] \in Chunks /\ pc[h] # "idle"
    BY <1>0, <1>6 DEF New, Claimable, Claims
  <2>2. receipt' = [receipt EXCEPT ![item[h]] = "fresh"] /\ renewed' = renewed /\ Idle(h)
    BY <1>6 DEF New
  <2>3. enqueued' = enqueued \/ enqueued' = enqueued \cup {item[h]}
    BY <1>6 DEF New, Put, Enqueue
  <2> QED
    BY <1>0, <1>3, <2>1, <2>2, <2>3 DEF SubmitTypes
<1>7. ASSUME NEW c \in Chunks, Expire(c) PROVE ClaimInv'
  BY <1>0, <1>7 DEF Expire, submitVars, ClaimInv, SubmitTypes, Claims
<1>8. ASSUME UNCHANGED <<submitVars, receipt, enqueued, renewed>> PROVE ClaimInv'
  BY <1>0, <1>8 DEF submitVars, ClaimInv, SubmitTypes, Claims
<1>9. ASSUME Restart PROVE ClaimInv'
  BY <1>0, <1>9 DEF Restart, history, ClaimInv, SubmitTypes, Claims
<1> QED
  BY <1>1, <1>2, <1>4, <1>5, <1>6, <1>7, <1>8, <1>9
     DEF Next, Get, AckLost, ExpireCached, dedupeVars, history, vars

LEMMA QueueSteps ==
    ASSUME QueueInv, ClaimInv, [Next]_vars
    PROVE  QueueInv'
<1>1. CASE UNCHANGED queueVars
  <2>1. UNCHANGED <<heap, seqNo, active, depth, evicted, got>>
    BY <1>1 DEF queueVars
  <2> QED
    BY <2>1 DEF QueueInv, QueueTypes, Numbered, Accounted, Live
<1>2. CASE Get
  BY <1>2, GetKeepsQueue
<1>3. ASSUME NEW h \in Handlers, New(h) PROVE QueueInv'
  <2>1. item[h] \in Chunks
    BY <1>3 DEF New, Claimable, ClaimInv, Claims
  <2>2. CASE Put(item[h])
    BY <2>1, <2>2, PutKeepsQueue
  <2> QED
    BY <1>1, <1>3, <2>2 DEF New
<1>4. CASE Restart
  <2>1. /\ heap' = {} /\ seqNo' = 0 /\ active' = 0 /\ evicted' = 0 /\ got' = 0
        /\ depth' = [m \in Members |-> 0]
    BY <1>4 DEF Restart
  <2>2. Live' = {}
    BY <2>1 DEF Live
  <2>3. \A m : Removed(Live', m) = 0
    BY <2>2, RemovedOfNone
  <2>4. Cardinality(Live') = 0 /\ IsFiniteSet(heap')
    BY <2>1, <2>2, FS_EmptySet
  <2>5. QueueTypes' /\ Numbered'
    BY <2>1, <2>4 DEF QueueTypes, Numbered
  <2>6. Accounted'
    BY <2>1, <2>3, <2>4, SendersAreMembers DEF Accounted
  <2> QED
    BY <2>5, <2>6 DEF QueueInv
<1> QED
  BY <1>1, <1>2, <1>3, <1>4
     DEF Next, Submit, Select, ClaimFails, Duplicate, AckLost, Expire, ExpireCached, vars

LEMMA AudioInvariant == Spec => [](QueueInv /\ ClaimInv)
<1>1. ASSUME Init PROVE QueueInv /\ ClaimInv
  <2>1. /\ heap = {} /\ seqNo = 0 /\ active = 0 /\ evicted = 0 /\ got = 0
        /\ depth = [m \in Members |-> 0]
    BY <1>1 DEF Init
  <2>2. Live = {}
    BY <2>1 DEF Live
  <2>3. \A m : Removed(Live, m) = 0
    BY <2>2, RemovedOfNone
  <2>4. Cardinality(Live) = 0 /\ IsFiniteSet(heap)
    BY <2>1, <2>2, FS_EmptySet
  <2>5. QueueTypes /\ Numbered
    BY <2>1, <2>4 DEF QueueTypes, Numbered
  <2>6. Accounted
    BY <2>1, <2>3, <2>4, SendersAreMembers DEF Accounted
  <2>7. ClaimInv
    BY <1>1 DEF Init, ClaimInv, SubmitTypes, Claims
  <2> QED
    BY <2>5, <2>6, <2>7 DEF QueueInv
<1>2. QueueInv /\ ClaimInv /\ [Next]_vars => (QueueInv /\ ClaimInv)'
  BY QueueSteps, ClaimSteps
<1> QED
  BY <1>1, <1>2, PTL DEF Spec

\* Through evictions, which leave entries in the heap, and gets, the counters
\* of AudioIngest agree with the live entries and with one another, and there
\* are never more of these than the queue's size.
THEOREM ChunksAreAccounted == AllSpec => []Accounted
<1>1. QueueInv => Accounted
  BY DEF QueueInv
<1> QED
  BY <1>1, Composed, AudioInvariant, PTL

\* Within its first idempotency window a chunk enters the queue once at most,
\* whichever connections submit it again and whether or not the hub restarts
\* (submit_audio, claim_ingest_receipt).
THEOREM ChunksEnterOnce == AllSpec => OnceInFirstWindow
<1>1. ASSUME QueueInv, ClaimInv, [Next]_vars
      PROVE  [\A c \in enqueued \ renewed : \A e \in heap' \ heap : e.chunk # c \/ e.dropped]_vars
  <2> SUFFICES ASSUME NEW c \in enqueued \ renewed, NEW e \in heap' \ heap, ~e.dropped
               PROVE  e.chunk # c
    OBVIOUS
  <2>1. ASSUME NEW h \in Handlers, New(h) PROVE e.chunk # c
    <3>1. Put(item[h]) /\ pc[h] = "claim" /\ saw[h] # "fresh"
          /\ (saw[h] # "none" \/ receipt[item[h]] = "none")
      BY <2>1 DEF New, Claimable, queueVars
    <3>2. item[h] # c
      BY <1>1, <3>1 DEF ClaimInv, SubmitTypes, Claims
    <3> DEFINE gone == IF active >= MaxQueue THEN {Candidate} ELSE {}
               x == [chunk |-> item[h], seq |-> seqNo, dropped |-> FALSE]
    <3>3. heap' = (heap \ gone) \cup {[g EXCEPT !.dropped = TRUE] : g \in gone} \cup {x}
      BY <3>1 DEF Put, Enqueue
    <3>4. \A g \in gone : g \in Entries
      BY <1>1, FullHasCandidate
    <3>5. \A g \in gone : [g EXCEPT !.dropped = TRUE].dropped
      BY <3>4 DEF Entries
    <3> HIDE DEF gone
    <3>6. e = x
      BY <3>3, <3>5
    <3> QED
      BY <3>2, <3>6
  <2> QED
    BY <1>1, <2>1 DEF Next, Get, Submit, Select, ClaimFails, Duplicate, AckLost, Expire,
                      ExpireCached, Restart, queueVars, vars
<1> QED
  BY <1>1, Composed, AudioInvariant, PTL DEF Spec, OnceInFirstWindow

-----------------------------------------------------------------------------
(* Frames.                                                                 *)

FrameSet == [is : {"frame"}, member : FrMembers, score : Scores, at : Times]
Shots == [member : FrMembers, score : Scores, seq : Nat]

FrameTypes ==
    /\ hand \in [Helpers -> {Frames!Nothing} \cup [is : {"audio", "meta"}] \cup FrameSet]
    /\ queue \in SUBSET Shots /\ IsFiniteSet(queue)
    /\ accepted \in Nat /\ frEvicted \in Nat /\ taken \in Nat /\ frActive \in Nat
    /\ frDepth \in [FrMembers -> Int]
    /\ worker \in {Frames!Waiting} \cup [is : {"analyse", "observe"}, seq : Nat] \cup [is : {"done"}]

Mine(S, m) == {e \in S : e.member = m}

FramesCounted ==
    /\ \A e \in queue : e.seq < accepted
    /\ \A e, g \in queue : e.seq = g.seq => e = g
    /\ frActive = Cardinality(queue) /\ frActive <= FrMaxQueue
    /\ accepted = frEvicted + taken + frActive
    /\ \A m \in FrMembers : frDepth[m] = Cardinality(Mine(queue, m))

\* An orderly stop begins when no handler is at work, and its worker is the
\* last to leave.
Stopping ==
    /\ ~running => ~open
    /\ ~open => \A h \in Helpers : hand[h] = Frames!Nothing
    /\ worker.is = "done" => queue = {} /\ ~open

FrameInv == FrameTypes /\ FramesCounted /\ Stopping

LEMMA FrameConstants ==
    /\ FrMaxQueue \in Nat \ {0} /\ MaxDepth \in Nat \ {0}
    /\ Scores \subseteq Nat /\ Times \subseteq Nat
BY PartsAssumption DEF Frames!FrameAssumption

LEMMA SameCardinality == \A S : Frames!Cardinality(S) = Cardinality(S)
BY DEF Frames!Cardinality, Cardinality

LEMMA ShotsAre ==
    ASSUME FrameTypes
    PROVE  /\ \A e \in queue : e.member \in FrMembers /\ e.score \in Nat /\ e.seq \in Nat
           /\ Cardinality(queue) \in Nat
<1>1. \A e \in Shots : e.member \in FrMembers /\ e.score \in Nat /\ e.seq \in Nat
  BY FrameConstants DEF Shots
<1> QED
  BY <1>1, FS_CardinalityType DEF FrameTypes

LEMMA MineOfOne ==
    ASSUME NEW e, NEW m
    PROVE  /\ e.member = m => Cardinality(Mine({e}, m)) = 1
           /\ e.member # m => Cardinality(Mine({e}, m)) = 0
<1>1. (e.member = m => Mine({e}, m) = {e}) /\ (e.member # m => Mine({e}, m) = {})
  BY DEF Mine
<1>2. Cardinality({e}) = 1 /\ Cardinality({}) = 0
  BY FS_EmptySet, FS_Singleton
<1> QED
  BY <1>1, <1>2

\* One frame more, or one less.
LEMMA MineAdds ==
    ASSUME NEW S, IsFiniteSet(S), NEW e, e \notin S, NEW m
    PROVE  /\ e.member = m => Cardinality(Mine(S \cup {e}, m)) = Cardinality(Mine(S, m)) + 1
           /\ e.member # m => Cardinality(Mine(S \cup {e}, m)) = Cardinality(Mine(S, m))
           /\ Cardinality(Mine(S, m)) \in Nat
<1>1. IsFiniteSet(Mine(S, m)) /\ e \notin Mine(S, m) /\ Cardinality(Mine(S, m)) \in Nat
  BY FS_Subset, FS_CardinalityType DEF Mine
<1>2. /\ e.member = m => Mine(S \cup {e}, m) = Mine(S, m) \cup {e}
      /\ e.member # m => Mine(S \cup {e}, m) = Mine(S, m)
  BY DEF Mine
<1>3. Cardinality(Mine(S, m) \cup {e}) = Cardinality(Mine(S, m)) + 1
  BY <1>1, FS_AddElement
<1> QED
  BY <1>1, <1>2, <1>3

LEMMA MineTakes ==
    ASSUME NEW S, IsFiniteSet(S), NEW e \in S, NEW m
    PROVE  /\ e.member = m => Cardinality(Mine(S \ {e}, m)) = Cardinality(Mine(S, m)) - 1
           /\ e.member # m => Cardinality(Mine(S \ {e}, m)) = Cardinality(Mine(S, m))
           /\ Cardinality(Mine(S \ {e}, m)) \in Nat
<1> DEFINE T == S \ {e}
           n == Cardinality(Mine(T, m))
           k == Cardinality(Mine(S, m))
<1>1. IsFiniteSet(T) /\ e \notin T /\ T \cup {e} = S
  BY FS_RemoveElement
<1> HIDE DEF T
<1>2. (e.member = m => k = n + 1) /\ (e.member # m => k = n) /\ n \in Nat
  BY <1>1, MineAdds, SMTT(30)
<1> HIDE DEF n, k
<1>3. (e.member = m => n = k - 1) /\ (e.member # m => n = k) /\ n \in Nat
  BY <1>2
<1> QED
  BY <1>3 DEF T, n, k

\* The three choices of a frame find one.
LEMMA DullestIsThere ==
    ASSUME FrameTypes, NEW S \in SUBSET queue, S # {}
    PROVE  Frames!Dullest(S) \in S /\ \A g \in S : Frames!Dullest(S).score <= g.score
<1> DEFINE B(e, g) == e.score < g.score \/ (e.score = g.score /\ e.seq <= g.seq)
           R == {x \in S \X S : B(x[1], x[2])}
<1>1. \A e \in S : e.score \in Nat /\ e.seq \in Nat
  BY ShotsAre
<1>2. \A e, g \in S : <<e, g>> \in R <=> B(e, g)
  OBVIOUS
<1>3. \A e, g \in S : B(e, g) \/ B(g, e)
  BY <1>1
<1>4. \A e, f, g \in S : B(e, f) /\ B(f, g) => B(e, g)
  BY <1>1
<1>5. IsFiniteSet(S)
  BY FS_Subset DEF FrameTypes
<1>6. Frames!Dullest(S) = CHOOSE e \in S : \A g \in S : B(e, g)
  BY DEF Frames!Dullest
<1>7. \A e, g \in S : B(e, g) => e.score <= g.score
  BY <1>1
<1> HIDE DEF R, B
<1>8. Ahead(R, S) # {}
  BY <1>2, <1>3, <1>4, <1>5, FirstIsThere
<1>9. \E e \in S : \A g \in S : B(e, g)
  BY <1>2, <1>8 DEF Ahead
<1> QED
  BY <1>6, <1>7, <1>9

LEMMA LowestIsThere ==
    ASSUME FrameTypes, queue # {}
    PROVE  \E e \in queue : \A g \in queue :
             \/ e.score < g.score
             \/ e.score = g.score /\ Frames!PriorityOf(e.member) < Frames!PriorityOf(g.member)
             \/ e.score = g.score /\ Frames!PriorityOf(e.member) = Frames!PriorityOf(g.member)
                                  /\ e.seq <= g.seq
<1> DEFINE P(e) == Frames!PriorityOf(e.member)
           B(e, g) == \/ e.score < g.score
                      \/ e.score = g.score /\ P(e) < P(g)
                      \/ e.score = g.score /\ P(e) = P(g) /\ e.seq <= g.seq
           R == {x \in queue \X queue : B(x[1], x[2])}
<1>1. \A e \in queue : e.score \in Nat /\ e.seq \in Nat /\ P(e) \in Nat
  BY ShotsAre DEF Frames!PriorityOf
<1>2. \A e, g \in queue : <<e, g>> \in R <=> B(e, g)
  OBVIOUS
<1> HIDE DEF P
<1>3. \A e, g \in queue : B(e, g) \/ B(g, e)
  BY <1>1
<1>4. \A e, f, g \in queue : B(e, f) /\ B(f, g) => B(e, g)
  BY <1>1
<1> HIDE DEF R, B
<1>8. Ahead(R, queue) # {}
  BY <1>2, <1>3, <1>4, FirstIsThere DEF FrameTypes
<1>9. \E e \in queue : \A g \in queue : B(e, g)
  BY <1>2, <1>8 DEF Ahead
<1> QED
  BY <1>9 DEF B, P

LEMMA BestIsThere ==
    ASSUME FrameTypes, queue # {}
    PROVE  \E e \in queue : \A g \in queue :
             \/ e.score > g.score
             \/ e.score = g.score /\ Frames!PriorityOf(e.member) > Frames!PriorityOf(g.member)
             \/ e.score = g.score /\ Frames!PriorityOf(e.member) = Frames!PriorityOf(g.member)
                                  /\ e.seq <= g.seq
<1> DEFINE P(e) == Frames!PriorityOf(e.member)
           B(e, g) == \/ e.score > g.score
                      \/ e.score = g.score /\ P(e) > P(g)
                      \/ e.score = g.score /\ P(e) = P(g) /\ e.seq <= g.seq
           R == {x \in queue \X queue : B(x[1], x[2])}
<1>1. \A e \in queue : e.score \in Nat /\ e.seq \in Nat /\ P(e) \in Nat
  BY ShotsAre DEF Frames!PriorityOf
<1>2. \A e, g \in queue : <<e, g>> \in R <=> B(e, g)
  OBVIOUS
<1> HIDE DEF P
<1>3. \A e, g \in queue : B(e, g) \/ B(g, e)
  BY <1>1
<1>4. \A e, f, g \in queue : B(e, f) /\ B(f, g) => B(e, g)
  BY <1>1
<1> HIDE DEF R, B
<1>8. Ahead(R, queue) # {}
  BY <1>2, <1>3, <1>4, FirstIsThere DEF FrameTypes
<1>9. \E e \in queue : \A g \in queue : B(e, g)
  BY <1>2, <1>8 DEF Ahead
<1> QED
  BY <1>9 DEF B, P

\* A frame evicts one at most: its member's dullest, or the dullest of all.
LEMMA Victims ==
    ASSUME FrameInv, NEW f \in FrameSet
    PROVE  \/ /\ Frames!MemberVictim(f) = {} /\ Frames!GlobalVictim(f) = {}
              /\ frActive < FrMaxQueue
           \/ \E v \in queue :
                /\ Frames!MemberVictim(f) = {v} /\ Frames!GlobalVictim(f) = {}
                /\ v.member = f.member /\ \A g \in Mine(queue, f.member) : v.score <= g.score
           \/ \E v \in queue :
                /\ Frames!MemberVictim(f) = {} /\ Frames!GlobalVictim(f) = {v}
                /\ \A g \in queue : v.score <= g.score
<1> DEFINE MV == Frames!MemberVictim(f)
           GV == Frames!GlobalVictim(f)
           own == Mine(queue, f.member)
<1>1. FrameTypes /\ FramesCounted /\ f.member \in FrMembers
  BY DEF FrameInv, FrameSet
<1>2. frDepth[f.member] \in Int /\ frActive \in Nat /\ FrMaxQueue \in Nat \ {0}
      /\ MaxDepth \in Nat \ {0} /\ frActive <= FrMaxQueue
  BY <1>1, FrameConstants DEF FrameTypes, FramesCounted
<1>3. MV = IF frDepth[f.member] < MaxDepth THEN {} ELSE {Frames!Dullest(own)}
  BY DEF Frames!MemberVictim, Frames!Of, Mine
<1>4. CASE frDepth[f.member] < MaxDepth
  <2>1. MV = {}
    BY <1>3, <1>4
  <2>2. Frames!Cardinality(MV) = 0
    BY <2>1, SameCardinality, FS_EmptySet
  <2>3. CASE frActive < FrMaxQueue
    <3>1. frActive - Frames!Cardinality(MV) < FrMaxQueue
      BY <1>2, <2>2, <2>3
    <3>2. GV = {}
      BY <3>1 DEF Frames!GlobalVictim
    <3> QED
      BY <2>1, <2>3, <3>2
  <2>4. CASE ~(frActive < FrMaxQueue)
    <3>1. ~(frActive - Frames!Cardinality(MV) < FrMaxQueue) /\ Cardinality(queue) # 0
      BY <1>1, <1>2, <2>2, <2>4 DEF FramesCounted
    <3>2. queue # {}
      BY <3>1, FS_EmptySet
    <3>3. PICK v \in queue : /\ GV = {v}
                             /\ \A g \in queue : v.score < g.score \/ v.score = g.score
      <4> HIDE DEF MV
      <4>1. \E e \in queue : \A g \in queue :
             \/ e.score < g.score
             \/ e.score = g.score /\ Frames!PriorityOf(e.member) < Frames!PriorityOf(g.member)
             \/ e.score = g.score /\ Frames!PriorityOf(e.member) = Frames!PriorityOf(g.member)
                                  /\ e.seq <= g.seq
        BY <1>1, <3>2, LowestIsThere
      <4> QED
        BY <3>1, <4>1 DEF Frames!GlobalVictim, MV
    <3>4. \A g \in queue : v.score <= g.score
      BY <1>1, <3>3, ShotsAre
    <3> QED
      BY <2>1, <3>3, <3>4
  <2> QED
    BY <2>3, <2>4
<1>5. CASE ~(frDepth[f.member] < MaxDepth)
  <2>1. Cardinality(own) # 0
    BY <1>1, <1>2, <1>5 DEF FramesCounted
  <2>2. own # {} /\ own \in SUBSET queue
    BY <2>1, FS_EmptySet DEF Mine
  <2>3. PICK v \in own : MV = {v} /\ \A g \in own : v.score <= g.score
    BY <1>1, <1>3, <1>5, <2>2, DullestIsThere
  <2>4. Frames!Cardinality(MV) = 1
    BY <2>3, SameCardinality, FS_Singleton
  <2>5. frActive - Frames!Cardinality(MV) < FrMaxQueue
    BY <1>2, <2>4
  <2>6. GV = {}
    BY <2>5 DEF Frames!GlobalVictim
  <2>7. v \in queue /\ v.member = f.member
    BY <2>3 DEF Mine
  <2> QED
    BY <2>3, <2>6, <2>7
<1> QED
  BY <1>4, <1>5

\* A put() that refuses its frame leaves the queue as it is.
LEMMA RefusalCostsNone ==
    ASSUME FrameInv, NEW f \in FrameSet, Frames!Refused(f),
           NEW gone,
           gone = IF \E e \in Frames!MemberVictim(f) : f.score < e.score
                     THEN {} ELSE Frames!MemberVictim(f)
    PROVE  gone = {}
<1>1. CASE Frames!MemberVictim(f) = {}
  BY <1>1
<1>2. CASE Frames!GlobalVictim(f) = {}
  BY <1>2 DEF Frames!Refused
<1> QED
  BY <1>1, <1>2, Victims

\* The queue with one frame more, or one less.
LEMMA OneLess ==
    ASSUME FrameTypes, NEW v \in queue, NEW T, T = queue \ {v}
    PROVE  /\ IsFiniteSet(T) /\ T \in SUBSET Shots
           /\ Cardinality(T) = Cardinality(queue) - 1 /\ Cardinality(T) \in Nat
           /\ \A m : /\ v.member = m => Cardinality(Mine(T, m)) = Cardinality(Mine(queue, m)) - 1
                     /\ v.member # m => Cardinality(Mine(T, m)) = Cardinality(Mine(queue, m))
BY FS_RemoveElement, FS_CardinalityType, MineTakes DEF FrameTypes

LEMMA OneMore ==
    ASSUME NEW T \in SUBSET Shots, IsFiniteSet(T), NEW x \in Shots, x \notin T,
           NEW U, U = T \cup {x}
    PROVE  /\ IsFiniteSet(U) /\ U \in SUBSET Shots
           /\ Cardinality(U) = Cardinality(T) + 1
           /\ \A m : /\ x.member = m => Cardinality(Mine(U, m)) = Cardinality(Mine(T, m)) + 1
                     /\ x.member # m => Cardinality(Mine(U, m)) = Cardinality(Mine(T, m))
BY FS_AddElement, MineAdds

\* The counters after an accepted frame of member m, which has cost at most one.
LEMMA AcceptCounts ==
    ASSUME FrameInv, NEW f \in FrameSet, Frames!Accept(f)
    PROVE  /\ queue' \in SUBSET Shots /\ IsFiniteSet(queue')
           /\ frEvicted' \in Nat /\ frActive' \in Nat /\ accepted' \in Nat
           /\ frDepth' \in [FrMembers -> Int]
           /\ \E x \in Shots, gone \in SUBSET queue :
                 /\ x.seq = accepted /\ x.score = f.score /\ x.member = f.member /\ x \notin queue
                 /\ queue' = (queue \ gone) \cup {x}
                 /\ gone = Frames!MemberVictim(f) \cup Frames!GlobalVictim(f)
           /\ (taken' = taken => FramesCounted')
<1> DEFINE gone == Frames!MemberVictim(f) \cup Frames!GlobalVictim(f)
           x == [member |-> f.member, score |-> f.score, seq |-> accepted]
           T == queue \ gone
           lost1(m) == Frames!Cardinality({e \in gone : e.member = m})
<1>1. FrameTypes /\ FramesCounted /\ f.member \in FrMembers /\ f.score \in Scores
  BY DEF FrameInv, FrameSet
<1>2. accepted \in Nat /\ frEvicted \in Nat /\ frActive \in Nat /\ frDepth \in [FrMembers -> Int]
      /\ IsFiniteSet(queue) /\ queue \in SUBSET Shots
  BY <1>1 DEF FrameTypes
<1>3. x \in Shots /\ x.seq = accepted /\ x.score = f.score /\ x.member = f.member
  BY <1>1, <1>2 DEF Shots
<1>4. x \notin queue
  BY <1>1, <1>2, <1>3 DEF FramesCounted
<1>5. /\ accepted' = accepted + 1 /\ queue' = T \cup {x}
      /\ frEvicted' = frEvicted + Frames!Cardinality(gone)
      /\ frActive' = frActive - Frames!Cardinality(gone) + 1
      /\ frDepth' = [m \in FrMembers |-> frDepth[m] - lost1(m) + (IF m = f.member THEN 1 ELSE 0)]
  BY DEF Frames!Accept, Frames!Depths
<1> HIDE DEF x
<1> DEFINE Takes(n) ==
         /\ Frames!Cardinality(gone) = n /\ gone \in SUBSET queue
         /\ IsFiniteSet(T) /\ T \in SUBSET Shots /\ T \subseteq queue
         /\ Cardinality(T) = frActive - n /\ frActive - n + 1 <= FrMaxQueue
         /\ \A m \in FrMembers : /\ lost1(m) \in Nat
                                 /\ Cardinality(Mine(T, m)) = frDepth[m] - lost1(m)
<1>6. PICK n \in {0, 1} : Takes(n)
  <2>1. ASSUME gone = {}, frActive < FrMaxQueue PROVE Takes(0)
    <3>1. T = queue /\ \A m : {e \in gone : e.member = m} = {}
      BY <2>1
    <3>2. Frames!Cardinality(gone) = 0 /\ \A m : lost1(m) = 0
      BY <2>1, <3>1, SameCardinality, FS_EmptySet
    <3> HIDE DEF gone, T, lost1
    <3>3. \A m \in FrMembers : Cardinality(Mine(T, m)) = frDepth[m] - lost1(m)
      <4>1. \A m \in FrMembers : frDepth[m] \in Int /\ Cardinality(Mine(T, m)) = frDepth[m]
        BY <1>1, <1>2, <3>1 DEF FramesCounted
      <4> QED
        BY <3>2, <4>1
    <3>4. Cardinality(T) = frActive - 0 /\ frActive - 0 + 1 <= FrMaxQueue
      BY <1>1, <1>2, <2>1, <3>1, FrameConstants DEF FramesCounted
    <3> QED
      BY <1>2, <2>1, <3>1, <3>2, <3>3, <3>4
  <2>2. ASSUME NEW v \in queue, gone = {v} PROVE Takes(1)
    <3>1. T = queue \ {v} /\ \A m : {e \in gone : e.member = m} = Mine({v}, m)
      BY <2>2 DEF Mine
    <3>2. Frames!Cardinality(gone) = 1 /\ \A m : lost1(m) = Cardinality(Mine({v}, m))
      BY <2>2, <3>1, SameCardinality, FS_Singleton
    <3> HIDE DEF gone, T, lost1
    <3>3. /\ IsFiniteSet(T) /\ T \in SUBSET Shots
          /\ Cardinality(T) = frActive - 1
      BY <1>1, <3>1, OneLess DEF FramesCounted
    <3>6. \A m : /\ v.member = m => Cardinality(Mine(T, m)) = Cardinality(Mine(queue, m)) - 1
                 /\ v.member # m => Cardinality(Mine(T, m)) = Cardinality(Mine(queue, m))
      <4>1. FrameTypes /\ T = queue \ {v} /\ v \in queue
        BY <1>1, <3>1
      <4> QED
        BY ONLY <4>1, OneLess
    <3>4. ASSUME NEW m \in FrMembers
          PROVE  lost1(m) \in Nat /\ Cardinality(Mine(T, m)) = frDepth[m] - lost1(m)
      <4>1. frDepth[m] \in Int /\ frDepth[m] = Cardinality(Mine(queue, m))
        BY <1>1, <1>2 DEF FramesCounted
      <4>2. CASE v.member = m
        <5>1. lost1(m) = 1
          BY <3>2, <4>2, MineOfOne
        <5>2. Cardinality(Mine(T, m)) = Cardinality(Mine(queue, m)) - 1
          BY <3>6, <4>2
        <5> QED
          BY <4>1, <5>1, <5>2
      <4>3. CASE v.member # m
        <5>1. lost1(m) = 0
          BY <3>2, <4>3, MineOfOne
        <5>2. Cardinality(Mine(T, m)) = Cardinality(Mine(queue, m))
          BY <3>6, <4>3
        <5> QED
          BY <4>1, <5>1, <5>2
      <4> QED
        BY <4>2, <4>3
    <3>5. frActive - 1 + 1 <= FrMaxQueue
      BY <1>1, <1>2, FrameConstants DEF FramesCounted
    <3> QED
      BY <2>2, <3>1, <3>2, <3>3, <3>4, <3>5
  <2>3. \/ gone = {} /\ frActive < FrMaxQueue
        \/ \E v \in queue : gone = {v}
    BY Victims
  <2> QED
    BY <2>1, <2>2, <2>3
<1>7. x \notin T
  BY <1>4, <1>6
<1> HIDE DEF gone, T, lost1
<1>8. /\ IsFiniteSet(queue') /\ queue' \in SUBSET Shots
      /\ Cardinality(queue') = Cardinality(T) + 1
      /\ \A m : /\ x.member = m => Cardinality(Mine(queue', m)) = Cardinality(Mine(T, m)) + 1
                /\ x.member # m => Cardinality(Mine(queue', m)) = Cardinality(Mine(T, m))
  BY <1>3, <1>5, <1>6, <1>7, OneMore
<1>9. /\ frActive' = frActive - n + 1 /\ frEvicted' = frEvicted + n /\ n \in {0, 1}
      /\ Cardinality(T) = frActive - n /\ frActive - n + 1 <= FrMaxQueue
  BY <1>5, <1>6
<1>10. frActive' = Cardinality(queue') /\ frActive' <= FrMaxQueue /\ frActive' \in Nat
  <2>1. Cardinality(queue') \in Nat
    BY <1>8, FS_CardinalityType
  <2> QED
    BY <1>2, <1>8, <1>9, <2>1
<1>11. ASSUME NEW m \in FrMembers
       PROVE  frDepth'[m] = Cardinality(Mine(queue', m)) /\ frDepth'[m] \in Int
  <2>1. frDepth[m] \in Int /\ lost1(m) \in Nat /\ Cardinality(Mine(T, m)) = frDepth[m] - lost1(m)
    BY <1>2, <1>6
  <2>2. CASE f.member = m
    <3>1. Cardinality(Mine(queue', m)) = Cardinality(Mine(T, m)) + 1
      BY <1>3, <1>8, <2>2
    <3>2. frDepth'[m] = frDepth[m] - lost1(m) + 1
      BY <1>5, <2>2
    <3> QED
      BY <2>1, <3>1, <3>2
  <2>3. CASE f.member # m
    <3>1. Cardinality(Mine(queue', m)) = Cardinality(Mine(T, m))
      BY <1>3, <1>8, <2>3
    <3>2. frDepth'[m] = frDepth[m] - lost1(m) + 0
      BY <1>5, <2>3
    <3> QED
      BY <2>1, <3>1, <3>2
  <2> QED
    BY <2>2, <2>3
<1>12. frDepth' \in [FrMembers -> Int]
  BY <1>5, <1>11
<1>13. \A e \in queue' : e.seq < accepted'
  <2>1. \A e \in queue : e.seq \in Nat /\ e.seq < accepted
    BY <1>1, ShotsAre DEF FramesCounted
  <2> QED
    BY <1>2, <1>3, <1>5, <1>6, <2>1
<1>14. \A e, g \in queue' : e.seq = g.seq => e = g
  <2>1. \A e \in queue : e.seq # accepted
    BY <1>1, <1>2, ShotsAre DEF FramesCounted
  <2> QED
    BY <1>1, <1>3, <1>5, <1>6, <2>1 DEF FramesCounted
<1>15. accepted' = frEvicted' + taken + frActive' /\ accepted' \in Nat /\ frEvicted' \in Nat
  BY <1>1, <1>2, <1>5, <1>9 DEF FramesCounted, FrameTypes
<1>16. taken' = taken => FramesCounted'
  BY <1>10, <1>11, <1>13, <1>14, <1>15 DEF FramesCounted
<1> QED
  BY <1>3, <1>4, <1>5, <1>6, <1>8, <1>10, <1>12, <1>15, <1>16 DEF gone, T

LEMMA FramesPut ==
    ASSUME FrameInv, NEW h \in Helpers, NEW how, Frames!Put(h, how)
    PROVE  /\ hand[h] \in FrameSet /\ open
           /\ hand' = [hand EXCEPT ![h] = Frames!Nothing]
           /\ UNCHANGED <<open, running, worker, taken>>
           /\ \/ UNCHANGED <<queue, accepted, frEvicted, frActive, frDepth>>
              \/ Frames!Accept(hand[h]) /\ ~Frames!Refused(hand[h])
<1> DEFINE f == hand[h]
<1>1. f.is = "frame" /\ hand' = [hand EXCEPT ![h] = Frames!Nothing]
      /\ UNCHANGED <<open, running, worker, taken>>
  BY DEF Frames!Put, Frames!service
<1>2. f \in {Frames!Nothing} \cup [is : {"audio", "meta"}] \cup FrameSet
  BY DEF FrameInv, FrameTypes
<1>3. f \in FrameSet /\ f # Frames!Nothing
  BY <1>1, <1>2 DEF Frames!Nothing
<1>4. open
  BY <1>3 DEF FrameInv, Stopping
<1>5. CASE UNCHANGED Frames!put
  BY <1>1, <1>3, <1>4, <1>5 DEF Frames!put
<1>6. CASE Frames!Accept(f) /\ ~Frames!Refused(f)
  BY <1>1, <1>3, <1>4, <1>6
<1>7. CASE Frames!Refused(f) /\ ~UNCHANGED Frames!put
  <2> DEFINE gone == IF \E e \in Frames!MemberVictim(f) : f.score < e.score
                        THEN {} ELSE Frames!MemberVictim(f)
  <2>1. gone = {}
    BY <1>3, <1>7, RefusalCostsNone
  <2>2. /\ queue' = queue \ gone
        /\ frEvicted' = frEvicted + Frames!Cardinality(gone)
        /\ frActive' = frActive - Frames!Cardinality(gone)
        /\ frDepth' = [frDepth EXCEPT ![f.member] = @ - Frames!Cardinality(gone)]
        /\ accepted' = accepted
    BY <1>7 DEF Frames!Put
  <2> HIDE DEF gone
  <2>3. Frames!Cardinality(gone) = 0
    BY <2>1, SameCardinality, FS_EmptySet
  <2>4. frEvicted \in Nat /\ frActive \in Nat /\ frDepth \in [FrMembers -> Int] /\ f.member \in FrMembers
    BY <1>3 DEF FrameInv, FrameTypes, FrameSet
  <2>5. frEvicted' = frEvicted /\ frActive' = frActive
    BY <2>2, <2>3, <2>4
  <2>6. frDepth' = frDepth
    BY <2>2, <2>3, <2>4
  <2>7. queue' = queue
    BY <2>1, <2>2
  <2> QED
    BY <1>1, <1>3, <1>4, <2>2, <2>5, <2>6, <2>7
<1> QED
  <2>1. \/ UNCHANGED Frames!put \/ Frames!Refused(f)
        \/ Frames!Accept(f) /\ ~Frames!Refused(f)
    BY DEF Frames!Put
  <2> QED
    BY <1>5, <1>6, <1>7, <2>1

LEMMA FrameSteps ==
    ASSUME FrameInv, [Frames!Next]_(Frames!vars)
    PROVE  FrameInv'
<1>0. FrameTypes /\ FramesCounted /\ Stopping
  BY DEF FrameInv
<1> DEFINE Same == UNCHANGED <<queue, accepted, frEvicted, frActive, frDepth, taken>>
<1>1. ASSUME Same PROVE FramesCounted'
  BY <1>0, <1>1 DEF FramesCounted
<1>2. ASSUME NEW h \in Helpers,
             NEW x \in {Frames!Nothing} \cup [is : {"audio", "meta"}] \cup FrameSet,
             open \/ x = Frames!Nothing, hand' = [hand EXCEPT ![h] = x], Same,
             UNCHANGED <<open, running, worker>>
      PROVE  FrameInv'
  <2>1. FrameTypes'
    BY <1>0, <1>2 DEF FrameTypes
  <2>2. Stopping'
    BY <1>0, <1>2 DEF Stopping, FrameTypes
  <2> QED
    BY <1>1, <1>2, <2>1, <2>2 DEF FrameInv
<1>3. ASSUME NEW h \in Helpers, NEW kind \in {"audio", "meta"}, Frames!Meta(h, kind) PROVE FrameInv'
  <2>1. open /\ hand' = [hand EXCEPT ![h] = [is |-> kind]] /\ Same
        /\ UNCHANGED <<open, running, worker>>
    BY <1>3 DEF Frames!Meta, Frames!put, Frames!service
  <2> QED
    BY <1>2, <2>1
<1>4. ASSUME NEW h \in Helpers, Frames!NoFrame(h) \/ Frames!Unclaimed(h) PROVE FrameInv'
  <2>1. hand' = [hand EXCEPT ![h] = Frames!Nothing] /\ Same /\ UNCHANGED <<open, running, worker>>
    BY <1>4 DEF Frames!NoFrame, Frames!Unclaimed, Frames!put, Frames!service
  <2> QED
    BY <1>2, <2>1
<1>5. ASSUME NEW h \in Helpers, NEW m \in FrMembers, NEW s \in Scores, NEW t \in Times,
             Frames!Payload(h, m, s, t)
      PROVE  FrameInv'
  <2>1. open /\ hand' = [hand EXCEPT ![h] = [is |-> "frame", member |-> m, score |-> s, at |-> t]]
        /\ Same /\ UNCHANGED <<open, running, worker>>
    BY <1>5 DEF Frames!Payload, Frames!put, Frames!service
  <2>2. [is |-> "frame", member |-> m, score |-> s, at |-> t] \in FrameSet
    BY DEF FrameSet
  <2> QED
    BY <1>2, <2>1, <2>2
<1>6. ASSUME NEW h \in Helpers, NEW how, Frames!Put(h, how) PROVE FrameInv'
  <2>1. /\ hand[h] \in FrameSet /\ open
        /\ hand' = [hand EXCEPT ![h] = Frames!Nothing]
        /\ UNCHANGED <<open, running, worker, taken>>
    BY <1>6, FramesPut
  <2>2. CASE UNCHANGED <<queue, accepted, frEvicted, frActive, frDepth>>
    BY <1>2, <2>1, <2>2
  <2>3. CASE Frames!Accept(hand[h])
    <3>1. /\ queue' \in SUBSET Shots /\ IsFiniteSet(queue')
          /\ frEvicted' \in Nat /\ frActive' \in Nat /\ accepted' \in Nat
          /\ frDepth' \in [FrMembers -> Int] /\ FramesCounted'
      BY <2>1, <2>3, AcceptCounts
    <3>2. FrameTypes'
      BY <1>0, <2>1, <3>1 DEF FrameTypes
    <3>3. Stopping'
      BY <1>0, <2>1, <3>1 DEF Stopping, FrameTypes
    <3> QED
      BY <3>1, <3>2, <3>3 DEF FrameInv
  <2> QED
    BY <1>6, <2>2, <2>3, FramesPut
<1>7. ASSUME Frames!Take PROVE FrameInv'
  <2>1. queue # {} /\ worker = Frames!Waiting
    BY <1>7 DEF Frames!Take
  <2>2. PICK e \in queue : /\ queue' = queue \ {e}
                           /\ frDepth' = [frDepth EXCEPT ![e.member] = @ - 1]
                           /\ worker' = [is |-> "analyse", seq |-> e.seq]
    BY <1>0, <1>7, <2>1, BestIsThere DEF Frames!Take
  <2>3. /\ frActive' = frActive - 1 /\ taken' = taken + 1
        /\ UNCHANGED <<hand, accepted, frEvicted, open, running>>
    BY <1>7 DEF Frames!Take
  <2>4. e.member \in FrMembers /\ e.seq \in Nat /\ Cardinality(queue) \in Nat
    BY <1>0, ShotsAre
  <2>5. /\ IsFiniteSet(queue') /\ queue' \in SUBSET Shots
        /\ Cardinality(queue') = Cardinality(queue) - 1 /\ Cardinality(queue') \in Nat
        /\ \A m : /\ e.member = m => Cardinality(Mine(queue', m)) = Cardinality(Mine(queue, m)) - 1
                  /\ e.member # m => Cardinality(Mine(queue', m)) = Cardinality(Mine(queue, m))
    <3> DEFINE T == queue \ {e}
    <3>1. FrameTypes /\ e \in queue /\ T = queue \ {e}
      BY <1>0, <2>2
    <3>2. queue' = T
      BY <2>2
    <3> HIDE DEF T
    <3>3. /\ IsFiniteSet(T) /\ T \in SUBSET Shots
          /\ Cardinality(T) = Cardinality(queue) - 1 /\ Cardinality(T) \in Nat
      BY ONLY <3>1, OneLess
    <3>4. \A m : /\ e.member = m => Cardinality(Mine(T, m)) = Cardinality(Mine(queue, m)) - 1
                 /\ e.member # m => Cardinality(Mine(T, m)) = Cardinality(Mine(queue, m))
      <4>1. IsFiniteSet(queue)
        BY <3>1 DEF FrameTypes
      <4> QED
        BY <4>1, MineTakes DEF T
    <3> QED
      BY <3>2, <3>3, <3>4
  <2>6. frActive' = Cardinality(queue') /\ frActive' \in Nat /\ frActive' <= FrMaxQueue
    BY <1>0, <2>3, <2>4, <2>5, FrameConstants DEF FramesCounted
  <2>7. FrameTypes'
    <3>1. frDepth' \in [FrMembers -> Int]
      <4>1. frDepth \in [FrMembers -> Int] /\ frDepth[e.member] - 1 \in Int
        BY <1>0, <2>4 DEF FrameTypes
      <4> QED
        BY <2>2, <4>1
    <3>2. worker' \in [is : {"analyse", "observe"}, seq : Nat]
      BY <2>2, <2>4
    <3>3. taken' \in Nat
      BY <1>0, <2>3 DEF FrameTypes
    <3> QED
      BY <1>0, <2>3, <2>5, <2>6, <3>1, <3>2, <3>3 DEF FrameTypes
  <2>8. FramesCounted'
    <3>1. ASSUME NEW m \in FrMembers PROVE frDepth'[m] = Cardinality(Mine(queue', m))
      <4>1. frDepth[m] = Cardinality(Mine(queue, m)) /\ frDepth \in [FrMembers -> Int]
        BY <1>0 DEF FramesCounted, FrameTypes
      <4> QED
        BY <2>2, <2>4, <2>5, <4>1
    <3>2. accepted' = frEvicted' + taken' + frActive'
      BY <1>0, <2>3 DEF FramesCounted, FrameTypes
    <3>3. /\ \A g \in queue' : g.seq < accepted'
          /\ \A g, k \in queue' : g.seq = k.seq => g = k
      BY <1>0, <2>2, <2>3 DEF FramesCounted
    <3> QED
      BY <2>6, <3>1, <3>2, <3>3 DEF FramesCounted
  <2>9. Stopping'
    BY <1>0, <2>1, <2>2, <2>3 DEF Stopping
  <2> QED
    BY <2>7, <2>8, <2>9 DEF FrameInv
<1>8. ASSUME Frames!Analysed \/ Frames!Processed PROVE FrameInv'
  <2>1. Same /\ UNCHANGED <<hand, open, running>>
    BY <1>8 DEF Frames!Analysed, Frames!Processed, Frames!put
  <2>2. \/ worker.is = "analyse" /\ worker' = [worker EXCEPT !.is = "observe"]
        \/ worker' = Frames!Waiting
    BY <1>8 DEF Frames!Analysed, Frames!Processed
  <2>3. /\ worker' \in {Frames!Waiting} \cup [is : {"analyse", "observe"}, seq : Nat] \cup [is : {"done"}]
        /\ worker'.is # "done"
    <3>1. CASE worker' = Frames!Waiting
      BY <3>1 DEF Frames!Waiting
    <3>2. CASE worker.is = "analyse" /\ worker' = [worker EXCEPT !.is = "observe"]
      <4>1. worker \in [is : {"analyse", "observe"}, seq : Nat]
        BY <1>0, <3>2 DEF FrameTypes, Frames!Waiting
      <4> QED
        BY <3>2, <4>1
    <3> QED
      BY <2>2, <3>1, <3>2
  <2>4. FrameTypes'
    BY <1>0, <2>1, <2>3 DEF FrameTypes
  <2>5. Stopping'
    BY <1>0, <2>1, <2>3 DEF Stopping
  <2> QED
    BY <1>1, <2>1, <2>4, <2>5 DEF FrameInv
<1>9. ASSUME Frames!Quit PROVE FrameInv'
  <2>1. Same /\ UNCHANGED <<hand, open>> /\ running' = FALSE /\ worker' = [is |-> "done"]
        /\ queue = {} /\ (~open \/ ~running)
    BY <1>9 DEF Frames!Quit, Frames!MayQuit, Frames!put
  <2>2. FrameTypes'
    BY <1>0, <2>1 DEF FrameTypes
  <2>3. Stopping'
    BY <1>0, <2>1 DEF Stopping
  <2> QED
    BY <1>1, <2>1, <2>2, <2>3 DEF FrameInv
<1>10. ASSUME Frames!StopIngest \/ Frames!StopWorker PROVE FrameInv'
  <2>1. Same /\ UNCHANGED <<hand, worker>>
    BY <1>10 DEF Frames!StopIngest, Frames!StopWorker, Frames!put
  <2>2. FrameTypes'
    BY <1>0, <2>1 DEF FrameTypes
  <2>3. Stopping'
    BY <1>0, <1>10, <2>1 DEF Stopping, Frames!StopIngest, Frames!StopWorker
  <2> QED
    BY <1>1, <2>1, <2>2, <2>3 DEF FrameInv
<1>11. CASE UNCHANGED Frames!vars
  <2>1. Same /\ UNCHANGED <<hand, open, running, worker>>
    BY <1>11 DEF Frames!vars, Frames!put, Frames!service
  <2> QED
    BY <1>0, <1>1, <2>1 DEF FrameInv, FrameTypes, Stopping
<1> HIDE DEF Same
<1> QED
  BY <1>3, <1>4, <1>5, <1>6, <1>7, <1>8, <1>9, <1>10, <1>11 DEF Frames!Next

LEMMA FrameInvariant == Frames!Spec => []FrameInv
<1>1. ASSUME Frames!Init PROVE FrameInv
  <2>1. /\ hand = [h \in Helpers |-> Frames!Nothing] /\ queue = {} /\ accepted = 0
        /\ frEvicted = 0 /\ frActive = 0 /\ taken = 0 /\ frDepth = [m \in FrMembers |-> 0]
        /\ open = TRUE /\ running = TRUE /\ worker = Frames!Waiting
    BY <1>1 DEF Frames!Init
  <2>2. IsFiniteSet(queue) /\ Cardinality(queue) = 0
    BY <2>1, FS_EmptySet
  <2>3. \A m : Mine(queue, m) = queue
    BY <2>1 DEF Mine
  <2>4. FrameTypes
    BY <2>1, <2>2 DEF FrameTypes
  <2>5. FramesCounted
    BY <2>1, <2>2, <2>3, FrameConstants DEF FramesCounted
  <2>6. Stopping
    BY <2>1 DEF Stopping, Frames!Waiting
  <2> QED
    BY <2>4, <2>5, <2>6 DEF FrameInv
<1>2. FrameInv /\ [Frames!Next]_(Frames!vars) => FrameInv'
  BY FrameSteps
<1> QED
  BY <1>1, <1>2, PTL DEF Frames!Spec

\* An orderly stop (IntelligenceService.stop) leaves no frame behind: when the
\* vision worker is done, what was accepted and not evicted has been analysed.
THEOREM FramesAreDrained == AllSpec => []StopDrains
<1>1. FrameInv => StopDrains
  <2> SUFFICES ASSUME FrameInv, worker.is = "done"
               PROVE  queue = {} /\ accepted = frEvicted + taken
    BY DEF StopDrains, Frames!StopDrains
  <2>1. queue = {} /\ frActive = Cardinality(queue) /\ accepted = frEvicted + taken + frActive
        /\ frEvicted \in Nat /\ taken \in Nat
    BY DEF FrameInv, FrameTypes, FramesCounted, Stopping
  <2>2. frActive = 0
    BY <2>1, FS_EmptySet
  <2> QED
    BY <2>1, <2>2
<1> QED
  BY <1>1, Composed, FrameInvariant, PTL

\* FrameIngest.put gives a frame up only for one that shows at least as much,
\* and keeps none of its member that shows less; a refusal costs nobody a frame.
THEOREM BestFramesAreKept == AllSpec => KeepsTheBest
<1> DEFINE Keeps == \A e \in queue \ queue' :
                      taken' = taken =>
                        /\ \E new \in queue' \ queue : new.score >= e.score
                        /\ \A g \in queue' : g.member = e.member => g.score >= e.score
<1>1. ASSUME FrameInv, [Frames!Next]_(Frames!vars) PROVE [Keeps]_(Frames!vars)
  <2> SUFFICES ASSUME NEW e \in queue \ queue', taken' = taken
               PROVE  /\ \E new \in queue' \ queue : new.score >= e.score
                      /\ \A g \in queue' : g.member = e.member => g.score >= e.score
    OBVIOUS
  <2>1. taken \in Nat
    BY <1>1 DEF FrameInv, FrameTypes
  <2>2. PICK h \in Helpers, how \in {"same", "size", "other"} : Frames!Put(h, how)
    <3>1. ~Frames!Take
      BY <2>1 DEF Frames!Take
    <3>2. /\ ~Frames!Analysed /\ ~Frames!Processed /\ ~Frames!Quit
          /\ ~Frames!StopIngest /\ ~Frames!StopWorker /\ ~UNCHANGED Frames!vars
      BY DEF Frames!Analysed, Frames!Processed, Frames!Quit, Frames!StopIngest,
             Frames!StopWorker, Frames!put, Frames!vars
    <3>3. ASSUME NEW h \in Helpers
          PROVE  /\ ~Frames!NoFrame(h) /\ ~Frames!Unclaimed(h)
                 /\ \A kind \in {"audio", "meta"} : ~Frames!Meta(h, kind)
                 /\ \A m \in FrMembers, c \in Scores, t \in Times : ~Frames!Payload(h, m, c, t)
      BY DEF Frames!Meta, Frames!NoFrame, Frames!Unclaimed, Frames!Payload, Frames!put
    <3> QED
      BY <1>1, <3>1, <3>2, <3>3 DEF Frames!Next
  <2> DEFINE f == hand[h]
             gone == Frames!MemberVictim(f) \cup Frames!GlobalVictim(f)
  <2>3. f \in FrameSet /\ Frames!Accept(f) /\ ~Frames!Refused(f)
    BY <1>1, <2>2, FramesPut
  <2>4. PICK x \in Shots : /\ x.score = f.score /\ x.member = f.member /\ x \notin queue
                           /\ queue' = (queue \ gone) \cup {x}
    BY <1>1, <2>3, AcceptCounts
  <2>5. /\ \A g \in queue : g.score \in Nat
        /\ f.score \in Nat /\ x \in queue' \ queue
    BY <1>1, <2>3, <2>4, ShotsAre, FrameConstants DEF FrameInv, FrameSet
  <2>6. \/ Frames!MemberVictim(f) = {e} /\ e.member = f.member
           /\ \A g \in Mine(queue, f.member) : e.score <= g.score
        \/ Frames!GlobalVictim(f) = {e} /\ \A g \in queue : e.score <= g.score
    BY <1>1, <2>3, <2>4, Victims
  <2>7. f.score >= e.score
    BY <2>3, <2>5, <2>6 DEF Frames!Refused
  <2>8. ASSUME NEW g \in queue', g.member = e.member PROVE g.score >= e.score
    <3>1. CASE g = x
      BY <2>4, <2>5, <2>7, <3>1
    <3>2. CASE g \in queue
      BY <2>5, <2>6, <2>8, <3>2 DEF Mine
    <3> QED
      BY <2>4, <3>1, <3>2
  <2> QED
    BY <2>4, <2>5, <2>7, <2>8
<1> QED
  BY <1>1, Composed, FrameInvariant, PTL DEF Frames!Spec, KeepsTheBest, Frames!KeepsTheBest

-----------------------------------------------------------------------------
(* The transcript.                                                         *)

Ends(s, t) == Len(s) <= Len(t) /\ \A i \in 1..Len(s) : s[i] = t[Len(t) - Len(s) + i]

Texts == Seq(Words)

\* A text is a suffix of another when the other ends with its words.
LEMMA SuffixEnds ==
    ASSUME NEW s \in Texts, NEW t \in Texts
    PROVE  Talk!IsSuffix(s, t) <=> Ends(s, t)
<1> DEFINE r == Talk!Reverse(s)
           u == Talk!Reverse(t)
<1>1. /\ Len(s) \in Nat /\ Len(t) \in Nat
      /\ \A i \in 1..Len(s) : s[i] \in Words
      /\ \A i \in 1..Len(t) : t[i] \in Words
  BY DEF Texts
<1>2. /\ r \in Seq(Words) /\ Len(r) = Len(s)
      /\ \A i \in 1..Len(s) : r[i] = s[Len(s) - i + 1]
  BY <1>1 DEF Talk!Reverse
<1>3. /\ u \in Seq(Words) /\ Len(u) = Len(t)
      /\ \A i \in 1..Len(t) : u[i] = t[Len(t) - i + 1]
  BY <1>1 DEF Talk!Reverse
<1> HIDE DEF r, u
<1>4. Talk!IsSuffix(s, t) <=> Len(r) <= Len(u) /\ SubSeq(r, 1, Len(r)) = SubSeq(u, 1, Len(r))
  BY DEF Talk!IsSuffix, Talk!IsPrefix, r, u
<1>5. CASE Len(s) > Len(t)
  BY <1>1, <1>2, <1>3, <1>4, <1>5 DEF Ends
<1>6. CASE Len(s) <= Len(t)
  <2> DEFINE a == SubSeq(r, 1, Len(r))
             b == SubSeq(u, 1, Len(r))
  <2>1. /\ a \in Seq(Words) /\ Len(a) = Len(s)
        /\ \A i \in 1..Len(s) : a[i] = s[Len(s) - i + 1]
    BY <1>1, <1>2
  <2>2. /\ b \in Seq(Words) /\ Len(b) = Len(s)
        /\ \A i \in 1..Len(s) : b[i] = t[Len(t) - i + 1]
    BY <1>1, <1>2, <1>3, <1>6
  <2> HIDE DEF a, b
  <2>3. a = b <=> \A i \in 1..Len(s) : a[i] = b[i]
    BY <2>1, <2>2, SeqEqual
  <2>4. ASSUME \A i \in 1..Len(s) : a[i] = b[i], NEW i \in 1..Len(s)
        PROVE  s[i] = t[Len(t) - Len(s) + i]
    <3> DEFINE j == Len(s) - i + 1
    <3>1. j \in 1..Len(s) /\ Len(s) - j + 1 = i /\ Len(t) - j + 1 = Len(t) - Len(s) + i
      BY <1>1, <1>6
    <3> HIDE DEF j
    <3> QED
      BY <2>1, <2>2, <2>4, <3>1
  <2>5. ASSUME Ends(s, t), NEW i \in 1..Len(s)
        PROVE  a[i] = b[i]
    <3> DEFINE j == Len(s) - i + 1
    <3>1. j \in 1..Len(s) /\ Len(s) - i + 1 = j /\ Len(t) - i + 1 = Len(t) - Len(s) + j
      BY <1>1, <1>6
    <3> HIDE DEF j
    <3> QED
      BY <2>1, <2>2, <2>5, <3>1, SMTT(30) DEF Ends
  <2>6. Talk!IsSuffix(s, t) <=> a = b
    BY <1>2, <1>3, <1>4, <1>6 DEF a, b
  <2> QED
    BY <1>6, <2>3, <2>4, <2>5, <2>6 DEF Ends
<1> QED
  BY <1>1, <1>5, <1>6

\* A text followed by another ends with it.
LEMMA EndsConcat ==
    ASSUME NEW s \in Texts, NEW t \in Texts
    PROVE  t \o s \in Texts /\ Ends(s, t \o s)
BY DEF Texts, Ends

\* Cutting a text down to its last n words keeps an end of that length.
LEMMA EndsKept ==
    ASSUME NEW s \in Texts, NEW t \in Texts, NEW n \in Nat
    PROVE  /\ Talk!Ending(t, n) \in Texts
           /\ Ends(s, t) /\ Len(s) <= n => Ends(s, Talk!Ending(t, n))
<1> DEFINE m == IF Len(t) > n THEN Len(t) - n + 1 ELSE 1
           e == SubSeq(t, m, Len(t))
<1>1. /\ Len(s) \in Nat /\ Len(t) \in Nat /\ m \in Nat \ {0} /\ m <= Len(t) + 1
      /\ \A i \in 1..Len(t) : t[i] \in Words
      /\ Len(s) <= n /\ Len(s) <= Len(t) => Len(s) <= Len(t) - m + 1
  BY DEF Texts
<1>2. e = Talk!Ending(t, n)
  BY DEF Talk!Ending
<1> HIDE DEF m
<1>3. /\ e \in Seq(Words) /\ Len(e) = Len(t) - m + 1
      /\ \A i \in 1..Len(t) - m + 1 : e[i] = t[m + i - 1]
  BY <1>1
<1> HIDE DEF e
<1>4. ASSUME Ends(s, t), Len(s) <= n, NEW i \in 1..Len(s)
      PROVE  s[i] = e[Len(e) - Len(s) + i]
  <2> DEFINE k == Len(e) - Len(s) + i
  <2>1. k \in 1..Len(t) - m + 1 /\ m + k - 1 = Len(t) - Len(s) + i
    BY <1>1, <1>3, <1>4 DEF Ends
  <2> HIDE DEF k
  <2>2. e[k] = t[Len(t) - Len(s) + i]
    BY <1>3, <2>1
  <2> QED
    BY <1>4, <2>2 DEF Ends, k
<1>5. Ends(s, t) /\ Len(s) <= n => Len(s) <= Len(e)
  BY <1>1, <1>3 DEF Ends
<1> QED
  BY <1>2, <1>3, <1>4, <1>5 DEF Texts, Ends

\* When a text ends with the first n words of t, it ends with t once the rest
\* of t follows.
LEMMA EndsTrimmed ==
    ASSUME NEW t \in Texts, NEW r \in Texts, NEW n \in 1..Len(t), Ends(SubSeq(t, 1, n), r)
    PROVE  /\ SubSeq(t, n + 1, Len(t)) \in Texts
           /\ Ends(t, r \o SubSeq(t, n + 1, Len(t)))
           /\ SubSeq(t, n + 1, Len(t)) = <<>> => Ends(t, r)
<1> DEFINE a == SubSeq(t, 1, n)
           b == SubSeq(t, n + 1, Len(t))
           c == r \o b
<1>1. Len(t) \in Nat /\ n \in Nat /\ Len(r) \in Nat /\ \A i \in 1..Len(t) : t[i] \in Words
  BY DEF Texts
<1>2. /\ a \in Seq(Words) /\ Len(a) = n /\ \A i \in 1..n : a[i] = t[i]
  BY <1>1
<1>3. /\ b \in Seq(Words) /\ Len(b) = Len(t) - n /\ \A i \in 1..Len(t) - n : b[i] = t[n + i]
  BY <1>1
<1>4. n <= Len(r) /\ \A i \in 1..n : t[i] = r[Len(r) - n + i]
  BY <1>2 DEF Ends
<1> HIDE DEF a, b
<1>5. /\ Len(c) = Len(r) + Len(b) /\ c \in Seq(Words)
      /\ \A i \in 1..Len(r) + Len(b) : c[i] = IF i <= Len(r) THEN r[i] ELSE b[i - Len(r)]
  BY <1>3, ConcatProperties DEF Texts
<1> HIDE DEF c
<1>6. ASSUME NEW i \in 1..Len(t) PROVE t[i] = c[Len(c) - Len(t) + i]
  <2> DEFINE k == Len(c) - Len(t) + i
  <2>1. k = Len(r) - n + i /\ k \in 1..Len(r) + Len(b) /\ (k <= Len(r) <=> i <= n)
    BY <1>1, <1>3, <1>4, <1>5
  <2> HIDE DEF k
  <2>2. CASE i <= n
    <3>1. c[k] = r[k] /\ k = Len(r) - n + i
      BY <1>5, <2>1, <2>2
    <3>2. t[i] = r[Len(r) - n + i]
      BY <1>1, <1>4, <2>2
    <3> QED
      BY <3>1, <3>2 DEF k
  <2>3. CASE i > n
    <3>1. k - Len(r) = i - n /\ i - n \in 1..Len(t) - n /\ n + (i - n) = i
      BY <1>1, <2>1, <2>3
    <3>2. b[i - n] = t[i]
      BY <1>3, <3>1
    <3>3. c[k] = b[k - Len(r)]
      BY <1>1, <1>5, <2>1, <2>3
    <3> QED
      BY <3>1, <3>2, <3>3 DEF k
  <2>4. i <= n \/ i > n
    BY <1>1
  <2> QED
    BY <2>2, <2>3, <2>4
<1>7. Ends(t, c)
  BY <1>1, <1>3, <1>4, <1>5, <1>6 DEF Ends
<1>8. b = <<>> => c = r
  BY DEF c, Texts
<1> QED
  BY <1>3, <1>7, <1>8 DEF b, c, Texts

TalkTypes ==
    /\ chunk \in 0..Talk!Idle
    /\ recent \in Texts /\ emitted \in Texts /\ said \in Texts
    /\ lastText \in Texts /\ Len(lastText) <= MaxWords
    /\ repeats \in Nat /\ here \in Nat /\ lost \in Nat
    /\ fate \in {"none", "trimmed", "dropped", "kept"}

\* A chunk begins with nothing of its own, and only its texts change that.
AtTheStart ==
    /\ chunk = Talk!Idle => here = 0
    /\ chunk = 0 => here = 0
    /\ here = 0 => emitted = <<>>

\* Between two chunks that had last in them the transcript ends with it, unless
\* the only chunk that had it failed, and then it has not been repeated.
Remembered ==
    lastText # <<>> /\ lost < 2 /\ here = 0 =>
        Ends(lastText, recent) \/ (repeats = 0 /\ lost = 1)

\* Within one, what is shown ends with it; and either it did so before, or no
\* repetition was counted but those of this chunk and of one that failed.
Repeated ==
    lastText # <<>> /\ lost < 2 /\ here > 0 =>
        /\ Ends(lastText, recent \o emitted)
        /\ Ends(lastText, recent) \/ repeats + 1 <= lost + here

\* What became of the segment just read.
Judged ==
    /\ fate = "dropped" => here > 0 /\ lastText # <<>>
    /\ chunk = 1 /\ fate \in {"trimmed", "kept"} => Ends(said, recent \o emitted)

TalkInv == TalkTypes /\ AtTheStart /\ Remembered /\ Repeated /\ Judged

\* The last n words of r, or all of them, are the last ones of s.
Agree(r, s, n) ==
    \A i \in 1..n : i <= Len(r) => i <= Len(s) /\ r[Len(r) - i + 1] = s[Len(s) - i + 1]

\* The words remembered since a storing failed are the last ones stored.
StoredInv ==
    /\ stored \in Texts /\ since \in 0..Recent
    /\ Agree(recent, stored, since)

LEMMA TalkConstants ==
    /\ MinOverlap \in Nat \ {0} /\ MaxOverlap \in Nat /\ Recent \in Nat /\ MaxWords \in Nat
    /\ MaxWords <= Recent /\ DropAfter \in Nat /\ DropAfter > 1
    /\ MaxChunk \in Nat \ {0} /\ Talk!Idle \in Nat /\ Talk!Idle > 1 /\ MaxChunk < Talk!Idle
BY PartsAssumption DEF Talk!TranscriptsAssumption, Talk!Idle

\* A segment is some words, at least one.
LEMMA SegmentsAre ==
    ASSUME NEW t \in Talk!Segments
    PROVE  t \in Texts /\ Len(t) \in 1..MaxWords /\ t # <<>>
<1>1. PICK n \in 1..MaxWords : t \in [1..n -> Words]
  BY DEF Talk!Segments
<1>2. n \in Nat
  BY <1>1, TalkConstants
<1>3. t \in Seq(Words) /\ Len(t) = n
  BY <1>1, <1>2
<1> QED
  BY <1>1, <1>2, <1>3, TalkConstants DEF Texts

\* What is left of a segment is no longer than it, and the transcript of the
\* chunks before, followed by what is left, ends with the segment.
LEMMA TrimmedIs ==
    ASSUME TalkInv, NEW t \in Talk!Segments
    PROVE  /\ Talk!Trimmed(t) \in Texts /\ Len(Talk!Trimmed(t)) <= MaxWords
           /\ Ends(t, recent \o Talk!Trimmed(t))
           /\ Talk!Trimmed(t) = <<>> => Ends(t, recent)
<1>1. t \in Texts /\ Len(t) \in 1..MaxWords /\ t # <<>> /\ recent \in Texts
  BY SegmentsAre DEF TalkInv, TalkTypes
<1>2. CASE Talk!Overlaps(t) = {}
  BY <1>1, <1>2, EndsConcat, TalkConstants DEF Talk!Trimmed
<1>3. CASE Talk!Overlaps(t) # {}
  <2> DEFINE O == Talk!Overlaps(t)
             n == CHOOSE n \in O : \A k \in O : k <= n
  <2>1. /\ IsFiniteSet(O) /\ O \subseteq Nat
        /\ \A k \in O : /\ k \in MinOverlap..MaxOverlap /\ k <= Len(t)
                        /\ Talk!IsSuffix(SubSeq(t, 1, k), recent)
    <3>1. O \subseteq MinOverlap..MaxOverlap
      BY DEF Talk!Overlaps
    <3>2. IsFiniteSet(MinOverlap..MaxOverlap)
      BY TalkConstants, FS_Interval
    <3>3. IsFiniteSet(O)
      BY <3>1, <3>2, FS_Subset
    <3> QED
      BY <3>1, <3>3, TalkConstants DEF Talk!Overlaps
  <2>2. \E x \in O : \A k \in O : k <= x
    <3> DEFINE R == {p \in Nat \X Nat : p[1] >= p[2]}
    <3>1. \A x, y \in Nat : <<x, y>> \in R <=> x >= y
      OBVIOUS
    <3> HIDE DEF R
    <3>2. /\ \A x, y \in O : <<x, y>> \in R \/ <<y, x>> \in R
          /\ \A x, y, z \in O : <<x, y>> \in R /\ <<y, z>> \in R => <<x, z>> \in R
      <4> HIDE DEF O
      <4> QED
        BY <2>1, <3>1
    <3>3. Ahead(R, O) # {}
      <4> HIDE DEF O
      <4> QED
        BY <1>3, <2>1, <3>2, FirstIsThere DEF O
    <3> QED
      BY <2>1, <3>1, <3>3 DEF Ahead
  <2>3. n \in O
    BY <2>2
  <2>4. Talk!Trimmed(t) = SubSeq(t, n + 1, Len(t))
    <3>1. Talk!Trimmed(t) = SubSeq(t, 1 + n, Len(t))
      BY <1>3 DEF Talk!Trimmed
    <3>2. 1 + n = n + 1
      BY <2>1, <2>3
    <3> QED
      BY <3>1, <3>2
  <2> HIDE DEF n, O
  <2>5. n \in 1..Len(t) /\ Talk!IsSuffix(SubSeq(t, 1, n), recent)
    BY <1>1, <2>1, <2>3, TalkConstants
  <2>6. SubSeq(t, 1, n) \in Texts
    BY <1>1, <2>5 DEF Texts
  <2>7. Ends(SubSeq(t, 1, n), recent)
    BY <1>1, <2>5, <2>6, SuffixEnds
  <2>8. Len(SubSeq(t, n + 1, Len(t))) <= MaxWords
    BY <1>1, <2>5, TalkConstants DEF Texts
  <2> QED
    BY <1>1, <2>4, <2>5, <2>7, <2>8, EndsTrimmed
<1> QED
  BY <1>2, <1>3

\* One more repetition here is one more of those counted.
LEMMA OneRepetition ==
    ASSUME NEW a \in Nat, NEW b \in Nat, NEW c \in Nat, NEW d \in Nat, a <= b + 1
    PROVE  /\ b + 1 <= c + d => a + 1 <= c + (d + 1)
           /\ b = 0 /\ c = 1 => a + 1 <= c + (d + 1)
OBVIOUS

\* A segment keeps the invariant.
LEMMA SegmentKeeps ==
    ASSUME TalkInv, NEW t \in Talk!Segments, Talk!Segment(t)
    PROVE  TalkInv'
<1> DEFINE rest == Talk!Trimmed(t)
           keep == rest # <<>> /\ ~Talk!Dropped(rest)
<1>1. /\ rest \in Texts /\ Len(rest) <= MaxWords /\ Ends(t, recent \o rest)
      /\ rest = <<>> => Ends(t, recent)
      /\ t \in Texts
  BY TrimmedIs, SegmentsAre
<1>2. /\ chunk < MaxChunk /\ chunk' = chunk + 1 /\ said' = t /\ recent' = recent
      /\ fate' = IF rest = <<>> THEN "trimmed" ELSE IF keep THEN "kept" ELSE "dropped"
      /\ emitted' = IF keep THEN emitted \o rest ELSE emitted
      /\ lastText' = IF rest = <<>> THEN lastText ELSE rest
      /\ repeats' = IF rest = <<>> THEN repeats ELSE IF rest # lastText THEN 0
                    ELSE IF repeats + 1 < DropAfter THEN repeats + 1 ELSE DropAfter
      /\ here' = IF rest = <<>> THEN here ELSE IF rest # lastText THEN 1 ELSE here + 1
      /\ lost' = IF lastText' = lastText THEN lost ELSE 0
  BY DEF Talk!Segment, Talk!UpTo
<1>3. rest # <<>> /\ ~keep => rest = lastText /\ repeats + 1 >= DropAfter
  BY DEF Talk!Dropped
<1> HIDE DEF keep, rest
<1>4. /\ recent \in Texts /\ emitted \in Texts /\ recent \o emitted \in Texts
      /\ repeats \in Nat /\ here \in Nat /\ lost \in Nat /\ chunk \in Nat
      /\ lastText \in Texts
  BY EndsConcat, TalkConstants DEF TalkInv, TalkTypes
<1>5. /\ emitted \o rest \in Texts
      /\ recent \o (emitted \o rest) = (recent \o emitted) \o rest
      /\ Ends(rest, recent \o (emitted \o rest))
  <2>1. emitted \o rest \in Texts /\ Ends(rest, (recent \o emitted) \o rest)
    BY <1>1, <1>4, EndsConcat
  <2>2. recent \o (emitted \o rest) = (recent \o emitted) \o rest
    BY <1>1, <1>4 DEF Texts
  <2> QED
    BY <2>1, <2>2
<1>6. TalkTypes'
  <2>1. chunk' \in 0..Talk!Idle
    BY <1>2, <1>4, TalkConstants
  <2>2. recent' \in Texts /\ emitted' \in Texts /\ said' \in Texts /\ lastText' \in Texts
    BY <1>1, <1>2, <1>4, <1>5
  <2>3. Len(lastText') <= MaxWords
    BY <1>1, <1>2 DEF TalkInv, TalkTypes
  <2>4. repeats' \in Nat /\ here' \in Nat /\ lost' \in Nat
    BY <1>2, <1>4, TalkConstants
  <2> QED
    BY <1>2, <2>1, <2>2, <2>3, <2>4 DEF TalkTypes
<1>7. AtTheStart'
  BY <1>2, <1>3, <1>4, TalkConstants DEF TalkInv, AtTheStart, keep
<1>8. Remembered'
  BY <1>2, <1>4 DEF TalkInv, Remembered, AtTheStart
<1>9. Repeated'
  <2> SUFFICES ASSUME lastText' # <<>>, lost' < 2, here' > 0
               PROVE  /\ Ends(lastText', recent' \o emitted')
                      /\ Ends(lastText', recent') \/ repeats' + 1 <= lost' + here'
    BY DEF Repeated
  <2>1. CASE rest = <<>>
    BY <1>2, <2>1 DEF TalkInv, Repeated, keep
  <2>2. CASE rest # <<>> /\ rest # lastText
    <3>1. keep
      BY <1>3, <2>2
    <3>2. /\ lastText' = rest /\ emitted' = emitted \o rest /\ recent' = recent
          /\ repeats' = 0 /\ here' = 1 /\ lost' = 0
      BY <1>2, <2>2, <3>1
    <3>3. Ends(lastText', recent' \o emitted')
      BY <1>5, <3>2
    <3>4. repeats' + 1 <= lost' + here'
      BY <3>2
    <3> QED
      BY <3>3, <3>4
  <2>3. CASE rest # <<>> /\ rest = lastText
    <3>1. /\ lastText' = lastText /\ here' = here + 1 /\ lost' = lost /\ lost < 2
          /\ repeats' <= repeats + 1 /\ repeats' \in Nat /\ lastText # <<>>
      BY <1>2, <1>4, <2>3, TalkConstants
    <3>2. Ends(lastText, recent) \/ repeats + 1 <= lost + here \/ (repeats = 0 /\ lost = 1)
      BY <1>4, <3>1 DEF TalkInv, Remembered, Repeated
    <3>3. Ends(lastText, recent) \/ repeats' + 1 <= lost + (here + 1)
      <4>1. repeats \in Nat /\ here \in Nat /\ lost \in Nat
        BY <1>4
      <4>2. PICK a \in Nat : a = repeats' /\ a <= repeats + 1
        BY <3>1
      <4>3. ASSUME repeats + 1 <= lost + here PROVE a + 1 <= lost + (here + 1)
        BY <4>1, <4>2, <4>3, OneRepetition
      <4>4. ASSUME repeats = 0, lost = 1 PROVE a + 1 <= lost + (here + 1)
        BY <4>1, <4>2, <4>4, OneRepetition
      <4> QED
        BY <3>2, <4>2, <4>3, <4>4
    <3>4. Ends(lastText, recent' \o emitted')
      <4>1. CASE keep
        BY <1>2, <1>5, <2>3, <4>1
      <4>2. CASE ~keep /\ here > 0
        BY <1>2, <3>1, <4>2 DEF TalkInv, Repeated
      <4>3. CASE ~keep /\ here = 0
        <5>1. repeats + 1 >= DropAfter
          BY <1>3, <2>3, <4>3
        <5>2. Ends(lastText, recent)
          BY <1>4, <3>1, <4>3, <5>1, TalkConstants DEF TalkInv, Remembered
        <5>3. emitted' = <<>> /\ recent' = recent
          BY <1>2, <4>3 DEF TalkInv, AtTheStart
        <5> QED
          BY <1>4, <5>2, <5>3, ConcatEmptySeq DEF Texts
      <4> QED
        BY <1>4, <4>1, <4>2, <4>3
    <3> QED
      BY <1>2, <3>1, <3>3, <3>4
  <2> QED
    BY <2>1, <2>2, <2>3
<1>10. Judged'
  <2>1. fate' = "dropped" => here' > 0 /\ lastText' # <<>>
    BY <1>2, <1>3, <1>4
  <2>2. ASSUME chunk' = 1, fate' \in {"trimmed", "kept"}
        PROVE  Ends(said', recent' \o emitted')
    <3>1. emitted = <<>>
      BY <1>2, <1>4, <2>2 DEF TalkInv, AtTheStart
    <3>2. CASE rest = <<>>
      <4>1. emitted' = <<>>
        BY <1>2, <3>1, <3>2 DEF keep
      <4> QED
        BY <1>1, <1>2, <1>4, <3>2, <4>1, ConcatEmptySeq DEF Texts
    <3>3. CASE rest # <<>>
      <4>1. keep
        BY <1>2, <2>2, <3>3
      <4>2. emitted' = rest
        BY <1>1, <1>2, <3>1, <4>1, ConcatEmptySeq DEF Texts
      <4> QED
        BY <1>1, <1>2, <4>2
    <3> QED
      BY <3>2, <3>3
  <2> QED
    BY <2>1, <2>2 DEF Judged
<1> QED
  BY <1>6, <1>7, <1>8, <1>9, <1>10 DEF TalkInv

\* So does the end of a chunk that was read.
LEMMA DoneKeeps ==
    ASSUME TalkInv, Talk!Done
    PROVE  TalkInv'
<1>1. /\ chunk' = Talk!Idle /\ recent' = Talk!Ending(recent \o emitted, Recent)
      /\ emitted' = <<>> /\ here' = 0 /\ said' = <<>> /\ fate' = "none"
      /\ lastText' = lastText /\ repeats' = repeats /\ lost' = lost
  BY DEF Talk!Done, Talk!Fresh
<1>2. /\ recent \in Texts /\ emitted \in Texts /\ lastText \in Texts /\ <<>> \in Texts
      /\ Len(lastText) <= MaxWords
  BY DEF TalkInv, TalkTypes, Texts
<1>3. recent \o emitted \in Texts
  BY <1>2, EndsConcat
<1>4. /\ recent' \in Texts
      /\ Ends(lastText, recent \o emitted) => Ends(lastText, recent')
  <2>1. Len(lastText) <= Recent
    BY <1>2, TalkConstants DEF Texts
  <2> QED
    BY <1>1, <1>2, <1>3, <2>1, EndsKept, TalkConstants
<1>5. here = 0 => recent \o emitted = recent
  BY <1>2, ConcatEmptySeq DEF TalkInv, AtTheStart, Texts
<1>6. TalkTypes'
  BY <1>1, <1>2, <1>4, TalkConstants DEF TalkInv, TalkTypes
<1>7. Remembered'
  <2> SUFFICES ASSUME lastText # <<>>, lost < 2
               PROVE  Ends(lastText, recent') \/ (repeats = 0 /\ lost = 1)
    BY <1>1 DEF Remembered
  <2>1. CASE here = 0
    BY <1>4, <1>5, <2>1 DEF TalkInv, Remembered
  <2>2. CASE here > 0
    BY <1>4, <2>2 DEF TalkInv, Repeated
  <2> QED
    BY <2>1, <2>2 DEF TalkInv, TalkTypes
<1> QED
  BY <1>1, <1>6, <1>7, TalkConstants DEF TalkInv, AtTheStart, Repeated, Judged

\* A chunk that failed, and one that is taken, change nothing of the transcript.
LEMMA OthersKeep ==
    ASSUME TalkInv, Talk!Take \/ Talk!Fail
    PROVE  TalkInv'
<1>1. /\ chunk' \in {0, Talk!Idle} /\ recent' = recent
      /\ emitted' = <<>> /\ here' = 0 /\ said' = <<>> /\ fate' = "none"
      /\ lastText' = lastText /\ repeats' = repeats
      /\ (lost' = lost /\ here = 0) \/ lost' = Talk!UpTo(2, lost + here)
  BY DEF Talk!Take, Talk!Fail, Talk!Fresh, TalkInv, AtTheStart
<1>2. lost \in Nat /\ here \in Nat /\ <<>> \in Texts /\ repeats \in Nat
  BY DEF TalkInv, TalkTypes, Texts
<1>3. lost' \in Nat /\ (lost' < 2 => lost' = lost + here)
  BY <1>1, <1>2 DEF Talk!UpTo
<1>4. TalkTypes'
  BY <1>1, <1>2, <1>3, TalkConstants DEF TalkInv, TalkTypes
<1>5. Remembered'
  <2> SUFFICES ASSUME lastText # <<>>, lost' < 2
               PROVE  Ends(lastText, recent) \/ (repeats = 0 /\ lost' = 1)
    BY <1>1 DEF Remembered
  <2>1. CASE here = 0
    BY <1>2, <1>3, <2>1 DEF TalkInv, Remembered
  <2>2. CASE here > 0
    <3>1. lost = 0 /\ here = 1 /\ lost' = 1
      BY <1>2, <1>3, <2>2
    <3> QED
      BY <1>2, <3>1 DEF TalkInv, Repeated
  <2> QED
    BY <1>2, <2>1, <2>2
<1> QED
  BY <1>1, <1>4, <1>5, TalkConstants DEF TalkInv, AtTheStart, Repeated, Judged

\* Two texts that agree still do when both go on with the same words.
LEMMA AgreeConcat ==
    ASSUME NEW r \in Texts, NEW s \in Texts, NEW e \in Texts, NEW n \in Nat, Agree(r, s, n)
    PROVE  /\ Len(e) \in Nat
           /\ Agree(r \o e, s \o e, n + Len(e))
<1>1. /\ Len(r) \in Nat /\ Len(s) \in Nat /\ Len(e) \in Nat
      /\ Len(r \o e) = Len(r) + Len(e) /\ Len(s \o e) = Len(s) + Len(e)
  BY DEF Texts
<1>2. SUFFICES ASSUME NEW i \in 1..n + Len(e), i <= Len(r \o e)
               PROVE  /\ i <= Len(s \o e)
                      /\ (r \o e)[Len(r \o e) - i + 1] = (s \o e)[Len(s \o e) - i + 1]
  BY <1>1 DEF Agree
<1>3. CASE i <= Len(e)
  <2>1. /\ (r \o e)[Len(r) + Len(e) - i + 1] = e[Len(e) - i + 1]
        /\ (s \o e)[Len(s) + Len(e) - i + 1] = e[Len(e) - i + 1]
    BY <1>1, <1>3 DEF Texts
  <2> QED
    BY <1>1, <1>3, <2>1
<1>4. CASE i > Len(e)
  <2> DEFINE k == i - Len(e)
  <2>1. k \in 1..n /\ k <= Len(r)
    BY <1>1, <1>2, <1>4
  <2>2. k <= Len(s) /\ r[Len(r) - k + 1] = s[Len(s) - k + 1]
    BY <2>1 DEF Agree
  <2>3. /\ (r \o e)[Len(r) - k + 1] = r[Len(r) - k + 1]
        /\ (s \o e)[Len(s) - k + 1] = s[Len(s) - k + 1]
    BY <1>1, <2>1, <2>2 DEF Texts
  <2>4. /\ Len(r \o e) - i + 1 = Len(r) - k + 1 /\ Len(s \o e) - i + 1 = Len(s) - k + 1
        /\ i <= Len(s \o e)
    BY <1>1, <2>1, <2>2
  <2>5. (r \o e)[Len(r \o e) - i + 1] = (s \o e)[Len(s \o e) - i + 1]
    <3> HIDE DEF k
    <3> QED
      BY <2>2, <2>3, <2>4, Zenon
  <2> QED
    BY <2>4, <2>5
<1>5. i \in Nat
  BY <1>1, <1>2
<1>6. i <= Len(e) \/ i > Len(e)
  BY <1>1, <1>5
<1> QED
  BY <1>3, <1>4, <1>6

\* And when each is cut down to its last words.
LEMMA AgreeKept ==
    ASSUME NEW r \in Texts, NEW s \in Texts, NEW n \in Nat, NEW m \in Nat, Agree(r, s, n)
    PROVE  Agree(Talk!Ending(r, m), Talk!Ending(s, m), n)
<1> DEFINE End(t) == Talk!Ending(t, m)
<1>1. ASSUME NEW t \in Texts
      PROVE  /\ Len(t) \in Nat /\ Len(End(t)) \in Nat
             /\ Len(End(t)) = IF Len(t) > m THEN m ELSE Len(t)
             /\ \A i \in Nat \ {0} : i <= Len(End(t)) =>
                    End(t)[Len(End(t)) - i + 1] = t[Len(t) - i + 1]
  <2> DEFINE a == IF Len(t) > m THEN Len(t) - m + 1 ELSE 1
             e == SubSeq(t, a, Len(t))
  <2>1. /\ Len(t) \in Nat /\ a \in Nat \ {0} /\ a <= Len(t) + 1
        /\ Len(t) - a + 1 = IF Len(t) > m THEN m ELSE Len(t)
        /\ \A i \in 1..Len(t) : t[i] \in Words
    BY DEF Texts
  <2>2. e = End(t)
    BY DEF Talk!Ending
  <2> HIDE DEF a, End
  <2>3. /\ e \in Seq(Words) /\ Len(e) = Len(t) - a + 1
        /\ \A i \in 1..Len(t) - a + 1 : e[i] = t[a + i - 1]
    BY <2>1
  <2> HIDE DEF e
  <2>4. ASSUME NEW i \in Nat \ {0}, i <= Len(e)
        PROVE  e[Len(e) - i + 1] = t[Len(t) - i + 1]
    <3> DEFINE k == Len(e) - i + 1
    <3>1. k \in 1..Len(t) - a + 1 /\ a + k - 1 = Len(t) - i + 1
      BY <2>1, <2>3, <2>4
    <3> HIDE DEF k
    <3>2. e[k] = t[Len(t) - i + 1]
      BY <2>3, <3>1
    <3> QED
      BY <3>2 DEF k
  <2> QED
    BY <2>1, <2>2, <2>3, <2>4
<1>2. /\ Len(r) \in Nat /\ Len(s) \in Nat
      /\ Len(End(r)) \in Nat /\ Len(End(s)) \in Nat
      /\ Len(End(r)) = IF Len(r) > m THEN m ELSE Len(r)
      /\ Len(End(s)) = IF Len(s) > m THEN m ELSE Len(s)
  BY <1>1
<1>3. ASSUME NEW i \in 1..n, i <= Len(End(r))
      PROVE  i <= Len(End(s)) /\ End(r)[Len(End(r)) - i + 1] = End(s)[Len(End(s)) - i + 1]
  <2>1. i <= Len(s) /\ r[Len(r) - i + 1] = s[Len(s) - i + 1]
    BY <1>2, <1>3 DEF Agree
  <2>2. i <= Len(End(s))
    BY <1>2, <1>3, <2>1
  <2> HIDE DEF End
  <2> QED
    BY <1>1, <1>3, <2>1, <2>2
<1> QED
  BY <1>3 DEF Agree

\* One ends with what the other ends with, as far as they agree.
LEMMA AgreeEnds ==
    ASSUME NEW r \in Texts, NEW s \in Texts, NEW t \in Texts, NEW n \in Nat,
           Agree(r, s, n), Ends(t, r), Len(t) <= n
    PROVE  Ends(t, s)
<1>1. Len(r) \in Nat /\ Len(s) \in Nat /\ Len(t) \in Nat
  BY DEF Texts
<1>2. Len(t) <= Len(s)
  <2>1. CASE Len(t) = 0
    BY <1>1, <2>1
  <2>2. CASE Len(t) > 0
    BY <1>1, <2>2 DEF Agree, Ends
  <2> QED
    BY <1>1, <2>1, <2>2
<1>3. ASSUME NEW i \in 1..Len(t)
      PROVE  t[i] = s[Len(s) - Len(t) + i]
  <2> DEFINE k == Len(t) - i + 1
  <2>1. k \in 1..n /\ k <= Len(r)
    BY <1>1, <1>3 DEF Ends
  <2>2. r[Len(r) - k + 1] = s[Len(s) - k + 1]
    BY <2>1 DEF Agree
  <2>3. Len(r) - k + 1 = Len(r) - Len(t) + i /\ Len(s) - k + 1 = Len(s) - Len(t) + i
    BY <1>1
  <2> QED
    BY <2>2, <2>3 DEF Ends
<1> QED
  BY <1>2, <1>3 DEF Ends

\* What is stored goes with what is remembered.
LEMMA DoneStores ==
    ASSUME TalkInv, StoredInv, Talk!Done
    PROVE  StoredInv'
<1>1. /\ recent \in Texts /\ emitted \in Texts /\ stored \in Texts
      /\ since \in Nat /\ since <= Recent /\ Recent \in Nat
      /\ recent \o emitted \in Texts /\ stored \o emitted \in Texts
  BY EndsConcat, TalkConstants DEF TalkInv, TalkTypes, StoredInv
<1>2. recent' = Talk!Ending(recent \o emitted, Recent)
  BY DEF Talk!Done
<1>3. CASE stored' = stored /\ since' = 0
  BY <1>1, <1>3 DEF StoredInv, Agree
<1>4. CASE /\ stored' = Talk!Ending(stored \o emitted, Recent)
           /\ since' = Talk!UpTo(Recent, since + Len(emitted))
  <2> DEFINE n == since + Len(emitted)
  <2>1. Len(emitted) \in Nat /\ Agree(recent \o emitted, stored \o emitted, n)
    BY <1>1, AgreeConcat DEF StoredInv
  <2>2. n \in Nat /\ since' \in 0..Recent /\ since' <= n
    BY <1>1, <1>4, <2>1 DEF Talk!UpTo
  <2> HIDE DEF n
  <2>3. Agree(recent', stored', n)
    BY <1>1, <1>2, <1>4, <2>1, <2>2, AgreeKept
  <2>4. Agree(recent', stored', since')
    BY <2>2, <2>3 DEF Agree
  <2>5. stored' \in Texts
    BY <1>1, <1>4, EndsKept
  <2> QED
    BY <2>2, <2>4, <2>5 DEF StoredInv
<1> QED
  BY <1>3, <1>4 DEF Talk!Done

LEMMA TalkInvariant == Talk!Spec => [](TalkInv /\ StoredInv)
<1>1. Talk!Init => TalkInv /\ StoredInv
  BY TalkConstants DEF Talk!Init, TalkInv, TalkTypes, AtTheStart, Remembered, Repeated, Judged,
                       StoredInv, Agree, Texts
<1>2. TalkInv /\ StoredInv /\ [Talk!Next]_(Talk!vars) => (TalkInv /\ StoredInv)'
  <2> SUFFICES ASSUME TalkInv, StoredInv, [Talk!Next]_(Talk!vars) PROVE TalkInv' /\ StoredInv'
    OBVIOUS
  <2>1. CASE UNCHANGED Talk!vars
    <3>1. TalkInv'
      BY <2>1 DEF Talk!vars, TalkInv, TalkTypes, AtTheStart, Remembered, Repeated, Judged
    <3>2. StoredInv'
      BY <2>1 DEF Talk!vars, StoredInv
    <3> QED
      BY <3>1, <3>2
  <2>2. CASE \E t \in Talk!Segments : Talk!Segment(t)
    <3>1. UNCHANGED <<recent, stored, since>>
      BY <2>2 DEF Talk!Segment
    <3>2. StoredInv'
      BY <3>1 DEF StoredInv
    <3> QED
      BY <2>2, <3>2, SegmentKeeps
  <2>3. CASE Talk!Done
    BY <2>3, DoneKeeps, DoneStores
  <2>4. CASE Talk!Take \/ Talk!Fail
    <3>1. UNCHANGED <<recent, stored, since>>
      BY <2>4 DEF Talk!Take, Talk!Fail
    <3>2. StoredInv'
      BY <3>1 DEF StoredInv
    <3> QED
      BY <2>4, <3>2, OthersKeep
  <2> QED
    BY <2>1, <2>2, <2>3, <2>4 DEF Talk!Next
<1> QED
  BY <1>1, <1>2, PTL DEF Talk!Spec

\* _trim_overlapped_prefix never cuts words that were not stored, and
\* _should_drop_duplicate_segment drops a text only when the stored transcript
\* ends with it, or when two chunks that could not be read had it: except for a
\* text that reaches back into one remembered and not stored.
THEOREM NobodyIsSilenced == AllSpec => []NothingIsSilenced
<1>1. TalkInv /\ StoredInv => NothingIsSilenced
  <2> SUFFICES ASSUME TalkInv, StoredInv PROVE Talk!NothingIsSilenced
    BY DEF NothingIsSilenced
  <2> DEFINE r == recent \o emitted
             s == stored \o emitted
             n == since + Len(emitted)
  <2>1. /\ recent \in Texts /\ stored \in Texts /\ emitted \in Texts
        /\ r \in Texts /\ s \in Texts /\ said \in Texts /\ lastText \in Texts
        /\ since \in Nat /\ lost \in Nat
    BY EndsConcat, TalkConstants DEF TalkInv, TalkTypes, StoredInv
  <2>2. n \in Nat /\ Agree(r, s, n)
    BY <2>1, AgreeConcat DEF StoredInv
  <2>3. /\ Talk!Shown = s
        /\ \A t : Talk!Whole(t) <=> Len(t) <= n
    BY DEF Talk!Shown, Talk!Whole
  <2>4. /\ fate = "dropped" /\ lost < 2 => Ends(lastText, r)
        /\ chunk = 1 /\ fate \in {"trimmed", "kept"} => Ends(said, r)
    BY <2>1 DEF TalkInv, Judged, Repeated
  <2> HIDE DEF r, s, n
  <2>5. ASSUME NEW t \in Texts, Ends(t, r), Len(t) <= n
        PROVE  Talk!IsSuffix(t, s)
    BY <2>1, <2>2, <2>5, AgreeEnds, SuffixEnds
  <2> QED
    BY <2>1, <2>3, <2>4, <2>5 DEF Talk!NothingIsSilenced
<1> QED
  BY <1>1, Composed, TalkInvariant, PTL
=============================================================================
