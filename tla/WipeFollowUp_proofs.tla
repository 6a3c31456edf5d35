------------------------- MODULE WipeFollowUp_proofs -------------------------
(* Proofs about WipeFollowUp.  While requests and activities do not overlap, *)
(* a known marker says of its member what the audit trail says, whichever    *)
(* rows have left the window: see True.                                      *)
EXTENDS WipeFollowUp, SequenceTheorems, WellFoundedInduction, TLAPS

RowSet == [act : Operator \cup {"reopened"}, member : Members, at : Nat]
          \cup [act : {"other"}, member : Members \cup {None}, at : Nat]
MarkerSet == [known : BOOLEAN, verified : Nat, reopened : Nat]
ViewSet == [risk : BOOLEAN, seen : Nat, historic : BOOLEAN]
RequestSet ==
    {Free} \cup [at : {"read"}, kind : Operator, member : Members, view : ViewSet]
           \cup [at : {"insert"}, kind : Operator, member : Members, stamp : Nat]
           \cup [at : {"mark"}, kind : {"verified"}, member : Members, stamp : Nat]
HandlerSet ==
    {Free} \cup [at : {"marker"}, member : Members]
           \cup [at : {"merge"}, member : Members, rows : Nat]
           \cup [at : {"insert", "mark"}, member : Members, verified : Nat, seen : Nat]

TypeInv ==
    /\ now \in Nat
    /\ status \in [Members -> {"connected", "disconnected", "kicked"}]
    /\ seen \in [Members -> Nat]
    /\ age \in [Members -> {"fresh", "stale", "historic"}]
    /\ trail \in Seq(RowSet)
    /\ markers \in [Members -> MarkerSet]
    /\ request \in RequestSet
    /\ handler \in [Handlers -> HandlerSet]
    /\ crossed \in BOOLEAN
    /\ started \in Nat

\* What has a time has one that has been, and the trail is in the order of its
\* times.
Dates ==
    /\ \A m \in Members : seen[m] <= now
    /\ \A i \in DOMAIN trail : trail[i].at # Never /\ trail[i].at <= now
    /\ \A i, j \in DOMAIN trail : i < j => trail[i].at < trail[j].at
    /\ request.at \in {"insert", "mark"} => request.stamp # Never /\ request.stamp <= now
    /\ \A h \in Handlers :
          /\ handler[h].at = "merge" => handler[h].rows <= Len(trail)
          /\ handler[h].at \in {"insert", "mark"} =>
                handler[h].verified # Never /\ handler[h].seen <= now

\* A marker k is true of m: its verification is the last on record, dated
\* between that row and those before; its reopening is not older just if one is
\* recorded since; and without a verification none is due.
Dated(m) == Rows(m, "verified") \cup Rows(m, "reopened")
True(m, k) ==
    /\ k.reopened # Never => \E r \in Rows(m, "reopened") : k.reopened <= trail[r].at
    /\ k.verified # Never =>
          \E v \in Rows(m, "verified") :
             /\ \A x \in Rows(m, "verified") : x <= v
             /\ k.verified <= trail[v].at
             /\ \A x \in Dated(m) : x < v => trail[x].at < k.verified
             /\ k.reopened >= k.verified <=> \E r \in Rows(m, "reopened") : r > v
    /\ k.verified = Never => \A v \in Rows(m, "verified") : ~Due(v)

\* The request and the activities take turns.
Alone ==
    /\ \A h \in Handlers : handler[h].at # "free" => request.at = "free"
    /\ \A h, g \in Handlers : handler[h].at # "free" /\ handler[g].at # "free" => h = g

Once ==
    \A m \in Members : \A i, j \in Rows(m, "reopened") :
        i < j => \E k \in Rows(m, "verified") : i < k /\ k < j

\* Whose reopening is recorded has been seen since the verification.
SeenSince ==
    \A m \in Members : \A r \in Rows(m, "reopened"), v \in Rows(m, "verified") :
        v < r => seen[m] > trail[v].at

\* No row of m waits for its marker.
Settled(m) ==
    /\ ~(request.at = "mark" /\ request.member = m)
    /\ \A h \in Handlers : ~(handler[h].at = "mark" /\ handler[h].member = m)

\* No member without a marker was verified by this hub.
NoneHere(m) == \A v \in Rows(m, "verified") : v <= started
MarkerTrue(m) ==
    /\ markers[m].known /\ Settled(m) => True(m, markers[m])
    /\ ~markers[m].known => markers[m] = Unknown
    /\ ~markers[m].known /\ Settled(m) => NoneHere(m)
MarkersTrue == \A m \in Members : MarkerTrue(m)

\* The time of a request and the marker it goes on to write.
RequestTrue ==
    /\ request.at = "insert" =>
          \A x \in Dated(request.member) : trail[x].at < request.stamp
    /\ request.at = "mark" => True(request.member, Marker(request.stamp, Never))

\* What an activity has read, and the marker it goes on to write.
Right(h) ==
    LET a == handler[h] IN
    /\ a.at # "free" => \A v \in Rows(a.member, "verified") : seen[a.member] > trail[v].at
    /\ a.at = "merge" =>
          /\ ~markers[a.member].known
          /\ \A i \in DOMAIN trail : i > a.rows => trail[i].act = "other"
    /\ a.at = "insert" => True(a.member, Marker(a.verified, Never)) /\ a.seen > a.verified
    /\ a.at = "mark" => True(a.member, Marker(a.verified, a.seen)) /\ a.seen > a.verified

HandlerTrue == \A h \in Handlers : Right(h)

\* The reopening of a member no activity is busy with is on record.
Told ==
    \A m \in Members :
        /\ status[m] = "connected"
        /\ \A h \in Handlers : ~(handler[h].at # "free" /\ handler[h].member = m)
        => \A v \in Rows(m, "verified") :
              Due(v) /\ seen[m] > trail[v].at => \E r \in Rows(m, "reopened") : r > v

Calm == Alone /\ Once /\ SeenSince /\ MarkersTrue /\ RequestTrue /\ HandlerTrue /\ Told
IInv == TypeInv /\ Dates /\ (~crossed => Calm)

-----------------------------------------------------------------------------
(* Rows and the newest of them.                                            *)
LEMMA GreatestIsThere ==
    ASSUME NEW S \in SUBSET Nat, S # {}, NEW n \in Nat, \A x \in S : x <= n
    PROVE  Max(S) \in S /\ \A x \in S : Max(S) >= x
<1> SUFFICES \E x \in S : \A y \in S : x >= y
  BY DEF Max
<1> DEFINE T == {i \in Nat : n - i \in S}
<1>1. T # {}
  <2>1. PICK x \in S : TRUE
    OBVIOUS
  <2>2. n - x \in Nat /\ n - (n - x) = x
    BY <2>1
  <2>3. n - x \in T
    BY <2>1, <2>2
  <2> QED
    BY <2>3
<1>2. PICK i \in T : \A j \in T : ~(<<j, i>> \in OpToRel(<, Nat))
  BY <1>1, NatLessThanWellFounded, WFMin
<1>3. \A j \in T : ~(j < i)
  BY <1>2 DEF OpToRel
<1>4. ASSUME NEW y \in S PROVE n - i >= y
  <2>1. n - y \in Nat /\ n - (n - y) = y
    OBVIOUS
  <2>2. n - y \in T
    BY <2>1
  <2> HIDE DEF T
  <2>3. ~(n - y < i)
    BY <1>3, <2>2
  <2>4. i \in Nat
    BY DEF T
  <2> QED
    BY <2>1, <2>3, <2>4
<1> QED
  BY <1>2, <1>4

\* The window of a view that has read n rows.
LEMMA NewestAre ==
    ASSUME TypeInv, NEW n \in 0..Len(trail), NEW e
    PROVE  e \in Range(Newest(n, Window)) <=>
           \E i \in DOMAIN trail : i <= n /\ n < i + Window /\ e = trail[i]
<1> DEFINE a == IF n > Window THEN n - Window + 1 ELSE 1
           s == SubSeq(trail, a, n)
<1>1. Window \in Nat \ {0} /\ n \in Nat /\ n <= Len(trail) /\ Len(trail) \in Nat
  BY WipeAssumption DEF TypeInv
<1>2. a \in Nat \ {0} /\ (\A i \in Nat : i \in a..n <=> 1 <= i /\ i <= n /\ n < i + Window)
  BY <1>1
<1>3. trail \in Seq(RowSet) /\ DOMAIN trail = 1..Len(trail)
  BY DEF TypeInv
<1> HIDE DEF a
<1>4. /\ DOMAIN s = 1..(n - a + 1)
      /\ \A i \in 1..(n - a + 1) : s[i] = trail[a + i - 1]
  <2>1. CASE a <= n
    BY <1>1, <1>2, <1>3, <2>1
  <2>2. CASE a > n
    <3>1. Len(s) = 0 /\ DOMAIN s = 1..Len(s)
      BY <1>1, <1>2, <1>3, <2>2
    <3>2. 1..(n - a + 1) = 1..0 /\ 1..0 = {}
      BY <1>1, <1>2, <2>2
    <3> QED
      BY <3>1, <3>2
  <2> QED
    BY <1>1, <1>2, <2>1, <2>2
<1>5. Range(Newest(n, Window)) = {s[i] : i \in DOMAIN s}
  BY DEF Newest, Range, a
<1> HIDE DEF s
<1>6. ASSUME NEW i \in DOMAIN s, e = s[i]
      PROVE  \E j \in DOMAIN trail : j <= n /\ n < j + Window /\ e = trail[j]
  <2>1. i \in 1..(n - a + 1) /\ e = trail[a + i - 1]
    BY <1>4, <1>6
  <2>2. a + i - 1 \in Nat /\ a + i - 1 \in a..n
    BY <1>1, <1>2, <2>1
  <2>3. a + i - 1 \in DOMAIN trail
    BY <1>1, <1>2, <1>3, <2>2
  <2> QED
    BY <1>2, <2>1, <2>2, <2>3
<1>7. ASSUME NEW j \in DOMAIN trail, j <= n, n < j + Window, e = trail[j]
      PROVE  \E i \in DOMAIN s : e = s[i]
  <2>1. j \in Nat /\ 1 <= j
    BY <1>3
  <2>2. j \in a..n
    BY <1>2, <1>7, <2>1
  <2>3. j - a + 1 \in 1..(n - a + 1) /\ a + (j - a + 1) - 1 = j
    BY <1>1, <1>2, <2>1, <2>2
  <2> QED
    BY <1>4, <1>7, <2>3
<1> QED
  BY <1>5, <1>6, <1>7

\* _wipe_follow_up_resolutions and the like: the newest time, among the rows in
\* the window, of a kind and a member.
LEMMA LatestIs ==
    ASSUME TypeInv, Dates, NEW n \in 0..Len(trail), NEW act, NEW m
    PROVE  LET l == Latest(Newest(n, Window), act, m)
               rows == {i \in Rows(m, act) : i <= n /\ n < i + Window} IN
           /\ l \in Nat
           /\ DetailsDecoded => \A i \in rows : trail[i].at <= l
           /\ ~DetailsDecoded => l = Never
           /\ l # Never => \E i \in rows : trail[i].at = l
<1> DEFINE rows == {i \in Rows(m, act) : i <= n /\ n < i + Window}
           S == {Never} \cup {e.at : e \in {x \in Range(Newest(n, Window)) :
                                     DetailsDecoded /\ x.act = act /\ x.member = m}}
<1>1. S = {Never} \cup {trail[i].at : i \in {j \in rows : DetailsDecoded}}
  BY NewestAre DEF Rows
<1>2. \A i \in rows : trail[i].at \in Nat /\ trail[i].at <= now
  <2>1. trail \in Seq(RowSet) /\ \A i \in DOMAIN trail : trail[i].at <= now
    BY DEF TypeInv, Dates
  <2>2. \A i \in DOMAIN trail : trail[i] \in RowSet
    BY <2>1
  <2> QED
    BY <2>1, <2>2 DEF Rows, RowSet
<1>3. now \in Nat
  BY DEF TypeInv
<1>4. Latest(Newest(n, Window), act, m) = Max(S)
  BY DEF Latest
<1> HIDE DEF rows, S
<1>5. S \in SUBSET Nat /\ S # {} /\ \A x \in S : x <= now
  BY <1>1, <1>2, <1>3 DEF Never
<1>6. Max(S) \in S /\ \A x \in S : Max(S) >= x
  BY <1>3, <1>5, GreatestIsThere
<1> QED
  <2>1. Max(S) \in Nat
    BY <1>5, <1>6
  <2>2. DetailsDecoded => \A i \in rows : trail[i].at <= Max(S)
    BY <1>1, <1>2, <1>6, <2>1
  <2>4. ~DetailsDecoded => Max(S) = Never
    BY <1>1, <1>6
  <2>3. Max(S) # Never => \E i \in rows : trail[i].at = Max(S)
    BY <1>1, <1>6
  <2> QED
    BY <1>4, <2>1, <2>2, <2>3, <2>4 DEF rows

LEMMA LaterOfTwo ==
    ASSUME NEW i \in Nat, NEW j \in Nat
    PROVE  /\ Max({i, j}) \in {i, j} /\ Max({i, j}) \in Nat
           /\ Max({i, j}) >= i /\ Max({i, j}) >= j
<1>1. {i, j} \in SUBSET Nat /\ {i, j} # {} /\ \A x \in {i, j} : x <= i + j
  OBVIOUS
<1> QED
  BY <1>1, GreatestIsThere

\* A row is added after the others, and to the rows of its kind and member.
LEMMA Appended ==
    ASSUME TypeInv, NEW e \in RowSet, trail' = Append(trail, e)
    PROVE  /\ trail' \in Seq(RowSet) /\ Len(trail) \in Nat /\ Len(trail') = Len(trail) + 1
           /\ DOMAIN trail = 1..Len(trail) /\ DOMAIN trail' = 1..(Len(trail) + 1)
           /\ \A i \in DOMAIN trail : trail'[i] = trail[i]
           /\ trail'[Len(trail) + 1] = e
           /\ \A m, act : Rows(m, act)' = IF e.member = m /\ e.act = act
                                          THEN Rows(m, act) \cup {Len(trail) + 1}
                                          ELSE Rows(m, act)
<1>1. /\ trail' \in Seq(RowSet) /\ Len(trail) \in Nat /\ Len(trail') = Len(trail) + 1
      /\ DOMAIN trail = 1..Len(trail) /\ DOMAIN trail' = 1..(Len(trail) + 1)
      /\ \A i \in DOMAIN trail : trail'[i] = trail[i]
      /\ trail'[Len(trail) + 1] = e
  BY DEF TypeInv
<1>2. ASSUME NEW m, NEW act
      PROVE  Rows(m, act)' = IF e.member = m /\ e.act = act
                             THEN Rows(m, act) \cup {Len(trail) + 1} ELSE Rows(m, act)
  BY <1>1 DEF Rows
<1> QED
  BY <1>1, <1>2

-----------------------------------------------------------------------------
(* Types and times.                                                        *)
LEMMA ViewIsView == \A m \in Members : TypeInv => View(m) \in ViewSet
  BY DEF TypeInv, View, ViewSet, AtRisk

LEMMA MarkersAre ==
    /\ Unknown \in MarkerSet
    /\ \A v, r \in Nat : Marker(v, r) \in MarkerSet
    /\ \A v, r : Marker(v, r).verified = v /\ Marker(v, r).reopened = r /\ Marker(v, r).known
  BY DEF Unknown, Marker, MarkerSet, Never

\* Filling the cache gives markers.
LEMMA MergedIsMarkers ==
    ASSUME TypeInv, Dates, NEW n \in 0..Len(trail)
    PROVE  /\ Merged(Newest(n, Window)) \in [Members -> MarkerSet]
           /\ \A m \in Members :
                LET v == Latest(Newest(n, Window), "verified", m)
                    r == Latest(Newest(n, Window), "reopened", m)
                    new == Marker(Max({markers[m].verified, v}), Max({markers[m].reopened, r}))
                IN Merged(Newest(n, Window))[m] = IF new = Marker(Never, Never) THEN markers[m]
                                                                                ELSE new
<1>1. ASSUME NEW m \in Members
      PROVE  /\ markers[m] \in MarkerSet
             /\ Marker(Max({markers[m].verified, Latest(Newest(n, Window), "verified", m)}),
                       Max({markers[m].reopened, Latest(Newest(n, Window), "reopened", m)}))
                   \in MarkerSet
  <2>1. markers[m] \in MarkerSet
    BY DEF TypeInv
  <2>2. markers[m].verified \in Nat /\ markers[m].reopened \in Nat
    BY <2>1 DEF MarkerSet
  <2>3. /\ Latest(Newest(n, Window), "verified", m) \in Nat
        /\ Latest(Newest(n, Window), "reopened", m) \in Nat
    BY LatestIs
  <2> QED
    BY <2>1, <2>2, <2>3, LaterOfTwo, MarkersAre
<1> QED
  BY <1>1 DEF Merged

\* Judging ends the activity or makes it insert, for the marker judged.
LEMMA Judged ==
    ASSUME TypeInv, NEW h \in Handlers, NEW m \in Members, NEW k \in MarkerSet, Judge(h, m, k)
    PROVE  \/ ~Reopens(m, k) /\ handler' = [handler EXCEPT ![h] = Free]
           \/ /\ Reopens(m, k)
              /\ handler' = [handler EXCEPT ![h] =
                    [at |-> "insert", member |-> m, verified |-> k.verified, seen |-> seen[m]]]
  BY DEF Judge

LEMMA HandlerIs ==
    ASSUME TypeInv, NEW h \in Handlers
    PROVE  /\ handler[h] \in HandlerSet
           /\ handler[h].at \in {"free", "marker", "merge", "insert", "mark"}
           /\ handler[h].at = "free" => handler[h] = Free
           /\ handler[h].at # "free" => handler[h].member \in Members
           /\ handler[h].at = "merge" => handler[h].rows \in Nat
           /\ handler[h].at \in {"insert", "mark"} =>
                handler[h].verified \in Nat /\ handler[h].seen \in Nat
           /\ handler[h].at = "insert" => [handler[h] EXCEPT !.at = "mark"] =
                [at |-> "mark", member |-> handler[h].member,
                 verified |-> handler[h].verified, seen |-> handler[h].seen]
<1>1. handler[h] \in HandlerSet
  BY DEF TypeInv
<1> QED
  BY <1>1 DEF HandlerSet, Free

LEMMA RequestIs ==
    ASSUME TypeInv
    PROVE  /\ request.at \in {"free", "read", "insert", "mark"}
           /\ request.at = "free" => request = Free
           /\ request.at # "free" => request.kind \in Operator /\ request.member \in Members
           /\ request.at \in {"insert", "mark"} => request.stamp \in Nat
           /\ request.at = "mark" => request.kind = "verified"
           /\ request.at = "insert" => [request EXCEPT !.at = "mark"] =
                [at |-> "mark", kind |-> request.kind,
                 member |-> request.member, stamp |-> request.stamp]
<1>1. request \in RequestSet
  BY DEF TypeInv
<1> QED
  BY <1>1 DEF RequestSet, Free, Operator

LEMMA TypesBegin == Init => TypeInv /\ Dates
<1> SUFFICES ASSUME Init PROVE TypeInv /\ Dates
  OBVIOUS
<1>1. TypeInv
  <2>1. trail \in Seq(RowSet)
    BY DEF Init
  <2>2. request \in RequestSet /\ handler \in [Handlers -> HandlerSet]
    BY DEF Init, RequestSet, HandlerSet
  <2>3. markers \in [Members -> MarkerSet]
    BY MarkersAre DEF Init
  <2> QED
    BY <2>1, <2>2, <2>3 DEF Init, TypeInv
<1>2. DOMAIN trail = {} /\ Len(trail) = 0
  BY DEF Init
<1>3. Dates
  BY <1>2 DEF Init, Dates, Free
<1> QED
  BY <1>1, <1>3

\* A new row is typed, and is the latest.
LEMMA RecordTypes ==
    ASSUME TypeInv, Dates, NEW act \in Operator \cup {"reopened", "other"},
           NEW m \in Members \cup {None}, act = "other" \/ m \in Members, Record(act, m)
    PROVE  /\ now' = now + 1 /\ now' \in Nat /\ trail' \in Seq(RowSet)
           /\ [act |-> act, member |-> m, at |-> now'] \in RowSet
           /\ trail' = Append(trail, [act |-> act, member |-> m, at |-> now'])
           /\ \A i \in DOMAIN trail' : trail'[i].at # Never /\ trail'[i].at <= now'
           /\ \A i, j \in DOMAIN trail' : i < j => trail'[i].at < trail'[j].at
           /\ Len(trail') = Len(trail) + 1
<1> DEFINE e == [act |-> act, member |-> m, at |-> now']
<1>1. now \in Nat /\ now' = now + 1 /\ now' \in Nat /\ trail' = Append(trail, e)
  BY DEF Record, Tick, TypeInv
<1>2. e \in RowSet /\ e.at = now'
  BY <1>1 DEF RowSet
<1> HIDE DEF e
<1>3. PICK f \in RowSet : f = e
  BY <1>2
<1>4. /\ trail' \in Seq(RowSet) /\ Len(trail) \in Nat /\ Len(trail') = Len(trail) + 1
      /\ DOMAIN trail = 1..Len(trail) /\ DOMAIN trail' = 1..(Len(trail) + 1)
      /\ \A i \in DOMAIN trail : trail'[i] = trail[i]
      /\ trail'[Len(trail) + 1] = e
  BY <1>1, <1>3, Appended
<1>5. \A i \in DOMAIN trail : trail[i].at \in Nat /\ trail[i].at # Never /\ trail[i].at <= now
  <2>1. trail \in Seq(RowSet)
    BY DEF TypeInv
  <2>2. \A i \in DOMAIN trail : trail[i] \in RowSet
    BY <2>1
  <2> QED
    BY <2>2 DEF Dates, RowSet
<1>6. \A i \in DOMAIN trail' : trail'[i].at # Never /\ trail'[i].at <= now'
  <2> SUFFICES ASSUME NEW i \in DOMAIN trail' PROVE trail'[i].at # Never /\ trail'[i].at <= now'
    OBVIOUS
  <2>1. CASE i \in DOMAIN trail
    BY <1>1, <1>4, <1>5, <2>1
  <2>2. CASE i = Len(trail) + 1
    BY <1>1, <1>2, <1>4, <2>2 DEF Never
  <2> QED
    BY <1>4, <2>1, <2>2
<1>7. ASSUME NEW i \in DOMAIN trail', NEW j \in DOMAIN trail', i < j
      PROVE  trail'[i].at < trail'[j].at
  <2>1. i \in DOMAIN trail
    BY <1>4, <1>7
  <2>2. CASE j \in DOMAIN trail
    BY <1>4, <1>7, <2>1, <2>2 DEF Dates
  <2>3. CASE j = Len(trail) + 1
    BY <1>1, <1>2, <1>4, <1>5, <2>1, <2>3
  <2> QED
    BY <1>4, <2>2, <2>3
<1> QED
  BY <1>1, <1>2, <1>4, <1>6, <1>7 DEF e

LEMMA TypesLast == TypeInv /\ Dates /\ [Next]_vars => TypeInv' /\ Dates'
<1> SUFFICES ASSUME TypeInv, Dates, [Next]_vars PROVE TypeInv' /\ Dates'
  OBVIOUS
<1>0. /\ now \in Nat
      /\ status \in [Members -> {"connected", "disconnected", "kicked"}]
      /\ seen \in [Members -> Nat] /\ age \in [Members -> {"fresh", "stale", "historic"}]
      /\ trail \in Seq(RowSet) /\ markers \in [Members -> MarkerSet]
      /\ request \in RequestSet /\ handler \in [Handlers -> HandlerSet] /\ crossed \in BOOLEAN
      /\ Len(trail) \in Nat /\ started \in Nat
  BY DEF TypeInv
<1> DEFINE HandlerDates(a) ==
      /\ a.at = "merge" => a.rows <= Len(trail)
      /\ a.at \in {"insert", "mark"} => a.verified # Never /\ a.seen <= now
<1>dates. ASSUME NEW h \in Handlers, NEW n \in Nat, now <= n, NEW l \in Nat, Len(trail) <= l
          PROVE  /\ handler[h].at = "merge" => handler[h].rows \in Nat /\ handler[h].rows <= l
                 /\ handler[h].at \in {"insert", "mark"} =>
                       handler[h].verified # Never /\ handler[h].seen <= n
  <2>1. CASE handler[h].at = "merge"
    <3>1. handler[h].rows \in Nat /\ handler[h].rows <= Len(trail)
      BY <2>1, HandlerIs DEF Dates
    <3> QED
      BY <1>0, <1>dates, <2>1, <3>1
  <2>2. CASE handler[h].at \in {"insert", "mark"}
    <3>1. handler[h].seen \in Nat /\ handler[h].seen <= now /\ handler[h].verified # Never
      BY <2>2, HandlerIs DEF Dates
    <3> QED
      BY <1>0, <1>dates, <2>2, <3>1
  <2> QED
    BY <2>1, <2>2
<1>free. Free \in RequestSet /\ Free \in HandlerSet /\ HandlerDates(Free) /\ Free.at = "free"
  BY DEF RequestSet, HandlerSet, Free
<1>ask. ASSUME NEW kind \in Operator, NEW m \in Members, Ask(kind, m) PROVE TypeInv' /\ Dates'
  <2>1. View(m) \in ViewSet
    BY ViewIsView
  <2>2. request' \in RequestSet /\ request'.at = "read" /\ crossed' \in BOOLEAN
    BY <1>0, <1>ask, <2>1 DEF Ask, RequestSet
  <2> QED
    BY <1>0, <1>ask, <2>2 DEF Ask, TypeInv, Dates, members
<1>decide. CASE Decide
  <2>1. request.at = "read" /\ request.kind \in Operator /\ request.member \in Members
    BY <1>decide, RequestIs DEF Decide
  <2>2. /\ UNCHANGED <<members, trail, markers, handler, restarts, started, crossed>>
        /\ \/ now' = now + 1 /\ request' = [at |-> "insert", kind |-> request.kind,
                                           member |-> request.member, stamp |-> now']
           \/ now' = now /\ request' = Free
    BY <1>decide DEF Decide, Tick
  <2>3. now' \in Nat /\ now <= now' /\ request' \in RequestSet
    BY <1>0, <1>free, <2>1, <2>2 DEF RequestSet
  <2>4. request'.at \in {"insert", "mark"} => request'.stamp # Never /\ request'.stamp <= now'
    BY <1>0, <1>free, <2>2 DEF Never
  <2>5. TypeInv'
    BY <1>0, <2>2, <2>3 DEF TypeInv, members
  <2>6. /\ \A m \in Members : seen[m] <= now'
        /\ \A i \in DOMAIN trail : trail[i].at <= now'
        /\ \A h \in Handlers : handler[h].at \in {"insert", "mark"} => handler[h].seen <= now'
    <3>1. \A i \in DOMAIN trail : trail[i] \in RowSet
      BY <1>0
    <3>2. \A i \in DOMAIN trail : trail[i].at \in Nat
      BY <3>1 DEF RowSet
    <3>3. \A h \in Handlers : handler[h].at \in {"insert", "mark"} => handler[h].seen <= now'
      BY <1>0, <1>dates, <2>3
    <3>4. /\ \A m \in Members : seen[m] <= now'
          /\ \A i \in DOMAIN trail : trail[i].at <= now'
      BY <1>0, <2>3, <3>2 DEF Dates
    <3> QED
      BY <3>3, <3>4
  <2>7. Dates'
    BY <2>2, <2>4, <2>6 DEF Dates, members
  <2> QED
    BY <2>5, <2>7
<1>insert. CASE Insert
  <2>1. request.at = "insert" /\ request.kind \in Operator /\ request.member \in Members
        /\ request.stamp \in Nat
    BY <1>insert, RequestIs DEF Insert
  <2>2. PICK kind \in Operator, m \in Members : kind = request.kind /\ m = request.member
    BY <2>1
  <2>3. Record(kind, m) /\ UNCHANGED <<members, markers, handler, restarts, started, crossed>>
    BY <1>insert, <2>2 DEF Insert
  <2>4. /\ now' = now + 1 /\ now' \in Nat /\ trail' \in Seq(RowSet) /\ Len(trail') = Len(trail) + 1
        /\ \A i \in DOMAIN trail' : trail'[i].at # Never /\ trail'[i].at <= now'
        /\ \A i, j \in DOMAIN trail' : i < j => trail'[i].at < trail'[j].at
    BY <2>3, RecordTypes
  <2>5. \/ request' = Free
        \/ kind = "verified" /\ request' = [at |-> "mark", kind |-> "verified", member |-> m,
                                           stamp |-> request.stamp]
    BY <1>insert, <2>1, <2>2, RequestIs DEF Insert
  <2>6. /\ request' \in RequestSet
        /\ request'.at \in {"insert", "mark"} => request'.stamp # Never /\ request'.stamp <= now'
    <3>1. request.stamp # Never /\ request.stamp <= now
      BY <2>1 DEF Dates
    <3>2. CASE request' = Free
      BY <1>free, <3>2
    <3>3. CASE request' = [at |-> "mark", kind |-> "verified", member |-> m,
                           stamp |-> request.stamp]
      BY <1>0, <2>1, <2>4, <3>1, <3>3 DEF RequestSet
    <3> QED
      BY <2>5, <3>2, <3>3
  <2>7. TypeInv'
    BY <1>0, <2>3, <2>4, <2>6 DEF TypeInv, members
  <2>8. /\ \A n \in Members : seen[n] <= now'
        /\ \A h \in Handlers : /\ handler[h].at = "merge" => handler[h].rows <= Len(trail')
                               /\ handler[h].at \in {"insert", "mark"} => handler[h].seen <= now'
    <3>1. now <= now' /\ Len(trail') \in Nat /\ Len(trail) <= Len(trail')
      BY <1>0, <2>4
    <3>2. ASSUME NEW n \in Members PROVE seen[n] <= now'
      BY <1>0, <2>4 DEF Dates
    <3> QED
      BY <1>dates, <2>4, <3>1, <3>2
  <2>9. Dates'
    BY <2>3, <2>4, <2>6, <2>8 DEF Dates, members
  <2> QED
    BY <2>7, <2>9
<1>mark. CASE Mark
  <2>1. request.at = "mark" /\ request.stamp \in Nat
    BY <1>mark, RequestIs DEF Mark
  <2>2. markers' \in [Members -> MarkerSet]
    BY <1>0, <1>mark, <2>1, MarkersAre DEF Mark, Never
  <2>3. request' = Free /\ UNCHANGED <<now, members, trail, handler, started, crossed>>
    BY <1>mark DEF Mark
  <2> QED
    BY <1>0, <1>free, <2>2, <2>3 DEF TypeInv, Dates, members
<1>active. ASSUME NEW h \in Handlers, NEW m \in Members, Active(h, m) PROVE TypeInv' /\ Dates'
  <2> DEFINE b == [at |-> "marker", member |-> m]
  <2>1. b \in HandlerSet /\ b.at = "marker"
    BY DEF HandlerSet
  <2>2. /\ now' = now + 1 /\ handler' = [handler EXCEPT ![h] = b]
        /\ status' = [status EXCEPT ![m] = "connected"] /\ age' = [age EXCEPT ![m] = "fresh"]
        /\ seen' = [seen EXCEPT ![m] = now'] /\ crossed' = (crossed \/ ~AllFree)
        /\ UNCHANGED <<trail, markers, request, started>>
    BY <1>active DEF Active, Tick
  <2> HIDE DEF b
  <2>3. TypeInv'
    <3>1. /\ now' \in Nat /\ handler' \in [Handlers -> HandlerSet] /\ crossed' \in BOOLEAN
          /\ seen' \in [Members -> Nat]
          /\ status' \in [Members -> {"connected", "disconnected", "kicked"}]
          /\ age' \in [Members -> {"fresh", "stale", "historic"}]
      BY <1>0, <2>1, <2>2
    <3> QED
      BY <1>0, <2>2, <3>1 DEF TypeInv
  <2>4. \A n \in Members : seen'[n] <= now'
    BY <1>0, <2>2 DEF Dates
  <2>5. \A i \in DOMAIN trail : trail[i].at <= now'
    <3>1. \A i \in DOMAIN trail : trail[i] \in RowSet
      BY <1>0
    <3> QED
      BY <1>0, <2>2, <3>1 DEF RowSet, Dates
  <2>6. \A g \in Handlers :
          /\ handler'[g].at = "merge" => handler'[g].rows <= Len(trail)
          /\ handler'[g].at \in {"insert", "mark"} => handler'[g].verified # Never /\ handler'[g].seen <= now'
    <3> TAKE g \in Handlers
    <3>1. CASE g = h
      BY <1>0, <2>1, <2>2, <3>1
    <3>2. CASE g # h
      BY <1>0, <1>dates, <2>2, <3>2
    <3> QED
      BY <3>1, <3>2
  <2>7. request.at \in {"insert", "mark"} => request.stamp <= now'
    BY <1>0, <2>2, RequestIs DEF Dates
  <2> QED
    BY <2>2, <2>3, <2>4, <2>5, <2>6, <2>7 DEF Dates
\* Steps of an activity that take no time and add no row.
<1>quiet. ASSUME NEW h \in Handlers, NEW b \in HandlerSet, handler' = [handler EXCEPT ![h] = b],
                 HandlerDates(b), markers' \in [Members -> MarkerSet],
                 UNCHANGED <<now, members, trail, request, restarts, started, crossed>>
          PROVE  TypeInv' /\ Dates'
  <2>1. handler' \in [Handlers -> HandlerSet] /\ \A g \in Handlers : HandlerDates(handler'[g])
    BY <1>0, <1>quiet DEF Dates
  <2>2. TypeInv'
    BY <1>0, <1>quiet, <2>1 DEF TypeInv, members
  <2>3. Dates'
    BY <1>quiet, <2>1 DEF Dates, members
  <2> QED
    BY <2>2, <2>3
<1>judge. ASSUME NEW h \in Handlers, NEW m \in Members, NEW k \in MarkerSet, Judge(h, m, k)
          PROVE  \E b \in HandlerSet : HandlerDates(b) /\ handler' = [handler EXCEPT ![h] = b]
  <2> DEFINE b == [at |-> "insert", member |-> m, verified |-> k.verified, seen |-> seen[m]]
  <2>1. CASE handler' = [handler EXCEPT ![h] = Free]
    BY <1>free, <2>1
  <2>2. CASE Reopens(m, k) /\ handler' = [handler EXCEPT ![h] = b]
    <3>1. k.verified \in Nat /\ k.verified # Never /\ seen[m] \in Nat /\ seen[m] <= now
      BY <1>0, <2>2 DEF MarkerSet, Reopens, Dates
    <3>2. b \in HandlerSet
      BY <3>1 DEF HandlerSet
    <3>3. HandlerDates(b)
      BY <3>1
    <3> QED
      BY <2>2, <3>2, <3>3
  <2> QED
    BY <1>judge, <2>1, <2>2, Judged
<1>read. ASSUME NEW h \in Handlers, ReadMarker(h) PROVE TypeInv' /\ Dates'
  <2>1. handler[h].at = "marker" /\ handler[h].member \in Members
    BY <1>read, HandlerIs DEF ReadMarker
  <2>2. PICK m \in Members : m = handler[h].member
    BY <2>1
  <2> DEFINE b == [at |-> "merge", member |-> m, rows |-> Len(trail)]
  <2>3. \/ Judge(h, m, markers[m])
        \/ handler' = [handler EXCEPT ![h] = b]
    BY <1>read, <2>2 DEF ReadMarker
  <2>4. UNCHANGED <<now, members, trail, markers, request, restarts, started, crossed>>
    BY <1>read DEF ReadMarker
  <2>5. \E c \in HandlerSet : HandlerDates(c) /\ handler' = [handler EXCEPT ![h] = c]
    <3>1. b \in HandlerSet /\ HandlerDates(b)
      BY <1>0 DEF HandlerSet
    <3>2. markers[m] \in MarkerSet
      BY <1>0
    <3> QED
      BY <2>3, <3>1, <3>2, <1>judge
  <2> QED
    BY <1>0, <1>quiet, <2>4, <2>5
<1>merge. ASSUME NEW h \in Handlers, Merge(h) PROVE TypeInv' /\ Dates'
  <2>1. handler[h].at = "merge" /\ handler[h].member \in Members /\ handler[h].rows \in 0..Len(trail)
    <3>1. handler[h].at = "merge" /\ now <= now /\ Len(trail) <= Len(trail)
      BY <1>0, <1>merge DEF Merge
    <3>2. handler[h].rows \in Nat /\ handler[h].rows <= Len(trail)
      BY <1>0, <1>dates, <3>1
    <3>3. handler[h].member \in Members
      BY <3>1, HandlerIs
    <3>4. Len(trail) \in Nat
      BY <1>0
    <3> QED
      BY <3>1, <3>2, <3>3, <3>4
  <2>2. PICK m \in Members, n \in 0..Len(trail) : m = handler[h].member /\ n = handler[h].rows
    BY <2>1
  <2>3. /\ markers' = Merged(Newest(n, Window)) /\ Judge(h, m, Merged(Newest(n, Window))[m])
        /\ UNCHANGED <<now, members, trail, request, restarts, started, crossed>>
    BY <1>merge, <2>2 DEF Merge
  <2>4. Merged(Newest(n, Window)) \in [Members -> MarkerSet]
    BY MergedIsMarkers
  <2>5. PICK k \in MarkerSet : k = Merged(Newest(n, Window))[m]
    BY <2>4
  <2>6. \E c \in HandlerSet : HandlerDates(c) /\ handler' = [handler EXCEPT ![h] = c]
    BY <2>3, <2>5, <1>judge
  <2> QED
    BY <1>quiet, <2>3, <2>4, <2>6
<1>record. ASSUME NEW h \in Handlers, RecordReopened(h) PROVE TypeInv' /\ Dates'
  <2>1. handler[h].at = "insert" /\ handler[h].member \in Members
    BY <1>record, HandlerIs DEF RecordReopened
  <2>2. PICK m \in Members : m = handler[h].member
    BY <2>1
  <2> DEFINE b == [at |-> "mark", member |-> m,
                   verified |-> handler[h].verified, seen |-> handler[h].seen]
  <2>3. /\ Record("reopened", m) /\ handler' = [handler EXCEPT ![h] = b]
        /\ UNCHANGED <<members, markers, request, restarts, started, crossed>>
    BY <1>record, <2>1, <2>2, HandlerIs DEF RecordReopened
  <2>4. /\ now' = now + 1 /\ now' \in Nat /\ trail' \in Seq(RowSet) /\ Len(trail') = Len(trail) + 1
        /\ \A i \in DOMAIN trail' : trail'[i].at # Never /\ trail'[i].at <= now'
        /\ \A i, j \in DOMAIN trail' : i < j => trail'[i].at < trail'[j].at
    BY <2>3, RecordTypes
  <2>5. b \in HandlerSet /\ b.verified # Never /\ b.seen <= now /\ b.seen \in Nat
    BY <2>1, HandlerIs DEF HandlerSet, Dates
  <2>6. b.at = "mark"
    OBVIOUS
  <2> HIDE DEF b
  <2>7. TypeInv'
    BY <1>0, <2>3, <2>4, <2>5 DEF TypeInv, members
  <2>8. \A g \in Handlers :
          /\ handler'[g].at = "merge" => handler'[g].rows <= Len(trail')
          /\ handler'[g].at \in {"insert", "mark"} => handler'[g].verified # Never /\ handler'[g].seen <= now'
    <3> TAKE g \in Handlers
    <3>1. CASE g = h
      BY <1>0, <2>3, <2>4, <2>5, <2>6, <3>1
    <3>2. CASE g # h
      BY <1>0, <1>dates, <2>3, <2>4, <3>2
    <3> QED
      BY <3>1, <3>2
  <2>9. /\ \A n \in Members : seen[n] <= now'
        /\ request.at \in {"insert", "mark"} => request.stamp <= now'
    BY <1>0, <2>4, RequestIs DEF Dates
  <2>10. Dates'
    BY <2>3, <2>4, <2>8, <2>9 DEF Dates, members
  <2> QED
    BY <2>7, <2>10
<1>written. ASSUME NEW h \in Handlers, MarkReopened(h) PROVE TypeInv' /\ Dates'
  <2>1. /\ handler[h].at = "mark" /\ handler[h].verified \in Nat /\ handler[h].seen \in Nat
        /\ handler[h].member \in Members
    BY <1>written, HandlerIs DEF MarkReopened
  <2>2. markers' \in [Members -> MarkerSet]
    BY <1>0, <1>written, <2>1, MarkersAre DEF MarkReopened
  <2>3. /\ handler' = [handler EXCEPT ![h] = Free]
        /\ UNCHANGED <<now, members, trail, request, restarts, started, crossed>>
    BY <1>written DEF MarkReopened
  <2> QED
    BY <1>free, <1>quiet, <2>2, <2>3
<1>member. ASSUME NEW m \in Members, Disconnect(m) \/ Kick(m) \/ Age(m) PROVE TypeInv' /\ Dates'
  <2>1. /\ status' \in [Members -> {"connected", "disconnected", "kicked"}]
        /\ age' \in [Members -> {"fresh", "stale", "historic"}]
        /\ UNCHANGED <<now, seen, trail, markers, handler, request, started, crossed>>
    BY <1>0, <1>member DEF Disconnect, Kick, Age
  <2> QED
    BY <1>0, <2>1 DEF TypeInv, Dates
<1>other. CASE Other
  <2>1. Record("other", None) /\ UNCHANGED <<members, markers, handler, request, restarts, started, crossed>>
    BY <1>other DEF Other
  <2>2. /\ now' = now + 1 /\ now' \in Nat /\ trail' \in Seq(RowSet) /\ Len(trail') = Len(trail) + 1
        /\ \A i \in DOMAIN trail' : trail'[i].at # Never /\ trail'[i].at <= now'
        /\ \A i, j \in DOMAIN trail' : i < j => trail'[i].at < trail'[j].at
    BY <2>1, RecordTypes
  <2>3. TypeInv'
    BY <1>0, <2>1, <2>2 DEF TypeInv, members
  <2>4. /\ \A n \in Members : seen[n] <= now'
        /\ request.at \in {"insert", "mark"} => request.stamp <= now'
        /\ \A h \in Handlers : /\ handler[h].at = "merge" => handler[h].rows <= Len(trail')
                               /\ handler[h].at \in {"insert", "mark"} => handler[h].seen <= now'
    <3>1. now <= now' /\ Len(trail') \in Nat /\ Len(trail) <= Len(trail')
      BY <1>0, <2>2
    <3>2. ASSUME NEW n \in Members PROVE seen[n] <= now'
      BY <1>0, <2>2 DEF Dates
    <3>3. request.at \in {"insert", "mark"} => request.stamp <= now'
      BY <1>0, <2>2, RequestIs DEF Dates
    <3> QED
      BY <1>dates, <2>2, <3>1, <3>2, <3>3
  <2>5. Dates'
    BY <2>1, <2>2, <2>4 DEF Dates, members
  <2> QED
    BY <2>3, <2>5
<1>restart. CASE Restart
  <2>1. /\ markers' = [m \in Members |-> Unknown] /\ handler' = [h \in Handlers |-> Free]
        /\ request' = Free /\ started' = Len(trail) /\ UNCHANGED <<now, seen, age, trail, crossed>>
        /\ status' = [m \in Members |-> IF status[m] = "connected" THEN "disconnected"
                                                                  ELSE status[m]]
    BY <1>restart DEF Restart
  <2>2. TypeInv'
    BY <1>0, <1>free, <2>1, MarkersAre DEF TypeInv
  <2>3. Dates'
    BY <1>free, <2>1 DEF Dates
  <2> QED
    BY <2>2, <2>3
<1>stutter. CASE UNCHANGED vars
  BY <1>0, <1>stutter DEF vars, members, TypeInv, Dates
<1>verify. ASSUME NEW m \in Members, Verify(m) \/ Review(m) \/ Retire(m) PROVE TypeInv' /\ Dates'
  <2>1. \E kind \in Operator : Ask(kind, m)
    BY <1>verify DEF Verify, Review, Retire, Operator
  <2> QED
    BY <2>1, <1>ask
<1>handle. ASSUME NEW h \in Handlers, Handle(h) PROVE TypeInv' /\ Dates'
  BY <1>handle, <1>read, <1>merge, <1>record, <1>written DEF Handle
<1> HIDE DEF HandlerDates
<1> QED
  BY <1>verify, <1>decide, <1>insert, <1>mark, <1>active, <1>handle, <1>member, <1>other,
     <1>restart, <1>stutter DEF Next

-----------------------------------------------------------------------------
(* Markers that are true.                                                  *)
\* What the rows of members are and when.
LEMMA RowsAre ==
    ASSUME TypeInv, Dates
    PROVE  /\ Len(trail) \in Nat /\ DOMAIN trail = 1..Len(trail)
           /\ \A i \in DOMAIN trail : i \in Nat /\ i >= 1 /\ i <= Len(trail) /\ trail[i].at \in Nat
                                      /\ trail[i].at # Never /\ trail[i].at <= now
           /\ \A m, act : Rows(m, act) \subseteq DOMAIN trail
           /\ \A i, j \in DOMAIN trail : i < j <=> trail[i].at < trail[j].at
<1>1. trail \in Seq(RowSet)
  BY DEF TypeInv
<1>2. \A i \in DOMAIN trail : trail[i] \in RowSet
  BY <1>1
<1>3. /\ Len(trail) \in Nat /\ DOMAIN trail = 1..Len(trail)
      /\ \A i \in DOMAIN trail : i \in Nat /\ i >= 1 /\ i <= Len(trail) /\ trail[i].at \in Nat
                                 /\ trail[i].at # Never /\ trail[i].at <= now
  BY <1>1, <1>2 DEF RowSet, Dates
<1>4. \A m, act : Rows(m, act) \subseteq DOMAIN trail
  BY DEF Rows
<1>5. ASSUME NEW i \in DOMAIN trail, NEW j \in DOMAIN trail
      PROVE  i < j <=> trail[i].at < trail[j].at
  <2>1. CASE i < j
    BY <2>1 DEF Dates
  <2>2. CASE i = j
    BY <1>3, <2>2
  <2>3. CASE j < i
    <3>1. trail[j].at < trail[i].at
      BY <2>3 DEF Dates
    <3> QED
      BY <1>3, <2>3, <3>1
  <2> QED
    BY <1>3, <2>1, <2>2, <2>3
<1> QED
  BY <1>3, <1>4, <1>5

\* Without a new row nothing changes.
LEMMA SameRows ==
    ASSUME trail' = trail
    PROVE  /\ \A m, act : Rows(m, act)' = Rows(m, act)
           /\ \A m : Dated(m)' = Dated(m)
           /\ started' = started => /\ \A i : Due(i)' = Due(i)
                                    /\ \A m, k : True(m, k)' = True(m, k)
<1>1. \A m, act : Rows(m, act)' = Rows(m, act)
  BY DEF Rows
<1>2. \A m : Dated(m)' = Dated(m)
  BY <1>1 DEF Dated
<1>3. started' = started => \A i : Due(i)' = Due(i)
  BY DEF Due, InWindow
<1>4. ASSUME NEW m, NEW k, started' = started PROVE True(m, k)' = True(m, k)
  <2>1. \A i : Due(i)' <=> Due(i)
    BY <1>3, <1>4
  <2> HIDE DEF Due
  <2> QED
    BY <1>1, <1>2, <2>1 DEF True
<1>5. started' = started => \A m, k : True(m, k)' = True(m, k)
  BY <1>4
<1> QED
  BY <1>1, <1>2, <1>3, <1>5

\* A marker stays true over rows of other kinds and of other members.
LEMMA TrueStays ==
    ASSUME TypeInv, Dates, NEW e \in RowSet, trail' = Append(trail, e), started' = started,
           NEW m \in Members, ~(e.member = m /\ e.act \in {"verified", "reopened"}),
           NEW k, True(m, k)
    PROVE  True(m, k)'
<1>1. /\ Rows(m, "verified")' = Rows(m, "verified") /\ Rows(m, "reopened")' = Rows(m, "reopened")
      /\ \A i \in DOMAIN trail : trail'[i] = trail[i]
      /\ Len(trail') = Len(trail) + 1
  BY Appended
<1>2. Dated(m)' = Dated(m)
  BY <1>1 DEF Dated
<1>3. \A i \in DOMAIN trail : ~Due(i) => ~Due(i)'
  BY <1>1, RowsAre, WipeAssumption DEF Due, InWindow
<1>4. \A i \in Rows(m, "verified") \cup Rows(m, "reopened") :
         i \in DOMAIN trail /\ trail'[i] = trail[i]
  BY <1>1, RowsAre
<1>5. (k.reopened # Never => \E r \in Rows(m, "reopened") : k.reopened <= trail[r].at)'
  BY <1>1, <1>4 DEF True
<1>6. (k.verified = Never => \A v \in Rows(m, "verified") : ~Due(v))'
  BY <1>1, <1>3, <1>4 DEF True
<1>7. ASSUME k.verified # Never
      PROVE  (\E v \in Rows(m, "verified") :
                 /\ \A x \in Rows(m, "verified") : x <= v
                 /\ k.verified <= trail[v].at
                 /\ \A x \in Dated(m) : x < v => trail[x].at < k.verified
                 /\ k.reopened >= k.verified <=> \E r \in Rows(m, "reopened") : r > v)'
  <2>1. PICK v \in Rows(m, "verified") :
                 /\ \A x \in Rows(m, "verified") : x <= v
                 /\ k.verified <= trail[v].at
                 /\ \A x \in Dated(m) : x < v => trail[x].at < k.verified
                 /\ k.reopened >= k.verified <=> \E r \in Rows(m, "reopened") : r > v
    BY <1>7 DEF True
  <2>2. v \in Rows(m, "verified")' /\ trail'[v] = trail[v]
    BY <1>1, <1>4
  <2>3. \A x \in Dated(m)' : x < v => trail'[x].at < k.verified
    BY <1>2, <1>4, <2>1 DEF Dated
  <2> QED
    BY <1>1, <2>1, <2>2, <2>3
<1> QED
  BY <1>5, <1>6, <1>7 DEF True

\* The marker a verification writes, by the time before its row, is true.
LEMMA TrueVerified ==
    ASSUME TypeInv, Dates, NEW m \in Members, NEW stamp \in Nat, stamp # Never, stamp <= now,
           \A x \in Dated(m) : trail[x].at < stamp, Record("verified", m)
    PROVE  True(m, Marker(stamp, Never))'
<1> DEFINE l == Len(trail) + 1
<1>0. /\ now \in Nat /\ now' = now + 1
      /\ [act |-> "verified", member |-> m, at |-> now'] \in RowSet
      /\ trail' = Append(trail, [act |-> "verified", member |-> m, at |-> now'])
  BY RecordTypes DEF Operator, TypeInv
<1>1. PICK e \in RowSet : e = [act |-> "verified", member |-> m, at |-> now']
  BY <1>0
<1>2. trail' = Append(trail, e) /\ e.act = "verified" /\ e.member = m /\ e.at = now'
  BY <1>0, <1>1
<1>3. /\ Rows(m, "verified")' = Rows(m, "verified") \cup {l}
      /\ Rows(m, "reopened")' = Rows(m, "reopened")
      /\ \A i \in DOMAIN trail : trail'[i] = trail[i]
      /\ trail'[l] = e
  BY <1>2, Appended
<1>4. /\ Rows(m, "verified") \subseteq DOMAIN trail /\ Rows(m, "reopened") \subseteq DOMAIN trail
      /\ Len(trail) \in Nat /\ \A i \in DOMAIN trail : i \in Nat /\ i < l
  BY RowsAre
<1>5. \A x \in Dated(m)' : x < l => trail'[x].at < stamp
  BY <1>3, <1>4 DEF Dated
<1>6. ~(Never >= stamp) /\ ~\E r \in Rows(m, "reopened")' : r > l
  BY <1>3, <1>4 DEF Never
<1>7. l \in Rows(m, "verified")' /\ (\A x \in Rows(m, "verified")' : x <= l) /\ stamp <= trail'[l].at
  BY <1>0, <1>2, <1>3, <1>4
<1> HIDE DEF l
<1> QED
  BY <1>5, <1>6, <1>7, MarkersAre DEF True

\* The marker a reopening writes, by the time the member was seen, is true.
LEMMA TrueReopened ==
    ASSUME TypeInv, Dates, NEW m \in Members, NEW verified \in Nat, verified # Never,
           NEW s \in Nat, s > verified, s <= now,
           True(m, Marker(verified, Never)), Record("reopened", m)
    PROVE  True(m, Marker(verified, s))'
<1> DEFINE l == Len(trail) + 1
<1>0. /\ now \in Nat /\ now' = now + 1
      /\ [act |-> "reopened", member |-> m, at |-> now'] \in RowSet
      /\ trail' = Append(trail, [act |-> "reopened", member |-> m, at |-> now'])
  BY RecordTypes DEF TypeInv
<1>1. PICK e \in RowSet : e = [act |-> "reopened", member |-> m, at |-> now']
  BY <1>0
<1>2. trail' = Append(trail, e) /\ e.act = "reopened" /\ e.member = m /\ e.at = now'
  BY <1>0, <1>1
<1>3. /\ Rows(m, "verified")' = Rows(m, "verified")
      /\ Rows(m, "reopened")' = Rows(m, "reopened") \cup {l}
      /\ \A i \in DOMAIN trail : trail'[i] = trail[i]
      /\ trail'[l] = e
  BY <1>2, Appended
<1>4. /\ Rows(m, "verified") \subseteq DOMAIN trail /\ Rows(m, "reopened") \subseteq DOMAIN trail
      /\ Len(trail) \in Nat /\ \A i \in DOMAIN trail : i \in Nat /\ i < l
  BY RowsAre
<1>5. PICK v \in Rows(m, "verified") :
         /\ \A x \in Rows(m, "verified") : x <= v
         /\ verified <= trail[v].at
         /\ \A x \in Dated(m) : x < v => trail[x].at < verified
  BY MarkersAre DEF True
<1>6. v < l /\ v \in DOMAIN trail /\ l \in Nat
  BY <1>4
<1>7. \A x \in Dated(m)' : x < v => trail'[x].at < verified
  BY <1>3, <1>4, <1>5, <1>6 DEF Dated
<1>8. s >= verified /\ l \in Rows(m, "reopened")' /\ s <= trail'[l].at
  BY <1>0, <1>2, <1>3
<1>9. v \in Rows(m, "verified")' /\ (\A x \in Rows(m, "verified")' : x <= v) /\ verified <= trail'[v].at
  BY <1>3, <1>5, <1>6
<1>10. l > v
  BY <1>4, <1>6
<1> HIDE DEF l
<1>11. \E r \in Rows(m, "reopened")' : r > v
  BY <1>8, <1>10
<1> QED
  BY <1>7, <1>8, <1>9, <1>11, MarkersAre DEF True

\* A marker to be judged says that no reopening is on record.
LEMMA TrueReopens ==
    ASSUME NEW m \in Members, NEW k \in MarkerSet, True(m, k), Reopens(m, k)
    PROVE  True(m, Marker(k.verified, Never))
<1>1. k.verified \in Nat /\ k.reopened \in Nat /\ k.verified # Never /\ ~(k.reopened >= k.verified)
  BY DEF Reopens, MarkerSet, Never
<1>2. ~(Never >= k.verified)
  BY <1>1 DEF Never
<1> QED
  BY <1>1, <1>2, MarkersAre DEF True

\* What is read back from the window and merged into the cache is true, of
\* every member, even when rows have been added since the window was read.
LEMMA TrueMerged ==
    ASSUME TypeInv, Dates, NEW n \in 0..Len(trail),
           \A i \in DOMAIN trail : i > n => trail[i].act = "other",
           NEW m \in Members,
           markers[m].known => True(m, markers[m]),
           ~markers[m].known => markers[m] = Unknown /\ NoneHere(m),
           NEW k, k = Merged(Newest(n, Window))[m]
    PROVE  True(m, k) /\ (~k.known => k = Unknown /\ NoneHere(m))
<1> DEFINE old == markers[m]
           lv == Latest(Newest(n, Window), "verified", m)
           lr == Latest(Newest(n, Window), "reopened", m)
           Seen(i) == i <= n /\ n < i + Window
<1>1. /\ Len(trail) \in Nat /\ n \in Nat /\ n <= Len(trail) /\ Window \in Nat
      /\ DetailsDecoded \in BOOLEAN /\ started \in Nat
      /\ \A i \in DOMAIN trail : i \in Nat /\ trail[i].at \in Nat /\ trail[i].at # Never
      /\ \A i, j \in DOMAIN trail : i < j <=> trail[i].at < trail[j].at
  BY RowsAre, WipeAssumption DEF TypeInv
<1>2. \A i \in Rows(m, "verified") \cup Rows(m, "reopened") :
         i \in DOMAIN trail /\ i \in Nat /\ i <= n /\ trail[i].at \in Nat /\ trail[i].at # Never
  BY <1>1 DEF Rows
<1>3. /\ lv \in Nat /\ \A i \in Rows(m, "verified") : DetailsDecoded /\ Seen(i) => trail[i].at <= lv
      /\ lv # Never => \E i \in Rows(m, "verified") : Seen(i) /\ trail[i].at = lv
      /\ lr \in Nat /\ \A i \in Rows(m, "reopened") : DetailsDecoded /\ Seen(i) => trail[i].at <= lr
      /\ lr # Never => \E i \in Rows(m, "reopened") : Seen(i) /\ trail[i].at = lr
      /\ ~DetailsDecoded => lv = Never /\ lr = Never
  <2>1. /\ lv \in Nat /\ \A i \in Rows(m, "verified") : DetailsDecoded /\ Seen(i) => trail[i].at <= lv
        /\ lv # Never => \E i \in Rows(m, "verified") : Seen(i) /\ trail[i].at = lv
        /\ ~DetailsDecoded => lv = Never
    BY LatestIs
  <2>2. /\ lr \in Nat /\ \A i \in Rows(m, "reopened") : DetailsDecoded /\ Seen(i) => trail[i].at <= lr
        /\ lr # Never => \E i \in Rows(m, "reopened") : Seen(i) /\ trail[i].at = lr
        /\ ~DetailsDecoded => lr = Never
    BY LatestIs
  <2> HIDE DEF lv, lr
  <2> QED
    BY <2>1, <2>2
<1>4. old \in MarkerSet /\ old.verified \in Nat /\ old.reopened \in Nat
  BY DEF TypeInv, MarkerSet
<1>5. PICK V \in Nat, R \in Nat :
         /\ V = Max({old.verified, lv}) /\ V \in {old.verified, lv} /\ V >= old.verified /\ V >= lv
         /\ R = Max({old.reopened, lr}) /\ R \in {old.reopened, lr} /\ R >= old.reopened /\ R >= lr
  <2> DEFINE ov == old.verified  or == old.reopened
  <2>1. lv \in Nat /\ lr \in Nat /\ ov \in Nat /\ or \in Nat
    BY <1>3, <1>4
  <2> HIDE DEF lv, lr, ov, or
  <2>2. Max({ov, lv}) \in {ov, lv} /\ Max({ov, lv}) \in Nat /\ Max({ov, lv}) >= ov /\ Max({ov, lv}) >= lv
    BY <2>1, LaterOfTwo
  <2>3. Max({or, lr}) \in {or, lr} /\ Max({or, lr}) \in Nat /\ Max({or, lr}) >= or /\ Max({or, lr}) >= lr
    BY <2>1, LaterOfTwo
  <2> USE DEF ov, or
  <2> QED
    BY <2>2, <2>3
<1>6. k = IF Marker(V, R) = Marker(Never, Never) THEN old ELSE Marker(V, R)
  BY <1>5, MergedIsMarkers
<1>7. k.verified = V /\ k.reopened = R
  <2>1. CASE Marker(V, R) = Marker(Never, Never)
    <3>1. V = Never /\ R = Never
      BY <2>1, MarkersAre
    <3> QED
      BY <1>4, <1>5, <1>6, <2>1, <3>1 DEF Never
  <2> QED
    BY <1>6, <2>1, MarkersAre
<1>8. ~k.known => k = Unknown /\ NoneHere(m)
  BY <1>6, MarkersAre
<1>9. old.reopened # Never => \E r \in Rows(m, "reopened") : old.reopened <= trail[r].at
  BY DEF True, Unknown
<1> HIDE DEF old, lv, lr
<1>10. R # Never => \E r \in Rows(m, "reopened") : R <= trail[r].at
  <2>1. CASE R = lr
    BY <1>2, <1>3, <2>1
  <2> QED
    BY <1>5, <1>9, <2>1
<1>old. old.verified = Never => \A v \in Rows(m, "verified") : v <= started
  <2>1. CASE markers[m].known
    BY <1>1, <1>2, <2>1 DEF True, Due, old
  <2>2. CASE ~markers[m].known
    BY <2>2 DEF NoneHere
  <2> QED
    BY <2>1, <2>2
<1>11. V = Never => \A v \in Rows(m, "verified") : ~Due(v)
  <2> SUFFICES ASSUME V = Never, NEW v \in Rows(m, "verified"), Due(v) PROVE FALSE
    OBVIOUS
  <2>0. old.verified = Never
    BY <1>4, <1>5 DEF Never
  <2>1. DetailsDecoded /\ Seen(v)
    BY <1>1, <1>2, <1>old, <2>0 DEF Due, InWindow
  <2>2. trail[v].at <= lv /\ lv <= V
    BY <1>3, <1>5, <2>1
  <2> QED
    BY <1>2, <1>3, <2>2 DEF Never
<1> DEFINE Final(v) ==
      /\ \A x \in Rows(m, "verified") : x <= v
      /\ V <= trail[v].at
      /\ \A x \in Dated(m) : x < v => trail[x].at < V
      /\ R >= V <=> \E r \in Rows(m, "reopened") : r > v
<1>12. ASSUME V # Never PROVE \E v \in Rows(m, "verified") : Final(v)
  <2>1. CASE lv # Never
    <3>0. DetailsDecoded
      BY <1>3, <2>1
    <3>1. PICK w \in Rows(m, "verified") : Seen(w) /\ trail[w].at = lv
      BY <1>3, <2>1
    <3>2. \A x \in Rows(m, "verified") : x <= w
      <4> SUFFICES ASSUME NEW x \in Rows(m, "verified"), x > w PROVE FALSE
        BY <1>2
      <4>1. Seen(x)
        BY <1>1, <1>2, <3>1
      <4>2. trail[w].at < trail[x].at /\ trail[x].at <= lv
        BY <1>1, <1>2, <1>3, <3>0, <4>1
      <4> QED
        BY <1>2, <1>3, <3>1, <4>2
    <3>3. old.verified <= lv
      <4>1. CASE old.verified = Never
        BY <1>3, <4>1 DEF Never
      <4>2. CASE old.verified # Never
        <5>1. True(m, old)
          BY <4>2 DEF Unknown, old
        <5>2. PICK v \in Rows(m, "verified") :
                 (\A x \in Rows(m, "verified") : x <= v) /\ old.verified <= trail[v].at
          BY <4>2, <5>1 DEF True
        <5>3. v = w
          BY <1>2, <3>2, <5>2
        <5> QED
          BY <3>1, <5>2, <5>3
      <4> QED
        BY <4>1, <4>2
    <3>4. V = trail[w].at
      BY <1>3, <1>4, <1>5, <3>1, <3>3
    <3>5. \A x \in Dated(m) : x < w => trail[x].at < V
      BY <1>1, <1>2, <3>4 DEF Dated
    <3>6. ASSUME NEW r \in Rows(m, "reopened"), r > w PROVE R >= V
      <4>1. Seen(r)
        BY <1>1, <1>2, <3>1, <3>6
      <4>2. trail[w].at < trail[r].at /\ trail[r].at <= lr
        BY <1>1, <1>2, <1>3, <3>0, <3>6, <4>1
      <4> QED
        BY <1>2, <1>3, <1>5, <3>4, <4>2
    <3>7. ASSUME R >= V PROVE \E r \in Rows(m, "reopened") : r > w
      <4>1. R # Never
        BY <1>5, <1>12, <3>7 DEF Never
      <4>2. PICK r \in Rows(m, "reopened") : R <= trail[r].at
        BY <1>10, <4>1
      <4>3. trail[w].at <= trail[r].at
        BY <1>2, <3>4, <3>7, <4>2
      <4>4. r # w
        BY DEF Rows
      <4>5. ~(r < w)
        BY <1>1, <1>2, <4>3
      <4> QED
        BY <1>2, <4>4, <4>5
    <3> QED
      BY <1>2, <3>2, <3>4, <3>5, <3>6, <3>7
  <2>2. CASE lv = Never
    <3>1. V = old.verified /\ old.verified # Never
      BY <1>4, <1>5, <1>12, <2>2 DEF Never
    <3>2. True(m, old)
      BY <3>1 DEF Unknown, old
    <3>3. PICK v \in Rows(m, "verified") :
             /\ \A x \in Rows(m, "verified") : x <= v
             /\ old.verified <= trail[v].at
             /\ \A x \in Dated(m) : x < v => trail[x].at < old.verified
             /\ old.reopened >= old.verified <=> \E r \in Rows(m, "reopened") : r > v
      BY <3>1, <3>2 DEF True
    <3>4. DetailsDecoded => ~Seen(v)
      BY <1>2, <1>3, <2>2 DEF Never
    <3>5. ASSUME NEW r \in Rows(m, "reopened"), r > v PROVE R >= V
      <4>1. old.reopened >= old.verified
        BY <3>3, <3>5
      <4>2. R >= old.reopened
        BY <1>5
      <4> QED
        BY <1>4, <3>1, <4>1, <4>2
    <3>6. ASSUME R >= V PROVE \E r \in Rows(m, "reopened") : r > v
      <4>1. CASE R = old.reopened
        BY <3>1, <3>3, <3>6, <4>1
      <4>2. CASE R = lr
        <5>1. lr # Never
          BY <1>5, <1>12, <3>6, <4>2 DEF Never
        <5>2. DetailsDecoded /\ \E r \in Rows(m, "reopened") : Seen(r)
          BY <1>3, <5>1
        <5>3. PICK r \in Rows(m, "reopened") : r > v
          BY <1>1, <1>2, <3>4, <5>2
        <5> QED
          BY <5>3
      <4> QED
        BY <1>5, <4>1, <4>2
    <3> QED
      BY <3>1, <3>3, <3>5, <3>6
  <2> QED
    BY <2>1, <2>2
<1> QED
  BY <1>7, <1>8, <1>10, <1>11, <1>12 DEF True

-----------------------------------------------------------------------------
(* While requests and activities do not overlap.                           *)
\* An overlap is never forgotten.
LEMMA CrossedStays == TypeInv /\ [Next]_vars /\ crossed => crossed'
<1> SUFFICES ASSUME TypeInv, [Next]_vars, crossed, ~crossed' PROVE FALSE
  OBVIOUS
<1>1. ~\E m \in Members : Verify(m) \/ Review(m) \/ Retire(m)
  BY DEF Verify, Review, Retire, Ask
<1>2. ~(Decide \/ Insert \/ Mark)
  BY DEF Decide, Insert, Mark
<1>3. ~\E h \in Handlers : (\E m \in Members : Active(h, m)) \/ Handle(h)
  BY DEF Active, Handle, ReadMarker, Merge, RecordReopened, MarkReopened
<1>4. ~\E m \in Members : Disconnect(m) \/ Kick(m) \/ Age(m)
  BY DEF Disconnect, Kick, Age
<1>5. ~(Other \/ Restart \/ UNCHANGED vars)
  BY DEF Other, Restart, vars
<1> QED
  BY <1>1, <1>2, <1>3, <1>4, <1>5 DEF Next

\* Whoever takes the turn finds everything free.
LEMMA Turns ==
    ASSUME TypeInv, ~crossed'
    PROVE  /\ \A kind, m : Ask(kind, m) => AllFree
           /\ \A h, m : Active(h, m) => AllFree
  BY DEF Ask, Active

\* How one activity goes on: the others do not.
LEMMA HandlerGoes ==
    ASSUME TypeInv, NEW h \in Handlers, NEW b, handler' = [handler EXCEPT ![h] = b]
    PROVE  handler'[h] = b /\ \A g \in Handlers : g # h => handler'[g] = handler[g]
  BY DEF TypeInv

\* Where an activity goes, whatever becomes of its marker.
LEMMA Handled ==
    ASSUME TypeInv, NEW h \in Handlers, Handle(h)
    PROVE  /\ handler[h].at # "free"
           /\ \A g \in Handlers : g # h => handler'[g] = handler[g]
           /\ UNCHANGED <<members, request, crossed>>
           /\ handler'[h].at = "free" \/ handler'[h].member = handler[h].member
<1>1. handler[h].at # "free" /\ UNCHANGED <<members, request, crossed>>
  BY DEF Handle, ReadMarker, Merge, RecordReopened, MarkReopened
<1>2. \E b : handler' = [handler EXCEPT ![h] = b] /\ (b.at = "free" \/ b.member = handler[h].member)
  <2>1. ASSUME NEW m, m = handler[h].member, NEW k, Judge(h, m, k)
        PROVE  \E b : handler' = [handler EXCEPT ![h] = b] /\ (b.at = "free" \/ b.member = m)
    <3> DEFINE b == [at |-> "insert", member |-> m, verified |-> k.verified, seen |-> seen[m]]
    <3>1. Free.at = "free" /\ b.member = m
      BY DEF Free
    <3>2. handler' = [handler EXCEPT ![h] = Free] \/ handler' = [handler EXCEPT ![h] = b]
      BY <2>1 DEF Judge
    <3> QED
      BY <3>1, <3>2
  <2>2. CASE ReadMarker(h)
    <3> DEFINE b == [at |-> "merge", member |-> handler[h].member, rows |-> Len(trail)]
    <3>1. \/ Judge(h, handler[h].member, markers[handler[h].member])
          \/ handler' = [handler EXCEPT ![h] = b]
      BY <2>2 DEF ReadMarker
    <3>2. b.member = handler[h].member
      OBVIOUS
    <3> QED
      BY <2>1, <3>1, <3>2
  <2>3. CASE Merge(h)
    BY <2>1, <2>3 DEF Merge
  <2>4. CASE RecordReopened(h)
    <3>1. /\ handler' = [handler EXCEPT ![h].at = "mark"] /\ handler[h].at = "insert"
      BY <2>4 DEF RecordReopened
    <3> DEFINE b == [at |-> "mark", member |-> handler[h].member,
                     verified |-> handler[h].verified, seen |-> handler[h].seen]
    <3>2. handler' = [handler EXCEPT ![h] = b] /\ b.member = handler[h].member
      BY <3>1, HandlerIs
    <3> QED
      BY <3>2
  <2>5. CASE MarkReopened(h)
    <3>1. handler' = [handler EXCEPT ![h] = Free] /\ Free.at = "free"
      BY <2>5 DEF MarkReopened, Free
    <3> QED
      BY <3>1
  <2> QED
    BY <2>2, <2>3, <2>4, <2>5 DEF Handle
<1> QED
  BY <1>1, <1>2, HandlerGoes

LEMMA AloneLasts ==
    ASSUME TypeInv, Alone, ~crossed', [Next]_vars
    PROVE  Alone'
<1>same. ASSUME UNCHANGED <<handler, request>> PROVE Alone'
  BY <1>same DEF Alone
<1>ask. ASSUME NEW m \in Members, Verify(m) \/ Review(m) \/ Retire(m) PROVE Alone'
  <2>1. AllFree /\ handler' = handler
    BY <1>ask, Turns DEF Verify, Review, Retire, Ask
  <2> QED
    BY <2>1 DEF Alone, AllFree, IsFree
<1>request. CASE Decide \/ Insert \/ Mark
  <2>1. request.at # "free" /\ handler' = handler
    BY <1>request DEF Decide, Insert, Mark
  <2> QED
    BY <2>1 DEF Alone
<1>active. ASSUME NEW h \in Handlers, NEW m \in Members, Active(h, m) PROVE Alone'
  <2>1. AllFree /\ request' = request /\ \A g \in Handlers : g # h => handler'[g] = handler[g]
    BY <1>active, Turns, HandlerGoes DEF Active
  <2> QED
    BY <2>1 DEF Alone, AllFree, IsFree
<1>handle. ASSUME NEW h \in Handlers, Handle(h) PROVE Alone'
  <2>1. /\ handler[h].at # "free" /\ request' = request
        /\ \A g \in Handlers : g # h => handler'[g] = handler[g]
    BY <1>handle, Handled
  <2> QED
    BY <2>1 DEF Alone
<1>member. ASSUME NEW m \in Members, Disconnect(m) \/ Kick(m) \/ Age(m) PROVE Alone'
  BY <1>member, <1>same DEF Disconnect, Kick, Age
<1>other. CASE Other
  BY <1>other, <1>same DEF Other
<1>restart. CASE Restart
  BY <1>restart DEF Restart, Alone, Free
<1>stutter. CASE UNCHANGED vars
  BY <1>stutter, <1>same DEF vars
<1> QED
  BY <1>ask, <1>request, <1>active, <1>handle, <1>member, <1>other, <1>restart, <1>stutter DEF Next

\* The rows after a new one.
LEMMA RecordRows ==
    ASSUME TypeInv, Dates, NEW act \in Operator \cup {"reopened", "other"},
           NEW m \in Members \cup {None}, act = "other" \/ m \in Members, Record(act, m)
    PROVE  LET l == Len(trail) + 1 IN
           /\ \A n, a : Rows(n, a)' = IF n = m /\ a = act THEN Rows(n, a) \cup {l} ELSE Rows(n, a)
           /\ DOMAIN trail' = DOMAIN trail \cup {l} /\ l \notin DOMAIN trail
           /\ \A i \in DOMAIN trail : trail'[i] = trail[i] /\ i \in Nat /\ i < l
           /\ trail'[l].act = act /\ trail'[l].member = m /\ trail'[l].at = now'
           /\ l \in Nat /\ Len(trail') = l
           /\ now' = now + 1
<1>1. /\ [act |-> act, member |-> m, at |-> now'] \in RowSet /\ now' = now + 1
      /\ trail' = Append(trail, [act |-> act, member |-> m, at |-> now'])
  BY RecordTypes
<1>2. PICK e \in RowSet : e = [act |-> act, member |-> m, at |-> now']
  BY <1>1
<1>3. trail' = Append(trail, e) /\ e.act = act /\ e.member = m /\ e.at = now'
  BY <1>1, <1>2
<1>4. /\ Len(trail) \in Nat /\ Len(trail') = Len(trail) + 1
      /\ DOMAIN trail = 1..Len(trail) /\ DOMAIN trail' = 1..(Len(trail) + 1)
      /\ \A i \in DOMAIN trail : trail'[i] = trail[i]
      /\ trail'[Len(trail) + 1] = e
      /\ \A n, a : Rows(n, a)' = IF e.member = n /\ e.act = a
                                 THEN Rows(n, a) \cup {Len(trail) + 1} ELSE Rows(n, a)
  BY <1>3, Appended
<1> QED
  BY <1>1, <1>3, <1>4

LEMMA RowsLast ==
    ASSUME TypeInv, Dates, Calm, ~crossed', [Next]_vars
    PROVE  Once' /\ SeenSince'
<1> DEFINE l == Len(trail) + 1
<1>0. /\ now \in Nat /\ seen \in [Members -> Nat]
      /\ \A i \in DOMAIN trail : i \in Nat /\ i < l /\ trail[i].at \in Nat
      /\ \A m, a : Rows(m, a) \subseteq DOMAIN trail
      /\ Once /\ SeenSince
  BY RowsAre DEF TypeInv, Calm
<1>same. ASSUME trail' = trail, \A m \in Members : seen'[m] \in Nat /\ seen[m] <= seen'[m]
         PROVE  Once' /\ SeenSince'
  <2>1. Once'
    BY <1>0, <1>same, SameRows DEF Once
  <2>2. ASSUME NEW m \in Members, NEW r \in Rows(m, "reopened")',
               NEW v \in Rows(m, "verified")', v < r
        PROVE  seen'[m] > trail'[v].at
    <3>1. r \in Rows(m, "reopened") /\ v \in Rows(m, "verified") /\ trail'[v].at = trail[v].at
      BY <1>same, <2>2, SameRows
    <3>2. seen[m] > trail[v].at /\ trail[v].at \in Nat /\ seen[m] \in Nat
      BY <1>0, <2>2, <3>1 DEF SeenSince
    <3> QED
      BY <1>same, <3>1, <3>2
  <2> QED
    BY <2>1, <2>2 DEF SeenSince
<1>quiet. ASSUME UNCHANGED <<trail, seen>> PROVE Once' /\ SeenSince'
  BY <1>0, <1>quiet, <1>same
\* A row of another kind, or a verification, after all reopenings.
<1>row. ASSUME NEW act \in Operator \cup {"other"}, NEW m \in Members \cup {None},
               act = "other" \/ m \in Members, Record(act, m), seen' = seen
        PROVE  Once' /\ SeenSince'
  <2>1. /\ \A n, a : Rows(n, a)' = IF n = m /\ a = act THEN Rows(n, a) \cup {l} ELSE Rows(n, a)
        /\ \A i \in DOMAIN trail : trail'[i] = trail[i]
    BY <1>row, RecordRows
  <2>2. act # "reopened"
    BY DEF Operator
  <2>3. /\ \A n : Rows(n, "reopened")' = Rows(n, "reopened")
        /\ \A n : Rows(n, "verified") \subseteq Rows(n, "verified")'
        /\ \A n : Rows(n, "verified")' \subseteq Rows(n, "verified") \cup {l}
    BY <2>1, <2>2
  <2>4. Once'
    BY <1>0, <2>3 DEF Once
  <2>5. ASSUME NEW n \in Members, NEW r \in Rows(n, "reopened")',
               NEW v \in Rows(n, "verified")', v < r
        PROVE  seen'[n] > trail'[v].at
    <3>1. r \in Rows(n, "reopened") /\ r < l /\ r \in Nat
      BY <1>0, <2>3
    <3>2. v \in Rows(n, "verified") /\ v \in DOMAIN trail
      BY <1>0, <2>3, <2>5, <3>1
    <3> QED
      BY <1>0, <1>row, <2>1, <2>5, <3>1, <3>2 DEF SeenSince
  <2> QED
    BY <2>4, <2>5 DEF SeenSince
<1>insert. CASE Insert
  <2>1. PICK act \in Operator, m \in Members : act = request.kind /\ m = request.member
    BY <1>insert, RequestIs DEF Insert
  <2> QED
    BY <1>insert, <1>row, <2>1 DEF Insert, members
<1>record. ASSUME NEW h \in Handlers, RecordReopened(h) PROVE Once' /\ SeenSince'
  <2>1. PICK m \in Members : m = handler[h].member
    BY <1>record, HandlerIs DEF RecordReopened
  <2>2. handler[h].at = "insert" /\ Record("reopened", m) /\ seen' = seen
    BY <1>record, <2>1 DEF RecordReopened, members
  <2>3. PICK verified \in Nat : verified = handler[h].verified /\ verified # Never
    BY <2>2, HandlerIs DEF Dates
  <2>4. /\ True(m, Marker(verified, Never))
        /\ \A v \in Rows(m, "verified") : seen[m] > trail[v].at
    BY <2>1, <2>2, <2>3 DEF Calm, HandlerTrue, Right
  <2>5. PICK v \in Rows(m, "verified") : ~\E r \in Rows(m, "reopened") : r > v
    BY <2>3, <2>4, MarkersAre DEF True, Never
  <2>6. /\ \A n, a : Rows(n, a)' = IF n = m /\ a = "reopened" THEN Rows(n, a) \cup {l} ELSE Rows(n, a)
        /\ \A i \in DOMAIN trail : trail'[i] = trail[i]
    BY <2>2, RecordRows
  <2>7. /\ \A n : Rows(n, "verified")' = Rows(n, "verified")
        /\ \A n \in Members : n # m => Rows(n, "reopened")' = Rows(n, "reopened")
        /\ Rows(m, "reopened")' = Rows(m, "reopened") \cup {l}
    BY <2>6
  <2>8. ASSUME NEW n \in Members, NEW i \in Rows(n, "reopened")',
               NEW j \in Rows(n, "reopened")', i < j
        PROVE  \E k \in Rows(n, "verified")' : i < k /\ k < j
    <3>1. CASE i \in Rows(n, "reopened") /\ j \in Rows(n, "reopened")
      BY <1>0, <2>7, <2>8, <3>1 DEF Once
    <3>2. CASE n = m /\ i \in Rows(m, "reopened") /\ j = l
      <4>1. v < l /\ i \in Nat /\ v \in Nat /\ ~(i > v) /\ i # v
        BY <1>0, <2>5, <3>2 DEF Rows
      <4>2. i < v /\ v < j
        BY <3>2, <4>1
      <4> QED
        BY <2>7, <3>2, <4>2
    <3>3. ~(i = l)
      BY <1>0, <2>7, <2>8
    <3> QED
      BY <2>7, <3>1, <3>2, <3>3
  <2>9. ASSUME NEW n \in Members, NEW r \in Rows(n, "reopened")',
               NEW x \in Rows(n, "verified")', x < r
        PROVE  seen'[n] > trail'[x].at
    <3>1. x \in Rows(n, "verified") /\ trail'[x] = trail[x]
      BY <1>0, <2>6, <2>7
    <3>2. CASE r \in Rows(n, "reopened")
      BY <1>0, <2>2, <2>9, <3>1, <3>2 DEF SeenSince
    <3>3. CASE n = m
      BY <2>2, <2>4, <3>1, <3>3
    <3> QED
      BY <2>7, <3>2, <3>3
  <2> QED
    BY <2>8, <2>9 DEF Once, SeenSince
<1>active. ASSUME NEW h \in Handlers, NEW m \in Members, Active(h, m) PROVE Once' /\ SeenSince'
  <2>1. trail' = trail /\ now' = now + 1 /\ seen' = [seen EXCEPT ![m] = now']
    BY <1>active DEF Active, Tick
  <2>2. \A n \in Members : seen'[n] \in Nat /\ seen[n] <= seen'[n]
    BY <1>0, <2>1 DEF Dates
  <2> QED
    BY <1>same, <2>1, <2>2
<1>ask. ASSUME NEW m \in Members, Verify(m) \/ Review(m) \/ Retire(m) PROVE Once' /\ SeenSince'
  BY <1>ask, <1>quiet DEF Verify, Review, Retire, Ask, members
<1>request. CASE Decide \/ Mark
  BY <1>request, <1>quiet DEF Decide, Mark, members
<1>handle. ASSUME NEW h \in Handlers, ReadMarker(h) \/ Merge(h) \/ MarkReopened(h)
           PROVE  Once' /\ SeenSince'
  BY <1>handle, <1>quiet DEF ReadMarker, Merge, MarkReopened, members
<1>member. ASSUME NEW m \in Members, Disconnect(m) \/ Kick(m) \/ Age(m) PROVE Once' /\ SeenSince'
  BY <1>member, <1>quiet DEF Disconnect, Kick, Age
<1>other. CASE Other
  BY <1>other, <1>row DEF Other, members
<1>restart. CASE Restart
  BY <1>restart, <1>quiet DEF Restart
<1>stutter. CASE UNCHANGED vars
  BY <1>stutter, <1>quiet DEF vars, members
<1> QED
  BY <1>ask, <1>request, <1>insert, <1>active, <1>handle, <1>record, <1>member, <1>other,
     <1>restart, <1>stutter DEF Next, Handle

\* Who has the turn has it alone.
LEMMA OnTurn ==
    ASSUME TypeInv, Alone
    PROVE  /\ request.at # "free" => \A h \in Handlers : handler[h].at = "free"
           /\ \A h \in Handlers : handler[h].at # "free" =>
                 request.at = "free" /\ \A g \in Handlers : g # h => handler[g].at = "free"
  BY DEF Alone

LEMMA MarkersLast ==
    ASSUME TypeInv, Dates, Calm, ~crossed', [Next]_vars
    PROVE  MarkersTrue'
<1>0. /\ markers \in [Members -> MarkerSet] /\ MarkersTrue /\ Alone
      /\ trail \in Seq(RowSet)
  BY DEF TypeInv, Calm
<1>same. ASSUME UNCHANGED <<trail, markers, started>>, \A m \in Members : Settled(m)' => Settled(m)
         PROVE  MarkersTrue'
  <2> SUFFICES ASSUME NEW m \in Members
               PROVE  MarkerTrue(m)'
    BY DEF MarkersTrue
  <2>1. (\A k : True(m, k)' = True(m, k)) /\ Rows(m, "verified")' = Rows(m, "verified")
    BY <1>same, SameRows
  <2>2. NoneHere(m)' = NoneHere(m)
    BY <1>same, <2>1 DEF NoneHere
  <2>3. MarkerTrue(m)
    BY <1>0 DEF MarkersTrue
  <2> QED
    BY <1>same, <2>1, <2>2, <2>3 DEF MarkerTrue
<1>quiet. ASSUME UNCHANGED <<trail, markers, started>>, request' = request \/ request.at # "mark",
                 \A h \in Handlers : handler'[h] = handler[h] \/ handler[h].at # "mark"
          PROVE  MarkersTrue'
  <2>1. \A m \in Members : Settled(m)' => Settled(m)
    BY <1>quiet DEF Settled
  <2> QED
    BY <1>quiet, <1>same, <2>1
\* A row of somebody else, or of another kind.
<1>row. ASSUME NEW act \in Operator \cup {"reopened", "other"}, NEW m \in Members \cup {None},
               act = "other" \/ m \in Members, Record(act, m), UNCHANGED <<markers, started>>, NEW n \in Members,
               n # m \/ act \notin {"verified", "reopened"}, Settled(n)
        PROVE  MarkerTrue(n)'
  <2>1. /\ [act |-> act, member |-> m, at |-> now'] \in RowSet
        /\ trail' = Append(trail, [act |-> act, member |-> m, at |-> now'])
    BY <1>row, RecordTypes
  <2>2. PICK e \in RowSet : e = [act |-> act, member |-> m, at |-> now']
    BY <2>1
  <2>3. trail' = Append(trail, e) /\ ~(e.member = n /\ e.act \in {"verified", "reopened"})
    BY <1>row, <2>1, <2>2
  <2>4. \A k : True(n, k) => True(n, k)'
    BY <1>row, <2>3, TrueStays
  <2>5. Rows(n, "verified")' = Rows(n, "verified")
    BY <2>3, Appended
  <2>6. NoneHere(n)' = NoneHere(n)
    BY <1>row, <2>5 DEF NoneHere
  <2>7. MarkerTrue(n)
    BY <1>0 DEF MarkersTrue
  <2> QED
    BY <1>row, <2>4, <2>6, <2>7 DEF MarkerTrue
\* A marker that waits for its row's step says nothing.
<1>waits. ASSUME NEW n \in Members, markers' = markers, ~Settled(n)' PROVE MarkerTrue(n)'
  <2>1. MarkerTrue(n)
    BY <1>0 DEF MarkersTrue
  <2> QED
    BY <1>waits, <2>1 DEF MarkerTrue
<1>insert. CASE Insert
  <2>1. PICK act \in Operator, m \in Members : act = request.kind /\ m = request.member
    BY <1>insert, RequestIs DEF Insert
  <2>2. /\ request.at = "insert" /\ Record(act, m) /\ UNCHANGED <<markers, handler, started>>
        /\ act = "verified" => request'.at = "mark" /\ request'.member = m
    BY <1>insert, <2>1, RequestIs DEF Insert
  <2>3. \A n \in Members : Settled(n)
    BY <1>0, <2>2, OnTurn DEF Settled
  <2>4. \A n \in Members : Settled(n)' => n # m \/ act \notin {"verified", "reopened"}
    BY <2>2 DEF Settled, Operator
  <2> QED
    BY <1>row, <1>waits, <2>2, <2>3, <2>4 DEF MarkersTrue
<1>record. ASSUME NEW h \in Handlers, RecordReopened(h) PROVE MarkersTrue'
  <2>1. PICK m \in Members : m = handler[h].member
    BY <1>record, HandlerIs DEF RecordReopened
  <2>2. /\ handler[h].at = "insert" /\ Record("reopened", m) /\ UNCHANGED <<markers, started>>
        /\ handler' = [handler EXCEPT ![h].at = "mark"]
    BY <1>record, <2>1 DEF RecordReopened
  <2>3. handler'[h].at = "mark" /\ handler'[h].member = m
    BY <2>1, <2>2, HandlerIs DEF TypeInv
  <2>4. \A n \in Members : Settled(n)
    BY <1>0, <2>2, OnTurn DEF Settled
  <2>5. \A n \in Members : Settled(n)' => n # m
    BY <2>3 DEF Settled
  <2> QED
    BY <1>row, <1>waits, <2>2, <2>4, <2>5 DEF MarkersTrue
<1>other. CASE Other
  <2>1. Record("other", None) /\ UNCHANGED <<markers, handler, request, started>>
    BY <1>other DEF Other
  <2>2. \A n \in Members : Settled(n)' => Settled(n)
    BY <2>1 DEF Settled
  <2> QED
    BY <1>row, <1>waits, <2>1, <2>2 DEF MarkersTrue
\* Writing the marker of m, which is true.
<1>write. ASSUME NEW m \in Members, NEW v \in Nat,
                 NEW r \in Nat, True(m, Marker(v, r)), UNCHANGED <<trail, started>>,
                 markers' = [markers EXCEPT ![m] = Marker(v, r)],
                 \A n \in Members : n # m => Settled(n)
          PROVE  MarkersTrue'
  <2>1. (\A n, k : True(n, k)' = True(n, k)) /\ \A n, a : Rows(n, a)' = Rows(n, a)
    BY <1>write, SameRows
  <2>2. markers'[m] = Marker(v, r) /\ \A n \in Members : n # m => markers'[n] = markers[n]
    BY <1>0, <1>write
  <2>3. markers'[m].known /\ True(m, markers[m])'
    BY <1>write, <2>1, <2>2, MarkersAre
  <2>4. MarkerTrue(m)'
    BY <2>3 DEF MarkerTrue
  <2>5. ASSUME NEW n \in Members, n # m PROVE MarkerTrue(n)'
    <3>1. MarkerTrue(n)
      BY <1>0 DEF MarkersTrue
    <3>2. NoneHere(n)' = NoneHere(n)
      BY <1>write, <2>1 DEF NoneHere
    <3>3. markers'[n] = markers[n] /\ Settled(n)
      BY <1>write, <2>2, <2>5
    <3> QED
      BY <2>1, <3>1, <3>2, <3>3 DEF MarkerTrue
  <2> QED
    BY <2>4, <2>5 DEF MarkersTrue
<1>mark. CASE Mark
  <2>1. PICK m \in Members, stamp \in Nat : m = request.member /\ stamp = request.stamp
    BY <1>mark, RequestIs DEF Mark
  <2>2. /\ request.at = "mark" /\ UNCHANGED <<trail, started>>
        /\ markers' = [markers EXCEPT ![m] = Marker(stamp, Never)]
    BY <1>mark, <2>1 DEF Mark
  <2>3. True(m, Marker(stamp, Never))
    BY <2>1, <2>2 DEF Calm, RequestTrue
  <2>4. \A n \in Members : n # m => Settled(n)
    BY <1>0, <2>1, <2>2, OnTurn DEF Settled
  <2> QED
    BY <1>write, <2>2, <2>3, <2>4 DEF Never
<1>written. ASSUME NEW h \in Handlers, MarkReopened(h) PROVE MarkersTrue'
  <2>1. PICK m \in Members, v \in Nat, s \in Nat :
           m = handler[h].member /\ v = handler[h].verified /\ s = handler[h].seen
    BY <1>written, HandlerIs DEF MarkReopened
  <2>2. /\ handler[h].at = "mark" /\ UNCHANGED <<trail, started>>
        /\ markers' = [markers EXCEPT ![m] = Marker(v, s)]
    BY <1>written, <2>1 DEF MarkReopened, members
  <2>3. True(m, Marker(v, s))
    BY <2>1, <2>2 DEF Calm, HandlerTrue, Right
  <2>4. \A n \in Members : n # m => Settled(n)
    BY <1>0, <2>1, <2>2, OnTurn DEF Settled
  <2> QED
    BY <1>write, <2>2, <2>3, <2>4
<1>merge. ASSUME NEW h \in Handlers, Merge(h) PROVE MarkersTrue'
  <2>1. /\ handler[h].at = "merge" /\ handler[h].rows \in Nat /\ handler[h].rows <= Len(trail)
        /\ UNCHANGED <<trail, started>> /\ markers' = Merged(Newest(handler[h].rows, Window))
        /\ Len(trail) \in Nat
    <3>1. /\ handler[h].at = "merge" /\ UNCHANGED <<trail, started>>
          /\ markers' = Merged(Newest(handler[h].rows, Window))
      BY <1>merge DEF Merge
    <3>2. handler[h].rows \in Nat /\ handler[h].rows <= Len(trail)
      BY <3>1, HandlerIs DEF Dates
    <3> QED
      BY <1>0, <3>1, <3>2
  <2>2. PICK n \in 0..Len(trail) : n = handler[h].rows
    BY <2>1
  <2>3. \A i \in DOMAIN trail : i > n => trail[i].act = "other"
    BY <2>1, <2>2 DEF Calm, HandlerTrue, Right
  <2>4. \A m \in Members : Settled(m)
    BY <1>0, <2>1, OnTurn DEF Settled
  <2>5. ASSUME NEW m \in Members
        PROVE  MarkerTrue(m)'
    <3>1. PICK k : k = Merged(Newest(n, Window))[m]
      OBVIOUS
    <3>2. /\ markers[m].known => True(m, markers[m])
          /\ ~markers[m].known => markers[m] = Unknown /\ NoneHere(m)
      BY <1>0, <2>4 DEF MarkersTrue, MarkerTrue
    <3>3. True(m, k) /\ (~k.known => k = Unknown /\ NoneHere(m))
      BY <2>3, <3>1, <3>2, TrueMerged
    <3>4. True(m, k)' /\ Rows(m, "verified")' = Rows(m, "verified")
      BY <2>1, <3>3, SameRows
    <3>5. NoneHere(m)' = NoneHere(m)
      BY <2>1, <3>4 DEF NoneHere
    <3>6. markers'[m] = k
      BY <2>1, <2>2, <3>1
    <3> QED
      BY <3>3, <3>4, <3>5, <3>6 DEF MarkerTrue
  <2> QED
    BY <2>5 DEF MarkersTrue
<1>ask. ASSUME NEW m \in Members, Verify(m) \/ Review(m) \/ Retire(m) PROVE MarkersTrue'
  <2>1. UNCHANGED <<trail, markers, handler, started>> /\ request.at # "mark"
    BY <1>ask DEF Verify, Review, Retire, Ask, IsFree
  <2> QED
    BY <1>quiet, <2>1
<1>decide. CASE Decide
  BY <1>decide, <1>quiet DEF Decide
<1>active. ASSUME NEW h \in Handlers, NEW m \in Members, Active(h, m) PROVE MarkersTrue'
  <2>1. /\ UNCHANGED <<trail, markers, request, started>> /\ handler[h].at # "mark"
        /\ \A g \in Handlers : g # h => handler'[g] = handler[g]
    BY <1>active, HandlerGoes DEF Active, IsFree
  <2> QED
    BY <1>quiet, <2>1
<1>read. ASSUME NEW h \in Handlers, ReadMarker(h) PROVE MarkersTrue'
  <2>1. UNCHANGED <<trail, markers, request, started>> /\ handler[h].at # "mark"
    BY <1>read DEF ReadMarker
  <2>2. \A g \in Handlers : g # h => handler'[g] = handler[g]
    BY <1>read, Handled DEF Handle
  <2> QED
    BY <1>quiet, <2>1, <2>2
<1>member. ASSUME NEW m \in Members, Disconnect(m) \/ Kick(m) \/ Age(m) PROVE MarkersTrue'
  BY <1>member, <1>quiet DEF Disconnect, Kick, Age
<1>restart. CASE Restart
  <2>1. /\ \A m \in Members : markers'[m] = Unknown
        /\ trail' = trail /\ started' = Len(trail) /\ Len(trail) \in Nat
    BY <1>0, <1>restart DEF Restart
  <2>2. ASSUME NEW m \in Members PROVE NoneHere(m)'
    <3>1. \A v \in Rows(m, "verified")' : v \in DOMAIN trail
      BY <2>1, RowsAre, SameRows
    <3>2. \A v \in DOMAIN trail : v <= Len(trail)
      BY <2>1, RowsAre
    <3> QED
      BY <2>1, <3>1, <3>2 DEF NoneHere
  <2>3. ASSUME NEW m \in Members PROVE MarkerTrue(m)'
    <3>1. markers'[m] = Unknown
      BY <2>1
    <3>2. ~Unknown.known
      BY DEF Unknown
    <3>3. NoneHere(m)'
      BY <2>2
    <3> QED
      BY <3>1, <3>2, <3>3 DEF MarkerTrue
  <2> QED
    BY <2>3 DEF MarkersTrue
<1>stutter. CASE UNCHANGED vars
  BY <1>stutter, <1>quiet DEF vars
<1> QED
  BY <1>ask, <1>decide, <1>insert, <1>mark, <1>active, <1>read, <1>merge, <1>record, <1>written,
     <1>member, <1>other, <1>restart, <1>stutter DEF Next, Handle

LEMMA RequestLasts ==
    ASSUME TypeInv, Dates, Calm, ~crossed', [Next]_vars
    PROVE  RequestTrue'
<1>0. Alone /\ RequestTrue /\ now \in Nat
  BY DEF TypeInv, Calm
<1>free. ASSUME request'.at \in {"free", "read"} PROVE RequestTrue'
  BY <1>free DEF RequestTrue
<1>quiet. ASSUME UNCHANGED <<trail, request, started>> PROVE RequestTrue'
  BY <1>0, <1>quiet, SameRows DEF RequestTrue
<1>decide. CASE Decide
  <2>1. /\ trail' = trail /\ \/ request' = Free
                             \/ /\ now' = now + 1
                                /\ request' = [at |-> "insert", kind |-> request.kind,
                                               member |-> request.member, stamp |-> now']
    BY <1>decide DEF Decide, Tick
  <2>2. CASE request' = Free
    BY <1>free, <2>2 DEF Free
  <2>3. CASE /\ now' = now + 1
             /\ request' = [at |-> "insert", kind |-> request.kind,
                            member |-> request.member, stamp |-> now']
    <3>1. request'.at = "insert" /\ request'.stamp = now + 1
      BY <2>3
    <3>2. \A m : \A x \in Dated(m)' : trail'[x].at < now + 1
      BY <1>0, <2>1, RowsAre, SameRows DEF Dated
    <3> QED
      BY <3>1, <3>2 DEF RequestTrue
  <2> QED
    BY <2>1, <2>2, <2>3
<1>insert. CASE Insert
  <2>1. PICK act \in Operator, m \in Members, stamp \in Nat :
           act = request.kind /\ m = request.member /\ stamp = request.stamp
    BY <1>insert, RequestIs DEF Insert
  <2>2. /\ request.at = "insert" /\ Record(act, m)
        /\ request' = IF act = "verified" THEN [at |-> "mark", kind |-> act, member |-> m, stamp |-> stamp]
                                          ELSE Free
    BY <1>insert, <2>1, RequestIs DEF Insert
  <2>3. CASE act = "verified"
    <3>1. stamp # Never /\ stamp <= now /\ \A x \in Dated(m) : trail[x].at < stamp
      BY <1>0, <2>1, <2>2 DEF RequestTrue, Dates
    <3>2. True(m, Marker(stamp, Never))'
      BY <2>2, <2>3, <3>1, TrueVerified
    <3>3. request'.at = "mark" /\ request'.member = m /\ request'.stamp = stamp
      BY <2>2, <2>3
    <3> QED
      BY <3>2, <3>3 DEF RequestTrue
  <2>4. CASE act # "verified"
    BY <1>free, <2>2, <2>4 DEF Free
  <2> QED
    BY <2>3, <2>4
<1>other. CASE Other
  <2>1. Record("other", None) /\ UNCHANGED <<request, started>>
    BY <1>other DEF Other
  <2>2. /\ [act |-> "other", member |-> None, at |-> now'] \in RowSet
        /\ trail' = Append(trail, [act |-> "other", member |-> None, at |-> now'])
    BY <2>1, RecordTypes
  <2>3. PICK e \in RowSet : e = [act |-> "other", member |-> None, at |-> now']
    BY <2>2
  <2>4. /\ \A m \in Members : \A k : True(m, k) => True(m, k)'
        /\ \A m, a : a # "other" => Rows(m, a)' = Rows(m, a)
        /\ \A i \in DOMAIN trail : trail'[i] = trail[i]
    BY <2>1, <2>2, <2>3, TrueStays, Appended
  <2>5. CASE request.at = "insert"
    <3>1. \A m : \A x \in Dated(m)' : x \in Dated(m) /\ trail'[x] = trail[x]
      BY <2>4, RowsAre DEF Dated
    <3> QED
      BY <1>0, <2>1, <2>5, <3>1 DEF RequestTrue
  <2>6. CASE request.at = "mark"
    BY <1>0, <2>1, <2>4, <2>6, RequestIs DEF RequestTrue
  <2> QED
    BY <1>free, <2>1, <2>5, <2>6, RequestIs
<1>record. ASSUME NEW h \in Handlers, RecordReopened(h) PROVE RequestTrue'
  <2>1. request' = request /\ request.at = "free"
    BY <1>0, <1>record, OnTurn DEF RecordReopened
  <2> QED
    BY <1>free, <2>1
<1>ask. ASSUME NEW m \in Members, Verify(m) \/ Review(m) \/ Retire(m) PROVE RequestTrue'
  BY <1>ask, <1>free DEF Verify, Review, Retire, Ask
<1>mark. CASE Mark
  BY <1>mark, <1>free DEF Mark, Free
<1>active. ASSUME NEW h \in Handlers, NEW m \in Members, Active(h, m) PROVE RequestTrue'
  BY <1>active, <1>quiet DEF Active
<1>handle. ASSUME NEW h \in Handlers, ReadMarker(h) \/ Merge(h) \/ MarkReopened(h)
                 PROVE  RequestTrue'
  BY <1>handle, <1>quiet DEF ReadMarker, Merge, MarkReopened
<1>member. ASSUME NEW m \in Members, Disconnect(m) \/ Kick(m) \/ Age(m) PROVE RequestTrue'
  BY <1>member, <1>quiet DEF Disconnect, Kick, Age
<1>restart. CASE Restart
  BY <1>restart, <1>free DEF Restart, Free
<1>stutter. CASE UNCHANGED vars
  BY <1>stutter, <1>quiet DEF vars
<1> QED
  BY <1>ask, <1>decide, <1>insert, <1>mark, <1>active, <1>handle, <1>record,
     <1>member, <1>other, <1>restart, <1>stutter DEF Next, Handle

LEMMA HandlersLast ==
    ASSUME TypeInv, Dates, Calm, ~crossed', [Next]_vars
    PROVE  HandlerTrue'
<1>0. /\ Alone /\ (\A h \in Handlers : Right(h)) /\ MarkersTrue /\ now \in Nat
      /\ seen \in [Members -> Nat] /\ markers \in [Members -> MarkerSet]
      /\ handler \in [Handlers -> HandlerSet] /\ Len(trail) \in Nat
  BY DEF TypeInv, Calm, HandlerTrue
<1>1. (\A h \in Handlers : Right(h)') => HandlerTrue'
  BY DEF HandlerTrue
<1>free. ASSUME NEW h \in Handlers, handler'[h].at = "free" PROVE Right(h)'
  BY <1>free DEF Right
<1>asks. ASSUME \A h \in Handlers : handler[h].at = "free", handler' = handler PROVE HandlerTrue'
  BY <1>1, <1>asks, <1>free
\* Only the activity of h goes on.
<1>one. ASSUME NEW h \in Handlers, handler[h].at # "free" \/ AllFree, Right(h)',
               \A g \in Handlers : g # h => handler'[g] = handler[g]
        PROVE  HandlerTrue'
  <2>1. \A g \in Handlers : g # h => handler[g].at = "free"
    BY <1>0, <1>one, OnTurn DEF AllFree, IsFree
  <2> QED
    BY <1>1, <1>one, <1>free, <2>1
<1>ask. ASSUME NEW m \in Members, Verify(m) \/ Review(m) \/ Retire(m) PROVE HandlerTrue'
  <2>1. AllFree /\ handler' = handler
    BY <1>ask, Turns DEF Verify, Review, Retire, Ask
  <2> QED
    BY <1>asks, <2>1 DEF AllFree, IsFree
<1>request. CASE Decide \/ Insert \/ Mark
  <2>1. handler' = handler /\ request.at # "free"
    BY <1>request DEF Decide, Insert, Mark
  <2> QED
    BY <1>0, <1>asks, <2>1, OnTurn
<1>active. ASSUME NEW h \in Handlers, NEW m \in Members, Active(h, m) PROVE HandlerTrue'
  <2>1. /\ AllFree /\ trail' = trail /\ now' = now + 1 /\ seen' = [seen EXCEPT ![m] = now']
        /\ handler' = [handler EXCEPT ![h] = [at |-> "marker", member |-> m]]
    BY <1>active, Turns DEF Active, Tick
  <2>2. handler'[h] = [at |-> "marker", member |-> m]
        /\ \A g \in Handlers : g # h => handler'[g] = handler[g]
    BY <1>0, <2>1
  <2>3. \A v \in Rows(m, "verified")' : seen'[m] > trail'[v].at
    <3>1. seen'[m] = now + 1
      BY <1>0, <2>1
    <3> QED
      BY <1>0, <2>1, <3>1, RowsAre, SameRows
  <2>4. Right(h)'
    BY <2>2, <2>3 DEF Right
  <2> QED
    BY <1>one, <2>1, <2>2, <2>4
\* The judgement of a true marker.
<1>judge. ASSUME NEW h \in Handlers,
                 NEW m \in Members, m = handler[h].member, handler[h].at # "free",
                 NEW k \in MarkerSet, True(m, k), Judge(h, m, k), UNCHANGED <<trail, seen, started>>
          PROVE  Right(h)'
  <2>1. CASE handler' = [handler EXCEPT ![h] = Free]
    BY <1>0, <1>free, <2>1 DEF Free
  <2>2. CASE /\ Reopens(m, k)
             /\ handler' = [handler EXCEPT ![h] =
                    [at |-> "insert", member |-> m, verified |-> k.verified, seen |-> seen[m]]]
    <3>1. handler'[h] = [at |-> "insert", member |-> m, verified |-> k.verified, seen |-> seen[m]]
      BY <1>0, <2>2
    <3>2. seen[m] > k.verified
      BY <2>2 DEF Reopens
    <3>3. True(m, Marker(k.verified, Never))'
      BY <1>judge, <2>2, TrueReopens, SameRows
    <3>4. \A v \in Rows(m, "verified")' : seen'[m] > trail'[v].at
      BY <1>0, <1>judge, SameRows DEF Right
    <3> QED
      BY <3>1, <3>2, <3>3, <3>4 DEF Right
  <2> QED
    BY <1>judge, <2>1, <2>2, Judged
<1>read. ASSUME NEW h \in Handlers, ReadMarker(h) PROVE HandlerTrue'
  <2>1. PICK m \in Members : m = handler[h].member
    BY <1>read, HandlerIs DEF ReadMarker
  <2>2. /\ handler[h].at = "marker" /\ UNCHANGED <<trail, seen, markers, started>>
        /\ IF markers[m].known THEN Judge(h, m, markers[m])
           ELSE handler' = [handler EXCEPT ![h] =
                               [at |-> "merge", member |-> m, rows |-> Len(trail)]]
    BY <1>read, <2>1 DEF ReadMarker, members
  <2>3. CASE markers[m].known
    <3>1. Settled(m)
      BY <1>0, <2>2, OnTurn DEF Settled
    <3>2. True(m, markers[m]) /\ markers[m] \in MarkerSet
      BY <1>0, <2>3, <3>1 DEF MarkersTrue, MarkerTrue
    <3> QED
      BY <1>judge, <2>1, <2>2, <2>3, <3>2, <1>one, <1>read, Handled DEF Handle
  <2>4. CASE ~markers[m].known
    <3>1. handler'[h] = [at |-> "merge", member |-> m, rows |-> Len(trail)]
      BY <1>0, <2>2, <2>4
    <3>2. \A v \in Rows(m, "verified")' : seen'[m] > trail'[v].at
      BY <1>0, <2>1, <2>2, SameRows DEF Right
    <3>3. \A i \in DOMAIN trail' : ~(i > Len(trail))
      BY <1>0, <2>2, RowsAre
    <3>4. Right(h)'
      BY <2>2, <2>4, <3>1, <3>2, <3>3 DEF Right
    <3> QED
      BY <2>2, <3>4, <1>one, <1>read, Handled DEF Handle
  <2> QED
    BY <2>3, <2>4
<1>merge. ASSUME NEW h \in Handlers, Merge(h) PROVE HandlerTrue'
  <2>1. PICK m \in Members, n \in 0..Len(trail) : m = handler[h].member /\ n = handler[h].rows
    <3>1. handler[h].at = "merge"
      BY <1>merge DEF Merge
    <3>2. handler[h].rows \in Nat /\ handler[h].rows <= Len(trail) /\ handler[h].member \in Members
      BY <3>1, HandlerIs DEF Dates
    <3> QED
      BY <1>0, <3>2
  <2>2. /\ handler[h].at = "merge" /\ UNCHANGED <<trail, seen, started>>
        /\ Judge(h, m, Merged(Newest(n, Window))[m])
    BY <1>merge, <2>1 DEF Merge, members
  <2>3. /\ \A i \in DOMAIN trail : i > n => trail[i].act = "other"
        /\ ~markers[m].known /\ markers[m] = Unknown /\ NoneHere(m)
    <3>1. Settled(m)
      BY <1>0, <2>2, OnTurn DEF Settled
    <3> QED
      BY <1>0, <2>1, <2>2, <3>1 DEF Right, MarkersTrue, MarkerTrue
  <2>4. PICK k \in MarkerSet : k = Merged(Newest(n, Window))[m]
    BY MergedIsMarkers
  <2>5. True(m, k)
    BY <2>3, <2>4, TrueMerged
  <2>6. Right(h)'
    BY <1>judge, <2>1, <2>2, <2>4, <2>5
  <2> QED
    BY <2>2, <2>6, <1>one, <1>merge, Handled DEF Handle
<1>record. ASSUME NEW h \in Handlers, RecordReopened(h) PROVE HandlerTrue'
  <2>1. PICK m \in Members, v \in Nat, s \in Nat :
           m = handler[h].member /\ v = handler[h].verified /\ s = handler[h].seen
    BY <1>record, HandlerIs DEF RecordReopened
  <2>2. /\ handler[h].at = "insert" /\ Record("reopened", m) /\ seen' = seen
        /\ handler' = [handler EXCEPT ![h] =
                          [at |-> "mark", member |-> m, verified |-> v, seen |-> s]]
    BY <1>record, <2>1, HandlerIs DEF RecordReopened, members
  <2>3. /\ True(m, Marker(v, Never)) /\ s > v /\ v # Never /\ s <= now
        /\ \A x \in Rows(m, "verified") : seen[m] > trail[x].at
    BY <1>0, <2>1, <2>2 DEF Right, Dates
  <2>4. True(m, Marker(v, s))'
    BY <2>2, <2>3, TrueReopened
  <2>5. handler'[h] = [at |-> "mark", member |-> m, verified |-> v, seen |-> s]
    BY <1>0, <2>2
  <2>6. \A x \in Rows(m, "verified")' : seen'[m] > trail'[x].at
    <3>1. /\ Rows(m, "verified")' = Rows(m, "verified")
          /\ \A i \in DOMAIN trail : trail'[i] = trail[i]
      BY <2>2, RecordRows
    <3>2. Rows(m, "verified") \subseteq DOMAIN trail
      BY RowsAre
    <3> QED
      BY <2>2, <2>3, <3>1, <3>2
  <2>7. Right(h)'
    BY <2>3, <2>4, <2>5, <2>6 DEF Right
  <2> QED
    BY <2>2, <2>7, <1>one, <1>record, Handled DEF Handle
<1>written. ASSUME NEW h \in Handlers, MarkReopened(h) PROVE HandlerTrue'
  <2>1. handler[h].at # "free" /\ handler' = [handler EXCEPT ![h] = Free]
    BY <1>written DEF MarkReopened
  <2>2. handler'[h].at = "free"
    BY <1>0, <2>1 DEF Free
  <2> QED
    BY <2>1, <2>2, <1>free, <1>one, <1>written, Handled DEF Handle
<1>quiet. ASSUME UNCHANGED <<trail, seen, markers, handler, started>> PROVE HandlerTrue'
  BY <1>0, <1>1, <1>quiet, SameRows DEF Right
<1>member. ASSUME NEW m \in Members, Disconnect(m) \/ Kick(m) \/ Age(m) PROVE HandlerTrue'
  BY <1>member, <1>quiet DEF Disconnect, Kick, Age
<1>other. CASE Other
  <2>1. Record("other", None) /\ UNCHANGED <<seen, markers, handler, started>>
    BY <1>other DEF Other, members
  <2>2. /\ [act |-> "other", member |-> None, at |-> now'] \in RowSet
        /\ trail' = Append(trail, [act |-> "other", member |-> None, at |-> now'])
    BY <2>1, RecordTypes
  <2>3. PICK e \in RowSet : e = [act |-> "other", member |-> None, at |-> now']
    BY <2>2
  <2>4. \A m \in Members : \A k : True(m, k) => True(m, k)'
    BY <2>1, <2>2, <2>3, TrueStays
  <2>5. /\ \A m : Rows(m, "verified")' = Rows(m, "verified")
        /\ \A i \in DOMAIN trail : trail'[i] = trail[i]
        /\ \A i \in DOMAIN trail' : i \in DOMAIN trail \/ trail'[i].act = "other"
    BY <2>1, RecordRows
  <2>6. ASSUME NEW h \in Handlers PROVE Right(h)'
    <3>1. CASE handler[h].at = "free"
      BY <1>free, <2>1, <3>1
    <3>2. CASE handler[h].at # "free"
      <4>1. PICK m \in Members : m = handler[h].member
        BY <3>2, HandlerIs
      <4>2. \A v \in Rows(m, "verified")' : seen'[m] > trail'[v].at
        <5>1. \A v \in Rows(m, "verified") : seen[m] > trail[v].at /\ v \in DOMAIN trail
          BY <1>0, <3>2, <4>1, RowsAre DEF Right
        <5> QED
          BY <2>1, <2>5, <5>1
      <4>3. handler[h].at = "merge" => \A i \in DOMAIN trail' : i > handler[h].rows => trail'[i].act = "other"
        BY <1>0, <2>5 DEF Right
      <4>4. handler[h].at = "insert" => True(m, Marker(handler[h].verified, Never))
        BY <1>0, <4>1 DEF Right
      <4>5. handler[h].at = "mark" => True(m, Marker(handler[h].verified, handler[h].seen))
        BY <1>0, <4>1 DEF Right
      <4>6. PICK a : a = handler[h]
        OBVIOUS
      <4>7. /\ a.at = "insert" => True(m, Marker(a.verified, Never))'
            /\ a.at = "mark" => True(m, Marker(a.verified, a.seen))'
        BY <2>4, <4>4, <4>5, <4>6
      <4>8. handler'[h] = a
        BY <2>1, <4>6
      <4> QED
        BY <1>0, <2>1, <4>1, <4>2, <4>3, <4>6, <4>7, <4>8 DEF Right
    <3> QED
      BY <3>1, <3>2
  <2> QED
    BY <1>1, <2>6
<1>restart. CASE Restart
  <2>1. \A h \in Handlers : handler'[h].at = "free"
    BY <1>restart DEF Restart, Free
  <2> QED
    BY <1>1, <1>free, <2>1
<1>stutter. CASE UNCHANGED vars
  BY <1>stutter, <1>quiet DEF vars, members
<1> QED
  BY <1>ask, <1>request, <1>active, <1>read, <1>merge, <1>record, <1>written,
     <1>member, <1>other, <1>restart, <1>stutter DEF Next, Handle

\* A marker that reopens nothing, of a member seen since the verifications,
\* says that the reopening of those due is on record.
LEMMA JudgedTold ==
    ASSUME TypeInv, Dates, NEW m \in Members, NEW k \in MarkerSet, True(m, k), ~Reopens(m, k),
           \A v \in Rows(m, "verified") : seen[m] > trail[v].at
    PROVE  \A v \in Rows(m, "verified") : Due(v) => \E r \in Rows(m, "reopened") : r > v
<1> SUFFICES ASSUME NEW v \in Rows(m, "verified"), Due(v)
             PROVE  \E r \in Rows(m, "reopened") : r > v
  OBVIOUS
<1>1. /\ k.verified \in Nat /\ k.reopened \in Nat /\ seen[m] \in Nat
      /\ \A a : \A i \in Rows(m, a) : i \in Nat /\ trail[i].at \in Nat
  BY RowsAre DEF MarkerSet, TypeInv
<1>2. k.verified # Never
  BY DEF True
<1>3. PICK w \in Rows(m, "verified") :
         /\ v <= w /\ k.verified <= trail[w].at
         /\ k.reopened >= k.verified <=> \E r \in Rows(m, "reopened") : r > w
  BY <1>2 DEF True
<1>4. seen[m] > k.verified
  BY <1>1, <1>3
<1>5. k.reopened >= k.verified
  BY <1>1, <1>2, <1>4 DEF Reopens, Never
<1>6. PICK r \in Rows(m, "reopened") : r > w
  BY <1>3, <1>5
<1> QED
  BY <1>1, <1>3, <1>6

\* The members whose activity is under way, and whose reopening is not told.
Busy(m) == \E h \in Handlers : handler[h].at # "free" /\ handler[h].member = m
Untold(m) ==
    status[m] = "connected" /\ \E v \in Rows(m, "verified") :
        Due(v) /\ seen[m] > trail[v].at /\ ~\E r \in Rows(m, "reopened") : r > v

LEMMA ToldIs == Told <=> \A m \in Members : Untold(m) => Busy(m)
  BY DEF Told, Untold, Busy

LEMMA ToldLasts ==
    ASSUME TypeInv, Dates, Calm, ~crossed', [Next]_vars
    PROVE  Told'
<1>0. /\ Alone /\ (\A m \in Members : Untold(m) => Busy(m)) /\ MarkersTrue
      /\ (\A h \in Handlers : Right(h)) /\ now \in Nat
      /\ seen \in [Members -> Nat] /\ markers \in [Members -> MarkerSet]
      /\ status \in [Members -> {"connected", "disconnected", "kicked"}]
      /\ handler \in [Handlers -> HandlerSet] /\ Len(trail) \in Nat /\ Window \in Nat
  BY ToldIs, WipeAssumption DEF TypeInv, Calm, HandlerTrue
<1>1. (\A m \in Members : Untold(m)' => Busy(m)') => Told'
  BY DEF Told, Untold, Busy
<1>same. ASSUME NEW m \in Members, UNCHANGED <<trail, started>>, seen'[m] = seen[m],
                status'[m] = "connected" => status[m] = "connected", Untold(m)'
         PROVE  Untold(m)
  BY <1>same, SameRows DEF Untold
\* A row changes nothing for those it does not verify.
<1>row. ASSUME NEW act \in Operator \cup {"reopened", "other"}, NEW n \in Members \cup {None},
               act = "other" \/ n \in Members, Record(act, n), UNCHANGED <<members, started>>,
               NEW m \in Members, Untold(m)'
        PROVE  Untold(m)
  <2> DEFINE l == Len(trail) + 1
  <2>1. /\ \A p, a : Rows(p, a)' = IF p = n /\ a = act THEN Rows(p, a) \cup {l} ELSE Rows(p, a)
        /\ \A i \in DOMAIN trail : trail'[i] = trail[i] /\ i \in Nat /\ i < l
        /\ trail'[l].at = now' /\ Len(trail') = l /\ now' = now + 1
    BY <1>row, RecordRows
  <2>2. PICK v \in Rows(m, "verified")' :
           Due(v)' /\ seen'[m] > trail'[v].at /\ ~\E r \in Rows(m, "reopened")' : r > v
    BY <1>row DEF Untold
  <2>3. seen'[m] = seen[m] /\ status'[m] = status[m] /\ seen[m] <= now /\ seen[m] \in Nat
    BY <1>0, <1>row DEF members, Dates
  <2>4. v # l
    BY <1>0, <2>1, <2>2, <2>3
  <2>5. v \in Rows(m, "verified") /\ v \in DOMAIN trail
    BY <2>1, <2>4, RowsAre
  <2>6. Due(v)
    BY <1>0, <1>row, <2>1, <2>2, <2>5 DEF Due, InWindow
  <2>7. seen[m] > trail[v].at
    BY <2>1, <2>2, <2>3, <2>5
  <2>8. ~\E r \in Rows(m, "reopened") : r > v
    BY <2>1, <2>2
  <2> QED
    BY <1>row, <2>3, <2>5, <2>6, <2>7, <2>8 DEF Untold
<1>asks. ASSUME handler' = handler, \A m \in Members : Untold(m)' => Untold(m) PROVE Told'
  BY <1>0, <1>1, <1>asks DEF Busy
\* Only the activity of h, about n, goes on.
<1>one. ASSUME NEW h \in Handlers, NEW n \in Members, handler[h].at # "free", n = handler[h].member,
               \A g \in Handlers : g # h => handler'[g] = handler[g],
               \A m \in Members : Untold(m)' => Untold(m),
               (handler'[h].at # "free" /\ handler'[h].member = n) \/ ~Untold(n)'
        PROVE  Told'
  <2>1. ASSUME NEW m \in Members, Untold(m)' PROVE Busy(m)'
    <3>1. PICK g \in Handlers : handler[g].at # "free" /\ handler[g].member = m
      BY <1>0, <1>one, <2>1 DEF Busy
    <3>2. g = h /\ m = n
      BY <1>0, <1>one, <3>1, OnTurn
    <3> QED
      BY <1>one, <2>1, <3>2 DEF Busy
  <2> QED
    BY <1>1, <2>1
<1>active. ASSUME NEW h \in Handlers, NEW m \in Members, Active(h, m) PROVE Told'
  <2>1. /\ AllFree /\ UNCHANGED <<trail, started>> /\ seen' = [seen EXCEPT ![m] = now']
        /\ status' = [status EXCEPT ![m] = "connected"]
        /\ handler' = [handler EXCEPT ![h] = [at |-> "marker", member |-> m]]
    BY <1>active, Turns DEF Active
  <2>2. handler'[h] = [at |-> "marker", member |-> m]
    BY <1>0, <2>1
  <2>3. Busy(m)'
    BY <2>2 DEF Busy
  <2>4. ASSUME NEW n \in Members, n # m PROVE ~Untold(n)'
    <3>1. ~Untold(n)
      BY <1>0, <2>1 DEF Busy, AllFree, IsFree
    <3>2. seen'[n] = seen[n] /\ status'[n] = status[n]
      BY <1>0, <2>1, <2>4
    <3> QED
      BY <1>same, <2>1, <3>1, <3>2
  <2> QED
    BY <1>1, <2>3, <2>4
\* The judgement of a true marker ends an activity only if all is told.
<1>judge. ASSUME NEW h \in Handlers,
                 NEW m \in Members, m = handler[h].member, handler[h].at # "free",
                 NEW k \in MarkerSet, True(m, k), Judge(h, m, k), UNCHANGED <<trail, members, started>>,
                 \A g \in Handlers : g # h => handler'[g] = handler[g]
          PROVE  Told'
  <2>1. \A n \in Members : Untold(n)' => Untold(n)
    BY <1>judge, <1>same DEF members
  <2>2. CASE Reopens(m, k)
    <3>1. handler' = [handler EXCEPT ![h] =
                        [at |-> "insert", member |-> m, verified |-> k.verified, seen |-> seen[m]]]
      BY <1>judge, <2>2, Judged
    <3>2. handler'[h] = [at |-> "insert", member |-> m, verified |-> k.verified, seen |-> seen[m]]
      BY <1>0, <3>1
    <3>3. handler'[h].at # "free" /\ handler'[h].member = m
      BY <3>2
    <3> QED
      BY <1>judge, <1>one, <2>1, <3>3
  <2>3. CASE ~Reopens(m, k)
    <3>1. \A v \in Rows(m, "verified") : seen[m] > trail[v].at
      BY <1>0, <1>judge DEF Right
    <3>2. ~Untold(m)
      BY <1>judge, <2>3, <3>1, JudgedTold DEF Untold
    <3> QED
      BY <1>judge, <1>one, <2>1, <3>2
  <2> QED
    BY <2>2, <2>3
<1>read. ASSUME NEW h \in Handlers, ReadMarker(h) PROVE Told'
  <2>1. PICK m \in Members : m = handler[h].member
    BY <1>read, HandlerIs DEF ReadMarker
  <2>2. /\ handler[h].at = "marker" /\ UNCHANGED <<trail, members, markers, started>>
        /\ IF markers[m].known THEN Judge(h, m, markers[m])
           ELSE handler' = [handler EXCEPT ![h] =
                               [at |-> "merge", member |-> m, rows |-> Len(trail)]]
    BY <1>read, <2>1 DEF ReadMarker
  <2>3. \A g \in Handlers : g # h => handler'[g] = handler[g]
    BY <1>read, Handled DEF Handle
  <2>4. CASE markers[m].known
    <3>1. Settled(m)
      BY <1>0, <2>2, OnTurn DEF Settled
    <3>2. True(m, markers[m]) /\ markers[m] \in MarkerSet
      BY <1>0, <2>4, <3>1 DEF MarkersTrue, MarkerTrue
    <3> QED
      BY <1>judge, <2>1, <2>2, <2>3, <2>4, <3>2
  <2>5. CASE ~markers[m].known
    <3>1. handler'[h] = [at |-> "merge", member |-> m, rows |-> Len(trail)]
      BY <1>0, <2>2, <2>5
    <3>2. \A n \in Members : Untold(n)' => Untold(n)
      BY <2>2, <1>same DEF members
    <3> QED
      BY <1>one, <2>1, <2>2, <2>3, <3>1, <3>2
  <2> QED
    BY <2>4, <2>5
<1>merge. ASSUME NEW h \in Handlers, Merge(h) PROVE Told'
  <2>1. PICK m \in Members, n \in 0..Len(trail) : m = handler[h].member /\ n = handler[h].rows
    <3>1. handler[h].at = "merge"
      BY <1>merge DEF Merge
    <3>2. handler[h].rows \in Nat /\ handler[h].rows <= Len(trail) /\ handler[h].member \in Members
      BY <3>1, HandlerIs DEF Dates
    <3> QED
      BY <1>0, <3>2
  <2>2. /\ handler[h].at = "merge" /\ UNCHANGED <<trail, members, started>>
        /\ Judge(h, m, Merged(Newest(n, Window))[m])
    BY <1>merge, <2>1 DEF Merge
  <2>3. /\ \A i \in DOMAIN trail : i > n => trail[i].act = "other"
        /\ ~markers[m].known /\ markers[m] = Unknown /\ NoneHere(m)
    <3>1. Settled(m)
      BY <1>0, <2>2, OnTurn DEF Settled
    <3> QED
      BY <1>0, <2>1, <2>2, <3>1 DEF Right, MarkersTrue, MarkerTrue
  <2>4. PICK k \in MarkerSet : k = Merged(Newest(n, Window))[m]
    BY MergedIsMarkers
  <2>5. True(m, k)
    BY <2>3, <2>4, TrueMerged
  <2>6. \A g \in Handlers : g # h => handler'[g] = handler[g]
    BY <1>merge, Handled DEF Handle
  <2> QED
    BY <1>judge, <2>1, <2>2, <2>4, <2>5, <2>6
<1>record. ASSUME NEW h \in Handlers, RecordReopened(h) PROVE Told'
  <2>1. PICK m \in Members : m = handler[h].member
    BY <1>record, HandlerIs DEF RecordReopened
  <2>2. /\ handler[h].at = "insert" /\ Record("reopened", m) /\ UNCHANGED <<members, started>>
        /\ handler' = [handler EXCEPT ![h].at = "mark"]
    BY <1>record, <2>1 DEF RecordReopened
  <2>3. handler'[h].at # "free" /\ handler'[h].member = m
    BY <1>0, <2>1, <2>2, HandlerIs
  <2>4. \A n \in Members : Untold(n)' => Untold(n)
    BY <1>row, <2>2
  <2> QED
    BY <1>one, <1>record, <2>1, <2>2, <2>3, <2>4, Handled DEF Handle
<1>written. ASSUME NEW h \in Handlers, MarkReopened(h) PROVE Told'
  <2>1. PICK m \in Members, v \in Nat, s \in Nat :
           m = handler[h].member /\ v = handler[h].verified /\ s = handler[h].seen
    BY <1>written, HandlerIs DEF MarkReopened
  <2>2. handler[h].at = "mark" /\ UNCHANGED <<trail, members, started>>
    BY <1>written DEF MarkReopened
  <2>3. /\ True(m, Marker(v, s)) /\ s > v /\ \A x \in Rows(m, "verified") : seen[m] > trail[x].at
    BY <1>0, <2>1, <2>2 DEF Right
  <2>4. ~Reopens(m, Marker(v, s))
    BY <2>3, MarkersAre DEF Reopens, Never
  <2>5. ~Untold(m)
    BY <2>3, <2>4, JudgedTold, MarkersAre DEF Untold
  <2>6. \A n \in Members : Untold(n)' => Untold(n)
    BY <2>2, <1>same DEF members
  <2> QED
    BY <1>one, <1>written, <2>1, <2>2, <2>5, <2>6, Handled DEF Handle
<1>quiet. ASSUME UNCHANGED <<trail, members, handler, started>> PROVE Told'
  BY <1>quiet, <1>asks, <1>same DEF members
<1>ask. ASSUME NEW m \in Members, Verify(m) \/ Review(m) \/ Retire(m) PROVE Told'
  BY <1>ask, <1>quiet DEF Verify, Review, Retire, Ask
<1>request. CASE Decide \/ Mark
  BY <1>request, <1>quiet DEF Decide, Mark
<1>insert. CASE Insert
  <2>1. PICK act \in Operator, m \in Members : act = request.kind /\ m = request.member
    BY <1>insert, RequestIs DEF Insert
  <2>2. Record(act, m) /\ UNCHANGED <<members, handler, started>>
    BY <1>insert, <2>1 DEF Insert
  <2> QED
    BY <1>asks, <1>row, <2>2
<1>other. CASE Other
  <2>1. Record("other", None) /\ UNCHANGED <<members, handler, started>>
    BY <1>other DEF Other
  <2> QED
    BY <1>asks, <1>row, <2>1
<1>member. ASSUME NEW n \in Members, Disconnect(n) \/ Kick(n) \/ Age(n) PROVE Told'
  <2>1. /\ UNCHANGED <<trail, seen, handler, started>>
        /\ \A m \in Members : status'[m] = "connected" => status[m] = "connected"
    BY <1>0, <1>member DEF Disconnect, Kick, Age
  <2> QED
    BY <1>asks, <1>same, <2>1
<1>restart. CASE Restart
  <2>1. \A m \in Members : status'[m] # "connected"
    BY <1>0, <1>restart DEF Restart
  <2> QED
    BY <1>1, <2>1 DEF Untold
<1>stutter. CASE UNCHANGED vars
  BY <1>stutter, <1>quiet DEF vars, members
<1> QED
  BY <1>ask, <1>request, <1>insert, <1>active, <1>read, <1>merge, <1>record, <1>written,
     <1>member, <1>other, <1>restart, <1>stutter DEF Next, Handle

-----------------------------------------------------------------------------
LEMMA InvBegins == Init => IInv
<1> SUFFICES ASSUME Init PROVE IInv
  OBVIOUS
<1>1. TypeInv /\ Dates
  BY TypesBegin
<1>2. \A m, act : Rows(m, act) = {}
  BY DEF Init, Rows
<1>3. \A h \in Handlers : handler[h].at = "free"
  BY DEF Init, Free
<1>4. request.at = "free"
  BY DEF Init, Free
<1>5. MarkersTrue
  BY <1>2 DEF Init, MarkersTrue, MarkerTrue, NoneHere, Unknown
<1>6. Alone /\ Once /\ SeenSince /\ RequestTrue /\ HandlerTrue /\ Told
  BY <1>2, <1>3, <1>4 DEF Alone, Once, SeenSince, RequestTrue, HandlerTrue, Right, Told
<1> QED
  BY <1>1, <1>5, <1>6 DEF IInv, Calm

LEMMA InvLasts == IInv /\ [Next]_vars => IInv'
<1> SUFFICES ASSUME IInv, [Next]_vars PROVE IInv'
  OBVIOUS
<1>1. TypeInv /\ Dates /\ TypeInv' /\ Dates'
  BY TypesLast DEF IInv
<1>2. ASSUME ~crossed' PROVE Calm'
  <2>1. Calm
    BY <1>1, <1>2, CrossedStays DEF IInv
  <2>2. Alone
    BY <2>1 DEF Calm
  <2>3. Alone' /\ Once' /\ SeenSince' /\ MarkersTrue' /\ RequestTrue' /\ HandlerTrue' /\ Told'
    BY <1>1, <1>2, <2>1, <2>2, AloneLasts, RowsLast, MarkersLast, RequestLasts, HandlersLast,
       ToldLasts
  <2> QED
    BY <2>3 DEF Calm
<1> QED
  BY <1>1, <1>2 DEF IInv

LEMMA InvHolds == Spec => []IInv
  BY InvBegins, InvLasts, PTL DEF Spec

\* Between two verifications of a member its reopening is recorded once, however
\* often the hub restarts and whatever rows have left the window.
THEOREM ReopensOnce == Spec => []ReopenedOnce
<1>1. IInv => ReopenedOnce
  BY DEF IInv, Calm, Once, ReopenedOnce
<1> QED
  BY <1>1, InvHolds, PTL

\* When nothing is under way, the reopening of a connected member active since
\* this hub verified it is on record; of a verification of an earlier hub, while
\* it is in the window, if rows are decoded.
THEOREM ReopeningIsTold == Spec => []ReopenTold
<1>1. IInv => ReopenTold
  BY DEF IInv, Calm, Told, ReopenTold, AllFree, IsFree
<1> QED
  BY <1>1, InvHolds, PTL
=============================================================================
