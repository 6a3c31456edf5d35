----------------------------- MODULE MCLive_proofs -----------------------------
(* What holds of notes on their way, of positions and of the dashboard's signal  *)
(* for any numbers of notes, connections, members and streams.                   *)
EXTENDS MCLive, FiniteSetTheorems, SequenceTheorems, WellFoundedInduction, TLAPS

-----------------------------------------------------------------------------
(* The composition.                                                        *)

\* Each part moves as its component does, or stands still.
LEMMA Composed ==
    AllSpec => Spec /\ Located!Spec /\ Signals!Init /\ [][Signals!Next]_(Signals!vars)
<1>1. AllInit => Init /\ Located!Init /\ Signals!Init
  BY DEF AllInit
<1>2. [AllNext]_all =>
        [Next]_vars /\ [Located!Next]_(Located!vars) /\ [Signals!Next]_(Signals!vars)
  BY DEF AllNext, all, locationVars, signalVars, Located!vars, Signals!vars
<1> QED
  BY <1>1, <1>2, PTL DEF AllSpec, Spec, Located!Spec

-----------------------------------------------------------------------------
(* The delivery of notes keeps a ReportLog.                                *)

Recorded == {r \in Reports : events[r] > 0}

\* What may be asked of the store: a note that is put back is one that was
\* kept, one that is deleted has been recorded or discarded, or its session ends.
GoodRequests ==
  {q \in [by : {"add", "flush", "ack", "retry", "discard", "clear", "refresh"},
          op : {"look", "put", "prune", "list", "delete"}, of : Reports \cup {NoReport}] :
     /\ q.by = "add" => q.of \in 1..wrote
     /\ q.by = "flush" /\ q.op = "put" => q.of \in kept
     /\ q.by = "ack" => q.of \in Recorded
     /\ q.by = "retry" => q.of \in kept
     /\ q.by = "discard" => q.of \in discarded
     /\ q.by = "clear" => session = "leaving"}

Steps == {"free", "auth", "receive", "look", "store", "answer"}
Heard == Recorded \cup {AuthOk, SessionOver}

NoteTypes ==
  /\ wrote \in 0..NReports
  /\ box \subseteq kept /\ kept \subseteq 1..wrote /\ discarded \subseteq kept
  /\ requests \in Seq(GoodRequests)
  /\ inFlight \in kept \cup {NoReport}
  /\ sock \in Sockets \cup {NoSocket}
  /\ session \in {"member", "told", "leaving"}
  /\ doomed \subseteq kept
  /\ old \in Nat /\ over \in Nat
  /\ up \in [Sockets -> BOOLEAN]
  /\ wire \in [Sockets -> Seq(kept)]
  /\ back \in [Sockets -> Seq(Heard)]
  /\ pc \in [Sockets -> Steps]
  /\ handling \in [Sockets -> kept \cup {NoReport}]
  /\ saw \in [Sockets -> BOOLEAN]
  /\ receipts \subseteq Recorded /\ Recorded \subseteq kept
  /\ events \in [Reports -> Nat]

\* A receipt has its event; what a handler has seen or stored is
\* there; and a kept note leaves the store only recorded, discarded or with its
\* session.
NotesInv ==
  /\ old <= over /\ over <= wrote
  /\ session = "leaving" => over = wrote
  /\ doomed \subseteq 1..over
  /\ \A s \in Sockets : pc[s] \in {"look", "store", "answer"} => handling[s] # NoReport
  /\ \A s \in Sockets : saw[s] => pc[s] \in {"store", "answer"}
  /\ \A s \in Sockets : pc[s] = "store" /\ saw[s] => handling[s] \in receipts
  /\ \A s \in Sockets : pc[s] = "answer" => handling[s] \in Recorded
  /\ kept \subseteq box \cup discarded \cup Recorded \cup 1..over

\* flush() takes the oldest note.
LEMMA OldestIsThere == \A S \in SUBSET Nat : S # {} => Min(S) \in S
<1> SUFFICES ASSUME NEW S \in SUBSET Nat, S # {} PROVE \E x \in S : \A y \in S : x <= y
  BY DEF Min
<1>1. PICK x \in S : \A y \in S : ~(<<y, x>> \in OpToRel(<, Nat))
  BY NatLessThanWellFounded, WFMin
<1>2. \A y \in S : ~(y < x)
  BY <1>1 DEF OpToRel
<1> QED
  BY <1>2

LEMMA PrefixesAreSeqs ==
    ASSUME NEW S, NEW s \in Seq(S), NEW q \in Prefixes(s)
    PROVE  q \in Seq(S)
<1>1. PICK l \in 0..Len(s) : q = SubSeq(s, 1, l)
  BY DEF Prefixes
<1>2. \A i \in 1..l : s[i] \in S
  BY <1>1
<1> QED
  BY <1>1, <1>2, SubSeqProperties

\* What was asked stays right to ask.
LEMMA RequestsGrow ==
    ASSUME kept \subseteq kept', Recorded \subseteq Recorded', discarded \subseteq discarded',
           1..wrote \subseteq 1..(wrote'), session = "leaving" => session' = "leaving"
    PROVE  GoodRequests \subseteq GoodRequests' /\ Seq(GoodRequests) \subseteq Seq(GoodRequests')
<1>1. GoodRequests \subseteq GoodRequests'
  BY DEF GoodRequests
<1> QED
  BY <1>1, SeqMonotonic

LEMMA FlushIsGood ==
    ASSUME NEW G, NEW q \in Seq(G), NEW canSend, NEW flying,
           Ask("flush", "look", NoReport) \in G, Ask("flush", "prune", NoReport) \in G
    PROVE  Flush(q, canSend, flying) \in Seq(G)
BY DEF Flush

NoteInv == NoteTypes /\ NotesInv

\* The caller that is answered, and what it asks next.
LEMMA AnsweredIsGood ==
    ASSUME NoteTypes, NEW by, NEW op, Answers(by, op)
    PROVE  /\ requests # <<>> /\ Tail(requests) \in Seq(GoodRequests)
           /\ Answered \in Reports \cup {NoReport}
           /\ by = "add" => Answered \in 1..wrote
           /\ by = "flush" /\ op = "put" => Answered \in kept
           /\ by = "ack" => Answered \in Recorded
           /\ by = "retry" => Answered \in kept
           /\ by = "discard" => Answered \in discarded
           /\ by = "clear" => session = "leaving"
<1>1. requests # <<>> /\ Head(requests).by = by /\ Head(requests).op = op
  BY DEF Answers
<1>2. Head(requests) \in GoodRequests /\ Tail(requests) \in Seq(GoodRequests)
  BY <1>1 DEF NoteTypes
<1> QED
  BY <1>1, <1>2 DEF GoodRequests, Answered

LEMMA AskIsGood ==
    ASSUME NEW by \in {"add", "flush", "ack", "retry", "discard", "clear", "refresh"},
           NEW op \in {"look", "put", "prune", "list", "delete"}, NEW r \in Reports \cup {NoReport},
           by = "add" => r \in 1..wrote, by = "flush" /\ op = "put" => r \in kept,
           by = "ack" => r \in Recorded, by = "retry" => r \in kept,
           by = "discard" => r \in discarded, by = "clear" => session = "leaving"
    PROVE  Ask(by, op, r) \in GoodRequests
BY DEF Ask, GoodRequests

\* The steps of the outbox.
LEMMA OutboxKeeps == NoteInv /\ Outbox => NoteInv'
<1> SUFFICES ASSUME NoteInv, Outbox PROVE NoteInv'
  OBVIOUS
<1> USE DEF linkVars, hubVars, dbVars, history, connVars, Goes, Returns
<1>types. NoteTypes
  BY DEF NoteInv
<1>written. kept \subseteq Reports
  BY <1>types, ConstantsOK DEF NoteTypes, Reports
\* The store changes, and what is asked of it.
<1>page. ASSUME box' \subseteq kept,
                kept \subseteq box' \cup discarded \cup Recorded \cup 1..over,
                requests' \in Seq(GoodRequests), inFlight' \in kept \cup {NoReport},
                wire' \in [Sockets -> Seq(kept)], doomed' \subseteq kept, doomed' \subseteq 1..over,
                UNCHANGED <<wrote, sock, session, old, up, back, hubVars, dbVars, kept,
                            discarded, over>>
         PROVE  NoteInv'
  <2>1. GoodRequests' = GoodRequests /\ Recorded' = Recorded /\ Heard' = Heard
    BY <1>page DEF GoodRequests, Recorded, Heard
  <2>2. NoteTypes'
    BY <1>page, <1>types, <2>1 DEF NoteTypes
  <2>3. NotesInv'
    BY <1>page, <2>1 DEF NoteInv, NotesInv
  <2> QED
    BY <2>2, <2>3 DEF NoteInv
\* The caller goes on, and nothing else changes.
<1>on. ASSUME requests' \in Seq(GoodRequests),
              UNCHANGED <<wrote, box, inFlight, connVars, linkVars, hubVars, dbVars, history>>
       PROVE  NoteInv'
  BY <1>on, <1>types, <1>page DEF NoteInv, NoteTypes, NotesInv
<1>look. Ask("flush", "look", NoReport) \in GoodRequests
  BY AskIsGood
<1>prune. Ask("flush", "prune", NoReport) \in GoodRequests
  BY AskIsGood
<1>write. CASE Write
  <2>1. /\ wrote < NReports /\ wrote' = wrote + 1
        /\ requests' = Append(requests, Ask("add", "look", wrote'))
        /\ over' = IF session = "leaving" THEN wrote' ELSE over
        /\ UNCHANGED <<box, inFlight, connVars, linkVars, hubVars, dbVars, kept, discarded>>
    BY <1>write DEF Write
  <2>2. /\ wrote \in Nat /\ over \in Nat /\ old \in Nat /\ wrote' \in 0..NReports
        /\ old <= over /\ over <= wrote
    BY <2>1, <1>types, ConstantsOK DEF NoteTypes, NoteInv, NotesInv
  <2>3. /\ 1..wrote \subseteq 1..(wrote') /\ wrote' \in 1..(wrote') /\ wrote' \in Reports
        /\ over' \in Nat /\ over <= over' /\ over' <= wrote' /\ 1..over \subseteq 1..(over')
    BY <2>1, <2>2 DEF Reports
  <2>4. Recorded' = Recorded /\ Heard' = Heard
    BY <2>1 DEF Recorded, Heard
  <2>5. Seq(GoodRequests) \subseteq Seq(GoodRequests')
    BY <2>1, <2>3, <2>4, RequestsGrow
  <2>6. Ask("add", "look", wrote') \in GoodRequests'
    BY <2>1, <2>3 DEF Ask, GoodRequests
  <2>7. requests' \in Seq(GoodRequests')
    BY <1>types, <2>1, <2>5, <2>6 DEF NoteTypes
  <2>8. NoteTypes'
    BY <1>types, <2>1, <2>2, <2>3, <2>4, <2>7 DEF NoteTypes
  <2>9. NotesInv'
    BY <2>1, <2>2, <2>3, <2>4 DEF NoteInv, NotesInv
  <2> QED
    BY <2>8, <2>9 DEF NoteInv
<1>addlook. CASE AddLook
  <2>1. Tail(requests) \in Seq(GoodRequests) /\ Answered \in 1..wrote /\ Answered \in Reports \cup {NoReport}
    BY <1>addlook, <1>types, AnsweredIsGood DEF AddLook
  <2>2. Ask("add", "put", Answered) \in GoodRequests
    BY <2>1, AskIsGood
  <2> QED
    BY <1>addlook, <1>on, <2>1, <2>2 DEF AddLook
<1>addput. CASE AddPut
  <2>1. /\ Tail(requests) \in Seq(GoodRequests)
        /\ Answered \in 1..wrote /\ Answered \in Reports \cup {NoReport}
    BY <1>addput, <1>types, AnsweredIsGood DEF AddPut
  <2>2. /\ box' = box \cup {Answered} /\ kept' = kept \cup {Answered}
        /\ requests' = Append(Tail(requests), Ask("add", "prune", Answered))
        /\ UNCHANGED <<wrote, inFlight, connVars, linkVars, hubVars, dbVars, discarded, over>>
    BY <1>addput DEF AddPut
  <2>3. Recorded' = Recorded /\ Heard' = Heard
    BY <2>2 DEF Recorded, Heard
  <2>4. GoodRequests \subseteq GoodRequests' /\ Seq(GoodRequests) \subseteq Seq(GoodRequests')
    BY <2>2, <2>3, RequestsGrow
  <2>5. Ask("add", "prune", Answered) \in GoodRequests
    BY <2>1, AskIsGood
  <2>6. requests' \in Seq(GoodRequests')
    BY <2>1, <2>2, <2>4, <2>5
  <2>7. wire' \in [Sockets -> Seq(kept')]
    <3>1. Seq(kept) \subseteq Seq(kept')
      BY <2>2, SeqMonotonic
    <3> QED
      BY <2>2, <3>1, <1>types DEF NoteTypes
  <2>8. NoteTypes'
    BY <1>types, <2>1, <2>2, <2>3, <2>6, <2>7 DEF NoteTypes
  <2>9. NotesInv'
    BY <2>2, <2>3 DEF NoteInv, NotesInv
  <2> QED
    BY <2>8, <2>9 DEF NoteInv
<1>refresh. CASE Prune
  <2>1. PICK by \in {"flush", "add", "ack", "refresh"} :
               Answers(by, "prune") /\ Goes(by, "list", Answered)
    BY <1>refresh DEF Prune
  <2>2. Tail(requests) \in Seq(GoodRequests) /\ Ask(by, "list", Answered) \in GoodRequests
    BY <2>1, <1>types, AnsweredIsGood, AskIsGood
  <2>3. /\ box' = box \ 1..old
        /\ UNCHANGED <<wrote, inFlight, connVars, linkVars, hubVars, dbVars, history>>
    BY <1>refresh DEF Prune, Entries
  <2>4. requests' \in Seq(GoodRequests)
    BY <2>1, <2>2
  <2>5. kept \subseteq box' \cup discarded \cup Recorded \cup 1..over
    BY <2>3, <1>types DEF NoteInv, NotesInv, NoteTypes
  <2> QED
    BY <1>page, <1>types, <2>3, <2>4, <2>5 DEF NoteInv, NoteTypes, NotesInv
<1>refreshed. CASE Refreshed
  BY <1>refreshed, <1>on, <1>types, AnsweredIsGood DEF Refreshed
<1>flushes. CASE FlushesAtEnd
  <2>1. Tail(requests) \in Seq(GoodRequests)
    BY <1>flushes, <1>types, AnsweredIsGood DEF FlushesAtEnd
  <2>2. requests' \in Seq(GoodRequests)
    BY <1>flushes, <1>look, <1>prune, <2>1, FlushIsGood DEF FlushesAtEnd
  <2> QED
    BY <1>flushes, <1>on, <2>2 DEF FlushesAtEnd
<1>flushlook. CASE FlushLook
  <2>1. Tail(requests) \in Seq(GoodRequests)
    BY <1>flushlook, <1>types, AnsweredIsGood DEF FlushLook
  <2>2. CASE Entries = {}
    BY <1>flushlook, <1>on, <1>prune, <2>1, <2>2 DEF FlushLook
  <2>3. CASE Entries # {}
    <3>1. Entries \in SUBSET Nat /\ Entries \subseteq kept
      BY <1>types, <1>written DEF NoteTypes, Reports, Entries
    <3>2. Min(Entries) \in kept /\ Min(Entries) \in Reports
      BY <2>3, <3>1, <1>written, OldestIsThere
    <3>3. Ask("flush", "put", Min(Entries)) \in GoodRequests
      BY <3>2, AskIsGood
    <3> QED
      BY <1>flushlook, <1>on, <2>1, <2>3, <3>3 DEF FlushLook
  <2> QED
    BY <2>2, <2>3
<1>flushput. CASE FlushPut
  <2>1. Tail(requests) \in Seq(GoodRequests) /\ Answered \in kept
    BY <1>flushput, <1>types, AnsweredIsGood DEF FlushPut
  <2>2. /\ box' = box \cup {Answered} /\ requests' = Append(Tail(requests), Ask("flush", "prune", NoReport))
        /\ UNCHANGED <<wrote, connVars, up, back, hubVars, dbVars, history>>
    BY <1>flushput DEF FlushPut
  <2>3. inFlight' \in kept \cup {NoReport} /\ wire' \in [Sockets -> Seq(kept)]
    <3>1. CASE sock = NoSocket
      BY <1>flushput, <1>types, <3>1 DEF FlushPut, NoteTypes
    <3>2. CASE sock # NoSocket
      <4>1. /\ inFlight' = Answered /\ sock \in Sockets
            /\ wire' = IF up[sock] THEN [wire EXCEPT ![sock] = Append(@, Answered)] ELSE wire
        BY <1>flushput, <1>types, <3>2 DEF FlushPut, NoteTypes
      <4>2. wire \in [Sockets -> Seq(kept)] /\ Append(wire[sock], Answered) \in Seq(kept)
        BY <1>types, <2>1, <4>1 DEF NoteTypes
      <4> QED
        BY <2>1, <4>1, <4>2
    <3> QED
      BY <3>1, <3>2
  <2>4. requests' \in Seq(GoodRequests)
    BY <1>prune, <2>1, <2>2
  <2>5. /\ box' \subseteq kept /\ kept \subseteq box' \cup discarded \cup Recorded \cup 1..over
        /\ doomed' \subseteq kept /\ doomed' \subseteq 1..over
    BY <2>1, <2>2, <1>types DEF NoteInv, NotesInv, NoteTypes
  <2> QED
    BY <1>page, <2>2, <2>3, <2>4, <2>5
<1>acklook. CASE AckLook
  <2>1. Tail(requests) \in Seq(GoodRequests) /\ Answered \in Recorded
    BY <1>acklook, <1>types, AnsweredIsGood DEF AckLook
  <2>2. Ask("ack", "delete", Answered) \in GoodRequests
    BY <2>1, AskIsGood DEF Recorded
  <2>3. CASE Answered \in Entries
    <3>1. requests' \in Seq(GoodRequests)
      BY <1>acklook, <2>1, <2>2, <2>3 DEF AckLook
    <3>2. inFlight' \in kept \cup {NoReport}
      BY <1>acklook, <1>types, <2>3 DEF AckLook, NoteTypes
    <3> QED
      BY <1>acklook, <1>page, <1>types, <3>1, <3>2 DEF AckLook, NoteInv, NoteTypes, NotesInv
  <2>4. CASE Answered \notin Entries
    BY <1>acklook, <1>on, <2>1, <2>4 DEF AckLook
  <2> QED
    BY <2>3, <2>4
<1>ackdelete. CASE AckDelete
  <2>1. Tail(requests) \in Seq(GoodRequests) /\ Answered \in Recorded
    BY <1>ackdelete, <1>types, AnsweredIsGood DEF AckDelete
  <2>2. Ask("ack", "prune", Answered) \in GoodRequests
    BY <2>1, AskIsGood DEF Recorded
  <2>3. /\ box' = box \ {Answered} /\ requests' = Append(Tail(requests), Ask("ack", "prune", Answered))
        /\ UNCHANGED <<wrote, inFlight, connVars, linkVars, hubVars, dbVars, history>>
    BY <1>ackdelete DEF AckDelete
  <2>4. requests' \in Seq(GoodRequests)
    BY <2>1, <2>2, <2>3
  <2>5. kept \subseteq box' \cup discarded \cup Recorded \cup 1..over
    BY <2>1, <2>3 DEF NoteInv, NotesInv
  <2> QED
    BY <1>page, <1>types, <2>3, <2>4, <2>5 DEF NoteInv, NoteTypes, NotesInv
<1>retrylook. CASE RetryLook
  <2>1. Tail(requests) \in Seq(GoodRequests) /\ Answered \in kept
    BY <1>retrylook, <1>types, AnsweredIsGood DEF RetryLook
  <2>2. Ask("retry", "put", Answered) \in GoodRequests
    BY <2>1, <1>written, AskIsGood
  <2> QED
    BY <1>retrylook, <1>on, <2>1, <2>2 DEF RetryLook
<1>retryput. CASE RetryPut
  <2>1. Tail(requests) \in Seq(GoodRequests) /\ Answered \in kept
    BY <1>retryput, <1>types, AnsweredIsGood DEF RetryPut
  <2> QED
    BY <1>retryput, <1>page, <1>types, <2>1 DEF RetryPut, NoteInv, NoteTypes, NotesInv
<1>discard. ASSUME NEW r \in Reports, Discard(r) PROVE NoteInv'
  <2>1. /\ r \in box /\ inFlight' = IF inFlight = r THEN NoReport ELSE inFlight
        /\ requests' = Append(requests, Ask("discard", "delete", r))
        /\ discarded' = discarded \cup {r}
        /\ UNCHANGED <<wrote, box, connVars, linkVars, hubVars, dbVars, kept, over>>
    BY <1>discard DEF Discard, Entries
  <2>2. Recorded' = Recorded /\ Heard' = Heard
    BY <2>1 DEF Recorded, Heard
  <2>3. GoodRequests \subseteq GoodRequests' /\ Seq(GoodRequests) \subseteq Seq(GoodRequests')
    BY <2>1, <2>2, RequestsGrow
  <2>4. Ask("discard", "delete", r) \in GoodRequests'
    BY <2>1 DEF Ask, GoodRequests
  <2>5. requests' \in Seq(GoodRequests')
    BY <1>types, <2>1, <2>3, <2>4 DEF NoteTypes
  <2>6. NoteTypes'
    BY <1>types, <2>1, <2>2, <2>5 DEF NoteTypes
  <2>7. NotesInv'
    BY <2>1, <2>2 DEF NoteInv, NotesInv
  <2> QED
    BY <2>6, <2>7 DEF NoteInv
<1>discarddelete. CASE DiscardDelete
  <2>1. Tail(requests) \in Seq(GoodRequests) /\ Answered \in discarded
    BY <1>discarddelete, <1>types, AnsweredIsGood DEF DiscardDelete
  <2> QED
    BY <1>discarddelete, <1>page, <1>types, <2>1 DEF DiscardDelete, NoteInv, NoteTypes, NotesInv
<1>clearlook. CASE ClearLook
  <2>1. Tail(requests) \in Seq(GoodRequests) /\ session = "leaving"
    BY <1>clearlook, <1>types, AnsweredIsGood DEF ClearLook
  <2>2. Ask("clear", "delete", NoReport) \in GoodRequests
    BY <2>1, AskIsGood
  <2>3. /\ doomed' = Entries /\ requests' \in Seq(GoodRequests)
        /\ UNCHANGED <<wrote, box, inFlight, sock, session, old, linkVars, hubVars, dbVars, history>>
    BY <1>clearlook, <2>1, <2>2 DEF ClearLook
  <2>4. doomed' \subseteq kept /\ doomed' \subseteq 1..over
    BY <1>types, <2>1, <2>3 DEF NoteInv, NotesInv, NoteTypes, Entries
  <2> QED
    BY <1>page, <1>types, <2>3, <2>4 DEF NoteInv, NoteTypes, NotesInv
<1>cleardelete. CASE ClearDelete
  <2>1. Tail(requests) \in Seq(GoodRequests)
    BY <1>cleardelete, <1>types, AnsweredIsGood DEF ClearDelete
  <2>2. Ask("refresh", "prune", NoReport) \in GoodRequests
    BY AskIsGood
  <2>3. /\ box' = box \ doomed /\ doomed' = {} /\ inFlight' = NoReport
        /\ requests' \in Seq(GoodRequests)
        /\ UNCHANGED <<wrote, sock, session, old, linkVars, hubVars, dbVars, history>>
    BY <1>cleardelete, <2>1, <2>2 DEF ClearDelete
  <2>4. kept \subseteq box' \cup discarded \cup Recorded \cup 1..over
    BY <2>3 DEF NoteInv, NotesInv
  <2> QED
    BY <1>page, <1>types, <2>3, <2>4 DEF NoteTypes
<1> QED
  BY <1>write, <1>addlook, <1>addput, <1>refresh, <1>refreshed, <1>flushes, <1>flushlook,
     <1>flushput, <1>acklook, <1>ackdelete, <1>retrylook, <1>retryput, <1>discard,
     <1>discarddelete, <1>clearlook, <1>cleardelete DEF Outbox

\* The steps of the page's connection, and its end.
LEMMA PageKeeps == NoteInv /\ (Page \/ \E s \in Sockets : Break(s)) => NoteInv'
<1> SUFFICES ASSUME NoteInv, Page \/ \E s \in Sockets : Break(s) PROVE NoteInv'
  OBVIOUS
<1> USE DEF linkVars, hubVars, dbVars, history, connVars, pageVars
<1>types. NoteTypes
  BY DEF NoteInv
<1>written. kept \subseteq Reports
  BY <1>types, ConstantsOK DEF NoteTypes, Reports
<1>link. ASSUME requests' \in Seq(GoodRequests), inFlight' \in kept \cup {NoReport},
                sock' \in Sockets \cup {NoSocket}, up' \in [Sockets -> BOOLEAN],
                session' \in {"member", "told", "leaving"},
                session = "leaving" <=> session' = "leaving",
                wire' \in [Sockets -> Seq(kept)], back' \in [Sockets -> Seq(Heard)],
                pc' \in [Sockets -> Steps],
                \A s \in Sockets : pc'[s] = pc[s] \/ (pc[s] = "free" /\ pc'[s] = "auth"),
                UNCHANGED <<wrote, box, doomed, old, handling, saw, dbVars, kept, discarded, over>>
         PROVE  NoteInv'
  <2>1. GoodRequests' = GoodRequests /\ Recorded' = Recorded /\ Heard' = Heard
    BY <1>link DEF GoodRequests, Recorded, Heard
  <2>2. NoteTypes'
    BY <1>link, <1>types, <2>1 DEF NoteTypes
  <2>3. NotesInv'
    BY <1>link, <2>1 DEF NoteInv, NotesInv
  <2> QED
    BY <2>2, <2>3 DEF NoteInv
<1>hear. CASE Hear
  <2> DEFINE what == Head(back[sock])
  <2>1. /\ sock \in Sockets /\ back[sock] \in Seq(Heard) /\ back[sock] # <<>>
        /\ back' = [back EXCEPT ![sock] = Tail(@)]
        /\ UNCHANGED <<wrote, box, inFlight, sock, doomed, old, up, wire, hubVars, dbVars, history>>
    BY <1>hear, <1>types DEF Hear, NoteTypes
  <2>2. what \in Heard /\ Tail(back[sock]) \in Seq(Heard)
    BY <2>1
  <2>3. requests' \in Seq(GoodRequests) /\ session' \in {session, "told"}
        /\ (session # "member" => session' = session)
    <3>1. CASE what = AuthOk
      <4>1. requests' = Flush(requests, session # "told", inFlight) /\ session' = session
        BY <1>hear, <3>1 DEF Hear, AuthOk, SessionOver
      <4>2. Ask("flush", "look", NoReport) \in GoodRequests
        BY AskIsGood
      <4>3. Ask("flush", "prune", NoReport) \in GoodRequests
        BY AskIsGood
      <4>4. requests \in Seq(GoodRequests)
        BY <1>types DEF NoteTypes
      <4>5. requests' \in Seq(GoodRequests)
        BY <4>1, <4>2, <4>3, <4>4, FlushIsGood
      <4> QED
        BY <4>1, <4>5
    <3>2. CASE what = SessionOver
      <4>1. requests' = requests /\ session' = IF session = "member" THEN "told" ELSE session
        BY <1>hear, <3>2 DEF Hear, AuthOk, SessionOver
      <4> QED
        BY <1>types, <4>1 DEF NoteTypes
    <3>3. CASE what # AuthOk /\ what # SessionOver
      <4>1. requests' = Append(requests, Ask("ack", "look", what)) /\ session' = session
        BY <1>hear, <3>3 DEF Hear
      <4>2. what \in Recorded /\ what \in Reports
        BY <2>2, <3>3 DEF Heard, Recorded
      <4>3. Ask("ack", "look", what) \in GoodRequests
        BY <4>2, AskIsGood
      <4> QED
        BY <1>types, <4>1, <4>3 DEF NoteTypes
    <3> QED
      BY <3>1, <3>2, <3>3
  <2>4. back' \in [Sockets -> Seq(Heard)]
    BY <1>types, <2>1, <2>2 DEF NoteTypes
  <2> QED
    BY <1>link, <1>types, <2>1, <2>3, <2>4 DEF NoteTypes
<1>closed. CASE Closed
  <2>1. /\ sock' = NoSocket /\ inFlight' = NoReport
        /\ requests' = IF inFlight = NoReport THEN requests
                       ELSE Append(requests, Ask("retry", "look", inFlight))
        /\ UNCHANGED <<wrote, box, session, doomed, old, linkVars, hubVars, dbVars, history>>
    BY <1>closed DEF Closed
  <2>2. inFlight # NoReport => Ask("retry", "look", inFlight) \in GoodRequests
    BY <1>types, <1>written, AskIsGood DEF NoteTypes
  <2>3. requests' \in Seq(GoodRequests)
    BY <1>types, <2>1, <2>2 DEF NoteTypes
  <2> QED
    BY <1>link, <1>types, <2>1, <2>3 DEF NoteTypes
<1>connect. ASSUME NEW s \in Sockets, Connect(s) PROVE NoteInv'
  BY <1>connect, <1>link, <1>types DEF Connect, NoteTypes, Steps
<1>leaves. CASE Leaves
  <2>1. /\ session' = "leaving" /\ over' = wrote
        /\ requests' = Append(requests, Ask("clear", "look", NoReport))
        /\ UNCHANGED <<wrote, box, inFlight, sock, doomed, old, linkVars, hubVars, dbVars,
                       kept, discarded>>
    BY <1>leaves DEF Leaves
  <2>2. /\ wrote \in Nat /\ over \in Nat /\ old \in Nat /\ old <= over /\ over <= wrote
    BY <1>types, ConstantsOK DEF NoteTypes, NoteInv, NotesInv
  <2>3. 1..over \subseteq 1..wrote
    BY <2>2
  <2>4. Recorded' = Recorded /\ Heard' = Heard
    BY <2>1 DEF Recorded, Heard
  <2>5. Seq(GoodRequests) \subseteq Seq(GoodRequests')
    BY <2>1, <2>4, RequestsGrow
  <2>6. Ask("clear", "look", NoReport) \in GoodRequests'
    BY <2>1 DEF Ask, GoodRequests
  <2>7. requests' \in Seq(GoodRequests')
    BY <1>types, <2>1, <2>5, <2>6 DEF NoteTypes
  <2>8. NoteTypes'
    BY <1>types, <2>1, <2>2, <2>4, <2>7 DEF NoteTypes
  <2>9. NotesInv'
    BY <2>1, <2>2, <2>3, <2>4 DEF NoteInv, NotesInv
  <2> QED
    BY <2>8, <2>9 DEF NoteInv
\* A new page asks for a refresh, and knows of no session that ends.
<1>page. ASSUME NewPage, requests' = <<Ask("refresh", "prune", NoReport)>>,
                old' \in Nat, old' <= over,
                UNCHANGED <<wrote, box, wire, hubVars, dbVars, kept, discarded, over>>
         PROVE  NoteInv'
  <2>1. /\ inFlight' = NoReport /\ sock' = NoSocket /\ session' = "member" /\ doomed' = {}
        /\ up' = [s \in Sockets |-> up[s] /\ s # sock]
        /\ back' = [s \in Sockets |-> IF s = sock THEN <<>> ELSE back[s]]
    BY <1>page DEF NewPage
  <2>2. Recorded' = Recorded /\ Heard' = Heard
    BY <1>page DEF Recorded, Heard
  <2>3. back' \in [Sockets -> Seq(Heard)] /\ up' \in [Sockets -> BOOLEAN]
    BY <1>types, <2>1 DEF NoteTypes
  <2>4. Ask("refresh", "prune", NoReport) \in GoodRequests'
    BY DEF Ask, GoodRequests
  <2>5. requests' \in Seq(GoodRequests')
    BY <1>page, <2>4
  <2>6. NoteTypes'
    BY <1>page, <1>types, <2>1, <2>2, <2>3, <2>5 DEF NoteTypes
  <2>7. NotesInv'
    BY <1>page, <1>types, <2>1, <2>2 DEF NoteInv, NotesInv, NoteTypes
  <2> QED
    BY <2>6, <2>7 DEF NoteInv
<1>reload. CASE Reload
  BY <1>reload, <1>page, <1>types DEF Reload, NoteInv, NotesInv, NoteTypes
<1>rejoin. CASE Rejoin
  <2>1. wrote \in Nat /\ over = wrote
    BY <1>rejoin, <1>types, ConstantsOK DEF Rejoin, NoteInv, NotesInv, NoteTypes
  <2>2. old' \in Nat /\ old' <= over
    BY <1>rejoin, <2>1 DEF Rejoin
  <2> QED
    BY <1>rejoin, <1>page, <2>2 DEF Rejoin
<1>break. ASSUME NEW s \in Sockets, Break(s) PROVE NoteInv'
  <2>1. PICK q \in Prefixes(wire[s]) : wire' = [wire EXCEPT ![s] = q]
    BY <1>break DEF Break
  <2>2. PICK b \in Prefixes(back[s]) : back' = [back EXCEPT ![s] = b]
    BY <1>break DEF Break
  <2>3. wire[s] \in Seq(kept) /\ back[s] \in Seq(Heard)
    BY <1>types DEF NoteTypes
  <2>4. q \in Seq(kept)
    BY <2>3, PrefixesAreSeqs
  <2>5. b \in Seq(Heard)
    BY <2>3, PrefixesAreSeqs
  <2>6. /\ up' \in [Sockets -> BOOLEAN] /\ wire' \in [Sockets -> Seq(kept)]
        /\ back' \in [Sockets -> Seq(Heard)]
    BY <1>break, <1>types, <2>1, <2>2, <2>4, <2>5 DEF Break, NoteTypes
  <2> QED
    BY <1>break, <1>link, <1>types, <2>6 DEF Break, NoteTypes
<1> QED
  BY <1>hear, <1>closed, <1>connect, <1>leaves, <1>reload, <1>rejoin, <1>break DEF Page

\* The steps of the hub.
LEMMA HubKeeps ==
    NoteInv /\ \/ Crash
               \/ \E s \in Sockets : Handler(s) \/ Refuse(s) \/ TellEnd(s)
               \/ \E r \in Reports : Forget(r)
    => NoteInv'
<1> SUFFICES ASSUME NoteInv,
                    \/ Crash
                    \/ \E s \in Sockets : Handler(s) \/ Refuse(s) \/ TellEnd(s)
                    \/ \E r \in Reports : Forget(r)
             PROVE  NoteInv'
  OBVIOUS
<1> USE DEF linkVars, hubVars, dbVars, history, connVars, pageVars, Free
<1>types. NoteTypes
  BY DEF NoteInv
\* What is recorded stays.
<1>hub. ASSUME up' \in [Sockets -> BOOLEAN], wire' \in [Sockets -> Seq(kept)],
               back' \in [Sockets -> Seq(Heard)],
               pc' \in [Sockets -> Steps],
               handling' \in [Sockets -> kept \cup {NoReport}], saw' \in [Sockets -> BOOLEAN],
               UNCHANGED <<wrote, pageVars, dbVars, kept, discarded, over>>
        PROVE  NoteTypes' /\ Recorded' = Recorded
  <2>1. GoodRequests' = GoodRequests /\ Recorded' = Recorded /\ Heard' = Heard
    BY <1>hub DEF GoodRequests, Recorded, Heard
  <2> QED
    BY <1>hub, <1>types, <2>1 DEF NoteTypes
<1>auth. ASSUME NEW s \in Sockets, Authenticate(s) PROVE NoteInv'
  <2>1. /\ pc[s] = "auth" /\ pc' = [pc EXCEPT ![s] = "receive"]
        /\ back' = IF up[s] THEN [back EXCEPT ![s] = Append(@, AuthOk)] ELSE back
        /\ AuthOk \in Heard
        /\ UNCHANGED <<wrote, pageVars, up, wire, handling, saw, dbVars, history>>
    BY <1>auth DEF Authenticate, SendBack, Heard
  <2>2. back' \in [Sockets -> Seq(Heard)]
    BY <1>types, <2>1 DEF NoteTypes
  <2>3. NoteTypes' /\ Recorded' = Recorded
    BY <1>hub, <1>types, <2>1, <2>2 DEF NoteTypes, Steps
  <2>4. NotesInv'
    BY <1>types, <2>1, <2>3 DEF NoteInv, NotesInv, NoteTypes
  <2> QED
    BY <2>3, <2>4 DEF NoteInv
<1>refuse. ASSUME NEW s \in Sockets, Refuse(s) PROVE NoteInv'
  <2>1. /\ pc[s] = "auth" /\ pc' = [pc EXCEPT ![s] = "free"]
        /\ back' = IF up[s] THEN [back EXCEPT ![s] = Append(@, SessionOver)] ELSE back
        /\ up' = [up EXCEPT ![s] = FALSE] /\ handling' = [handling EXCEPT ![s] = NoReport]
        /\ saw' = [saw EXCEPT ![s] = FALSE] /\ SessionOver \in Heard
        /\ UNCHANGED <<wrote, pageVars, wire, dbVars, kept, discarded, over>>
    BY <1>refuse DEF Refuse, SendBack, Heard
  <2>2. back' \in [Sockets -> Seq(Heard)]
    BY <1>types, <2>1 DEF NoteTypes
  <2>3. NoteTypes' /\ Recorded' = Recorded
    BY <1>hub, <1>types, <2>1, <2>2 DEF NoteTypes, Steps
  <2>4. NotesInv'
    BY <1>types, <2>1, <2>3 DEF NoteInv, NotesInv, NoteTypes
  <2> QED
    BY <2>3, <2>4 DEF NoteInv
<1>tell. ASSUME NEW s \in Sockets, TellEnd(s) PROVE NoteInv'
  <2>1. /\ back' = [back EXCEPT ![s] = Append(@, SessionOver)] /\ SessionOver \in Heard
        /\ UNCHANGED <<wrote, pageVars, up, wire, hubVars, dbVars, kept, discarded, over>>
    BY <1>tell DEF TellEnd, SendBack, Heard
  <2>2. back' \in [Sockets -> Seq(Heard)]
    BY <1>types, <2>1 DEF NoteTypes
  <2>3. NoteTypes' /\ Recorded' = Recorded
    BY <1>hub, <1>types, <2>1, <2>2 DEF NoteTypes
  <2>4. NotesInv'
    BY <2>1, <2>3 DEF NoteInv, NotesInv
  <2> QED
    BY <2>3, <2>4 DEF NoteInv
<1>receive. ASSUME NEW s \in Sockets, Receive(s) PROVE NoteInv'
  <2>1. /\ wire[s] # <<>> /\ wire[s] \in Seq(kept)
        /\ handling' = [handling EXCEPT ![s] = Head(wire[s])]
        /\ wire' = [wire EXCEPT ![s] = Tail(@)]
        /\ pc' = [pc EXCEPT ![s] = "look"] /\ pc[s] = "receive"
        /\ UNCHANGED <<wrote, pageVars, up, back, saw, dbVars, history>>
    BY <1>receive, <1>types DEF Receive, NoteTypes
  <2>2. Head(wire[s]) \in kept /\ Tail(wire[s]) \in Seq(kept) /\ Head(wire[s]) # NoReport
    BY <1>types, <2>1, ConstantsOK DEF NoteTypes, NoReport
  <2>3. NoteTypes' /\ Recorded' = Recorded
    BY <1>hub, <1>types, <2>1, <2>2 DEF NoteTypes, Steps
  <2>4. /\ pc \in [Sockets -> Steps]
        /\ handling \in [Sockets -> kept \cup {NoReport}]
    BY <1>types DEF NoteTypes
  <2>5. handling'[s] # NoReport /\ pc'[s] = "look" /\ ~saw[s]
    BY <2>1, <2>2, <2>4 DEF NoteInv, NotesInv
  <2>6. \A t \in Sockets \ {s} : handling'[t] = handling[t] /\ pc'[t] = pc[t]
    BY <2>1, <2>4
  <2>7. NotesInv'
    BY <2>1, <2>3, <2>5, <2>6 DEF NoteInv, NotesInv
  <2> QED
    BY <2>3, <2>7 DEF NoteInv
<1>look. ASSUME NEW s \in Sockets, Look(s) PROVE NoteInv'
  <2>1. /\ saw' = [saw EXCEPT ![s] = handling[s] \in receipts]
        /\ pc' = [pc EXCEPT ![s] = "store"] /\ pc[s] = "look"
        /\ UNCHANGED <<wrote, pageVars, linkVars, handling, dbVars, history>>
    BY <1>look DEF Look
  <2>2. NoteTypes' /\ Recorded' = Recorded
    BY <1>hub, <1>types, <2>1 DEF NoteTypes, Steps
  <2>3. NotesInv'
    BY <1>types, <2>1, <2>2 DEF NoteInv, NotesInv, NoteTypes, Steps
  <2> QED
    BY <2>2, <2>3 DEF NoteInv
<1>store. ASSUME NEW s \in Sockets, Store(s) PROVE NoteInv'
  <2> DEFINE r == handling[s]
  <2>1. /\ pc[s] = "store" /\ (saw[s] \/ r \notin receipts)
        /\ pc' = [pc EXCEPT ![s] = "answer"] /\ receipts' = receipts \cup {r}
        /\ events' = IF saw[s] /\ events[r] > 0 THEN events ELSE [events EXCEPT ![r] = @ + 1]
        /\ UNCHANGED <<wrote, pageVars, linkVars, handling, saw, history>>
    BY <1>store DEF Store
  <2>2. r \in kept /\ r \in Reports
    <3>1. r \in kept
      BY <1>types, <2>1 DEF NoteInv, NotesInv, NoteTypes
    <3>2. kept \subseteq Reports
      BY <1>types, ConstantsOK DEF NoteTypes, Reports
    <3> QED
      BY <3>1, <3>2
  <2>3. events' \in [Reports -> Nat] /\ Recorded' = Recorded \cup {r}
    <3>1. CASE saw[s]
      <4>1. r \in Recorded /\ events[r] > 0
        BY <1>types, <2>1, <3>1 DEF NoteInv, NotesInv, NoteTypes, Recorded
      <4> QED
        BY <1>types, <2>1, <3>1, <4>1 DEF Recorded, NoteTypes
    <3>2. CASE ~saw[s]
      <4>1. events' = [events EXCEPT ![r] = events[r] + 1] /\ events[r] \in Nat
        BY <1>types, <2>1, <2>2, <3>2 DEF NoteTypes
      <4> QED
        BY <1>types, <2>2, <4>1 DEF Recorded, NoteTypes
    <3> QED
      BY <3>1, <3>2
  <2>4. Heard \subseteq Heard'
    BY <2>3 DEF Heard
  <2>5. GoodRequests \subseteq GoodRequests' /\ Seq(GoodRequests) \subseteq Seq(GoodRequests')
    BY <2>1, <2>3, RequestsGrow
  <2>6. back' \in [Sockets -> Seq(Heard')]
    <3>1. Seq(Heard) \subseteq Seq(Heard')
      BY <2>4, SeqMonotonic
    <3> QED
      BY <1>types, <2>1, <3>1 DEF NoteTypes
  <2> HIDE DEF r
  <2>7. NoteTypes'
    BY <1>types, <2>1, <2>2, <2>3, <2>5, <2>6 DEF NoteTypes, Steps
  <2>8. NotesInv'
    BY <1>types, <2>1, <2>2, <2>3 DEF NoteInv, NotesInv, NoteTypes, r
  <2> QED
    BY <2>7, <2>8 DEF NoteInv
<1>fails. ASSUME NEW s \in Sockets, StoreFails(s) PROVE NoteInv'
  <2>1. NoteTypes' /\ Recorded' = Recorded
    BY <1>fails, <1>hub, <1>types DEF StoreFails, NoteTypes, Steps
  <2>2. NotesInv'
    BY <1>fails, <1>types, <2>1 DEF StoreFails, NoteInv, NotesInv, NoteTypes
  <2> QED
    BY <2>1, <2>2 DEF NoteInv
\* A receipt is pruned: the event stays.
<1>forget. ASSUME NEW r \in Reports, Forget(r) PROVE NoteInv'
  <2>1. /\ receipts' = receipts \ {r}
        /\ \A s \in Sockets : ~(pc[s] = "store" /\ saw[s] /\ handling[s] = r)
        /\ UNCHANGED <<wrote, pageVars, linkVars, hubVars, events, kept, discarded, over>>
    BY <1>forget DEF Forget
  <2>2. GoodRequests' = GoodRequests /\ Recorded' = Recorded /\ Heard' = Heard
    BY <2>1 DEF GoodRequests, Recorded, Heard
  <2>3. NoteTypes'
    BY <1>types, <2>1, <2>2 DEF NoteTypes
  <2>4. NotesInv'
    BY <2>1, <2>2 DEF NoteInv, NotesInv
  <2> QED
    BY <2>3, <2>4 DEF NoteInv
<1>answer. ASSUME NEW s \in Sockets, Answer(s) PROVE NoteInv'
  <2>1. /\ handling[s] \in Heard /\ back[s] \in Seq(Heard)
        /\ back' = IF up[s] THEN [back EXCEPT ![s] = Append(@, handling[s])] ELSE back
        /\ pc' = [pc EXCEPT ![s] = IF up[s] THEN "receive" ELSE "free"]
        /\ handling' = [handling EXCEPT ![s] = NoReport]
        /\ saw' = [saw EXCEPT ![s] = FALSE]
        /\ UNCHANGED <<wrote, pageVars, up, dbVars, history>>
    BY <1>answer, <1>types DEF Answer, SendBack, NoteInv, NotesInv, NoteTypes, Heard
  <2>2. wire' \in [Sockets -> Seq(kept)]
    <3>1. wire' = wire \/ wire' = [wire EXCEPT ![s] = <<>>]
      BY <1>answer DEF Answer
    <3>2. wire \in [Sockets -> Seq(kept)] /\ <<>> \in Seq(kept)
      BY <1>types DEF NoteTypes
    <3> QED
      BY <3>1, <3>2
  <2>3. back' \in [Sockets -> Seq(Heard)]
    BY <1>types, <2>1 DEF NoteTypes
  <2>4. NoteTypes' /\ Recorded' = Recorded
    BY <1>hub, <1>types, <2>1, <2>2, <2>3 DEF NoteTypes, Steps
  <2>5. NotesInv'
    BY <1>types, <2>1, <2>4 DEF NoteInv, NotesInv, NoteTypes
  <2> QED
    BY <2>4, <2>5 DEF NoteInv
<1>leave. ASSUME NEW s \in Sockets, Leave(s) PROVE NoteInv'
  <2>1. NoteTypes' /\ Recorded' = Recorded
    BY <1>leave, <1>hub, <1>types DEF Leave, NoteTypes, Steps
  <2>2. NotesInv'
    BY <1>leave, <1>types, <2>1 DEF Leave, NoteInv, NotesInv, NoteTypes
  <2> QED
    BY <2>1, <2>2 DEF NoteInv
<1>crash. CASE Crash
  <2>1. NoteTypes' /\ Recorded' = Recorded
    BY <1>crash, <1>hub, <1>types DEF Crash, NoteTypes, Steps
  <2>2. NotesInv'
    BY <1>crash, <2>1 DEF Crash, NoteInv, NotesInv
  <2> QED
    BY <2>1, <2>2 DEF NoteInv
<1> QED
  BY <1>auth, <1>refuse, <1>tell, <1>receive, <1>look, <1>store, <1>fails, <1>forget, <1>answer,
     <1>leave, <1>crash DEF Handler

LEMMA NoteInvLasts == NoteInv /\ [Next]_vars => NoteInv'
<1>1. NoteInv /\ UNCHANGED vars => NoteInv'
  BY DEF NoteInv, NoteTypes, NotesInv, GoodRequests, Recorded, Heard, vars, pageVars, connVars,
         linkVars, hubVars, dbVars, history
<1> QED
  BY <1>1, OutboxKeeps, PageKeeps, HubKeeps DEF Next

LEMMA NoteInvBegins == Init => NoteInv
<1> SUFFICES ASSUME Init PROVE NoteInv
  OBVIOUS
<1>1. NoteTypes
  BY ConstantsOK DEF Init, NoteTypes, NoReport, Recorded, Steps
<1>2. NotesInv
  BY DEF Init, NotesInv
<1> QED
  BY <1>1, <1>2 DEF NoteInv

-----------------------------------------------------------------------------

fates == [r \in Reports |-> Fate(r)]

\* What ReportLog sees of the notes.
logged == <<fates, events, 1..over>>

\* No step but of one note's fate, or of those whose session ended.
LEMMA OneNoteGoesOn ==
    ASSUME NEW r \in Reports, \A q \in Reports \ {r} : Fate(q)' = Fate(q),
           UNCHANGED <<events, over>>,
           \/ Fate(r)' = Fate(r)
           \/ Fate(r) = "unwritten" /\ Fate(r)' = "kept"
           \/ Fate(r) = "kept" /\ Fate(r)' = "discarded"
           \/ Fate(r) = "recorded" /\ Fate(r)' = "forgotten"
           \/ r \in 1..over /\ Fate(r) = "lost" /\ Fate(r)' = "kept"
    PROVE  [Log!Next]_(logged)
<1>1. fates' = [fates EXCEPT ![r] = Fate(r)']
  BY DEF fates
<1>2. fates[r] = Fate(r)
  BY DEF fates
<1> USE DEF Log!Goes, fates
<1>3. CASE Fate(r)' = Fate(r)
  BY <1>3 DEF logged
<1>4. CASE Fate(r) = "unwritten" /\ Fate(r)' = "kept"
  BY <1>1, <1>4 DEF Log!Next, Log!Keep
<1>5. CASE Fate(r) = "kept" /\ Fate(r)' = "discarded"
  BY <1>1, <1>5 DEF Log!Next, Log!Discard
<1>6. CASE Fate(r) = "recorded" /\ Fate(r)' = "forgotten"
  BY <1>1, <1>6 DEF Log!Next, Log!Forget
<1>7. CASE r \in 1..over /\ Fate(r) = "lost" /\ Fate(r)' = "kept"
  BY <1>1, <1>7 DEF Log!Next, Log!PutBack
<1> QED
  BY <1>3, <1>4, <1>5, <1>6, <1>7

\* Deleting entries loses those that were kept, so they must be of ended
\* sessions unless they were recorded or discarded.
LEMMA DeletingLoses ==
    ASSUME NoteInv, NEW R, box' = box \ R, UNCHANGED <<events, receipts, discarded, kept, over>>,
           \A r \in R : r \in 1..over \/ r \in Recorded \/ r \in discarded
    PROVE  [Log!Next]_(logged)
<1> DEFINE L == {r \in Reports : Fate(r) = "kept" /\ r \in R}
<1>1. box \subseteq kept
  BY DEF NoteInv, NoteTypes
<1>2. \A r \in Reports : Fate(r)' = IF r \in L THEN "lost" ELSE Fate(r)
  BY <1>1 DEF Fate
<1>3. L \subseteq 1..over
  BY DEF Fate, Recorded
<1>4. fates' = [r \in Reports |-> IF r \in L THEN "lost" ELSE fates[r]] /\ \A r \in L : fates[r] = "kept"
  BY <1>2 DEF fates
<1> HIDE DEF L
<1>5. Log!Lose(L)
  BY <1>4 DEF Log!Lose, fates
<1> QED
  BY <1>3, <1>5 DEF Log!Next

\* Putting an entry that was kept may bring it back, if its session ended.
LEMMA PuttingKeeps ==
    ASSUME NoteInv, NEW r \in kept, box' = box \cup {r},
           UNCHANGED <<events, receipts, discarded, kept, over>>
    PROVE  [Log!Next]_(logged)
<1>1. r \in Reports /\ \A q \in Reports \ {r} : Fate(q)' = Fate(q)
  BY ConstantsOK DEF NoteInv, NoteTypes, Reports, Fate
<1>2. Fate(r)' = Fate(r) \/ (r \in 1..over /\ Fate(r) = "lost" /\ Fate(r)' = "kept")
  BY <1>1 DEF Fate, NoteInv, NotesInv, NoteTypes, Recorded
<1> QED
  BY <1>1, <1>2, OneNoteGoesOn

\* Only what is put, deleted, discarded, stored or pruned decides anything.
LEMMA StepIsLogged == NoteInv /\ NoteInv' /\ [Next]_vars => [Log!Next]_(logged)
<1> SUFFICES ASSUME NoteInv, NoteInv', [Next]_vars PROVE [Log!Next]_(logged)
  OBVIOUS
<1> USE DEF linkVars, hubVars, dbVars, history, connVars, pageVars
<1>reports. kept \subseteq Reports
  BY ConstantsOK DEF NoteInv, NoteTypes, Reports
<1>same. ASSUME UNCHANGED <<box, events, receipts, discarded, kept, over>>
         PROVE  [Log!Next]_(logged)
  BY <1>same DEF fates, Fate, logged
\* A session ends, or what was written in one that does.
<1>ends. CASE Write \/ Leaves
  <2>1. UNCHANGED <<box, events, receipts, discarded, kept>>
    BY <1>ends DEF Write, Leaves
  <2>2. fates' = fates
    BY <2>1 DEF fates, Fate
  <2>3. over \in Nat /\ over' \in Nat /\ over <= over' /\ over' <= wrote' /\ wrote' \in 0..NReports
    BY <1>ends, ConstantsOK DEF Write, Leaves, NoteInv, NoteTypes, NotesInv
  <2>4. 1..(over') \in SUBSET Reports /\ 1..over \subseteq 1..(over')
    BY <2>3, ConstantsOK DEF Reports
  <2> QED
    BY <2>1, <2>2, <2>4 DEF Log!Next, Log!EndSession, fates
<1>put. CASE AddPut
  <2>1. /\ Answered \in 1..wrote /\ kept' = kept \cup {Answered} /\ box' = box \cup {Answered}
        /\ UNCHANGED <<events, receipts, discarded, over>>
    BY <1>put, AnsweredIsGood DEF AddPut, NoteInv
  <2>2. CASE Answered \in kept
    <3>1. kept' = kept
      BY <2>1, <2>2
    <3> QED
      BY <2>1, <2>2, <3>1, PuttingKeeps
  <2>3. CASE Answered \notin kept
    <3>1. PICK r \in Reports : r = Answered
      BY <2>1, ConstantsOK DEF NoteInv, NoteTypes, Reports
    <3>2. r \in box' /\ ~(events[r] > 0) /\ r \notin discarded /\ r \notin box /\ r \notin kept
      BY <2>1, <2>3, <3>1 DEF NoteInv, NoteTypes, Recorded
    <3>3. Fate(r) = "unwritten" /\ Fate(r)' = "kept"
      BY <2>1, <3>2 DEF Fate
    <3>4. \A q \in Reports \ {r} : Fate(q)' = Fate(q)
      BY <2>1, <3>1 DEF Fate
    <3> QED
      BY <2>1, <3>3, <3>4, OneNoteGoesOn
  <2> QED
    BY <2>2, <2>3
<1>again. CASE FlushPut \/ RetryPut
  <2>1. /\ Answered \in kept /\ box' = box \cup {Answered}
        /\ UNCHANGED <<events, receipts, discarded, kept, over>>
    BY <1>again, AnsweredIsGood DEF FlushPut, RetryPut, NoteInv
  <2> QED
    BY <2>1, PuttingKeeps
<1>delete. CASE AckDelete \/ DiscardDelete
  <2>1. /\ Answered \in Recorded \/ Answered \in discarded
        /\ box' = box \ {Answered} /\ UNCHANGED <<events, receipts, discarded, kept, over>>
    BY <1>delete, AnsweredIsGood DEF AckDelete, DiscardDelete, NoteInv
  <2> QED
    BY <2>1, DeletingLoses
<1>prune. CASE Prune
  <2>1. box' = box \ 1..old /\ UNCHANGED <<events, receipts, discarded, kept, over>>
    BY <1>prune DEF Prune, Entries
  <2>2. \A r \in 1..old : r \in 1..over
    BY DEF NoteInv, NoteTypes, NotesInv
  <2> QED
    BY <2>1, <2>2, DeletingLoses
<1>clear. CASE ClearDelete
  <2>1. box' = box \ doomed /\ UNCHANGED <<events, receipts, discarded, kept, over>>
    BY <1>clear DEF ClearDelete
  <2>2. \A r \in doomed : r \in 1..over
    BY DEF NoteInv, NotesInv
  <2> QED
    BY <2>1, <2>2, DeletingLoses
<1>discard. ASSUME NEW r \in Reports, Discard(r) PROVE [Log!Next]_(logged)
  <2>1. r \in box /\ discarded' = discarded \cup {r} /\ UNCHANGED <<box, events, receipts, kept, over>>
    BY <1>discard DEF Discard, Entries
  <2>2. \A q \in Reports \ {r} : Fate(q)' = Fate(q)
    BY <2>1 DEF Fate
  <2>3. Fate(r)' = Fate(r) \/ (Fate(r) = "kept" /\ Fate(r)' = "discarded")
    BY <2>1 DEF Fate
  <2> QED
    BY <2>1, <2>2, <2>3, OneNoteGoesOn
<1>store. ASSUME NEW s \in Sockets, Store(s) PROVE [Log!Next]_(logged)
  <2> DEFINE r == handling[s]
  <2>1. /\ pc[s] = "store" /\ (saw[s] \/ r \notin receipts) /\ receipts' = receipts \cup {r}
        /\ events' = IF saw[s] /\ events[r] > 0 THEN events ELSE [events EXCEPT ![r] = @ + 1]
        /\ UNCHANGED <<box, discarded, kept, over>>
    BY <1>store DEF Store
  <2>2. r \in kept /\ r \in Reports /\ events \in [Reports -> Nat]
    BY <2>1, <1>reports DEF NoteInv, NotesInv, NoteTypes
  <2>3. CASE saw[s]
    <3>1. r \in receipts /\ events[r] > 0
      BY <2>1, <2>3 DEF NoteInv, NotesInv, NoteTypes, Recorded
    <3>2. receipts' = receipts /\ events' = events
      BY <2>1, <2>3, <3>1
    <3> QED
      BY <1>same, <2>1, <3>2
  <2>4. CASE ~saw[s]
    <3>1. r \notin receipts /\ events' = [events EXCEPT ![r] = events[r] + 1]
      BY <2>1, <2>4
    <3> HIDE DEF r
    <3>2. \A q \in Reports \ {r} : Fate(q)' = Fate(q)
      BY <2>1, <2>2, <3>1 DEF Fate
    <3>3. Fate(r) \in {"kept", "discarded", "lost", "forgotten"}
      BY <2>2, <3>1 DEF Fate
    <3>4. events'[r] > 0 /\ r \in receipts'
      BY <2>1, <2>2, <3>1
    <3>5. fates' = [fates EXCEPT ![r] = "recorded"] /\ fates[r] = Fate(r)
      BY <2>2, <3>2, <3>4 DEF fates, Fate
    <3>6. Log!Record(r)
      BY <2>1, <3>1, <3>3, <3>5 DEF Log!Record, Log!Goes, fates
    <3> QED
      BY <2>2, <3>6 DEF Log!Next
  <2> QED
    BY <2>3, <2>4
<1>forget. ASSUME NEW r \in Reports, Forget(r) PROVE [Log!Next]_(logged)
  <2>1. /\ r \in receipts /\ receipts' = receipts \ {r}
        /\ UNCHANGED <<box, events, discarded, kept, over>>
    BY <1>forget DEF Forget
  <2>2. events[r] > 0
    BY <2>1 DEF NoteInv, NoteTypes, Recorded
  <2>3. (\A q \in Reports \ {r} : Fate(q)' = Fate(q)) /\ Fate(r) = "recorded" /\ Fate(r)' = "forgotten"
    BY <2>1, <2>2 DEF Fate
  <2> QED
    BY <2>1, <2>3, OneNoteGoesOn
<1>outbox. CASE \/ AddLook \/ FlushLook \/ Refreshed \/ FlushesAtEnd \/ AckLook \/ RetryLook
                \/ ClearLook
  BY <1>outbox, <1>same DEF AddLook, FlushLook, Refreshed, FlushesAtEnd, AckLook, RetryLook,
     ClearLook
<1>page. CASE Hear \/ Closed \/ Rejoin \/ Reload \/ (\E s \in Sockets : Connect(s)) \/ Crash
              \/ UNCHANGED vars
  BY <1>page, <1>same DEF Hear, Closed, Rejoin, Reload, Connect, Crash, vars
<1>hub. ASSUME NEW s \in Sockets,
               \/ Authenticate(s) \/ Refuse(s) \/ TellEnd(s) \/ Receive(s) \/ Look(s)
               \/ StoreFails(s) \/ Answer(s) \/ Leave(s) \/ Break(s)
        PROVE  [Log!Next]_(logged)
  BY <1>hub, <1>same DEF Authenticate, Refuse, TellEnd, Receive, Look, StoreFails, Answer, Leave,
     Break
<1> QED
  BY <1>ends, <1>put, <1>again, <1>delete, <1>prune, <1>clear, <1>discard, <1>store, <1>forget,
     <1>outbox, <1>page, <1>hub DEF Next, Outbox, Page, Handler

\* Whatever is resent, lost on the way or handled by two connections at once, a
\* note the outbox has kept becomes one event, and no second one while its receipt
\* stands; and until then it is in the outbox, unless the member discards it or
\* its session ends.
THEOREM NotesAreLogged == Spec => IsReportLog
<1>1. Init => Log!Init
  BY DEF Init, Log!Init, Fate
<1> QED
  BY <1>1, NoteInvBegins, NoteInvLasts, StepIsLogged, PTL
     DEF Spec, IsReportLog, Log!Spec, Log!vars, fates, logged

-----------------------------------------------------------------------------
(* Positions.                                                              *)
\* Samples and reports are of times a message may name.
SampleSet == [at : Int, place : Nat]
LocationTypes ==
    /\ now \in Nat
    /\ samples \in [Members -> SampleSet] /\ reported \in [Members -> SampleSet]

LocationInv == LocationTypes /\ Located!RecentIsKept

\* Dropping old samples makes samples of samples, and keeps those that are not
\* older than Ttl (_prune_location_samples).
LEMMA PrunedKeeps ==
    ASSUME NEW ss \in [Members -> SampleSet], NEW at \in Nat
    PROVE  /\ Located!Pruned(ss, at) \in [Members -> SampleSet]
           /\ \A m \in Members : ss[m].at + Ttl >= at => Located!Pruned(ss, at)[m] = ss[m]
<1>1. Located!None \in SampleSet
  BY DEF Located!None, SampleSet
<1>2. Ttl \in Nat
  BY PartsAssumption DEF Located!LocationsAssumption
<1>3. ASSUME NEW m \in Members
      PROVE  ss[m].at \in Int /\ Located!Pruned(ss, at)[m] = IF ss[m].at < at - Ttl THEN Located!None ELSE ss[m]
  BY DEF Located!Pruned, SampleSet
<1>4. Located!Pruned(ss, at) \in [Members -> SampleSet]
  BY <1>1 DEF Located!Pruned
<1>5. ASSUME NEW m \in Members, ss[m].at + Ttl >= at
      PROVE  Located!Pruned(ss, at)[m] = ss[m]
  BY <1>2, <1>3, <1>5
<1> QED
  BY <1>4, <1>5

\* At first nobody has reported.
LEMMA LocationBegins == Located!Init => LocationInv
<1> SUFFICES ASSUME Located!Init PROVE LocationInv
  OBVIOUS
<1>1. LocationTypes
  BY DEF Located!Init, LocationTypes, Located!None, SampleSet
<1>2. Located!RecentIsKept
  BY DEF Located!Init, Located!RecentIsKept, Located!Recent
<1> QED
  BY <1>1, <1>2 DEF LocationInv

\* A sample stored now may name a time up to MaxSkew ahead, and so drops those
\* older than Ttl - MaxSkew and no others.
LEMMA SubmitKeeps ==
    ASSUME LocationInv, NEW m \in Members, NEW p \in Places, NEW t \in 0..(now + MaxSkew),
           Located!Submit(m, p, t)
    PROVE  LocationInv'
<1> DEFINE s == [at |-> t, place |-> p]
<1> DEFINE stored == [samples EXCEPT ![m] = s]
<1>1. /\ t \in Nat /\ Ttl \in Nat /\ MaxSkew \in Nat /\ now \in Nat /\ s \in SampleSet
      /\ t <= now + MaxSkew
  BY PartsAssumption DEF Located!LocationsAssumption, LocationInv, LocationTypes, SampleSet
<1>2. /\ now' = now
      /\ reported' = [reported EXCEPT ![m] = s]
      /\ samples' = Located!Pruned(stored, t)
  BY DEF Located!Submit
<1>3. stored \in [Members -> SampleSet] /\ reported' \in [Members -> SampleSet]
  BY <1>1, <1>2 DEF LocationInv, LocationTypes
<1> HIDE DEF s
<1>4. /\ samples' \in [Members -> SampleSet]
      /\ \A n \in Members : stored[n].at + Ttl >= t => samples'[n] = stored[n]
  BY <1>1, <1>2, <1>3, PrunedKeeps
<1>5. LocationTypes'
  BY <1>1, <1>2, <1>3, <1>4 DEF LocationTypes
<1>6. ASSUME NEW n \in Members, Located!Recent(n)'
      PROVE  samples'[n] = reported'[n]
  <2>1. CASE n = m
    <3>1. stored[n] = s /\ reported'[n] = s
      BY <1>2, <2>1 DEF LocationInv, LocationTypes
    <3>2. s.at = t
      BY DEF s
    <3> QED
      BY <1>1, <1>4, <3>1, <3>2
  <2>2. CASE n # m
    <3>1. stored[n] = samples[n] /\ reported'[n] = reported[n]
      BY <1>2, <2>2 DEF LocationInv, LocationTypes
    <3>2. Located!Recent(n) /\ reported[n].at \in Int
      BY <1>2, <1>6, <3>1 DEF Located!Recent, LocationInv, LocationTypes, SampleSet
    <3>3. samples[n] = reported[n] /\ reported[n].at + Ttl >= t
      BY <1>1, <3>2 DEF Located!Recent, LocationInv, Located!RecentIsKept
    <3> QED
      BY <1>4, <3>1, <3>3
  <2> QED
    BY <2>1, <2>2
<1> QED
  BY <1>5, <1>6 DEF LocationInv, Located!RecentIsKept

\* Time passing makes nothing recent.
LEMMA TickKeeps == LocationInv /\ Located!Tick => LocationInv'
<1> SUFFICES ASSUME LocationInv, Located!Tick PROVE LocationInv'
  OBVIOUS
<1>1. now \in Nat /\ now' = now + 1 /\ samples' = samples /\ reported' = reported
  BY DEF LocationInv, LocationTypes, Located!Tick
<1>2. ASSUME NEW n \in Members, Located!Recent(n)'
      PROVE  samples'[n] = reported'[n]
  <2>1. Located!Recent(n)
    BY <1>1, <1>2, PartsAssumption
       DEF Located!LocationsAssumption, Located!Recent, LocationInv, LocationTypes, SampleSet
  <2> QED
    BY <1>1, <2>1 DEF LocationInv, Located!RecentIsKept
<1> QED
  BY <1>1, <1>2 DEF LocationInv, LocationTypes, Located!RecentIsKept

\* The hub forgets the samples together with the reports.
LEMMA LocationRestartKeeps == LocationInv /\ Located!Restart => LocationInv'
<1> SUFFICES ASSUME LocationInv, Located!Restart PROVE LocationInv'
  OBVIOUS
<1>1. LocationTypes'
  BY DEF LocationInv, LocationTypes, Located!Restart, Located!None, SampleSet
<1>2. Located!RecentIsKept'
  BY DEF Located!RecentIsKept, Located!Recent, Located!Restart
<1> QED
  BY <1>1, <1>2 DEF LocationInv

\* What holds of the samples lasts.
LEMMA LocationInvLasts == LocationInv /\ [Located!Next]_(Located!vars) => LocationInv'
<1> SUFFICES ASSUME LocationInv, [Located!Next]_(Located!vars) PROVE LocationInv'
  OBVIOUS
<1>1. CASE \E m \in Members, p \in Places, t \in 0..(now + MaxSkew) : Located!Submit(m, p, t)
  BY <1>1, SubmitKeeps
<1>2. CASE Located!Tick
  BY <1>2, TickKeeps
<1>3. CASE Located!Restart
  BY <1>3, LocationRestartKeeps
<1>4. CASE UNCHANGED Located!vars
  BY <1>4 DEF Located!vars, LocationInv, LocationTypes, Located!RecentIsKept, Located!Recent
<1> QED
  BY <1>1, <1>2, <1>3, <1>4 DEF Located!Next

\* However late the messages and however fast the clocks, a member's last
\* sample is there to be compared with while it is recent.
THEOREM RecentSamplesAreKept == Located!Spec => []RecentIsKept
<1>1. LocationInv => RecentIsKept
  BY DEF LocationInv, RecentIsKept
<1> QED
  BY LocationBegins, LocationInvLasts, <1>1, PTL DEF Located!Spec

\* Of finite sets the larger has no fewer elements, as the code counts them.
LEMMA NoFewer ==
    ASSUME NEW S \in SUBSET Members, NEW T \in SUBSET S
    PROVE  /\ Located!Cardinality(T) \in Nat /\ Located!Cardinality(S) \in Nat
           /\ Located!Cardinality(T) <= Located!Cardinality(S)
<1>1. \A U : Located!Cardinality(U) = Cardinality(U)
  BY DEF Located!Cardinality, Cardinality
<1>2. IsFiniteSet(Members)
  BY PartsAssumption DEF Located!LocationsAssumption, Located!IsFiniteSet, IsFiniteSet
<1>3. IsFiniteSet(S)
  BY <1>2, FS_Subset
<1>4. IsFiniteSet(T) /\ Cardinality(T) <= Cardinality(S)
  BY <1>3, FS_Subset
<1> QED
  BY <1>1, <1>3, <1>4, FS_CardinalityType

\* The sample stored now is compared with the last sample of everyone whose
\* last sample is recent, so whoever is near by those is found.
LEMMA SubmitSees ==
    ASSUME LocationInv, NEW k \in Members, NEW p \in Places, NEW t \in 0..(now + MaxSkew),
           Located!Submit(k, p, t), NEW m \in Members, reported'[m] # reported[m],
           1 + Located!Cardinality({n \in Members : Located!Together(m, n)}) >= MinCluster
    PROVE  /\ result'.of = m
           /\ {n \in Members : Located!Together(m, n)} \subseteq result'.near
<1> DEFINE s == [at |-> t, place |-> p]
           stored == [samples EXCEPT ![k] = s]
           left == Located!Pruned(stored, t)
           near == Located!Nearby(left, k)
           us == {n \in Members : Located!Together(m, n)}
<1>1. /\ t \in Nat /\ Ttl \in Nat /\ MaxSkew \in Nat /\ now \in Nat /\ MinCluster \in Nat
      /\ t <= now + MaxSkew /\ s \in SampleSet
  BY PartsAssumption DEF Located!LocationsAssumption, LocationInv, LocationTypes, SampleSet
<1>2. /\ reported' = [reported EXCEPT ![k] = s]
      /\ result' = IF 1 + Located!Cardinality(near) < MinCluster THEN Located!NoResult
                   ELSE [of |-> k, near |-> near]
  BY DEF Located!Submit
<1>3. m = k /\ reported'[k] = s
  BY <1>2 DEF LocationInv, LocationTypes
<1>4. stored \in [Members -> SampleSet] /\ stored[k] = s /\ s.at = t
  BY <1>1 DEF LocationInv, LocationTypes
<1>5. \A n \in Members : stored[n].at + Ttl >= t => left[n] = stored[n]
  BY <1>1, <1>4, PrunedKeeps DEF left
<1> HIDE DEF left, stored
<1>6. left[k] = s
  <2>1. stored[k].at + Ttl >= t
    BY <1>1, <1>4
  <2> QED
    BY <2>1, <1>4, <1>5
<1>7. us \subseteq near
  <2> SUFFICES ASSUME NEW n \in Members, Located!Together(m, n) PROVE n \in near
    OBVIOUS
  <2>1. /\ n # k /\ reported[n] # Located!None /\ reported[n].at + Ttl >= now + MaxSkew
        /\ samples[n] = reported[n] /\ reported[n].at \in Int
        /\ Located!Apart(s.at, reported[n].at) <= Ttl
        /\ Located!Apart(s.place, reported[n].place) <= Radius
    BY <1>3 DEF Located!Together, Located!Recent, LocationInv, LocationTypes,
                Located!RecentIsKept, SampleSet
  <2>2. stored[n] = reported[n]
    BY <2>1 DEF stored, LocationInv, LocationTypes
  <2>3. left[n] = reported[n]
    BY <1>1, <1>5, <2>1, <2>2
  <2> HIDE DEF s
  <2> QED
    BY <1>6, <2>1, <2>3 DEF Located!Nearby
<1>8. near \in SUBSET Members
  BY DEF Located!Nearby
<1> HIDE DEF near, us
<1>9. ~(1 + Located!Cardinality(near) < MinCluster)
  <2>1. /\ Located!Cardinality(us) \in Nat /\ Located!Cardinality(near) \in Nat
        /\ Located!Cardinality(us) <= Located!Cardinality(near)
    BY <1>7, <1>8, NoFewer
  <2>2. 1 + Located!Cardinality(us) >= MinCluster
    BY DEF us
  <2> QED
    BY <1>1, <2>1, <2>2
<1>10. result' = [of |-> k, near |-> near]
  BY <1>2, <1>9
<1> QED
  BY <1>3, <1>7, <1>10 DEF us

\* Members who stand together are reported together: whoever's message is
\* served last, its result names everyone near by a recent sample.
THEOREM NeighboursAreReported == Located!Spec => NeighboursAreSeen
<1> DEFINE Sees == \A m \in Members :
             LET us == {n \in Members : Located!Together(m, n)} IN
             reported'[m] # reported[m] /\ reported'[m] # Located!None
                /\ 1 + Located!Cardinality(us) >= MinCluster
                => result'.of = m /\ us \subseteq result'.near
<1>1. LocationInv /\ [Located!Next]_(Located!vars) => [Sees]_(Located!vars)
  <2> SUFFICES ASSUME LocationInv, Located!Next PROVE Sees
    OBVIOUS
  <2>1. CASE \E k \in Members, p \in Places, t \in 0..(now + MaxSkew) : Located!Submit(k, p, t)
    BY <2>1, SubmitSees
  <2>2. CASE Located!Tick
    BY <2>2 DEF Located!Tick
  <2>3. CASE Located!Restart
    BY <2>3 DEF Located!Restart
  <2> QED
    BY <2>1, <2>2, <2>3 DEF Located!Next
<1>2. [][Sees]_(Located!vars) => NeighboursAreSeen
  BY PTL DEF NeighboursAreSeen, Located!NeighboursAreSeen
<1> QED
  BY LocationBegins, LocationInvLasts, <1>1, <1>2, PTL DEF Located!Spec

-----------------------------------------------------------------------------
(* The buffering signal.                                                   *)
\* A signal is a record of four fields, whatever its identity and severity are.
SignalShape ==
    signal = [id |-> signal.id, severity |-> signal.severity,
              status |-> signal.status, due |-> signal.due]

SignalInv == SignalShape /\ Signals!QuietWasChosen

\* What a build makes of the signal has its shape; it is quiet only if it is
\* the signal before, which was as quiet.
LEMMA SignalKeepsChoice ==
    ASSUME SignalShape, NEW ps, NEW latest
    PROVE  LET new == Signals!Signal(ps, latest) IN
           /\ new = [id |-> new.id, severity |-> new.severity,
                     status |-> new.status, due |-> new.due]
           /\ new.status # "active" =>
                 /\ signal.status = new.status
                 /\ new.id = signal.id /\ new.severity = signal.severity
<1> DEFINE new == Signals!Signal(ps, latest)
<1>1. CASE ~Signals!Holds(ps)
  BY <1>1 DEF Signals!Signal, Signals!NoSignal
<1>2. CASE Signals!Holds(ps) /\ Signals!Raised /\ signal.severity = latest.severity
  <2>1. new = Signals!Kept
    BY <1>2 DEF Signals!Signal
  <2>2. CASE signal.due
    <3>1. new = [id |-> signal.id, severity |-> signal.severity,
                 status |-> "active", due |-> FALSE]
      BY <2>1, <2>2 DEF Signals!Kept, SignalShape
    <3> QED
      BY <3>1
  <2>3. CASE ~signal.due
    BY <2>1, <2>3 DEF Signals!Kept, SignalShape
  <2> QED
    BY <2>2, <2>3
<1>3. CASE Signals!Holds(ps) /\ ~(Signals!Raised /\ signal.severity = latest.severity)
  <2>1. new = [id |-> (raised % MaxSignals) + 1, severity |-> latest.severity,
               status |-> "active", due |-> FALSE]
    BY <1>3 DEF Signals!Signal
  <2> QED
    BY <2>1
<1> QED
  BY <1>1, <1>2, <1>3

LEMMA SignalInvLasts == SignalInv /\ [Signals!Next]_(Signals!vars) => SignalInv'
<1> SUFFICES ASSUME SignalInv, [Signals!Next]_(Signals!vars) PROVE SignalInv'
  OBVIOUS
<1> USE DEF SignalInv, SignalShape, Signals!QuietWasChosen
<1>same. ASSUME UNCHANGED <<signal, chosen>> PROVE SignalInv'
  BY <1>same
<1>hold. ASSUME NEW m \in Senders, Signals!Hold(m) PROVE SignalInv'
  BY <1>hold, <1>same DEF Signals!Hold
<1>read. ASSUME NEW s \in Streams, Signals!Read(s) PROVE SignalInv'
  BY <1>read, <1>same DEF Signals!Read
<1>build. ASSUME NEW s \in Streams, Signals!Build(s) PROVE SignalInv'
  <2>1. PICK ps, latest : signal' = Signals!Signal(ps, latest) /\ chosen' = chosen
    BY <1>build DEF Signals!Build
  <2> QED
    BY <2>1, SignalKeepsChoice
<1>choose. ASSUME NEW status, Signals!Choose(status) PROVE SignalInv'
  <2>1. /\ signal' = [id |-> signal.id, severity |-> signal.severity,
                      status |-> status, due |-> FALSE]
        /\ chosen' = [id |-> signal.id, severity |-> signal.severity]
    BY <1>choose DEF Signals!Choose
  <2> QED
    BY <2>1
<1>passes. CASE Signals!SnoozePasses
  <2>1. /\ signal' = [id |-> signal.id, severity |-> signal.severity,
                      status |-> signal.status, due |-> TRUE]
        /\ chosen' = chosen
    BY <1>passes DEF Signals!SnoozePasses
  <2> QED
    BY <2>1
<1>stutter. CASE UNCHANGED Signals!vars
  BY <1>stutter, <1>same DEF Signals!vars
<1> QED
  BY <1>hold, <1>read, <1>build, <1>choose, <1>passes, <1>stutter
     DEF Signals!Next, Signals!Acknowledge, Signals!Snooze

\* A signal is quiet only if the operator quieted that very signal at that
\* severity, whatever the polls that interleave make of it.
THEOREM QuietIsChosen ==
    Signals!Init /\ [][Signals!Next]_(Signals!vars) => []QuietWasChosen
<1>1. Signals!Init => SignalInv
  BY DEF Signals!Init, SignalInv, SignalShape, Signals!NoSignal, Signals!QuietWasChosen
<1>2. SignalInv => QuietWasChosen
  BY DEF SignalInv, QuietWasChosen
<1> QED
  BY <1>1, <1>2, SignalInvLasts, PTL

-----------------------------------------------------------------------------
\* What was proved of the parts holds wherever they run side by side.
THEOREM PartsHold ==
    AllSpec => IsReportLog /\ []RecentIsKept /\ NeighboursAreSeen /\ []QuietWasChosen
BY Composed, NotesAreLogged, RecentSamplesAreKept, NeighboursAreReported, QuietIsChosen, PTL
================================================================================
