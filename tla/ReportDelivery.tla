--------------------------- MODULE ReportDelivery ---------------------------
(***************************************************************************)
(* A member's field notes on their way from the browser's outbox           *)
(* (static/member-outbox.js and its use in static/member.js) over          *)
(* WebSockets that come and go to the hub's report handler (server.py) and *)
(* the transaction that records each of them once (db.py).                 *)
(*                                                                         *)
(* The browser is one thread: between two IndexedDB requests of one        *)
(* function, others run.  IndexedDB answers the requests of this store in  *)
(* the order in which they were made, so the functions under way are the   *)
(* requests they wait for: `requests` holds one per call, and the head of  *)
(* it is answered next.                                                    *)
(*                                                                         *)
(* Entries belong to a scope, the member's session in one operation: when  *)
(* the session ends the page deletes them, and what it leaves behind is    *)
(* deleted by the first refresh of the next session.                       *)
(*                                                                         *)
(* Left out: notes the hub refuses (an empty text), media entries, the     *)
(* retry button, the button that discards all notes at once, and what the  *)
(* coordinator engine does with a report.                                  *)
(***************************************************************************)
EXTENDS Integers, Sequences, FiniteSets, FiniteSetsExt, SequencesExt

CONSTANTS
  NReports,   \* how many notes the member writes; createdAt orders them
  Sockets,    \* connections that exist at a time; an ended one is reused
  NoSocket,   \* "no connection"
  MaxPending, \* member_outbox_max_items
  MaxFaults,  \* how often the network, the hub, the page or a session fails
  MayDiscard  \* the notes that the member may discard

ASSUME ConstantsOK ==
  /\ NReports \in Nat
  /\ NoSocket \notin Sockets
  /\ MaxPending \in Nat \ {0}
  /\ MaxFaults \in Nat
  /\ MayDiscard \subseteq 1..NReports

Reports == 1..NReports
NoReport == 0
AuthOk      == 0   \* auth_ok, among the acknowledgements
SessionOver == -1  \* op_ended or wipe; or the close code 4003 or 4004

VARIABLES
  wrote,     \* the notes submitted so far are 1..wrote
  box,       \* the IndexedDB store
  requests,  \* the answers its callers wait for
  inFlight,  \* inFlightEntryId
  sock,      \* the page's WebSocket, until its close event
  authed,    \* state.authenticated
  missed,    \* history: an auth_ok found a flush that had already given up
  session,   \* of the page: "member", "told" of its end, or "leaving"
  doomed,    \* the entries clearPending is deleting
  old,       \* the notes up to this one belong to another scope
  up,        \* the transport under each connection
  wire,      \* the notes on their way to the hub
  back,      \* auth_ok and the acknowledgements on their way to the page
  pc,        \* where the hub's handler of a connection is suspended
  handling,  \* the note it handles
  saw,       \* whether its SELECT found a receipt
  receipts,  \* the rows of ingest_receipts
  events,    \* how many events record each note
  kept,      \* history: the notes that were put into the store
  discarded, \* history: those the member removed from it
  over,      \* history: the notes up to this one were written in ended sessions
  faults     \* how many failures there were

connVars == <<sock, authed, missed, session, doomed, old>>
pageVars == <<box, requests, inFlight, connVars>>
linkVars == <<up, wire, back>>
hubVars  == <<pc, handling, saw>>
dbVars   == <<receipts, events>>
history  == <<kept, discarded, over, faults>>
vars == <<wrote, pageVars, linkVars, hubVars, dbVars, history>>

Init ==
  /\ wrote = 0
  /\ box = {} /\ requests = <<>> /\ inFlight = NoReport
  /\ sock = NoSocket /\ authed = FALSE /\ missed = FALSE
  /\ session = "member" /\ doomed = {} /\ old = 0
  /\ up   = [s \in Sockets |-> FALSE]
  /\ wire = [s \in Sockets |-> <<>>]
  /\ back = [s \in Sockets |-> <<>>]
  /\ pc       = [s \in Sockets |-> "free"]
  /\ handling = [s \in Sockets |-> NoReport]
  /\ saw      = [s \in Sockets |-> FALSE]
  /\ receipts = {}
  /\ events   = [r \in Reports |-> 0]
  /\ kept = {} /\ discarded = {} /\ over = 0 /\ faults = 0

-----------------------------------------------------------------------------
(* The outbox.                                                             *)

Ask(by, op, r) == [by |-> by, op |-> op, of |-> r]

\* flushPromise # null
Flushing(q) == \E i \in DOMAIN q : q[i].by = "flush"

\* flush(): joins the one under way; otherwise looks for the first entry, or
\* only refreshes the snapshot when nothing can be sent now.
Flush(q, canSend, flying) ==
  IF Flushing(q) THEN q
  ELSE IF canSend /\ flying = NoReport THEN Append(q, Ask("flush", "look", NoReport))
  ELSE Append(q, Ask("flush", "prune", NoReport))

\* getEntriesForScope() and the lookup keys find the entries of this session.
Entries == box \ 1..old

\* canSend(): a page that was told of the end (endingOperation) sends no more.
CanSend == authed /\ session # "told"

\* The head of the requests is the given one.
Answers(by, op) ==
  /\ requests # <<>>
  /\ Head(requests).by = by /\ Head(requests).op = op

Answered == Head(requests).of
Goes(by, op, r) == requests' = Append(Tail(requests), Ask(by, op, r))
Returns == requests' = Tail(requests)

\* The member submits a note: enqueueReport counts the entries first.  One
\* that is written while the page leaves is of the session that ends.
Write ==
  /\ wrote < NReports
  /\ wrote' = wrote + 1
  /\ requests' = Append(requests, Ask("add", "look", wrote'))
  /\ over' = IF session = "leaving" THEN wrote' ELSE over
  /\ UNCHANGED <<box, inFlight, connVars, linkVars, hubVars, dbVars, kept, discarded, faults>>

\* A full outbox refuses the note (it stays in the text field).
AddLook ==
  /\ Answers("add", "look")
  /\ IF Cardinality(Entries) >= MaxPending THEN Returns ELSE Goes("add", "put", Answered)
  /\ UNCHANGED <<wrote, box, inFlight, connVars, linkVars, hubVars, dbVars, history>>

AddPut ==
  /\ Answers("add", "put")
  /\ box'  = box \cup {Answered}
  /\ kept' = kept \cup {Answered}
  /\ Goes("add", "prune", Answered)
  /\ UNCHANGED <<wrote, inFlight, connVars, linkVars, hubVars, dbVars,
                 discarded, over, faults>>

\* refresh() is two requests, whoever calls it; the first, pruneToScope,
\* deletes what other sessions left.
Prune ==
  /\ \E by \in {"flush", "add", "ack", "refresh"} :
       Answers(by, "prune") /\ Goes(by, "list", Answered)
  /\ box' = Entries
  /\ UNCHANGED <<wrote, inFlight, connVars, linkVars, hubVars, dbVars, history>>

Refreshed ==
  /\ Answers("flush", "list") \/ Answers("refresh", "list")
  /\ Returns
  /\ UNCHANGED <<wrote, box, inFlight, connVars, linkVars, hubVars, dbVars, history>>

\* A fault: handleAck does not flush.
FlushesAtEnd_AddOnly ==
  /\ Answers("add", "list") \/ Answers("ack", "list")
  /\ requests' = IF Answers("ack", "list") THEN Tail(requests)
                 ELSE Flush(Tail(requests), CanSend, inFlight)
  /\ UNCHANGED <<wrote, box, inFlight, connVars, linkVars, hubVars, dbVars, history>>

\* enqueueReport and handleAck flush at their end.
FlushesAtEnd ==
  /\ Answers("add", "list") \/ Answers("ack", "list")
  /\ requests' = Flush(Tail(requests), CanSend, inFlight)
  /\ UNCHANGED <<wrote, box, inFlight, connVars, linkVars, hubVars, dbVars, history>>

FlushLook ==
  /\ Answers("flush", "look")
  /\ IF Entries = {} THEN Goes("flush", "prune", NoReport)
                     ELSE Goes("flush", "put", Min(Entries))
  /\ UNCHANGED <<wrote, box, inFlight, connVars, linkVars, hubVars, dbVars, history>>

\* The attempt is counted in the entry -- which puts it back if it was deleted
\* meanwhile -- and then sent, if the page still believes in its connection.
FlushPut ==
  /\ Answers("flush", "put")
  /\ box' = box \cup {Answered}
  /\ Goes("flush", "prune", NoReport)
  /\ IF sock = NoSocket
     THEN UNCHANGED <<inFlight, wire>>
     ELSE /\ inFlight' = Answered
          /\ wire' = IF up[sock] THEN [wire EXCEPT ![sock] = Append(@, Answered)] ELSE wire
  /\ UNCHANGED <<wrote, connVars, up, back, hubVars, dbVars, history>>

\* handleAck: an acknowledgement for an entry that is gone does nothing.
AckLook ==
  /\ Answers("ack", "look")
  /\ IF Answered \in Entries
     THEN /\ inFlight' = IF inFlight = Answered THEN NoReport ELSE inFlight
          /\ Goes("ack", "delete", Answered)
     ELSE Returns /\ UNCHANGED inFlight
  /\ UNCHANGED <<wrote, box, connVars, linkVars, hubVars, dbVars, history>>

AckDelete ==
  /\ Answers("ack", "delete")
  /\ box' = box \ {Answered}
  /\ Goes("ack", "prune", Answered)
  /\ UNCHANGED <<wrote, inFlight, connVars, linkVars, hubVars, dbVars, history>>

\* markInflightRetry: the entry is looked for, and put with its new error.
\* (Its refresh, and removeEntry's, change nothing and start nothing.)
RetryLook ==
  /\ Answers("retry", "look")
  /\ IF Answered \in Entries THEN Goes("retry", "put", Answered) ELSE Returns
  /\ UNCHANGED <<wrote, box, inFlight, connVars, linkVars, hubVars, dbVars, history>>

RetryPut ==
  /\ Answers("retry", "put")
  /\ box' = box \cup {Answered}
  /\ Returns
  /\ UNCHANGED <<wrote, inFlight, connVars, linkVars, hubVars, dbVars, history>>

\* removeEntry, from the list of queued items.
Discard(r) ==
  /\ r \in MayDiscard /\ r \in Entries /\ r \notin discarded
  /\ inFlight'  = IF inFlight = r THEN NoReport ELSE inFlight
  /\ requests'  = Append(requests, Ask("discard", "delete", r))
  /\ discarded' = discarded \cup {r}
  /\ UNCHANGED <<wrote, box, connVars, linkVars, hubVars, dbVars, kept, over, faults>>

DiscardDelete ==
  /\ Answers("discard", "delete")
  /\ box' = box \ {Answered}
  /\ Returns
  /\ UNCHANGED <<wrote, inFlight, connVars, linkVars, hubVars, dbVars, history>>

\* clearPending() lists the entries of the session, deletes each of them, and
\* refreshes.
ClearLook ==
  /\ Answers("clear", "look")
  /\ doomed' = Entries
  /\ Goes("clear", "delete", NoReport)
  /\ UNCHANGED <<wrote, box, inFlight, sock, authed, missed, session, old, linkVars, hubVars,
                 dbVars, history>>

ClearDelete ==
  /\ Answers("clear", "delete")
  /\ box' = box \ doomed /\ doomed' = {}
  /\ inFlight' = NoReport
  /\ Goes("refresh", "prune", NoReport)
  /\ UNCHANGED <<wrote, sock, authed, missed, session, old, linkVars, hubVars, dbVars,
                 history>>

-----------------------------------------------------------------------------
(* The page's connection.                                                  *)

\* connectMemberSocket does nothing once the session ended; a page that is
\* loaded calls it when its first refresh has returned.
Connect(s) ==
  /\ session = "member" /\ sock = NoSocket /\ pc[s] = "free"
  /\ \A i \in DOMAIN requests : requests[i].by # "refresh"
  /\ sock' = s
  /\ up'   = [up EXCEPT ![s] = TRUE]
  /\ pc'   = [pc EXCEPT ![s] = "auth"]
  /\ UNCHANGED <<wrote, box, requests, inFlight, authed, missed, session, doomed, old,
                 wire, back, handling, saw, dbVars, history>>

\* auth_ok flushes the outbox; the end of the session is noted; an
\* acknowledgement starts a handleAck.
Hear ==
  /\ sock # NoSocket /\ back[sock] # <<>>
  /\ back' = [back EXCEPT ![sock] = Tail(@)]
  /\ LET what == Head(back[sock]) IN
     \/ /\ what = AuthOk
        /\ authed' = TRUE
        /\ requests' = Flush(requests, session # "told", inFlight)
        /\ missed' = Flushing(requests)
        /\ UNCHANGED session
     \/ /\ what = SessionOver
        /\ session' = IF session = "member" THEN "told" ELSE session
        /\ UNCHANGED <<authed, requests, missed>>
     \/ /\ what \notin {AuthOk, SessionOver}
        /\ requests' = Append(requests, Ask("ack", "look", what))
        /\ UNCHANGED <<authed, missed, session>>
  /\ UNCHANGED <<wrote, box, inFlight, sock, doomed, old, up, wire, hubVars, dbVars, history>>

\* A fault: markInflightRetry leaves inFlightEntryId.
Closed_StaysInFlight ==
  /\ sock # NoSocket /\ ~up[sock] /\ back[sock] = <<>>
  /\ sock' = NoSocket
  /\ authed' = FALSE
  /\ UNCHANGED <<wrote, box, requests, inFlight, missed, session, doomed, old, linkVars,
                 hubVars, dbVars, history>>

\* The close event, after whatever still arrived.
Closed ==
  /\ sock # NoSocket /\ ~up[sock] /\ back[sock] = <<>>
  /\ sock' = NoSocket
  /\ authed' = FALSE
  /\ inFlight' = NoReport
  /\ requests' = IF inFlight = NoReport THEN requests
                 ELSE Append(requests, Ask("retry", "look", inFlight))
  /\ UNCHANGED <<wrote, box, missed, session, doomed, old, linkVars, hubVars, dbVars,
                 history>>

\* clearMemberSession: a little after the end was heard, or at once by the
\* Leave button or a page that is loaded without a session.  Notes written so
\* far are no longer kept for anyone.
Leaves ==
  /\ \/ session = "told" /\ UNCHANGED faults
     \/ session = "member" /\ faults < MaxFaults /\ faults' = faults + 1
  /\ session' = "leaving" /\ authed' = FALSE
  /\ requests' = Append(requests, Ask("clear", "look", NoReport))
  /\ over' = wrote
  /\ UNCHANGED <<wrote, box, inFlight, sock, missed, doomed, old, linkVars, hubVars, dbVars,
                 kept, discarded>>

\* A page comes without what another one was doing; its connection goes with it.
NewPage ==
  /\ inFlight' = NoReport /\ sock' = NoSocket /\ authed' = FALSE
  /\ session' = "member" /\ doomed' = {}
  /\ up'   = [s \in Sockets |-> up[s] /\ s # sock]
  /\ back' = [s \in Sockets |-> IF s = sock THEN <<>> ELSE back[s]]

\* The outbox is cleared, and the member joins again: under another id, so in
\* another scope.  Every page starts with a refresh.
Rejoin ==
  /\ session = "leaving" /\ \A i \in DOMAIN requests : requests[i].by # "clear"
  /\ NewPage
  /\ requests' = <<Ask("refresh", "prune", NoReport)>>
  /\ old' = wrote
  /\ UNCHANGED <<wrote, box, missed, wire, hubVars, dbVars, history>>

\* What is under way on a connection that breaks arrives up to some point.
Break(s) ==
  /\ up[s] /\ faults < MaxFaults
  /\ faults' = faults + 1
  /\ up' = [up EXCEPT ![s] = FALSE]
  /\ \E q \in Prefixes(wire[s]) : wire' = [wire EXCEPT ![s] = q]
  /\ \E q \in Prefixes(back[s]) : back' = [back EXCEPT ![s] = q]
  /\ UNCHANGED <<wrote, pageVars, hubVars, dbVars, kept, discarded, over>>

\* The page is reloaded or killed; the store and the session stay.
Reload ==
  /\ faults < MaxFaults
  /\ faults' = faults + 1
  /\ NewPage
  /\ requests' = <<Ask("refresh", "prune", NoReport)>>
  /\ UNCHANGED <<wrote, box, missed, old, wire, hubVars, dbVars, kept, discarded, over>>

-----------------------------------------------------------------------------
(* The hub's handler of connection s.                                      *)

Free(s) ==
  /\ pc' = [pc EXCEPT ![s] = "free"]
  /\ handling' = [handling EXCEPT ![s] = NoReport]
  /\ saw' = [saw EXCEPT ![s] = FALSE]

\* What the hub sends on a connection that is gone is lost.
SendBack(s, what) ==
  back' = IF up[s] THEN [back EXCEPT ![s] = Append(@, what)] ELSE back

Authenticate(s) ==
  /\ pc[s] = "auth"
  /\ SendBack(s, AuthOk)
  /\ pc' = [pc EXCEPT ![s] = "receive"]
  /\ UNCHANGED <<wrote, pageVars, up, wire, handling, saw, dbVars, history>>

\* No operation, or no member for the cookie: close code 4004 or 4003.
Refuse(s) ==
  /\ pc[s] = "auth" /\ faults < MaxFaults
  /\ faults' = faults + 1
  /\ SendBack(s, SessionOver)
  /\ up' = [up EXCEPT ![s] = FALSE]
  /\ Free(s)
  /\ UNCHANGED <<wrote, pageVars, wire, dbVars, kept, discarded, over>>

\* The end of the operation is broadcast to the connections that are members'.
TellEnd(s) ==
  /\ pc[s] \notin {"free", "auth"} /\ up[s] /\ faults < MaxFaults
  /\ faults' = faults + 1
  /\ SendBack(s, SessionOver)
  /\ UNCHANGED <<wrote, pageVars, up, wire, hubVars, dbVars, kept, discarded, over>>

Receive(s) ==
  /\ pc[s] = "receive" /\ wire[s] # <<>>
  /\ handling' = [handling EXCEPT ![s] = Head(wire[s])]
  /\ wire' = [wire EXCEPT ![s] = Tail(@)]
  /\ pc'   = [pc EXCEPT ![s] = "look"]
  /\ UNCHANGED <<wrote, pageVars, up, back, saw, dbVars, history>>

\* insert_manual_report_once: SELECT ... FOR UPDATE locks a row that exists.
Look(s) ==
  /\ pc[s] = "look"
  /\ saw' = [saw EXCEPT ![s] = handling[s] \in receipts]
  /\ pc'  = [pc EXCEPT ![s] = "store"]
  /\ UNCHANGED <<wrote, pageVars, linkVars, handling, dbVars, history>>

\* A fault: a receipt inserted meanwhile goes unnoticed.
Store_NoUniqueKey(s) ==
  /\ pc[s] = "store"
  /\ pc' = [pc EXCEPT ![s] = "answer"]
  /\ receipts' = receipts \cup {handling[s]}
  /\ events' = IF saw[s] THEN events ELSE [events EXCEPT ![handling[s]] = @ + 1]
  /\ UNCHANGED <<wrote, pageVars, linkVars, handling, saw, history>>

\* A note seen before is answered from its receipt (and its event inserted
\* again, should it be missing); a new one commits event and receipt at once.
Store(s) ==
  /\ pc[s] = "store"
  /\ saw[s] \/ handling[s] \notin receipts
  /\ pc' = [pc EXCEPT ![s] = "answer"]
  /\ receipts' = receipts \cup {handling[s]}
  /\ events' = IF saw[s] /\ events[handling[s]] > 0 THEN events
               ELSE [events EXCEPT ![handling[s]] = @ + 1]
  /\ UNCHANGED <<wrote, pageVars, linkVars, handling, saw, history>>

\* The receipt was inserted since the SELECT: the primary key refuses this
\* one, the transaction is rolled back, and the exception closes the socket.
StoreFails(s) ==
  /\ pc[s] = "store"
  /\ ~saw[s] /\ handling[s] \in receipts
  /\ Free(s)
  /\ up'   = [up EXCEPT ![s] = FALSE]
  /\ wire' = [wire EXCEPT ![s] = <<>>]
  /\ UNCHANGED <<wrote, pageVars, back, dbVars, history>>

\* The audit record and the acknowledgement; a closed socket raises instead.
Answer(s) ==
  /\ pc[s] = "answer"
  /\ SendBack(s, handling[s])
  /\ IF up[s]
     THEN /\ pc' = [pc EXCEPT ![s] = "receive"]
          /\ handling' = [handling EXCEPT ![s] = NoReport]
          /\ saw' = [saw EXCEPT ![s] = FALSE]
          /\ UNCHANGED wire
     ELSE Free(s) /\ wire' = [wire EXCEPT ![s] = <<>>]
  /\ UNCHANGED <<wrote, pageVars, up, dbVars, history>>

\* receive() reports the disconnect once everything before it was read.
Leave(s) ==
  /\ pc[s] = "receive" /\ wire[s] = <<>> /\ ~up[s]
  /\ Free(s)
  /\ UNCHANGED <<wrote, pageVars, linkVars, dbVars, history>>

\* The hub crashes and is started again: an open transaction is rolled back.
Crash ==
  /\ faults < MaxFaults
  /\ faults' = faults + 1
  /\ pc'       = [s \in Sockets |-> "free"]
  /\ handling' = [s \in Sockets |-> NoReport]
  /\ saw'      = [s \in Sockets |-> FALSE]
  /\ up'       = [s \in Sockets |-> FALSE]
  /\ wire'     = [s \in Sockets |-> <<>>]
  /\ UNCHANGED <<wrote, pageVars, back, dbVars, kept, discarded, over>>

\* prune_ingest_receipts: a day after a note was last answered its receipt is
\* deleted.  A transaction that has locked the row is waited for.
Forget(r) ==
  /\ r \in receipts /\ faults < MaxFaults
  /\ \A s \in Sockets : ~(pc[s] = "store" /\ saw[s] /\ handling[s] = r)
  /\ faults' = faults + 1
  /\ receipts' = receipts \ {r}
  /\ UNCHANGED <<wrote, pageVars, linkVars, hubVars, events, kept, discarded, over>>

-----------------------------------------------------------------------------

Outbox ==
  \/ Write \/ AddLook \/ AddPut \/ Prune
  \/ FlushLook \/ FlushPut \/ Refreshed \/ FlushesAtEnd
  \/ AckLook \/ AckDelete \/ RetryLook \/ RetryPut
  \/ \E r \in Reports : Discard(r)
  \/ DiscardDelete \/ ClearLook \/ ClearDelete

Page == Hear \/ Closed \/ Leaves \/ Rejoin \/ Reload \/ \E s \in Sockets : Connect(s)

Handler(s) ==
  \/ Authenticate(s) \/ Receive(s) \/ Look(s)
  \/ Store(s) \/ StoreFails(s) \/ Answer(s) \/ Leave(s)

Next ==
  \/ Outbox
  \/ Page
  \/ \E s \in Sockets : Handler(s) \/ Refuse(s) \/ TellEnd(s) \/ Break(s)
  \/ Crash
  \/ \E r \in Reports : Forget(r)

Spec == Init /\ [][Next]_vars

\* IndexedDB answers, both event loops run, the page reconnects (its timer
\* restarts itself), and a connection that does not break delivers.
Fairness ==
  /\ WF_vars(Outbox /\ requests' # requests /\ wrote' = wrote /\ discarded' = discarded)
  /\ WF_vars(Hear) /\ WF_vars(Closed)
  /\ WF_vars(\E s \in Sockets : Connect(s))
  /\ \A s \in Sockets : WF_vars(Handler(s))

FairSpec == Spec /\ Fairness

-----------------------------------------------------------------------------
(* Properties of the code as it is.                                        *)

\* Each step is one of ReportLog's or changes nothing there: whatever is
\* resent, lost on the way, or handled by two connections at once, a note the
\* outbox has kept becomes one event, and no second one while its receipt
\* stands; and until then it is in the outbox, unless its session ended.
Fate(r) ==
  IF events[r] > 0 THEN IF r \in receipts THEN "recorded" ELSE "forgotten"
  ELSE IF r \in discarded THEN "discarded"
  ELSE IF r \in box THEN "kept"
  ELSE IF r \in kept THEN "lost"
  ELSE "unwritten"

Log == INSTANCE ReportLog WITH
         fate <- [r \in Reports |-> Fate(r)], times <- events, ended <- 1..over

IsReportLog == Log!Spec

\* A transmission is never forgotten: it ends with an acknowledgement or with
\* the close of its connection.  (flush() sends nothing while inFlightEntryId
\* is set, so one that stayed would stop the outbox for good.)
InFlightIsSettled ==
  \A r \in Reports : (inFlight = r) ~> (inFlight # r)

\* An authenticated connection delivers every note of the outbox, or it or the
\* session ends, unless its auth_ok came while an earlier flush was about to
\* return without sending.  (A recorded note may stay in the
\* box: an acknowledgement that finds a flush under way starts no other.)
DeliversUnlessMissed ==
  \A r \in Reports :
    (authed /\ session = "member" /\ r \in Entries /\ events[r] = 0)
      ~> (events[r] > 0 \/ ~authed \/ missed \/ session # "member")

=============================================================================
