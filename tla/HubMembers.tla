----------------------------- MODULE HubMembers -----------------------------
(***************************************************************************)
(* Membership of one operation: OperationManager's member records, the     *)
(* members table behind them, ConnectionManager's one entry per member,    *)
(* and the coroutines of the hub's event loop that change them -- one      *)
(* /ws handler per WebSocket, the kick endpoint, the heartbeat watcher.    *)
(* A step of the model is what one coroutine does between two awaits, so   *)
(* the interleavings are those of asyncio.                                 *)
(*                                                                         *)
(* A member's reconnect token is its identity here: who resumes m holds    *)
(* m's token (operation.py:163).  The audit and last-seen writes change    *)
(* nothing the properties see; what is kept of them is that they suspend   *)
(* the coroutine.                                                          *)
(***************************************************************************)
EXTENDS Naturals, FiniteSets

CONSTANTS
  Members,    \* the identities that may ever join the operation
  Sockets,    \* WebSockets the server holds at a time; a closed one is reused
  NoMember,   \* "no member"
  NoSocket,   \* "no socket"
  Kickable,   \* the members the coordinator may kick
  MayRestart  \* whether the hub may crash and be started again

ASSUME ConstantsOK ==
  /\ NoMember \notin Members
  /\ NoSocket \notin Sockets
  /\ Kickable \subseteq Members
  /\ MayRestart \in BOOLEAN

VARIABLES
  status,   \* Member.status in memory; "absent" = not in op_manager.members
  row,      \* the status column of the members table; "absent" = no row
  conn,     \* ConnectionManager.connections
  stale,    \* last_seen_monotonic is at least the heartbeat timeout ago
  pc,       \* where the handler of each socket is suspended
  owner,    \* the member a handler has resumed or added
  link,     \* the WebSocket: "open", "quiet" (its client no longer runs), "closed"
  kick,     \* where the kick request for a member is suspended
  kicked,   \* history: the members whose kick request was answered
  watch,    \* where the heartbeat watcher is suspended
  due,      \* what is left of its stale_member_ids() list
  target    \* the member it is dealing with

handlerVars == <<pc, owner, link>>
kickVars    == <<kick, kicked>>
watchVars   == <<watch, due, target>>
vars == <<status, row, conn, stale, handlerVars, kickVars, watchVars>>

Status == {"absent", "connected", "disconnected", "kicked"}

\* "writing": in add_member or resume_member, waiting for the members table;
\* "admitting": past that write, in the audit and wipe follow-up awaits;
\* "replacing": waiting for the member's former WebSocket to close;
\* "serving": registered, from auth_ok on; "leaving": in mark_disconnected.
HandlerState == {"free", "writing", "admitting", "replacing", "serving", "leaving"}

TypeOK ==
  /\ status \in [Members -> Status]
  /\ row    \in [Members -> Status]
  /\ conn   \in [Members -> Sockets \cup {NoSocket}]
  /\ stale  \in [Members -> BOOLEAN]
  /\ pc     \in [Sockets -> HandlerState]
  /\ owner  \in [Sockets -> Members \cup {NoMember}]
  /\ link   \in [Sockets -> {"open", "quiet", "closed"}]
  /\ kick   \in [Members -> {"idle", "writing", "closing"}]
  /\ kicked \in SUBSET Members
  /\ watch  \in {"scan", "next", "closing", "marking"}
  /\ due    \in SUBSET Members
  /\ target \in Members \cup {NoMember}
  \* the three tables of ConnectionManager have the same keys
  /\ \A m \in Members : stale[m] => conn[m] # NoSocket
  /\ \A s \in Sockets : pc[s] = "free" <=> owner[s] = NoMember
  /\ target = NoMember <=> watch \in {"scan", "next"}

Registered(m) == conn[m] # NoSocket

Init ==
  /\ status = [m \in Members |-> "absent"]
  /\ row    = [m \in Members |-> "absent"]
  /\ conn   = [m \in Members |-> NoSocket]
  /\ stale  = [m \in Members |-> FALSE]
  /\ pc     = [s \in Sockets |-> "free"]
  /\ owner  = [s \in Sockets |-> NoMember]
  /\ link   = [s \in Sockets |-> "closed"]
  /\ kick   = [m \in Members |-> "idle"]
  /\ kicked = {}
  /\ watch  = "scan"
  /\ due    = {}
  /\ target = NoMember

-----------------------------------------------------------------------------
(* ConnectionManager and the members table.                                *)

Register(m, s) ==
  /\ conn'  = [conn EXCEPT ![m] = s]
  /\ stale' = [stale EXCEPT ![m] = FALSE]

\* By member id, whichever WebSocket the entry holds by now.
Unregister(m) ==
  /\ conn'  = [conn EXCEPT ![m] = NoSocket]
  /\ stale' = [stale EXCEPT ![m] = FALSE]

\* UPDATE ... WHERE id = m: no effect while the row has not been inserted.
UpdateRow(m, value) ==
  row' = IF row[m] = "absent" THEN row ELSE [row EXCEPT ![m] = value]

\* mark_disconnected up to its write; nothing to write for a member already
\* disconnected, and a kicked member stays kicked.
MarksDisconnected(m) == status[m] = "connected"

\* A fault: the early return for a kicked member is missing.
MarkDisconnected_Always(m) ==
  status' = [status EXCEPT ![m] = "disconnected"]

MarkDisconnected(m) ==
  status' = IF MarksDisconnected(m)
            THEN [status EXCEPT ![m] = "disconnected"]
            ELSE status

-----------------------------------------------------------------------------
(* The /ws handler of socket s.                                            *)

\* A first join with the operation token: add_member makes a new identity.
Join(s, m) ==
  /\ pc[s] = "free" /\ status[m] = "absent"
  /\ status' = [status EXCEPT ![m] = "connected"]
  /\ pc'     = [pc EXCEPT ![s] = "writing"]
  /\ owner'  = [owner EXCEPT ![s] = m]
  /\ link'   = [link EXCEPT ![s] = "open"]
  /\ UNCHANGED <<row, conn, stale, kickVars, watchVars>>

\* A reconnect: resume_member refuses an unknown or kicked member, and sets
\* the status before its first await.
Resume(s, m) ==
  /\ pc[s] = "free" /\ status[m] \in {"connected", "disconnected"}
  /\ status' = [status EXCEPT ![m] = "connected"]
  /\ pc'     = [pc EXCEPT ![s] = "writing"]
  /\ owner'  = [owner EXCEPT ![s] = m]
  /\ link'   = [link EXCEPT ![s] = "open"]
  /\ UNCHANGED <<row, conn, stale, kickVars, watchVars>>

\* INSERT (the column's default) or mark_member_connected, whatever the
\* member's status has become meanwhile.
Written(s) ==
  /\ pc[s] = "writing"
  /\ row' = [row EXCEPT ![owner[s]] = "connected"]
  /\ pc'  = [pc EXCEPT ![s] = "admitting"]
  /\ UNCHANGED <<status, conn, stale, owner, link, kickVars, watchVars>>

\* The member has no other connection: register this one.
Admit(s) ==
  /\ pc[s] = "admitting" /\ ~Registered(owner[s])
  /\ Register(owner[s], s)
  /\ pc' = [pc EXCEPT ![s] = "serving"]
  /\ UNCHANGED <<status, row, owner, link, kickVars, watchVars>>

\* It has one: conn_manager.disconnect closes that WebSocket first ...
Replace(s) ==
  /\ pc[s] = "admitting" /\ Registered(owner[s])
  /\ link' = [link EXCEPT ![conn[owner[s]]] = "closed"]
  /\ pc'   = [pc EXCEPT ![s] = "replacing"]
  /\ UNCHANGED <<status, row, conn, stale, owner, kickVars, watchVars>>

\* ... then unregisters the member, and the handler registers its own.
Replaced(s) ==
  /\ pc[s] = "replacing"
  /\ Register(owner[s], s)
  /\ pc' = [pc EXCEPT ![s] = "serving"]
  /\ UNCHANGED <<status, row, owner, link, kickVars, watchVars>>

\* A message: mark_seen refreshes the member's entry, whichever socket it
\* holds.  What the handlers of the message types do is in other modules.
Message(s) ==
  /\ pc[s] = "serving" /\ link[s] = "open"
  /\ stale[owner[s]]
  /\ stale' = [stale EXCEPT ![owner[s]] = FALSE]
  /\ UNCHANGED <<status, row, conn, handlerVars, kickVars, watchVars>>

\* Ends the handler of s, whose WebSocket is closed.
EndHandler(s) ==
  /\ pc'    = [pc EXCEPT ![s] = "free"]
  /\ owner' = [owner EXCEPT ![s] = NoMember]
  /\ UNCHANGED link

\* A fault: only a member still connected is unregistered.
Leave_NotListed(s) ==
  /\ pc[s] = "serving" /\ link[s] = "closed"
  /\ status[owner[s]] = "connected" => Unregister(owner[s])
  /\ status[owner[s]] # "connected" => UNCHANGED <<conn, stale>>
  /\ MarkDisconnected(owner[s])
  /\ IF MarksDisconnected(owner[s])
     THEN pc' = [pc EXCEPT ![s] = "leaving"] /\ UNCHANGED <<owner, link>>
     ELSE EndHandler(s)
  /\ UNCHANGED <<row, kickVars, watchVars>>

\* A fault: the finally block does not mark the member disconnected.
Leave_NotMarked(s) ==
  /\ pc[s] = "serving" /\ link[s] = "closed"
  /\ Unregister(owner[s])
  /\ EndHandler(s)
  /\ UNCHANGED <<status, row, kickVars, watchVars>>

\* The message loop ends -- the WebSocket is closed -- and the finally block
\* unregisters the member and marks it disconnected, also when another
\* handler has registered the same member meanwhile.
Leave(s) ==
  /\ pc[s] = "serving" /\ link[s] = "closed"
  /\ Unregister(owner[s])
  /\ MarkDisconnected(owner[s])
  /\ IF MarksDisconnected(owner[s])
     THEN pc' = [pc EXCEPT ![s] = "leaving"] /\ UNCHANGED <<owner, link>>
     ELSE EndHandler(s)
  /\ UNCHANGED <<row, kickVars, watchVars>>

\* mark_disconnected's write lands.
Left(s) ==
  /\ pc[s] = "leaving"
  /\ UpdateRow(owner[s], "disconnected")
  /\ EndHandler(s)
  /\ UNCHANGED <<status, conn, stale, kickVars, watchVars>>

\* The client goes, the transport fails, or a handler's exception makes the
\* hub close the WebSocket.
Close(s) ==
  /\ pc[s] # "free" /\ link[s] # "closed"
  /\ link' = [link EXCEPT ![s] = "closed"]
  /\ UNCHANGED <<status, row, conn, stale, pc, owner, kickVars, watchVars>>

\* The client stops running (a locked phone): its transport stays up and
\* still takes what the hub sends, but no message comes from it any more.
GoQuiet(s) ==
  /\ pc[s] # "free" /\ link[s] = "open"
  /\ link' = [link EXCEPT ![s] = "quiet"]
  /\ UNCHANGED <<status, row, conn, stale, pc, owner, kickVars, watchVars>>

-----------------------------------------------------------------------------
(* POST /api/members/{m}/kick                                              *)

Kick(m) ==
  /\ m \in Kickable /\ kick[m] = "idle" /\ status[m] # "absent"
  /\ status' = [status EXCEPT ![m] = "kicked"]
  /\ kick'   = [kick EXCEPT ![m] = "writing"]
  /\ UNCHANGED <<row, conn, stale, handlerVars, kicked, watchVars>>

KickAnswered(m) ==
  /\ kick'   = [kick EXCEPT ![m] = "idle"]
  /\ kicked' = kicked \cup {m}

\* The row is updated; then conn_manager.disconnect closes the registered
\* WebSocket, if there is one.
KickWritten(m) ==
  /\ kick[m] = "writing"
  /\ UpdateRow(m, "kicked")
  /\ IF Registered(m)
     THEN /\ link' = [link EXCEPT ![conn[m]] = "closed"]
          /\ kick' = [kick EXCEPT ![m] = "closing"]
          /\ UNCHANGED kicked
     ELSE KickAnswered(m) /\ UNCHANGED link
  /\ UNCHANGED <<status, conn, stale, pc, owner, watchVars>>

KickClosed(m) ==
  /\ kick[m] = "closing"
  /\ Unregister(m)
  /\ KickAnswered(m)
  /\ UNCHANGED <<status, row, handlerVars, watchVars>>

-----------------------------------------------------------------------------
(* watch_member_heartbeats                                                 *)

\* The heartbeat timeout passes without a message for a registered member.
Elapse(m) ==
  /\ Registered(m) /\ ~stale[m]
  /\ stale' = [stale EXCEPT ![m] = TRUE]
  /\ UNCHANGED <<status, row, conn, handlerVars, kickVars, watchVars>>

\* A poll that finds stale members; the list is not looked at again.
Scan ==
  /\ watch = "scan" /\ \E m \in Members : stale[m]
  /\ due'   = {m \in Members : Registered(m) /\ stale[m]}
  /\ watch' = "next"
  /\ UNCHANGED <<status, row, conn, stale, handlerVars, kickVars, target>>

\* Goes on with the list, or sleeps when it is done.
WatchNext(rest) ==
  /\ watch'  = IF rest = {} THEN "scan" ELSE "next"
  /\ target' = NoMember

\* mark_disconnected(m), from the watcher.
WatchMarks(m) ==
  /\ Unregister(m)
  /\ MarkDisconnected(m)
  /\ IF MarksDisconnected(m)
     THEN watch' = "marking" /\ target' = m
     ELSE WatchNext(due')

\* A due member that is no longer registered needs no close.
DropUnregistered(m) ==
  /\ watch = "next" /\ m \in due /\ ~Registered(m)
  /\ due' = due \ {m}
  /\ WatchMarks(m)
  /\ UNCHANGED <<row, handlerVars, kickVars>>

\* A fault: the watcher passes over the member's live entry.
DropStale_Skip(m) ==
  /\ watch = "next" /\ m \in due /\ Registered(m)
  /\ due' = due \ {m}
  /\ WatchNext(due')
  /\ UNCHANGED <<status, row, conn, stale, handlerVars, kickVars>>

\* Closes whatever WebSocket the member has by now.
DropStale(m) ==
  /\ watch = "next" /\ m \in due /\ Registered(m)
  /\ due'    = due \ {m}
  /\ link'   = [link EXCEPT ![conn[m]] = "closed"]
  /\ watch'  = "closing"
  /\ target' = m
  /\ UNCHANGED <<status, row, conn, stale, pc, owner, kickVars>>

StaleClosed ==
  /\ watch = "closing"
  /\ UNCHANGED due
  /\ WatchMarks(target)
  /\ UNCHANGED <<row, handlerVars, kickVars>>

StaleMarked ==
  /\ watch = "marking"
  /\ UpdateRow(target, "disconnected")
  /\ UNCHANGED due
  /\ WatchNext(due)
  /\ UNCHANGED <<status, conn, stale, handlerVars, kickVars>>

-----------------------------------------------------------------------------
(* A crash and the next `osk start`: memory and sockets are gone, writes   *)
(* not yet landed are lost, and create_or_resume rebuilds the members from *)
(* their rows after setting the connected ones to disconnected.            *)

AfterRestart(value) == IF value = "connected" THEN "disconnected" ELSE value

Restart ==
  /\ MayRestart
  /\ row'    = [m \in Members |-> AfterRestart(row[m])]
  /\ status' = row'
  /\ conn'   = [m \in Members |-> NoSocket]
  /\ stale'  = [m \in Members |-> FALSE]
  /\ pc'     = [s \in Sockets |-> "free"]
  /\ owner'  = [s \in Sockets |-> NoMember]
  /\ link'   = [s \in Sockets |-> "closed"]
  /\ kick'   = [m \in Members |-> "idle"]
  /\ watch'  = "scan"
  /\ due'    = {}
  /\ target' = NoMember
  \* an identity that left no row is gone, and its name may stand for another
  /\ kicked' = kicked \ {m \in Members : row[m] = "absent"}

-----------------------------------------------------------------------------

Handler(s) ==
  \/ \E m \in Members : Join(s, m) \/ Resume(s, m)
  \/ Written(s) \/ Admit(s) \/ Replace(s) \/ Replaced(s)
  \/ Message(s) \/ Leave(s) \/ Left(s)
  \/ Close(s) \/ GoQuiet(s)

Coordinator(m) == Kick(m) \/ KickWritten(m) \/ KickClosed(m)

Watcher ==
  \/ Scan
  \/ \E m \in Members : Elapse(m) \/ DropUnregistered(m) \/ DropStale(m)
  \/ StaleClosed \/ StaleMarked

Next ==
  \/ \E s \in Sockets : Handler(s)
  \/ \E m \in Members : Coordinator(m)
  \/ Watcher
  \/ Restart

Spec == Init /\ [][Next]_vars

(* The event loop runs every coroutine whose await is over, and time       *)
(* passes.  Nothing is assumed of the clients, the coordinator or crashes. *)
Fairness ==
  /\ \A s \in Sockets : WF_vars(Leave(s)) /\ WF_vars(Left(s))
  /\ \A m \in Members : WF_vars(Elapse(m))
  /\ WF_vars(Scan)
  /\ WF_vars(\E m \in Members : DropUnregistered(m) \/ DropStale(m))
  /\ WF_vars(StaleClosed)
  /\ WF_vars(StaleMarked)

FairSpec == Spec /\ Fairness

-----------------------------------------------------------------------------
(* Properties of the code as it is.                                        *)

\* An entry of ConnectionManager.connections is the WebSocket of a handler
\* that still serves that member: no path out of a handler leaves its entry
\* behind for broadcasts and the heartbeat watcher to work on.
EntriesAreServed ==
  \A m \in Members :
    Registered(m) => pc[conn[m]] = "serving" /\ owner[conn[m]] = m

\* A member shown as connected has a handler that will mark it disconnected:
\* no interleaving of reconnects, kicks and the heartbeat watcher leaves a
\* member connected for ever.
ConnectedHasHandler ==
  \A m \in Members :
    status[m] = "connected" =>
      \E s \in Sockets :
        owner[s] = m /\ pc[s] \in {"writing", "admitting", "replacing", "serving"}

\* Whoever was admitted to the operation survives a crash: the row is there
\* before the member is registered, so its reconnect token keeps working.
AdmittedIsDurable ==
  \A s \in Sockets :
    pc[s] \in {"admitting", "replacing", "serving", "leaving"} =>
      row[owner[s]] # "absent"

\* The table never calls a member kicked that the running hub would admit.
KickedRowIsKicked ==
  \A m \in Members : row[m] = "kicked" => status[m] = "kicked"

\* As long as the hub runs, a kicked member stays kicked: neither a reconnect
\* nor the end of one of its connections takes the status away.
KickIsSticky ==
  [][\A m \in Members :
       status[m] = "kicked" /\ status'[m] # "kicked" => Restart]_vars

\* Another connection of the member, that the hub no longer lists or is about
\* to replace, still delivers messages.
VouchedFor(m, s) ==
  \E t \in Sockets \ {s} : owner[t] = m /\ pc[t] = "serving" /\ link[t] = "open"

\* A registered connection whose client stopped sending is given up: the
\* heartbeat watcher takes it out of the connections, unless another
\* connection of the same member vouches for it.
QuietIsDropped ==
  \A m \in Members, s \in Sockets :
    (conn[m] = s /\ link[s] = "quiet")
      ~> (conn[m] # s \/ link[s] # "quiet" \/ VouchedFor(m, s))

-----------------------------------------------------------------------------
(* What the repository says, and the code does not keep.                   *)

\* docs/specs/2026-03-21-osk-design.md:357, "Kick member from operation":
\* once the request is answered the member is not served any more.
KickedIsNotServed ==
  \A m \in kicked, s \in Sockets :
    ~(owner[s] = m /\ pc[s] = "serving" /\ link[s] # "closed")
=============================================================================
