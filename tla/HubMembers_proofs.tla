------------------------- MODULE HubMembers_proofs --------------------------
(***************************************************************************)
(* Proofs about HubMembers, for any sets of members and sockets.           *)
(*                                                                         *)
(* Each conjunct of the inductive invariant IInv has a lemma of its own    *)
(* that says which step preserves it and why, relative to the conjuncts it *)
(* depends on; the theorems put them together.                             *)
(***************************************************************************)
EXTENDS HubMembers, TLAPS

\* A kick request under way has already marked its member in memory.
KickUnderWay == \A m \in Members : kick[m] # "idle" => status[m] = "kicked"

IInv ==
  /\ TypeOK
  /\ EntriesAreServed
  /\ ConnectedHasHandler
  /\ AdmittedIsDurable
  /\ KickUnderWay
  /\ KickedRowIsKicked

-----------------------------------------------------------------------------

\* Next, one action at a time: what the case distinctions below rely on.
LEMMA NextCases ==
  ASSUME Next
  PROVE  \/ \E s \in Sockets, m \in Members : Join(s, m) \/ Resume(s, m)
         \/ \E s \in Sockets : Written(s) \/ Admit(s) \/ Replace(s) \/ Replaced(s)
         \/ \E s \in Sockets : Message(s) \/ Leave(s) \/ Left(s)
         \/ \E s \in Sockets : Close(s) \/ GoQuiet(s)
         \/ \E m \in Members : Kick(m) \/ KickWritten(m) \/ KickClosed(m)
         \/ \E m \in Members : Elapse(m) \/ DropUnregistered(m) \/ DropStale(m)
         \/ Scan \/ StaleClosed \/ StaleMarked
         \/ Restart
  BY DEF Next, Handler, Coordinator, Watcher

\* The tables of ConnectionManager keep their types and the same keys.
Tables ==
  /\ conn  \in [Members -> Sockets \cup {NoSocket}]
  /\ stale \in [Members -> BOOLEAN]
  /\ \A m \in Members : stale[m] => conn[m] # NoSocket

LEMMA RegisterTables ==
  ASSUME TypeOK, NEW m \in Members, NEW s \in Sockets, Register(m, s)
  PROVE  Tables'
<1>1. \A x \in Members : stale'[x] => conn'[x] # NoSocket
  BY ConstantsOK DEF TypeOK, Register
<1> QED
  BY <1>1 DEF TypeOK, Register, Tables

LEMMA UnregisterTables ==
  ASSUME TypeOK, NEW m \in Members, Unregister(m)
  PROVE  Tables'
<1>1. \A x \in Members : stale'[x] => conn'[x] # NoSocket
  BY DEF TypeOK, Unregister
<1> QED
  BY <1>1 DEF TypeOK, Unregister, Tables

\* A handler past the free state works for a member.
LEMMA OwnerIsMember ==
  ASSUME TypeOK, NEW s \in Sockets, pc[s] # "free"
  PROVE  owner[s] \in Members
  BY DEF TypeOK

LEMMA MarkDisconnectedType ==
  ASSUME TypeOK, NEW m \in Members, MarkDisconnected(m)
  PROVE  status' \in [Members -> Status]
  BY DEF TypeOK, MarkDisconnected, Status

\* The type invariant is inductive by itself.
LEMMA TypeOKStep == TypeOK /\ [Next]_vars => TypeOK'
<1> SUFFICES ASSUME TypeOK, [Next]_vars PROVE TypeOK'
  OBVIOUS
<1> USE ConstantsOK DEF TypeOK, Status, HandlerState
<1>auth. ASSUME NEW s \in Sockets, NEW m \in Members, Join(s, m) \/ Resume(s, m)
      PROVE  TypeOK'
  BY <1>auth DEF Join, Resume, kickVars, watchVars
<1>written. ASSUME NEW s \in Sockets, Written(s)
      PROVE  TypeOK'
  BY <1>written DEF Written, kickVars, watchVars
<1>registered. ASSUME NEW s \in Sockets, Admit(s) \/ Replaced(s)
      PROVE  TypeOK'
  <2>1. /\ pc[s] # "free"
        /\ Register(owner[s], s)
        /\ pc' = [pc EXCEPT ![s] = "serving"]
        /\ UNCHANGED <<status, row, owner, link, kick, kicked, watch, due, target>>
    BY <1>registered DEF Admit, Replaced, kickVars, watchVars
  <2>2. Tables'
    BY <2>1, OwnerIsMember, RegisterTables
  <2> QED
    BY <2>1, <2>2 DEF Tables
<1>replace. ASSUME NEW s \in Sockets, Replace(s)
      PROVE  TypeOK'
  BY <1>replace DEF Replace, kickVars, watchVars
<1>link. ASSUME NEW s \in Sockets, Close(s) \/ GoQuiet(s)
      PROVE  TypeOK'
  BY <1>link DEF Close, GoQuiet, kickVars, watchVars
<1>message. ASSUME NEW s \in Sockets, Message(s)
      PROVE  TypeOK'
  <2>1. owner[s] \in Members
    BY <1>message, OwnerIsMember DEF Message
  <2>2. stale' \in [Members -> BOOLEAN] /\ \A x \in Members : stale'[x] => stale[x]
    BY <1>message, <2>1 DEF Message
  <2> QED
    BY <1>message, <2>2 DEF Message, handlerVars, kickVars, watchVars
<1>leave. ASSUME NEW s \in Sockets, Leave(s)
      PROVE  TypeOK'
  <2>1. owner[s] \in Members /\ Unregister(owner[s]) /\ MarkDisconnected(owner[s])
    BY <1>leave, OwnerIsMember DEF Leave
  <2>2. Tables' /\ status' \in [Members -> Status]
    BY <2>1, UnregisterTables, MarkDisconnectedType
  <2> QED
    BY <1>leave, <2>2 DEF Leave, EndHandler, Tables, kickVars, watchVars
<1>left. ASSUME NEW s \in Sockets, Left(s)
      PROVE  TypeOK'
  BY <1>left DEF Left, UpdateRow, EndHandler, kickVars, watchVars
<1>kick. ASSUME NEW m \in Members, Kick(m)
      PROVE  TypeOK'
  BY <1>kick DEF Kick, handlerVars, watchVars
<1>closed. ASSUME NEW m \in Members, KickClosed(m)
      PROVE  TypeOK'
  <2>1. Tables'
    BY <1>closed, UnregisterTables DEF KickClosed
  <2> QED
    BY <1>closed, <2>1 DEF KickClosed, KickAnswered, Tables, handlerVars, watchVars
<1>kwritten. ASSUME NEW m \in Members, KickWritten(m)
      PROVE  TypeOK'
  BY <1>kwritten DEF KickWritten, KickAnswered, UpdateRow, watchVars
<1>elapse. ASSUME NEW m \in Members, Elapse(m)
       PROVE  TypeOK'
  BY <1>elapse DEF Elapse, Registered, handlerVars, kickVars, watchVars
<1>unlisted. ASSUME NEW m \in Members, DropUnregistered(m)
       PROVE  TypeOK'
  <2>1. Tables' /\ status' \in [Members -> Status]
    BY <1>unlisted, UnregisterTables, MarkDisconnectedType DEF DropUnregistered, WatchMarks
  <2> QED
    BY <1>unlisted, <2>1 DEF DropUnregistered, WatchMarks, WatchNext, Tables,
                       handlerVars, kickVars
<1>stale. ASSUME NEW m \in Members, DropStale(m)
       PROVE  TypeOK'
  BY <1>stale DEF DropStale, kickVars
<1>scan. CASE Scan
  BY <1>scan DEF Scan, handlerVars, kickVars
<1>sclosed. CASE StaleClosed
  <2>1. target \in Members
    BY <1>sclosed DEF StaleClosed
  <2>2. Tables' /\ status' \in [Members -> Status]
    BY <1>sclosed, <2>1, UnregisterTables, MarkDisconnectedType DEF StaleClosed, WatchMarks
  <2> QED
    BY <1>sclosed, <2>1, <2>2 DEF StaleClosed, WatchMarks, WatchNext, Tables,
                             handlerVars, kickVars
<1>marked. CASE StaleMarked
  BY <1>marked DEF StaleMarked, WatchNext, UpdateRow, handlerVars, kickVars
<1>restart. CASE Restart
  BY <1>restart DEF Restart, AfterRestart
<1>stutter. CASE UNCHANGED vars
  BY <1>stutter DEF vars, handlerVars, kickVars, watchVars
<1> QED
  BY <1>auth, <1>written, <1>registered, <1>replace, <1>link, <1>message, <1>leave,
     <1>left, <1>kick, <1>closed, <1>kwritten, <1>elapse, <1>unlisted, <1>stale,
     <1>scan, <1>sclosed, <1>marked, <1>restart, <1>stutter, NextCases

THEOREM TypeCorrect == Spec => []TypeOK
<1>1. Init => TypeOK
  BY ConstantsOK DEF Init, TypeOK, Status, HandlerState
<1> QED
  BY <1>1, TypeOKStep, PTL DEF Spec

-----------------------------------------------------------------------------

\* Only a handler that is leaving, and a restart, free a serving socket; only
\* Register makes an entry.
LEMMA EntriesStep == TypeOK /\ EntriesAreServed /\ [Next]_vars => EntriesAreServed'
<1> SUFFICES ASSUME TypeOK, EntriesAreServed, [Next]_vars
             PROVE  EntriesAreServed'
  OBVIOUS
<1> USE ConstantsOK DEF EntriesAreServed, Registered
\* Steps that make no entry, and leave the handlers of the entries alone.
<1>quiet. ASSUME \A m \in Members : conn'[m] \in {conn[m], NoSocket},
                 \A m \in Members : conn'[m] # NoSocket =>
                   pc'[conn[m]] = pc[conn[m]] /\ owner'[conn[m]] = owner[conn[m]]
          PROVE  EntriesAreServed'
  BY <1>quiet
<1>auth. ASSUME NEW s \in Sockets, NEW m \in Members, Join(s, m) \/ Resume(s, m)
         PROVE  EntriesAreServed'
  <2>1. /\ pc[s] = "free" /\ UNCHANGED conn
        /\ pc' = [pc EXCEPT ![s] = "writing"]
        /\ owner' = [owner EXCEPT ![s] = m]
    BY <1>auth DEF Join, Resume
  <2>2. \A x \in Members : conn[x] # s
    BY <2>1
  <2> QED
    BY <1>quiet, <2>1, <2>2 DEF TypeOK
<1>early. ASSUME NEW s \in Sockets, Written(s) \/ Replace(s)
          PROVE  EntriesAreServed'
  <2>1. /\ pc[s] # "serving" /\ UNCHANGED <<conn, owner>>
        /\ \A t \in Sockets \ {s} : pc'[t] = pc[t]
    BY <1>early DEF Written, Replace, TypeOK
  <2>2. \A x \in Members : conn[x] # s
    BY <2>1
  <2> QED
    BY <1>quiet, <2>1, <2>2 DEF TypeOK
<1>registered. ASSUME NEW s \in Sockets, Admit(s) \/ Replaced(s)
               PROVE  EntriesAreServed'
  <2>1. /\ pc[s] # "free" /\ pc[s] # "serving" /\ UNCHANGED owner
        /\ Register(owner[s], s)
        /\ pc' = [pc EXCEPT ![s] = "serving"]
    BY <1>registered DEF Admit, Replaced
  <2>2. owner[s] \in Members
    BY <2>1, OwnerIsMember
  <2>3. ASSUME NEW x \in Members, conn'[x] # NoSocket
        PROVE  pc'[conn'[x]] = "serving" /\ owner'[conn'[x]] = x
    <3>1. CASE x = owner[s]
      BY <2>1, <2>2, <3>1 DEF Register, TypeOK
    <3>2. CASE x # owner[s]
      BY <2>1, <2>2, <2>3, <3>2 DEF Register, TypeOK
    <3> QED
      BY <3>1, <3>2
  <2> QED
    BY <2>3
<1>leave. ASSUME NEW s \in Sockets, Leave(s)
          PROVE  EntriesAreServed'
  <2>1. /\ Unregister(owner[s]) /\ owner[s] \in Members
        /\ \A t \in Sockets \ {s} : pc'[t] = pc[t] /\ owner'[t] = owner[t]
    BY <1>leave, OwnerIsMember DEF Leave, EndHandler, TypeOK
  <2>2. \A x \in Members : conn'[x] # NoSocket => conn'[x] = conn[x] /\ x # owner[s]
    BY <2>1 DEF Unregister, TypeOK
  <2>3. \A x \in Members : conn'[x] # NoSocket => conn[x] # s
    BY <2>2
  <2> QED
    BY <1>quiet, <2>1, <2>2, <2>3 DEF TypeOK
<1>left. ASSUME NEW s \in Sockets, Left(s)
         PROVE  EntriesAreServed'
  <2>1. /\ pc[s] = "leaving" /\ UNCHANGED conn
        /\ \A t \in Sockets \ {s} : pc'[t] = pc[t] /\ owner'[t] = owner[t]
    BY <1>left DEF Left, EndHandler, TypeOK
  <2>2. \A x \in Members : conn[x] # s
    BY <2>1
  <2> QED
    BY <1>quiet, <2>1, <2>2 DEF TypeOK
<1>same. ASSUME UNCHANGED <<conn, pc, owner>>
         PROVE  EntriesAreServed'
  BY <1>same
<1>link. ASSUME NEW s \in Sockets, Message(s) \/ Close(s) \/ GoQuiet(s)
         PROVE  EntriesAreServed'
  BY <1>link, <1>same DEF Message, Close, GoQuiet, handlerVars
<1>kick. ASSUME NEW m \in Members, Kick(m) \/ KickWritten(m) \/ Elapse(m) \/ DropStale(m)
         PROVE  EntriesAreServed'
  BY <1>kick, <1>same DEF Kick, KickWritten, Elapse, DropStale, handlerVars
<1>drop. ASSUME NEW m \in Members, Unregister(m), UNCHANGED <<pc, owner>>
         PROVE  EntriesAreServed'
  <2>1. \A x \in Members : conn'[x] \in {conn[x], NoSocket}
    BY <1>drop DEF Unregister, TypeOK
  <2> QED
    BY <1>quiet, <1>drop, <2>1
<1>dropped. ASSUME NEW m \in Members, KickClosed(m) \/ DropUnregistered(m)
            PROVE  EntriesAreServed'
  BY <1>dropped, <1>drop DEF KickClosed, DropUnregistered, WatchMarks, handlerVars
<1>sclosed. CASE StaleClosed
  <2>1. target \in Members
    BY <1>sclosed DEF StaleClosed, TypeOK
  <2> QED
    BY <1>sclosed, <1>drop, <2>1 DEF StaleClosed, WatchMarks, handlerVars
<1>rest. CASE Scan \/ StaleMarked \/ UNCHANGED vars
  BY <1>rest, <1>same DEF Scan, StaleMarked, vars, handlerVars
<1>restart. CASE Restart
  BY <1>restart DEF Restart
<1> QED
  BY <1>auth, <1>early, <1>registered, <1>leave, <1>left, <1>link, <1>kick,
     <1>dropped, <1>sclosed, <1>rest, <1>restart, NextCases

-----------------------------------------------------------------------------

\* The handlers that will still mark their member disconnected.
Holding(s) == pc[s] \in {"writing", "admitting", "replacing", "serving"}

\* A status becomes connected together with a handler; that handler does not
\* end before it has seen the status disconnected or kicked.
LEMMA ConnectedStep == TypeOK /\ ConnectedHasHandler /\ [Next]_vars => ConnectedHasHandler'
<1> SUFFICES ASSUME TypeOK, ConnectedHasHandler, [Next]_vars,
                    NEW x \in Members, status'[x] = "connected"
             PROVE  \E t \in Sockets : owner'[t] = x /\ Holding(t)'
  BY DEF ConnectedHasHandler, Holding
<1> USE ConstantsOK DEF Holding
\* Steps after which every handler of x that held it still does.
<1>keep. ASSUME status[x] = "connected",
                \A t \in Sockets : owner[t] = x /\ Holding(t) => owner'[t] = x /\ Holding(t)'
         PROVE  \E t \in Sockets : owner'[t] = x /\ Holding(t)'
  BY <1>keep DEF ConnectedHasHandler
<1>same. ASSUME status[x] = "connected", UNCHANGED <<pc, owner>>
         PROVE  \E t \in Sockets : owner'[t] = x /\ Holding(t)'
  BY <1>keep, <1>same
<1>auth. ASSUME NEW s \in Sockets, NEW m \in Members, Join(s, m) \/ Resume(s, m)
         PROVE  \E t \in Sockets : owner'[t] = x /\ Holding(t)'
  <2>1. /\ pc[s] = "free"
        /\ pc' = [pc EXCEPT ![s] = "writing"]
        /\ owner' = [owner EXCEPT ![s] = m]
        /\ status' = [status EXCEPT ![m] = "connected"]
    BY <1>auth DEF Join, Resume
  <2>2. CASE x = m
    BY <2>1, <2>2 DEF TypeOK
  <2>3. CASE x # m
    BY <2>1, <2>3, <1>keep DEF TypeOK
  <2> QED
    BY <2>2, <2>3
<1>advance. ASSUME NEW s \in Sockets, Written(s) \/ Admit(s) \/ Replace(s) \/ Replaced(s)
            PROVE  \E t \in Sockets : owner'[t] = x /\ Holding(t)'
  <2>1. /\ UNCHANGED <<status, owner>> /\ Holding(s)'
        /\ \A t \in Sockets \ {s} : pc'[t] = pc[t]
    BY <1>advance DEF Written, Admit, Replace, Replaced, TypeOK
  <2> QED
    BY <2>1, <1>keep
<1>leave. ASSUME NEW s \in Sockets, Leave(s)
          PROVE  \E t \in Sockets : owner'[t] = x /\ Holding(t)'
  <2>1. /\ MarkDisconnected(owner[s]) /\ owner[s] \in Members
        /\ \A t \in Sockets \ {s} : pc'[t] = pc[t] /\ owner'[t] = owner[t]
    BY <1>leave, OwnerIsMember DEF Leave, EndHandler, TypeOK
  <2>2. x # owner[s] /\ status[x] = "connected"
    BY <2>1 DEF MarkDisconnected, MarksDisconnected, TypeOK
  <2> QED
    BY <2>1, <2>2, <1>keep
<1>left. ASSUME NEW s \in Sockets, Left(s)
         PROVE  \E t \in Sockets : owner'[t] = x /\ Holding(t)'
  <2>1. /\ pc[s] = "leaving" /\ UNCHANGED status
        /\ \A t \in Sockets \ {s} : pc'[t] = pc[t] /\ owner'[t] = owner[t]
    BY <1>left DEF Left, EndHandler, TypeOK
  <2> QED
    BY <2>1, <1>keep
<1>link. ASSUME NEW s \in Sockets, Message(s) \/ Close(s) \/ GoQuiet(s)
         PROVE  \E t \in Sockets : owner'[t] = x /\ Holding(t)'
  BY <1>link, <1>same DEF Message, Close, GoQuiet, handlerVars
<1>kick. ASSUME NEW m \in Members, Kick(m)
         PROVE  \E t \in Sockets : owner'[t] = x /\ Holding(t)'
  <2>1. status[x] = "connected"
    BY <1>kick DEF Kick, TypeOK
  <2> QED
    BY <1>kick, <2>1, <1>same DEF Kick, handlerVars
<1>other. ASSUME NEW m \in Members,
                 KickWritten(m) \/ KickClosed(m) \/ Elapse(m) \/ DropStale(m)
          PROVE  \E t \in Sockets : owner'[t] = x /\ Holding(t)'
  BY <1>other, <1>same DEF KickWritten, KickClosed, Elapse, DropStale, handlerVars
<1>marks. ASSUME NEW m \in Members, MarkDisconnected(m), UNCHANGED <<pc, owner>>
          PROVE  \E t \in Sockets : owner'[t] = x /\ Holding(t)'
  <2>1. status[x] = "connected"
    BY <1>marks DEF MarkDisconnected, MarksDisconnected, TypeOK
  <2> QED
    BY <1>marks, <2>1, <1>same
<1>unlisted. ASSUME NEW m \in Members, DropUnregistered(m)
             PROVE  \E t \in Sockets : owner'[t] = x /\ Holding(t)'
  BY <1>unlisted, <1>marks DEF DropUnregistered, WatchMarks, handlerVars
<1>sclosed. CASE StaleClosed
  <2>1. target \in Members
    BY <1>sclosed DEF StaleClosed, TypeOK
  <2> QED
    BY <1>sclosed, <1>marks, <2>1 DEF StaleClosed, WatchMarks, handlerVars
<1>rest. CASE Scan \/ StaleMarked \/ UNCHANGED vars
  BY <1>rest, <1>same DEF Scan, StaleMarked, vars, handlerVars
<1>restart. CASE Restart
  BY <1>restart DEF Restart, AfterRestart, TypeOK, Status
<1> QED
  BY <1>auth, <1>advance, <1>leave, <1>left, <1>link, <1>kick, <1>other,
     <1>unlisted, <1>sclosed, <1>rest, <1>restart, NextCases

-----------------------------------------------------------------------------

\* The row is written before a handler leaves the writing state, and no
\* update or restart deletes a row.
LEMMA DurableStep == TypeOK /\ AdmittedIsDurable /\ [Next]_vars => AdmittedIsDurable'
<1> SUFFICES ASSUME TypeOK, AdmittedIsDurable, [Next]_vars
             PROVE  AdmittedIsDurable'
  OBVIOUS
<1> USE ConstantsOK DEF AdmittedIsDurable
\* No row goes away, and no handler newly needs one.
<1>keep. ASSUME \A m \in Members : row[m] # "absent" => row'[m] # "absent",
                \A t \in Sockets :
                  pc'[t] \in {"admitting", "replacing", "serving", "leaving"} =>
                    /\ pc[t] \in {"admitting", "replacing", "serving", "leaving"}
                    /\ owner'[t] = owner[t]
         PROVE  AdmittedIsDurable'
  BY <1>keep, OwnerIsMember
<1>same. ASSUME UNCHANGED <<row, pc, owner>>
         PROVE  AdmittedIsDurable'
  BY <1>same
<1>update. \A m \in Members : \A v \in {"connected", "disconnected", "kicked"} :
             UpdateRow(m, v) => \A x \in Members : row[x] # "absent" => row'[x] # "absent"
  BY DEF UpdateRow, TypeOK
<1>auth. ASSUME NEW s \in Sockets, NEW m \in Members, Join(s, m) \/ Resume(s, m)
         PROVE  AdmittedIsDurable'
  BY <1>auth, <1>keep DEF Join, Resume, TypeOK
<1>written. ASSUME NEW s \in Sockets, Written(s)
            PROVE  AdmittedIsDurable'
  <2>1. /\ owner[s] \in Members /\ UNCHANGED owner
        /\ row' = [row EXCEPT ![owner[s]] = "connected"]
        /\ pc' = [pc EXCEPT ![s] = "admitting"]
    BY <1>written, OwnerIsMember DEF Written
  <2> QED
    BY <2>1, OwnerIsMember DEF TypeOK
<1>advance. ASSUME NEW s \in Sockets, Admit(s) \/ Replace(s) \/ Replaced(s)
            PROVE  AdmittedIsDurable'
  BY <1>advance, <1>keep DEF Admit, Replace, Replaced, TypeOK
<1>leave. ASSUME NEW s \in Sockets, Leave(s)
          PROVE  AdmittedIsDurable'
  <2>1. /\ UNCHANGED row /\ pc[s] = "serving"
        /\ \A t \in Sockets \ {s} : pc'[t] = pc[t] /\ owner'[t] = owner[t]
        /\ pc'[s] = "free" \/ (pc'[s] = "leaving" /\ owner'[s] = owner[s])
    BY <1>leave DEF Leave, EndHandler, TypeOK
  <2> QED
    BY <2>1, <1>keep
<1>left. ASSUME NEW s \in Sockets, Left(s)
         PROVE  AdmittedIsDurable'
  <2>1. /\ UpdateRow(owner[s], "disconnected") /\ owner[s] \in Members
        /\ pc' = [pc EXCEPT ![s] = "free"]
        /\ owner' = [owner EXCEPT ![s] = NoMember]
    BY <1>left, OwnerIsMember DEF Left, EndHandler
  <2> QED
    BY <2>1, <1>keep, <1>update DEF TypeOK
<1>link. ASSUME NEW s \in Sockets, Message(s) \/ Close(s) \/ GoQuiet(s)
         PROVE  AdmittedIsDurable'
  BY <1>link, <1>same DEF Message, Close, GoQuiet, handlerVars
<1>kwritten. ASSUME NEW m \in Members, KickWritten(m)
             PROVE  AdmittedIsDurable'
  BY <1>kwritten, <1>keep, <1>update DEF KickWritten
<1>other. ASSUME NEW m \in Members,
                 \/ Kick(m) \/ KickClosed(m) \/ Elapse(m)
                 \/ DropStale(m) \/ DropUnregistered(m)
          PROVE  AdmittedIsDurable'
  BY <1>other, <1>same
     DEF Kick, KickClosed, Elapse, DropStale, DropUnregistered, handlerVars
<1>rest. CASE Scan \/ StaleClosed \/ UNCHANGED vars
  BY <1>rest, <1>same DEF Scan, StaleClosed, vars, handlerVars
<1>marked. CASE StaleMarked
  <2>1. target \in Members
    BY <1>marked DEF StaleMarked, TypeOK
  <2> QED
    BY <1>marked, <1>keep, <1>update, <2>1 DEF StaleMarked, handlerVars
<1>restart. CASE Restart
  BY <1>restart DEF Restart, TypeOK
<1> QED
  BY <1>auth, <1>written, <1>advance, <1>leave, <1>left, <1>link, <1>kwritten,
     <1>other, <1>rest, <1>marked, <1>restart, NextCases

-----------------------------------------------------------------------------

\* What a step of the running hub may do to a kicked member's status: nothing.
LEMMA KickedStays ==
  ASSUME TypeOK, Next, NEW x \in Members, status[x] = "kicked", status'[x] # "kicked"
  PROVE  Restart
<1> USE DEF TypeOK
<1>mark. ASSUME NEW m \in Members, MarkDisconnected(m)
         PROVE  FALSE
  BY <1>mark DEF MarkDisconnected, MarksDisconnected
<1>auth. ASSUME NEW s \in Sockets, NEW m \in Members, Join(s, m) \/ Resume(s, m)
         PROVE  FALSE
  BY <1>auth DEF Join, Resume
<1>same. ASSUME UNCHANGED status
         PROVE  FALSE
  BY <1>same
<1>advance. ASSUME NEW s \in Sockets, Written(s) \/ Admit(s) \/ Replace(s) \/ Replaced(s)
            PROVE  FALSE
  BY <1>advance, <1>same DEF Written, Admit, Replace, Replaced
<1>leave. ASSUME NEW s \in Sockets, Leave(s)
          PROVE  FALSE
  BY <1>leave, <1>mark, OwnerIsMember DEF Leave
<1>socket. ASSUME NEW s \in Sockets, Message(s) \/ Left(s) \/ Close(s) \/ GoQuiet(s)
           PROVE  FALSE
  BY <1>socket, <1>same DEF Message, Left, Close, GoQuiet
<1>kick. ASSUME NEW m \in Members, Kick(m)
         PROVE  FALSE
  BY <1>kick DEF Kick
<1>other. ASSUME NEW m \in Members,
                 KickWritten(m) \/ KickClosed(m) \/ Elapse(m) \/ DropStale(m)
          PROVE  FALSE
  BY <1>other, <1>same DEF KickWritten, KickClosed, Elapse, DropStale
<1>unlisted. ASSUME NEW m \in Members, DropUnregistered(m)
             PROVE  FALSE
  BY <1>unlisted, <1>mark DEF DropUnregistered, WatchMarks
<1>sclosed. CASE StaleClosed
  BY <1>sclosed, <1>mark DEF StaleClosed, WatchMarks
<1>rest. CASE Scan \/ StaleMarked
  BY <1>rest, <1>same DEF Scan, StaleMarked
<1> QED
  BY <1>auth, <1>advance, <1>leave, <1>socket, <1>kick, <1>other,
     <1>unlisted, <1>sclosed, <1>rest, NextCases

\* A kick request starts by marking its member, and the mark stays.
LEMMA KickUnderWayStep == TypeOK /\ KickUnderWay /\ [Next]_vars => KickUnderWay'
<1> SUFFICES ASSUME TypeOK, KickUnderWay, [Next]_vars,
                    NEW x \in Members, kick'[x] # "idle"
             PROVE  status'[x] = "kicked"
  BY DEF KickUnderWay
<1>1. ASSUME kick[x] # "idle", ~Restart
      PROVE  status'[x] = "kicked"
  BY <1>1, KickedStays DEF KickUnderWay, vars
<1>2. CASE Restart
  BY <1>2 DEF Restart
<1>3. ASSUME NEW m \in Members, Kick(m), kick[x] = "idle"
      PROVE  status'[x] = "kicked"
  BY <1>3 DEF Kick, TypeOK
<1>4. ASSUME NEW m \in Members, KickWritten(m) \/ KickClosed(m)
      PROVE  kick[x] # "idle"
  BY <1>4 DEF KickWritten, KickClosed, KickAnswered, TypeOK
<1>5. ASSUME ~Restart, ~\E m \in Members : Coordinator(m)
      PROVE  kick'[x] = kick[x]
  BY <1>5 DEF Next, vars, kickVars, Handler, Watcher, Join, Resume, Written, Admit,
     Replace, Replaced, Message, Leave, Left, Close, GoQuiet, Scan, Elapse,
     DropUnregistered, DropStale, StaleClosed, StaleMarked
<1> QED
  BY <1>1, <1>2, <1>3, <1>4, <1>5 DEF Coordinator

\* The only write of "kicked" belongs to a request under way.
LEMMA KickedRowStep ==
  TypeOK /\ KickUnderWay /\ KickedRowIsKicked /\ [Next]_vars => KickedRowIsKicked'
<1> SUFFICES ASSUME TypeOK, KickUnderWay, KickedRowIsKicked, [Next]_vars,
                    NEW x \in Members, row'[x] = "kicked"
             PROVE  status'[x] = "kicked"
  BY DEF KickedRowIsKicked
<1> USE ConstantsOK DEF TypeOK
<1>1. CASE Restart
  BY <1>1 DEF Restart
<1>2. ASSUME status[x] = "kicked", ~Restart
      PROVE  status'[x] = "kicked"
  BY <1>2, KickedStays DEF vars
<1>old. ASSUME row[x] = "kicked"
        PROVE  status[x] = "kicked"
  BY <1>old DEF KickedRowIsKicked
<1>3. ASSUME NEW m \in Members, KickWritten(m)
      PROVE  status[x] = "kicked"
  BY <1>3, <1>old DEF KickWritten, UpdateRow, KickUnderWay
<1>4. ASSUME NEW s \in Sockets, Written(s) \/ Left(s)
      PROVE  status[x] = "kicked"
  <2>1. row[x] = "kicked"
    BY <1>4, OwnerIsMember DEF Written, Left, UpdateRow
  <2> QED
    BY <2>1, <1>old
<1>5. ASSUME StaleMarked
      PROVE  status[x] = "kicked"
  BY <1>5, <1>old DEF StaleMarked, UpdateRow
<1>6. ASSUME NEW s \in Sockets,
             \/ \E m \in Members : Join(s, m) \/ Resume(s, m)
             \/ Admit(s) \/ Replace(s) \/ Replaced(s) \/ Message(s)
             \/ Leave(s) \/ Close(s) \/ GoQuiet(s)
      PROVE  status[x] = "kicked"
  BY <1>6, <1>old DEF Join, Resume, Admit, Replace, Replaced, Message, Leave, Close, GoQuiet
<1>7. ASSUME NEW m \in Members,
             Kick(m) \/ KickClosed(m) \/ Elapse(m) \/ DropUnregistered(m) \/ DropStale(m)
      PROVE  status[x] = "kicked"
  BY <1>7, <1>old DEF Kick, KickClosed, Elapse, DropUnregistered, DropStale
<1>8. ASSUME Scan \/ StaleClosed \/ UNCHANGED vars
      PROVE  status[x] = "kicked"
  BY <1>8, <1>old DEF Scan, StaleClosed, vars
<1> QED
  BY <1>1, <1>2, <1>3, <1>4, <1>5, <1>6, <1>7, <1>8, NextCases

-----------------------------------------------------------------------------

\* At first there is no member.
LEMMA InitIInv == Init => IInv
  BY ConstantsOK DEF Init, IInv, TypeOK, Status, HandlerState, EntriesAreServed, Registered,
     ConnectedHasHandler, AdmittedIsDurable, KickUnderWay, KickedRowIsKicked

\* Each conjunct lasts relative to the others.
LEMMA MembersKeepIInv == IInv /\ [Next]_vars => IInv'
  BY TypeOKStep, EntriesStep, ConnectedStep, DurableStep, KickUnderWayStep, KickedRowStep
     DEF IInv

\* IInv holds initially and is preserved by every step.
THEOREM Invariance == Spec => []IInv
  BY InitIInv, MembersKeepIInv, PTL DEF Spec

\* Every entry of the connections is served by a live handler of its member,
\* so nothing is ever broadcast to, or timed out for, a handler that is gone.
THEOREM ServedEntries == Spec => []EntriesAreServed
<1>1. IInv => EntriesAreServed
  BY DEF IInv
<1> QED
  BY <1>1, Invariance, PTL

\* No member is left connected without a handler.
THEOREM NoGhostMembers == Spec => []ConnectedHasHandler
<1>1. IInv => ConnectedHasHandler
  BY DEF IInv
<1> QED
  BY <1>1, Invariance, PTL

\* A member that was admitted has its row, and with it its reconnect token.
THEOREM DurableMembers == Spec => []AdmittedIsDurable
<1>1. IInv => AdmittedIsDurable
  BY DEF IInv
<1> QED
  BY <1>1, Invariance, PTL

\* The table is never ahead of memory about a kick.
THEOREM KickedRows == Spec => []KickedRowIsKicked
<1>1. IInv => KickedRowIsKicked
  BY DEF IInv
<1> QED
  BY <1>1, Invariance, PTL

\* Until the hub restarts, a kicked member stays kicked.
THEOREM StickyKick == Spec => KickIsSticky
<1>1. TypeOK /\ [Next]_vars =>
        [\A m \in Members : status[m] = "kicked" /\ status'[m] # "kicked" => Restart]_vars
  BY KickedStays
<1> QED
  BY <1>1, TypeCorrect, PTL DEF Spec, KickIsSticky

=============================================================================
