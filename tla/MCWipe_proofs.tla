---------------------------- MODULE MCWipe_proofs ----------------------------
(* What holds of a wipe and of the evidence it may destroy, for any members, *)
(* sockets and files, and whatever the operator runs meanwhile.              *)
EXTENDS MCWipe, HubMembers_proofs, FiniteSetTheorems

-----------------------------------------------------------------------------
(* The composition.                                                        *)

\* Each part runs as its component does, or stands still.
LEMMA Composed == WipeSpec => BroadcastSpec /\ Evidence!Spec
<1>1. WipeInit => BroadcastInit /\ Evidence!Init
  BY DEF WipeInit
<1>2. [WipeNext]_<<vars, broadcastVars, evidenceVars, part>> =>
        [BroadcastNext]_allVars /\ [Evidence!Next]_(Evidence!vars)
  BY DEF WipeNext, allVars, evidenceVars, Evidence!vars, Evidence!hubVars,
     Evidence!exporting, Evidence!wiping
<1> QED
  BY <1>1, <1>2, PTL DEF WipeSpec, BroadcastSpec, Evidence!Spec

-----------------------------------------------------------------------------
(* Broadcasts.                                                             *)


\* The entry of a member at the beginning whose socket s has not been reached:
\* it is gone, or still ahead of the iterator, or its send will raise, or did.
Owed(s, m) ==
  conn[m] = NoSocket \/ (conn[m] = s /\ (m \in todo \/ link[s] = "closed"))

\* As long as nobody connected, the table holds nobody who was not in it at the
\* beginning, when it had size entries.
Accounted ==
  phase = "sending" /\ addressed # {} =>
    /\ \A s \in addressed : s \in Sockets /\ pc[s] # "free"
    /\ \E E \in SUBSET Members :
         /\ Entries \subseteq E /\ Cardinality(E) = size
         /\ \A s \in addressed : \E m \in E : Owed(s, m)

BInv == IInv /\ Accounted

-----------------------------------------------------------------------------

\* The end of the loop removes entries and changes nothing else of HubMembers.
LEMMA FinishKeepsIInv == IInv /\ Finish => IInv'
<1> SUFFICES ASSUME IInv, Finish PROVE IInv'
  OBVIOUS
<1>1. /\ UNCHANGED <<status, row, pc, owner, link, kick, kicked, watch, due, target>>
      /\ conn' = [m \in Members |-> IF m \in dead THEN NoSocket ELSE conn[m]]
      /\ stale' = [m \in Members |-> stale[m] /\ m \notin dead]
  BY DEF Finish, handlerVars, kickVars, watchVars
<1>2. TypeOK /\ EntriesAreServed
  BY DEF IInv
<1>3. /\ conn' \in [Members -> Sockets \cup {NoSocket}]
      /\ \A m \in Members : conn'[m] \in {conn[m], NoSocket}
  BY <1>1, <1>2 DEF TypeOK
<1>4. stale' \in [Members -> BOOLEAN]
  BY <1>1, <1>2, Zenon DEF TypeOK
<1>5. \A m \in Members : stale'[m] => conn'[m] # NoSocket
  BY <1>1, <1>2 DEF TypeOK
<1>6. TypeOK'
  BY <1>1, <1>2, <1>3, <1>4, <1>5 DEF TypeOK, Status, HandlerState
<1>7. EntriesAreServed'
  BY <1>1, <1>2, <1>3 DEF EntriesAreServed, Registered
<1>8. /\ ConnectedHasHandler' /\ AdmittedIsDurable'
      /\ KickUnderWay' /\ KickedRowIsKicked'
  BY <1>1 DEF IInv, ConnectedHasHandler, AdmittedIsDurable, KickUnderWay, KickedRowIsKicked
<1> QED
  BY <1>6, <1>7, <1>8 DEF IInv

\* Whatever joins, reconnects and departs under the iterator, IInv lasts.
LEMMA IInvLasts == IInv /\ [BroadcastNext]_allVars => IInv'
<1> SUFFICES ASSUME IInv, [BroadcastNext]_allVars PROVE IInv'
  OBVIOUS
<1>1. CASE Finish
  BY <1>1, FinishKeepsIInv
<1>2. CASE [Next]_vars
  BY <1>2, MembersKeepIInv
<1>3. Finish \/ [Next]_vars
  BY DEF BroadcastNext, Begin, SendTo, Abort, MembersStep, allVars
<1> QED
  BY <1>1, <1>2, <1>3

\* A socket that is closed stays so until its handler is gone.
LEMMA ClosedLasts ==
  ASSUME TypeOK, [Next]_vars, NEW s \in Sockets,
         link[s] = "closed", pc[s] # "free", pc'[s] # "free"
  PROVE  link'[s] = "closed"
<1>same. CASE UNCHANGED link
  BY <1>same
<1> USE DEF TypeOK, handlerVars, kickVars, watchVars
<1>auth. ASSUME NEW t \in Sockets, NEW m \in Members, Join(t, m) \/ Resume(t, m)
         PROVE  link'[s] = "closed"
  BY <1>auth DEF Join, Resume
<1>replace. ASSUME NEW t \in Sockets, Replace(t) PROVE link'[s] = "closed"
  BY <1>replace DEF Replace
<1>close. ASSUME NEW t \in Sockets, Close(t) \/ GoQuiet(t) PROVE link'[s] = "closed"
  BY <1>close DEF Close, GoQuiet
<1>kick. ASSUME NEW m \in Members, KickWritten(m) \/ DropStale(m) PROVE link'[s] = "closed"
  BY <1>kick DEF KickWritten, DropStale
<1>restart. CASE Restart
  BY <1>restart DEF Restart
<1>handler. ASSUME NEW t \in Sockets,
                   \/ Written(t) \/ Admit(t) \/ Replaced(t) \/ Message(t)
                   \/ EndHandler(t) \/ Leave(t) \/ Left(t)
            PROVE  link'[s] = "closed"
  BY <1>handler DEF Written, Admit, Replaced, Message, EndHandler, Leave, Left
<1>member. ASSUME NEW m \in Members,
                  \/ Kick(m) \/ KickClosed(m) \/ Elapse(m)
                  \/ DropUnregistered(m)
           PROVE  link'[s] = "closed"
  BY <1>member DEF Kick, KickClosed, Elapse, DropUnregistered
<1>watch. CASE Scan \/ StaleClosed \/ StaleMarked
  BY <1>watch DEF Scan, StaleClosed, StaleMarked
<1> QED
  BY <1>same, <1>auth, <1>replace, <1>close, <1>kick, <1>restart, <1>handler, <1>member,
     <1>watch DEF Next, Handler, Coordinator, Watcher, vars

\* Until somebody connects, entries only go.
LEMMA AccountedLasts == IInv /\ IInv' /\ Accounted /\ [BroadcastNext]_allVars => Accounted'
<1> SUFFICES ASSUME IInv, IInv', Accounted, [BroadcastNext]_allVars,
                    phase' = "sending", addressed' # {}
             PROVE  Accounted'
  BY DEF Accounted
<1>begin. CASE Begin
  <2>1. /\ todo' = Entries /\ size' = Cardinality(Entries) /\ UNCHANGED vars
        /\ addressed' = {conn[m] : m \in Entries}
    BY <1>begin DEF Begin
  <2>2. Entries' = Entries /\ Entries \in SUBSET Members
    BY <2>1 DEF Entries, Registered, vars
  <2>3. \A s \in addressed' : s \in Sockets /\ pc'[s] # "free"
    BY <2>1 DEF Entries, Registered, IInv, EntriesAreServed, TypeOK, vars, handlerVars
  <2>4. \A s \in addressed' : \E m \in Entries : Owed(s, m)'
    BY <2>1 DEF Owed, Entries, vars, handlerVars
  <2> QED
    BY <2>1, <2>2, <2>3, <2>4 DEF Accounted
<1>send. ASSUME NEW x \in Members, SendTo(x) PROVE Accounted'
  <2>1. /\ phase = "sending" /\ UNCHANGED <<conn, link, pc, size>> /\ todo' = todo \ {x}
        /\ addressed' \subseteq addressed /\ addressed # {}
        /\ conn[x] \notin addressed' \/ link[conn[x]] = "closed"
    BY <1>send DEF SendTo, vars, handlerVars
  <2>2. PICK E \in SUBSET Members :
          /\ Entries \subseteq E /\ Cardinality(E) = size
          /\ \A s \in addressed : \E m \in E : Owed(s, m)
    BY <2>1 DEF Accounted
  <2>3. ASSUME NEW s \in addressed', NEW m \in E, Owed(s, m) PROVE Owed(s, m)'
    BY <2>1, <2>3 DEF Owed
  <2>4. Entries' = Entries
    BY <2>1 DEF Entries, Registered
  <2>5. \A s \in addressed' : \E m \in E : Owed(s, m)'
    BY <2>1, <2>2, <2>3
  <2>6. \A s \in addressed' : s \in Sockets /\ pc'[s] # "free"
    BY <2>1 DEF Accounted
  <2> QED
    BY <2>1, <2>2, <2>4, <2>5, <2>6 DEF Accounted
<1>end. CASE Finish \/ Abort
  BY <1>end DEF Finish, Abort
<1>step. CASE MembersStep
  <2>1. /\ phase = "sending" /\ Next /\ IteratorFollows /\ ~Inserts /\ size' = size
        /\ addressed' = {s \in addressed : pc'[s] # "free"} /\ addressed # {}
    BY <1>step DEF MembersStep
  <2>2. \A m \in Members : conn'[m] \in {conn[m], NoSocket}
    BY <2>1 DEF Inserts
  <2>3. \A m \in Members : m \in todo /\ conn'[m] # NoSocket => m \in todo'
    BY <2>1 DEF IteratorFollows
  <2>4. PICK E \in SUBSET Members :
          /\ Entries \subseteq E /\ Cardinality(E) = size
          /\ \A s \in addressed : \E m \in E : Owed(s, m)
    BY <2>1 DEF Accounted
  <2>5. \A s \in addressed' : s \in addressed /\ s \in Sockets /\ pc[s] # "free" /\ pc'[s] # "free"
    BY <2>1 DEF Accounted
  <2>6. ASSUME NEW s \in addressed', NEW m \in E, Owed(s, m) PROVE Owed(s, m)'
    <3>1. link[s] = "closed" => link'[s] = "closed"
      BY <2>1, <2>5, ClosedLasts DEF IInv
    <3> QED
      BY <2>2, <2>3, <2>6, <3>1 DEF Owed
  <2>7. Entries' \subseteq E
    BY <2>2, <2>4 DEF Entries, Registered
  <2>8. \A s \in addressed' : \E m \in E : Owed(s, m)'
    BY <2>4, <2>5, <2>6
  <2> QED
    BY <2>1, <2>4, <2>5, <2>7, <2>8 DEF Accounted
<1>stutter. CASE UNCHANGED allVars
  BY <1>stutter
     DEF allVars, vars, handlerVars, broadcastVars, Accounted, Owed, Entries, Registered
<1> QED
  BY <1>begin, <1>send, <1>end, <1>step, <1>stutter DEF BroadcastNext

\* The books of the loop agree with the entries.
THEOREM BroadcastInvariance == BroadcastSpec => []BInv
<1>1. BroadcastInit => BInv
  BY InitIInv DEF BroadcastInit, BInv, Accounted
<1>2. BInv /\ [BroadcastNext]_allVars => BInv'
  BY IInvLasts, AccountedLasts DEF BInv
<1> QED
  BY <1>1, <1>2, PTL DEF BroadcastSpec

\* The iterator ends only at the size it began with, and so, where nobody
\* connected, with the very entries it began with; none of them is ahead of it.
THEOREM DoneReaches == BroadcastSpec => DoneReachesEveryEntry
<1> DEFINE Reaches ==
      phase = "sending" /\ phase' = "done" => \A s \in addressed : link[s] = "closed"
<1>1. ASSUME BInv, BroadcastNext, phase = "sending", phase' = "done", NEW s \in addressed
      PROVE  link[s] = "closed"
  <2>1. todo = {} /\ Cardinality(Entries) = size
    BY <1>1 DEF BroadcastNext, Begin, SendTo, Abort, MembersStep, Finish, SizeUnchanged
  <2>2. PICK E \in SUBSET Members :
          /\ Entries \subseteq E /\ Cardinality(E) = size
          /\ \A t \in addressed : \E m \in E : Owed(t, m)
    BY <1>1 DEF BInv, Accounted
  <2>3. IsFiniteSet(E)
    BY MembersAreFinite, FS_Subset
  <2>4. Entries = E
    BY <2>1, <2>2, <2>3, FS_Subset
  <2>5. PICK m \in E : Owed(s, m)
    BY <2>2
  <2>6. conn[m] # NoSocket
    BY <2>4 DEF Entries, Registered
  <2> QED
    BY <2>1, <2>5, <2>6 DEF Owed
<1>2. BInv /\ [BroadcastNext]_allVars => [Reaches]_allVars
  BY <1>1
<1> QED
  BY <1>2, BroadcastInvariance, PTL DEF BroadcastSpec, DoneReachesEveryEntry
-----------------------------------------------------------------------------
(* Evidence.                                                               *)

\* How far the wipe command has come.  The process that it waits for, and the
\* hub that told the members, take no part in a start; and while nothing else
\* came between, there is no hub process but that one.
WipeTypes ==
    /\ proc \in [Pids -> {"none", "starting", "up", "ending"}]
    /\ state \in Pids \cup {NoPid}
    /\ wipe \in {Evidence!Idle} \cup [at : {"stop", "wait", "destroy"}, hub : Pids,
                                      pid : Pids \cup {NoPid}, destroy : BOOLEAN]

WipeOrder ==
    /\ state # NoPid => proc[state] # "starting"
    /\ wipe # Evidence!Idle => proc[wipe.hub] # "starting"
    /\ wipe.at = "wait" => wipe.pid \in Pids /\ proc[wipe.pid] # "starting"
    /\ wipe.at = "wait" /\ alone => wipe.pid = wipe.hub
    /\ wipe.at = "stop" /\ alone =>
          state = wipe.hub \/ (state = NoPid /\ Evidence!Dead(wipe.hub))
    /\ wipe.at \in {"stop", "wait"} /\ alone =>
          \A p \in Pids : p # wipe.hub => Evidence!Dead(p)
    /\ wipe.at = "destroy" => state # wipe.hub
    /\ wipe.at = "destroy" /\ alone => \A p \in Pids : Evidence!Dead(p)

WipeInv == WipeTypes /\ WipeOrder

LEMMA WipeInvLasts == WipeInv /\ [Evidence!Next]_(Evidence!vars) => WipeInv'
<1> SUFFICES ASSUME WipeInv, [Evidence!Next]_(Evidence!vars) PROVE WipeInv'
  OBVIOUS
<1>0. NoPid \notin Pids
  BY PartsAssumption DEF Evidence!EvidenceAssumption
<1>t. /\ wipe = Evidence!Idle <=> wipe.at = "idle"
      /\ wipe # Evidence!Idle => /\ wipe.hub \in Pids /\ wipe.pid \in Pids \cup {NoPid}
                                 /\ wipe.at \in {"stop", "wait", "destroy"}
  BY DEF WipeInv, WipeTypes, Evidence!Idle
<1> USE <1>0 DEF WipeInv, Evidence!Dead, Evidence!Running, Evidence!Stopped,
                Evidence!hubVars, Evidence!wiping, Evidence!exporting
<1>same. ASSUME UNCHANGED <<wipe, alone, proc, state>> PROVE WipeInv'
  BY <1>same DEF WipeTypes, WipeOrder
<1>volume. CASE \/ Evidence!Create \/ Evidence!Unlock \/ Evidence!Lock \/ Evidence!Destroy
                \/ \E f \in Files : Evidence!Write(f)
  BY <1>volume, <1>same DEF Evidence!Create, Evidence!Unlock, Evidence!Lock, Evidence!Destroy,
                            Evidence!Write
<1>export. CASE \/ Evidence!List \/ Evidence!Hash \/ Evidence!Zip \/ Evidence!Manifest
                \/ Evidence!Sum \/ Evidence!ExportEnds
  BY <1>export, <1>same DEF Evidence!List, Evidence!Hash, Evidence!Zip, Evidence!Manifest,
                            Evidence!Sum, Evidence!ExportEnds
<1>start. ASSUME NEW p \in Pids, Evidence!Start(p) PROVE WipeInv'
  <2>1. WipeTypes'
    BY <1>start DEF Evidence!Start, WipeTypes
  <2>2. WipeOrder'
    BY <1>start, <1>t DEF Evidence!Start, WipeTypes, WipeOrder
  <2> QED
    BY <2>1, <2>2
<1>serve. ASSUME NEW p \in Pids, Evidence!Serve(p) PROVE WipeInv'
  <2>1. WipeTypes'
    BY <1>serve DEF Evidence!Serve, WipeTypes
  <2>2. WipeOrder'
    BY <1>serve, <1>t DEF Evidence!Serve, WipeTypes, WipeOrder
  <2> QED
    BY <2>1, <2>2
<1>end. ASSUME NEW p \in Pids, Evidence!End(p) PROVE WipeInv'
  <2>1. WipeTypes'
    BY <1>end DEF Evidence!End, WipeTypes
  <2>2. WipeOrder'
    BY <1>end, <1>t DEF Evidence!End, WipeTypes, WipeOrder
  <2> QED
    BY <2>1, <2>2
<1>exit. ASSUME NEW p \in Pids, Evidence!Exit(p) PROVE WipeInv'
  <2>1. WipeTypes'
    BY <1>exit DEF Evidence!Exit, WipeTypes
  <2>2. WipeOrder'
    BY <1>exit, <1>t DEF Evidence!Exit, WipeTypes, WipeOrder
  <2> QED
    BY <2>1, <2>2
<1>tell. ASSUME NEW destroy \in BOOLEAN, Evidence!Tell(destroy) PROVE WipeInv'
  <2>1. WipeTypes'
    BY <1>tell, <1>t DEF Evidence!Tell, Evidence!Idle, WipeTypes
  <2>2. WipeOrder'
    BY <1>tell, <1>t DEF Evidence!Tell, Evidence!Idle, WipeTypes, WipeOrder
  <2> QED
    BY <2>1, <2>2
<1>none. CASE Evidence!StopFindsNone
  <2>1. WipeTypes'
    BY <1>none, <1>t DEF Evidence!StopFindsNone, Evidence!Idle, WipeTypes
  <2>2. WipeOrder'
    BY <1>none, <1>t DEF Evidence!StopFindsNone, Evidence!Idle, WipeTypes, WipeOrder
  <2> QED
    BY <2>1, <2>2
<1>asks. CASE Evidence!StopAsks
  <2>1. WipeTypes'
    BY <1>asks, <1>t DEF Evidence!StopAsks, Evidence!Idle, WipeTypes
  <2>2. WipeOrder'
    BY <1>asks, <1>t DEF Evidence!StopAsks, Evidence!Idle, WipeTypes, WipeOrder
  <2> QED
    BY <2>1, <2>2
<1>stopped. CASE Evidence!StopWithin
  <2>1. WipeTypes'
    BY <1>stopped, <1>t DEF Evidence!StopWithin, Evidence!Idle, WipeTypes
  <2>2. WipeOrder'
    BY <1>stopped, <1>t DEF Evidence!StopWithin, Evidence!Idle, WipeTypes, WipeOrder
  <2> QED
    BY <2>1, <2>2
<1>ends. CASE Evidence!StopFails \/ Evidence!WipeDestroys \/ Evidence!WipeKeeps
  BY <1>ends DEF Evidence!StopFails, Evidence!WipeDestroys, Evidence!WipeKeeps,
                 Evidence!Idle, WipeTypes, WipeOrder
<1>stutter. CASE UNCHANGED Evidence!vars
  BY <1>stutter, <1>same DEF Evidence!vars
<1> QED
  BY <1>volume, <1>export, <1>start, <1>serve, <1>end, <1>exit, <1>tell, <1>none, <1>asks,
     <1>stopped, <1>ends, <1>stutter DEF Evidence!Next

\* When the wipe destroys the evidence the state file does not name the hub that
\* told the members, and no hub is left unless something came between.
THEOREM EvidenceGoesLast == Evidence!Spec => WipeDestroysLast
<1>1. Evidence!Init => WipeInv
  BY DEF Evidence!Init, WipeInv, WipeTypes, WipeOrder, Evidence!Idle
<1>2. WipeInv /\ [Evidence!Next]_(Evidence!vars) =>
        [wipe.at = "destroy" /\ wipe' = Evidence!Idle /\ image' = "absent" =>
           wipe.hub # state /\ (alone => \A p \in Pids : Evidence!Dead(p))]_(Evidence!vars)
  BY DEF WipeInv, WipeOrder
<1> QED
  BY <1>1, <1>2, WipeInvLasts, PTL DEF Evidence!Spec, WipeDestroysLast, Evidence!WipeDestroysLast

\* What the last export has at its path: the digests taken agree with the files
\* it lists until one of them changes, and from the archive on with each other.
ExportShape ==
    \/ export \in {Evidence!Idle, Evidence!Done}
    \/ export = [at |-> "hash", sizes |-> export.sizes]
    \/ /\ export.at \in {"zip", "manifest", "sum"}
       /\ export = [at |-> export.at, sizes |-> export.sizes, items |-> export.items]

ArchiveInv ==
    /\ ExportShape
    /\ out = [archive |-> out.archive, manifest |-> out.manifest, sum |-> out.sum]
    /\ quiet /\ export.at = "hash" => \A f \in Evidence!Listed : export.sizes[f] = files[f]
    /\ quiet /\ export.at = "zip" =>
          /\ DOMAIN export.items = Evidence!Listed
          /\ \A f \in Evidence!Listed : export.items[f] = <<files[f], files[f]>>
    /\ quiet /\ export.at \in {"manifest", "sum", "done"} => Evidence!ArchiveAgrees
    /\ export.at \in {"sum", "done"} => out.manifest = out.archive
    /\ export.at = "done" => out.sum = out.archive

LEMMA ArchiveInvLasts == ArchiveInv /\ [Evidence!Next]_(Evidence!vars) => ArchiveInv'
<1> SUFFICES ASSUME ArchiveInv, [Evidence!Next]_(Evidence!vars) PROVE ArchiveInv'
  OBVIOUS
<1> USE DEF ArchiveInv, ExportShape, Evidence!Listed, Evidence!Idle, Evidence!Done
<1>same. ASSUME UNCHANGED <<export, out>>, UNCHANGED <<files, quiet>> \/ ~quiet'
         PROVE  ArchiveInv'
  BY <1>same DEF Evidence!ArchiveAgrees
<1>volume. CASE \/ Evidence!Create \/ Evidence!Unlock \/ Evidence!Lock \/ Evidence!Destroy
                \/ \E f \in Files : Evidence!Write(f)
  BY <1>volume, <1>same DEF Evidence!Create, Evidence!Unlock, Evidence!Lock, Evidence!Destroy,
     Evidence!Destroyed, Evidence!Write, Evidence!exporting
<1>hub. CASE \E p \in Pids : Evidence!Start(p) \/ Evidence!Serve(p) \/ Evidence!End(p) \/ Evidence!Exit(p)
  BY <1>hub, <1>same DEF Evidence!Start, Evidence!Serve, Evidence!End, Evidence!Exit,
     Evidence!exporting
<1>wipe. CASE \/ \E destroy \in BOOLEAN : Evidence!Tell(destroy)
              \/ Evidence!StopFindsNone \/ Evidence!StopAsks \/ Evidence!StopWithin
              \/ Evidence!StopFails \/ Evidence!WipeDestroys \/ Evidence!WipeKeeps
              \/ UNCHANGED Evidence!vars
  BY <1>wipe, <1>same DEF Evidence!Tell, Evidence!StopFindsNone, Evidence!StopAsks,
     Evidence!StopWithin, Evidence!StopFails,
     Evidence!WipeDestroys, Evidence!Destroyed, Evidence!WipeKeeps, Evidence!exporting,
     Evidence!vars
<1>list. CASE Evidence!List
  BY <1>list DEF Evidence!List
<1>hash. CASE Evidence!Hash
  BY <1>hash DEF Evidence!Hash
<1>zip. CASE Evidence!Zip
  <2>1. /\ export.at = "zip" /\ UNCHANGED <<files, quiet>>
        /\ out' = [archive |-> [no |-> exports, items |-> export.items,
                                holds |-> [f \in Evidence!Listed |-> files[f]]],
                   manifest |-> out.manifest, sum |-> out.sum]
        /\ export' = [at |-> "manifest", sizes |-> export.sizes, items |-> export.items]
    BY <1>zip DEF Evidence!Zip
  <2>2. quiet => Evidence!ArchiveAgrees'
    BY <2>1 DEF Evidence!ArchiveAgrees
  <2> QED
    BY <2>1, <2>2
<1>manifest. CASE Evidence!Manifest
  BY <1>manifest DEF Evidence!Manifest, Evidence!ArchiveAgrees
<1>sum. CASE Evidence!Sum
  BY <1>sum DEF Evidence!Sum, Evidence!ArchiveAgrees
<1>ends. CASE Evidence!ExportEnds
  BY <1>ends DEF Evidence!ExportEnds
<1> QED
  BY <1>volume, <1>hub, <1>wipe, <1>list, <1>hash, <1>zip, <1>manifest, <1>sum, <1>ends
     DEF Evidence!Next

\* An export that ran to its end over evidence that did not change verifies,
\* whatever earlier exports left at its path.
THEOREM QuietExportsVerify == Evidence!Spec => []QuietExportVerifies
<1>1. Evidence!Init => ArchiveInv
  BY DEF Evidence!Init, ArchiveInv, ExportShape, Evidence!Idle, Evidence!Done
<1>2. ArchiveInv => QuietExportVerifies
  BY DEF ArchiveInv, QuietExportVerifies, Evidence!QuietExportVerifies, Evidence!Verifies,
     Evidence!SidecarsAgree, Evidence!ArchiveAgrees, Evidence!None, Evidence!Done
<1> QED
  BY <1>1, <1>2, ArchiveInvLasts, PTL DEF Evidence!Spec

-----------------------------------------------------------------------------
\* What was proved of the parts holds wherever they run side by side.
THEOREM PartsHold ==
    WipeSpec => DoneReachesEveryEntry /\ WipeDestroysLast /\ []QuietExportVerifies
BY Composed, DoneReaches, EvidenceGoesLast, QuietExportsVerify, PTL
=============================================================================
