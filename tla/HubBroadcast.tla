---------------------------- MODULE HubBroadcast ----------------------------
(***************************************************************************)
(* ConnectionManager.broadcast beside everything that HubMembers does: the *)
(* loop over the connections that the emergency wipe, the op_ended notice  *)
(* of a shutdown and (filtered by role) alerts go through.  It walks the   *)
(* dictionary itself and awaits a send per entry, so registrations and     *)
(* removals happen under its iterator.                                     *)
(*                                                                         *)
(* The iterator is CPython's: each step first compares the number of       *)
(* entries with the number at the start, and yields no more entries than   *)
(* that (either raises RuntimeError); a removed entry is not visited any   *)
(* more; a new one is appended and so comes later, unless the table had no *)
(* room left: then it is compacted, the entries move up, and those that    *)
(* come to lie behind the iterator are skipped in silence.                 *)
(***************************************************************************)
EXTENDS HubMembers

ASSUME MembersAreFinite == IsFiniteSet(Members)

VARIABLES
  phase,    \* "sending"; else how the last broadcast ended: "done", "aborted"
  todo,     \* the entries the iterator has not visited
  size,     \* the number of entries when the iteration began
  left,     \* the number of entries the iterator may still yield
  dead,     \* the members whose send raised
  audience, \* history: the live, served WebSockets when it began that have not
            \* taken the message
  addressed \* history: those in the table when it began that have not taken it,
            \* until an entry is made

broadcastVars == <<phase, todo, size, left, dead, audience, addressed>>
allVars == <<vars, broadcastVars>>

Entries == {m \in Members : Registered(m)}
Live    == {s \in Sockets : pc[s] = "serving" /\ link[s] # "closed"}

BroadcastInit ==
  /\ Init
  /\ phase = "done" /\ todo = {} /\ size = 0 /\ left = 0
  /\ dead = {} /\ audience = {} /\ addressed = {}

-----------------------------------------------------------------------------

Begin ==
  /\ phase # "sending"
  /\ phase'    = "sending"
  /\ todo'     = Entries
  /\ size'     = Cardinality(Entries)
  /\ left'     = size'
  /\ dead'     = {}
  /\ audience' = Live
  /\ addressed' = {conn[m] : m \in Entries}
  /\ UNCHANGED vars

\* A fault: the iterator goes on whatever became of the table.
SizeUnchanged_Unnoticed == TRUE

\* What the iterator finds out before every entry, and before it ends.
SizeUnchanged == Cardinality(Entries) = size

\* One entry: the send succeeds on a live WebSocket and raises on a closed one.
SendTo(m) ==
  /\ phase = "sending" /\ SizeUnchanged /\ m \in todo /\ left > 0
  /\ todo' = todo \ {m}
  /\ left' = left - 1
  /\ IF link[conn[m]] = "closed"
     THEN dead' = dead \cup {m} /\ UNCHANGED <<audience, addressed>>
     ELSE /\ audience' = audience \ {conn[m]} /\ addressed' = addressed \ {conn[m]}
          /\ UNCHANGED dead
  /\ UNCHANGED <<vars, phase, size>>

\* The frame and its iterator are gone.
Forget ==
  /\ todo' = {} /\ size' = 0 /\ left' = 0 /\ dead' = {} /\ audience' = {} /\ addressed' = {}

\* The end of the loop: the members whose send raised are unregistered.
Finish ==
  /\ phase = "sending" /\ SizeUnchanged /\ todo = {}
  /\ phase' = "done"
  /\ Forget
  /\ conn'  = [m \in Members |-> IF m \in dead THEN NoSocket ELSE conn[m]]
  /\ stale' = [m \in Members |-> stale[m] /\ m \notin dead]
  /\ UNCHANGED <<status, row, handlerVars, kickVars, watchVars>>

\* RuntimeError: dictionary changed size, or its keys changed, during iteration.
Abort ==
  /\ phase = "sending"
  /\ ~SizeUnchanged \/ (left = 0 /\ todo # {})
  /\ phase' = "aborted"
  /\ Forget
  /\ UNCHANGED vars

\* The step enters a member, or enters it again: the entry is popped first.
Inserts == \E m \in Members : conn'[m] \notin {conn[m], NoSocket}

\* What a change of the connections does to the iterator.  An insertion may find
\* the table full, and then any of the entries to come may be lost to it.
IteratorFollows ==
  LET ahead == {m \in Members :
                  /\ conn'[m] # NoSocket
                  /\ m \in todo \/ conn'[m] # conn[m]} IN
  IF Inserts THEN todo' \in SUBSET ahead ELSE todo' = ahead

\* A step of HubMembers in the middle of a broadcast, or outside one.  A
\* socket that is used again is not the one that was owed the message.
MembersStep ==
  /\ Next
  /\ IF phase = "sending" THEN IteratorFollows ELSE UNCHANGED todo
  /\ audience' = {s \in audience : pc'[s] # "free"}
  /\ addressed' = IF Inserts THEN {} ELSE {s \in addressed : pc'[s] # "free"}
  /\ UNCHANGED <<phase, size, left, dead>>

BroadcastNext ==
  \/ Begin
  \/ \E m \in Members : SendTo(m)
  \/ Finish
  \/ Abort
  \/ MembersStep

BroadcastSpec == BroadcastInit /\ [][BroadcastNext]_allVars

-----------------------------------------------------------------------------

\* A broadcast that runs to its end while nobody connected has offered the
\* message to every WebSocket of the table it began with, those included that
\* kicks, quiet, the ends of handlers and failed sends took out on the way: the
\* loop notices that an entry is gone, and raises, rather than pass it over.
\* (Once somebody connected it does not: the insertion may compact the table
\* under the iterator.)
DoneReachesEveryEntry ==
  [][phase = "sending" /\ phase' = "done" =>
       \A s \in addressed : link[s] = "closed"]_allVars

-----------------------------------------------------------------------------
(* What the repository says, and the code does not keep.                   *)

\* docs/specs/2026-03-21-osk-design.md:185, "Hub broadcasts {wipe} to all
\* connected members": when the broadcast ends, it has reached every
\* connection that was live when it began and still is.
WipeReachesConnected ==
  [][phase = "sending" /\ phase' # "sending" =>
       \A s \in audience : link[s] = "closed"]_allVars
=============================================================================
