----------------------------- MODULE MemberRoles -----------------------------
(***************************************************************************)
(* A member's role is held in four places: the Member object, its row, the *)
(* ConnectionManager's table that alerts are addressed by, and the client, *)
(* which is told.  A join writes memory and then awaits the row; promote   *)
(* and demote (server.py) write the four one after the other with awaits   *)
(* in between, while the member joins, leaves and comes back, handlers of  *)
(* earlier connections end, statements fail and the hub restarts.          *)
(***************************************************************************)
EXTENDS Naturals, FiniteSets

CONSTANTS
    Staff,        \* members whose role the coordinator changes
    Requests      \* the coordinator's requests in progress at once

RolesAssumption == IsFiniteSet(Staff) /\ IsFiniteSet(Requests)

Role == {"observer", "sensor"}
None == "none"

VARIABLES
    role,      \* Member.role in memory, None before the member joins
    row,       \* members.role, None before its INSERT
    entry,     \* ConnectionManager.roles, None when the member is not in it
    told,      \* what the client that connected last was told, None once it left
    change,    \* change[q]: [at, member, to]
    alone      \* history: the latest change of a member overlapped no other and
               \* nothing of it failed

vars == <<role, row, entry, told, change, alone>>
NoChange == [at |-> "idle", member |-> None, to |-> None]
Changing(m) == \E q \in Requests : change[q].member = m

Init ==
    /\ role = [m \in Staff |-> None] /\ row = role /\ entry = role /\ told = role
    /\ change = [q \in Requests |-> NoChange]
    /\ alone = [m \in Staff |-> TRUE]

-----------------------------------------------------------------------------
(* A member joins, connects and leaves.                                    *)

\* add_member: in memory at once, so that the coordinator may change its role
\* while the INSERT of what it was created with is awaited.
Join(m) ==
    /\ role[m] = None /\ row[m] = None
    /\ role' = [role EXCEPT ![m] = "observer"]
    /\ UNCHANGED <<row, entry, told, change, alone>>

InsertRow(m) ==
    /\ role[m] # None /\ row[m] = None
    /\ row' = [row EXCEPT ![m] = "observer"]
    /\ UNCHANGED <<role, entry, told, change, alone>>

\* Mutant: a member that connects is entered as an observer, whatever it is.
Connect_Observer(m) ==
    /\ row[m] # None
    /\ entry' = [entry EXCEPT ![m] = "observer"]
    /\ told' = [told EXCEPT ![m] = role[m]]
    /\ UNCHANGED <<role, row, change, alone>>

\* register and auth_ok of a join or a resume, with the role of the Member
\* object; a client that is still registered is replaced.
Connect(m) ==
    /\ row[m] # None
    /\ entry' = [entry EXCEPT ![m] = role[m]]
    /\ told' = [told EXCEPT ![m] = role[m]]
    /\ UNCHANGED <<role, row, change, alone>>

\* The handler of the client that connected last ends.
Leave(m) ==
    /\ told[m] # None
    /\ entry' = [entry EXCEPT ![m] = None] /\ told' = [told EXCEPT ![m] = None]
    /\ UNCHANGED <<role, row, change, alone>>

\* unregister goes by the member's id: the end of an earlier handler, a send of
\* a broadcast that failed, or the watcher of quiet members takes the member out
\* of the table while its latest client lives on with the role it was told.
Unregister(m) ==
    /\ entry[m] # None
    /\ entry' = [entry EXCEPT ![m] = None]
    /\ UNCHANGED <<role, row, told, change, alone>>

-----------------------------------------------------------------------------
(* promote, demote                                                         *)

\* promote_member, demote_member: memory first, then the row is awaited.
Change(q, m, to) ==
    /\ change[q] = NoChange /\ role[m] # None
    /\ role' = [role EXCEPT ![m] = to]
    /\ change' = [change EXCEPT ![q] = [at |-> "row", member |-> m, to |-> to]]
    /\ alone' = [alone EXCEPT ![m] = ~Changing(m) /\ row[m] # None]
    /\ UNCHANGED <<row, entry, told>>

\* The UPDATE, which changes nothing before the member's INSERT.
WriteRow(q) ==
    LET m == change[q].member IN
    /\ change[q].at = "row"
    /\ row' = [row EXCEPT ![m] = IF @ = None THEN None ELSE change[q].to]
    /\ change' = [change EXCEPT ![q].at = "entry"]
    /\ UNCHANGED <<role, entry, told, alone>>

\* The UPDATE raises, and the request ends.
RowFails(q) ==
    /\ change[q].at = "row"
    /\ alone' = [alone EXCEPT ![change[q].member] = FALSE]
    /\ change' = [change EXCEPT ![q] = NoChange]
    /\ UNCHANGED <<role, row, entry, told>>

\* update_role and send_to, for a member that is in the table.
Tell(q) ==
    LET m == change[q].member IN
    /\ change[q].at = "entry"
    /\ entry' = [entry EXCEPT ![m] = IF @ = None THEN None ELSE change[q].to]
    /\ told' = [told EXCEPT ![m] = IF entry[m] = None THEN @ ELSE change[q].to]
    /\ change' = [change EXCEPT ![q] = NoChange]
    /\ UNCHANGED <<role, row, alone>>

\* The send fails ...
TellFails(q) ==
    LET m == change[q].member IN
    /\ change[q].at = "entry" /\ entry[m] # None
    /\ entry' = [entry EXCEPT ![m] = change[q].to]
    /\ change' = [change EXCEPT ![q].at = "drop"]
    /\ UNCHANGED <<role, row, told, alone>>

\* ... and the member is dropped, whoever is connected for it by now.
Drop(q) ==
    /\ change[q].at = "drop"
    /\ entry' = [entry EXCEPT ![change[q].member] = None]
    /\ change' = [change EXCEPT ![q] = NoChange]
    /\ UNCHANGED <<role, row, told, alone>>

\* A crash and the next start, which reads the members from their rows.
Restart ==
    /\ role' = row /\ UNCHANGED row
    /\ entry' = [m \in Staff |-> None] /\ told' = entry'
    /\ change' = [q \in Requests |-> NoChange]
    /\ alone' = [m \in Staff |-> TRUE]

Next ==
    \/ \E q \in Requests :
         \/ \E m \in Staff, to \in Role : Change(q, m, to)
         \/ WriteRow(q) \/ RowFails(q) \/ Tell(q) \/ TellFails(q) \/ Drop(q)
    \/ \E m \in Staff : Join(m) \/ InsertRow(m) \/ Connect(m) \/ Leave(m) \/ Unregister(m)
    \/ Restart

Spec == Init /\ [][Next]_vars

-----------------------------------------------------------------------------
\* A member's record and its row say the same role once a change of it is
\* through, and as long as it is in the table of connections that alerts are
\* addressed by, so do its entry and its client -- over joins, reconnects,
\* failed sends, restarts and the ends of earlier handlers.  Provided the change
\* was the only one of the member (of two at once the rows may be written in the
\* other order than memory was), came after its INSERT (an UPDATE before it is
\* lost) and its UPDATE did not fail.  A client that was taken out of the table
\* is not told, and stays with the role it has.
RolesAgree ==
    \A m \in Staff : row[m] # None /\ alone[m] /\ ~Changing(m) =>
        /\ row[m] = role[m]
        /\ entry[m] # None => entry[m] = role[m] /\ told[m] = role[m]
=============================================================================
