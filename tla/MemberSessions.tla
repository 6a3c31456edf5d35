---------------------------- MODULE MemberSessions ----------------------------
(***************************************************************************)
(* How a member's browser is let in (server.py, operation.py).  The QR     *)
(* code carries the operation's join token, which the coordinator may      *)
(* rotate; /join turns it into a cookie, the first /ws connection with it  *)
(* makes a member and returns a short code, and the code is traded for a   *)
(* runtime session cookie, a sealed token the hub keeps no record of: it   *)
(* counts while the operation, the member and its expiry allow.            *)
(***************************************************************************)
EXTENDS Naturals, FiniteSets, FiniteSetsExt

CONSTANTS
    Phones,       \* members' browsers
    People,       \* the identities add_member may make
    Rotations,    \* rotate-token requests in progress at once
    MaxTokens     \* bound: join tokens made

MembersAssumption ==
    IsFiniteSet(Phones) /\ IsFiniteSet(People) /\ IsFiniteSet(Rotations) /\ MaxTokens \in Nat

VARIABLES
    token,      \* Operation.token in memory
    tokenRow,   \* operations.token
    made,       \* join tokens made so far
    rotating,   \* rotating[r]: the token a request is writing, 0 for none
    answered,   \* history: the token last answered, 0 once two rotations overlapped
    person,     \* person[m]: Member.status in memory: absent, in, kicked
    personRow,  \* the row of m
    joining,    \* joining[p]: the identity p's /ws handler is inserting
    joinCookie, \* joinCookie[p]: a join token, 0 for none
    code,       \* code[p]: the member of the bootstrap code, None
    session     \* session[p]: the member of the runtime cookie, None

vars == <<token, tokenRow, made, rotating, answered, person, personRow,
          joining, joinCookie, code, session>>
tokens == <<token, tokenRow, made, rotating, answered>>
persons == <<person, personRow>>
browsers == <<joining, joinCookie, code, session>>

None == "none"
Absent == "absent"

Init ==
    /\ token = 1 /\ tokenRow = 1 /\ made = 1
    /\ rotating = [r \in Rotations |-> 0] /\ answered = 1
    /\ person = [m \in People |-> Absent] /\ personRow = person
    /\ joining = [p \in Phones |-> None] /\ joinCookie = [p \in Phones |-> 0]
    /\ code = joining /\ session = joining

-----------------------------------------------------------------------------
\* rotate_token: memory, then the row, then the answer.
Rotate(r) ==
    /\ rotating[r] = 0 /\ made < MaxTokens
    /\ made' = made + 1 /\ token' = made'
    /\ rotating' = [rotating EXCEPT ![r] = made']
    /\ answered' = IF \E q \in Rotations : rotating[q] # 0 THEN 0 ELSE answered
    /\ UNCHANGED <<tokenRow, persons, browsers>>

\* Mutant: the row keeps the old token.
Rotated_NoRow(r) ==
    /\ rotating[r] # 0
    /\ rotating' = [rotating EXCEPT ![r] = 0]
    /\ answered' = IF answered = 0 THEN 0 ELSE rotating[r]
    /\ UNCHANGED <<token, tokenRow, made, persons, browsers>>

\* Of two at once the rows may be written in either order; answered is 0 then.
Rotated(r) ==
    /\ rotating[r] # 0
    /\ tokenRow' = rotating[r]
    /\ rotating' = [rotating EXCEPT ![r] = 0]
    /\ answered' = IF answered = 0 THEN 0 ELSE rotating[r]
    /\ UNCHANGED <<token, made, persons, browsers>>

-----------------------------------------------------------------------------
Joins(p) == joinCookie[p] = token
\* _decode_member_runtime_token; an expired token is None here already
Decodes(m) == m # None /\ person[m] = "in"

\* GET /join?token=t: a good token replaces the session, a bad one ends it.
Scan(p, t) ==
    /\ joinCookie' = [joinCookie EXCEPT ![p] = IF t = token THEN t ELSE 0]
    /\ session' = [session EXCEPT ![p] = None]
    /\ UNCHANGED <<tokens, persons, joining, code>>

\* GET /join, /member and /api/member/session drop the cookies that no
\* longer count.
Visit(p) ==
    /\ joinCookie' = [joinCookie EXCEPT ![p] = IF Joins(p) THEN @ ELSE 0]
    /\ session' = [session EXCEPT ![p] = IF Decodes(@) THEN @ ELSE None]
    /\ UNCHANGED <<tokens, persons, joining, code>>

\* /ws: a runtime session that decodes resumes its member, a join cookie makes
\* a new one, whose row is awaited before auth_ok carries the code.
Resume(p) ==
    /\ joining[p] = None /\ Decodes(session[p])
    /\ code' = [code EXCEPT ![p] = session[p]]
    /\ UNCHANGED <<tokens, persons, joining, joinCookie, session>>

Join(p, m) ==
    /\ joining[p] = None /\ ~Decodes(session[p]) /\ Joins(p)
    /\ person[m] = Absent /\ personRow[m] = Absent
    /\ person' = [person EXCEPT ![m] = "in"]
    /\ joining' = [joining EXCEPT ![p] = m]
    /\ UNCHANGED <<tokens, personRow, joinCookie, code, session>>

\* Mutant: the code is sent without waiting for the row.
Joined_Early(p) ==
    /\ joining[p] # None
    /\ code' = [code EXCEPT ![p] = joining[p]]
    /\ joining' = [joining EXCEPT ![p] = None]
    /\ UNCHANGED <<tokens, persons, joinCookie, session>>

Joined(p) ==
    /\ joining[p] # None
    /\ personRow' = [personRow EXCEPT ![joining[p]] = "in"]
    /\ code' = [code EXCEPT ![p] = joining[p]]
    /\ joining' = [joining EXCEPT ![p] = None]
    /\ UNCHANGED <<tokens, person, joinCookie, session>>

\* POST /api/member/runtime-session
Trade(p) ==
    /\ code[p] # None
    /\ code' = [code EXCEPT ![p] = None]
    /\ session' = [session EXCEPT ![p] = IF Decodes(code[p]) THEN code[p] ELSE None]
    /\ joinCookie' = [joinCookie EXCEPT ![p] = IF Decodes(code[p]) THEN 0 ELSE @]
    /\ UNCHANGED <<tokens, persons, joining>>

\* DELETE /api/member/session
SignOut(p) ==
    /\ joinCookie' = [joinCookie EXCEPT ![p] = 0]
    /\ session' = [session EXCEPT ![p] = None]
    /\ UNCHANGED <<tokens, persons, joining, code>>

Expire(p) ==
    /\ \/ code' = [code EXCEPT ![p] = None] /\ UNCHANGED session
       \/ session' = [session EXCEPT ![p] = None] /\ UNCHANGED code
    /\ UNCHANGED <<tokens, persons, joining, joinCookie>>

Kick(m) ==
    /\ person[m] = "in" /\ personRow[m] = "in"
    /\ person' = [person EXCEPT ![m] = "kicked"]
    /\ personRow' = [personRow EXCEPT ![m] = "kicked"]
    /\ UNCHANGED <<tokens, browsers>>

\* A crash and the next start: what is in the rows is what counts.
Restart ==
    /\ token' = tokenRow
    /\ rotating' = [r \in Rotations |-> 0]
    /\ person' = personRow
    /\ joining' = [p \in Phones |-> None]
    /\ UNCHANGED <<tokenRow, made, answered, personRow, joinCookie, code, session>>

Next ==
    \/ \E r \in Rotations : Rotate(r) \/ Rotated(r)
    \/ \E p \in Phones : \/ \E t \in 1..made : Scan(p, t)
                         \/ \E m \in People : Join(p, m)
                         \/ Visit(p) \/ Resume(p) \/ Joined(p) \/ Trade(p)
                         \/ SignOut(p) \/ Expire(p)
    \/ \E m \in People : Kick(m)
    \/ Restart

Spec == Init /\ [][Next]_vars

-----------------------------------------------------------------------------
\* Once a rotation is answered no older QR code lets anyone in, not even
\* after a crash and a restart -- as long as rotations do not overlap.
RotationLasts == \A p \in Phones : Joins(p) => joinCookie[p] >= answered

\* A browser that was given a member keeps it until the session expires, is
\* signed out or the member is kicked: whatever restarts come in between, the
\* hub knows every member that a code or a session names.
SessionLasts ==
    \A p \in Phones : \A m \in {code[p], session[p]} \ {None} : person[m] # Absent
=============================================================================
