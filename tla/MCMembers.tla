------------------------------ MODULE MCMembers ------------------------------
(* Who is a member, in what role, with which credentials, and what becomes   *)
(* of what the members observe: components that share no state, each         *)
(* explored with the others at rest.                                         *)
EXTENDS MCHubMembers

CONSTANTS Staff, Requests                             \* MemberRoles
CONSTANTS Browsers, MaxIds, MaxRuns                   \* LocalSessions
CONSTANTS Phones, People, Rotations, MaxTokens        \* MemberSessions
CONSTANTS Workers, Sources, Keys, Severities, MaxObs, MaxActs    \* Findings

VARIABLES role, roleRow, entry, told, change, alone
VARIABLES file, issued, run, up, hub, cli, shown, cookie, out, mixed
VARIABLES token, tokenRow, made, rotating, answered, person, personRow,
          joining, joinCookie, code, session
VARIABLES backend, stamp, call, incident, findingRow, events, sent, noting, acts,
          failed, top, base
VARIABLE part

Roles == INSTANCE MemberRoles WITH row <- roleRow
Local == INSTANCE LocalSessions
Sessions == INSTANCE MemberSessions
Found == INSTANCE Findings WITH row <- findingRow

ASSUME PartsAssumption ==
    /\ Roles!RolesAssumption /\ Local!SessionsAssumption /\ Sessions!MembersAssumption
    /\ Found!FindingsAssumption

roleVars == <<role, roleRow, entry, told, change, alone>>
localVars == <<file, issued, run, up, hub, cli, shown, cookie, out, mixed>>
sessionVars == <<token, tokenRow, made, rotating, answered, person, personRow,
                 joining, joinCookie, code, session>>
findingVars == <<backend, stamp, call, incident, findingRow, events, sent, noting, acts,
                 failed, top, base>>

AllInit ==
    /\ Init /\ Roles!Init /\ Local!Init /\ Sessions!Init /\ Found!Init
    /\ part \in {"members", "roles", "local", "sessions", "findings"}
    /\ part # "findings" => backend = "heuristic"

AllNext ==
    /\ part' = part
    /\ \/ part = "members" /\ Next /\ UNCHANGED <<roleVars, localVars, sessionVars, findingVars>>
       \/ part = "roles" /\ Roles!Next /\ UNCHANGED <<vars, localVars, sessionVars, findingVars>>
       \/ part = "local" /\ Local!Next /\ UNCHANGED <<vars, roleVars, sessionVars, findingVars>>
       \/ part = "sessions" /\ Sessions!Next /\ UNCHANGED <<vars, roleVars, localVars, findingVars>>
       \/ part = "findings" /\ Found!Next /\ UNCHANGED <<vars, roleVars, localVars, sessionVars>>

AllSpec == AllInit /\ [][AllNext]_<<vars, roleVars, localVars, sessionVars, findingVars, part>>

\* The workers are alike, and the sockets.
MembersSymmetry == SocketSymmetry \cup Permutations(Workers)

-----------------------------------------------------------------------------
\* Everybody agrees on a member's role: see MemberRoles.
RolesAgree == Roles!RolesAgree

\* After a logout no session is left: see LocalSessions.
SessionsEnd == Local!SessionsEnd

\* After a rotation no older QR code lets anyone in: see MemberSessions.
RotationLasts == Sessions!RotationLasts

\* A browser that was given a member keeps it: see MemberSessions.
SessionLasts == Sessions!SessionLasts

\* A resolved finding has heard no news: see Findings.
NewsReopens == Found!NewsReopens

\* A corroborated incident is told once and for all: see Findings.
CorroborationTold == Found!CorroborationTold

=============================================================================
