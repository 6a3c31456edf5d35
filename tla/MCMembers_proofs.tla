-------------------------- MODULE MCMembers_proofs --------------------------
(* What holds of roles, credentials and findings for any numbers of members, *)
(* browsers, requests, workers and observations, alone and composed.         *)
EXTENDS MCMembers, HubMembers_proofs, FiniteSetTheorems, SequenceTheorems

-----------------------------------------------------------------------------
(* The composition.                                                        *)

\* Each part runs as its component does, or stands still.
LEMMA Composed ==
    AllSpec => Spec /\ Roles!Spec /\ Local!Spec /\ Sessions!Spec /\ Found!Spec
<1>1. AllInit => Init /\ Roles!Init /\ Local!Init /\ Sessions!Init /\ Found!Init
  BY DEF AllInit
<1>2. [AllNext]_<<vars, roleVars, localVars, sessionVars, findingVars, part>> =>
        /\ [Next]_vars /\ [Roles!Next]_(Roles!vars) /\ [Local!Next]_(Local!vars)
        /\ [Sessions!Next]_(Sessions!vars) /\ [Found!Next]_(Found!vars)
  BY DEF AllNext, roleVars, localVars, sessionVars, findingVars, Roles!vars, Local!vars,
         Sessions!vars, Found!vars
<1> QED
  BY <1>1, <1>2, PTL DEF AllSpec, Spec, Roles!Spec, Local!Spec, Sessions!Spec, Found!Spec


\* The members that browser p's handler, code and session stand for.
NamedBy(p) == {joining[p], code[p], session[p]} \ {Sessions!None}

SessionTypes ==
    /\ token \in Nat /\ tokenRow \in Nat /\ made \in Nat /\ answered \in Nat
    /\ rotating \in [Rotations -> Nat]
    /\ joinCookie \in [Phones -> Nat]
    /\ person \in [People -> {Sessions!Absent, "in", "kicked"}]
    /\ personRow \in [People -> {Sessions!Absent, "in", "kicked"}]
    /\ joining \in [Phones -> People \cup {Sessions!None}]
    /\ code \in [Phones -> People \cup {Sessions!None}]
    /\ session \in [Phones -> People \cup {Sessions!None}]

-----------------------------------------------------------------------------
(* Rotations.                                                              *)

\* As long as rotations have not overlapped, memory and row are at least as
\* new as what was answered, and what is on its way to the row is in memory.
RotationInv ==
    /\ tokenRow <= made /\ token <= made /\ \A r \in Rotations : rotating[r] <= made
    /\ answered # 0 =>
          /\ answered <= token /\ answered <= tokenRow
          /\ \A r \in Rotations : rotating[r] # 0 => rotating[r] = token
          /\ \A q, r \in Rotations : rotating[q] # 0 /\ rotating[r] # 0 => q = r

\* Steps of browsers and members: the tokens stay.
LEMMA OthersLeaveTokens ==
    ASSUME Sessions!Next
    PROVE  \/ \E r \in Rotations : Sessions!Rotate(r) \/ Sessions!Rotated(r)
           \/ Sessions!Restart
           \/ UNCHANGED Sessions!tokens
BY DEF Sessions!Next, Sessions!Scan, Sessions!Visit, Sessions!Resume, Sessions!Join,
       Sessions!Joined, Sessions!Trade, Sessions!SignOut, Sessions!Expire, Sessions!Kick

LEMMA SessionTypesLast == SessionTypes /\ [Sessions!Next]_(Sessions!vars) => SessionTypes'
<1> SUFFICES ASSUME SessionTypes, [Sessions!Next]_(Sessions!vars) PROVE SessionTypes'
  OBVIOUS
<1> USE DEF SessionTypes
<1>rotate. ASSUME NEW r \in Rotations, Sessions!Rotate(r) \/ Sessions!Rotated(r) PROVE SessionTypes'
  BY <1>rotate DEF Sessions!Rotate, Sessions!Rotated, Sessions!persons, Sessions!browsers
<1>scan. ASSUME NEW p \in Phones, NEW t \in 1..made, Sessions!Scan(p, t) PROVE SessionTypes'
  BY <1>scan DEF Sessions!Scan, Sessions!tokens, Sessions!persons
<1>visit. ASSUME NEW p \in Phones, Sessions!Visit(p) PROVE SessionTypes'
  BY <1>visit DEF Sessions!Visit, Sessions!tokens, Sessions!persons
<1>join. ASSUME NEW p \in Phones, NEW m \in People, Sessions!Join(p, m) PROVE SessionTypes'
  BY <1>join DEF Sessions!Join, Sessions!tokens
<1>resume. ASSUME NEW p \in Phones, Sessions!Resume(p) PROVE SessionTypes'
  BY <1>resume DEF Sessions!Resume, Sessions!tokens, Sessions!persons
<1>joined. ASSUME NEW p \in Phones, Sessions!Joined(p) PROVE SessionTypes'
  BY <1>joined DEF Sessions!Joined, Sessions!tokens
<1>trade. ASSUME NEW p \in Phones, Sessions!Trade(p) PROVE SessionTypes'
  BY <1>trade DEF Sessions!Trade, Sessions!tokens, Sessions!persons
<1>out. ASSUME NEW p \in Phones, Sessions!SignOut(p) \/ Sessions!Expire(p) PROVE SessionTypes'
  BY <1>out DEF Sessions!SignOut, Sessions!Expire, Sessions!tokens, Sessions!persons
<1>kick. ASSUME NEW m \in People, Sessions!Kick(m) PROVE SessionTypes'
  BY <1>kick DEF Sessions!Kick, Sessions!tokens, Sessions!browsers
<1>restart. CASE Sessions!Restart
  BY <1>restart DEF Sessions!Restart
<1>stutter. CASE UNCHANGED Sessions!vars
  BY <1>stutter DEF Sessions!vars
<1> QED
  BY <1>rotate, <1>scan, <1>visit, <1>join, <1>resume, <1>joined, <1>trade, <1>out,
     <1>kick, <1>restart, <1>stutter DEF Sessions!Next

LEMMA RotationInvLasts ==
    SessionTypes /\ RotationInv /\ [Sessions!Next]_(Sessions!vars) => RotationInv'
<1> SUFFICES ASSUME SessionTypes, RotationInv, [Sessions!Next]_(Sessions!vars) PROVE RotationInv'
  OBVIOUS
<1> USE DEF SessionTypes, RotationInv
<1>rotate. ASSUME NEW r \in Rotations, Sessions!Rotate(r) PROVE RotationInv'
  <2>1. /\ rotating[r] = 0 /\ UNCHANGED tokenRow
        /\ made' = made + 1 /\ token' = made'
        /\ rotating' = [rotating EXCEPT ![r] = made']
        /\ answered' = IF \E q \in Rotations : rotating[q] # 0 THEN 0 ELSE answered
    BY <1>rotate DEF Sessions!Rotate
  <2>2. CASE \E q \in Rotations : rotating[q] # 0
    BY <2>1, <2>2
  <2>3. CASE \A q \in Rotations : rotating[q] = 0
    <3>1. \A q \in Rotations : rotating'[q] # 0 => q = r /\ rotating'[q] = token'
      BY <2>1, <2>3
    <3>2. answered' = answered
      BY <2>1, <2>3
    <3> QED
      BY <2>1, <3>1, <3>2
  <2> QED
    BY <2>2, <2>3
<1>rotated. ASSUME NEW r \in Rotations, Sessions!Rotated(r) PROVE RotationInv'
  <2>1. /\ rotating[r] # 0 /\ UNCHANGED <<token, made>>
        /\ tokenRow' = rotating[r]
        /\ rotating' = [rotating EXCEPT ![r] = 0]
        /\ answered' = IF answered = 0 THEN 0 ELSE rotating[r]
    BY <1>rotated DEF Sessions!Rotated
  <2>2. \A q \in Rotations : rotating'[q] # 0 => q # r /\ rotating'[q] = rotating[q]
    BY <2>1
  <2>3. answered' # 0 => rotating[r] = token /\ \A q \in Rotations : rotating'[q] = 0
    BY <2>1, <2>2
  <2> QED
    BY <2>1, <2>3
<1>restart. CASE Sessions!Restart
  BY <1>restart DEF Sessions!Restart
<1>same. CASE UNCHANGED Sessions!tokens
  BY <1>same DEF Sessions!tokens
<1> QED
  BY <1>rotate, <1>rotated, <1>restart, <1>same, OthersLeaveTokens
     DEF Sessions!vars, Sessions!tokens

\* After a rotation was answered no older QR code lets anyone in, whatever
\* crashes and restarts come in between.
THEOREM RotationHolds == Sessions!Spec => []RotationLasts
<1>1. Sessions!Init => SessionTypes /\ RotationInv
  BY DEF Sessions!Init, SessionTypes, RotationInv
<1>2. SessionTypes /\ RotationInv => RotationLasts
  BY DEF SessionTypes, RotationInv, RotationLasts, Sessions!RotationLasts, Sessions!Joins
<1> QED
  BY <1>1, <1>2, SessionTypesLast, RotationInvLasts, PTL DEF Sessions!Spec

-----------------------------------------------------------------------------
(* Sessions.                                                               *)

\* Whom a browser names is known, also to the table once the answer is out.
SessionInv ==
    \A p \in Phones :
        /\ \A m \in NamedBy(p) : person[m] # Sessions!Absent
        /\ \A m \in {code[p], session[p]} \ {Sessions!None} : personRow[m] # Sessions!Absent

LEMMA SessionInvLasts ==
    SessionTypes /\ SessionInv /\ [Sessions!Next]_(Sessions!vars) => SessionInv'
<1> SUFFICES ASSUME SessionTypes, SessionInv, [Sessions!Next]_(Sessions!vars) PROVE SessionInv'
  OBVIOUS
<1> USE DEF SessionTypes, SessionInv, NamedBy
\* Nobody is forgotten, and no browser comes to name somebody new.
<1>keep. ASSUME \A m \in People : person[m] # Sessions!Absent => person'[m] # Sessions!Absent,
                \A m \in People : personRow[m] # Sessions!Absent => personRow'[m] # Sessions!Absent,
                \A p \in Phones : joining'[p] \in {joining[p], Sessions!None},
                \A p \in Phones :
                    {code'[p], session'[p]} \subseteq {code[p], session[p], Sessions!None}
         PROVE  SessionInv'
  BY <1>keep
<1>same. ASSUME UNCHANGED <<person, personRow, joining>>,
                \A p \in Phones :
                    {code'[p], session'[p]} \subseteq {code[p], session[p], Sessions!None}
         PROVE  SessionInv'
  BY <1>keep, <1>same
<1>join. ASSUME NEW p \in Phones, NEW m \in People, Sessions!Join(p, m) PROVE SessionInv'
  <2>1. /\ person' = [person EXCEPT ![m] = "in"]
        /\ joining' = [joining EXCEPT ![p] = m]
        /\ UNCHANGED <<personRow, code, session>>
    BY <1>join DEF Sessions!Join
  <2>2. \A n \in People : person[n] # Sessions!Absent \/ n = m => person'[n] # Sessions!Absent
    BY <2>1 DEF Sessions!Absent
  <2> QED
    BY <2>1, <2>2
<1>joined. ASSUME NEW p \in Phones, Sessions!Joined(p) PROVE SessionInv'
  <2>1. /\ joining[p] # Sessions!None
        /\ personRow' = [personRow EXCEPT ![joining[p]] = "in"]
        /\ code' = [code EXCEPT ![p] = joining[p]]
        /\ joining' = [joining EXCEPT ![p] = Sessions!None]
        /\ UNCHANGED <<person, session>>
    BY <1>joined DEF Sessions!Joined
  <2>2. \A n \in People :
           personRow[n] # Sessions!Absent \/ n = joining[p] => personRow'[n] # Sessions!Absent
    BY <2>1 DEF Sessions!Absent
  <2> QED
    BY <2>1, <2>2
<1>browser. ASSUME NEW p \in Phones,
                   \/ \E t \in 1..made : Sessions!Scan(p, t)
                   \/ Sessions!Visit(p) \/ Sessions!Resume(p) \/ Sessions!Trade(p)
                   \/ Sessions!SignOut(p) \/ Sessions!Expire(p)
            PROVE  SessionInv'
  BY <1>browser, <1>same DEF Sessions!Scan, Sessions!Visit, Sessions!Resume, Sessions!Trade,
                             Sessions!SignOut, Sessions!Expire, Sessions!persons
<1>kick. ASSUME NEW m \in People, Sessions!Kick(m) PROVE SessionInv'
  <2>1. /\ \A n \in People : person[n] # Sessions!Absent => person'[n] # Sessions!Absent
        /\ \A n \in People : personRow[n] # Sessions!Absent => personRow'[n] # Sessions!Absent
    BY <1>kick DEF Sessions!Kick, Sessions!Absent
  <2> QED
    BY <1>kick, <1>keep, <2>1 DEF Sessions!Kick, Sessions!browsers
<1>rotate. ASSUME NEW r \in Rotations, Sessions!Rotate(r) \/ Sessions!Rotated(r) PROVE SessionInv'
  BY <1>rotate, <1>same DEF Sessions!Rotate, Sessions!Rotated, Sessions!persons, Sessions!browsers
<1>restart. CASE Sessions!Restart
  BY <1>restart DEF Sessions!Restart
<1>stutter. CASE UNCHANGED Sessions!vars
  BY <1>stutter, <1>same DEF Sessions!vars
<1> QED
  BY <1>join, <1>joined, <1>browser, <1>kick, <1>rotate, <1>restart, <1>stutter DEF Sessions!Next

\* The hub knows every member that a code or a session names, because the row
\* is written before the code is sent.
THEOREM SessionsHold == Sessions!Spec => []SessionLasts
<1>1. Sessions!Init => SessionTypes /\ SessionInv
  BY DEF Sessions!Init, SessionTypes, SessionInv, NamedBy, Sessions!None, Sessions!Absent
<1>2. SessionInv => SessionLasts
  BY DEF SessionInv, SessionLasts, Sessions!SessionLasts, NamedBy
<1> QED
  BY <1>1, <1>2, SessionTypesLast, SessionInvLasts, PTL DEF Sessions!Spec
-----------------------------------------------------------------------------

\* What a worker carries: an observation to synthesize, or what came of it.
Calls ==
    {Found!None}
    \cup [at : {"synth"}, stamp : Nat, key : Keys, by : Sources, sev : Severities]
    \cup [at : {"event", "alert", "broadcast", "upsert"}, stamp : Nat, key : Keys,
          alert : SUBSET DOMAIN Found!Thresholds]

Rows == [status : Found!Statuses, last : Nat, ack : BOOLEAN, notes : Nat]

FindingTypes ==
    /\ stamp \in Nat /\ top \in Nat /\ base \in Nat
    /\ call \in [Workers -> Calls]
    /\ findingRow \in {Found!NoRow} \cup Rows
    /\ noting \in BOOLEAN /\ (noting => findingRow.status # "absent")

\* The findingRow's last observation is one that it was told of; while it is resolved
\* it was told of nothing newer than what it was resolved on.
NewsInv == findingRow.last <= top /\ Found!NewsReopens

\* An observation goes on to the next statement as it was.
LEMMA GoesKeepsCalls ==
    ASSUME call \in [Workers -> Calls], NEW w \in Workers,
           call[w].at \in {"event", "alert", "broadcast", "upsert"},
           NEW at \in {"alert", "broadcast", "upsert"}, Found!Goes(w, at)
    PROVE  call' \in [Workers -> Calls]
<1>1. call[w] \in [at : {"event", "alert", "broadcast", "upsert"}, stamp : Nat, key : Keys,
                   alert : SUBSET DOMAIN Found!Thresholds]
  BY DEF Calls, Found!None
<1>2. [call[w] EXCEPT !.at = at] \in Calls
  BY <1>1 DEF Calls
<1> QED
  BY <1>2 DEF Found!Goes

LEMMA FindingTypesLast == FindingTypes /\ [Found!Next]_(Found!vars) => FindingTypes'
<1> SUFFICES ASSUME FindingTypes, [Found!Next]_(Found!vars) PROVE FindingTypes'
  OBVIOUS
<1> USE DEF FindingTypes
<1>known. ASSUME NEW r \in Rows PROVE r.status # "absent"
  BY DEF Rows, Found!Statuses
<1>drop. ASSUME NEW w \in Workers, call' = [call EXCEPT ![w] = Found!None]
         PROVE  call' \in [Workers -> Calls]
  BY <1>drop DEF Calls
<1>observe. ASSUME NEW w \in Workers, NEW k \in Found!Incidents, NEW m \in Sources,
                   NEW s \in Severities, Found!Observe(w, k, m, s)
            PROVE  FindingTypes'
  <2>1. k \in Keys
    BY PartsAssumption DEF Found!Incidents, Found!FindingsAssumption
  <2>2. [at |-> "synth", stamp |-> stamp', key |-> k, by |-> m, sev |-> s] \in Calls
    BY <2>1, <1>observe DEF Found!Observe, Calls
  <2> QED
    BY <1>observe, <2>2 DEF Found!Observe, Found!review
<1>synth. ASSUME NEW w \in Workers, Found!Synthesize(w) PROVE FindingTypes'
  <2>1. call[w] \in [at : {"synth"}, stamp : Nat, key : Keys, by : Sources, sev : Severities]
    BY <1>synth DEF Found!Synthesize, Calls, Found!None
  <2>2. PICK worth : call' = [call EXCEPT ![w] =
                       [at |-> IF worth = Found!None THEN "upsert" ELSE "event",
                        stamp |-> call[w].stamp, key |-> call[w].key,
                        alert |-> IF worth # Found!None /\ worth.sev >= Found!Threshold
                                  THEN Found!Audience(worth.sev) ELSE {}]]
    BY <1>synth DEF Found!Synthesize
  <2>3. Found!Audience(worth.sev) \in SUBSET DOMAIN Found!Thresholds
    BY DEF Found!Audience
  <2>4. [at |-> IF worth = Found!None THEN "upsert" ELSE "event",
         stamp |-> call[w].stamp, key |-> call[w].key,
         alert |-> IF worth # Found!None /\ worth.sev >= Found!Threshold
                   THEN Found!Audience(worth.sev) ELSE {}] \in Calls
    BY <2>1, <2>3 DEF Calls
  <2> QED
    BY <1>synth, <2>2, <2>4 DEF Found!Synthesize, Found!review
<1>event. ASSUME NEW w \in Workers, Found!InsertEvent(w) \/ Found!InsertAlert(w)
                                   \/ Found!Broadcast(w)
          PROVE  FindingTypes'
  <2>1. call' \in [Workers -> Calls]
    BY <1>event, GoesKeepsCalls DEF Found!InsertEvent, Found!InsertAlert, Found!Broadcast
  <2> QED
    BY <1>event, <2>1 DEF Found!InsertEvent, Found!InsertAlert, Found!Broadcast, Found!memory,
                          Found!review
<1>upsert. ASSUME NEW w \in Workers, Found!Upsert(w) PROVE FindingTypes'
  <2>1. call[w].stamp \in Nat
    BY <1>upsert DEF Found!Upsert, Calls, Found!None
  <2>2. CASE findingRow.status = "absent"
    BY <1>upsert, <1>drop, <2>1, <2>2 DEF Found!Upsert, Rows, Found!Statuses, Found!Worst,
                                          Found!memory, Found!review
  <2>3. CASE findingRow.status # "absent"
    <3>1. findingRow \in Rows
      BY <2>3 DEF Found!NoRow
    <3>2. Found!Merged(findingRow, call[w]) \in Rows
      BY <2>1, <3>1 DEF Found!Merged, Found!Reopens, Rows, Found!Statuses
    <3> QED
      BY <1>upsert, <1>drop, <1>known, <2>1, <2>3, <3>2
         DEF Found!Upsert, Found!Worst, Found!memory, Found!review
  <2> QED
    BY <2>2, <2>3
<1>out. ASSUME NEW w \in Workers, Found!Irrelevant(w) \/ Found!Fail(w) PROVE FindingTypes'
  BY <1>out, <1>drop DEF Found!Irrelevant, Found!Fail, Found!memory, Found!review
<1>crash. CASE Found!Crash
  <2>1. call' \in [Workers -> Calls]
    BY <1>crash DEF Found!Crash, Calls
  <2> QED
    BY <1>crash, <2>1 DEF Found!Crash
<1>present. ASSUME findingRow.status # "absent" PROVE findingRow \in Rows
  BY <1>present DEF Found!NoRow
<1>status. ASSUME NEW s \in Found!Statuses, Found!SetStatus(s) PROVE FindingTypes'
  <2>1. findingRow \in Rows
    BY <1>status, <1>present DEF Found!SetStatus, Found!Act
  <2>2. findingRow' \in Rows
    BY <1>status, <2>1 DEF Found!SetStatus, Rows, Found!Statuses
  <2> QED
    BY <1>status, <1>known, <2>2 DEF Found!SetStatus, Found!Touched, Found!memory
<1>escalate. CASE Found!Escalate
  <2>1. findingRow \in Rows
    BY <1>escalate, <1>present DEF Found!Escalate, Found!Act
  <2>2. findingRow' \in Rows
    BY <1>escalate, <2>1 DEF Found!Escalate, Rows, Found!Statuses
  <2> QED
    BY <1>escalate, <1>known, <2>2 DEF Found!Escalate, Found!Touched, Found!memory
<1>add. CASE Found!AddNote
  BY <1>add DEF Found!AddNote, Found!Act, Found!Touched, Found!memory
<1>count. CASE Found!CountNote
  <2>1. findingRow \in Rows
    BY <1>count, <1>present DEF Found!CountNote
  <2>2. findingRow' \in Rows
    BY <1>count, <2>1 DEF Found!CountNote, Rows, Found!Statuses
  <2> QED
    BY <1>count, <1>known, <2>2 DEF Found!CountNote, Found!Touched, Found!memory
<1>time. ASSUME NEW k \in Found!Incidents, Found!Cool(k) \/ Found!Forget(k) PROVE FindingTypes'
  BY <1>time DEF Found!Cool, Found!Forget, Found!review
<1>stutter. CASE UNCHANGED Found!vars
  BY <1>stutter DEF Found!vars
<1> QED
  BY <1>observe, <1>synth, <1>event, <1>upsert, <1>out, <1>crash, <1>status,
     <1>escalate, <1>add, <1>count, <1>time, <1>stutter DEF Found!Next

\* Only an upsert tells the findingRow of anything; if it leaves the finding resolved
\* the observation was older than one the findingRow knew already.
LEMMA NewsLasts == FindingTypes /\ NewsInv /\ [Found!Next]_(Found!vars) => NewsInv'
<1> SUFFICES ASSUME FindingTypes, NewsInv, [Found!Next]_(Found!vars) PROVE NewsInv'
  OBVIOUS
<1> USE DEF NewsInv, Found!NewsReopens
<1>same. ASSUME UNCHANGED <<findingRow, top, base>> PROVE NewsInv'
  BY <1>same
<1>upsert. ASSUME NEW w \in Workers, Found!Upsert(w) PROVE NewsInv'
  <2>1. /\ call[w].stamp \in Nat /\ top \in Nat /\ findingRow.last \in Nat
        /\ top' = Found!Worst(top, call[w].stamp) /\ base' = base
    BY <1>upsert DEF Found!Upsert, FindingTypes, Calls, Found!None, Rows, Found!NoRow
  <2>2. CASE findingRow.status = "absent"
    <3>1. findingRow'.status = "open" /\ findingRow'.last = call[w].stamp
      BY <1>upsert, <2>2 DEF Found!Upsert
    <3> QED
      BY <2>1, <3>1 DEF Found!Worst
  <2>3. CASE findingRow.status # "absent"
    <3>1. /\ findingRow'.last = call[w].stamp
          /\ findingRow'.status =
                 IF Found!Reopens(findingRow, call[w]) THEN "open" ELSE findingRow.status
      BY <1>upsert, <2>3 DEF Found!Upsert, Found!Merged
    <3>2. CASE Found!Reopens(findingRow, call[w])
      BY <2>1, <3>1, <3>2 DEF Found!Worst
    <3>3. CASE ~Found!Reopens(findingRow, call[w])
      BY <2>1, <3>1, <3>3 DEF Found!Reopens, Found!Worst
    <3> QED
      BY <3>2, <3>3
  <2> QED
    BY <2>2, <2>3
<1>rest. ASSUME NEW w \in Workers,
                \/ \E k \in Found!Incidents, m \in Sources, s \in Severities : Found!Observe(w, k, m, s)
                \/ Found!Synthesize(w) \/ Found!Irrelevant(w) \/ Found!InsertEvent(w)
                \/ Found!InsertAlert(w)
                \/ Found!Broadcast(w) \/ Found!Fail(w)
         PROVE  NewsInv'
  BY <1>rest, <1>same DEF Found!Observe, Found!Synthesize, Found!Irrelevant, Found!InsertEvent,
                          Found!InsertAlert,
                          Found!Broadcast, Found!Fail
<1>present. ASSUME findingRow.status # "absent" PROVE findingRow \in Rows
  BY <1>present DEF FindingTypes, Found!NoRow
<1>status. ASSUME NEW s \in Found!Statuses, Found!SetStatus(s) PROVE NewsInv'
  <2>1. findingRow \in Rows /\ UNCHANGED top
    BY <1>status, <1>present DEF Found!SetStatus, Found!Act, Found!Touched
  <2>2. findingRow'.last = findingRow.last /\ findingRow'.status = s
    BY <1>status, <2>1 DEF Found!SetStatus, Rows
  <2>3. s = "resolved" => base' = top
    BY <1>status DEF Found!SetStatus
  <2> QED
    BY <2>1, <2>2, <2>3 DEF FindingTypes
<1>escalate. CASE Found!Escalate
  <2>1. findingRow \in Rows /\ UNCHANGED <<top, base>>
    BY <1>escalate, <1>present DEF Found!Escalate, Found!Act, Found!Touched
  <2>2. findingRow'.last = findingRow.last /\ findingRow'.status # "resolved"
    BY <1>escalate, <2>1 DEF Found!Escalate, Rows
  <2> QED
    BY <2>1, <2>2
<1>count. CASE Found!CountNote
  <2>1. findingRow \in Rows /\ UNCHANGED <<top, base>>
    BY <1>count, <1>present DEF Found!CountNote, Found!Touched, FindingTypes
  <2>2. findingRow'.last = findingRow.last /\ findingRow'.status = findingRow.status
    BY <1>count, <2>1 DEF Found!CountNote, Rows
  <2> QED
    BY <2>1, <2>2
<1>other. ASSUME \/ Found!AddNote \/ Found!Crash \/ UNCHANGED Found!vars
                 \/ \E k \in Found!Incidents : Found!Cool(k) \/ Found!Forget(k)
          PROVE  NewsInv'
  BY <1>other, <1>same DEF Found!AddNote, Found!Touched, Found!Crash, Found!Cool, Found!Forget,
                           Found!vars
<1> QED
  BY <1>upsert, <1>rest, <1>status, <1>escalate, <1>count, <1>other DEF Found!Next

LEMMA FindingsBegin == Found!Init => FindingTypes
<1> SUFFICES ASSUME Found!Init PROVE FindingTypes
  OBVIOUS
<1>1. Found!None \in Calls
  BY DEF Calls
<1>2. call \in [Workers -> Calls]
  BY <1>1 DEF Found!Init
<1>3. findingRow = Found!NoRow /\ noting \in BOOLEAN /\ ~noting
  BY Zenon DEF Found!Init
<1>4. stamp = 0 /\ top = 0 /\ base = 0
  BY DEF Found!Init
<1> QED
  BY <1>2, <1>3, <1>4 DEF FindingTypes

\* As long as a finding is resolved nothing was recorded in it that was seen
\* after what it was resolved on, whichever order the workers' statements, their
\* failures and the coordinator's requests come in.
THEOREM NewsAlwaysReopens == Found!Spec => []NewsReopens
<1>1. Found!Init => FindingTypes /\ NewsInv
  BY FindingsBegin DEF Found!Init, NewsInv, Found!NewsReopens, Found!NoRow
<1>2. NewsInv => NewsReopens
  BY DEF NewsInv, NewsReopens
<1> QED
  BY <1>1, <1>2, FindingTypesLast, NewsLasts, PTL DEF Found!Spec

\* Whom the alert of a corroboration is for, at least.
Alerted == {"coordinator", "sensor"}

\* What a corroborated incident needs: its event is on record and, with the
\* heuristics, its alert has been broadcast.
Told(k) ==
    /\ incident[k].told \in events
    /\ backend = "heuristic" => {incident[k].told} \X Alerted \subseteq sent

\* Worker w has yet to tell of the corroboration of k.
Telling(w, k) ==
    call[w].at \in {"event", "alert", "broadcast"} /\ call[w].stamp = incident[k].told

Remembered == [members : SUBSET Sources, sev : Nat, told : Nat, due : BOOLEAN]

\* Stamps are unique, and a corroboration is carried under its own key, so that
\* what fails while it is carried is known to have failed.
StampInv ==
    /\ backend \in {"heuristic", "ollama"}
    /\ incident \in [Keys -> Remembered]
    /\ \A k \in Keys : incident[k].told <= stamp
    /\ \A w \in Workers : call[w].at # "none" =>
          /\ call[w].stamp \in 1..stamp
          /\ \A v \in Workers : call[v].at # "none" /\ call[v].stamp = call[w].stamp => v = w
          /\ \A k \in Keys : call[w].stamp = incident[k].told =>
                call[w].at # "synth" /\ call[w].key = k

ToldInv ==
    \A k \in Keys : incident[k].told # 0 /\ incident[k].told \notin failed =>
        /\ (\A w \in Workers : ~Telling(w, k)) => Told(k)
        /\ \A w \in Workers : Telling(w, k) =>
              /\ call[w].at # "event" => incident[k].told \in events
              /\ backend = "heuristic" => Alerted \subseteq call[w].alert

LEMMA SameCardinality == \A S : Found!Cardinality(S) = Cardinality(S)
BY DEF Found!Cardinality, Cardinality

\* A corroboration of the heuristics is severe enough for an alert.
LEMMA Synthesized ==
    ASSUME FindingTypes, StampInv, NEW w \in Workers, Found!Synthesize(w)
    PROVE  \E inc \in Remembered,
              at \in {"event", "upsert"}, alert \in SUBSET DOMAIN Found!Thresholds :
             /\ incident' = [incident EXCEPT ![call[w].key] = inc]
             /\ call' = [call EXCEPT ![w] = [at |-> at, stamp |-> call[w].stamp,
                                            key |-> call[w].key, alert |-> alert]]
             /\ \/ inc.told = incident[call[w].key].told
                \/ /\ inc.told = call[w].stamp /\ at = "event"
                   /\ backend = "heuristic" => Alerted \subseteq alert
<1> USE DEF Remembered
<1> DEFINE o == call[w]
           inc == incident[o.key]
           then == Found!Joined(inc, o)
           worth == Found!Worth(inc, o)
           alert == IF worth # Found!None /\ worth.sev >= Found!Threshold
                    THEN Found!Audience(worth.sev) ELSE {}
           corroborates == Cardinality(inc.members \cup {o.by}) >= 2 /\ inc.told = 0
<1>1. /\ o.stamp \in Nat /\ o.key \in Keys /\ o.by \in Sources /\ o.sev \in Nat
      /\ inc.members \in SUBSET Sources /\ inc.sev \in Nat /\ inc.told \in Nat
      /\ inc.due \in BOOLEAN
  <2>1. o \in [at : {"synth"}, stamp : Nat, key : Keys, by : Sources, sev : Severities]
    BY DEF FindingTypes, Calls, Found!Synthesize, Found!None
  <2>2. o.key \in Keys
    BY <2>1
  <2>3. inc \in Remembered
    BY <2>2 DEF StampInv
  <2>4. Severities \subseteq Nat
    BY PartsAssumption DEF Found!FindingsAssumption
  <2> QED
    BY <2>1, <2>3, <2>4
<1>2. /\ incident' = [incident EXCEPT ![o.key] = then]
      /\ call' = [call EXCEPT ![w] =
                    [at |-> IF worth = Found!None THEN "upsert" ELSE "event",
                     stamp |-> o.stamp, key |-> o.key, alert |-> alert]]
  BY DEF Found!Synthesize
<1>3. /\ then.members = inc.members \cup {o.by}
      /\ then.sev = IF inc.members = {} THEN o.sev
                    ELSE IF backend = "ollama" THEN inc.sev ELSE Found!Worst(inc.sev, o.sev)
      /\ then.told = IF corroborates THEN o.stamp ELSE inc.told
      /\ then = [members |-> then.members, sev |-> then.sev, told |-> then.told,
                 due |-> then.due]
  BY SameCardinality, Zenon DEF Found!Joined
<1>4. then.due \in BOOLEAN
  BY Zenon DEF Found!Joined
<1>5. then.sev \in Nat
  BY <1>1, <1>3 DEF Found!Worst
<1>6. then \in Remembered
  BY <1>1, <1>3, <1>4, <1>5
<1>7. alert \in SUBSET DOMAIN Found!Thresholds
  BY DEF Found!Audience
<1>8. ASSUME then.told # inc.told
      PROVE  /\ then.told = o.stamp /\ worth # Found!None
             /\ backend = "heuristic" => Alerted \subseteq alert
  <2>1. corroborates /\ then.told = o.stamp
    BY <1>3, <1>8
  <2>2. inc.members # {}
    <3>1. inc.members = {} => inc.members \cup {o.by} = {o.by}
      OBVIOUS
    <3>2. Cardinality({o.by}) = 1
      BY FS_Singleton
    <3> QED
      BY <2>1, <3>1, <3>2
  <2>3. worth = [at |-> "some", sev |-> Found!Escalated(IF backend = "ollama" THEN o.sev
                                                       ELSE then.sev)]
    BY <1>8, <2>2 DEF Found!Worth
  <2>4. worth # Found!None
    BY <2>3 DEF Found!None
  <2>5. backend = "heuristic" => worth.sev \in Nat /\ worth.sev >= 1 /\ Found!Threshold = 1
    BY <1>5, <2>3 DEF Found!Escalated, Found!Threshold
  <2>6. \A s \in Nat : s >= 1 => Alerted \subseteq Found!Audience(s)
    BY DEF Alerted, Found!Audience, Found!Thresholds
  <2> QED
    BY <2>1, <2>4, <2>5, <2>6
<1> HIDE DEF o, inc, then, worth, alert
<1>9. CASE then.told = inc.told
  BY <1>2, <1>6, <1>7, <1>9 DEF o, inc
<1>10. CASE then.told # inc.told
  BY <1>2, <1>6, <1>7, <1>8, <1>10 DEF o, inc
<1> QED
  BY <1>9, <1>10

LEMMA ToldLasts ==
    FindingTypes /\ StampInv /\ ToldInv /\ [Found!Next]_(Found!vars) => (StampInv /\ ToldInv)'
<1> SUFFICES ASSUME FindingTypes, StampInv, ToldInv, [Found!Next]_(Found!vars)
             PROVE  (StampInv /\ ToldInv)'
  OBVIOUS
<1> USE DEF Remembered
<1>stamps. \A w \in Workers : call[w].at # "none" => call[w].stamp \in Nat \ {0}
  BY DEF StampInv, FindingTypes
<1>typed. \A w \in Workers :
            call[w].at \in {"none", "synth", "event", "alert", "broadcast", "upsert"}
  BY DEF FindingTypes, Calls, Found!None
\* Workers stay with their observations or drop them, and no incident changes.
<1>goes. ASSUME NEW w \in Workers, call[w].at # "none",
                UNCHANGED <<backend, stamp, incident>>,
                failed \subseteq failed', events \subseteq events', sent \subseteq sent',
                \A v \in Workers \ {w} : call'[v] = call[v],
                \/ call'[w].at = "none"
                \/ /\ call'[w].stamp = call[w].stamp /\ call'[w].key = call[w].key
                   /\ call[w].at # "synth" /\ call'[w].at # "synth",
                \A k \in Keys : Telling(w, k) /\ incident[k].told \notin failed' =>
                   \/ Told(k)' /\ ~Telling(w, k)'
                   \/ /\ Telling(w, k)' /\ incident[k].told \in events'
                      /\ call'[w].alert = call[w].alert,
                call[w].at = "upsert" => call'[w].at = "none"
         PROVE  (StampInv /\ ToldInv)'
  <2>1. StampInv'
    BY <1>goes DEF StampInv
  <2>2. \A v \in Workers \ {w}, k \in Keys : Telling(v, k)' <=> Telling(v, k)
    BY <1>goes DEF Telling
  <2>3. \A k \in Keys : Told(k) => Told(k)'
    BY <1>goes DEF Told
  <2>4. ASSUME NEW k \in Keys, incident[k].told # 0, incident[k].told \notin failed'
        PROVE  /\ (\A v \in Workers : ~Telling(v, k)') => Told(k)'
               /\ \A v \in Workers : Telling(v, k)' =>
                     /\ call'[v].at # "event" => incident[k].told \in events'
                     /\ backend = "heuristic" => Alerted \subseteq call'[v].alert
    <3>1. CASE Telling(w, k)
      <4>1. \A v \in Workers : Telling(v, k) => v = w
        BY <3>1 DEF Telling, StampInv
      <4>2. backend = "heuristic" => Alerted \subseteq call[w].alert
        BY <1>goes, <2>4, <3>1 DEF ToldInv
      <4> QED
        BY <1>goes, <2>2, <2>4, <3>1, <4>1, <4>2
    <3>2. CASE ~Telling(w, k)
      <4>1. ~Telling(w, k)'
        BY <1>goes, <1>typed, <3>2 DEF Telling
      <4> QED
        BY <1>goes, <2>2, <2>3, <2>4, <3>2, <4>1 DEF ToldInv
    <3> QED
      BY <3>1, <3>2
  <2>5. ToldInv'
    BY <1>goes, <2>4 DEF ToldInv
  <2> QED
    BY <2>1, <2>5
<1>observe. ASSUME NEW w \in Workers, NEW k \in Found!Incidents, NEW m \in Sources,
                   NEW s \in Severities, Found!Observe(w, k, m, s)
            PROVE  (StampInv /\ ToldInv)'
  <2>1. /\ call[w] = Found!None /\ stamp' = stamp + 1
        /\ call'[w].at = "synth" /\ call'[w].stamp = stamp + 1
        /\ \A v \in Workers \ {w} : call'[v] = call[v]
        /\ UNCHANGED <<backend, incident, events, sent, failed>>
    BY <1>observe DEF Found!Observe, Found!stored, FindingTypes
  <2>2. StampInv'
    BY <2>1, <1>stamps DEF StampInv, FindingTypes
  <2>3. \A v \in Workers, n \in Keys : Telling(v, n)' <=> Telling(v, n)
    BY <2>1 DEF Telling, Found!None
  <2>4. \A n \in Keys : Told(n)' <=> Told(n)
    BY <2>1 DEF Told
  <2>5. \A v \in Workers, n \in Keys : Telling(v, n) => call'[v] = call[v]
    BY <2>1 DEF Telling, Found!None
  <2> QED
    BY <2>1, <2>2, <2>3, <2>4, <2>5 DEF ToldInv
<1>synth. ASSUME NEW w \in Workers, Found!Synthesize(w) PROVE (StampInv /\ ToldInv)'
  <2> DEFINE key == call[w].key
  <2>1. call[w].at = "synth" /\ key \in Keys /\ call[w].stamp \in 1..stamp
    BY <1>synth DEF Found!Synthesize, FindingTypes, Calls, Found!None, StampInv
  <2>2. UNCHANGED <<backend, stamp, events, sent, failed>>
    BY <1>synth DEF Found!Synthesize, Found!stored
  <2>3. PICK inc \in Remembered,
             at \in {"event", "upsert"}, alert \in SUBSET DOMAIN Found!Thresholds :
          /\ incident' = [incident EXCEPT ![key] = inc]
          /\ call' = [call EXCEPT ![w] = [at |-> at, stamp |-> call[w].stamp,
                                         key |-> key, alert |-> alert]]
          /\ \/ inc.told = incident[key].told
             \/ /\ inc.told = call[w].stamp /\ at = "event"
                /\ backend = "heuristic" => Alerted \subseteq alert
    BY <1>synth, Synthesized
  <2>4. /\ \A v \in Workers \ {w} : call'[v] = call[v]
        /\ call'[w] = [at |-> at, stamp |-> call[w].stamp, key |-> key, alert |-> alert]
        /\ \A n \in Keys \ {key} : incident'[n] = incident[n]
        /\ incident'[key] = inc
    BY <2>1, <2>3 DEF FindingTypes, StampInv
  <2>5. \A n \in Keys : call[w].stamp # incident[n].told
    BY <2>1 DEF StampInv
  <2>6. StampInv'
    <3>1. incident' \in [Keys -> Remembered]
      BY <2>3 DEF StampInv
    <3>2. \A n \in Keys : incident'[n].told <= stamp'
      BY <2>1, <2>2, <2>3, <2>4, <3>1 DEF StampInv, FindingTypes
    <3>3. ASSUME NEW v \in Workers, call'[v].at # "none"
          PROVE  /\ call'[v].stamp \in 1..stamp'
                 /\ \A u \in Workers :
                       call'[u].at # "none" /\ call'[u].stamp = call'[v].stamp => u = v
                 /\ \A n \in Keys : call'[v].stamp = incident'[n].told =>
                       call'[v].at # "synth" /\ call'[v].key = n
      <4>1. /\ call'[v].stamp = call[v].stamp /\ call[v].at # "none"
            /\ \A u \in Workers : call'[u].at # "none" =>
                  call[u].at # "none" /\ call'[u].stamp = call[u].stamp
        BY <2>1, <2>4, <3>3
      <4>2. ASSUME NEW n \in Keys, call'[v].stamp = incident'[n].told
            PROVE  call'[v].at # "synth" /\ call'[v].key = n
        <5>1. CASE v = w
          BY <2>3, <2>4, <2>5, <4>2, <5>1
        <5>2. CASE v # w
          <6>1. call[v].stamp # call[w].stamp
            BY <2>1, <4>1, <5>2 DEF StampInv
          <6>2. call[v].stamp = incident[n].told
            BY <2>3, <2>4, <4>1, <4>2, <6>1
          <6> QED
            BY <2>4, <3>3, <5>2, <6>2 DEF StampInv
        <5> QED
          BY <5>1, <5>2
      <4> QED
        BY <2>2, <4>1, <4>2 DEF StampInv
    <3> QED
      BY <2>2, <3>1, <3>2, <3>3 DEF StampInv
  <2>7. ASSUME NEW n \in Keys, incident'[n].told = incident[n].told,
               incident[n].told # 0, incident[n].told \notin failed
        PROVE  /\ (\A v \in Workers : ~Telling(v, n)') => Told(n)'
               /\ \A v \in Workers : Telling(v, n)' =>
                     /\ call'[v].at # "event" => incident[n].told \in events'
                     /\ backend = "heuristic" => Alerted \subseteq call'[v].alert
    <3>1. \A v \in Workers : Telling(v, n)' <=> Telling(v, n)
      BY <2>1, <2>4, <2>5, <2>7 DEF Telling
    <3>2. \A v \in Workers : Telling(v, n) => call'[v] = call[v]
      BY <2>1, <2>4 DEF Telling
    <3>3. Told(n)' <=> Told(n)
      BY <2>2, <2>7 DEF Told
    <3> QED
      BY <2>2, <2>7, <3>1, <3>2, <3>3 DEF ToldInv
  <2>8. ASSUME incident'[key].told # incident[key].told
        PROVE  /\ (\A v \in Workers : ~Telling(v, key)') => Told(key)'
               /\ \A v \in Workers : Telling(v, key)' =>
                     /\ call'[v].at # "event" => incident'[key].told \in events'
                     /\ backend = "heuristic" => Alerted \subseteq call'[v].alert
    <3>1. inc.told = call[w].stamp /\ at = "event" /\ (backend = "heuristic" => Alerted \subseteq alert)
      BY <2>3, <2>4, <2>8
    <3>2. Telling(w, key)' /\ call'[w].at = "event" /\ (backend = "heuristic" => Alerted \subseteq call'[w].alert)
      BY <2>4, <3>1 DEF Telling
    <3>3. \A v \in Workers : Telling(v, key)' => v = w
      BY <2>6, <3>2 DEF Telling, StampInv
    <3> QED
      BY <3>2, <3>3
  <2>9. ToldInv'
    BY <2>1, <2>2, <2>4, <2>7, <2>8 DEF ToldInv
  <2> QED
    BY <2>6, <2>9
<1>irrelevant. ASSUME NEW w \in Workers, Found!Irrelevant(w) PROVE (StampInv /\ ToldInv)'
  BY <1>irrelevant, <1>goes DEF Found!Irrelevant, Found!memory, Found!stored, Found!None,
     FindingTypes, Telling
<1>event. ASSUME NEW w \in Workers, Found!InsertEvent(w) PROVE (StampInv /\ ToldInv)'
  <2>1. /\ call[w].at = "event" /\ events' = events \cup {call[w].stamp}
        /\ call' = [call EXCEPT ![w].at = IF call[w].alert # {} THEN "alert" ELSE "upsert"]
        /\ UNCHANGED <<backend, stamp, incident, sent, failed>>
    BY <1>event DEF Found!InsertEvent, Found!Goes, Found!memory
  <2>2. /\ call'[w].at = IF call[w].alert # {} THEN "alert" ELSE "upsert"
        /\ call'[w].stamp = call[w].stamp /\ call'[w].key = call[w].key
        /\ call'[w].alert = call[w].alert
        /\ \A v \in Workers \ {w} : call'[v] = call[v]
    BY <2>1, <1>typed DEF FindingTypes, Calls, Found!None
  <2>3. ASSUME NEW k \in Keys, Telling(w, k), incident[k].told \notin failed
        PROVE  \/ Told(k)' /\ ~Telling(w, k)'
               \/ Telling(w, k)' /\ incident[k].told \in events' /\ call'[w].alert = call[w].alert
    BY <1>stamps, <2>1, <2>2, <2>3 DEF ToldInv, Telling, Told
  <2> QED
    BY <1>goes, <2>1, <2>2, <2>3
<1>alert. ASSUME NEW w \in Workers, Found!InsertAlert(w) \/ Found!Broadcast(w)
          PROVE  (StampInv /\ ToldInv)'
  <2>1. /\ UNCHANGED <<backend, stamp, incident, events, failed>> /\ sent \subseteq sent'
        /\ \/ /\ call[w].at = "alert"
              /\ call' = [call EXCEPT ![w].at = "broadcast"]
           \/ /\ call[w].at = "broadcast" /\ {call[w].stamp} \X call[w].alert \subseteq sent'
              /\ call' = [call EXCEPT ![w].at = "upsert"]
    BY <1>alert DEF Found!InsertAlert, Found!Broadcast, Found!Goes, Found!memory, Found!stored
  <2>2. /\ \/ call[w].at = "alert" /\ call'[w].at = "broadcast"
           \/ call[w].at = "broadcast" /\ call'[w].at = "upsert"
              /\ {call[w].stamp} \X call[w].alert \subseteq sent'
        /\ call'[w].stamp = call[w].stamp /\ call'[w].key = call[w].key
        /\ call'[w].alert = call[w].alert
        /\ \A v \in Workers \ {w} : call'[v] = call[v]
    BY <2>1, <1>typed DEF FindingTypes, Calls, Found!None
  <2>3. ASSUME NEW k \in Keys, Telling(w, k), incident[k].told \notin failed
        PROVE  \/ Told(k)' /\ ~Telling(w, k)'
               \/ Telling(w, k)' /\ incident[k].told \in events' /\ call'[w].alert = call[w].alert
    BY <1>stamps, <2>1, <2>2, <2>3 DEF ToldInv, Telling, Told
  <2> QED
    BY <1>goes, <2>1, <2>2, <2>3
<1>upsert. ASSUME NEW w \in Workers, Found!Upsert(w) PROVE (StampInv /\ ToldInv)'
  BY <1>upsert, <1>goes DEF Found!Upsert, Found!memory, Found!stored, Found!None,
     FindingTypes, Telling
<1>fail. ASSUME NEW w \in Workers, Found!Fail(w) PROVE (StampInv /\ ToldInv)'
  <2>1. /\ call[w].at # "none" /\ call' = [call EXCEPT ![w] = Found!None]
        /\ failed' = IF incident[call[w].key].told = call[w].stamp
                     THEN failed \cup {call[w].stamp} ELSE failed
        /\ UNCHANGED <<backend, stamp, incident, events, sent>>
    BY <1>fail DEF Found!Fail, Found!memory, Found!stored
  <2>2. \A k \in Keys : Telling(w, k) => incident[k].told \in failed'
    BY <2>1 DEF Telling, StampInv
  <2> QED
    BY <1>goes, <2>1, <2>2 DEF Found!None, FindingTypes
\* Requests of the coordinator, and the passing of time: nobody's call changes,
\* and no incident but to be forgotten.
<1>rest. ASSUME UNCHANGED <<backend, stamp, events, sent, failed>>,
                call' = call \/ call' = [v \in Workers |-> Found!None],
                incident' \in [Keys -> Remembered],
                \A k \in Keys : incident'[k].told \in {0, incident[k].told},
                call' # call => \A k \in Keys : incident'[k].told = 0
         PROVE  (StampInv /\ ToldInv)'
  <2>1. CASE call' = call
    <3>1. StampInv'
      BY <1>rest, <1>stamps, <2>1 DEF StampInv, FindingTypes
    <3>2. ASSUME NEW k \in Keys, incident'[k].told # 0
          PROVE  /\ incident'[k].told = incident[k].told /\ (Told(k)' <=> Told(k))
                 /\ \A w \in Workers : Telling(w, k)' <=> Telling(w, k)
      BY <1>rest, <2>1, <3>2 DEF Told, Telling
    <3> QED
      BY <1>rest, <2>1, <3>1, <3>2 DEF ToldInv
  <2>2. CASE call' # call
    BY <1>rest, <2>2 DEF StampInv, ToldInv, FindingTypes, Found!None
  <2> QED
    BY <2>1, <2>2
<1>acts. ASSUME \/ \E s \in Found!Statuses : Found!SetStatus(s)
                \/ Found!Escalate \/ Found!AddNote \/ Found!CountNote \/ UNCHANGED Found!vars
         PROVE  (StampInv /\ ToldInv)'
  <2>1. UNCHANGED <<backend, stamp, incident, call, events, sent, failed>>
    <3>1. ASSUME Found!Touched PROVE UNCHANGED <<backend, stamp, incident, call, events, sent, failed>>
      BY <3>1 DEF Found!Touched, Found!memory, Found!stored
    <3>2. Found!Touched \/ UNCHANGED Found!vars
      BY <1>acts, Zenon DEF Found!SetStatus, Found!Escalate, Found!AddNote, Found!CountNote
    <3> QED
      BY <3>1, <3>2 DEF Found!vars
  <2> QED
    BY <1>rest, <2>1 DEF StampInv
<1>time. ASSUME NEW k \in Found!Incidents, Found!Cool(k) \/ Found!Forget(k)
         PROVE  (StampInv /\ ToldInv)'
  <2>1. k \in Keys
    BY PartsAssumption DEF Found!Incidents, Found!FindingsAssumption
  <2>2. /\ UNCHANGED <<backend, stamp, call, events, sent, failed>>
        /\ \/ incident' = [incident EXCEPT ![k].due = TRUE]
           \/ incident' = [incident EXCEPT ![k] = Found!NoIncident]
    BY <1>time DEF Found!Cool, Found!Forget, Found!stored
  <2> QED
    <3>1. incident' \in [Keys -> Remembered]
      <4>1. incident[k] \in Remembered
        BY <2>1 DEF StampInv
      <4>2. [incident[k] EXCEPT !.due = TRUE] \in Remembered
        BY <4>1
      <4>3. Found!NoIncident \in Remembered
        BY DEF Found!NoIncident
      <4> QED
        <5>1. PICK inc \in Remembered : incident' = [incident EXCEPT ![k] = inc]
          BY <2>1, <2>2, <4>2, <4>3 DEF StampInv
        <5> QED
          BY <5>1 DEF StampInv
    <3>2. \A n \in Keys : incident'[n].told \in {0, incident[n].told}
      BY <2>1, <2>2 DEF StampInv, Found!NoIncident
    <3> QED
      BY <1>rest, <2>2, <3>1, <3>2
<1>crash. CASE Found!Crash
  BY <1>crash, <1>rest DEF Found!Crash, Found!NoIncident, Found!stored
<1> QED
  BY <1>observe, <1>synth, <1>irrelevant, <1>event, <1>alert, <1>upsert, <1>fail, <1>acts,
     <1>time, <1>crash DEF Found!Next

\* A corroborated incident is told once and for all, unless a statement failed.
THEOREM CorroborationAlwaysTold == Found!Spec => []CorroborationTold
<1>1. Found!Init => FindingTypes /\ StampInv /\ ToldInv
  BY FindingsBegin DEF Found!Init, Found!None, Found!NoIncident, StampInv, ToldInv, Remembered
<1>2. ToldInv => CorroborationTold
  BY DEF ToldInv, CorroborationTold, Found!CorroborationTold, Telling, Told, Alerted
<1> QED
  BY <1>1, <1>2, FindingTypesLast, ToldLasts, PTL DEF Found!Spec

-----------------------------------------------------------------------------
(* Roles.                                                                  *)

Role == Roles!Role
Busy(q, m) == change[q].at # "idle" /\ change[q].member = m

RoleTypes ==
    /\ role \in [Staff -> Role \cup {Roles!None}] /\ roleRow \in [Staff -> Role \cup {Roles!None}]
    /\ entry \in [Staff -> Role \cup {Roles!None}] /\ told \in [Staff -> Role \cup {Roles!None}]
    /\ change \in [Requests -> {Roles!NoChange} \cup
                     [at : {"row", "entry", "drop"}, member : Staff, to : Role]]
    /\ alone \in [Staff -> BOOLEAN]

\* A member has no row before its record, and no entry before its row.
Placed(m) ==
    /\ roleRow[m] # Roles!None => role[m] # Roles!None
    /\ entry[m] # Roles!None => roleRow[m] # Roles!None

\* The one change of a member that is in progress has been made in memory; the
\* row follows, and last the table of connections and the client.
Alone(m) ==
    /\ \A q, r \in Requests : Busy(q, m) /\ Busy(r, m) => q = r
    /\ \A q \in Requests : Busy(q, m) =>
          /\ change[q].to = role[m] /\ roleRow[m] # Roles!None
          /\ change[q].at # "row" => roleRow[m] = role[m]
    /\ roleRow[m] = Roles!None => role[m] \in {Roles!None, "observer"}
    /\ (\A q \in Requests : ~Busy(q, m)) =>
          /\ roleRow[m] # Roles!None => roleRow[m] = role[m]
          /\ entry[m] # Roles!None => entry[m] = role[m] /\ told[m] = role[m]

RolesInv == RoleTypes /\ \A m \in Staff : Placed(m) /\ (alone[m] => Alone(m))

LEMMA RolesInvLasts == RolesInv /\ [Roles!Next]_(Roles!vars) => RolesInv'
<1> SUFFICES ASSUME RolesInv, [Roles!Next]_(Roles!vars) PROVE RolesInv'
  OBVIOUS
<1> USE DEF RolesInv, RoleTypes, Role, Roles!Role, Roles!None, Roles!NoChange
<1>change. ASSUME NEW q \in Requests, NEW m \in Staff, NEW to \in Role, Roles!Change(q, m, to)
           PROVE  RolesInv'
  <2>1. /\ change[q] = Roles!NoChange /\ role[m] # Roles!None
        /\ role' = [role EXCEPT ![m] = to]
        /\ change' = [change EXCEPT ![q] = [at |-> "row", member |-> m, to |-> to]]
        /\ alone' = [alone EXCEPT ![m] = ~Roles!Changing(m) /\ roleRow[m] # Roles!None]
        /\ UNCHANGED <<roleRow, entry, told>>
    BY <1>change DEF Roles!Change
  <2>2. RoleTypes'
    BY <2>1, Zenon
  <2>3. ASSUME NEW n \in Staff, alone'[n] PROVE Alone(n)'
    <3>1. CASE n = m
      <4>1. (\A r \in Requests : ~Busy(r, m)) /\ roleRow[m] # Roles!None
        BY <2>1, <2>3, <3>1 DEF Busy, Roles!Changing
      <4> QED
        BY <2>1, <3>1, <4>1 DEF Busy, Alone
    <3>2. CASE n # m
      BY <2>1, <2>3, <3>2 DEF Busy, Alone
    <3> QED
      BY <3>1, <3>2
  <2>4. ASSUME NEW n \in Staff PROVE Placed(n)'
    BY <2>1 DEF Placed
  <2> QED
    BY <2>2, <2>3, <2>4
<1>row. ASSUME NEW q \in Requests, Roles!WriteRow(q) PROVE RolesInv'
  <2>1. PICK m \in Staff :
          /\ change[q].at = "row" /\ change[q].member = m /\ change[q].to \in Role
          /\ roleRow' = [roleRow EXCEPT ![m] = IF roleRow[m] = Roles!None THEN Roles!None
                                                                      ELSE change[q].to]
          /\ change' = [change EXCEPT ![q].at = "entry"]
          /\ UNCHANGED <<role, entry, told, alone>>
    <3>1. change[q].at = "row" /\ change[q].member \in Staff /\ change[q].to \in Role
      BY <1>row DEF Roles!WriteRow
    <3> QED
      BY <1>row, <3>1 DEF Roles!WriteRow
  <2>2. \A r \in Requests, n \in Staff : Busy(r, n)' <=> Busy(r, n)
    BY <2>1 DEF Busy
  <2>3. RoleTypes'
    BY <2>1
  <2>4. ASSUME NEW n \in Staff PROVE Placed(n)'
    BY <2>1 DEF Placed
  <2>5. ASSUME NEW n \in Staff, alone[n], Alone(n) PROVE Alone(n)'
    <3>1. CASE n = m
      <4>1. Busy(q, n)
        BY <2>1, <3>1 DEF Busy
      <4>2. /\ change[q].to = role[n] /\ roleRow'[n] = role[n] /\ roleRow'[n] # Roles!None
            /\ \A r \in Requests : Busy(r, n) => r = q
        BY <2>1, <2>5, <3>1, <4>1 DEF Alone
      <4> QED
        BY <2>1, <2>2, <4>1, <4>2 DEF Alone
    <3>2. CASE n # m
      <4>1. \A r \in Requests : Busy(r, n) => change'[r] = change[r]
        BY <2>1, <3>2 DEF Busy
      <4>2. roleRow'[n] = roleRow[n]
        BY <2>1, <3>2
      <4> QED
        BY <2>1, <2>2, <2>5, <4>1, <4>2 DEF Alone
    <3> QED
      BY <3>1, <3>2
  <2> QED
    BY <2>1, <2>3, <2>4, <2>5
<1>fails. ASSUME NEW q \in Requests, Roles!RowFails(q) PROVE RolesInv'
  <2>1. PICK m \in Staff :
          /\ change[q].at = "row" /\ change[q].member = m
          /\ alone' = [alone EXCEPT ![m] = FALSE]
          /\ change' = [change EXCEPT ![q] = Roles!NoChange]
          /\ UNCHANGED <<role, roleRow, entry, told>>
    <3>1. change[q].at = "row" /\ change[q].member \in Staff /\ change[q].to \in Role
      BY <1>fails DEF Roles!RowFails
    <3> QED
      BY <1>fails, <3>1 DEF Roles!RowFails
  <2>2. \A n \in Staff \ {m}, r \in Requests : Busy(r, n)' <=> Busy(r, n)
    BY <2>1 DEF Busy
  <2>3. \A n \in Staff \ {m}, r \in Requests : Busy(r, n) => change'[r] = change[r]
    BY <2>1 DEF Busy
  <2>4. RoleTypes' /\ \A n \in Staff : Placed(n)'
    BY <2>1 DEF Placed
  <2>5. ASSUME NEW n \in Staff, alone'[n] PROVE Alone(n)'
    <3>1. n # m /\ alone[n] /\ Alone(n)
      BY <2>1, <2>5
    <3> QED
      BY <2>1, <2>2, <2>3, <3>1 DEF Alone
  <2> QED
    BY <2>4, <2>5
<1>tell. ASSUME NEW q \in Requests, Roles!Tell(q) PROVE RolesInv'
  <2>1. PICK m \in Staff :
          /\ change[q].at = "entry" /\ change[q].member = m /\ change[q].to \in Role
          /\ entry' = [entry EXCEPT ![m] = IF entry[m] = Roles!None THEN Roles!None
                                                                  ELSE change[q].to]
          /\ told' = [told EXCEPT ![m] = IF entry[m] = Roles!None THEN told[m]
                                                                ELSE change[q].to]
          /\ change' = [change EXCEPT ![q] = Roles!NoChange]
          /\ UNCHANGED <<role, roleRow, alone>>
    <3>1. change[q].at = "entry" /\ change[q].member \in Staff /\ change[q].to \in Role
      BY <1>tell DEF Roles!Tell
    <3> QED
      BY <1>tell, <3>1 DEF Roles!Tell
  <2>2. \A r \in Requests, n \in Staff : Busy(r, n)' <=> Busy(r, n) /\ r # q
    BY <2>1 DEF Busy
  <2>3. RoleTypes'
    BY <2>1
  <2>4. ASSUME NEW n \in Staff, alone[n], Alone(n) PROVE Alone(n)'
    <3>1. CASE n = m
      <4>1. Busy(q, n) /\ change[q].to = role[n] /\ roleRow[n] = role[n] /\ roleRow[n] # Roles!None
        BY <2>1, <2>4, <3>1 DEF Busy, Alone
      <4>2. \A r \in Requests : ~Busy(r, n)'
        BY <2>2, <2>4, <4>1 DEF Alone
      <4>3. entry'[n] # Roles!None => entry'[n] = role[n] /\ told'[n] = role[n]
        BY <2>1, <3>1, <4>1
      <4> QED
        BY <2>1, <4>1, <4>2, <4>3 DEF Alone
    <3>2. CASE n # m
      <4>1. ~Busy(q, n)
        BY <2>1, <3>2 DEF Busy
      <4>2. entry'[n] = entry[n] /\ told'[n] = told[n]
        BY <2>1, <3>2
      <4>3. \A r \in Requests : Busy(r, n) => change'[r] = change[r]
        BY <2>1, <4>1
      <4> QED
        BY <2>1, <2>2, <2>4, <4>1, <4>2, <4>3 DEF Alone
    <3> QED
      BY <3>1, <3>2
  <2>5. ASSUME NEW n \in Staff PROVE Placed(n)'
    BY <2>1 DEF Placed
  <2> QED
    BY <2>1, <2>3, <2>4, <2>5
<1>dropping. ASSUME NEW q \in Requests, Roles!TellFails(q) PROVE RolesInv'
  <2>1. PICK m \in Staff :
          /\ change[q].at = "entry" /\ change[q].member = m /\ change[q].to \in Role
          /\ entry[m] # Roles!None /\ entry' = [entry EXCEPT ![m] = change[q].to]
          /\ change' = [change EXCEPT ![q].at = "drop"]
          /\ UNCHANGED <<role, roleRow, told, alone>>
    <3>1. change[q].at = "entry" /\ change[q].member \in Staff /\ change[q].to \in Role
      BY <1>dropping DEF Roles!TellFails
    <3> QED
      BY <1>dropping, <3>1 DEF Roles!TellFails
  <2>2. \A r \in Requests, n \in Staff : Busy(r, n)' <=> Busy(r, n)
    BY <2>1 DEF Busy
  <2>3. RoleTypes'
    BY <2>1
  <2>4. ASSUME NEW n \in Staff PROVE Placed(n)'
    BY <2>1 DEF Placed
  <2>5. ASSUME NEW n \in Staff, alone[n], Alone(n) PROVE Alone(n)'
    <3>1. Busy(q, m) /\ (n # m => entry'[n] = entry[n])
      BY <2>1 DEF Busy
    <3>2. \A r \in Requests : /\ change'[r].to = change[r].to
                              /\ change'[r].at # "row" => change[r].at # "row"
      BY <2>1
    <3> QED
      BY <2>1, <2>2, <2>5, <3>1, <3>2 DEF Alone
  <2> QED
    BY <2>1, <2>3, <2>4, <2>5
<1>drop. ASSUME NEW q \in Requests, Roles!Drop(q) PROVE RolesInv'
  <2>1. PICK m \in Staff :
          /\ change[q].at = "drop" /\ change[q].member = m
          /\ entry' = [entry EXCEPT ![m] = Roles!None]
          /\ change' = [change EXCEPT ![q] = Roles!NoChange]
          /\ UNCHANGED <<role, roleRow, told, alone>>
    <3>1. change[q].at = "drop" /\ change[q].member \in Staff /\ change[q].to \in Role
      BY <1>drop DEF Roles!Drop
    <3> QED
      BY <1>drop, <3>1 DEF Roles!Drop
  <2>2. \A r \in Requests, n \in Staff : Busy(r, n)' <=> Busy(r, n) /\ r # q
    BY <2>1 DEF Busy
  <2>3. RoleTypes' /\ \A n \in Staff : Placed(n)'
    BY <2>1 DEF Placed
  <2>4. ASSUME NEW n \in Staff, alone[n], Alone(n) PROVE Alone(n)'
    <3>1. \A r \in Requests : Busy(r, n)' => change'[r] = change[r]
      BY <2>1, <2>2
    <3>2. CASE n = m
      <4>1. Busy(q, n) /\ roleRow[n] = role[n] /\ roleRow[n] # Roles!None /\ entry'[n] = Roles!None
        BY <2>1, <2>4, <3>2 DEF Busy, Alone
      <4> QED
        BY <2>1, <2>2, <2>4, <3>1, <4>1 DEF Alone
    <3>3. CASE n # m
      <4>1. ~Busy(q, n) /\ entry'[n] = entry[n]
        BY <2>1, <3>3 DEF Busy
      <4> QED
        BY <2>1, <2>2, <2>4, <3>1, <4>1 DEF Alone
    <3> QED
      BY <3>2, <3>3
  <2> QED
    BY <2>1, <2>3, <2>4
<1>join. ASSUME NEW m \in Staff, Roles!Join(m) \/ Roles!InsertRow(m) PROVE RolesInv'
  <2>1. CASE Roles!Join(m)
    BY <2>1 DEF Roles!Join, Busy, Alone, Placed
  <2>2. CASE Roles!InsertRow(m)
    BY <2>2 DEF Roles!InsertRow, Busy, Alone, Placed
  <2> QED
    BY <1>join, <2>1, <2>2
<1>connect. ASSUME NEW m \in Staff, Roles!Connect(m) \/ Roles!Leave(m) \/ Roles!Unregister(m)
            PROVE  RolesInv'
  BY <1>connect DEF Roles!Connect, Roles!Leave, Roles!Unregister, Busy, Alone, Placed
<1>restart. CASE Roles!Restart
  BY <1>restart DEF Roles!Restart, Busy, Alone, Placed
<1>stutter. CASE UNCHANGED Roles!vars
  BY <1>stutter DEF Roles!vars, Busy, Alone, Placed
<1> QED
  BY <1>change, <1>row, <1>fails, <1>tell, <1>dropping, <1>drop, <1>join, <1>connect,
     <1>restart, <1>stutter DEF Roles!Next

\* Whatever joins, reconnects, failed sends, ends of earlier handlers and restarts
\* come in between: once a lone change of a member is through, its record and its
\* row agree on its role, and so do its entry and its client while it is in the
\* table that alerts are addressed by.
THEOREM RolesAlwaysAgree == Roles!Spec => []RolesAgree
<1>1. Roles!Init => RolesInv
  BY DEF Roles!Init, RolesInv, RoleTypes, Role, Roles!Role, Roles!None, Roles!NoChange, Busy,
         Alone, Placed
<1>2. RolesInv => RolesAgree
  <2> SUFFICES ASSUME RolesInv, NEW m \in Staff, roleRow[m] # Roles!None, alone[m],
                      ~Roles!Changing(m)
               PROVE  /\ roleRow[m] = role[m]
                      /\ entry[m] # Roles!None => entry[m] = role[m] /\ told[m] = role[m]
    BY DEF RolesAgree, Roles!RolesAgree
  <2>1. \A q \in Requests : ~Busy(q, m)
    BY DEF Roles!Changing, Busy
  <2> QED
    BY <2>1 DEF RolesInv, RoleTypes, Alone
<1> QED
  BY <1>1, <1>2, RolesInvLasts, PTL DEF Roles!Spec

-----------------------------------------------------------------------------
(* The operator's credentials.                                             *)

Credentials == {"code", "dashboard", "operator"}

Clears == [do : {"clear"}, f : Local!File]
FileSteps == [do : {"clear", "truncate", "fill"}, f : Local!File]
UpStep == [do |-> "up", f |-> "bootstrap"]
HubSteps == FileSteps \cup {UpStep} \cup [do : {"cookie"}, f : {"dashboard"}, for : Browsers]

\* The steps of a list of file operations.
Of(todo) == {todo[i] : i \in 1..Len(todo)}

Removes(todo, f) == \E s \in Of(todo) : s.do = "clear" /\ s.f = f
Fills(todo, f) == \E s \in Of(todo) : s.do = "fill" /\ s.f = f

LocalTypes ==
    /\ file \in [Local!File -> [state : {"absent", "torn", "live", "expired"}, id : Nat, run : Nat]]
    /\ issued \in Nat /\ run \in Nat /\ shown \in Nat
    /\ up \in BOOLEAN /\ out \in BOOLEAN /\ mixed \in BOOLEAN
    /\ hub \in Seq(HubSteps)
    /\ cli = Local!NoCommand \/ /\ cli.for \in {"login", "dashboard", "logout", "status"}
                                /\ cli.todo \in Seq(FileSteps) /\ cli.todo # <<>>
                                /\ cli.run \in Nat
                                /\ cli = [for |-> cli.for, run |-> cli.run, todo |-> cli.todo]
    /\ cookie \in [Browsers -> Nat]

\* The hub says that it is up when it has done all else.
UpIsLast ==
    /\ \A i \in 1..Len(hub) : hub[i] = UpStep => i = Len(hub)
    /\ UpStep \in Of(hub) => ~up

\* A status and a logout only remove, and neither follows a logout with a login.
Removing ==
    /\ cli.for \in {"logout", "status"} => Of(cli.todo) \subseteq Clears
    /\ out => cli.for \in {"none", "logout", "status"}

\* One process at a time works on the files, for the hub that is there.
OneAtATime ==
    /\ hub = <<>> \/ cli.for = "none"
    /\ cli.for # "none" => cli.run = run

\* A start leaves no credential but the bootstrap it writes.
Starting ==
    UpStep \in Of(hub) =>
        /\ \A f \in Credentials : (Removes(hub, f) \/ ~Local!Live(f)) /\ ~Fills(hub, f)
        /\ \/ \E s \in Of(hub) : s.do = "truncate" /\ s.f = "bootstrap"
           \/ Local!Live("bootstrap") => file["bootstrap"].run = run

\* A logout leaves none, and nothing is on its way to make one.
Leaving ==
    /\ cli.for = "logout" => \A f \in Credentials : Removes(cli.todo, f) \/ ~Local!Live(f)
    /\ out => \A f \in Credentials : ~Local!Live(f) /\ ~Fills(hub, f)

OfThisRun == up => \A f \in Local!File : Local!Live(f) => file[f].run = run

LocalInv ==
    /\ LocalTypes /\ UpIsLast /\ Removing
    /\ ~mixed => OneAtATime /\ Starting /\ Leaving /\ OfThisRun

\* Of two lists one after the other, of a list and its tail, of short ones.
LEMMA OfConcat ==
    ASSUME NEW S, NEW s \in Seq(S), NEW t \in Seq(S)
    PROVE  s \o t \in Seq(S) /\ Of(s \o t) = Of(s) \cup Of(t)
<1>1. /\ s \o t \in Seq(S) /\ Len(s \o t) = Len(s) + Len(t)
      /\ Len(s) \in Nat /\ Len(t) \in Nat
      /\ \A i \in 1..Len(s) + Len(t) :
            (s \o t)[i] = IF i <= Len(s) THEN s[i] ELSE t[i - Len(s)]
  BY ConcatProperties
<1> DEFINE c == s \o t
<1> HIDE DEF c
<1>2. ASSUME NEW i \in 1..Len(s) PROVE s[i] \in Of(c)
  BY <1>1, i \in 1..Len(s) + Len(t), c[i] = s[i] DEF Of, c
<1>3. ASSUME NEW i \in 1..Len(t) PROVE t[i] \in Of(c)
  <2> DEFINE j == i + Len(s)
  <2>1. j \in 1..Len(s) + Len(t) /\ ~(j <= Len(s)) /\ j - Len(s) = i
    BY <1>1
  <2> HIDE DEF j
  <2>2. c[j] = t[i]
    BY <1>1, <2>1 DEF c
  <2> QED
    BY <1>1, <2>1, <2>2 DEF Of, c
<1>4. ASSUME NEW i \in 1..Len(c) PROVE c[i] \in Of(s) \cup Of(t)
  <2>1. CASE i <= Len(s)
    BY <1>1, <2>1 DEF Of, c
  <2>2. CASE ~(i <= Len(s))
    <3>1. i - Len(s) \in 1..Len(t) /\ c[i] = t[i - Len(s)]
      BY <1>1, <2>2 DEF c
    <3> QED
      BY <3>1 DEF Of
  <2> QED
    BY <2>1, <2>2
<1> QED
  BY <1>1, <1>2, <1>3, <1>4 DEF Of, c

LEMMA OfTail ==
    ASSUME NEW S, NEW s \in Seq(S), s # <<>>
    PROVE  /\ Head(s) \in S /\ Tail(s) \in Seq(S)
           /\ Of(s) = {Head(s)} \cup Of(Tail(s))
           /\ Len(s) \in Nat /\ Len(Tail(s)) = Len(s) - 1
           /\ Head(s) = s[1] /\ \A i \in 1..Len(Tail(s)) : Tail(s)[i] = s[i + 1]
<1>1. /\ Head(s) \in S /\ Tail(s) \in Seq(S) /\ Len(s) \in Nat \ {0}
      /\ Len(Tail(s)) = Len(s) - 1 /\ Head(s) = s[1]
      /\ \A i \in 1..Len(Tail(s)) : Tail(s)[i] = s[i + 1]
  BY HeadTailProperties, EmptySeq
<1> DEFINE t == Tail(s)
<1> HIDE DEF t
<1>2. ASSUME NEW i \in 1..Len(s), i # 1 PROVE s[i] \in Of(t)
  <2> DEFINE j == i - 1
  <2>1. j \in 1..Len(t) /\ j + 1 = i
    BY <1>1, <1>2 DEF t
  <2> HIDE DEF j
  <2>2. t[j] = s[i]
    BY <1>1, <2>1 DEF t
  <2> QED
    BY <2>1, <2>2 DEF Of
<1>3. ASSUME NEW i \in 1..Len(t) PROVE t[i] \in Of(s)
  <2>1. i + 1 \in 1..Len(s) /\ t[i] = s[i + 1]
    BY <1>1 DEF t
  <2> QED
    BY <2>1 DEF Of
<1>4. s[1] \in Of(s)
  BY <1>1 DEF Of
<1>5. Of(s) \subseteq {s[1]} \cup Of(t)
  BY <1>2 DEF Of
<1>6. Of(t) \subseteq Of(s)
  BY <1>3 DEF Of
<1> QED
  BY <1>1, <1>4, <1>5, <1>6 DEF t

LEMMA OfShort ==
    /\ Of(<<>>) = {}
    /\ \A a : Of(<<a>>) = {a}
    /\ \A a, b : Of(<<a, b>>) = {a, b}
<1>1. Of(<<>>) = {}
  BY DEF Of
<1>2. \A a : Of(<<a>>) = {a}
  <2> TAKE a
  <2>1. Len(<<a>>) = 1 /\ <<a>>[1] = a
    OBVIOUS
  <2> QED
    BY <2>1 DEF Of
<1>3. \A a, b : Of(<<a, b>>) = {a, b}
  <2> TAKE a, b
  <2>1. Len(<<a, b>>) = 2 /\ <<a, b>>[1] = a /\ <<a, b>>[2] = b /\ 1..2 = {1, 2}
    OBVIOUS
  <2> QED
    BY <2>1 DEF Of
<1> QED
  BY <1>1, <1>2, <1>3

\* The elements of a list are of its set.
LEMMA OfIn ==
    ASSUME NEW S, NEW s, Of(s) \subseteq S, NEW T, s \in Seq(T)
    PROVE  s \in Seq(S)
BY DEF Of

\* What is read as bad is removed, in some order.
LEMMA ClearBadRemoves ==
    ASSUME NEW fs \in SUBSET Local!File
    PROVE  Local!ClearBad(fs) \in Seq(Clears) /\ Of(Local!ClearBad(fs)) \subseteq Clears
<1> DEFINE S == {Local!Clear(f) : f \in {g \in fs : Local!Bad(g)}}
<1> DEFINE C(f) == Local!Clear(f)
           All == {C("bootstrap"), C("operator"), C("code"), C("dashboard")}
<1>1. IsFiniteSet(All)
  <2> HIDE DEF C
  <2>1. IsFiniteSet({C("bootstrap")})
    BY FS_Singleton
  <2>2. IsFiniteSet({C("bootstrap"), C("operator")})
    BY <2>1, FS_AddElement, {C("bootstrap"), C("operator")} = {C("bootstrap")} \cup {C("operator")}
  <2>3. IsFiniteSet({C("bootstrap"), C("operator"), C("code")})
    BY <2>2, FS_AddElement, {C("bootstrap"), C("operator"), C("code")} =
                            {C("bootstrap"), C("operator")} \cup {C("code")}
  <2> QED
    BY <2>3, FS_AddElement, All = {C("bootstrap"), C("operator"), C("code")} \cup {C("dashboard")}
<1>2. IsFiniteSet(S)
  <2>1. S \subseteq All
    BY DEF Local!File
  <2> HIDE DEF S, All
  <2> QED
    BY <1>1, <2>1, FS_Subset
<1>3. S \subseteq Clears
  BY DEF Clears, Local!Clear
<1>4. Local!Cardinality(S) = Cardinality(S)
  BY DEF Local!Cardinality, Cardinality
<1>5. \E f \in [1..Cardinality(S) -> S] : Local!IsInjective(f)
  <2> HIDE DEF S
  <2>1. ExistsBijection(1..Cardinality(S), S)
    BY <1>2, FS_CardinalityType
  <2> QED
    BY <2>1 DEF ExistsBijection, Bijection, Injection, IsInjective, Local!IsInjective
<1>6. Local!ClearBad(fs) \in [1..Cardinality(S) -> S]
  BY <1>4, <1>5 DEF Local!ClearBad, Local!SetToSeq
<1>7. Cardinality(S) \in Nat
  BY <1>2, FS_CardinalityType
<1>8. Local!ClearBad(fs) \in Seq(S)
  <2> HIDE DEF S
  <2> QED
    BY <1>6, <1>7
<1>9. Local!ClearBad(fs) \in Seq(Clears)
  <2> HIDE DEF S
  <2> QED
    BY <1>3, <1>8
<1> QED
  BY <1>9 DEF Of

LEMMA StepsAre ==
    /\ \A s \in Clears : s \in FileSteps /\ s.do = "clear"
    /\ \A s \in FileSteps : s \in HubSteps /\ s.do \in {"clear", "truncate", "fill"}
    /\ UpStep \in HubSteps /\ UpStep.do = "up" /\ UpStep \notin FileSteps
    /\ \A s \in HubSteps : \/ s \in FileSteps \/ s = UpStep
                           \/ s.do = "cookie" /\ s.f = "dashboard" /\ s.for \in Browsers
    /\ \A f \in Local!File : Local!Clear(f) \in Clears /\ Local!Clear(f).f = f
    /\ Credentials \subseteq Local!File /\ Local!File = Credentials \cup {"bootstrap"}
BY DEF Clears, FileSteps, HubSteps, UpStep, Local!Clear, Local!File, Credentials

LEMMA ListsGrow ==
    /\ \A s \in Seq(Clears) : s \in Seq(FileSteps)
    /\ \A s \in Seq(FileSteps) : s \in Seq(HubSteps)
<1>1. Clears \subseteq FileSteps /\ FileSteps \subseteq HubSteps
  BY StepsAre
<1> QED
  BY <1>1

LEMMA ElementsAre ==
    ASSUME NEW S, NEW s \in Seq(S)
    PROVE  Of(s) \subseteq S
BY DEF Of

LEMMA PartsAre ==
    /\ Local!Quits \in Seq(Clears)
    /\ Of(Local!Quits) = {Local!Clear("code"), Local!Clear("dashboard")}
    /\ \A f \in Local!File :
          /\ <<Local!Clear(f)>> \in Seq(Clears) /\ Of(<<Local!Clear(f)>>) = {Local!Clear(f)}
          /\ Local!Create(f) \in Seq(FileSteps)
          /\ Of(Local!Create(f)) = {[do |-> "truncate", f |-> f], [do |-> "fill", f |-> f]}
<1>1. Local!Clear("code") \in Clears /\ Local!Clear("dashboard") \in Clears
  BY StepsAre DEF Credentials
<1>2. Local!Quits \in Seq(Clears)
  BY <1>1 DEF Local!Quits
<1>3. \A f \in Local!File : Local!Create(f) \in Seq(FileSteps)
  BY DEF FileSteps, Local!Create
<1>4. \A f \in Local!File : <<Local!Clear(f)>> \in Seq(Clears)
  BY StepsAre
<1> QED
  BY <1>2, <1>3, <1>4, OfShort DEF Local!Quits, Local!Create

\* What a list does not have is, once put after it, its last element only.
LEMMA OnlyLast ==
    ASSUME NEW S, NEW s \in Seq(S), NEW t \in Seq(S), Len(t) = 1, NEW x,
           \A n \in 1..Len(s) : s[n] # x
    PROVE  \A i \in 1..Len(s \o t) : (s \o t)[i] = x => i = Len(s \o t)
<1>1. s \in Seq(S) /\ t \in Seq(S)
  OBVIOUS
<1>2. /\ s \o t \in Seq(S) /\ Len(s \o t) = Len(s) + Len(t)
      /\ Len(s) \in Nat /\ Len(t) \in Nat
      /\ \A i \in 1..Len(s) + Len(t) :
            (s \o t)[i] = IF i <= Len(s) THEN s[i] ELSE t[i - Len(s)]
  BY ONLY <1>1, ConcatProperties
<1> DEFINE c == s \o t
<1> HIDE DEF c
<1>3. Len(c) = Len(s) + 1 /\ \A n \in 1..Len(s) : c[n] = s[n]
  BY <1>2 DEF c
<1>4. \A i \in 1..Len(c) : c[i] = x => i = Len(c)
  BY <1>2, <1>3
<1> QED
  BY <1>4 DEF c

\* What a start has to do.
LEMMA StartIs ==
    ASSUME NEW todo,
           todo = Local!Quits \o <<Local!Clear("operator")>> \o Local!Create("bootstrap")
                     \o <<UpStep>>
    PROVE  /\ todo \in Seq(HubSteps)
           /\ Of(todo) = {Local!Clear("code"), Local!Clear("dashboard"), Local!Clear("operator"),
                          [do |-> "truncate", f |-> "bootstrap"],
                          [do |-> "fill", f |-> "bootstrap"], UpStep}
           /\ \A i \in 1..Len(todo) : todo[i] = UpStep => i = Len(todo)
<1> DEFINE q == Local!Quits
           c == <<Local!Clear("operator")>>
           k == Local!Create("bootstrap")
           u == <<UpStep>>
           a == q \o c
           b == a \o k
<1>1. /\ q \in Seq(Clears) /\ Of(q) = {Local!Clear("code"), Local!Clear("dashboard")}
      /\ c \in Seq(Clears) /\ Of(c) = {Local!Clear("operator")}
      /\ k \in Seq(FileSteps)
      /\ Of(k) = {[do |-> "truncate", f |-> "bootstrap"], [do |-> "fill", f |-> "bootstrap"]}
  <2>1. "operator" \in Local!File /\ "bootstrap" \in Local!File
    BY DEF Local!File
  <2> QED
    BY <2>1, PartsAre
<1>2. u \in Seq(HubSteps) /\ Of(u) = {UpStep} /\ Len(u) = 1
  BY StepsAre, OfShort
<1>3. todo = b \o u
  OBVIOUS
<1> HIDE DEF q, c, k, u
<1>4. a \in Seq(Clears) /\ Of(a) = Of(q) \cup Of(c)
  <2>1. q \in Seq(Clears) /\ c \in Seq(Clears)
    BY <1>1
  <2> QED
    BY ONLY <2>1, OfConcat
<1> HIDE DEF a
<1>5. b \in Seq(FileSteps) /\ Of(b) = Of(a) \cup Of(k)
  <2>1. a \in Seq(FileSteps)
    BY <1>4, ListsGrow
  <2> QED
    BY <1>1, <2>1, OfConcat
<1> HIDE DEF b
<1>7. b \in Seq(HubSteps)
  BY <1>5, ListsGrow
<1>8. todo \in Seq(HubSteps) /\ Of(todo) = Of(b) \cup {UpStep}
  <2>1. u \in Seq(HubSteps)
    BY <1>2
  <2>2. b \o u \in Seq(HubSteps) /\ Of(b \o u) = Of(b) \cup Of(u)
    BY ONLY <2>1, <1>7, OfConcat
  <2> QED
    BY <1>2, <1>3, <2>2
<1>6. ASSUME NEW i \in 1..Len(todo), todo[i] = UpStep PROVE i = Len(todo)
  <2>1. u \in Seq(HubSteps) /\ Len(u) = 1 /\ todo = b \o u
    BY <1>2, <1>3
  <2>2. \A n \in 1..Len(b) : b[n] # UpStep
    BY <1>5, StepsAre
  <2> QED
    BY ONLY <1>6, <1>7, <2>1, <2>2, OnlyLast, i \in 1..Len(todo)
<1> QED
  BY <1>1, <1>4, <1>5, <1>6, <1>8

\* What a logout has to do.
LEMMA LogoutIs ==
    ASSUME NEW todo,
           todo = Local!ClearBad({"operator"}) \o Local!Quits \o <<Local!Clear("operator")>>
    PROVE  /\ todo \in Seq(Clears)
           /\ \A f \in Credentials : Local!Clear(f) \in Of(todo)
<1> DEFINE r == Local!ClearBad({"operator"})
           q == Local!Quits
           c == <<Local!Clear("operator")>>
           a == r \o q
<1>1. /\ r \in Seq(Clears) /\ q \in Seq(Clears) /\ c \in Seq(Clears)
      /\ Of(q) = {Local!Clear("code"), Local!Clear("dashboard")}
      /\ Of(c) = {Local!Clear("operator")}
  <2>1. "operator" \in Local!File
    BY DEF Local!File
  <2> QED
    BY <2>1, PartsAre, ClearBadRemoves
<1>2. todo = a \o c
  OBVIOUS
<1> HIDE DEF r, q, c
<1>3. a \in Seq(Clears) /\ Of(a) = Of(r) \cup Of(q)
  BY <1>1, OfConcat
<1> HIDE DEF a
<1>4. todo \in Seq(Clears) /\ Of(todo) = Of(a) \cup Of(c)
  <2>1. a \in Seq(Clears) /\ c \in Seq(Clears)
    BY <1>1, <1>3
  <2>2. a \o c \in Seq(Clears) /\ Of(a \o c) = Of(a) \cup Of(c)
    BY ONLY <2>1, OfConcat
  <2> QED
    BY <1>2, <2>2
<1> QED
  BY <1>1, <1>3, <1>4 DEF Credentials

\* What an exchange has to do writes a session of the dashboard, or nothing.
LEMMA ExchangeIs ==
    ASSUME NEW b \in Browsers, NEW read \in Seq(Clears), NEW todo,
           \/ todo = read \o <<Local!Clear("code")>> \o Local!Create("dashboard")
                       \o <<[do |-> "cookie", f |-> "dashboard", for |-> b]>>
           \/ todo = read \o <<Local!Clear("code")>>
    PROVE  /\ todo \in Seq(HubSteps) /\ UpStep \notin Of(todo)
           /\ todo = read \o <<Local!Clear("code")>> => Of(todo) \subseteq Clears
<1> DEFINE a == read \o <<Local!Clear("code")>>
           e == a \o Local!Create("dashboard")
           k == [do |-> "cookie", f |-> "dashboard", for |-> b]
<1>1. a \in Seq(Clears)
  BY PartsAre, OfConcat, StepsAre DEF Credentials
<1>2. a \in Seq(FileSteps) /\ a \in Seq(HubSteps) /\ Of(a) \subseteq Clears
  BY <1>1, ListsGrow, ElementsAre
<1> HIDE DEF a
<1>3. e \in Seq(FileSteps)
  BY <1>2, PartsAre, OfConcat, StepsAre DEF Credentials
<1> HIDE DEF e
<1>4. e \in Seq(HubSteps) /\ Of(e) \subseteq FileSteps
  BY <1>3, ListsGrow, ElementsAre
<1>5. k \in HubSteps /\ k # UpStep
  BY DEF HubSteps, UpStep
<1> HIDE DEF k
<1> DEFINE u == <<k>>
<1>6. u \in Seq(HubSteps) /\ Of(u) = {k}
  BY <1>5, OfShort
<1>7. todo = a \/ todo = e \o u
  BY DEF a, e, k
<1> HIDE DEF u
<1>8. e \o u \in Seq(HubSteps) /\ Of(e \o u) = Of(e) \cup {k}
  BY <1>4, <1>6, OfConcat
<1>9. UpStep \notin Of(a) /\ UpStep \notin Of(e \o u)
  BY <1>2, <1>4, <1>5, <1>8, StepsAre
<1> QED
  BY <1>2, <1>7, <1>8, <1>9 DEF a

\* One file operation touches one file, and fills it with a credential of run r.
LEMMA DoDoes ==
    ASSUME LocalTypes, NEW s \in FileSteps, NEW r \in Nat, Local!Do(s, r)
    PROVE  /\ file' \in [Local!File ->
                            [state : {"absent", "torn", "live", "expired"}, id : Nat, run : Nat]]
           /\ issued' \in Nat /\ shown' \in Nat
           /\ \A f \in Local!File : f # s.f => file'[f] = file[f]
           /\ s.do # "fill" => ~Local!Live(s.f)'
           /\ Local!Live(s.f)' => file'[s.f].run = r
           /\ s.f \in Local!File
<1>1. s.f \in Local!File /\ s.do \in {"clear", "truncate", "fill"}
  BY DEF FileSteps
<1>2. CASE s.do = "clear"
  <2>1. file' = [file EXCEPT ![s.f] = Local!Absent] /\ UNCHANGED <<issued, shown>>
    BY <1>2 DEF Local!Do
  <2> QED
    BY <1>1, <1>2, <2>1 DEF LocalTypes, Local!Absent, Local!Live
<1>3. CASE s.do = "truncate"
  <2> DEFINE torn == [state |-> "torn", id |-> 0, run |-> 0]
  <2>1. file' = [file EXCEPT ![s.f] = torn] /\ UNCHANGED <<issued, shown>>
    BY <1>3 DEF Local!Do, Local!Absent
  <2> QED
    BY <1>1, <1>3, <2>1 DEF LocalTypes, Local!Live
<1>4. CASE s.do = "fill"
  <2>1. /\ issued' = issued + 1 /\ issued' \in Nat
        /\ file' = IF file[s.f].state = "absent" THEN file
                   ELSE [file EXCEPT ![s.f] = [state |-> "live", id |-> issued', run |-> r]]
        /\ shown' = IF s.f = "code" THEN issued' ELSE shown
    BY <1>4 DEF Local!Do, LocalTypes
  <2> QED
    BY <1>1, <1>4, <2>1 DEF LocalTypes, Local!Live
<1> QED
  BY <1>1, <1>2, <1>3, <1>4

\* A command begins.
LEMMA BeginKeeps ==
    ASSUME LocalInv, NEW name \in {"login", "dashboard", "logout", "status"},
           NEW todo \in Seq(FileSteps), Local!Begin(name, todo),
           name \in {"login", "dashboard"} => out' = FALSE,
           name \in {"logout", "status"} => UNCHANGED out /\ Of(todo) \subseteq Clears,
           name = "logout" => \A f \in Credentials : Local!Clear(f) \in Of(todo)
    PROVE  LocalInv'
<1>1. /\ todo # <<>> /\ cli' = [for |-> name, run |-> run, todo |-> todo]
      /\ mixed' = (mixed \/ hub # <<>>)
      /\ UNCHANGED <<file, issued, run, up, hub, shown, cookie>>
  BY DEF Local!Begin
<1>2. /\ cli'.for = name /\ cli'.run = run /\ cli'.todo = todo
      /\ cli' = [for |-> cli'.for, run |-> cli'.run, todo |-> cli'.todo]
  BY <1>1
<1>3. out' \in BOOLEAN /\ mixed' \in BOOLEAN /\ (out' => out /\ name \in {"logout", "status"})
  <2>1. mixed' \in BOOLEAN
    BY <1>1
  <2>2. CASE name \in {"login", "dashboard"}
    BY <2>1, <2>2
  <2>3. CASE name \in {"logout", "status"}
    <3>1. out' = out /\ out \in BOOLEAN
      BY <2>3 DEF LocalInv, LocalTypes
    <3> QED
      BY <2>1, <2>3, <3>1
  <2> QED
    BY <2>2, <2>3
<1>4. LocalTypes'
  BY <1>1, <1>2, <1>3 DEF LocalInv, LocalTypes
<1>5. UpIsLast'
  BY <1>1 DEF LocalInv, UpIsLast
<1>6. Removing'
  BY <1>2, <1>3 DEF Removing
<1>7. ASSUME ~mixed' PROVE OneAtATime' /\ Starting' /\ Leaving' /\ OfThisRun'
  <2>1. ~mixed /\ hub = <<>> /\ hub' = hub
    BY <1>1, <1>7 DEF LocalInv, LocalTypes
  <2>2. OneAtATime'
    BY <1>2, <1>1, <2>1 DEF OneAtATime
  <2>3. Starting' /\ OfThisRun'
    BY <1>1, <2>1 DEF LocalInv, Starting, OfThisRun, Removes, Fills, Local!Live
  <2>4. name = "logout" => \A f \in Credentials : Removes(todo, f)
    BY StepsAre DEF Removes
  <2>5. Leaving'
    BY <1>1, <1>2, <1>3, <2>1, <2>4 DEF LocalInv, Leaving, Fills, Local!Live
  <2> QED
    BY <2>2, <2>3, <2>5
<1> QED
  BY <1>4, <1>5, <1>6, <1>7 DEF LocalInv

LEMMA CommandsBegin ==
    ASSUME LocalInv, Local!Login \/ Local!Dashboard \/ Local!Logout \/ Local!Status
    PROVE  LocalInv'
<1>1. CASE Local!Login
  <2> DEFINE q == Local!Quits
             o == Local!Create("operator")
             b == <<Local!Clear("bootstrap")>>
             r == Local!ClearBad({"operator", "bootstrap"})
             e == IF Local!Live("bootstrap") THEN b \o q \o o ELSE <<>>
             todo == IF Local!Live("operator") THEN q \o o ELSE r \o e
  <2>1. Local!Begin("login", todo) /\ out' = FALSE
    BY <1>1 DEF Local!Login
  <2>2. /\ q \in Seq(FileSteps) /\ o \in Seq(FileSteps) /\ b \in Seq(FileSteps)
        /\ r \in Seq(FileSteps)
    <3>1. {"operator", "bootstrap"} \subseteq Local!File
      BY DEF Local!File
    <3>2. r \in Seq(Clears)
      BY <3>1, ClearBadRemoves
    <3> QED
      BY <3>1, <3>2, PartsAre, ListsGrow
  <2> HIDE DEF q, o, b, r
  <2>3. todo \in Seq(FileSteps)
    <3>1. q \o o \in Seq(FileSteps)
      BY ONLY <2>2, OfConcat
    <3>2. b \o q \in Seq(FileSteps)
      BY ONLY <2>2, OfConcat
    <3>3. b \o q \o o \in Seq(FileSteps)
      BY ONLY <2>2, <3>2, OfConcat
    <3>4. e \in Seq(FileSteps)
      BY <3>3, EmptySeq
    <3> HIDE DEF e
    <3>5. r \o e \in Seq(FileSteps)
      BY ONLY <2>2, <3>4, OfConcat
    <3> QED
      BY <3>1, <3>5
  <2> HIDE DEF todo
  <2> QED
    BY <2>1, <2>3, BeginKeeps
<1>2. CASE Local!Dashboard
  <2> DEFINE q == Local!Quits
             c == Local!Create("code")
             r == Local!ClearBad({"operator"})
             todo == IF Local!Live("operator") THEN q \o c ELSE r
  <2>1. Local!Begin("dashboard", todo) /\ out' = FALSE
    BY <1>2 DEF Local!Dashboard
  <2>2. q \in Seq(FileSteps) /\ c \in Seq(FileSteps) /\ r \in Seq(FileSteps)
    <3>1. {"operator", "code"} \subseteq Local!File
      BY DEF Local!File
    <3>2. r \in Seq(Clears)
      BY <3>1, ClearBadRemoves
    <3> QED
      BY <3>1, <3>2, PartsAre, ListsGrow
  <2> HIDE DEF q, c, r
  <2>3. q \o c \in Seq(FileSteps)
    BY ONLY <2>2, OfConcat
  <2>4. todo \in Seq(FileSteps)
    BY <2>2, <2>3
  <2> HIDE DEF todo
  <2> QED
    BY <2>1, <2>4, BeginKeeps
<1>3. CASE Local!Logout
  <2>1. PICK todo : /\ Local!Begin("logout", todo) /\ UNCHANGED out
                    /\ todo = Local!ClearBad({"operator"}) \o Local!Quits
                                \o <<Local!Clear("operator")>>
    BY <1>3 DEF Local!Logout
  <2>2. /\ todo \in Seq(Clears) /\ todo \in Seq(FileSteps) /\ Of(todo) \subseteq Clears
        /\ \A f \in Credentials : Local!Clear(f) \in Of(todo)
    BY <2>1, LogoutIs, ListsGrow, ElementsAre
  <2> QED
    BY <2>1, <2>2, BeginKeeps
<1>4. CASE Local!Status
  <2>1. PICK todo : /\ Local!Begin("status", todo) /\ UNCHANGED out
                    /\ todo = Local!ClearBad(Local!File)
    BY <1>4 DEF Local!Status
  <2>2. todo \in Seq(FileSteps) /\ Of(todo) \subseteq Clears
    BY <2>1, ClearBadRemoves, ListsGrow
  <2> QED
    BY <2>1, <2>2, BeginKeeps
<1> QED
  BY <1>1, <1>2, <1>3, <1>4

\* A command goes on.
LEMMA CommandKeeps ==
    ASSUME LocalInv, Local!Command
    PROVE  LocalInv'
<1>0. PICK s, rest, r : s = Head(cli.todo) /\ rest = Tail(cli.todo) /\ r = cli.run
  OBVIOUS
<1>1. /\ cli.for # "none" /\ Local!Do(s, r) /\ cli.run = r
      /\ cli' = IF rest = <<>> THEN Local!NoCommand ELSE [cli EXCEPT !.todo = rest]
      /\ out' = IF rest = <<>> /\ cli.for = "logout" THEN TRUE ELSE out
      /\ UNCHANGED <<run, up, hub, cookie, mixed>>
  BY <1>0 DEF Local!Command
<1>2. /\ cli.for \in {"login", "dashboard", "logout", "status"}
      /\ cli.todo \in Seq(FileSteps) /\ cli.todo # <<>>
      /\ cli = [for |-> cli.for, run |-> cli.run, todo |-> cli.todo]
  BY <1>1 DEF LocalInv, LocalTypes, Local!NoCommand
<1>3. /\ s \in FileSteps /\ rest \in Seq(FileSteps) /\ Of(cli.todo) = {s} \cup Of(rest)
  BY <1>0, <1>2, OfTail
<1>4. \/ rest = <<>> /\ cli' = Local!NoCommand /\ cli'.for = "none"
      \/ /\ rest # <<>> /\ cli'.for = cli.for /\ cli'.run = cli.run /\ cli'.todo = rest
         /\ cli' = [for |-> cli'.for, run |-> cli'.run, todo |-> cli'.todo]
  BY <1>1, <1>2 DEF Local!NoCommand

<1>5. /\ file' \in [Local!File ->
                       [state : {"absent", "torn", "live", "expired"}, id : Nat, run : Nat]]
      /\ issued' \in Nat /\ shown' \in Nat /\ s.f \in Local!File
      /\ \A f \in Local!File : f # s.f => file'[f] = file[f]
      /\ s.do # "fill" => ~Local!Live(s.f)'
      /\ Local!Live(s.f)' => file'[s.f].run = r
  <2>1. r \in Nat /\ LocalTypes
    BY <1>1 DEF LocalInv, LocalTypes, Local!NoCommand
  <2> QED
    BY <1>1, <1>3, <2>1, DoDoes
<1>6. out' \in BOOLEAN /\ (out' => out \/ (rest = <<>> /\ cli.for = "logout"))
  BY <1>1 DEF LocalInv, LocalTypes
<1>7. LocalTypes'
  <2>1. \/ cli' = Local!NoCommand
        \/ /\ cli'.for \in {"login", "dashboard", "logout", "status"}
           /\ cli'.todo \in Seq(FileSteps) /\ cli'.todo # <<>> /\ cli'.run \in Nat
           /\ cli' = [for |-> cli'.for, run |-> cli'.run, todo |-> cli'.todo]
    <3>1. cli.run \in Nat
      BY <1>1 DEF LocalInv, LocalTypes, Local!NoCommand
    <3> QED
      BY <1>2, <1>3, <1>4, <3>1
  <2> QED
    BY <1>1, <1>5, <1>6, <2>1 DEF LocalInv, LocalTypes
<1>8. UpIsLast'
  BY <1>1 DEF LocalInv, UpIsLast
<1>9. cli.for \in {"logout", "status"} =>
         s \in Clears /\ s.do = "clear" /\ Of(rest) \subseteq Clears
  BY <1>3, StepsAre DEF LocalInv, Removing
<1>10. Removing'
  BY <1>4, <1>6, <1>9 DEF LocalInv, Removing
<1>11. ASSUME ~mixed' PROVE OneAtATime' /\ Starting' /\ Leaving' /\ OfThisRun'
  <2>1. ~mixed /\ hub = <<>> /\ hub' = <<>> /\ r = run /\ run' = run
    BY <1>1, <1>11 DEF LocalInv, OneAtATime
  <2>2. Of(hub') = {}
    BY <2>1, OfShort
  <2>3. OneAtATime'
    BY <1>1, <1>4, <2>1 DEF OneAtATime
  <2>4. Starting'
    BY <2>2 DEF Starting
  <2>5. \A f \in Local!File : ~Local!Live(f) /\ s.do # "fill" => ~Local!Live(f)'
    BY <1>5 DEF Local!Live
  <2>6. ASSUME cli.for = "logout", NEW f \in Credentials
        PROVE  Removes(rest, f) \/ ~Local!Live(f)'
    <3>1. Removes(cli.todo, f) \/ ~Local!Live(f)
      BY <2>1, <2>6 DEF LocalInv, Leaving
    <3>2. Removes(cli.todo, f) => Removes(rest, f) \/ s.f = f
      BY <1>3 DEF Removes
    <3> QED
      BY <1>5, <1>9, <2>5, <2>6, <3>1, <3>2, StepsAre
  <2>7. rest = <<>> => \A f \in Credentials : ~Removes(rest, f)
    BY OfShort DEF Removes
  <2>8. ASSUME out', NEW f \in Credentials PROVE ~Local!Live(f)'
    <3>1. CASE out
      <4>1. s.do # "fill" /\ ~Local!Live(f)
        BY <1>1, <1>9, <2>1, <2>8, <3>1 DEF LocalInv, Removing, Leaving
      <4> QED
        BY <2>5, <4>1, StepsAre
    <3>2. CASE rest = <<>> /\ cli.for = "logout"
      BY <2>6, <2>7, <3>2
    <3> QED
      BY <1>6, <2>8, <3>1, <3>2
  <2>9. Leaving'
    <3>1. cli'.for = "logout" => cli.for = "logout" /\ cli'.todo = rest
      BY <1>4
    <3>2. cli'.for = "logout" => \A f \in Credentials : Removes(cli'.todo, f) \/ ~Local!Live(f)'
      BY <2>6, <3>1
    <3>3. \A f \in Credentials : ~Fills(hub', f)
      BY <2>2 DEF Fills
    <3> QED
      BY <2>8, <3>2, <3>3 DEF Leaving, Removes, Fills
  <2>10. OfThisRun'
    <3> SUFFICES ASSUME up', NEW f \in Local!File, Local!Live(f)' PROVE file'[f].run = run'
      BY DEF OfThisRun
    <3>1. CASE f = s.f
      BY <1>5, <2>1, <3>1
    <3>2. CASE f # s.f
      BY <1>1, <1>5, <2>1, <3>2 DEF LocalInv, OfThisRun, Local!Live
    <3> QED
      BY <3>1, <3>2
  <2> QED
    BY <2>3, <2>4, <2>9, <2>10
<1> QED
  BY <1>7, <1>8, <1>10, <1>11 DEF LocalInv

\* The hub begins a request or its end, which starts nothing.
LEMMA RequestKeeps ==
    ASSUME LocalInv, NEW todo \in Seq(HubSteps), UpStep \notin Of(todo), hub = <<>>,
           Local!HubDoes(todo), up' \in BOOLEAN, up' => up, UNCHANGED run,
           ~mixed => \A f \in Credentials : Fills(todo, f) => ~out
    PROVE  LocalInv'
<1>1. /\ hub' = todo /\ mixed' = (mixed \/ cli.for # "none")
      /\ UNCHANGED <<file, issued, cli, shown, cookie, out, run>>
  BY DEF Local!HubDoes
<1>2. LocalTypes'
  <2>1. mixed' \in BOOLEAN
    BY <1>1
  <2> QED
    BY <1>1, <2>1 DEF LocalInv, LocalTypes
<1>3. UpIsLast'
  BY <1>1 DEF UpIsLast, Of
<1>4. Removing'
  BY <1>1 DEF LocalInv, Removing
<1>5. ASSUME ~mixed' PROVE OneAtATime' /\ Starting' /\ Leaving' /\ OfThisRun'
  <2>1. ~mixed /\ cli.for = "none" /\ cli' = cli
    BY <1>1, <1>5
  <2>2. OneAtATime' /\ Starting'
    BY <1>1, <2>1 DEF OneAtATime, Starting
  <2>3. Leaving'
    BY <1>1, <2>1 DEF LocalInv, Leaving, Fills, Local!Live
  <2>4. OfThisRun'
    BY <1>1, <2>1 DEF LocalInv, OfThisRun, Local!Live
  <2> QED
    BY <2>2, <2>3, <2>4
<1> QED
  BY <1>2, <1>3, <1>4, <1>5 DEF LocalInv

LEMMA StartKeeps ==
    ASSUME LocalInv, Local!Start
    PROVE  LocalInv'
<1>1. PICK todo : /\ Local!HubDoes(todo)
                  /\ todo = Local!Quits \o <<Local!Clear("operator")>>
                              \o Local!Create("bootstrap") \o <<UpStep>>
  BY DEF Local!Start, UpStep
<1>2. /\ todo \in Seq(HubSteps)
      /\ Of(todo) = {Local!Clear("code"), Local!Clear("dashboard"), Local!Clear("operator"),
                     [do |-> "truncate", f |-> "bootstrap"],
                     [do |-> "fill", f |-> "bootstrap"], UpStep}
      /\ \A i \in 1..Len(todo) : todo[i] = UpStep => i = Len(todo)
  BY <1>1, StartIs
<1>3. /\ ~up /\ up' = up /\ run' = run + 1 /\ hub' = todo
      /\ mixed' = (mixed \/ cli.for # "none")
      /\ UNCHANGED <<file, issued, cli, shown, cookie, out>>
  BY <1>1 DEF Local!Start, Local!HubDoes
<1>4. LocalTypes'
  <2>1. mixed' \in BOOLEAN /\ run' \in Nat
    BY <1>3 DEF LocalInv, LocalTypes
  <2> QED
    BY <1>2, <1>3, <2>1 DEF LocalInv, LocalTypes
<1>5. UpIsLast'
  BY <1>2, <1>3 DEF UpIsLast
<1>6. Removing'
  BY <1>3 DEF LocalInv, Removing
<1>7. /\ \A f \in Credentials : Removes(todo, f) /\ ~Fills(todo, f)
      /\ \E x \in Of(todo) : x.do = "truncate" /\ x.f = "bootstrap"
  <2>1. \A f \in Credentials : Removes(todo, f)
    BY <1>2 DEF Removes, Credentials, Local!Clear
  <2>2. \A x \in Of(todo) : x.do = "fill" => x.f = "bootstrap"
    BY <1>2 DEF Local!Clear, UpStep
  <2>3. [do |-> "truncate", f |-> "bootstrap"] \in Of(todo)
    BY <1>2
  <2> QED
    BY <2>1, <2>2, <2>3 DEF Fills, Credentials
<1>8. ASSUME ~mixed' PROVE OneAtATime' /\ Starting' /\ Leaving' /\ OfThisRun'
  <2>1. ~mixed /\ cli.for = "none" /\ cli' = cli
    BY <1>3, <1>8
  <2>2. OneAtATime' /\ OfThisRun'
    BY <1>3, <2>1 DEF OneAtATime, OfThisRun
  <2>3. Starting'
    BY <1>3, <1>7 DEF Starting, Removes, Fills
  <2>4. Leaving'
    BY <1>3, <1>7, <2>1 DEF LocalInv, Leaving, Fills, Local!Live
  <2> QED
    BY <2>2, <2>3, <2>4
<1> QED
  BY <1>4, <1>5, <1>6, <1>8 DEF LocalInv

\* The hub goes on.
LEMMA HubKeeps ==
    ASSUME LocalInv, Local!Hub
    PROVE  LocalInv'
<1>0. PICK s, rest, r : s = Head(hub) /\ rest = Tail(hub) /\ r = run
  OBVIOUS
<1>1. /\ hub # <<>> /\ hub' = rest /\ UNCHANGED <<run, cli, out, mixed>>
      /\ \/ s.do = "up" /\ up' = TRUE /\ UNCHANGED <<file, issued, shown, cookie>>
         \/ /\ s.do = "cookie" /\ cookie' = [cookie EXCEPT ![s.for] = issued]
            /\ UNCHANGED <<file, issued, shown, up>>
         \/ /\ s.do \notin {"up", "cookie"} /\ Local!Do(s, r) /\ UNCHANGED <<up, cookie>>
  BY <1>0 DEF Local!Hub
<1>2. /\ s \in HubSteps /\ rest \in Seq(HubSteps) /\ Of(hub) = {s} \cup Of(rest)
      /\ Len(hub) \in Nat /\ Len(rest) = Len(hub) - 1
      /\ s = hub[1] /\ \A i \in 1..Len(rest) : rest[i] = hub[i + 1]
  BY <1>0, <1>1, OfTail DEF LocalInv, LocalTypes
<1>3. s = UpStep => Of(rest) = {}
  <2> SUFFICES ASSUME s = UpStep PROVE Of(rest) = {}
    OBVIOUS
  <2>1. Len(hub) # 0
    BY <1>1, EmptySeq DEF LocalInv, LocalTypes
  <2>2. 1 = Len(hub)
    BY <1>2, <2>1 DEF LocalInv, UpIsLast
  <2>3. Len(rest) = 0
    <3>1. Len(rest) = Len(hub) - 1
      BY <1>2
    <3> QED
      BY ONLY <2>2, <3>1
  <2>4. rest = <<>>
    BY <1>2, <2>3, EmptySeq
  <2> QED
    BY <2>4, OfShort
<1>4. \/ s = UpStep /\ up' = TRUE /\ UNCHANGED <<file, issued, shown, cookie>>
      \/ /\ s.do = "cookie" /\ s.for \in Browsers /\ cookie' = [cookie EXCEPT ![s.for] = issued]
         /\ s # UpStep /\ UNCHANGED <<file, issued, shown, up>>
      \/ s \in FileSteps /\ s # UpStep /\ Local!Do(s, r) /\ UNCHANGED <<up, cookie>>
  BY <1>1, <1>2, StepsAre
<1>5. /\ file' \in [Local!File ->
                       [state : {"absent", "torn", "live", "expired"}, id : Nat, run : Nat]]
      /\ issued' \in Nat /\ shown' \in Nat /\ cookie' \in [Browsers -> Nat]
      /\ up' \in BOOLEAN
      /\ \A f \in Local!File : \/ file'[f] = file[f] /\ ~(s \in FileSteps /\ f = s.f)
                               \/ /\ s \in FileSteps /\ f = s.f
                                  /\ s.do # "fill" => ~Local!Live(f)'
                                  /\ Local!Live(f)' => file'[f].run = r
  <2>1. LocalTypes /\ r \in Nat
    BY <1>0 DEF LocalInv, LocalTypes
  <2>2. CASE s = UpStep /\ up' = TRUE /\ UNCHANGED <<file, issued, shown, cookie>>
    BY <2>1, <2>2, StepsAre DEF LocalTypes
  <2>3. CASE /\ s.do = "cookie" /\ s.for \in Browsers /\ cookie' = [cookie EXCEPT ![s.for] = issued]
             /\ UNCHANGED <<file, issued, shown, up>>
    BY <2>1, <2>3, StepsAre DEF LocalTypes
  <2>4. CASE s \in FileSteps /\ Local!Do(s, r) /\ UNCHANGED <<up, cookie>>
    <3>1. /\ file' \in [Local!File ->
                           [state : {"absent", "torn", "live", "expired"}, id : Nat, run : Nat]]
          /\ issued' \in Nat /\ shown' \in Nat
          /\ \A f \in Local!File : f # s.f => file'[f] = file[f]
          /\ s.do # "fill" => ~Local!Live(s.f)'
          /\ Local!Live(s.f)' => file'[s.f].run = r
          /\ s.f \in Local!File
      BY <2>1, <2>4, DoDoes
    <3> QED
      BY <2>1, <2>4, <3>1 DEF LocalTypes
  <2> QED
    BY <1>4, <2>2, <2>3, <2>4
<1>6. LocalTypes'
  BY <1>1, <1>2, <1>5 DEF LocalInv, LocalTypes
<1>7. UpIsLast'
  <2>1. ASSUME NEW i \in 1..Len(rest), rest[i] = UpStep PROVE i = Len(rest)
    <3>1. i + 1 \in 1..Len(hub) /\ hub[i + 1] = UpStep
      BY <1>2, <2>1
    <3>2. i + 1 = Len(hub)
      BY <3>1 DEF LocalInv, UpIsLast
    <3> QED
      BY <1>2, <3>2
  <2>2. ASSUME UpStep \in Of(rest) PROVE ~up'
    <3>1. ~up /\ s # UpStep
      BY <1>2, <1>3, <2>2 DEF LocalInv, UpIsLast
    <3> QED
      BY <1>4, <3>1
  <2> QED
    BY <1>1, <2>1, <2>2 DEF UpIsLast
<1>8. Removing'
  BY <1>1 DEF LocalInv, Removing
<1>9. \A f \in Local!File : /\ (Removes(hub, f) => \/ Removes(rest, f) 
                                                   \/ s.do = "clear" /\ s.f = f)
                            /\ (Fills(rest, f) => Fills(hub, f))
                            /\ (s.do = "fill" /\ s.f = f => Fills(hub, f))
  BY <1>2 DEF Removes, Fills
<1>10. \A f \in Local!File : ~Local!Live(f) /\ ~Fills(hub, f) => ~Local!Live(f)'
  <2> SUFFICES ASSUME NEW f \in Local!File, ~Local!Live(f), ~Fills(hub, f)
               PROVE  ~Local!Live(f)'
    OBVIOUS
  <2>1. CASE file'[f] = file[f]
    BY <2>1 DEF Local!Live
  <2>2. CASE f = s.f /\ (s.do # "fill" => ~Local!Live(f)')
    BY <1>9, <2>2
  <2> QED
    BY <1>5, <2>1, <2>2
<1>11. ASSUME ~mixed' PROVE OneAtATime' /\ Starting' /\ Leaving' /\ OfThisRun'
  <2>1. ~mixed /\ cli.for = "none" /\ cli' = cli /\ run' = r /\ run = r /\ out' = out
    BY <1>0, <1>1, <1>11 DEF LocalInv, OneAtATime
  <2>2. OneAtATime'
    BY <2>1 DEF OneAtATime
  <2>3. Starting'
    <3> SUFFICES ASSUME UpStep \in Of(rest)
                 PROVE  /\ \A f \in Credentials :
                              (Removes(rest, f) \/ ~Local!Live(f)') /\ ~Fills(rest, f)
                        /\ \/ \E x \in Of(rest) : x.do = "truncate" /\ x.f = "bootstrap"
                           \/ Local!Live("bootstrap")' => file'["bootstrap"].run = r
      BY <1>1, <2>1 DEF Starting, Removes, Fills
    <3>1. UpStep \in Of(hub) /\ s # UpStep
      BY <1>2, <1>3
    <3>2. /\ \A f \in Credentials : (Removes(hub, f) \/ ~Local!Live(f)) /\ ~Fills(hub, f)
          /\ \/ \E x \in Of(hub) : x.do = "truncate" /\ x.f = "bootstrap"
             \/ Local!Live("bootstrap") => file["bootstrap"].run = r
      BY <2>1, <3>1 DEF LocalInv, Starting
    <3>3. ASSUME NEW f \in Credentials
          PROVE  (Removes(rest, f) \/ ~Local!Live(f)') /\ ~Fills(rest, f)
      <4>1. f \in Local!File /\ ~Fills(hub, f) /\ ~Fills(rest, f)
        BY <1>9, <3>2, StepsAre
      <4>2. CASE ~Local!Live(f)
        BY <1>10, <4>1, <4>2
      <4>3. CASE s.do = "clear" /\ s.f = f
        <5>1. s \in FileSteps
          BY <1>2, <4>3, StepsAre
        <5> QED
          BY <1>5, <4>1, <4>3, <5>1
      <4> QED
        BY <1>9, <3>2, <4>1, <4>2, <4>3
    <3>4. "bootstrap" \in Local!File
      BY StepsAre
    <3>5. CASE s.do = "truncate" /\ s.f = "bootstrap"
      <4>1. s \in FileSteps
        BY <1>2, <3>5, StepsAre
      <4> QED
        BY <1>5, <3>3, <3>4, <3>5, <4>1
    <3>6. CASE \E x \in Of(rest) : x.do = "truncate" /\ x.f = "bootstrap"
      BY <3>3, <3>6
    <3>7. CASE Local!Live("bootstrap") => file["bootstrap"].run = r
      <4>1. Local!Live("bootstrap")' => file'["bootstrap"].run = r
        BY <1>5, <3>4, <3>7 DEF Local!Live
      <4> QED
        BY <3>3, <4>1
    <3> QED
      BY <1>2, <3>2, <3>5, <3>6, <3>7
  <2>4. Leaving'
    <3>1. cli'.for # "logout"
      BY <2>1
    <3>2. ASSUME out', NEW f \in Credentials PROVE ~Local!Live(f)' /\ ~Fills(hub', f)
      <4>1. f \in Local!File /\ ~Local!Live(f) /\ ~Fills(hub, f)
        BY <2>1, <3>2, StepsAre DEF LocalInv, Leaving
      <4>2. ~Fills(rest, f)
        BY <1>9, <4>1
      <4> QED
        BY <1>1, <1>10, <4>1, <4>2
    <3> QED
      BY <3>1, <3>2 DEF Leaving, Fills
  <2>5. OfThisRun'
    <3> SUFFICES ASSUME up', NEW f \in Local!File, Local!Live(f)' PROVE file'[f].run = r
      BY <2>1 DEF OfThisRun
    <3>1. CASE s # UpStep
      <4>1. up
        BY <1>4, <3>1
      <4>2. Local!Live(f) => file[f].run = r
        BY <2>1, <4>1 DEF LocalInv, OfThisRun
      <4> QED
        BY <1>5, <4>2 DEF Local!Live
    <3>2. CASE s = UpStep
      <4>1. Of(hub) = {UpStep} /\ UNCHANGED file
        BY <1>2, <1>3, <1>4, <3>2
      <4>2. /\ \A x \in Credentials : ~Removes(hub, x)
            /\ ~\E x \in Of(hub) : x.do = "truncate" /\ x.f = "bootstrap"
        BY <4>1, StepsAre DEF Removes
      <4>3. /\ \A x \in Credentials : ~Local!Live(x)
            /\ Local!Live("bootstrap") => file["bootstrap"].run = r
        BY <2>1, <4>1, <4>2 DEF LocalInv, Starting
      <4>4. Local!Live(f)
        BY <4>1 DEF Local!Live
      <4> QED
        BY <4>1, <4>3, <4>4, StepsAre
    <3> QED
      BY <3>1, <3>2
  <2> QED
    BY <2>2, <2>3, <2>4, <2>5
<1> QED
  BY <1>6, <1>7, <1>8, <1>11 DEF LocalInv

\* The hub's other steps, and a credential that expires.
LEMMA HubBegins ==
    ASSUME LocalInv,
           Local!Stop \/ \E b \in Browsers : Local!Exchange(b) \/ Local!Request(b)
    PROVE  LocalInv'
<1> DEFINE NoFill(todo) == \A f \in Credentials : Fills(todo, f) => ~out
<1>clears. ASSUME NEW todo \in Seq(Clears)
           PROVE  todo \in Seq(HubSteps) /\ UpStep \notin Of(todo) /\ NoFill(todo)
  <2>1. todo \in Seq(FileSteps) /\ Of(todo) \subseteq Clears
    BY ListsGrow, ElementsAre
  <2> QED
    BY <2>1, ListsGrow, StepsAre DEF Fills
<1>1. CASE Local!Stop
  <2> DEFINE q == Local!Quits
             c == <<Local!Clear("bootstrap"), Local!Clear("operator")>>
  <2>1. /\ up /\ hub = <<>> /\ Local!HubDoes(q \o c) /\ up' = FALSE /\ UNCHANGED run
    BY <1>1 DEF Local!Stop
  <2>2. q \in Seq(Clears) /\ c \in Seq(Clears)
    BY PartsAre, StepsAre DEF Credentials
  <2> HIDE DEF q, c
  <2>3. q \o c \in Seq(Clears)
    BY ONLY <2>2, OfConcat
  <2>4. PICK todo \in Seq(Clears) : Local!HubDoes(todo)
    BY <2>1, <2>3
  <2>5. todo \in Seq(HubSteps) /\ UpStep \notin Of(todo) /\ NoFill(todo)
    BY <1>clears
  <2> QED
    BY <2>1, <2>4, <2>5, RequestKeeps
<1>2. ASSUME NEW b \in Browsers, Local!Request(b) PROVE LocalInv'
  <2>1. PICK todo : /\ Local!HubDoes(todo) /\ todo = Local!ClearBad({"dashboard", "operator"})
                    /\ hub = <<>> /\ up' = up /\ UNCHANGED run
    BY <1>2 DEF Local!Request
  <2>2. todo \in Seq(Clears)
    BY <2>1, ClearBadRemoves DEF Local!File
  <2>3. todo \in Seq(HubSteps) /\ UpStep \notin Of(todo) /\ NoFill(todo)
    BY <1>clears, <2>2
  <2>4. up' \in BOOLEAN
    BY <2>1 DEF LocalInv, LocalTypes
  <2> QED
    BY <2>1, <2>3, <2>4, RequestKeeps
<1>3. ASSUME NEW b \in Browsers, Local!Exchange(b) PROVE LocalInv'
  <2>1. PICK read : read = IF cookie[b] = 0 THEN <<>> ELSE Local!ClearBad({"dashboard"})
    OBVIOUS
  <2>2. read \in Seq(Clears)
    <3>1. Local!ClearBad({"dashboard"}) \in Seq(Clears)
      BY ClearBadRemoves DEF Local!File
    <3> QED
      BY <2>1, <3>1, EmptySeq
  <2>3. PICK todo : /\ Local!HubDoes(todo) /\ hub = <<>> /\ up' = up /\ UNCHANGED run
                    /\ \/ /\ Local!Live("code")
                          /\ todo = read \o <<Local!Clear("code")>> \o Local!Create("dashboard")
                                \o <<[do |-> "cookie", f |-> "dashboard", for |-> b]>>
                       \/ todo = read \o <<Local!Clear("code")>>
    BY <1>3, <2>1 DEF Local!Exchange
  <2>4. /\ todo \in Seq(HubSteps) /\ UpStep \notin Of(todo)
        /\ todo = read \o <<Local!Clear("code")>> => Of(todo) \subseteq Clears
    BY <2>2, <2>3, ExchangeIs
  <2>5. up' \in BOOLEAN
    BY <2>3 DEF LocalInv, LocalTypes
  <2>6. ~mixed => NoFill(todo)
    <3> SUFFICES ASSUME ~mixed, NEW f \in Credentials, Fills(todo, f) PROVE ~out
      OBVIOUS
    <3>1. ~(Of(todo) \subseteq Clears)
      BY StepsAre DEF Fills
    <3>2. Local!Live("code")
      BY <2>3, <2>4, <3>1
    <3> QED
      BY <3>2 DEF LocalInv, Leaving, Credentials
  <2> QED
    BY <2>3, <2>4, <2>5, <2>6, RequestKeeps
<1> QED
  BY <1>1, <1>2, <1>3

LEMMA OthersKeepFiles ==
    ASSUME LocalInv,
           Local!Crash \/ (\E f \in Local!File : Local!Expire(f)) \/ UNCHANGED Local!vars
    PROVE  LocalInv'
<1>1. CASE Local!Crash
  <2>1. /\ up' = FALSE /\ hub' = <<>>
        /\ UNCHANGED <<file, issued, run, cli, shown, cookie, out, mixed>>
    BY <1>1 DEF Local!Crash
  <2>2. Of(hub') = {} /\ hub' \in Seq(HubSteps)
    BY <2>1, OfShort, EmptySeq
  <2>3. LocalTypes'
    BY <2>1, <2>2 DEF LocalInv, LocalTypes
  <2>4. UpIsLast' /\ Removing'
    BY <2>1, <2>2, EmptySeq DEF LocalInv, UpIsLast, Removing, Of
  <2>5. ASSUME ~mixed' PROVE OneAtATime' /\ Starting' /\ Leaving' /\ OfThisRun'
    <3>1. OneAtATime' /\ OfThisRun' /\ Starting'
      BY <2>1, <2>2, <2>5 DEF LocalInv, OneAtATime, OfThisRun, Starting
    <3>2. \A f : ~Fills(hub', f)
      BY <2>2 DEF Fills
    <3>3. Leaving'
      BY <2>1, <2>5, <3>2 DEF LocalInv, Leaving, Removes, Fills, Local!Live
    <3> QED
      BY <3>1, <3>3
  <2> QED
    BY <2>3, <2>4, <2>5 DEF LocalInv
<1>2. ASSUME NEW g \in Local!File, Local!Expire(g) PROVE LocalInv'
  <2>1. /\ file' = [file EXCEPT ![g].state = "expired"]
        /\ UNCHANGED <<issued, run, up, hub, cli, shown, cookie, out, mixed>>
    BY <1>2 DEF Local!Expire
  <2>2. /\ file' \in [Local!File ->
                         [state : {"absent", "torn", "live", "expired"}, id : Nat, run : Nat]]
        /\ \A f \in Local!File : /\ Local!Live(f)' => Local!Live(f)
                                 /\ file'[f].run = file[f].run
    BY <2>1 DEF LocalInv, LocalTypes, Local!Live
  <2>3. LocalTypes'
    BY <2>1, <2>2 DEF LocalInv, LocalTypes
  <2>4. UpIsLast' /\ Removing'
    BY <2>1 DEF LocalInv, UpIsLast, Removing
  <2>5. ASSUME ~mixed' PROVE OneAtATime' /\ Starting' /\ Leaving' /\ OfThisRun'
    <3>1. OneAtATime' /\ OfThisRun'
      BY <2>1, <2>2, <2>5 DEF LocalInv, OneAtATime, OfThisRun
    <3>2. Starting'
      BY <2>1, <2>2, <2>5, StepsAre DEF LocalInv, Starting, Removes, Fills
    <3>3. Leaving'
      BY <2>1, <2>2, <2>5, StepsAre DEF LocalInv, Leaving, Removes, Fills
    <3> QED
      BY <3>1, <3>2, <3>3
  <2> QED
    BY <2>3, <2>4, <2>5 DEF LocalInv
<1>3. CASE UNCHANGED Local!vars
  BY <1>3 DEF Local!vars, LocalInv, LocalTypes, UpIsLast, Removing, OneAtATime, Starting, Leaving,
              OfThisRun, Removes, Fills, Local!Live
<1> QED
  BY <1>1, <1>2, <1>3

LEMMA LocalInvariant == Local!Spec => []LocalInv
<1>1. Local!Init => LocalInv
  <2> SUFFICES ASSUME Local!Init PROVE LocalInv
    OBVIOUS
  <2>1. /\ file = [f \in Local!File |-> Local!Absent] /\ issued = 0 /\ run = 0 /\ up = FALSE
        /\ hub = <<>> /\ cli = Local!NoCommand /\ shown = 0 /\ cookie = [b \in Browsers |-> 0]
        /\ out = FALSE /\ mixed = FALSE
    BY DEF Local!Init
  <2>2. hub \in Seq(HubSteps) /\ Of(hub) = {} /\ cli.for = "none" /\ Len(hub) = 0
    BY <2>1, OfShort, EmptySeq DEF Local!NoCommand
  <2>3. LocalTypes
    BY <2>1, <2>2 DEF LocalTypes, Local!Absent
  <2> QED
    BY <2>1, <2>2, <2>3 DEF LocalInv, UpIsLast, Removing, OneAtATime, Starting, Leaving, OfThisRun
<1>2. LocalInv /\ [Local!Next]_(Local!vars) => LocalInv'
  BY CommandsBegin, CommandKeeps, StartKeeps, HubKeeps, HubBegins, OthersKeepFiles
     DEF Local!Next
<1> QED
  BY <1>1, <1>2, PTL DEF Local!Spec

\* Unless an osk command overlapped the hub's work on the files, no operator
\* session and no dashboard session outlives a logout, and a running hub
\* accepts only credentials issued since it started.
THEOREM LogoutEndsSessions == Local!Spec => []SessionsEnd
<1>1. LocalInv => SessionsEnd
  BY DEF LocalInv, Leaving, OfThisRun, SessionsEnd, Local!SessionsEnd, Credentials, Local!Admits
<1> QED
  BY <1>1, LocalInvariant, PTL

-----------------------------------------------------------------------------
\* What was proved of the parts holds wherever they run side by side.
THEOREM PartsHold ==
    AllSpec => /\ []EntriesAreServed /\ []ConnectedHasHandler /\ KickIsSticky
               /\ []RolesAgree /\ []SessionsEnd /\ []RotationLasts /\ []SessionLasts
               /\ []NewsReopens /\ []CorroborationTold
BY Composed, ServedEntries, NoGhostMembers, StickyKick, RolesAlwaysAgree, LogoutEndsSessions,
   RotationHolds, SessionsHold, NewsAlwaysReopens, CorroborationAlwaysTold, PTL
=============================================================================
