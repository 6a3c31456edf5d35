----------------------------- MODULE WipeFollowUp -----------------------------
(***************************************************************************)
(* Wipe follow-up: which members may have missed an emergency wipe, and    *)
(* what the operator has done about each.  The hub keeps no table for it.  *)
(* Verifying, reviewing and retiring an item are rows of the audit trail,  *)
(* and every view is computed from the members and the newest Window rows  *)
(* (server.py, wipe_readiness.py).  A cache of markers, per hub process,   *)
(* tells a member's handler that its activity reopens a verified item.     *)
(*                                                                         *)
(* Every reading of a clock gets a time of its own (now), as timestamps of *)
(* microseconds do; how long a member has been silent is age, which passes *)
(* through the heartbeat timeout (stale) and the six hours of              *)
(* HISTORICAL_DRIFT_SECONDS (historic).                                    *)
(*                                                                         *)
(* The details of a row name the member.  asyncpg returns a jsonb column as *)
(* text, the pool has no codec, and every reader skips a row whose details *)
(* are not a dict: nothing is ever read back (DetailsDecoded = FALSE), no  *)
(* verification closes an item, and a restart forgets all of them.  With   *)
(* DetailsDecoded = TRUE rows come back as the tests' database gives them. *)
(***************************************************************************)
EXTENDS Naturals, Sequences, SequencesExt, FiniteSetsExt

CONSTANTS
    Members,     \* members of the operation
    Handlers,    \* /ws handlers with a message or a resume under way
    Window,      \* MAX_AUDIT_LIMIT: the newest rows a view reads
    DetailsDecoded, \* the database decodes a jsonb column
    MaxTime,     \* bound: readings of the clock
    MaxRestarts  \* bound: restarts of the hub

ASSUME WipeAssumption ==
    /\ IsFiniteSet(Members) /\ IsFiniteSet(Handlers)
    /\ Window \in Nat \ {0} /\ DetailsDecoded \in BOOLEAN
    /\ MaxTime \in Nat /\ MaxRestarts \in Nat

VARIABLES
    now,        \* the clock
    status,     \* status[m]: connected, disconnected or kicked
    seen,       \* seen[m]: last_seen_at
    age,        \* age[m]: fresh, stale or historic silence since seen[m]
    trail,      \* audit_events: [act, member, at], oldest first
    markers,    \* app.state.wipe_follow_up_markers: [verified, reopened]
    handler,    \* handler[h]: the activity in progress
    request,    \* the operator's request in progress
    restarts,
    started,    \* history: the rows there were when the hub last restarted
    crossed     \* history: a request and an activity were under way together

vars == <<now, status, seen, age, trail, markers, handler, request, restarts, started, crossed>>
members == <<status, seen, age>>

Never == 0                                   \* no timestamp
None == "none"
Unknown == [known |-> FALSE, verified |-> Never, reopened |-> Never]
Marker(verified, reopened) ==
    [known |-> TRUE, verified |-> verified, reopened |-> reopened]
Operator == {"verified", "reviewed", "retired"}
Free == [at |-> "free"]
IsFree(x) == x.at = "free"

-----------------------------------------------------------------------------
(* The views *)

Newest(n, limit) == SubSeq(trail, IF n > limit THEN n - limit + 1 ELSE 1, n)

\* _wipe_follow_up_resolutions, _reviews, _retirements: the newest row of a
\* kind for the member, among those whose details are a dict.
Latest(rows, act, m) ==
    Max({Never} \cup {e.at : e \in {x \in Range(rows) :
            DetailsDecoded /\ x.act = act /\ x.member = m}})

AtRisk(m) == status[m] = "disconnected" \/ (status[m] = "connected" /\ age[m] # "fresh")
View(m) == [risk |-> AtRisk(m), seen |-> seen[m], historic |-> age[m] = "historic"]

\* summarize_wipe_readiness for one member
Item(rows, m, view) ==
    LET since(act) == Latest(rows, act, m) >= view.seen IN
    IF ~view.risk THEN "none"
    ELSE IF view.historic /\ since("retired") THEN "retired"
    ELSE IF since("verified") THEN "verified"
    ELSE IF ~view.historic THEN "unresolved"
    ELSE IF since("reviewed") THEN "reviewed" ELSE "drift"

InWindow(i) == Len(trail) - i < Window
Rows(m, act) == {i \in DOMAIN trail : trail[i].member = m /\ trail[i].act = act}
AllFree == IsFree(request) /\ \A h \in Handlers : IsFree(handler[h])

-----------------------------------------------------------------------------
Init ==
    /\ now = 1
    /\ status = [m \in Members |-> "connected"]
    /\ seen = [m \in Members |-> 1]
    /\ age = [m \in Members |-> "fresh"]
    /\ trail = <<>>
    /\ markers = [m \in Members |-> Unknown]
    /\ handler = [h \in Handlers |-> Free]
    /\ request = Free
    /\ restarts = 0
    /\ started = 0
    /\ crossed = FALSE

Tick == now < MaxTime /\ now' = now + 1
Record(act, m) == Tick /\ trail' = Append(trail, [act |-> act, member |-> m, at |-> now'])

\* The operator's three requests read the members, then the trail, refuse or
\* stamp the time, and insert the row.
Ask(kind, m) ==
    /\ IsFree(request)
    /\ request' = [at |-> "read", kind |-> kind, member |-> m, view |-> View(m)]
    /\ crossed' = (crossed \/ ~AllFree)
    /\ UNCHANGED <<now, members, trail, markers, handler, restarts, started>>

Verify(m) == Ask("verified", m)
Review(m) == Ask("reviewed", m)
Retire(m) == Ask("retired", m)

Allowed(kind, item) ==
    CASE kind = "verified" -> item \notin {"none", "retired"}
      [] kind = "reviewed" -> item = "drift"
      [] kind = "retired" -> item \in {"drift", "reviewed"}

Decide ==
    /\ request.at = "read"
    /\ LET rows == Newest(Len(trail), Window) IN
       IF Allowed(request.kind, Item(rows, request.member, request.view))
          THEN /\ Tick
               /\ request' = [at |-> "insert", kind |-> request.kind,
                              member |-> request.member, stamp |-> now']
          ELSE request' = Free /\ UNCHANGED now
    /\ UNCHANGED <<members, trail, markers, handler, restarts, started, crossed>>

Insert ==
    /\ request.at = "insert"
    /\ Record(request.kind, request.member)
    /\ request' = IF request.kind = "verified" THEN [request EXCEPT !.at = "mark"] ELSE Free
    /\ UNCHANGED <<members, markers, handler, restarts, started, crossed>>

\* Mutant: a marker there is left as it is.
Mark_IfUnknown ==
    /\ request.at = "mark"
    /\ markers' = [markers EXCEPT ![request.member] =
                      IF @.known THEN @ ELSE Marker(request.stamp, Never)]
    /\ request' = Free
    /\ UNCHANGED <<now, members, trail, handler, restarts, started, crossed>>

\* Only verifying sets the marker, after the insert, over whatever is there.
Mark ==
    /\ request.at = "mark"
    /\ markers' = [markers EXCEPT ![request.member] =
                      Marker(request.stamp, Never)]
    /\ request' = Free
    /\ UNCHANGED <<now, members, trail, handler, restarts, started, crossed>>

-----------------------------------------------------------------------------
\* A message or a resume: the member is seen, then
\* _maybe_record_wipe_follow_up_reopened runs.
Active(h, m) ==
    /\ IsFree(handler[h])
    /\ status[m] # "kicked"
    /\ Tick
    /\ status' = [status EXCEPT ![m] = "connected"]
    /\ seen' = [seen EXCEPT ![m] = now']
    /\ age' = [age EXCEPT ![m] = "fresh"]
    /\ handler' = [handler EXCEPT ![h] = [at |-> "marker", member |-> m]]
    /\ crossed' = (crossed \/ ~AllFree)
    /\ UNCHANGED <<trail, markers, request, restarts, started>>

Reopens(m, marker) ==
    /\ marker.verified # Never
    /\ seen[m] > marker.verified
    /\ ~(marker.reopened # Never /\ marker.reopened >= marker.verified)

\* With the marker known, go on to record the reopening or be done.
Judge(h, m, marker) ==
    handler' = [handler EXCEPT ![h] =
                   IF Reopens(m, marker)
                      THEN [at |-> "insert", member |-> m,
                            verified |-> marker.verified, seen |-> seen[m]]
                      ELSE Free]

ReadMarker(h) ==
    /\ handler[h].at = "marker"
    /\ LET m == handler[h].member IN
       IF markers[m].known
          THEN Judge(h, m, markers[m])
          ELSE handler' = [handler EXCEPT ![h] =
                              [at |-> "merge", member |-> m, rows |-> Len(trail)]]
    /\ UNCHANGED <<now, members, trail, markers, request, restarts, started, crossed>>

\* _merge_wipe_follow_up_markers: the rows read fill the cache, for every
\* member they name, with the newer of what it has and what they say.
Merged(rows) ==
    [m \in Members |->
        LET new == Marker(Max({markers[m].verified, Latest(rows, "verified", m)}),
                          Max({markers[m].reopened, Latest(rows, "reopened", m)}))
        IN IF new = Marker(Never, Never) THEN markers[m] ELSE new]

Merge(h) ==
    /\ handler[h].at = "merge"
    /\ LET m == handler[h].member
           merged == Merged(Newest(handler[h].rows, Window))
       IN /\ markers' = merged
          /\ Judge(h, m, merged[m])
    /\ UNCHANGED <<now, members, trail, request, restarts, started, crossed>>

RecordReopened(h) ==
    /\ handler[h].at = "insert"
    /\ Record("reopened", handler[h].member)
    /\ handler' = [handler EXCEPT ![h].at = "mark"]
    /\ UNCHANGED <<members, markers, request, restarts, started, crossed>>

\* Mutant: the reopening is not noted in the marker.
MarkReopened_Stale(h) ==
    /\ handler[h].at = "mark"
    /\ markers' = [markers EXCEPT ![handler[h].member] = Marker(handler[h].verified, Never)]
    /\ handler' = [handler EXCEPT ![h] = Free]
    /\ UNCHANGED <<now, members, trail, request, restarts, started, crossed>>

\* The marker is written with what was read before the insert.
MarkReopened(h) ==
    /\ handler[h].at = "mark"
    /\ markers' = [markers EXCEPT ![handler[h].member] =
                      Marker(handler[h].verified, handler[h].seen)]
    /\ handler' = [handler EXCEPT ![h] = Free]
    /\ UNCHANGED <<now, members, trail, request, restarts, started, crossed>>

-----------------------------------------------------------------------------
Disconnect(m) ==
    /\ status[m] = "connected"
    /\ status' = [status EXCEPT ![m] = "disconnected"]
    /\ UNCHANGED <<now, seen, age, trail, markers, handler, request, restarts, started, crossed>>

Kick(m) ==
    /\ status[m] # "kicked"
    /\ status' = [status EXCEPT ![m] = "kicked"]
    /\ UNCHANGED <<now, seen, age, trail, markers, handler, request, restarts, started, crossed>>

Age(m) ==
    /\ age[m] # "historic"
    /\ age' = [age EXCEPT ![m] = IF @ = "fresh" THEN "stale" ELSE "historic"]
    /\ UNCHANGED <<now, status, seen, trail, markers, handler, request, restarts, started, crossed>>

\* Any other row of the audit trail takes a place in the window.
Other ==
    /\ Record("other", None)
    /\ UNCHANGED <<members, markers, handler, request, restarts, started, crossed>>

Restart ==
    /\ restarts < MaxRestarts
    /\ restarts' = restarts + 1
    /\ started' = Len(trail)
    /\ status' = [m \in Members |-> IF status[m] = "connected" THEN "disconnected"
                                                               ELSE status[m]]
    /\ markers' = [m \in Members |-> Unknown]
    /\ handler' = [h \in Handlers |-> Free]
    /\ request' = Free
    /\ UNCHANGED <<now, seen, age, trail, crossed>>

Handle(h) == ReadMarker(h) \/ Merge(h) \/ RecordReopened(h) \/ MarkReopened(h)

Next ==
    \/ \E m \in Members : Verify(m) \/ Review(m) \/ Retire(m)
    \/ Decide \/ Insert \/ Mark
    \/ \E h \in Handlers : (\E m \in Members : Active(h, m)) \/ Handle(h)
    \/ \E m \in Members : Disconnect(m) \/ Kick(m) \/ Age(m)
    \/ Other \/ Restart

Spec == Init /\ [][Next]_vars

-----------------------------------------------------------------------------
\* Between two verifications of a member its reopening is recorded once, over
\* restarts that lose the markers and over rows that leave the window
\* (_maybe_record_wipe_follow_up_reopened), as long as the operator's request
\* and the member's handler do not overlap: the request writes its marker
\* after the insert, over whatever the handler wrote in between.
ReopenedOnce ==
    ~crossed => \A m \in Members : \A i, j \in Rows(m, "reopened") :
        i < j => \E k \in Rows(m, "verified") : i < k /\ k < j

\* A verification that activity is held against: of this hub, or read back.
Due(v) == v > started \/ (DetailsDecoded /\ InWindow(v))

\* When nothing is under way, a connected member active since it was verified
\* by this hub has its reopening on record, however many rows came since.  Of
\* a verification before the last restart that is promised only if rows are
\* decoded, and while it is in the window: as the pool is, a restart forgets
\* the verification, and the activity after it leaves no row.
ReopenTold ==
    AllFree /\ ~crossed => \A m \in Members :
        \A v \in Rows(m, "verified") :
            status[m] = "connected" /\ Due(v) /\ seen[m] > trail[v].at
                => \E r \in Rows(m, "reopened") : r > v

=============================================================================
