------------------------------ MODULE ReviewFeed ------------------------------
(***************************************************************************)
(* What an operator reviews (database.py's get_review_feed and the lists,  *)
(* the /api/intelligence and /api/events endpoints, osk review and         *)
(* osk findings): findings, events and situation reports of the operation, *)
(* newest first and cut to a limit.  A feed is three statements, one per   *)
(* table, each with twice the limit, merged after the last; the workers    *)
(* and the operators go on writing between them.  Requests write nothing,  *)
(* so one is followed.                                                     *)
(*                                                                         *)
(* A category stands for the filters on severity and on category, which    *)
(* act alike.  Rows of equal time come in any order.                       *)
(***************************************************************************)
EXTENDS Naturals, FiniteSets

CONSTANTS
    Findings, Events, Sitreps,   \* ids of the rows of the three tables
    Categories,
    Limits,       \* limits asked for, clamped already
    MaxLag,       \* how old an event is when it is stored
    MaxTime,      \* bound: the database's clock
    MaxWrites     \* bound: writes while a request is answered

FeedAssumption ==
    /\ Findings \cap Events = {} /\ (Findings \cup Events) \cap Sitreps = {}
    /\ IsFiniteSet(Findings) /\ IsFiniteSet(Events) /\ IsFiniteSet(Sitreps)
    /\ Limits \subseteq Nat \ {0} /\ MaxLag \in Nat /\ MaxTime \in Nat /\ MaxWrites \in Nat

VARIABLES
    time,       \* NOW() of the database
    row,        \* the three tables
    at,         \* where the request stands
    query,      \* what it asks for
    got,        \* rows read so far, as they were
    answer,
    writes,     \* writes since the request came
    old,        \* history: rows that matched then and are as they were
    rivals      \* history: rows that have matched since then

vars == <<time, row, at, query, got, answer, writes, old, rivals>>
history == <<writes, old, rivals>>

Ids == Findings \cup Events \cup Sitreps
Absent == [at |-> 0, seen |-> 0, cat |-> "none", status |-> "none"]
NoQuery == [of |-> {}, cat |-> "any", status |-> "any", limit |-> 1]

Init ==
    /\ time = 1
    /\ row = [i \in Ids |-> Absent]
    /\ at = "idle" /\ query = NoQuery
    /\ got = {} /\ answer = {}
    /\ writes = 0 /\ old = {} /\ rivals = {}

\* The conditions of the three statements: a status restricts findings only,
\* and with any filter there are no situation reports.
Matches(q, i, r) ==
    /\ r # Absent /\ i \in q.of
    /\ q.cat = "any" \/ r.cat = q.cat
    /\ (i \in Findings /\ q.status # "any") => r.status = q.status
    /\ i \in Sitreps => q.status = "any" /\ q.cat = "any"

\* S is ORDER BY key DESC LIMIT n of the set R.
IsNewest(S, R, key(_), n) ==
    /\ S \subseteq R
    /\ Cardinality(S) = IF Cardinality(R) < n THEN Cardinality(R) ELSE n
    /\ \A x \in S, y \in R \ S : key(x) >= key(y)

-----------------------------------------------------------------------------
(* The writers.                                                            *)

Write(i, r) ==
    /\ writes < MaxWrites
    /\ row' = [row EXCEPT ![i] = r]
    /\ old' = old \ {i}
    /\ rivals' = IF at # "idle" /\ Matches(query, i, r) THEN rivals \cup {i} ELSE rivals
    /\ writes' = IF at = "idle" THEN 0 ELSE writes + 1
    /\ UNCHANGED <<time, at, query, got, answer>>

\* insert_event; a manual report carries the hub's time of a moment ago.
InsertEvent(e, c, lag) ==
    /\ row[e] = Absent /\ lag < time
    /\ Write(e, [at |-> time - lag, seen |-> time - lag, cat |-> c, status |-> "none"])

InsertSitrep(s) ==
    /\ row[s] = Absent
    /\ Write(s, [at |-> time, seen |-> time, cat |-> "none", status |-> "none"])

\* upsert_synthesis_finding
UpsertFinding(f, c) ==
    /\ row[f] = Absent \/ row[f].cat = c
    /\ Write(f, [at |-> time, seen |-> time, cat |-> c,
                 status |-> IF row[f].status \in {"none", "resolved"} THEN "open"
                            ELSE row[f].status])

\* update_synthesis_finding_status: the row is as new as a new one, what was
\* seen of it is not.
SetStatus(f, st) ==
    /\ row[f] # Absent
    /\ Write(f, [row[f] EXCEPT !.status = st, !.at = time])

Clock == /\ time < MaxTime /\ time' = time + 1
         /\ UNCHANGED <<row, at, query, got, answer, history>>

-----------------------------------------------------------------------------
(* The readers.                                                            *)

Rows(S) == {[id |-> i, key |-> row[i].at] : i \in S}
Key(x) == x.key

\* A request with valid types arrives; without any it is for all of them.
Ask(types, cat, status, limit) ==
    /\ at = "idle"
    /\ query' = [of |-> UNION types, cat |-> cat, status |-> status, limit |-> limit]
    /\ at' = "findings"
    /\ old' = {i \in Ids : Matches(query', i, row[i])} /\ rivals' = old'
    /\ UNCHANGED <<time, row, got, answer, writes>>

\* per_type_limit
PerType(q) == 2 * q.limit

\* get_synthesis_findings, get_events, get_recent_sitreps
Fetched(q, R, S) ==
    IsNewest(S, Rows({i \in R : Matches(q, i, row[i])}), Key, PerType(q))

Read(from, R, to) ==
    /\ at = from /\ at' = to
    /\ \E S \in SUBSET Rows(R) : Fetched(query, R, S) /\ got' = got \cup S
    /\ UNCHANGED <<time, row, query, answer, history>>

\* Mutant: the tables follow one another, and are cut.
Merged_Unsorted(q, R, S) ==
    LET table(x) == IF x.id \in Findings THEN 2 ELSE IF x.id \in Events THEN 1 ELSE 0
    IN IsNewest(S, R, table, q.limit)

\* items.sort(...)[:limit]
Merged(q, R, S) == IsNewest(S, R, Key, q.limit)

\* The merge, after the last await.
Merge ==
    /\ at = "merge" /\ at' = "done"
    /\ \E S \in SUBSET got :
        /\ Merged(query, got, S)
        /\ answer' = {x.id : x \in S}
    /\ got' = {}
    /\ UNCHANGED <<time, row, query, history>>

\* GET /api/intelligence/findings, /api/events, /api/sitreps: one statement,
\* for which the feed's conditions, of one type, are the list's own.
List(R, cat, status, limit) ==
    /\ at = "idle" /\ at' = "done"
    /\ query' = [of |-> R, cat |-> cat, status |-> status, limit |-> limit]
    /\ old' = {i \in Ids : Matches(query', i, row[i])} /\ rivals' = old'
    /\ \E S \in SUBSET R :
        /\ IsNewest(Rows(S), Rows(old'), Key, limit)
        /\ answer' = S
    /\ UNCHANGED <<time, row, got, writes>>

\* osk findings: by last_seen_at.
ListRecent(limit) ==
    /\ at = "idle" /\ at' = "recent"
    /\ query' = [NoQuery EXCEPT !.of = Findings, !.limit = limit]
    /\ LET seen(i) == row[i].seen
       IN \E S \in SUBSET Findings :
            /\ IsNewest(S, {i \in Findings : row[i] # Absent}, seen, limit)
            /\ answer' = S
    /\ UNCHANGED <<time, row, got, history>>

\* The answer is sent, or a statement failed and the request with it.
Finish ==
    /\ at # "idle" /\ at' = "idle"
    /\ query' = NoQuery /\ got' = {} /\ answer' = {}
    /\ writes' = 0 /\ old' = {} /\ rivals' = {}
    /\ UNCHANGED <<time, row>>

Types == {Findings, Events, Sitreps}
\* Acknowledged is a status like any other here.
Statuses == {"open", "resolved"}

Writers ==
    \/ \E c \in Categories :
        \/ \E e \in Events, lag \in 0..MaxLag : InsertEvent(e, c, lag)
        \/ \E f \in Findings : UpsertFinding(f, c)
    \/ \E s \in Sitreps : InsertSitrep(s)
    \/ \E f \in Findings, st \in Statuses : SetStatus(f, st)

Requests ==
    \E c \in Categories \cup {"any"}, st \in Statuses \cup {"any"}, n \in Limits :
        \/ \E types \in SUBSET Types \ {{}} : Ask(types, c, st, n)
        \/ List(Findings, c, st, n)
        \/ List(Events, c, "any", n)
        \/ List(Sitreps, "any", "any", n)
        \/ ListRecent(n)

Next ==
    \/ Writers \/ Clock \/ Requests
    \/ Read("findings", Findings, "events")
    \/ Read("events", Events, "sitreps")
    \/ Read("sitreps", Sitreps, "merge")
    \/ Merge \/ Finish

Spec == Init /\ [][Next]_vars

-----------------------------------------------------------------------------
(* Properties.                                                             *)

\* However the three reads interleave with new rows and changes of status, an
\* item that matched when the request came and was not touched since is in the
\* answer, unless as many other items as the limit were there at some time that
\* are at least as new.
FeedShowsNewest ==
    at = "done" =>
        \A i \in old :
            \/ i \in answer
            \/ Cardinality({j \in rivals \ {i} : row[j].at >= row[i].at}) >= query.limit
=============================================================================
