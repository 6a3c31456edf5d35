--------------------------- MODULE CoordinatorRoute ---------------------------
(***************************************************************************)
(* The coordinator engine (coordinator_engine.py over the coordinator_*    *)
(* tables of db.py): a finding or a contradicting field report opens a     *)
(* gap "which exit is safe", refresh() asks one able sensor to look, and   *)
(* the sensor's next report completes the task, resolves the gap and       *)
(* emits, replaces or withdraws a route recommendation.                    *)
(*                                                                         *)
(* Findings, reports and the dashboard's refreshes run as tasks of one     *)
(* event loop and interleave at every awaited statement, so each statement *)
(* is a step here and what it read is kept in call[p].  The rows of a      *)
(* table are a sequence: a row's position is its id, and the latest open   *)
(* row is the one with the greatest id.                                    *)
(*                                                                         *)
(* asyncpg hands a jsonb column back as text unless a codec is registered, *)
(* and db.connect registers none: the row of a stored finding is then no   *)
(* valid SynthesisFinding, and the engine is never told.  The store the tests *)
(* use returns objects.  DetailsDecoded tells the two apart.               *)
(***************************************************************************)
EXTENDS Naturals, Sequences, FiniteSets

CONSTANTS
    Members,         \* members of the operation, sensors or not
    MaxCalls,        \* bound: engine calls in progress at once
    MaxEvents,       \* bound: findings, reports and changes of ability
    DetailsDecoded   \* BOOLEAN: jsonb columns come back as objects

ASSUME CoordinatorAssumption ==
    /\ IsFiniteSet(Members)
    /\ MaxCalls \in Nat \ {0} /\ MaxEvents \in Nat /\ DetailsDecoded \in BOOLEAN

VARIABLES
    able,        \* able[m]: _eligible_sensor_by_id(m) finds a member
    gaps,        \* coordinator_gaps: [open, route]
    tasks,       \* coordinator_tasks: [member, gap, route, status, said]
    recs,        \* coordinator_recommendations: [route, emitted, task]
    call,        \* call[p]: the engine call in slot p, what it has read
    events,      \* findings, reports and changes so far (bounded)
    overlapped,  \* history: two engine calls have been in progress at once
    asked        \* history: a finding has asked for coordination

vars == <<able, gaps, tasks, recs, call, events, overlapped, asked>>
rows == <<gaps, tasks, recs>>

Calls == 1..MaxCalls       \* slots for the calls in progress
None == "none"
Routes == {"north_exit", "east_exit"}
Alternate(route) == IF route = "north_exit" THEN "east_exit" ELSE None
Said == {"clear", "blocked", "unknown"}

Idle == [at |-> "idle", then |-> "idle", route |-> None, said |-> None,
         gap |-> 0, task |-> 0, rec |-> 0, member |-> None]

-----------------------------------------------------------------------------
(* The queries: the latest open row, 0 when there is none.                 *)

Latest(ids) == IF ids = {} THEN 0 ELSE CHOOSE i \in ids : \A j \in ids : j <= i

OpenGap == Latest({g \in DOMAIN gaps : gaps[g].open})
OpenTask == Latest({t \in DOMAIN tasks : tasks[t].status = "open"})
OpenTaskOf(m) == Latest({t \in DOMAIN tasks :
                            tasks[t].status = "open" /\ tasks[t].member = m})
ActiveRec == Latest({r \in DOMAIN recs : recs[r].emitted})

\* A blocked report or finding contradicts the route it names, or any route
\* when it names none.
Contradicts(hint, r) == r # 0 /\ hint \in {None, recs[r].route}

\* get_coordinator_state and _pick_best_sensor: the sort by GPS fix and
\* freshness picks some able member.
Able(except) == {m \in Members \ {except} : able[m]}

-----------------------------------------------------------------------------
Init ==
    /\ able \in [Members -> BOOLEAN]
    /\ gaps = <<>> /\ tasks = <<>> /\ recs = <<>>
    /\ call = [p \in Calls |-> Idle]
    /\ events = 0
    /\ overlapped = FALSE /\ asked = FALSE

\* A call takes the first free slot.
Enter(p, c) ==
    /\ call[p].at = "idle"
    /\ \A q \in 1..(p - 1) : call[q].at # "idle"
    /\ call' = [call EXCEPT ![p] = c]
    /\ overlapped' = (overlapped \/ \E q \in Calls : call[q].at # "idle")
    /\ UNCHANGED <<able, rows>>

Goes(p, c) ==
    call' = [call EXCEPT ![p] = c] /\ UNCHANGED <<able, events, overlapped, asked>>
End(p) == Goes(p, Idle)
At(p, step) == call[p].at = step

\* An exception and a return leave the rows alone alike.
Raise(p) == End(p) /\ UNCHANGED rows

\* A finding is stored and handed on: model_validate of the row, then
\* process_finding, for the three categories that need coordination, which has
\* read the active recommendation.
Finding(p, blocksRoute, hint) ==
    /\ events < MaxEvents /\ events' = events + 1
    /\ ~blocksRoute => hint # None           \* stands for north then
    /\ LET gap == [Idle EXCEPT !.at = "find_gap",
                               !.route = IF hint = None THEN "north_exit" ELSE hint]
       IN IF ~DetailsDecoded
             THEN UNCHANGED <<able, rows, call, overlapped>>
             ELSE Enter(p, IF blocksRoute /\ Contradicts(hint, ActiveRec)
                              THEN [gap EXCEPT !.at = "withdraw", !.then = "find_gap",
                                               !.rec = ActiveRec]
                              ELSE gap)
    /\ asked' = TRUE

\* process_member_report, which has read the member's open task.
Report(p, m, said, hint) ==
    /\ events < MaxEvents /\ events' = events + 1
    /\ said # "blocked" => hint = None      \* the hint is read only then
    /\ LET t == OpenTaskOf(m) IN
       Enter(p, IF t = 0
                   THEN [Idle EXCEPT !.at = "late", !.said = said, !.route = hint]
                   ELSE [Idle EXCEPT !.at = "complete", !.said = said, !.task = t,
                                     !.gap = tasks[t].gap, !.route = tasks[t].route])
    /\ UNCHANGED asked

\* A report of a member without a task counts only when it contradicts the
\* active route.
LateReport(p) ==
    /\ At(p, "late")
    /\ Goes(p, IF call[p].said = "blocked" /\ Contradicts(call[p].route, ActiveRec)
                  THEN [Idle EXCEPT !.at = "withdraw", !.then = "find_gap",
                                    !.rec = ActiveRec, !.route = "north_exit"]
                  ELSE Idle)
    /\ UNCHANGED rows

Withdraw(p) ==
    /\ At(p, "withdraw")
    /\ recs' = [recs EXCEPT ![call[p].rec].emitted = FALSE]
    /\ Goes(p, [call[p] EXCEPT !.at = call[p].then, !.then = "idle", !.rec = 0])
    /\ UNCHANGED <<gaps, tasks>>

\* upsert_open_coordinator_gap: SELECT, then UPDATE by id or INSERT.
FindGap(p) ==
    /\ At(p, "find_gap")
    /\ Goes(p, [call[p] EXCEPT !.at = "write_gap", !.gap = OpenGap])
    /\ UNCHANGED rows

WriteGap(p) ==
    /\ At(p, "write_gap")
    /\ IF call[p].gap = 0 /\ OpenGap # 0
          THEN Raise(p)                          \* idx_coordinator_gaps_open_kind
          ELSE /\ gaps' = IF call[p].gap # 0
                             THEN [gaps EXCEPT ![call[p].gap].route = call[p].route]
                             ELSE Append(gaps, [open |-> TRUE, route |-> call[p].route])
               /\ Goes(p, [Idle EXCEPT !.at = "read_gap"])
               /\ UNCHANGED <<tasks, recs>>

\* Mutant: the recommendation is emitted without resolving the gap.
Complete_Emits(p) ==
    /\ At(p, "complete")
    /\ tasks' = [tasks EXCEPT ![call[p].task].status = "completed",
                              ![call[p].task].said = call[p].said]
    /\ Goes(p, [call[p] EXCEPT !.at = "emit"])
    /\ UNCHANGED <<gaps, recs>>

\* The report of the assigned sensor.  The task is updated by id, whatever
\* its status has become.
Complete(p) ==
    /\ At(p, "complete")
    /\ tasks' = [tasks EXCEPT ![call[p].task].status = "completed",
                              ![call[p].task].said = call[p].said]
    /\ Goes(p, IF call[p].said = "unknown"
                  THEN [Idle EXCEPT !.at = "read_gap"]
                  ELSE [call[p] EXCEPT !.at = "resolve"])
    /\ UNCHANGED <<gaps, recs>>

Resolve(p) ==
    /\ At(p, "resolve")
    /\ gaps' = [gaps EXCEPT ![call[p].gap].open = FALSE]
    /\ Goes(p, [call[p] EXCEPT !.at = IF call[p].said = "clear" THEN "emit" ELSE "blocked"])
    /\ UNCHANGED <<tasks, recs>>

\* Mutant: the requested route itself is recommended.
Blocked_SameRoute(p) ==
    /\ At(p, "blocked")
    /\ Goes(p, [call[p] EXCEPT !.at = "emit"])
    /\ UNCHANGED rows

\* The requested route is blocked: withdraw it, then recommend the other
\* one, or open a gap again when there is no other.
Blocked(p) ==
    /\ At(p, "blocked")
    /\ LET other == Alternate(call[p].route)
           next == IF other = None THEN "find_gap" ELSE "emit"
           withdraws == ActiveRec # 0 /\ recs[ActiveRec].route = call[p].route
       IN Goes(p, [call[p] EXCEPT !.at = IF withdraws THEN "withdraw" ELSE next,
                                  !.then = IF withdraws THEN next ELSE "idle",
                                  !.rec = IF withdraws THEN ActiveRec ELSE 0,
                                  !.said = None, !.gap = 0,
                                  !.route = IF other = None THEN "north_exit" ELSE other])
    /\ UNCHANGED rows

\* _emit_recommendation
Emit(p) ==
    /\ At(p, "emit")
    /\ UNCHANGED rows
    /\ IF ActiveRec = 0 THEN Goes(p, [call[p] EXCEPT !.at = "insert_rec"])
       ELSE IF recs[ActiveRec].route = call[p].route THEN End(p)
       ELSE Goes(p, [call[p] EXCEPT !.at = "withdraw", !.then = "insert_rec",
                                    !.rec = ActiveRec])

InsertRec(p) ==
    /\ At(p, "insert_rec")
    /\ IF ActiveRec # 0
          THEN Raise(p)                  \* idx_coordinator_recommendations_active
          ELSE /\ recs' = Append(recs, [emitted |-> TRUE, route |-> call[p].route,
                                        task |-> call[p].task])
               /\ End(p)
               /\ UNCHANGED <<gaps, tasks>>

\* Mutant: the dashboard's refresh looks after tasks only.
Refresh_TasksOnly(p) ==
    /\ Enter(p, [Idle EXCEPT !.at = "read_task"])
    /\ UNCHANGED <<events, asked>>

\* refresh() reads gaps, then tasks.  A refresh of the dashboard starts here;
\* so do the ones at the end of findings and reports.
Refresh(p) ==
    /\ Enter(p, [Idle EXCEPT !.at = "read_task", !.gap = OpenGap])
    /\ UNCHANGED <<events, asked>>

ReadGap(p) ==
    /\ At(p, "read_gap")
    /\ Goes(p, [Idle EXCEPT !.at = "read_task", !.gap = OpenGap])
    /\ UNCHANGED rows

\* Keep an able assignee; cancel the task when nobody else is able; assign
\* the open gap when there is no task.  With a replacement the task is to be
\* superseded, and that UPDATE names the id of a row inserted only after it:
\* its foreign key always fails.
ReadTask(p) ==
    /\ At(p, "read_task")
    /\ UNCHANGED rows
    /\ LET t == OpenTask IN
       IF t # 0
          THEN IF able[tasks[t].member] \/ Able(tasks[t].member) # {}
                  THEN End(p)
                  ELSE Goes(p, [Idle EXCEPT !.at = "cancel", !.task = t])
          ELSE IF call[p].gap = 0 \/ Able(None) = {}
                  THEN End(p)
                  ELSE \E m \in Able(None) :
                         Goes(p, [call[p] EXCEPT !.at = "assign", !.member = m,
                                                 !.route = gaps[call[p].gap].route])

Cancel(p) ==
    /\ At(p, "cancel")
    /\ tasks' = [tasks EXCEPT ![call[p].task].status = "cancelled"]
    /\ End(p)
    /\ UNCHANGED <<gaps, recs>>

Assign(p) ==
    /\ At(p, "assign")
    /\ tasks' = Append(tasks, [member |-> call[p].member, gap |-> call[p].gap,
                               route |-> call[p].route, status |-> "open",
                               said |-> None])
    /\ End(p)
    /\ UNCHANGED <<gaps, recs>>

\* A member's role, status or last_seen_at changes.
Change(m) ==
    /\ events < MaxEvents /\ events' = events + 1
    /\ able' = [able EXCEPT ![m] = ~@]
    /\ UNCHANGED <<rows, call, overlapped, asked>>

Step(p) ==
    \/ LateReport(p) \/ Withdraw(p) \/ FindGap(p) \/ WriteGap(p)
    \/ Complete(p) \/ Resolve(p) \/ Blocked(p) \/ Emit(p) \/ InsertRec(p)
    \/ ReadGap(p) \/ ReadTask(p) \/ Cancel(p) \/ Assign(p)

Next ==
    \/ \E p \in Calls :
         \/ \E b \in BOOLEAN, h \in Routes \cup {None} : Finding(p, b, h)
         \/ \E m \in Members, s \in Said, h \in Routes \cup {None} : Report(p, m, s, h)
         \/ Refresh(p)
         \/ Step(p)
    \/ \E m \in Members : Change(m)

Spec == Init /\ [][Next]_vars

\* The event loop runs every call to its end, and an open dashboard keeps
\* refreshing (its stream does so at every round).
FairSpec == Spec /\ \A p \in Calls : WF_vars(Step(p)) /\ WF_vars(Refresh(p))

-----------------------------------------------------------------------------
\* However the calls interleave, a recommended route rests on a task that a
\* sensor has reported on and whose gap is resolved.
EmittedHasBasis ==
    \A r \in DOMAIN recs : recs[r].emitted =>
        LET t == tasks[recs[r].task] IN t.said # None /\ ~gaps[t.gap].open

\* As long as no two engine calls overlap, the books agree between calls:
\* one sensor at most is asked, about the gap that is open; the recommended
\* route is the one the sensor's word stands for; and a call that comes to its
\* refresh has left a gap open, so that no need for confirmation is dropped.
\* (Overlapping calls break each part: two refreshes assign two sensors, a
\* gap is updated after it was resolved.)
SerialBooks ==
    ~overlapped =>
        /\ \A p \in Calls : At(p, "read_gap") => OpenGap # 0
        /\ (\A p \in Calls : At(p, "idle")) =>
             /\ \A t, u \in DOMAIN tasks :
                   tasks[t].status = "open" /\ tasks[u].status = "open" => t = u
             /\ \A t \in DOMAIN tasks :
                   tasks[t].status = "open" => gaps[tasks[t].gap].open
             /\ \A r \in DOMAIN recs : recs[r].emitted =>
                   LET t == tasks[recs[r].task]
                   IN recs[r].route = IF t.said = "clear" THEN t.route
                                                          ELSE Alternate(t.route)

\* While a gap is open and some sensor is able, a task is open in the end:
\* the question is put to somebody.
GapIsAssigned ==
    <>[](OpenGap # 0 /\ Able(None) # {}) => <>[](OpenTask # 0)

\* README.md: "Gap tracking: opens coordinator gaps when route confirmation
\* needed".
FindingOpensGap == asked ~> gaps # <<>>
=============================================================================
