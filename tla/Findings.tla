------------------------------- MODULE Findings -------------------------------
(***************************************************************************)
(* From observations to findings (synthesis.py, ollama_synthesis.py,       *)
(* intelligence_service.py, the synthesis_findings table).  A worker takes *)
(* an observation through synthesize(), which keeps the open incidents in  *)
(* memory, and then awaits the statements it decided on: the event, its    *)
(* alert, the broadcast, the upsert of the finding.  Between them other    *)
(* workers and the coordinator's requests run; a statement or the          *)
(* broadcast may fail, which ends the observation but not the incident; a  *)
(* crash loses the incidents and keeps the rows.                           *)
(*                                                                         *)
(* Rows share nothing, so one is followed: with the heuristics a row has   *)
(* one incident, with ollama every incident of the category writes it.     *)
(*                                                                         *)
(* A stamp stands for an observation: its created_at, its event's id and   *)
(* its alert's id.  Severities are EventSeverity.level, info = 0; a row's  *)
(* own severity and counts follow the incident and decide nothing here.    *)
(***************************************************************************)
EXTENDS Naturals, FiniteSets

CONSTANTS
    Workers,      \* the transcription and the vision worker, and the /ws
                  \* handlers, which carry the observations of locations
    Sources,      \* members that observations come from
    Keys,         \* deduplication keys of one category
    Severities,   \* severities observations are classified with
    MaxObs,       \* bound: observations
    MaxActs       \* bound: requests of the coordinator

FindingsAssumption ==
    /\ Keys # {} /\ Severities \subseteq 0..3
    /\ MaxObs \in Nat /\ MaxActs \in Nat

VARIABLES
    backend,    \* synthesis_backend: heuristic or ollama
    stamp,      \* observations so far
    call,       \* call[w]: the observation worker w carries
    incident,   \* incident[k]: the synthesizer's memory
    row,        \* the row of synthesis_findings
    events,     \* stamps with a row in events
    sent,       \* <<stamp, role>>: its alert was broadcast to the end, to role
    noting,     \* a note is inserted but not counted yet
    acts,       \* requests so far
    failed,     \* history: corroborations of which a statement failed
    top,        \* history: the latest observation the row was told of
    base        \* history: top when the finding was resolved

vars == <<backend, stamp, call, incident, row, events, sent,
          noting, acts, failed, top, base>>
memory == <<backend, stamp, incident>>
stored == <<events, sent>>
review == <<noting, acts>>

None == [at |-> "none"]
NoRow == [status |-> "absent", last |-> 0]
NoIncident == [members |-> {}, sev |-> 0, told |-> 0, due |-> FALSE]

\* The row's signature is the incident's dedupe key, or `ollama:<category>`.
Incidents == IF backend = "ollama" THEN Keys ELSE {CHOOSE k \in Keys : TRUE}

\* Least severity that raises an alert.
Threshold == IF backend = "ollama" THEN 2 ELSE 1
Escalated(s) == IF s < (IF backend = "ollama" THEN 3 ELSE 2) THEN s + 1 ELSE s
Worst(s, t) == IF s < t THEN t ELSE s

\* ALERT_THRESHOLDS: the roles that an alert of severity s is for.
Thresholds == [coordinator |-> 0, sensor |-> 1, observer |-> 3]
Audience(s) == {r \in DOMAIN Thresholds : s >= Thresholds[r]}

Init ==
    /\ backend \in {"heuristic", "ollama"}
    /\ stamp = 0 /\ call = [w \in Workers |-> None]
    /\ incident = [k \in Keys |-> NoIncident]
    /\ row = NoRow
    /\ events = {} /\ sent = {}
    /\ noting = FALSE /\ acts = 0
    /\ failed = {} /\ top = 0 /\ base = 0

-----------------------------------------------------------------------------
(* A worker's observation.                                                 *)

Observe(w, k, by, sev) ==
    /\ call[w] = None /\ stamp < MaxObs
    /\ stamp' = stamp + 1
    /\ call' = [call EXCEPT ![w] = [at |-> "synth", stamp |-> stamp', key |-> k,
                                    by |-> by, sev |-> sev]]
    /\ UNCHANGED <<backend, incident, row, stored, review, failed, top, base>>

\* The incident k once observation o joined it: `told` is the stamp of the
\* event that said it is corroborated.
Joined(inc, o) ==
    LET members == inc.members \cup {o.by}
        new == inc.members = {}
        corroborates == Cardinality(members) >= 2 /\ inc.told = 0 IN
    [members |-> members,
     sev |-> IF new THEN o.sev
             ELSE IF backend = "ollama" THEN inc.sev ELSE Worst(inc.sev, o.sev),
     told |-> IF corroborates THEN o.stamp ELSE inc.told,
     due |-> ~new /\ inc.due /\ ~corroborates /\ backend = "heuristic" /\ o.sev = 0]

\* Mutant: a corroboration speaks with the observation's own severity.
Worth_NotEscalated(inc, o) ==
    IF inc.members = {} \/ Joined(inc, o).told # inc.told \/ (inc.due /\ ~Joined(inc, o).due)
    THEN [at |-> "some", sev |-> o.sev] ELSE None

\* Severity of the event the observation is worth: a new incident, its
\* corroboration, or a reminder once the cooldown is over; None otherwise.
Worth(inc, o) ==
    LET then == Joined(inc, o)
        spoken == IF backend = "ollama" THEN o.sev ELSE then.sev IN
    IF inc.members = {} THEN [at |-> "some", sev |-> o.sev]
    ELSE IF then.told # inc.told THEN [at |-> "some", sev |-> Escalated(spoken)]
    ELSE IF inc.due /\ ~then.due THEN [at |-> "some", sev |-> spoken]
    ELSE None

Synthesize(w) ==
    LET o == call[w]
        inc == incident[o.key]
        then == Joined(inc, o)
        worth == Worth(inc, o) IN
    /\ o.at = "synth"
    /\ incident' = [incident EXCEPT ![o.key] = then]
    /\ call' = [call EXCEPT ![w] =
           [at |-> IF worth = None THEN "upsert" ELSE "event",
            stamp |-> o.stamp, key |-> o.key,
            alert |-> IF worth # None /\ worth.sev >= Threshold
                      THEN Audience(worth.sev) ELSE {}]]
    /\ UNCHANGED <<backend, stamp, row, stored, review, failed, top, base>>

\* _classify finds no category
Irrelevant(w) ==
    /\ call[w].at = "synth"
    /\ call' = [call EXCEPT ![w] = None]
    /\ UNCHANGED <<memory, row, stored, review, failed, top, base>>

Goes(w, at) == call' = [call EXCEPT ![w].at = at]

InsertEvent(w) ==
    /\ call[w].at = "event"
    /\ events' = events \cup {call[w].stamp}
    /\ Goes(w, IF call[w].alert # {} THEN "alert" ELSE "upsert")
    /\ UNCHANGED <<memory, row, sent, review, failed, top, base>>

InsertAlert(w) ==
    /\ call[w].at = "alert"
    /\ Goes(w, "broadcast")
    /\ UNCHANGED <<memory, row, stored, review, failed, top, base>>

\* broadcast_alert gets through the table of connections; who is reached on the
\* way is HubBroadcast's.
Broadcast(w) ==
    /\ call[w].at = "broadcast"
    /\ sent' = sent \cup ({call[w].stamp} \X call[w].alert)
    /\ Goes(w, "upsert")
    /\ UNCHANGED <<memory, row, events, review, failed, top, base>>

\* ON CONFLICT (operation_id, signature): what the incident says replaces what
\* the row said, but its status, notes and review stamps are the coordinator's.
Reopens(r, o) == r.status = "resolved" /\ o.stamp > r.last

\* Mutant: a resolved finding stays resolved.
Merged_StaysResolved(r, o) ==
    [r EXCEPT !.last = o.stamp]

Merged(r, o) ==
    [status |-> IF Reopens(r, o) THEN "open" ELSE r.status,
     last |-> o.stamp,
     ack |-> ~Reopens(r, o) /\ r.ack,
     notes |-> r.notes]

Upsert(w) ==
    LET o == call[w] IN
    /\ o.at = "upsert"
    /\ row' = IF row.status = "absent"
              THEN [status |-> "open", last |-> o.stamp, ack |-> FALSE, notes |-> 0]
              ELSE Merged(row, o)
    /\ top' = Worst(top, o.stamp)
    /\ call' = [call EXCEPT ![w] = None]
    /\ UNCHANGED <<memory, stored, review, failed, base>>

\* A statement fails, or the broadcast, whose table changes while it sends: the
\* worker counts an error and takes the next item.
Fail(w) ==
    /\ call[w].at \in {"synth", "event", "alert", "broadcast", "upsert"}
    /\ failed' = IF incident[call[w].key].told = call[w].stamp
                  THEN failed \cup {call[w].stamp} ELSE failed
    /\ call' = [call EXCEPT ![w] = None]
    /\ UNCHANGED <<memory, row, stored, review, top, base>>

-----------------------------------------------------------------------------
(* Time and restarts.                                                      *)

\* the cooldown since the incident's last event is over
Cool(k) ==
    /\ incident[k].members # {} /\ ~incident[k].due
    /\ incident' = [incident EXCEPT ![k].due = TRUE]
    /\ UNCHANGED <<backend, stamp, call, row, stored, review, failed, top, base>>

\* nothing joined it for the incident window
Forget(k) ==
    /\ incident[k].members # {}
    /\ incident' = [incident EXCEPT ![k] = NoIncident]
    /\ UNCHANGED <<backend, stamp, call, row, stored, review, failed, top, base>>

Crash ==
    /\ incident' = [k \in Keys |-> NoIncident]
    /\ call' = [w \in Workers |-> None] /\ noting' = FALSE
    /\ UNCHANGED <<backend, stamp, row, stored, acts, failed, top, base>>

-----------------------------------------------------------------------------
(* The coordinator's requests (/api/intelligence/findings/..., osk finding) *)

Statuses == {"open", "acknowledged", "resolved"}
Act == acts < MaxActs /\ acts' = acts + 1 /\ row.status # "absent"
Touched == UNCHANGED <<memory, call, stored, failed, top>>

SetStatus(status) ==
    /\ Act
    /\ row' = [row EXCEPT !.status = status,
                       !.ack = CASE status = "acknowledged" -> TRUE
                                 [] status = "open" -> FALSE
                                 [] OTHER -> @]
    /\ base' = IF status = "resolved" THEN top ELSE base
    /\ Touched /\ UNCHANGED noting

\* One severity up (the next upsert overwrites it), and open again if it was
\* resolved, still with the acknowledgement that a reopening clears.
Escalate ==
    /\ Act
    /\ row' = [row EXCEPT !.status = IF @ = "resolved" THEN "open" ELSE @]
    /\ Touched /\ UNCHANGED <<noting, base>>

\* The note and its count are two statements; bound: one request at a time.
AddNote ==
    /\ Act /\ ~noting
    /\ noting' = TRUE
    /\ Touched /\ UNCHANGED <<row, base>>

CountNote ==
    /\ noting
    /\ row' = [row EXCEPT !.notes = @ + 1]
    /\ noting' = FALSE
    /\ Touched /\ UNCHANGED <<acts, base>>

Next ==
    \/ \E w \in Workers :
         \/ \E k \in Incidents, m \in Sources, s \in Severities : Observe(w, k, m, s)
         \/ Synthesize(w) \/ Irrelevant(w) \/ InsertEvent(w) \/ InsertAlert(w)
         \/ Broadcast(w) \/ Upsert(w) \/ Fail(w)
    \/ \E k \in Incidents : Cool(k) \/ Forget(k)
    \/ \E status \in Statuses : SetStatus(status)
    \/ Escalate \/ AddNote \/ CountNote \/ Crash

Spec == Init /\ [][Next]_vars

-----------------------------------------------------------------------------
\* News reopens: as long as the finding is resolved, nothing has been recorded
\* in it that was seen after what it was resolved on.
NewsReopens == row.status = "resolved" => top <= base

\* A corroborated incident is told once and for all: its event is on record and,
\* with the heuristics, its alert has gone out to sensors and coordinators -- to
\* observers only if it is critical -- unless a statement or the broadcast failed
\* on the way, in which case nothing ever tells it again.
CorroborationTold ==
    \A k \in Keys :
      LET told == incident[k].told IN
      told # 0 /\ told \notin failed
               /\ (\A w \in Workers : call[w].at \in {"none", "synth"} \/ call[w].stamp # told) =>
        /\ told \in events
        /\ backend = "heuristic" => {told} \X {"coordinator", "sensor"} \subseteq sent
=============================================================================
