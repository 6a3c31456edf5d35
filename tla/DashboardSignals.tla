--------------------------- MODULE DashboardSignals ---------------------------
(***************************************************************************)
(* The coordinator dashboard's buffering signal (server.py).  Members say  *)
(* how much they hold back; every build of the dashboard state, one per    *)
(* poll of any open stream, samples their totals into one shared history   *)
(* and raises, keeps or drops one signal, which the operator acknowledges  *)
(* or snoozes.  A build reads the members, awaits the database and the     *)
(* coordinator, and only then appends its sample, so polls interleave and  *)
(* samples enter the history in the order the builds end.                  *)
(***************************************************************************)
EXTENDS Naturals, Sequences, FiniteSets, FiniteSetsExt

CONSTANTS
    Senders,     \* members that report their buffers
    Streams,     \* open dashboard streams
    MaxHeld,     \* bound: items a member holds
    MinItems,    \* dashboard_buffer_signal_min_items
    WarnItems, CritItems,       \* ..._warning_items, ..._critical_items
    WarnMembers, CritMembers,   \* ..._warning_members, ..._critical_members
    Sustained,   \* dashboard_buffer_signal_sustained_points
    MaxSignals   \* bound: identities of signals, then used again

SignalsAssumption ==
    /\ IsFiniteSet(Senders) /\ IsFiniteSet(Streams)
    /\ {MaxHeld, MinItems, WarnItems, CritItems, WarnMembers, CritMembers} \subseteq Nat
    /\ Sustained \in Nat \ {0} /\ MaxSignals \in Nat \ {0}

VARIABLES
    held,     \* held[m]: [all, sensor], Member.buffer_status
    poll,     \* poll[s]: what a build makes of the totals it read, or Idle
    points,   \* the end of dashboard_buffer_history: was MinItems reached
    signal,   \* dashboard_buffer_signals["member_buffer_sustained"]
    raised,   \* the identity last used
    chosen    \* history: the last signal acknowledged or snoozed, as it was

vars == <<held, poll, points, signal, raised, chosen>>

Idle == [busy |-> FALSE, enough |-> FALSE, severity |-> "none"]
NoSignal == [id |-> 0, severity |-> "none", status |-> "active", due |-> FALSE]
Raised == signal.id # 0

\* _buffer_signal_severity
Severity(items, sensor, members) ==
    IF items >= CritItems \/ members >= CritMembers \/ sensor >= WarnItems
       THEN "critical"
    ELSE IF items >= WarnItems \/ members >= WarnMembers \/ sensor >= MinItems
       THEN "warning" ELSE "advisory"

\* _member_summary and _build_buffer_history_point, and what the signal asks
\* of a point; below MinItems no signal asks for its severity.
Sample ==
    LET items == FoldSet(LAMBDA m, n : n + held[m].all, 0, Senders)
        sensor == FoldSet(LAMBDA m, n : n + held[m].sensor, 0, Senders)
        enough == items >= MinItems
    IN [busy |-> TRUE, enough |-> enough,
        severity |-> IF enough
                        THEN Severity(items, sensor, Cardinality({m \in Senders : held[m].all > 0}))
                        ELSE "none"]

Holds(ps) == Len(ps) = Sustained /\ \A i \in 1..Sustained : ps[i]

\* _build_buffer_signal: a signal of the same severity keeps its identity and
\* what the operator chose, until a snooze runs out.
Kept_SnoozeStays == signal      \* Mutant: a snooze never runs out.

Kept ==
    IF signal.due THEN [signal EXCEPT !.status = "active", !.due = FALSE] ELSE signal

\* Mutant: the signal keeps what the operator chose whatever its severity.
Signal_NoSignature(ps, latest) ==
    IF ~Holds(ps) THEN NoSignal
    ELSE IF Raised THEN [Kept EXCEPT !.severity = latest.severity]
    ELSE [id |-> (raised % MaxSignals) + 1, severity |-> latest.severity,
          status |-> "active", due |-> FALSE]

Signal(ps, latest) ==
    IF ~Holds(ps) THEN NoSignal
    ELSE IF Raised /\ signal.severity = latest.severity THEN Kept
    ELSE [id |-> (raised % MaxSignals) + 1, severity |-> latest.severity,
          status |-> "active", due |-> FALSE]

-----------------------------------------------------------------------------
Init ==
    /\ held = [m \in Senders |-> [all |-> 0, sensor |-> 0]]
    /\ poll = [s \in Streams |-> Idle]
    /\ points = <<>> /\ signal = NoSignal /\ raised = 0 /\ chosen = [id |-> 0, severity |-> "none"]

\* update_member_buffer_status, from a buffer_status message
Hold(m) ==
    /\ \E n \in 0..MaxHeld : \E k \in {0, n} :   \* an observer's items or a sensor's
          /\ held[m] # [all |-> n, sensor |-> k]
          /\ held' = [held EXCEPT ![m] = [all |-> n, sensor |-> k]]
    /\ UNCHANGED <<poll, points, signal, raised, chosen>>

Read(s) ==
    /\ ~poll[s].busy
    /\ poll' = [poll EXCEPT ![s] = Sample]
    /\ UNCHANGED <<held, points, signal, raised, chosen>>

\* The rest of the build runs without an await.
Build(s) ==
    LET all == Append(points, poll[s].enough)
        kept == IF Len(all) > Sustained THEN Tail(all) ELSE all
        new == Signal(kept, poll[s])
    IN /\ poll[s].busy
       /\ points' = kept
       /\ signal' = new
       /\ raised' = IF new.id \in {0, signal.id} THEN raised ELSE new.id
       /\ poll' = [poll EXCEPT ![s] = Idle]
       /\ UNCHANGED <<held, chosen>>

\* The operator's requests name the kind of signal, never its id; the store
\* is changed before their first await.
Choose(status) ==
    /\ Raised
    /\ signal' = [signal EXCEPT !.status = status, !.due = FALSE]
    /\ chosen' = [id |-> signal.id, severity |-> signal.severity]
    /\ UNCHANGED <<held, poll, points, raised>>

Acknowledge == signal.status # "acknowledged" /\ Choose("acknowledged")
Snooze == signal.status # "snoozed" /\ Choose("snoozed")

SnoozePasses ==
    /\ signal.status = "snoozed" /\ ~signal.due
    /\ signal' = [signal EXCEPT !.due = TRUE]
    /\ UNCHANGED <<held, poll, points, raised, chosen>>

Next ==
    \/ \E m \in Senders : Hold(m)
    \/ \E s \in Streams : Read(s) \/ Build(s)
    \/ Acknowledge \/ Snooze \/ SnoozePasses

\* A stream that stays open goes on polling, and time passes.
Fairness ==
    /\ \A s \in Streams : WF_vars(Read(s)) /\ WF_vars(Build(s))
    /\ WF_vars(SnoozePasses)

Spec == Init /\ [][Next]_vars /\ Fairness

-----------------------------------------------------------------------------
\* A signal is quiet only if the operator quieted that very signal at that
\* severity: worse buffering, or buffering that stopped and came back, asks
\* for attention again (the signature of _build_buffer_signal).
QuietWasChosen ==
    signal.status # "active" =>
        chosen = [id |-> signal.id, severity |-> signal.severity]

\* A snoozed signal does not stay snoozed: the stream's builds drop it, or
\* raise it again when the snooze has run out.
SnoozeEnds == signal.status = "snoozed" ~> signal.status # "snoozed"
=============================================================================
