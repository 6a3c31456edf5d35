------------------------------- MODULE MCLive -------------------------------
(* What must happen in the end: notes are delivered, snoozed signals raised; *)
(* and the positions, whose samples run out.  The three share no state: each *)
(* is explored with the others at rest.                                      *)
EXTENDS MCReportDelivery

CONSTANTS Members, Places, Radius, Ttl, MinCluster, MaxSkew, MaxTime     \* Locations
CONSTANTS Senders, Streams, MaxHeld, MinItems, WarnItems, CritItems,
          WarnMembers, CritMembers, Sustained, MaxSignals         \* DashboardSignals

VARIABLES now, samples, reported, result
VARIABLES held, poll, points, signal, raised, chosen
VARIABLE part

Located == INSTANCE Locations
Signals == INSTANCE DashboardSignals

ASSUME PartsAssumption == Located!LocationsAssumption /\ Signals!SignalsAssumption

locationVars == <<now, samples, reported, result>>
signalVars == <<held, poll, points, signal, raised, chosen>>
all == <<vars, locationVars, signalVars, part>>

AllInit ==
    /\ Init /\ Located!Init /\ Signals!Init
    /\ part \in {"notes", "locations", "signals"}

AllNext ==
    /\ part' = part
    /\ \/ part = "notes" /\ Next /\ UNCHANGED <<locationVars, signalVars>>
       \/ part = "locations" /\ Located!Next /\ UNCHANGED <<vars, signalVars>>
       \/ part = "signals" /\ Signals!Next /\ UNCHANGED <<vars, locationVars>>

\* Fairness of ReportDelivery and DashboardSignals, each for the
\* part that moves.
OnNotes(A) == part = "notes" /\ A
OnSignals(A) == part = "signals" /\ A
AllFairness ==
    /\ WF_vars(OnNotes(/\ Outbox /\ requests' # requests
                       /\ wrote' = wrote /\ discarded' = discarded))
    /\ WF_vars(OnNotes(Hear)) /\ WF_vars(OnNotes(Closed))
    /\ WF_vars(OnNotes(\E s \in Sockets : Connect(s)))
    /\ \A s \in Sockets : WF_vars(OnNotes(Handler(s)))
    /\ \A s \in Streams :
          WF_signalVars(OnSignals(Signals!Read(s))) /\ WF_signalVars(OnSignals(Signals!Build(s)))
    /\ WF_signalVars(OnSignals(Signals!SnoozePasses))

AllSpec == AllInit /\ [][AllNext]_all /\ AllFairness

-----------------------------------------------------------------------------
\* A member's last sample is kept while it is recent: see Locations.
RecentIsKept == Located!RecentIsKept

\* Members who stand together are reported together: see Locations.
NeighboursAreSeen == Located!NeighboursAreSeen

\* A quiet signal was quieted by the operator: see DashboardSignals.
QuietWasChosen == Signals!QuietWasChosen

\* A snoozed signal is dropped or raised again: see DashboardSignals.
SnoozeEnds == Signals!SnoozeEnds
=============================================================================
