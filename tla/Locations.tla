------------------------------- MODULE Locations -------------------------------
(***************************************************************************)
(* Positions of members (server.py, intelligence_service.py): a gps        *)
(* message is recorded, becomes a location sample and is compared with the *)
(* latest samples of the others; members near one another are a cluster,   *)
(* an observation that goes the way Findings describes.                    *)
(*                                                                         *)
(* A sample has the time its message names, by the sender's clock, or else *)
(* the hub's (the member page names none).  Samples are dropped by the     *)
(* time of whichever sample comes in, so a fast clock ages everybody.      *)
(* Building the sample, comparing it and the result are one step.          *)
(***************************************************************************)
EXTENDS Integers, FiniteSets

CONSTANTS
    Members,
    Places,       \* positions along a street, in meters
    Radius,       \* location_cluster_radius_m
    Ttl,          \* location_sample_ttl_seconds
    MinCluster,   \* location_cluster_min_size
    MaxSkew,      \* how far a sender's clock is ahead
    MaxTime       \* bound: seconds

LocationsAssumption ==
    /\ IsFiniteSet(Members)
    /\ Places \subseteq Nat /\ Radius \in Nat /\ Ttl \in Nat /\ MinCluster \in Nat
    /\ MaxSkew \in Nat /\ MaxTime \in Nat

VARIABLES
    now,
    samples,    \* _recent_location_samples
    reported,   \* history: the last sample of each member, dropped or not
    result      \* the LocationResult of this step: whom it names

vars == <<now, samples, reported, result>>

None == [at |-> -1, place |-> 0]
NoResult == [of |-> "none", near |-> {}]

Init ==
    /\ now = 0
    /\ samples = [m \in Members |-> None] /\ reported = [m \in Members |-> None]
    /\ result = NoResult

Apart(i, j) == IF i < j THEN j - i ELSE i - j

\* Mutant: a sample of exactly that age is dropped.
Pruned_Strict(ss, at) == [m \in Members |-> IF ss[m].at <= at - Ttl THEN None ELSE ss[m]]

\* _prune_location_samples
Pruned(ss, at) == [m \in Members |-> IF ss[m].at < at - Ttl THEN None ELSE ss[m]]

\* Mutant: a sample of exactly that age no longer counts.
Nearby_Strict(ss, m) ==
    {n \in Members \ {m} :
        /\ ss[n] # None
        /\ Apart(ss[m].at, ss[n].at) < Ttl
        /\ Apart(ss[m].place, ss[n].place) <= Radius}

\* _nearby_location_samples, and the distances of analyze
Nearby(ss, m) ==
    {n \in Members \ {m} :
        /\ ss[n] # None
        /\ Apart(ss[m].at, ss[n].at) <= Ttl
        /\ Apart(ss[m].place, ss[n].place) <= Radius}

\* submit_location, for a message that may have been on its way for long.  A
\* sample that is late by its own time replaces a newer one all the same.
Submit(m, p, t) ==
    LET s == [at |-> t, place |-> p]
        kept == Pruned([samples EXCEPT ![m] = s], t)
        near == Nearby(kept, m)
    IN /\ samples' = kept
       /\ reported' = [reported EXCEPT ![m] = s]
       /\ result' = IF 1 + Cardinality(near) < MinCluster THEN NoResult
                    ELSE [of |-> m, near |-> near]
       /\ UNCHANGED now

Tick ==
    /\ now < MaxTime /\ now' = now + 1
    /\ result' = NoResult
    /\ UNCHANGED <<samples, reported>>

\* The hub is started again.
Restart ==
    /\ samples' = [m \in Members |-> None] /\ reported' = [m \in Members |-> None]
    /\ result' = NoResult
    /\ UNCHANGED now

Next ==
    \/ \E m \in Members, p \in Places, t \in 0..(now + MaxSkew) : Submit(m, p, t)
    \/ Tick \/ Restart

Spec == Init /\ [][Next]_vars

-----------------------------------------------------------------------------
\* Whatever order the messages came in and however far ahead a clock is (by
\* no more than MaxSkew), a member's last sample is kept while it is recent.
Recent(m) == reported[m] # None /\ reported[m].at + Ttl >= now + MaxSkew
RecentIsKept == \A m \in Members : Recent(m) => samples[m] = reported[m]

\* Members who stand together are reported together, whoever's message is
\* served last: where enough of them are near by their last, recent samples of
\* about the same time, the result names them all.
Together(m, n) ==
    /\ n # m /\ Recent(n)
    /\ Apart(reported'[m].at, reported[n].at) <= Ttl
    /\ Apart(reported'[m].place, reported[n].place) <= Radius
NeighboursAreSeen ==
    [][\A m \in Members :
         LET us == {n \in Members : Together(m, n)} IN
         reported'[m] # reported[m] /\ reported'[m] # None /\ 1 + Cardinality(us) >= MinCluster
            => result'.of = m /\ us \subseteq result'.near]_vars
=============================================================================
