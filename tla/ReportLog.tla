------------------------------ MODULE ReportLog ------------------------------
(***************************************************************************)
(* What the delivery of manual reports promises a member: a note that the  *)
(* member's browser has kept is recorded by the hub as one event, once for *)
(* as long as the hub remembers it, and is not lost on the way, unless the *)
(* member discards it or the session it was written in ends.               *)
(***************************************************************************)
EXTENDS Naturals

CONSTANT Reports  \* the notes a member ever writes

VARIABLES
  fate,   \* what became of each of them
  times,  \* how often each was recorded
  ended   \* those whose session has ended

vars == <<fate, times, ended>>

Init ==
  /\ fate = [r \in Reports |-> "unwritten"]
  /\ times = [r \in Reports |-> 0]
  /\ ended = {}

\* Note r goes from one of the first fates to the second.
Goes(r, from, to) ==
  /\ fate[r] \in from
  /\ fate' = [fate EXCEPT ![r] = to]
  /\ UNCHANGED ended

Keep(r)    == Goes(r, {"unwritten"}, "kept") /\ UNCHANGED times
Discard(r) == Goes(r, {"kept"}, "discarded") /\ UNCHANGED times

\* Also of a note discarded or lost while it was on its way; and a second time
\* only when the hub has forgotten the first.
Record(r) ==
  /\ Goes(r, {"kept", "discarded", "lost", "forgotten"}, "recorded")
  /\ times' = [times EXCEPT ![r] = @ + 1]

Forget(r) == Goes(r, {"recorded"}, "forgotten") /\ UNCHANGED times

EndSession ==
  /\ ended' \in SUBSET Reports /\ ended \subseteq ended'
  /\ UNCHANGED <<fate, times>>

\* What is still kept of ended sessions is lost; a transmission that is under
\* way may put a note back.
Lose(R) ==
  /\ \A r \in R : fate[r] = "kept"
  /\ fate' = [r \in Reports |-> IF r \in R THEN "lost" ELSE fate[r]]
  /\ UNCHANGED <<times, ended>>

PutBack(r) == r \in ended /\ Goes(r, {"lost"}, "kept") /\ UNCHANGED times

Next ==
  \/ \E r \in Reports : Keep(r) \/ Discard(r) \/ Record(r) \/ Forget(r) \/ PutBack(r)
  \/ EndSession
  \/ \E R \in SUBSET ended : Lose(R)

Spec == Init /\ [][Next]_vars
=============================================================================
