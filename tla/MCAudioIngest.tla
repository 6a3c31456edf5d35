---------------------------- MODULE MCAudioIngest ----------------------------
(* Instances of AudioIngest for TLC: a sensor's chunks outrank those of an   *)
(* observer.                                                                 *)
EXTENDS AudioIngest, TLC

CONSTANTS sensor, observer, a1, a2, b1

MCSender   == [c \in Chunks |-> IF c \in {a1, a2} THEN sensor ELSE observer]
MCPriority == [c \in Chunks |-> IF c \in {a1, a2} THEN 2 ELSE 1]

\* The handlers are alike, and so are the two chunks of the sensor.
Symmetry == Permutations(Handlers) \cup Permutations({a1, a2})
=============================================================================
