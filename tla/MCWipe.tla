------------------------------- MODULE MCWipe -------------------------------
(* The wipe: its broadcast to the members, and the evidence it may destroy,  *)
(* each explored with the other at rest, and exports of that evidence while  *)
(* no wipe command runs.                                                     *)
EXTENDS MCHubBroadcast

CONSTANTS Files, Pids, NoPid, MaxExports    \* EvidenceVolume

VARIABLES backend, image, files, proc, state, export, out, exports, quiet, wipe, alone
VARIABLE part

Evidence == INSTANCE EvidenceVolume

ASSUME PartsAssumption == Evidence!EvidenceAssumption

evidenceVars ==
    <<backend, image, files, proc, state, export, out, exports, quiet, wipe, alone>>

WipeInit == BroadcastInit /\ Evidence!Init /\ part \in {"broadcast", "exports", "wipe"}

WipeNext ==
    \/ part = "broadcast" /\ BroadcastNext /\ UNCHANGED <<evidenceVars, part>>
    \/ /\ part # "broadcast" /\ UNCHANGED <<vars, broadcastVars, part>>
       /\ IF part = "exports" THEN UNCHANGED wipe ELSE UNCHANGED exports
       /\ Evidence!Next

WipeSpec == WipeInit /\ [][WipeNext]_<<vars, broadcastVars, evidenceVars, part>>

\* Nobody is kicked here, so the members are alike too.
WipeSymmetry == SocketSymmetry \cup Permutations(Members) \cup Permutations(Pids)

-----------------------------------------------------------------------------
\* Exports of evidence at rest verify: see EvidenceVolume.
QuietExportVerifies == Evidence!QuietExportVerifies

\* A wipe destroys the evidence last: see EvidenceVolume.
WipeDestroysLast == Evidence!WipeDestroysLast
=============================================================================
