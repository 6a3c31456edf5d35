---------------------------- MODULE EvidenceVolume ----------------------------
(***************************************************************************)
(* The preserved evidence: the volume that a hub opens and writes into     *)
(* (storage.py), `osk evidence unlock/export/verify/destroy` (evidence.py) *)
(* and `osk wipe --destroy-evidence` (hub.py), each a process of its own.  *)
(* How a hub starts and stops in detail is HubLifecycle.                   *)
(*                                                                         *)
(* An export reads the volume three times, for the sizes, the digests and  *)
(* the archive, and then writes the two sidecar files.  A digest is the    *)
(* value it is taken of.                                                   *)
(***************************************************************************)
EXTENDS Naturals

CONSTANTS
    Files,        \* files of the evidence store
    Pids, NoPid,  \* hub processes, and none
    MaxExports    \* bound: exports

EvidenceAssumption == MaxExports \in Nat /\ NoPid \notin Pids

VARIABLES
    backend,    \* luks or directory
    image,      \* absent, shut, mapped but not mounted, open (a hub's), ro (unlocked)
    files,      \* files[f]: absent, half written or whole
    proc,       \* proc[p]: a hub that is starting, up, ending, or none
    state,      \* the process that hub-state.json names
    export,     \* the export under way
    out,        \* its three files at the output path
    exports,    \* exports so far
    quiet,      \* history: no file changed since the export listed them
    wipe,       \* the wipe command under way
    alone       \* history: no other command or hub came between its stages

hubVars == <<proc, state>>
exporting == <<export, out, exports>>
wiping == <<wipe, alone>>
vars == <<backend, image, files, hubVars, exporting, quiet, wiping>>

None == [no |-> 0]
Idle == [at |-> "idle"]
Done == [at |-> "done"]
NoFiles == [f \in Files |-> "absent"]
Present == {f \in Files : files[f] # "absent"}
Visible == image \in {"open", "ro"}
Dead(p) == proc[p] = "none"
Running == state # NoPid /\ ~Dead(state)

Init ==
    /\ backend \in {"luks", "directory"} /\ image = "absent" /\ files = NoFiles
    /\ proc = [p \in Pids |-> "none"] /\ state = NoPid
    /\ export = Idle /\ out = [archive |-> None, manifest |-> None, sum |-> None]
    /\ exports = 0 /\ quiet = TRUE /\ wipe = Idle /\ alone = TRUE

-----------------------------------------------------------------------------
(* The volume and the hubs.                                                *)

\* osk install
Create ==
    /\ image = "absent"
    /\ image' = IF backend = "luks" THEN "shut" ELSE "open"
    /\ UNCHANGED <<backend, files, hubVars, exporting, quiet, wiping>>

\* ensure_hub_not_running asks the state file only.  A volume that is mapped
\* already cannot be opened: the start fails.  (A process takes no number that
\* a wipe still waits for.)
Start(p) ==
    /\ Dead(p) /\ (wipe # Idle => p \notin {wipe.hub, wipe.pid})
    /\ ~Running
    /\ image = "shut" \/ backend = "directory"
    /\ image' = "open"
    /\ proc' = [proc EXCEPT ![p] = "starting"] /\ state' = NoPid
    /\ alone' = (wipe = Idle)
    /\ UNCHANGED <<backend, files, exporting, quiet, wipe>>

\* _write_hub_state
Serve(p) ==
    /\ proc[p] = "starting"
    /\ proc' = [proc EXCEPT ![p] = "up"] /\ state' = p
    /\ alone' = (wipe = Idle)
    /\ UNCHANGED <<backend, image, files, exporting, quiet, wipe>>

\* An artifact or its metadata.  (What a hub writes after its volume was
\* destroyed goes to the bare mount point, and is not followed.)
Write(f) ==
    /\ \E p \in Pids : proc[p] \in {"up", "ending"}
    /\ image = "open" /\ files[f] # "whole"
    /\ files' = [files EXCEPT ![f] = IF @ = "absent" THEN "half" ELSE "whole"]
    /\ quiet' = FALSE
    /\ UNCHANGED <<backend, image, hubVars, exporting, wiping>>

\* The finally block: the state file goes first, whoever wrote it, and the hub
\* is no longer found while it sends its last messages and closes what it
\* opened.
End(p) ==
    /\ proc[p] \in {"starting", "up"}
    /\ proc' = [proc EXCEPT ![p] = "ending"] /\ state' = NoPid
    /\ alone' = (wipe = Idle \/ (alone /\ wipe.at = "wait" /\ wipe.pid = p))
    /\ UNCHANGED <<backend, image, files, exporting, quiet, wipe>>

\* The process is gone: at the end of that block, which closes the volume unless
\* a file is in use, or killed.  An osk stop that waited for it clears the state
\* file, whoever wrote it.
Exit(p) ==
    /\ ~Dead(p)
    /\ proc' = [proc EXCEPT ![p] = "none"]
    /\ state' \in {state, NoPid}
    /\ image' \in IF backend = "luks" /\ image # "absent" /\ proc[p] = "ending"
                     THEN {"shut", image} ELSE {image}
    /\ alone' = (wipe = Idle \/ (alone /\ state \in {state', p}))
    /\ UNCHANGED <<backend, files, exporting, quiet, wipe>>

\* evidence unlock: read-only; its mount may fail after the mapping is made.
Unlock ==
    /\ image = "shut"
    /\ image' \in {"ro", "mapped"}
    /\ UNCHANGED <<backend, files, hubVars, exporting, quiet, wiping>>

\* No command closes it again: somebody does by hand.
Lock ==
    /\ backend = "luks" /\ image \in {"ro", "mapped", "open"}
    /\ image' = "shut"
    /\ UNCHANGED <<backend, files, hubVars, exporting, quiet, wiping>>

Destroyed ==
    /\ image # "absent"
    /\ image' = "absent" /\ files' = NoFiles
    /\ quiet' = FALSE

\* evidence destroy, which does not ask for the hub.
Destroy ==
    /\ Destroyed
    /\ UNCHANGED <<backend, hubVars, exporting, wiping>>

-----------------------------------------------------------------------------
(* evidence export and verify.                                             *)

\* list_items: the files and their sizes.
List ==
    /\ export = Idle /\ exports < MaxExports
    /\ Visible /\ Present # {}
    /\ export' = [at |-> "hash", sizes |-> [f \in Present |-> files[f]]]
    /\ exports' = exports + 1 /\ quiet' = TRUE
    /\ UNCHANGED <<backend, image, files, hubVars, out, wiping>>

Listed == DOMAIN export.sizes
Readable == Visible /\ Listed \subseteq Present

Hash ==
    /\ export.at = "hash" /\ Readable
    /\ export' = [at |-> "zip", sizes |-> export.sizes,
                  items |-> [f \in Listed |-> <<export.sizes[f], files[f]>>]]
    /\ UNCHANGED <<backend, image, files, hubVars, out, exports, quiet, wiping>>

Zip ==
    /\ export.at = "zip" /\ Readable
    /\ out' = [out EXCEPT !.archive =
          [no |-> exports, items |-> export.items, holds |-> [f \in Listed |-> files[f]]]]
    /\ export' = [export EXCEPT !.at = "manifest"]
    /\ UNCHANGED <<backend, image, files, hubVars, exports, quiet, wiping>>

\* Mutant: the sidecar manifest is written by the first export only.
Manifest_Once ==
    /\ export.at = "manifest"
    /\ out' = [out EXCEPT !.manifest = IF @ = None THEN out.archive ELSE @]
    /\ export' = [export EXCEPT !.at = "sum"]
    /\ UNCHANGED <<backend, image, files, hubVars, exports, quiet, wiping>>

\* archive_sha256 with the embedded manifest
Manifest ==
    /\ export.at = "manifest"
    /\ out' = [out EXCEPT !.manifest = out.archive]
    /\ export' = [export EXCEPT !.at = "sum"]
    /\ UNCHANGED <<backend, image, files, hubVars, exports, quiet, wiping>>

Sum ==
    /\ export.at = "sum"
    /\ out' = [out EXCEPT !.sum = out.archive]
    /\ export' = Done
    /\ UNCHANGED <<backend, image, files, hubVars, exports, quiet, wiping>>

\* The command ends, or fails, or is killed.  What it had archived by then has
\* no embedded manifest.
ExportEnds ==
    /\ export # Idle
    /\ export' = Idle
    /\ out' = IF export.at = "zip" THEN [out EXCEPT !.archive = [no |-> exports]] ELSE out
    /\ UNCHANGED <<backend, image, files, hubVars, exports, quiet, wiping>>

\* The archive holds what its embedded manifest lists, in size and digest.
ArchiveAgrees ==
    /\ "items" \in DOMAIN out.archive
    /\ \A f \in DOMAIN out.archive.items :
         out.archive.items[f] = <<out.archive.holds[f], out.archive.holds[f]>>

\* A sidecar file that exists has the digest of this archive.
SidecarsAgree ==
    /\ out.manifest = None \/ out.manifest = out.archive
    /\ out.sum = None \/ out.sum = out.archive

Verifies == out.archive # None /\ ArchiveAgrees /\ SidecarsAgree

-----------------------------------------------------------------------------
(* osk wipe                                                                *)

\* The hub that the state file names is asked for its broadcast.  Without an
\* answer in time the command ends, although the members may have been told,
\* and changes nothing here; with one, wipe.hub told them.
Tell(destroy) ==
    /\ wipe = Idle /\ state # NoPid /\ proc[state] = "up"
    /\ wipe' = [at |-> "stop", hub |-> state, pid |-> NoPid, destroy |-> destroy]
    /\ alone' = \A p \in Pids : p # state => Dead(p)
    /\ UNCHANGED <<backend, image, files, proc, state, exporting, quiet>>

Stopped == wipe' = IF wipe.destroy THEN [wipe EXCEPT !.at = "destroy"] ELSE Idle

\* stop_hub returns 0 where it finds no state file, also when the hub is alive
\* and ending, and where the process of the file is gone.
StopFindsNone ==
    /\ wipe.at = "stop" /\ ~Running
    /\ state' = NoPid /\ Stopped
    /\ UNCHANGED <<backend, image, files, proc, exporting, quiet, alone>>

\* The stop request is for the hub found now, and its process is waited for.
StopAsks ==
    /\ wipe.at = "stop" /\ Running
    /\ wipe' = [wipe EXCEPT !.at = "wait", !.pid = state]
    /\ UNCHANGED <<backend, image, files, hubVars, exporting, quiet, alone>>

\* It is gone: stop_hub clears the state file, whoever wrote it, and returns 0.
StopWithin ==
    /\ wipe.at = "wait" /\ Dead(wipe.pid)
    /\ state' = NoPid /\ Stopped
    /\ UNCHANGED <<backend, image, files, proc, exporting, quiet, alone>>

\* Mutant: the evidence goes although the hub did not.
StopFails_DestroysAll ==
    /\ wipe.at = "wait" /\ ~Dead(wipe.pid)
    /\ Stopped
    /\ UNCHANGED <<backend, image, files, hubVars, exporting, quiet, alone>>

\* it returns 1: the process did not exit
StopFails ==
    /\ wipe.at = "wait" /\ ~Dead(wipe.pid)
    /\ wipe' = Idle
    /\ UNCHANGED <<backend, image, files, hubVars, exporting, quiet, alone>>

WipeDestroys ==
    /\ wipe.at = "destroy"
    /\ Destroyed
    /\ wipe' = Idle
    /\ UNCHANGED <<backend, hubVars, exporting, alone>>

\* no volume, or shred fails; the volume may be closed by then
WipeKeeps ==
    /\ wipe.at = "destroy"
    /\ image' \in IF backend = "luks" /\ image # "absent" THEN {image, "shut"} ELSE {image}
    /\ wipe' = Idle
    /\ UNCHANGED <<backend, files, hubVars, exporting, quiet, alone>>

Next ==
    \/ Create \/ Unlock \/ Lock \/ Destroy
    \/ \E p \in Pids : Start(p) \/ Serve(p) \/ End(p) \/ Exit(p)
    \/ \E f \in Files : Write(f)
    \/ List \/ Hash \/ Zip \/ Manifest \/ Sum \/ ExportEnds
    \/ \E destroy \in BOOLEAN : Tell(destroy)
    \/ StopFindsNone \/ StopAsks \/ StopWithin \/ StopFails \/ WipeDestroys \/ WipeKeeps

Spec == Init /\ [][Next]_vars

-----------------------------------------------------------------------------
\* The operator's check before destroying the evidence (operations-drills.md):
\* an export that ran to its end over evidence that did not change verifies,
\* whatever earlier exports, complete or interrupted, left at its path.
QuietExportVerifies == export = Done /\ quiet => Verifies

\* A wipe destroys the evidence last: its hub told the members, and the state
\* file no longer names it as running; and unless another command or another
\* hub came between the stages, no hub process is left that could write.
\* (Where one did, evidence may go under a hub that is still ending, or that
\* was started since.)
WipeDestroysLast ==
    [][wipe.at = "destroy" /\ wipe' = Idle /\ image' = "absent" =>
         /\ wipe.hub # state
         /\ alone => \A p \in Pids : Dead(p)]_vars
=============================================================================
