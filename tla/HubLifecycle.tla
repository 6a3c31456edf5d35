---------------------------- MODULE HubLifecycle ----------------------------
(***************************************************************************)
(* `osk start`, `osk stop` and `osk stop --restart` (hub.py): processes of *)
(* one laptop that know of each other by two files -- the hub's state and  *)
(* the stop request -- and share the operations table, the evidence volume *)
(* and the port.  No file is locked, so what one of them checked may have  *)
(* changed when it acts on it.                                             *)
(*                                                                         *)
(* The storage backend is "luks" (the other one opens and closes nothing). *)
(* A hub is its pid, used once; the operations are numbered in the order   *)
(* of their creation.  `osk start --fresh` is the stop that it begins with *)
(* followed by a start.  Signals act as uvicorn (0.30 or later) makes them *)
(* act: after Ctrl-C the hub ends in order, while SIGTERM, raised again at *)
(* the end of serve() and not handled outside it, ends the process before  *)
(* run_hub's finally block is done.                                        *)
(***************************************************************************)
EXTENDS Naturals, FiniteSets

CONSTANTS
  Hubs,      \* the starts that ever happen
  NoHub,     \* "no hub"
  Stoppers,  \* how many terminals run `osk stop` at a time
  Overlap,   \* whether a command begins while another is under way
  MayCrash   \* whether hubs die of something else than SIGTERM, and mounts fail

ASSUME ConstantsOK ==
  /\ IsFiniteSet(Hubs)
  /\ NoHub \notin Hubs
  /\ Overlap \in BOOLEAN /\ MayCrash \in BOOLEAN

VARIABLES
  pc,       \* how far a hub is in run_hub
  fresh,    \* its --fresh
  op,       \* its op_manager.operation (0: none)
  opened,   \* its luks_open
  keep,     \* the preserve_operation that its finally block has read
  watcher,  \* whether its watch_for_stop_request still runs
  termed,   \* whether it was sent a SIGTERM
  state,    \* hub-state.json: whose pid it holds
  request,  \* hub-stop-request.json
  rows,     \* stopped_at of each row of operations
  volume,   \* whether the evidence volume is open
  stop,     \* where a stop command is
  victim,   \* the pid that it read
  addressee,  \* history: whom the request was written for
  toEnd,    \* history: the operations that a command, Ctrl-C or a failed start ends
  cutShort    \* history: whether a hub has left its volume behind

hubVars  == <<pc, fresh, op, opened, keep, watcher, termed>>
files    == <<state, request>>
stopVars == <<stop, victim>>
history  == <<addressee, toEnd, cutShort>>
vars == <<hubVars, files, rows, volume, stopVars, history>>

Operations == 1..Cardinality(Hubs)

Active == {o \in Operations : rows[o] = "active"}
Alive  == {h \in Hubs : pc[h] \notin {"new", "gone"}}

\* "booting": past ensure_hub_not_running, waiting for services and database;
\* "mounting", "mounted": about to open the evidence volume, and having opened
\* it; "selected": has looked for an active operation; "ready": has one;
\* "announced": has written its state file; "draining": serve() is returning;
\* "ending": past the files in the finally block; "sealing": past op_manager.
StartsUp == {"booting", "mounting", "mounted", "selected", "ready", "announced"}

Init ==
  /\ pc      = [h \in Hubs |-> "new"]
  /\ fresh   = [h \in Hubs |-> FALSE]
  /\ op      = [h \in Hubs |-> 0]
  /\ opened  = [h \in Hubs |-> FALSE]
  /\ keep    = [h \in Hubs |-> FALSE]
  /\ watcher = [h \in Hubs |-> FALSE]
  /\ termed  = [h \in Hubs |-> FALSE]
  /\ state = NoHub /\ request = "none"
  /\ rows   = [o \in Operations |-> "none"]
  /\ volume = "closed"
  /\ stop   = [t \in Stoppers |-> "idle"]
  /\ victim = [t \in Stoppers |-> NoHub]
  /\ addressee = NoHub /\ toEnd = {} /\ cutShort = FALSE

\* A careful operator gives one command at a time: waits until a hub has
\* started (or failed to) and until a stop command has returned.
MayBegin ==
  \/ Overlap
  \/ /\ \A t \in Stoppers : stop[t] = "idle"
     /\ \A h \in Hubs : pc[h] \notin StartsUp

-----------------------------------------------------------------------------
(* osk start                                                               *)

At(h, here)   == pc[h] = here /\ ~termed[h]
Goes(h, there) == pc' = [pc EXCEPT ![h] = there]

\* A fault: a live pid is taken for a stale one.
Check_AnyIsStale(h) ==
  /\ pc[h] = "new" /\ MayBegin
  /\ \E f \in BOOLEAN : fresh' = [fresh EXCEPT ![h] = f]
  /\ state' = NoHub
  /\ request' = "none"
  /\ Goes(h, "booting")
  /\ UNCHANGED <<op, opened, keep, watcher, termed, rows, volume, stopVars, history>>

\* A fault: a stop request that was left behind stays.
Check_LeavesRequest(h) ==
  /\ pc[h] = "new" /\ MayBegin
  /\ state \notin Alive
  /\ \E f \in BOOLEAN : fresh' = [fresh EXCEPT ![h] = f]
  /\ state' = NoHub
  /\ UNCHANGED request
  /\ Goes(h, "booting")
  /\ UNCHANGED <<op, opened, keep, watcher, termed, rows, volume, stopVars, history>>

\* ensure_hub_not_running: the start is refused while the pid of the state
\* file runs; a stale file, and any stop request, are removed.
Check(h) ==
  /\ pc[h] = "new" /\ MayBegin
  /\ state \notin Alive
  /\ \E f \in BOOLEAN : fresh' = [fresh EXCEPT ![h] = f]
  /\ state' = NoHub
  /\ request' = "none"
  /\ Goes(h, "booting")
  /\ UNCHANGED <<op, opened, keep, watcher, termed, rows, volume, stopVars, history>>

\* Services and database are up.  --fresh stops every active operation, and
\* goes on when it could not.
Boot(h) ==
  /\ At(h, "booting")
  /\ Goes(h, "mounting")
  /\ \/ /\ fresh[h]
        /\ rows' = [o \in Operations |-> IF o \in Active THEN "stopped" ELSE rows[o]]
        /\ toEnd' = toEnd \cup Active
     \/ UNCHANGED <<rows, toEnd>>
  /\ UNCHANGED <<fresh, op, opened, keep, watcher, termed, files, volume, stopVars,
                 addressee, cutShort>>

\* cryptsetup opens the volume, unless it is open.
Mount(h) ==
  /\ At(h, "mounting") /\ volume = "closed"
  /\ volume' = "open"
  /\ opened' = [opened EXCEPT ![h] = TRUE]
  /\ Goes(h, "mounted")
  /\ UNCHANGED <<fresh, op, keep, watcher, termed, files, rows, stopVars, history>>

Latest == CHOOSE o \in Active : \A p \in Active : p <= o

\* A fault: an operation is always created.
Select_None(h) ==
  /\ At(h, "mounted")
  /\ Goes(h, "selected")
  /\ UNCHANGED <<fresh, op, opened, keep, watcher, termed, files, rows, volume, stopVars,
                 history>>

\* create_or_resume: resumes the last active operation ...
Select(h) ==
  /\ At(h, "mounted")
  /\ IF Active = {}
     THEN Goes(h, "selected") /\ UNCHANGED op
     ELSE Goes(h, "ready") /\ op' = [op EXCEPT ![h] = Latest]
  /\ UNCHANGED <<fresh, opened, keep, watcher, termed, files, rows, volume, stopVars, history>>

\* ... or inserts a new one.
Create(h) ==
  /\ At(h, "selected")
  /\ \E o \in Operations :
       /\ rows[o] = "none" /\ \A p \in 1..o - 1 : rows[p] # "none"
       /\ rows' = [rows EXCEPT ![o] = "active"]
       /\ op' = [op EXCEPT ![h] = o]
  /\ Goes(h, "ready")
  /\ UNCHANGED <<fresh, opened, keep, watcher, termed, files, volume, stopVars, history>>

\* The state file is written before the port is bound.
Announce(h) ==
  /\ At(h, "ready")
  /\ state' = h
  /\ Goes(h, "announced")
  /\ UNCHANGED <<fresh, op, opened, keep, watcher, termed, request, rows, volume, stopVars,
                 history>>

PortTaken == \E h \in Hubs : pc[h] = "serving"

Serve(h) ==
  /\ At(h, "announced") /\ ~PortTaken
  /\ Goes(h, "serving")
  /\ watcher' = [watcher EXCEPT ![h] = TRUE]
  /\ UNCHANGED <<fresh, op, opened, keep, termed, files, rows, volume, stopVars, history>>

\* watch_for_stop_request: tells and disconnects the members, and makes
\* serve() return.
Notice(h) ==
  /\ At(h, "serving") /\ watcher[h] /\ request # "none"
  /\ Goes(h, "draining")
  /\ UNCHANGED <<fresh, op, opened, keep, watcher, termed, files, rows, volume, stopVars,
                 history>>

\* The broadcast of op_ended raises (see HubBroadcast), and the watcher with it.
NoticeFails(h) ==
  /\ At(h, "serving") /\ watcher[h] /\ request = "stop"
  /\ watcher' = [watcher EXCEPT ![h] = FALSE]
  /\ UNCHANGED <<pc, fresh, op, opened, keep, termed, files, rows, volume, stopVars, history>>

-----------------------------------------------------------------------------
(* The end of a hub.                                                       *)

\* A fault: the request is not read.
Finally_NotRead(h) ==
  /\ state' = NoHub /\ request' = "none"
  /\ keep' = [keep EXCEPT ![h] = FALSE]
  /\ Goes(h, "ending")

\* The finally block of run_hub, up to its first await: reads the request,
\* removes the files, whosever they are by now.
Finally(h) ==
  /\ state' = NoHub /\ request' = "none"
  /\ keep' = [keep EXCEPT ![h] = request = "restart"]
  /\ Goes(h, "ending")

\* serve() has returned.
Drained(h) ==
  /\ At(h, "draining")
  /\ Finally(h)
  /\ UNCHANGED <<fresh, op, opened, watcher, termed, rows, volume, stopVars, history>>

EndsItsOperation(h) == toEnd' = toEnd \cup ({op[h]} \ {0})

\* cryptsetup refuses (the passphrase is wrong, the volume was left open), an
\* exception or Ctrl-C on the way up, or serve() exits because a hub or another
\* program has the port.  What was resumed is ended.
StartFails(h) ==
  /\ pc[h] \in StartsUp \ {"booting"} /\ ~termed[h]
  /\ Finally(h)
  /\ EndsItsOperation(h)
  /\ UNCHANGED <<fresh, op, opened, watcher, termed, rows, volume, stopVars, addressee, cutShort>>

\* cryptsetup opens the volume and mount fails: luks_open is not set.
MountFails(h) ==
  /\ MayCrash /\ At(h, "mounting") /\ volume = "closed"
  /\ volume' = "open"
  /\ Finally(h)
  /\ cutShort' = TRUE
  /\ UNCHANGED <<fresh, op, opened, watcher, termed, rows, stopVars, addressee, toEnd>>

\* Ctrl-C in serve(), which then returns in order.
Interrupt(h) ==
  /\ At(h, "serving") /\ ~termed[h]
  /\ Finally(h)
  /\ EndsItsOperation(h)
  /\ UNCHANGED <<fresh, op, opened, watcher, termed, rows, volume, stopVars, addressee, cutShort>>

\* op_manager.stop()
StopOperation(h) ==
  /\ At(h, "ending")
  /\ rows' = IF keep[h] \/ op[h] = 0 THEN rows ELSE [rows EXCEPT ![op[h]] = "stopped"]
  /\ Goes(h, "sealing")
  /\ UNCHANGED <<fresh, op, opened, keep, watcher, termed, files, volume, stopVars, history>>

\* A fault: a volume opened by a start that failed later stays open.
Seal_Served(h) ==
  /\ At(h, "sealing")
  /\ volume' = IF opened[h] /\ watcher[h] THEN "closed" ELSE volume
  /\ opened' = [opened EXCEPT ![h] = FALSE]
  /\ Goes(h, "gone")
  /\ UNCHANGED <<fresh, op, keep, watcher, termed, files, rows, stopVars, history>>

\* The key is revoked, the volume and the tmpfs are unmounted.
Seal(h) ==
  /\ At(h, "sealing")
  /\ volume' = IF opened[h] THEN "closed" ELSE volume
  /\ opened' = [opened EXCEPT ![h] = FALSE]
  /\ Goes(h, "gone")
  /\ UNCHANGED <<fresh, op, keep, watcher, termed, files, rows, stopVars, history>>

\* umount or cryptsetup fails (a file is in use); their results are ignored.
SealFails(h) ==
  /\ MayCrash /\ At(h, "sealing") /\ opened[h]
  /\ opened' = [opened EXCEPT ![h] = FALSE]
  /\ Goes(h, "gone")
  /\ cutShort' = TRUE
  /\ UNCHANGED <<fresh, op, keep, watcher, termed, files, rows, volume, stopVars,
                 addressee, toEnd>>

\* The process dies -- of the SIGTERM, if it got one -- or an exception in the
\* finally block skips its rest.
Die(h) ==
  /\ h \in Alive /\ (termed[h] \/ MayCrash)
  /\ Goes(h, "gone")
  /\ cutShort' = TRUE
  /\ UNCHANGED <<fresh, op, opened, keep, watcher, termed, files, rows, volume, stopVars,
                 addressee, toEnd>>

\* The laptop goes down: no process and no mapping is left, the files are.
Reboot ==
  /\ pc' = [h \in Hubs |-> IF pc[h] = "new" THEN "new" ELSE "gone"]
  /\ volume' = "closed"
  /\ stop'   = [t \in Stoppers |-> "idle"]
  /\ victim' = [t \in Stoppers |-> NoHub]
  /\ UNCHANGED <<fresh, op, opened, keep, watcher, termed, files, rows, history>>

-----------------------------------------------------------------------------
(* osk stop and osk stop --restart                                         *)

Returns(t) ==
  /\ stop'   = [stop EXCEPT ![t] = "idle"]
  /\ victim' = [victim EXCEPT ![t] = NoHub]

\* A state file with a live pid; a stale one is removed, its request is not.
Stop(t) ==
  /\ stop[t] = "idle" /\ MayBegin /\ state # NoHub
  /\ IF state \in Alive
     THEN /\ stop' = [stop EXCEPT ![t] = "asking"]
          /\ victim' = [victim EXCEPT ![t] = state]
          /\ UNCHANGED state
     ELSE state' = NoHub /\ UNCHANGED stopVars
  /\ UNCHANGED <<hubVars, request, rows, volume, history>>

\* The request is written, over another one if there is one.
Ask(t, what) ==
  /\ stop[t] = "asking"
  /\ request' = what
  /\ stop' = [stop EXCEPT ![t] = "waiting"]
  /\ addressee' = victim[t]
  /\ toEnd' = IF what = "stop" THEN toEnd \cup ({op[victim[t]]} \ {0}) ELSE toEnd
  /\ UNCHANGED <<hubVars, state, rows, volume, victim, cutShort>>

\* The hub has not ended in time: SIGTERM.
Terminate(t) ==
  /\ stop[t] = "waiting" /\ victim[t] \in Alive
  /\ termed' = [termed EXCEPT ![victim[t]] = TRUE]
  /\ stop' = [stop EXCEPT ![t] = "killing"]
  /\ UNCHANGED <<pc, fresh, op, opened, keep, watcher, files, rows, volume, victim, history>>

\* The pid is gone: the files are removed, whosever they are by now.
Stopped(t) ==
  /\ stop[t] \in {"waiting", "killing"} /\ victim[t] \notin Alive
  /\ state' = NoHub /\ request' = "none"
  /\ Returns(t)
  /\ UNCHANGED <<hubVars, rows, volume, history>>

\* It waited in vain (exit code 1), or is interrupted itself.
GiveUp(t) ==
  /\ stop[t] # "idle"
  /\ Returns(t)
  /\ UNCHANGED <<hubVars, files, rows, volume, history>>

\* osk status, when there is no state file, removes a stop request.
Status ==
  /\ state = NoHub /\ request # "none"
  /\ request' = "none"
  /\ UNCHANGED <<hubVars, state, rows, volume, stopVars, history>>

-----------------------------------------------------------------------------

Hub(h) ==
  \/ Check(h) \/ Boot(h) \/ Mount(h) \/ Select(h) \/ Create(h) \/ Announce(h) \/ Serve(h)
  \/ Notice(h) \/ NoticeFails(h) \/ Drained(h) \/ StartFails(h) \/ Interrupt(h)
  \/ StopOperation(h) \/ Seal(h) \/ SealFails(h)
  \/ MountFails(h) \/ Die(h)

Stopper(t) ==
  \/ Stop(t)
  \/ \E what \in {"stop", "restart"} : Ask(t, what)
  \/ Terminate(t) \/ Stopped(t) \/ GiveUp(t)

Next ==
  \/ \E h \in Hubs : Hub(h)
  \/ \E t \in Stoppers : Stopper(t)
  \/ Status
  \/ Reboot

Spec == Init /\ [][Next]_vars

-----------------------------------------------------------------------------
(* Properties of the code as it is.  The first two hold for any operator,  *)
(* the others for a careful one (Overlap = FALSE).                         *)

\* There is one operation to resume: through crashes, kills, restarts and
\* failed starts, no operation is created while another is active.  (The open
\* volume is what keeps a second start from looking for one.)
AtMostOneActive == Cardinality(Active) <= 1

\* When no hub runs, the evidence volume is closed, unless one was cut short
\* (it died, or a mount or an umount failed): every other way out of a start or
\* of a running hub seals what it opened.
SealedAtRest == Alive = {} /\ ~cutShort => volume = "closed"

\* A hub that serves can be stopped: the state file names it, although ends,
\* failed starts and stop commands remove the file without looking whose it is.
Stoppable == \A h \in Hubs : pc[h] = "serving" => state = h

\* No hub obeys a stop request that was meant for an earlier one.
ObeysOwnRequest ==
  [][\A h \in Hubs : pc[h] = "serving" /\ pc'[h] = "draining" => addressee = h]_vars

\* A restart, a crash, a kill or a start that finds the volume open never ends
\* the operation: it is stopped in the table only by a hub that was told to, or
\* by a start that failed after it had resumed it.
EndsOnlyForCause ==
  [][\A o \in Operations :
       rows[o] = "active" /\ rows'[o] = "stopped" => o \in toEnd']_vars

=============================================================================
