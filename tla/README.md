# Osk in TLA+

Osk is a local-first hub for field teams.  A laptop runs the hub (a FastAPI
application with a PostgreSQL database and an encrypted evidence volume); the
members' browsers join it over WebSockets, send notes, audio, frames and
positions, and keep what could not be delivered in an outbox of their own.
This directory holds TLA+ models of the parts of Osk whose correctness depends
on orders that no test enumerates, the TLC instances that check them, and
proofs of nearly all their safety properties for instances of any size.

Source paths below are relative to the repository's root.  The hub's code is in
`src/osk/`, the browser's in `src/osk/static/`.

- [1. The system](#1-the-system)
- [2. The modules and how they correspond to the code](#2-the-modules-and-how-they-correspond-to-the-code)
- [3. What the runs check](#3-what-the-runs-check)
- [4. Bounds, symmetry and fairness](#4-bounds-symmetry-and-fairness)
- [5. What is proved](#5-what-is-proved)
- [6. Where the code and its documents disagree](#6-where-the-code-and-its-documents-disagree)
- [7. What is not modelled](#7-what-is-not-modelled)
- [8. Plan](#8-plan)

## 1. The system

Everything in the hub runs on one asyncio event loop: a coroutine runs alone
from one `await` to the next, and any other may run while it waits.  The hub
process is one of several on the laptop (`osk start`, `osk stop`, `osk operator`,
`osk evidence`, ...), which find each other through small files that nobody
locks.  The browser is single-threaded in the same way, with IndexedDB requests
as its awaits.

| Component | State | Operations | What is hard | Correct when | Module |
|---|---|---|---|---|---|
| Membership and connections (`operation.py`, `connection_manager.py`, the `/ws` handler of `server.py`, `watch_member_heartbeats` of `hub.py`) | members in memory and in a table, one WebSocket entry and last-seen time per member | join, resume, take-over, messages, end of a handler, kick, heartbeat poll, start after a crash | several handlers of one member; memory before its row; removal by member id | entries belong to live handlers, no ghost members, kicks stick, silent connections are given up | `HubMembers` |
| Broadcasts (`ConnectionManager.broadcast`) | the iterator over the live dictionary | emergency wipe, `op_ended`, alerts | a dictionary that changes under an iteration with awaits | who is registered gets the message | `HubBroadcast` |
| Manual reports (`member-outbox.js`, `member.js`, the report branch of `/ws`, `insert_manual_report_once`) | the IndexedDB store, the entry in flight, receipts and events | write, flush, acknowledge, retry, discard, reconnect, reload, handle | at-least-once transport made exactly-once, sessions that end | a kept note becomes one event while its receipt stands, and is lost only with its session | `ReportDelivery`, `ReportLog` |
| Member outbox: media, eviction, retries | buffered audio and frame entries | eviction, `retryEntry` | shares `inFlightEntryId` with the notes | the limit holds | - |
| Audio ingest (`audio_ingest.py`, `submit_audio`, `claim_ingest_receipt`) | a priority heap with tombstones and counters, receipts in a cache and a table | put, evict, get, submit, acknowledge | a two-level duplicate check over awaits; books beside the heap | bounded, accounted for, each chunk queued once | `AudioIngest` |
| Frame ingest and vision worker (`frame_ingest.py`, `vision_engine.py`) | a queue with two limits, change and rate checks | pair, put, evict, get, stop | two evictions; an orderly stop against a worker with timeouts | better frames win, an orderly stop drains | `FrameIngest` |
| Transcription (`transcriber.py`) | what was emitted last, over all chunks | trim, drop, remember | memory shared by members, ahead of storage | what is left out is in the stored transcript | `Transcripts` |
| Hub lifecycle (`hub.py`, `storage.py`, `operation.py`) | state file, stop-request file, `operations` table, volume, port | start, stop, restart, status, signals, crash, reboot | no file is locked; the way down has many awaits | one active operation, a serving hub can be stopped, volume sealed at rest | `HubLifecycle` |
| Installation and readiness (`tls.py`, `storage.py`, `drills.py`, the checks of `run_hub`) | key, certificate, image, mapper, tools | install, interrupt, drill, start | pieces that look finished | a ready host starts | `HostInstall` |
| Evidence and wipe (`evidence.py`, `storage.py`, `wipe_hub`) | volume, archive and its two sidecars | write, export, verify, unlock, destroy, wipe | several passes over files; stages that fail | exports verify, evidence goes last | `EvidenceVolume` |
| Operation tokens, member session cookies and runtime tokens (`operation.py`, `server.py`) | join token in memory and row, cookies, sealed codes and sessions | rotate, scan, join, trade, resume, sign out, expire, restart | memory before row; credentials that outlive the hub | no old QR code after a rotation, no session without a member | `MemberSessions` |
| Local operator sessions (`local_operator.py`, `hub.py`, `server.py`) | four credential files and browsers' cookies | login, dashboard, exchange, logout, status, start, stop, crash | read, write, unlink without a lock | nothing is accepted after a logout or from an earlier run | `LocalSessions` |
| Member roles (`promote`, `demote`) | role in memory, row, `ConnectionManager.roles`, client | promote, demote, connect, leave, restart | four places, four steps | the four agree when nothing is under way | `MemberRoles` |
| Coordinator engine (`coordinator_engine.py`, its tables in `db.py`) | gaps, directed tasks, recommendations | finding, report, refresh | several statements per decision, rows by stale ids | a recommendation has a basis; a gap is asked | `CoordinatorRoute` |
| Observations, synthesis, findings (`intelligence_service.py`, `synthesis.py`, `ollama_synthesis.py`, `db.py`) | incidents in memory, findings by signature | classify, corroborate, alert, upsert, acknowledge, resolve, reopen, escalate, note | workers, `/ws` handlers and operators on one row; failures between statements | news reopens, corroboration is told | `Findings` |
| Review feed and lists (`get_review_feed`, `osk review`, `osk findings`) | three tables | feed, lists | three statements, not a snapshot | nothing newer is missing | `ReviewFeed` |
| Positions (`submit_location`, `fake_intelligence.py`) | the last sample of each member | submit, prune, compare | clocks of senders | recent samples are kept, neighbours seen | `Locations` |
| Dashboard signals (`server.py`) | shared history, one signal with its state | poll, acknowledge, snooze | polls interleave; signatures | quiet only by choice, a snooze ends | `DashboardSignals` |
| Wipe follow-up (`wipe_readiness.py`, `server.py`) | rows of the audit trail, a cache of markers | verify, review, retire, reopen | views derived from a window of the trail, whose details come back as text | reopened once and on record | `WipeFollowUp` |
| Field tasks (`tasking.py`) | tasks and states | create, assign, complete, time out | - | - | - (section 7) |
| Fusion (`intelligence_fusion.py`, `fusion_service.py`) | windows of observations | add, group, prune | - | - | - (section 7) |
| Member PWA runtime (`sw.js`, `observer-media.js`, ...) | caches, media streams | install, activate, capture | asynchronous start and stop | no capture after stop | - |
| Command line, configuration, hotspot, QR codes, tiles, data models | arguments, TOML, files | parse, wrap | none | - | - |

`PROJECT.json` repeats the components with their sources and status, and lists
the hazards of the code, each at its line, with the properties that would notice
it going wrong (or the reason why none does).

The components meet in few places, and the modules are composed where they do:
`HubBroadcast` extends `HubMembers`, because the iterator runs over the entries
that joins and departures change; `ReportDelivery` has browser, connection, hub
and database in one module.  Elsewhere one component hands a value to another
(a queue to its worker, a finding to the coordinator engine) or reads what it
left at rest (a start reads the installation); there the giving side is the
other's input, chosen with `\E`.

## 2. The modules and how they correspond to the code

Step granularity.  In the hub's modules one action is what one coroutine does
between two awaits that matter; a coroutine that waits is a value of `pc`,
`call`, `handler` or the like, with what it has read.  Where a module follows
processes (`HubLifecycle`, `HostInstall`, `EvidenceVolume`, `LocalSessions`) one
action is what a process does between two effects that others can see.  In the
browser's part of `ReportDelivery` one action is the answer of one IndexedDB
request and the code that runs with it.

### HubMembers

`status` is `Member.status` in memory, `row` the column in the table, `conn` the
dictionary `ConnectionManager.connections`, `stale` whether `last_seen_monotonic`
is at least the heartbeat timeout ago (only that comparison is ever made).  A
handler is a socket; `pc`, `owner` and `link` say where it waits, for which
member, and whether its WebSocket is open, quiet (open, but the client no longer
runs) or closed.

| Action | Code |
|---|---|
| `Join`, `Resume`, `Written` | the auth branch of `/ws`; `add_member` and `resume_member`, before and after their write |
| `Admit`, `Replace`, `Replaced` | the take-over of an older connection and `register` |
| `Message` | `mark_seen`, by member id |
| `Leave`, `Left` | the end of the loop, `unregister` and `mark_disconnected` of the `finally` block |
| `Close`, `GoQuiet` | the client or the transport |
| `Kick`, `KickWritten`, `KickClosed` | the kick endpoint |
| `Elapse`, `Scan`, `DropUnregistered`, `DropStale`, `StaleClosed`, `StaleMarked` | `watch_member_heartbeats` with its list of stale ids |
| `Restart` | a crash, and the loading of members by `create_or_resume` |

The database keeps the order of the statements of one member's coroutines only
as far as each coroutine awaits them; statements of different coroutines land in
any order, which is why the writes are steps of their own.

### HubBroadcast

Extends `HubMembers` with the loop of `broadcast()`.  The iterator is that of a
CPython dictionary (`IteratorFollows`): each step first compares the number of
entries (`size`), it yields no more entries than there were at the start (`left`),
and either difference raises `RuntimeError`; a removed entry is not visited, and a
new one is appended.  An append that finds no room left compacts the table: the
entries move up under the iterator, and any of those still to come may be passed
over in silence.  Every step of `HubMembers` may happen between two sends.

### MemberRoles, MemberSessions, LocalSessions

`MemberRoles` follows a role through its four places.  `Join` puts the member in
memory and `InsertRow` is its INSERT, before which it can be promoted already.
`Change` is memory, `WriteRow` the UPDATE (which finds no row before the INSERT),
`Tell` is `ConnectionManager.roles` and the message to the client; `RowFails` and
`TellFails` are their failures, the second of which drops the member (`Drop`).
`Connect` and `Leave` are the client that connected last; `Unregister` is
everything else that takes the member out of the table by its id, the end of an
earlier handler among them.  `Restart` keeps the rows.

`MemberSessions` has the join token (`token`, `tokenRow`, numbered by age) and
what each browser holds: the join cookie, the runtime code and the session.
`Rotate` changes memory, `Rotated` writes the row and answers.  `Scan` and
`Visit` are the pages, `Join` the `/ws` authentication that makes a member,
`Joined` its answer, `Trade` the exchange of code for session, `Resume` a
connection with a session.  A Fernet token is the member it names; `Expire` is its
time to live.  `Restart` keeps what is in rows and browsers.

`LocalSessions` gives every command and every request the list of file
operations it still has to do; `Hub` and `Command` do the next one, so that the
hub and a command interleave at every file operation.  A write is a truncation
and a filling, hence `Bad` (torn or expired) files, which whoever reads them
removes in an operation of its own.

### ReportDelivery, implementing ReportLog

`ReportLog` is what a member is promised: a note that the browser has kept is
recorded (`Record`), and once more only after the hub has forgotten it (`Forget`);
it is lost (`Lose`) only if its session has ended (`EndSession`), unless the member
discards it.  `ReportDelivery` has the browser (`box`, `requests`, `inFlight`,
`sock`, `authed`, `session`), the connections (`up`, `wire`, `back`), the hub's
handlers (`pc`, `handling`, `saw`) and the database (`receipts`, `events`).
`requests` is the queue of IndexedDB answers that functions of the outbox wait
for; requests to one store are answered in order.  The refinement mapping is the
function `Fate`, with `times` the number of events and `ended` the notes of ended
sessions: a second event for a note whose receipt stands, or a kept note of a
living session that is in neither the store nor the events, has no counterpart in
`ReportLog`, so a duplicate or a loss is a violated step.

The page hears of the end of its session by `op_ended` or `wipe` (`TellEnd`) or by a
close code 4003 or 4004 (`Refuse`), both of which are `SessionOver` among the
messages; the member may also leave by itself.  `Leaves` is `clearMemberSession`;
`ClearLook` and `ClearDelete` are the requests of `clearPending`, and `Rejoin` the
next session, whose refreshes delete what is left of other scopes (`Prune`; notes
up to `old` are of another scope).  `Forget` is `prune_ingest_receipts`.

`Break` cuts a connection at an arbitrary point of what is under way in either
direction; `Reload` loses the page but not the store; `Crash` loses the hub's
handlers and rolls the open transaction back.

### AudioIngest, FrameIngest, Transcripts

`AudioIngest`: two or more handlers submit chunks through `submit_audio`: the
cache is asked, then the table, the receipt is claimed, and only then the chunk is
offered to the queue.  The heap keeps evicted entries as tombstones, as the code
does, and `active`, `depth`, `evicted`, `got` are the counters beside it.
`Expire` and `ExpireCached` let the idempotency window pass for the row and the
cached receipt, which may happen at different times because a duplicate found in
the cache refreshes only that one.

`FrameIngest`: `Meta` and `Payload` are the two messages of a frame; `Put` is
`FrameIngest.put` with its rate and duplicate checks, the limit per member and
the limit in all, each with its victim (`MemberVictim`, `GlobalVictim`); `Take`,
`Analysed`, `Processed`, `Quit` are the vision worker; `StopIngest` and
`StopWorker` the two halves of an orderly stop.

`Transcripts`: a chunk is taken (`Take`), its segments pass `Trimmed` and
`Dropped` one by one (`Segment`), and reading it ends well (`Done`) or not (`Fail`).
At a good end its text is remembered first (`_update_context`) and stored after
that, or storing it fails: `stored` is the end of the transcript that has been
stored, `since` counts the words remembered since a storing failed.  Members are
not told apart, because the transcriber does not.

### HubLifecycle, HostInstall, EvidenceVolume

`HubLifecycle`: processes are pids (`Hubs`), terminals running `osk stop`
(`Stoppers`), and the shared state is the two files, the `operations` table, the
volume and the port.  `pc` is how far a hub is in `run_hub`, including its
`finally` block, whose effects (files, operation, volume) are separate steps
because awaits and system commands lie between them.  SIGTERM ends the process
without the rest of that block, as uvicorn from version 0.30 on re-raises it with
the default action.

`HostInstall`: `install` and `start` say how far an install and a start have
come; every step of an install (`WriteCert`, `Truncate`, `Format`, `OpenMapper`,
`MakeFilesystem`, `CloseMapper`) may be the last (`Interrupt`).  `Drill` is what
`osk drill install` concludes from what exists.  `Check`, `Services`, `Database`,
`OpenVolume` and `Serve` are the stages of a start; `Breaks` is the failure of a
command that a stage runs (`docker compose up`, the wait for the database,
`cryptsetup`, `mount`, the port), `Crash` the death of a start or a hub.  `Stop`
closes the mapper, or does not: what `umount` and `cryptsetup` return is not looked
at.  `left` remembers that whatever opened the mapper has left it open, as `Unlock`
(`osk evidence unlock`) always does; `Release` is somebody who closes it.
`ChangeTools`, `LoseFile` and `Destroy` are what happens to a host meanwhile.

`EvidenceVolume`: hubs, export, wipe and the operator's commands on one volume.
`proc` is how far each hub process has come and `state` the process that
`hub-state.json` names; `Start`, `Serve`, `End` and `Exit` are a hub's, and `End`
removes the state file while the process lives on.  `List`, `Hash`, `Zip`,
`Manifest`, `Sum` are the passes of an export.  A wipe is `Tell`, then `stop_hub`,
which finds no hub in the state file (`StopFindsNone`, answered 0 although one may
still be ending) or asks the one it finds (`StopAsks`) and sees it go (`StopWithin`)
or not (`StopFails`), and then `WipeDestroys` or `WipeKeeps`.  Nothing keeps other
commands, or the next start, from coming between these stages.  `Verifies` is
`verify_export_bundle`.

### CoordinatorRoute

A table is a sequence of rows, a row's position its id.  `Finding`, `Report` and
`Refresh` enter a call into a free slot; each statement of the call is an action
with the row ids it has read before.  Unique indexes are the `Raise` branches.
The order that `_pick_best_sensor` gives able sensors is a choice.

### Findings and ReviewFeed

`Findings` follows one row of `synthesis_findings` and the incidents that write
it.  `Synthesize` is everything `synthesize()` does before its first await;
`InsertEvent`, `InsertAlert`, `Broadcast` and `Upsert` are the awaited rest of
`_synthesize_observation`; `Fail` is an exception in any of them, a broadcast whose
table of connections changes among them.  `Workers` are the two workers and the `/ws`
handlers, which carry the observations of positions themselves.  `Audience` is
`ALERT_THRESHOLDS`: the roles that an alert of a severity is for.  `backend` is the
synthesizer in use; with ollama, incidents of a category share a row, and a reply
may say that an observation is irrelevant.

`ReviewFeed` has the three tables, the writers, and one request at a time:
`Read` is one of the three statements, `Merge` the sort and cut after the last.

### Locations, DashboardSignals

`Locations`: `Submit` is `submit_location` as a whole (it awaits nothing between
the change of the samples and the analysis), for a time that the message names by
a clock that may be ahead by `MaxSkew`.

`DashboardSignals`: `Read` is a poll up to its awaits (the members are read
there), `Build` the rest: the sample enters the shared history, and the signal
is raised, kept or dropped (`Kept`, `Signal`).  `due` says that a snooze has run
out.

### WipeFollowUp

`trail` is the audit trail; `Item` is `summarize_wipe_readiness` for a member.
`Ask`, `Decide`, `Insert`, `Mark` are the steps of the three requests; `Active`,
`ReadMarker`, `Merge`, `RecordReopened`, `MarkReopened` those of a member's handler.
`Latest` is what a view finds in the rows it reads: with `DetailsDecoded = FALSE`
nothing, since the details of a row come back as text and every reader skips what
is not a dictionary (section 6, 3).  `Due` says which verifications an activity is
then still held against: those of this process, whose markers are in memory.

## 3. What the runs check

Components that share no state are explored in one run.  Its MC module extends
one of them, instantiates the others, and has a variable `part`, chosen once, that
says which of them moves while the others rest in their initial states.  The run
thus checks each component by itself over all of its behaviours, and claims
nothing about their interleaving, because there is nothing they could share.  The
constants of such a module have their values in its `.cfg`, and its assumption
`PartsAssumption` gathers those of its parts.

| Run | Instance | Components | Properties | Shows |
|---|---|---|---|---|
| `members` | `MCMembers` | `HubMembers` `MemberRoles` `LocalSessions` `MemberSessions` `Findings` | `EntriesAreServed` `ConnectedHasHandler` `KickIsSticky`; `RolesAgree`; `SessionsEnd`; `RotationLasts` `SessionLasts`; `NewsReopens` `CorroborationTold` | entries, roles and credentials agree with one another after overlapping requests and crashes; news reopens what was resolved, and a corroboration is told unless a statement or its broadcast failed |
| `members_live` | `MCHubMembers` | `HubMembers` | `QuietIsDropped` | a silent connection is given up, unless another connection of the same member keeps refreshing it |
| `wipe` | `MCWipe` | `HubBroadcast` `EvidenceVolume` | `DoneReachesEveryEntry`; `QuietExportVerifies` `WipeDestroysLast` | a broadcast that ends normally while nobody connected missed no entry; a wipe destroys the evidence when no hub is left, unless another command or hub came between; exports of evidence at rest verify |
| `delivery` | `MCReportDelivery` | `ReportDelivery` | `IsReportLog` | a note is recorded once while its receipt stands, and lost only with its session, with discards, breaks, reloads, hub crashes, refusals, ends of sessions and pruned receipts |
| `media` | `MCMedia` | `AudioIngest` `FrameIngest` `Transcripts` | `Accounted` `OnceInFirstWindow`; `KeepsTheBest` `StopDrains`; `NothingIsSilenced` | books and single enqueueing under eviction, trimming, expiry and restarts; better frames win; an orderly stop drains; no text is left out that the stored transcript does not end with, but for words remembered and not stored |
| `host` | `MCHost` | `HubLifecycle` `HostInstall` `ReviewFeed` | `AtMostOneActive` `Stoppable` `SealedAtRest` `ObeysOwnRequest` `EndsOnlyForCause`; `ReadyStarts`; `FeedShowsNewest` | starts, stops, kills and reboots; interrupted and repeated installs, failing starts and volumes left open against the drill's word; a feed read while its tables are written |
| `coordinator` | `MCCoordinatorRoute` | `CoordinatorRoute` | `EmittedHasBasis` `SerialBooks` `GapIsAssigned` | what the engine recommends has a basis under every interleaving of two calls; an open gap is put to a sensor |
| `wipe_follow_up` | `MCWipeFollowUp` | `WipeFollowUp` | `ReopenedOnce` `ReopenTold` | with rows that come back as text: a verification is reopened once, and on record however many rows came since, unless the hub was restarted in between |
| `live` | `MCLive` | `Locations` `ReportDelivery` `DashboardSignals` | `RecentIsKept` `NeighboursAreSeen`; `InFlightIsSettled` `DeliversUnlessMissed`; `QuietWasChosen` `SnoozeEnds` | notes are delivered, snoozes end, and members who stand together are seen together whatever their clocks say |
| `members_kick_served` | `MCHubMembers` | `HubMembers` | `KickedIsNotServed` (violated) | section 6, 1 |
| `broadcast_reach` | `MCHubBroadcast` | `HubBroadcast` | `WipeReachesConnected` (violated) | section 6, 2 |
| `coordinator_text` | `MCCoordinatorRoute` | `CoordinatorRoute` | `FindingOpensGap` (violated) | section 6, 3 |

Each property is stated, with a comment, in the component's module.

Operators named `X_...` directly before an operator `X`, commented "A fault" or
"Mutant", are plausible bugs of the code: with `X` replaced by such an operator,
TLC finds the property paired with it in `PROJECT.json` violated.  They are not
part of the specifications.

## 4. Bounds, symmetry and fairness

**Membership.**  Two members and two sockets; a socket is used again after its
handler has ended, so the number of connections over time is unbounded.  Two
sockets are what a take-over needs (an old and a new connection of one member);
the second member makes the watcher's list and the dictionary of broadcasts
longer than one.  Only one member is kickable, which halves the state space and
leaves the other as the bystander of a kick.  Sockets are symmetric.
The liveness run has one member with three sockets, so that a quiet connection may
have an older and a newer one of the same member beside it, which is what its
exception is about.

**Roles.**  One member and two requests, the fewest that overlap; any number of
joins, earlier handlers and failed sends.
**Local sessions.**  Six credentials over two runs of the hub and one browser: each
run has its bootstrap session and leaves a login, a code and a dashboard session
to issue.  **Member sessions.**  Two phones and two people, so that one may show
the other's code; two rotations under way at a time, and three tokens.

**Findings.**  Two writers of a row, two sources and three observations: corroboration takes
two sources, and the third observation is the late or the new one.  Two
signatures, severities 0 and 1, and one request of the coordinator, whichever: a
finding that news reopens needs one resolution.  The writers are symmetric.  The
hub has more of them, since every `/ws` handler is one; the two properties are
proved for any number (section 5).

**Broadcasts and evidence.**  As for membership, without kicks and restarts.  One
file of evidence and two exports, the second of which finds the first's archive;
two hub processes, one of which may still be ending while the other starts, each
any number of times.

**Delivery.**  Two notes, so that one can wait behind another; two connections,
so that the handler of the old one can still be at work when the new one
authenticates; two failures of any kind (`MaxFaults`), the least in which a
resend fails too.  Refusals, ends of the session and receipts that are pruned count
as failures.  The second note may be discarded, the first may not.  `MaxPending` is
2 in the safety run; it is 1 in the liveness run, where a full outbox refuses the second note unless both were written at
once.  The liveness run has one failure and no discards: a note that is
discarded while a flush puts it back leaves `inFlightEntryId` set until the
connection closes.

**Audio.**  Two chunks of a sensor and one of an observer, whom a sensor outranks,
for a queue of two and a cache of one: eviction, refusal and trimming all happen.
`MaxSequence` bounds how many chunks are enqueued between two starts.  The two
handlers are symmetric, and so are the sensor's chunks.
**Frames.**  A sensor and an observer, two change scores, times 0, 1 and 3 (within
the rate limit, within the two seconds in which duplicates are looked for, beyond
them), a depth of two per member in a queue of three, so that each limit is met
before the other; four puts.
**Transcripts.**  Two words, chunks of at most two segments of at most three words;
the overlaps that are trimmed (2 to 3 words) and what is remembered (3) keep the
order of the code's constants (3 to 20 words, 600 characters); `DropAfter` is the
code's own 2, so that the first repetition of a text is kept and the second is not.

**Lifecycle.**  Three starts, so that a second hub inherits from a first and a
third from both; one terminal.  `Overlap = FALSE` is the assumption of a careful
operator, who waits until a command has returned (or a hub has started) before
giving the next.  It is not a limit of the instance.  With `Overlap = TRUE`
`AtMostOneActive` and `SealedAtRest` still hold (4.5 million states): a start
looks for an operation only once it has opened the volume, so the volume serves as
the lock that the files are not.  `Stoppable`, `ObeysOwnRequest` and
`EndsOnlyForCause` fail: two starts at once pass `ensure_hub_not_running`, and the
`finally` block of the one that finds the volume open removes the state file, or
the stop request, of the other.  The other storage backend ("directory") opens no
volume and so has no such lock; it is not modelled here.  A pid is used once; after
a reboot a reused pid in a stale state file would make `osk start` refuse and
`osk stop` signal a stranger.
**Installation.**  Two passphrases and two key pairs: what a repetition replaces or
keeps; any number of starts, failures and hubs that die.
**Feed.**  Two findings, an event and a sitrep, a limit of one (so that the
cut matters) and one write between the statements of a request.

**Coordinator.**  Two members, two calls at a time (the fewest that interleave);
four findings, reports and changes of a member's ability in all, and any number of
refreshes.
**Wipe follow-up.**  One member, one handler, eight readings of the clock (each row
of the trail takes one) against a window of three, and one restart: rows do leave
the window.  `DetailsDecoded` is `FALSE`, as the pool is; with `TRUE`, as the tests'
database gives rows back, both properties hold as well.
**Locations.**  Three members on two spots that are out of each other's reach, a
clock at most one ahead, samples that last two: a third member can push a sample
out between two neighbours' reports.
**Signals.**  Two senders with at most two buffered items each and two open streams;
the thresholds (2, 3, 4) lie within what two senders can hold, in the order of
the code's.

**Fairness** is stated only in specifications named `FairSpec` and in `AllSpec` of
`MCLive`, which states that of its components for the part that moves.

- `HubMembers`: the event loop resumes a coroutine whose await is over (`Leave`,
  `Left`, the watcher's steps), the watcher polls, and time passes (`Elapse`).
  Nothing is assumed of clients, the coordinator or crashes.  `Leave` is the end
  of a handler whose WebSocket is already closed: `receive()` returns at once.
- `ReportDelivery`: IndexedDB answers its requests, both event loops run, the
  reconnect timer of `member.js` re-arms itself until a connection succeeds, and a
  connection that does not break delivers.  Failures are bounded, never forced.
- `CoordinatorRoute`: the event loop brings each call to its end, and an open
  dashboard goes on asking for the coordinator's state (`Refresh`), as its page does.
- `DashboardSignals`: open streams go on polling (`Read`, `Build`), and the time of
  a snooze passes.
- All fairness is weak: each of these steps stays enabled until it is taken.

Deadlock is checked where the system should always be able to go on: in
`members_live` and in `coordinator`.  The other instances really stop: all notes
delivered, all chunks enqueued, all starts and observations used up.

## 5. What is proved

A proof module holds for every value of the constants that the named assumptions
of its modules admit; none of the bounds of section 4 is used.  `X_proofs` extends `X`;
for an `MC` module, whose constants have their values only in the `.cfg`, that
means the components it puts together, named as the module names them
(`Sessions!Spec`).  Its lemma `Composed` shows that the specification a run
explores implies those of its parts, and `PartsHold` concludes that this
specification has the properties.

| Module | Theorem | Statement | Inductive invariant |
|---|---|---|---|
| `HubMembers_proofs` | `TypeCorrect` | `Spec => []TypeOK` | `TypeOK` |
| | `Invariance` | `Spec => []IInv` | `IInv` |
| | `ServedEntries` | `Spec => []EntriesAreServed` | `IInv` |
| | `NoGhostMembers` | `Spec => []ConnectedHasHandler` | `IInv` |
| | `DurableMembers` | `Spec => []AdmittedIsDurable` | `IInv` |
| | `KickedRows` | `Spec => []KickedRowIsKicked` | `IInv` |
| | `StickyKick` | `Spec => KickIsSticky` | `IInv` |
| `MCMembers_proofs` | `RolesAlwaysAgree` | `Roles!Spec => []RolesAgree` | `RolesInv` |
| | `LogoutEndsSessions` | `Local!Spec => []SessionsEnd` | `LocalInv` |
| | `RotationHolds` | `Sessions!Spec => []RotationLasts` | `SessionTypes`, `RotationInv` |
| | `SessionsHold` | `Sessions!Spec => []SessionLasts` | `SessionTypes`, `SessionInv` |
| | `NewsAlwaysReopens` | `Found!Spec => []NewsReopens` | `FindingTypes`, `NewsInv` |
| | `CorroborationAlwaysTold` | `Found!Spec => []CorroborationTold` | `FindingTypes`, `StampInv`, `ToldInv` |
| `MCWipe_proofs` | `BroadcastInvariance` | `BroadcastSpec => []BInv` | `IInv`, `Accounted` |
| | `DoneReaches` | `BroadcastSpec => DoneReachesEveryEntry` | `IInv`, `Accounted` |
| | `EvidenceGoesLast` | `Evidence!Spec => WipeDestroysLast` | `WipeInv` |
| | `QuietExportsVerify` | `Evidence!Spec => []QuietExportVerifies` | `ArchiveInv` |
| `MCMedia_proofs` | `ChunksAreAccounted` | `AllSpec => []Accounted` | `QueueInv` |
| | `ChunksEnterOnce` | `AllSpec => OnceInFirstWindow` | `QueueInv`, `ClaimInv` |
| | `FramesAreDrained` | `AllSpec => []StopDrains` | `FrameInv` |
| | `BestFramesAreKept` | `AllSpec => KeepsTheBest` | `FrameInv` |
| | `NobodyIsSilenced` | `AllSpec => []NothingIsSilenced` | `TalkInv`, `StoredInv` |
| `MCHost_proofs` | `OneOperation` | `Spec => []AtMostOneActive` | `TypeInv`, `LockInv`, `OneActive` |
| | `Sealed` | `Spec => []SealedAtRest` | the same and `LeftOpen` |
| | `ServingIsStoppable` | `Overlap = FALSE => (Spec => []Stoppable)` | the same and `CarefulInv` |
| | `OwnRequestObeyed` | `Overlap = FALSE => (Spec => ObeysOwnRequest)` | `CarefulInv` |
| | `EndsForACause` | `Overlap = FALSE => (Spec => EndsOnlyForCause)` | `CarefulInv` |
| | `PromisedStarts` | `Install!Spec => ReadyStarts` | `InstallTypes`, `Promise`, `PairFits`, `ImageFits` |
| | `NewestAreShown` | `Feed!Spec => []FeedShowsNewest` | `FeedTypes`, `FeedInv` |
| `MCLive_proofs` | `NotesAreLogged` | `Spec => IsReportLog` | `NoteInv` |
| | `RecentSamplesAreKept` | `Located!Spec => []RecentIsKept` | `LocationInv` |
| | `NeighboursAreReported` | `Located!Spec => NeighboursAreSeen` | `LocationInv` |
| | `QuietIsChosen` | `Signals!Init /\ [][Signals!Next]_(..) => []QuietWasChosen` | `SignalInv` |
| `CoordinatorRoute_proofs` | `RoutesHaveABasis` | `Spec => []EmittedHasBasis` | `IInv` |
| | `SerialCallsKeepBooks` | `Spec => []SerialBooks` | `IInv` |
| `WipeFollowUp_proofs` | `ReopensOnce` | `Spec => []ReopenedOnce` | `IInv` |
| | `ReopeningIsTold` | `Spec => []ReopenTold` | `IInv` |

**Assumptions.**  They are the named `ASSUME`s of the modules, which say that ids
of nobody (`NoMember`, `NoSocket`, `NoChunk`, ...) are nobody's and that limits are
numbers, positive where the code divides a queue or takes a first element by
them.  Some sets must be finite, as they are in any run of the program, because
something is counted or a greatest element taken: the hubs, the rows of the
feed's three tables, the members of `Locations`, `CoordinatorRoute` and
`WipeFollowUp`.  Three are more than that:

- `Overlap = FALSE`, for three theorems of `MCHost_proofs`, is the careful operator
  of section 4.  Without it they are false.
- `DropAfter > 1` of `Transcripts` (the code's number is 2): with 1 the first
  repetition would be dropped, also after the only chunk that had the text
  could not be read, and one failure of reading would silence somebody.
- `MaxWords <= Recent` of `Transcripts`: a segment fits into the 600 characters
  that are remembered.  A longer one would be cut there.

The conditions inside a property are history variables of the model: `mixed` and
`crossed` and `overlapped` say that two pieces of work have overlapped, `alone` and
`answered = 0` the same of one member's roles, of the stages of a wipe and of
rotations, `quiet` that no file changed, `addressed` whom a broadcast owes its
message as long as nobody connected, `cut` that an install was cut short at its
image or its pair, `left` that the mapper was left open, `failed` that a statement
or a broadcast failed, `since` how many words came after a storing that failed,
`over` which notes are of ended sessions, `started` which rows were there before
the last restart.  Behaviours in which they never become true are those of the undisturbed
program, and in the instances of section 3 both kinds occur.

**The arguments**, where they are more than a walk through the actions:

- *Membership.*  `IInv` is `TypeOK` with the four invariants and `KickUnderWay`.
  `TypeOK` also ties the tables of `ConnectionManager` to one another and handlers
  to owners.  `KickedRowIsKicked` is not inductive: a kick writes the row in a step
  of its own, so that a kick under way must be known to belong to a member whose
  status is already kicked; and nothing but a restart takes that away
  (`KickedStays`).  `ConnectedHasHandler` rests on the guard of `mark_disconnected`
  and on each handler marking its member at its end.
- *Broadcasts.*  As long as nobody connected, the entries are among those of the
  beginning, which were `size` many; so if their number is still `size`, they are
  the same.  Each entry of the beginning that has not taken the message is gone,
  still ahead of the iterator, or closed (`Owed`, `Accounted`), and a loop that
  comes to its end has none ahead and none gone.  That an entry that stays has a
  handler is `IInv` of `HubMembers`, which therefore has to survive the removals at
  the end of a loop (`FinishKeepsIInv`).
- *Wipe.*  The stages of a wipe narrow down which process may live: the hub that
  told the members, then the one waited for, then none (`WipeOrder`), as long as
  `alone` says that nothing else stepped in between.
- *Roles.*  A member has no row before its record and no entry before its row
  (`Placed`); the one change in progress has been made in memory, and its position
  says which of the other places have followed (`Alone`).
- *The life of a hub.*  The open evidence volume is the lock.  Whoever looks for an
  active operation, or creates one, holds it, and nobody else does; what it found
  stays true until it writes.  This covers commands that overlap.  For a careful
  operator there is one hub at a time that still has the control files ahead of it
  (`OneCurrent`); the state file, the request and every stop command under way are
  about that one, although whoever ends or fails removes the files unread.
- *Installation.*  What the drill promised is lost only by being removed
  (`Promise`); the pair and the image are either consistent, or an install is at
  work on them, or one was cut short (`PairFits`, `ImageFits`).  `ImageFits` also
  says who may have the mapper open: an install, a start that is past the volume, a
  hub, or nobody any more (`left`).
- *Exports.*  Each pass records what the next compares: sizes, then contents, then
  the archive's sum.  `ArchiveInv` says how far they agree as long as nothing
  changes, whatever older archive lies in the way.
- *Feed.*  An item that matched when the request came and was not touched since is
  yet to be read, has been read as it is, or is crowded out (`FeedInv`).  Crowding
  lasts, because rows only become newer (`CrowdedLasts`); and a statement with a
  limit leaves an item out only for as many newer ones (`LeftOut`).
- *Rotations.*  `answered` is the token last answered as long as no two rotations have
  overlapped; until then the tokens in memory and row are never older, and at most
  one rotation is between the two.
- *Local sessions.*  Every process has a list of file operations.  Unless two were
  mixed, one process is at work; a start or a logout that is under way has, for
  each credential, either removed it or has the removal still on its list, and
  nothing on any list fills it again (`Starting`, `Leaving`).  Nothing is induced
  over lists: what matters of one is the set of its steps (`Of`), and lemmas say
  how that set grows with `\o` and shrinks with `Tail`.
- *Findings.*  A resolved finding was resolved on the newest thing recorded in it.
  A corroboration is told by exactly one worker, whom its stamp identifies
  (`StampInv`), and until that worker is through, the statements behind it are done,
  while its alert is addressed to sensors and coordinators, because a corroboration
  speaks one severity up (`ToldInv`).
- *Audio.*  Live entries have numbers below the next one and no two the same; the
  four counters are their number, their count per member and the difference.  The
  candidate for eviction exists because a finite set ordered totally has a first
  element (`FirstIsThere`, from a smallest subset without one, as the library's
  induction principles cannot be used).  A chunk that was in the queue within its
  first window has a fresh receipt, and nobody goes by an older one (`Claims`).
- *Frames.*  The counters, as for audio, and the two victims: each shows as little
  as anything in its set, and the newcomer at least as much.  An orderly stop
  closes the intake only when no handler has a frame in hand (`Stopping`).
- *Transcripts.*  Between two chunks that had the last text in them what is
  remembered ends with that text, or the only chunk that had it could not be read
  and no repetition has been counted (`Remembered`); within a chunk, what is
  remembered with what the chunk adds ends with it, and repetitions are at most
  those of this chunk and of those that could not be read (`Repeated`).  Trimming
  removes only words that the remembered text ends with (`EndsTrimmed`).  What is
  remembered and what is stored are the same as far back as the last storing that
  failed (`Agree`, `StoredInv`).
- *Notes.*  The refinement goes step by step: each step of browser, connection, hub
  or database moves the fate of at most one note, or of notes of ended sessions
  together, and that as `ReportLog` allows (`OneNoteGoesOn`, `StepIsLogged`).
  `NoteInv` says that a receipt has its event, that a handler which saw a receipt saw
  the truth, that a kept note is in the store, discarded, recorded or of an ended
  session, and that what a clearing deletes is of an ended one.
- *Positions.*  Samples are pruned by the time of the sample that comes in, which a
  member's clock may put ahead of the hub's by `MaxSkew`.  A sample no older than
  `Ttl - MaxSkew` by the hub's clock is no older than `Ttl` by any clock the
  message can name (`PrunedKeeps`), so a neighbour's is there to compare with.
- *Coordinator.*  What a call has read may be out of date when it writes, but what
  it recommends rests on facts that stay: a report once given, a gap once resolved
  (`Based`).  `SerialBooks` needs what each step of a lone call has read and not yet
  written (`SerialCall`).
- *Wipe follow-up.*  The markers are a cache of the trail.  A marker is true of a
  member if its verification is the last on record and its reopening set just if
  one is recorded since (`True`); it is true whenever no row waits for its marker
  (`MarkersTrue`), and what a request or an activity goes on to write will be true
  (`RequestTrue`, `Right`).  A restart forgets markers.  As rows come back as text,
  none is read back, and a member without a marker was not verified by this process
  (`NoneHere`); were they decoded, what is read back from the window would be true
  again (`TrueMerged`).  The proof covers both.

**Only model-checked.**

- Liveness (`QuietIsDropped`, `InFlightIsSettled`, `DeliversUnlessMissed`,
  `GapIsAssigned`, `SnoozeEnds`): fairness is stated with `ENABLED`, which the provers do
  not treat.
- The three properties of section 6 that are violated.

## 6. Where the code and its documents disagree

Shown by a run, each as a counterexample:

1. *A kick can miss a join* (`members_kick_served`).  The design lists "Kick member
   from operation" among the coordinator's powers.  In the run's trace the handler of
   a first join has put the member in memory and inserted its row; the kick is
   answered, finding no entry to disconnect, and the handler then registers and
   serves the member, whose status stays `kicked` all the while.  The same gap follows
   `resume_member`'s check when a member reconnects.
2. *A wipe may not reach connected members* (`broadcast_reach`).  A join or
   departure during the sends changes the size of the dictionary that
   `broadcast()` iterates, which raises `RuntimeError`.
3. *A stored finding never reaches the coordinator engine* (`coordinator_text`).
   The README promises that the engine "promotes route-related findings into
   tracked confirmation gaps".  The pool registers no codec for `jsonb`, so the
   row that the upsert returns has text where `model_validate` wants a dictionary
   (`intelligence_service.py:513`).  `MCCoordinatorRoute.cfg` checks the engine
   with `DetailsDecoded = TRUE`, that is, with the finding as it was meant.  The
   same cause makes the readers of the audit trail skip every row
   (`server.py:675`, `695`, `715`, `736`, `941`, `1062`): a stored verification closes
   no item, the history is empty, and a restart forgets what was verified.
   `MCWipeFollowUp.cfg` checks the follow-up as it is, with `DetailsDecoded = FALSE`.

Seen while modelling, without a run of their own:

- *Membership.*  A crash between a kick's change in memory and its row lets the
  member resume after the restart.  `mark_seen` goes by member id, so an older
  connection keeps the entry of a silent newer one fresh (the exception in
  `QuietIsDropped`).  An exception between `resume_member` and the assignment of
  `member_id` leaves a member connected without a handler (`server.py:3561`).
- *Roles.*  Two overlapping changes may write their rows in the other order.  A change
  between a join's record and its INSERT updates no row and is undone by a restart.
  The end of an older handler takes a member's entry away while its newer client
  lives on; that client is not told of a change.
- *Broadcasts.*  A registration during the sends may compact the dictionary under the
  iterator, and entries are then passed over without an exception.
- *Sessions.*  An exchange that overlaps a logout writes the dashboard session the
  logout has just removed; a command that spans a restart brings a credential of
  the old run along; whoever reads a torn file removes the one being written.
  Overlapping rotations may leave the older token in the row.  A lost `auth_ok`
  leaves a member nobody can resume, and the retry makes another.
- *Outbox.*  A reconnect may not drain it: an `auth_ok` that meets a flush which
  already decided not to send starts no other one.  Two notes written at once
  exceed the limit by one.  A retryable rejection clears the entry in flight
  without a new flush.  The end of a session deletes the notes that were not
  delivered, also when the hub refuses it with 4003 or 4004.  A note
  resent after its receipt was pruned is recorded again.
- *Audio.*  A clip that the full queue refused is "already received" when it is
  sent again: the receipt is claimed before the queue is asked.  Tombstones make
  the heap unbounded.  An expired receipt is selected and updated in two
  statements, so two submissions may both count as new (hence
  `OnceInFirstWindow`).
- *Transcripts.*  One transcriber serves all members, so another member's identical
  words are trimmed and their corroboration is lost; a later segment of a chunk
  is compared with the text of the previous chunk; a text is remembered even if
  storing it failed, and its next repetition is then trimmed away although the
  transcript does not have it.
- *Lifecycle.*  `osk stop` may leave the volume open when it falls back to SIGTERM.
  After a crash or a failed `umount` every start fails until the volume is closed
  by hand; a failed start ends the operation it had resumed; `--fresh` goes on
  when it could not reach the database.
- *Installation.*  An install interrupted after the image was made leaves one that
  `osk doctor` and the drill call ready, that `osk install` takes for finished, and
  that no start can open (`storage.py:57`); a hub that dies, a close that fails and
  `osk evidence unlock` leave the mapper open, which the next start does not expect,
  whatever the drill says; a second install with another passphrase silently keeps
  the first; a lost key beside a surviving certificate
  can end in a mismatched pair.  `osk drill wipe` always exits with 1.
- *Evidence.*  `osk evidence destroy` does not look for a running hub, which then
  writes to the bare mount point; nothing locks what `osk evidence unlock` opened,
  and it blocks the next start; files that change between the three passes of an
  export make it fail to verify; `wipe` may end after its five seconds although
  members were told.  A hub removes its state file before it is through, and
  `stop_hub` answers 0 without one: a wipe that meets a hub already on its way down
  may destroy the evidence under it, and one that is overtaken by the next start
  under the new hub.
- *Coordinator.*  Overlapping refreshes assign two sensors; an update of a gap by
  its id after the gap was resolved loses the need; superseding a recommendation
  fails by a foreign key.
- *Findings.*  An upsert overwrites the operator's escalation; counts and sources go
  backwards when an incident has expired; a failed statement loses a
  corroboration; acknowledging a resolved finding keeps `resolved_at`.  The upsert
  compares with the observation it was told of last, not with the newest: of two
  late observations recorded one after the other, by three writers, the second is
  taken for news and reopens.
- *Feed.*  The cut per type is twice the limit; findings are ordered by one
  timestamp in the API and by another in `osk findings`; the filter by status lets
  events pass; the three statements are not a snapshot.
- *Locations.*  One fast clock prunes everybody's samples; an older sample that
  comes late replaces a newer one; the page sends no `captured_at`, and calls
  `accuracy_m` "accuracy".
- *Wipe follow-up.*  A marker written after an await replaces a newer one; the
  dashboard derives its items from 200 rows, the command from 20 filtered ones,
  and they differ; an item comes back when the row that closed it leaves the
  window.
- *Signals.*  Every open stream adds to the shared history, so that "sustained" is
  reached the sooner the more dashboards are open; acknowledging names the kind
  of a signal, not the one that was seen.

## 7. What is not modelled

Components without a module:

- *Field tasks* (`tasking.py`).  They have no running caller: the endpoints raise
  `NameError` before a task is touched (`server.py:3115`, `3193`, `3224`), the insert
  would violate a CHECK of its migration, and reading a row back fails on its ids.
- *Fusion* (`intelligence_fusion.py`, `fusion_service.py`).  No running service
  constructs it, and its calls pass arguments that the callees do not take.
- *Install readiness* (`install_readiness.py`) imports a name that `config.py` does
  not have; *after-action review* (`after_action_review.py`) uses a database
  function and columns that do not exist.  Both raise before they do anything.
- *Finding detail and correlations*: the queries' `jsonb` comes back as text, and
  the code that reads `details` raises (`db.py:1142`, `1174`).
- *Member outbox: media entries, eviction, retries*: left to the plan.
- *Member PWA runtime* (service worker, capture): left to the plan; it is mostly
  the browser's own state.
- *Command line parsing, configuration files, hotspot, QR codes, map tiles,
  scripts, data models*: input, output and rendering without state that steps of
  two actors share.

Within the modelled ones:

- membership: the audit writes (kept only as suspension points), names, and
  failing statements in the handler;
- broadcasts: the filter by role and threshold (`Findings` has it as the audience of
  an alert) and `send_to`;
- delivery: refused notes (an empty text), the retry button, the button that
  discards all notes;
- audio: the deletion of receipts past the retention period (`ReportDelivery` has
  it), the adapter behind the worker;
- lifecycle: local services (`HostInstall` has their failure), hotspot, what members
  are told (`op_ended`), the
  "directory" storage backend, and a torn read of the stop request, which the code
  treats as a plain stop;
- findings: the texts, sitrep contents, and the model's answers beyond whether an
  observation is relevant;
- evidence: contents of files beyond their version, the sidecars' layout, and what a
  hub writes to the bare mount point once its volume is destroyed;
- wipe follow-up: the list of its history, which skips every row whose details are
  text, that is, all of them.

## 8. Plan

Done: `HubMembers` with its proofs, `HubBroadcast`, `ReportLog` and
`ReportDelivery`, `AudioIngest`, `HubLifecycle`; then `CoordinatorRoute`,
`LocalSessions` and `MemberSessions`, `MemberRoles`, `FrameIngest`, `Transcripts`,
`Findings`, `ReviewFeed`, `DashboardSignals`, `WipeFollowUp`, `HostInstall`,
`EvidenceVolume` and `Locations`; and the proofs of section 5.

Left, in order of importance:

1. `MemberOutbox`: media entries, eviction, retry and expiry beside the notes, with
   `ReportDelivery`'s page as its context; limit of pending items, nothing in
   flight evicted.
2. Statements that fail in the `/ws` handler: the exception paths between
   `resume_member` and the `finally` block.
3. The capture of media and the service worker of the member's page.
4. Fusion and field tasks, when they have running callers.

Proofs left: with `MemberOutbox`, that the limit of pending items holds and that
nothing in flight is evicted; that stale news leaves a finding closed, should the
upsert come to compare observation times.
