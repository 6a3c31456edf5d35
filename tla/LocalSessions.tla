---------------------------- MODULE LocalSessions ----------------------------
(***************************************************************************)
(* The operator's credentials (local_operator.py): four files in the       *)
(* state directory, each a token with an expiry, shared by the hub process *)
(* and the osk commands.  Starting the hub leaves a bootstrap, `osk        *)
(* operator login` trades it for an operator session, `osk dashboard`      *)
(* writes a one-time code, and a browser trades that at the hub for the    *)
(* dashboard session its cookie names.                                     *)
(*                                                                         *)
(* No lock guards the files.  A command is the sequence of file operations *)
(* it still has to do; those of the hub and of a command interleave, and a *)
(* write truncates the file before it fills it.  Whoever reads a file that *)
(* is torn or expired removes it, as an operation of its own.              *)
(***************************************************************************)
EXTENDS Naturals, Sequences, FiniteSets, SequencesExt

CONSTANTS
    Browsers,    \* browsers on the hub's machine
    MaxIds,      \* bound: tokens written
    MaxRuns      \* bound: starts of the hub

SessionsAssumption == IsFiniteSet(Browsers) /\ MaxIds \in Nat /\ MaxRuns \in Nat

VARIABLES
    file,      \* file[f]: [state, id, run]; run of the hub it was written for
    issued,    \* tokens written so far
    run,       \* starts of the hub
    up,        \* hub-state.json names a running hub
    hub,       \* the file operations the hub has left
    cli,       \* those of the osk command: [for, run, todo]
    shown,     \* the code `osk dashboard` printed last
    cookie,    \* cookie[b]: the dashboard session of a browser, 0 for none
    out,       \* history: a logout is complete, nothing was started since
    mixed      \* history: a command overlapped a start or an exchange

vars == <<file, issued, run, up, hub, cli, shown, cookie, out, mixed>>

File == {"bootstrap", "operator", "code", "dashboard"}
Absent == [state |-> "absent", id |-> 0, run |-> 0]
Live(f) == file[f].state = "live"
Bad(f) == file[f].state \in {"torn", "expired"}

Clear(f) == [do |-> "clear", f |-> f]
Create(f) == <<[do |-> "truncate", f |-> f], [do |-> "fill", f |-> f]>>
ClearBad(fs) == SetToSeq({Clear(f) : f \in {g \in fs : Bad(g)}})

NoCommand == [for |-> "none", run |-> 0, todo |-> <<>>]

Init ==
    /\ file = [f \in File |-> Absent]
    /\ issued = 0 /\ run = 0 /\ up = FALSE
    /\ hub = <<>> /\ cli = NoCommand
    /\ shown = 0 /\ cookie = [b \in Browsers |-> 0]
    /\ out = FALSE /\ mixed = FALSE

-----------------------------------------------------------------------------
(* One file operation, of a process working for run r.                     *)

Do(step, r) ==
    CASE step.do = "clear" ->
            file' = [file EXCEPT ![step.f] = Absent] /\ UNCHANGED <<issued, shown>>
      [] step.do = "truncate" ->
            file' = [file EXCEPT ![step.f] = [Absent EXCEPT !.state = "torn"]]
            /\ UNCHANGED <<issued, shown>>
      \* a file removed since it was truncated is filled unseen
      [] step.do = "fill" ->
            /\ issued < MaxIds
            /\ issued' = issued + 1
            /\ file' = IF file[step.f].state = "absent" THEN file
                       ELSE [file EXCEPT ![step.f] =
                                [state |-> "live", id |-> issued', run |-> r]]
            /\ shown' = IF step.f = "code" THEN issued' ELSE shown

-----------------------------------------------------------------------------
(* osk operator login, osk dashboard, osk operator logout, osk status      *)

Begin(name, todo) ==
    /\ cli.for = "none" /\ todo # <<>>
    /\ cli' = [for |-> name, run |-> run, todo |-> todo]
    /\ mixed' = (mixed \/ hub # <<>>)
    /\ UNCHANGED <<file, issued, run, up, hub, shown, cookie>>

Quits == <<Clear("code"), Clear("dashboard")>>

\* A live operator session is refreshed; without one the bootstrap is
\* consumed; without either the command only removes what it read as bad.
Login ==
    /\ up
    /\ Begin("login",
             IF Live("operator") THEN Quits \o Create("operator")
             ELSE ClearBad({"operator", "bootstrap"}) \o
                  IF Live("bootstrap")
                     THEN <<Clear("bootstrap")>> \o Quits \o Create("operator") ELSE <<>>)
    /\ out' = FALSE

Dashboard ==
    /\ up
    /\ Begin("dashboard",
             IF Live("operator") THEN Quits \o Create("code") ELSE ClearBad({"operator"}))
    /\ out' = FALSE

\* Mutant: logging out leaves the dashboard session.
Logout_KeepsDashboard ==
    /\ Begin("logout", <<Clear("code"), Clear("operator")>>)
    /\ UNCHANGED out

Logout ==
    /\ Begin("logout", ClearBad({"operator"}) \o Quits \o <<Clear("operator")>>)
    /\ UNCHANGED out

Status == Begin("status", ClearBad(File)) /\ UNCHANGED out

Command ==
    LET rest == Tail(cli.todo) IN
    /\ cli.for # "none"
    /\ Do(Head(cli.todo), cli.run)
    /\ cli' = IF rest = <<>> THEN NoCommand ELSE [cli EXCEPT !.todo = rest]
    /\ out' = IF rest = <<>> /\ cli.for = "logout" THEN TRUE ELSE out
    /\ UNCHANGED <<run, up, hub, cookie, mixed>>

-----------------------------------------------------------------------------
(* The hub process: one thread, so a request's operations are not mixed    *)
(* with another request's.                                                 *)

HubDoes(todo) ==
    /\ hub' = todo
    /\ mixed' = (mixed \/ cli.for # "none")
    /\ UNCHANGED <<file, issued, cli, shown, cookie, out>>

Start ==
    /\ ~up /\ hub = <<>> /\ run < MaxRuns
    /\ HubDoes(Quits \o <<Clear("operator")>> \o Create("bootstrap")
                     \o <<[do |-> "up", f |-> "bootstrap"]>>)
    /\ run' = run + 1
    /\ UNCHANGED up

\* hub_state goes first, then the four files.
Stop ==
    /\ up /\ hub = <<>>
    /\ HubDoes(Quits \o <<Clear("bootstrap"), Clear("operator")>>)
    /\ up' = FALSE
    /\ UNCHANGED run

Crash ==
    /\ up
    /\ up' = FALSE /\ hub' = <<>>
    /\ UNCHANGED <<file, issued, run, cli, shown, cookie, out, mixed>>

\* A request with a cookie reads the dashboard file, then the operator's.
Admits(b) == up /\ cookie[b] # 0 /\ Live("dashboard") /\ file["dashboard"].id = cookie[b]

\* POST /api/operator/dashboard-session with the code the operator reads off
\* the terminal; the session is in the file before the cookie is sent.
\* A browser that is let in already keeps what it has, and the code.
Exchange(b) ==
    LET read == IF cookie[b] = 0 THEN <<>> ELSE ClearBad({"dashboard"}) IN
    /\ up /\ hub = <<>> /\ shown # 0 /\ ~Admits(b)
    /\ IF Live("code") /\ file["code"].id = shown
          THEN HubDoes(read \o <<Clear("code")>> \o Create("dashboard")
                       \o <<[do |-> "cookie", f |-> "dashboard", for |-> b]>>)
          ELSE Bad("code") /\ HubDoes(read \o <<Clear("code")>>)
    /\ UNCHANGED <<run, up>>

Request(b) ==
    /\ up /\ hub = <<>> /\ ~Admits(b)
    /\ ClearBad({"dashboard", "operator"}) # <<>>
    /\ HubDoes(ClearBad({"dashboard", "operator"}))
    /\ UNCHANGED <<run, up>>

Hub ==
    /\ hub # <<>>
    /\ hub' = Tail(hub)
    /\ CASE Head(hub).do = "up" -> up' = TRUE /\ UNCHANGED <<file, issued, shown, cookie>>
         [] Head(hub).do = "cookie" ->
               /\ cookie' = [cookie EXCEPT ![Head(hub).for] = issued]
               /\ UNCHANGED <<file, issued, shown, up>>
         [] OTHER -> Do(Head(hub), run) /\ UNCHANGED <<up, cookie>>
    /\ UNCHANGED <<run, cli, out, mixed>>

Expire(f) ==
    /\ Live(f)
    /\ file' = [file EXCEPT ![f].state = "expired"]
    /\ UNCHANGED <<issued, run, up, hub, cli, shown, cookie, out, mixed>>

Next ==
    \/ Login \/ Dashboard \/ Logout \/ Status \/ Command
    \/ Start \/ Stop \/ Crash \/ Hub
    \/ \E b \in Browsers : Exchange(b) \/ Request(b)
    \/ \E f \in File : Expire(f)

Spec == Init /\ [][Next]_vars

-----------------------------------------------------------------------------
\* Unless a command overlapped the hub's own work on the files: once a logout
\* is complete no browser is let in and no operator session is left, and what
\* the hub accepts was issued since it started, whatever a crash left behind.
\* (An exchange in progress during a logout writes the dashboard session the
\* logout has just removed; a command that spans a restart brings a
\* credential of the old run into the new one.)
SessionsEnd ==
    ~mixed =>
        /\ out => ~Live("operator") /\ \A b \in Browsers : ~Admits(b)
        /\ up => \A f \in File : Live(f) => file[f].run = run
=============================================================================
