------------------------ MODULE CoordinatorRoute_proofs ------------------------
(* Proofs about CoordinatorRoute.  What a call has read of the books may be  *)
(* out of date when it writes; what it goes on to recommend rests on rows    *)
(* that never change back: a report once given, a gap once resolved (Based). *)
EXTENDS CoordinatorRoute, SequenceTheorems, WellFoundedInduction, TLAPS

RouteSet == Routes \cup {None}
Steps == {"idle", "late", "withdraw", "find_gap", "write_gap", "complete", "resolve", "blocked",
          "emit", "insert_rec", "read_gap", "read_task", "cancel", "assign"}
GapSet == [open : BOOLEAN, route : RouteSet]
TaskSet == [member : Members \cup {None}, gap : Nat, route : RouteSet,
            status : {"open", "completed", "cancelled"}, said : Said \cup {None}]
RecSet == [emitted : BOOLEAN, route : RouteSet, task : Nat]
CallSet == [at : Steps, then : {"idle", "find_gap", "emit", "insert_rec"}, route : RouteSet,
            said : Said \cup {None}, gap : Nat, task : Nat, rec : Nat, member : Members \cup {None}]

TypeInv ==
    /\ able \in [Members -> BOOLEAN]
    /\ gaps \in Seq(GapSet) /\ tasks \in Seq(TaskSet) /\ recs \in Seq(RecSet)
    /\ call \in [Calls -> CallSet]
    /\ overlapped \in BOOLEAN

\* A task a recommendation can rest on, now and always.
Based(t) == t \in DOMAIN tasks /\ tasks[t].said # None /\ ~gaps[tasks[t].gap].open

\* What a call has read is there, and what it will recommend has its basis.
CallOk(c) ==
    /\ c.at = "withdraw" =>
          c.rec \in DOMAIN recs /\ c.then # "idle" /\ (c.then # "find_gap" => Based(c.task))
    /\ c.at \in {"write_gap", "read_task"} => c.gap = 0 \/ c.gap \in DOMAIN gaps
    /\ c.at = "assign" => c.gap \in DOMAIN gaps
    /\ c.at = "cancel" => c.task \in DOMAIN tasks
    /\ c.at = "complete" =>
          c.task \in DOMAIN tasks /\ c.gap = tasks[c.task].gap /\ c.said # None
    /\ c.at = "resolve" =>
          c.task \in DOMAIN tasks /\ c.gap = tasks[c.task].gap /\ tasks[c.task].said # None
    /\ c.at \in {"blocked", "emit", "insert_rec"} => Based(c.task)

RowsOk ==
    /\ \A t \in DOMAIN tasks : tasks[t].gap \in DOMAIN gaps
    /\ \A r \in DOMAIN recs : Based(recs[r].task)

BasisInv == RowsOk /\ \A p \in Calls : CallOk(call[p])

\* The route the report on a task stands for.
Meant(t) == IF tasks[t].said = "clear" THEN tasks[t].route ELSE Alternate(tasks[t].route)
Asked(t) == tasks[t].status = "open"
NoneAsked == \A t \in DOMAIN tasks : ~Asked(t)

\* What a call has read is as it was, when no other interferes.
SerialCall(c) ==
    /\ c.at = "withdraw" /\ c.then # "find_gap" => ~Asked(c.task) /\ c.route = Meant(c.task)
    /\ c.at \in {"emit", "insert_rec"} => ~Asked(c.task) /\ c.route = Meant(c.task)
    /\ c.at = "blocked" =>
          ~Asked(c.task) /\ c.route = tasks[c.task].route /\ tasks[c.task].said = "blocked"
    /\ c.at = "complete" => Asked(c.task) /\ c.route = tasks[c.task].route
    /\ c.at = "resolve" =>
          /\ NoneAsked /\ c.route = tasks[c.task].route
          /\ c.said = tasks[c.task].said /\ c.said # "unknown"
    /\ c.at \in {"write_gap", "read_task"} => c.gap = 0 \/ gaps[c.gap].open
    /\ c.at = "assign" => NoneAsked /\ gaps[c.gap].open
    /\ c.at = "read_gap" => \E g \in DOMAIN gaps : gaps[g].open

Books ==
    /\ \A t, u \in DOMAIN tasks : Asked(t) /\ Asked(u) => t = u
    /\ \A t \in DOMAIN tasks : Asked(t) => gaps[tasks[t].gap].open
    /\ \A r \in DOMAIN recs : ~Asked(recs[r].task) /\ recs[r].route = Meant(recs[r].task)

SerialInv ==
    ~overlapped =>
        /\ \A p, q \in Calls : call[p].at # "idle" /\ call[q].at # "idle" => p = q
        /\ Books
        /\ \A p \in Calls : SerialCall(call[p])

IInv == TypeInv /\ BasisInv /\ SerialInv

-----------------------------------------------------------------------------
(* The queries, and rows changed in place or appended.                     *)

LEMMA LatestIsThere ==
    ASSUME NEW n \in Nat, NEW S \in SUBSET (1..n)
    PROVE  /\ S = {} => Latest(S) = 0
           /\ S # {} => Latest(S) \in S /\ Latest(S) # 0
<1>1. S = {} => Latest(S) = 0
  BY DEF Latest
<1>2. ASSUME S # {} PROVE Latest(S) \in S /\ Latest(S) # 0
  <2> SUFFICES \E i \in S : \A j \in S : j <= i
    <3>1. 0 \notin S
      OBVIOUS
    <3> QED
      BY <1>2, <3>1 DEF Latest
  <2> DEFINE T == {i \in Nat : n - i \in S}
  <2>1. T # {}
    <3>1. PICK x \in S : TRUE
      BY <1>2
    <3>2. n - x \in Nat /\ n - (n - x) = x
      BY <3>1
    <3> QED
      BY <3>1, <3>2
  <2>2. PICK i \in T : \A j \in T : ~(<<j, i>> \in OpToRel(<, Nat))
    BY <2>1, NatLessThanWellFounded, WFMin
  <2>3. \A j \in T : ~(j < i)
    BY <2>2 DEF OpToRel
  <2>4. ASSUME NEW y \in S PROVE y <= n - i
    <3>1. n - y \in Nat /\ n - (n - y) = y
      OBVIOUS
    <3>2. n - y \in T
      BY <3>1
    <3> HIDE DEF T
    <3>3. ~(n - y < i)
      BY <2>3, <3>2
    <3>4. i \in Nat
      BY DEF T
    <3> QED
      BY <3>1, <3>3, <3>4
  <2> QED
    BY <2>2, <2>4
<1> QED
  BY <1>1, <1>2

LEMMA QueriesFind ==
    ASSUME TypeInv
    PROVE  /\ IF \E g \in DOMAIN gaps : gaps[g].open
                THEN OpenGap # 0 /\ OpenGap \in DOMAIN gaps /\ gaps[OpenGap].open
                ELSE OpenGap = 0
           /\ IF \E t \in DOMAIN tasks : Asked(t)
                THEN OpenTask # 0 /\ OpenTask \in DOMAIN tasks /\ Asked(OpenTask)
                ELSE OpenTask = 0
           /\ \A m \in Members : OpenTaskOf(m) # 0 =>
                OpenTaskOf(m) \in DOMAIN tasks /\ Asked(OpenTaskOf(m))
           /\ IF \E r \in DOMAIN recs : recs[r].emitted
                THEN ActiveRec # 0 /\ ActiveRec \in DOMAIN recs
                ELSE ActiveRec = 0
<1>1. /\ Len(gaps) \in Nat /\ DOMAIN gaps = 1..Len(gaps)
      /\ Len(tasks) \in Nat /\ DOMAIN tasks = 1..Len(tasks)
      /\ Len(recs) \in Nat /\ DOMAIN recs = 1..Len(recs)
  BY DEF TypeInv
<1>2. IF \E g \in DOMAIN gaps : gaps[g].open
        THEN OpenGap # 0 /\ OpenGap \in DOMAIN gaps /\ gaps[OpenGap].open
        ELSE OpenGap = 0
  <2> DEFINE S == {g \in DOMAIN gaps : gaps[g].open}
  <2>1. S \in SUBSET (1..Len(gaps)) /\ OpenGap = Latest(S)
    BY <1>1 DEF OpenGap
  <2> QED
    BY <1>1, <2>1, LatestIsThere, ZenonT(30)
<1>3. IF \E t \in DOMAIN tasks : Asked(t)
        THEN OpenTask # 0 /\ OpenTask \in DOMAIN tasks /\ Asked(OpenTask)
        ELSE OpenTask = 0
  <2> DEFINE S == {t \in DOMAIN tasks : tasks[t].status = "open"}
  <2>1. S \in SUBSET (1..Len(tasks)) /\ OpenTask = Latest(S)
    BY <1>1 DEF OpenTask
  <2>2. S # {} <=> \E t \in DOMAIN tasks : Asked(t)
    BY DEF Asked
  <2>3. \A t \in S : t \in DOMAIN tasks /\ Asked(t)
    BY DEF Asked
  <2> HIDE DEF S
  <2> QED
    BY <1>1, <2>1, <2>2, <2>3, LatestIsThere
<1>4. ASSUME NEW m \in Members, OpenTaskOf(m) # 0
      PROVE  OpenTaskOf(m) \in DOMAIN tasks /\ Asked(OpenTaskOf(m))
  <2> DEFINE S == {t \in DOMAIN tasks : tasks[t].status = "open" /\ tasks[t].member = m}
  <2>1. S \in SUBSET (1..Len(tasks)) /\ OpenTaskOf(m) = Latest(S)
    BY <1>1 DEF OpenTaskOf
  <2> QED
    BY <1>1, <1>4, <2>1, LatestIsThere DEF Asked
<1>5. IF \E r \in DOMAIN recs : recs[r].emitted
        THEN ActiveRec # 0 /\ ActiveRec \in DOMAIN recs
        ELSE ActiveRec = 0
  <2> DEFINE S == {r \in DOMAIN recs : recs[r].emitted}
  <2>1. S \in SUBSET (1..Len(recs)) /\ ActiveRec = Latest(S)
    BY <1>1 DEF ActiveRec
  <2> QED
    BY <1>1, <2>1, LatestIsThere
<1> QED
  BY <1>2, <1>3, <1>4, <1>5

LEMMA RowIsChanged ==
    ASSUME NEW S, NEW s \in Seq(S), NEW i \in DOMAIN s, NEW e \in S
    PROVE  /\ [s EXCEPT ![i] = e] \in Seq(S)
           /\ DOMAIN [s EXCEPT ![i] = e] = DOMAIN s
<1> QED
  BY ExceptSeq

LEMMA RowIsAppended ==
    ASSUME NEW S, NEW s \in Seq(S), NEW e \in S
    PROVE  /\ Append(s, e) \in Seq(S)
           /\ DOMAIN Append(s, e) = DOMAIN s \cup {Len(s) + 1}
           /\ Len(s) + 1 \notin DOMAIN s
           /\ Append(s, e)[Len(s) + 1] = e
           /\ \A i \in DOMAIN s : Append(s, e)[i] = s[i]
<1> QED
  OBVIOUS

-----------------------------------------------------------------------------
(* What a step of one call leaves true for the others.                     *)

\* Rows are added and go on standing for what they stood for.
Grows ==
    /\ DOMAIN gaps \subseteq DOMAIN gaps' /\ DOMAIN tasks \subseteq DOMAIN tasks'
    /\ DOMAIN recs \subseteq DOMAIN recs'
    /\ \A g \in DOMAIN gaps : gaps'[g].open => gaps[g].open
    /\ \A t \in DOMAIN tasks :
          tasks'[t].gap = tasks[t].gap /\ (tasks[t].said # None => tasks'[t].said # None)

RowsTyped == gaps \in Seq(GapSet) /\ tasks \in Seq(TaskSet) /\ recs \in Seq(RecSet)

\* The call in slot p goes on with what it may rely on.
GoesOn(p) ==
    /\ RowsTyped' /\ Grows /\ RowsOk'
    /\ \E c \in CallSet :
          /\ call' = [call EXCEPT ![p] = c]
          /\ CallOk(c)'
          /\ Books /\ SerialCall(call[p]) => Books' /\ SerialCall(c)'

LEMMA StaysBased ==
    ASSUME RowsOk, Grows, NEW t, Based(t)
    PROVE  Based(t)'
BY DEF RowsOk, Grows, Based

LEMMA StaysOk ==
    ASSUME RowsOk, Grows, NEW c \in CallSet, CallOk(c)
    PROVE  CallOk(c)'
<1>1. Based(c.task) => Based(c.task)'
  BY StaysBased
<1> QED
  BY <1>1 DEF CallOk, Grows, RowsOk

LEMMA ReadingGoesOn ==
    ASSUME TypeInv, BasisInv, NEW p \in Calls, UNCHANGED rows,
           NEW c \in CallSet, call' = [call EXCEPT ![p] = c], CallOk(c),
           Books /\ SerialCall(call[p]) => SerialCall(c)
    PROVE  GoesOn(p)
<1>1. RowsTyped' /\ RowsOk' /\ Grows
  BY DEF TypeInv, BasisInv, RowsTyped, RowsOk, Grows, Based, rows
<1>2. CallOk(c)'
  BY DEF CallOk, Based, rows
<1>3. Books /\ SerialCall(call[p]) => Books' /\ SerialCall(c)'
  BY DEF Books, SerialCall, Asked, NoneAsked, Meant, rows
<1> QED
  BY <1>1, <1>2, <1>3 DEF GoesOn

-----------------------------------------------------------------------------
(* The steps that only read.                                               *)

LEMMA IdleIsFine == Idle \in CallSet /\ CallOk(Idle) /\ SerialCall(Idle)
BY DEF Idle, CallSet, Steps, CallOk, SerialCall, Said, RouteSet, Routes, None

LEMMA CallsAreTyped ==
    ASSUME TypeInv, BasisInv, NEW p \in Calls
    PROVE  call[p] \in CallSet /\ CallOk(call[p])
BY DEF TypeInv, BasisInv

LEMMA EndGoesOn ==
    ASSUME TypeInv, BasisInv, NEW p \in Calls, End(p), UNCHANGED rows
    PROVE  GoesOn(p)
<1>1. call' = [call EXCEPT ![p] = Idle]
  BY DEF End, Goes
<1> QED
  BY <1>1, IdleIsFine, ReadingGoesOn

LEMMA FindingGoesOn ==
    ASSUME TypeInv, BasisInv, NEW p \in Calls, NEW b \in BOOLEAN, NEW h \in Routes \cup {None},
           Finding(p, b, h), DetailsDecoded
    PROVE  GoesOn(p)
<1> DEFINE gap == [Idle EXCEPT !.at = "find_gap",
                               !.route = IF h = None THEN "north_exit" ELSE h]
           contradicted == [gap EXCEPT !.at = "withdraw", !.then = "find_gap",
                                       !.rec = ActiveRec]
<1>1. /\ UNCHANGED rows
      /\ call' = [call EXCEPT ![p] = IF b /\ Contradicts(h, ActiveRec)
                                        THEN contradicted ELSE gap]
  BY DEF Finding, Enter
<1>2. gap \in CallSet /\ CallOk(gap) /\ SerialCall(gap)
  BY DEF Idle, CallSet, Steps, CallOk, SerialCall, Said, RouteSet, Routes, None
<1>3. ASSUME Contradicts(h, ActiveRec)
      PROVE  contradicted \in CallSet /\ CallOk(contradicted) /\ SerialCall(contradicted)
  <2>1. ActiveRec \in DOMAIN recs /\ ActiveRec \in Nat
    BY <1>3, QueriesFind DEF Contradicts, TypeInv
  <2> QED
    BY <2>1 DEF Idle, CallSet, Steps, CallOk, SerialCall, Said, RouteSet, Routes, None
<1> HIDE DEF gap, contradicted
<1> QED
  BY <1>1, <1>2, <1>3, ReadingGoesOn

LEMMA ReportGoesOn ==
    ASSUME TypeInv, BasisInv, NEW p \in Calls, NEW m \in Members, NEW s \in Said,
           NEW h \in Routes \cup {None}, Report(p, m, s, h)
    PROVE  GoesOn(p)
<1> DEFINE t == OpenTaskOf(m)
           late == [Idle EXCEPT !.at = "late", !.said = s, !.route = h]
           answer == [Idle EXCEPT !.at = "complete", !.said = s, !.task = t,
                                  !.gap = tasks[t].gap, !.route = tasks[t].route]
<1>1. UNCHANGED rows /\ call' = [call EXCEPT ![p] = IF t = 0 THEN late ELSE answer]
  BY DEF Report, Enter
<1>2. late \in CallSet /\ CallOk(late) /\ SerialCall(late)
  BY DEF Idle, CallSet, Steps, CallOk, SerialCall, Said, RouteSet, Routes, None
<1>3. ASSUME t # 0
      PROVE  answer \in CallSet /\ CallOk(answer) /\ SerialCall(answer)
  <2>1. t \in DOMAIN tasks /\ Asked(t) /\ t \in Nat /\ tasks[t] \in TaskSet
    BY <1>3, QueriesFind DEF TypeInv
  <2> HIDE DEF t
  <2>2. tasks[t].gap \in Nat /\ tasks[t].route \in RouteSet
    BY <2>1 DEF TaskSet
  <2> QED
    BY <2>1, <2>2 DEF Idle, CallSet, Steps, CallOk, SerialCall, Said, RouteSet, Routes, None
<1> HIDE DEF t, late, answer
<1> QED
  BY <1>1, <1>2, <1>3, ReadingGoesOn

LEMMA LateReportGoesOn ==
    ASSUME TypeInv, BasisInv, NEW p \in Calls, LateReport(p)
    PROVE  GoesOn(p)
<1> DEFINE contradicted == [Idle EXCEPT !.at = "withdraw", !.then = "find_gap",
                                        !.rec = ActiveRec, !.route = "north_exit"]
           says == call[p].said = "blocked" /\ Contradicts(call[p].route, ActiveRec)
<1>1. UNCHANGED rows /\ call' = [call EXCEPT ![p] = IF says THEN contradicted ELSE Idle]
  BY DEF LateReport, Goes
<1>2. ASSUME says
      PROVE  contradicted \in CallSet /\ CallOk(contradicted) /\ SerialCall(contradicted)
  <2>1. ActiveRec \in DOMAIN recs /\ ActiveRec \in Nat
    BY <1>2, QueriesFind DEF Contradicts, TypeInv
  <2> QED
    BY <2>1 DEF Idle, CallSet, Steps, CallOk, SerialCall, Said, RouteSet, Routes, None
<1> HIDE DEF says, contradicted
<1> QED
  BY <1>1, <1>2, IdleIsFine, ReadingGoesOn

LEMMA FindGapGoesOn ==
    ASSUME TypeInv, BasisInv, NEW p \in Calls, FindGap(p)
    PROVE  GoesOn(p)
<1> DEFINE c == [call[p] EXCEPT !.at = "write_gap", !.gap = OpenGap]
<1>1. UNCHANGED rows /\ call' = [call EXCEPT ![p] = c]
  BY DEF FindGap, Goes
<1>2. OpenGap \in Nat /\ (OpenGap = 0 \/ (OpenGap \in DOMAIN gaps /\ gaps[OpenGap].open))
  BY QueriesFind DEF TypeInv
<1>3. c \in CallSet /\ c.at = "write_gap" /\ c.gap = OpenGap
  BY <1>2, CallsAreTyped DEF CallSet, Steps
<1> HIDE DEF c
<1>4. CallOk(c) /\ SerialCall(c)
  BY <1>2, <1>3 DEF CallOk, SerialCall
<1> QED
  BY <1>1, <1>3, <1>4, ReadingGoesOn

LEMMA RefreshGoesOn ==
    ASSUME TypeInv, BasisInv, NEW p \in Calls, Refresh(p) \/ ReadGap(p)
    PROVE  GoesOn(p)
<1> DEFINE c == [Idle EXCEPT !.at = "read_task", !.gap = OpenGap]
<1>1. UNCHANGED rows /\ call' = [call EXCEPT ![p] = c]
  BY DEF Refresh, Enter, ReadGap, Goes
<1>2. OpenGap \in Nat /\ (OpenGap = 0 \/ (OpenGap \in DOMAIN gaps /\ gaps[OpenGap].open))
  BY QueriesFind DEF TypeInv
<1>3. c \in CallSet /\ CallOk(c) /\ SerialCall(c)
  BY <1>2 DEF Idle, CallSet, Steps, CallOk, SerialCall, Said, RouteSet, Routes, None
<1> HIDE DEF c
<1> QED
  BY <1>1, <1>3, ReadingGoesOn

LEMMA BlockedGoesOn ==
    ASSUME TypeInv, BasisInv, NEW p \in Calls, Blocked(p)
    PROVE  GoesOn(p)
<1> DEFINE other == Alternate(call[p].route)
           next == IF other = None THEN "find_gap" ELSE "emit"
           withdraws == ActiveRec # 0 /\ recs[ActiveRec].route = call[p].route
           c == [call[p] EXCEPT !.at = IF withdraws THEN "withdraw" ELSE next,
                                !.then = IF withdraws THEN next ELSE "idle",
                                !.rec = IF withdraws THEN ActiveRec ELSE 0,
                                !.said = None, !.gap = 0,
                                !.route = IF other = None THEN "north_exit" ELSE other]
<1>1. UNCHANGED rows /\ call' = [call EXCEPT ![p] = c]
  BY DEF Blocked, Goes
<1>2. call[p] \in CallSet /\ Based(call[p].task) /\ call[p].at = "blocked"
  BY CallsAreTyped DEF Blocked, At, CallOk
<1>3. withdraws => ActiveRec \in DOMAIN recs /\ ActiveRec \in Nat
  BY QueriesFind DEF TypeInv
<1>4. other \in {"east_exit", None} /\ next \in {"find_gap", "emit"}
      /\ (next = "emit" => other # None)
  BY DEF Alternate
<1> HIDE DEF withdraws, next
<1>5. c \in CallSet
  <2>1. (IF withdraws THEN "withdraw" ELSE next) \in Steps
    BY <1>4 DEF Steps
  <2>2. (IF withdraws THEN next ELSE "idle") \in {"idle", "find_gap", "emit", "insert_rec"}
    BY <1>4
  <2>3. (IF withdraws THEN ActiveRec ELSE 0) \in Nat
    BY <1>3
  <2>4. (IF other = None THEN "north_exit" ELSE other) \in RouteSet
    BY <1>4 DEF RouteSet, Routes
  <2> HIDE DEF other
  <2> QED
    BY <1>2, <2>1, <2>2, <2>3, <2>4 DEF CallSet
<1>6. /\ c.at = (IF withdraws THEN "withdraw" ELSE next)
      /\ withdraws => c.then = next /\ c.rec = ActiveRec
      /\ c.task = call[p].task /\ (other # None => c.route = other)
  BY <1>2 DEF CallSet
<1> HIDE DEF c
<1>7. CallOk(c)
  BY <1>2, <1>3, <1>4, <1>6 DEF CallOk
<1>8. ASSUME SerialCall(call[p]) PROVE SerialCall(c)
  <2>1. /\ ~Asked(call[p].task) /\ call[p].route = tasks[call[p].task].route
        /\ tasks[call[p].task].said = "blocked"
    BY <1>2, <1>8 DEF SerialCall
  <2>2. other = Meant(call[p].task)
    BY <2>1 DEF Meant
  <2> HIDE DEF other
  <2> QED
    BY <1>4, <1>6, <2>1, <2>2 DEF SerialCall
<1> QED
  BY <1>1, <1>5, <1>7, <1>8, ReadingGoesOn

LEMMA EmitGoesOn ==
    ASSUME TypeInv, BasisInv, NEW p \in Calls, Emit(p)
    PROVE  GoesOn(p)
<1> DEFINE write == [call[p] EXCEPT !.at = "insert_rec"]
           replace == [call[p] EXCEPT !.at = "withdraw", !.then = "insert_rec",
                                      !.rec = ActiveRec]
<1>1. call[p] \in CallSet /\ Based(call[p].task) /\ call[p].at = "emit" /\ UNCHANGED rows
  BY CallsAreTyped DEF Emit, At, CallOk
<1>2. CASE ActiveRec = 0
  <2>1. call' = [call EXCEPT ![p] = write]
    BY <1>2 DEF Emit, Goes
  <2>2. write \in CallSet /\ CallOk(write) /\ (SerialCall(call[p]) => SerialCall(write))
    BY <1>1 DEF CallSet, Steps, CallOk, SerialCall
  <2> HIDE DEF write
  <2> QED
    BY <1>1, <2>1, <2>2, ReadingGoesOn
<1>3. CASE ActiveRec # 0 /\ recs[ActiveRec].route = call[p].route
  BY <1>1, <1>3, EndGoesOn DEF Emit
<1>4. CASE ActiveRec # 0 /\ recs[ActiveRec].route # call[p].route
  <2>1. call' = [call EXCEPT ![p] = replace]
    BY <1>4 DEF Emit, Goes
  <2>2. ActiveRec \in DOMAIN recs /\ ActiveRec \in Nat
    BY <1>4, QueriesFind DEF TypeInv
  <2>3. replace \in CallSet /\ CallOk(replace) /\ (SerialCall(call[p]) => SerialCall(replace))
    BY <1>1, <2>2 DEF CallSet, Steps, CallOk, SerialCall
  <2> HIDE DEF replace
  <2> QED
    BY <1>1, <2>1, <2>3, ReadingGoesOn
<1> QED
  BY <1>2, <1>3, <1>4

LEMMA ReadTaskGoesOn ==
    ASSUME TypeInv, BasisInv, NEW p \in Calls, ReadTask(p)
    PROVE  GoesOn(p)
<1> DEFINE cancel == [Idle EXCEPT !.at = "cancel", !.task = OpenTask]
           assign(m) == [call[p] EXCEPT !.at = "assign", !.member = m,
                                        !.route = gaps[call[p].gap].route]
<1>1. call[p] \in CallSet /\ CallOk(call[p]) /\ call[p].at = "read_task" /\ UNCHANGED rows
  BY CallsAreTyped DEF ReadTask, At
<1>2. CASE End(p)
  BY <1>1, <1>2, EndGoesOn
<1>3. CASE OpenTask # 0 /\ call' = [call EXCEPT ![p] = cancel]
  <2>1. OpenTask \in DOMAIN tasks /\ OpenTask \in Nat
    BY <1>3, QueriesFind DEF TypeInv
  <2>2. cancel \in CallSet /\ CallOk(cancel) /\ SerialCall(cancel)
    BY <2>1 DEF Idle, CallSet, Steps, CallOk, SerialCall, Said, RouteSet, Routes, None
  <2> HIDE DEF cancel
  <2> QED
    BY <1>1, <1>3, <2>2, ReadingGoesOn
<1>4. ASSUME OpenTask = 0, call[p].gap # 0, NEW m \in Members, call' = [call EXCEPT ![p] = assign(m)]
      PROVE  GoesOn(p)
  <2>1. call[p].gap \in DOMAIN gaps
    BY <1>1, <1>4 DEF CallOk
  <2>2. gaps[call[p].gap].route \in RouteSet
    <3>1. gaps[call[p].gap] \in GapSet
      BY <2>1 DEF TypeInv
    <3> QED
      BY <3>1 DEF GapSet
  <2>3. NoneAsked
    BY <1>4, QueriesFind DEF NoneAsked
  <2>4. /\ assign(m) \in CallSet /\ CallOk(assign(m))
        /\ SerialCall(call[p]) => SerialCall(assign(m))
    BY <1>1, <1>4, <2>1, <2>2, <2>3 DEF CallSet, Steps, CallOk, SerialCall
  <2> HIDE DEF assign
  <2> QED
    BY <1>1, <1>4, <2>4, ReadingGoesOn
<1> QED
  BY <1>2, <1>3, <1>4 DEF ReadTask, Goes, Able

-----------------------------------------------------------------------------
(* The steps that write.                                                   *)

LEMMA WithdrawGoesOn ==
    ASSUME TypeInv, BasisInv, NEW p \in Calls, Withdraw(p)
    PROVE  GoesOn(p)
<1> DEFINE v == [call[p] EXCEPT !.at = call[p].then, !.then = "idle", !.rec = 0]
           r == call[p].rec
           e == [recs[r] EXCEPT !.emitted = FALSE]
<1>1. call[p] \in CallSet /\ CallOk(call[p]) /\ call[p].at = "withdraw"
  BY CallsAreTyped DEF Withdraw, At
<1>2. /\ r \in DOMAIN recs /\ call[p].then \in {"find_gap", "emit", "insert_rec"}
      /\ call[p].then # "find_gap" => Based(call[p].task)
  BY <1>1 DEF CallOk, CallSet
<1>3. recs[r] \in RecSet
  BY <1>2 DEF TypeInv
<1>4. e \in RecSet /\ e.task = recs[r].task /\ e.route = recs[r].route
  BY <1>3 DEF RecSet
<1>5. recs' = [recs EXCEPT ![r] = e] /\ UNCHANGED <<gaps, tasks>> /\ call' = [call EXCEPT ![p] = v]
  BY DEF Withdraw, Goes
<1> HIDE DEF e, r
<1>6. recs \in Seq(RecSet)
  BY DEF TypeInv
<1>7. recs' \in Seq(RecSet) /\ DOMAIN recs' = DOMAIN recs
  BY <1>2, <1>4, <1>5, <1>6, RowIsChanged
<1>8. \A i \in DOMAIN recs : recs'[i].task = recs[i].task /\ recs'[i].route = recs[i].route
  BY <1>2, <1>4, <1>5
<1>9. RowsTyped' /\ Grows /\ RowsOk'
  BY <1>5, <1>7, <1>8 DEF RowsTyped, Grows, RowsOk, Based, TypeInv, BasisInv
<1>14. v \in CallSet /\ v.at = call[p].then /\ v.task = call[p].task /\ v.route = call[p].route
  BY <1>1, <1>2 DEF CallSet, Steps
<1> HIDE DEF v
<1>10. PICK c \in CallSet : /\ c = v /\ c.at = call[p].then
                             /\ c.task = call[p].task /\ c.route = call[p].route
  BY <1>14
<1>11. CallOk(c)
  BY <1>2, <1>10 DEF CallOk
<1>12. CallOk(c)'
  BY <1>9, <1>10, <1>11, StaysOk DEF BasisInv
<1>13. ASSUME Books, SerialCall(call[p]) PROVE Books' /\ SerialCall(c)'
  <2>1. Books'
    BY <1>5, <1>7, <1>8, <1>13 DEF Books, Asked, Meant
  <2>2. SerialCall(c)
    BY <1>1, <1>2, <1>10, <1>13 DEF SerialCall
  <2> QED
    BY <1>5, <2>1, <2>2 DEF SerialCall, Asked, Meant, NoneAsked
<1> QED
  BY <1>5, <1>9, <1>10, <1>12, <1>13 DEF GoesOn

LEMMA WriteGapGoesOn ==
    ASSUME TypeInv, BasisInv, NEW p \in Calls, WriteGap(p)
    PROVE  GoesOn(p)
<1> DEFINE v == [Idle EXCEPT !.at = "read_gap"]
           n == Len(gaps) + 1
           g == call[p].gap
           e == [gaps[g] EXCEPT !.route = call[p].route]
           fresh == [open |-> TRUE, route |-> call[p].route]
<1>1. call[p] \in CallSet /\ CallOk(call[p]) /\ call[p].at = "write_gap"
  BY CallsAreTyped DEF WriteGap, At
<1>2. call[p].route \in RouteSet /\ (g = 0 \/ g \in DOMAIN gaps)
  BY <1>1 DEF CallOk, CallSet
<1>3. CASE g = 0 /\ OpenGap # 0
  BY <1>3, EndGoesOn DEF WriteGap, Raise
<1>4. CASE ~(g = 0 /\ OpenGap # 0)
  <2>1. /\ gaps' = (IF g # 0 THEN [gaps EXCEPT ![g].route = call[p].route]
                             ELSE Append(gaps, fresh))
        /\ call' = [call EXCEPT ![p] = v] /\ UNCHANGED <<tasks, recs>>
    BY <1>4 DEF WriteGap, Goes
  <2>2. gaps \in Seq(GapSet)
    BY DEF TypeInv
  <2>3. /\ gaps' \in Seq(GapSet) /\ DOMAIN gaps \subseteq DOMAIN gaps'
        /\ \A i \in DOMAIN gaps : gaps'[i].open = gaps[i].open
        /\ g = 0 => n \in DOMAIN gaps' /\ gaps'[n].open
    <3>1. CASE g = 0
      <4>1. fresh \in GapSet /\ fresh.open
        BY <1>2 DEF GapSet
      <4>2. gaps' = Append(gaps, fresh)
        BY <2>1, <3>1
      <4> HIDE DEF fresh
      <4> QED
        BY <2>2, <3>1, <4>1, <4>2, RowIsAppended
    <3>2. CASE g # 0
      <4>1. g \in DOMAIN gaps
        BY <1>2, <3>2
      <4>2. gaps[g] \in GapSet
        BY <2>2, <4>1
      <4>3. e \in GapSet /\ e.open = gaps[g].open
        BY <1>2, <4>2 DEF GapSet
      <4>4. gaps' = [gaps EXCEPT ![g] = e]
        BY <2>1, <3>2
      <4> HIDE DEF e, g
      <4>5. gaps' \in Seq(GapSet) /\ DOMAIN gaps' = DOMAIN gaps
        BY <2>2, <4>1, <4>3, <4>4, RowIsChanged
      <4> QED
        BY <2>2, <3>2, <4>1, <4>3, <4>4, <4>5
    <3> QED
      BY <3>1, <3>2
  <2>4. RowsTyped' /\ Grows
    BY <2>1, <2>3 DEF RowsTyped, Grows, TypeInv
  <2>5. RowsOk'
    BY <2>1, <2>3 DEF RowsOk, Based, BasisInv
  <2>9. v \in CallSet /\ v.at = "read_gap"
    BY DEF Idle, CallSet, Steps, Said, RouteSet, Routes, None
  <2> HIDE DEF v, n
  <2>6. PICK c \in CallSet : c = v /\ c.at = "read_gap"
    BY <2>9
  <2>7. CallOk(c)'
    BY <2>6 DEF CallOk
  <2>8. ASSUME Books, SerialCall(call[p]) PROVE Books' /\ SerialCall(c)'
    <3>1. Books'
      BY <2>1, <2>3, <2>5, <2>8 DEF Books, Asked, Meant, RowsOk, BasisInv
    <3>2. g = 0 \/ gaps[g].open
      BY <1>1, <2>8 DEF SerialCall
    <3>3. \E i \in DOMAIN gaps' : gaps'[i].open
      BY <1>2, <2>3, <3>2
    <3> QED
      BY <2>6, <3>1, <3>3 DEF SerialCall
  <2> QED
    BY <2>1, <2>4, <2>5, <2>6, <2>7, <2>8 DEF GoesOn
<1> QED
  BY <1>3, <1>4

LEMMA CompleteGoesOn ==
    ASSUME TypeInv, BasisInv, NEW p \in Calls, Complete(p)
    PROVE  GoesOn(p)
<1> DEFINE v == [Idle EXCEPT !.at = "read_gap"]
           w == [call[p] EXCEPT !.at = "resolve"]
           t == call[p].task
           e == [tasks[t] EXCEPT !.status = "completed", !.said = call[p].said]
<1>1. call[p] \in CallSet /\ CallOk(call[p]) /\ call[p].at = "complete"
  BY CallsAreTyped DEF Complete, At
<1>2. t \in DOMAIN tasks /\ call[p].gap = tasks[t].gap /\ call[p].said \in Said
  BY <1>1 DEF CallOk, CallSet
<1>3. tasks[t] \in TaskSet /\ tasks \in Seq(TaskSet)
  BY <1>2 DEF TypeInv
<1>4. /\ e \in TaskSet /\ e.gap = tasks[t].gap /\ e.route = tasks[t].route
      /\ e.said = call[p].said /\ e.status # "open" /\ e.said # None
  BY <1>2, <1>3 DEF TaskSet, Said, None
<1>5. /\ tasks' = [tasks EXCEPT ![t] = e] /\ UNCHANGED <<gaps, recs>>
      /\ call' = [call EXCEPT ![p] = IF call[p].said = "unknown" THEN v ELSE w]
  BY <1>2, <1>3 DEF Complete, Goes, TaskSet
<1> HIDE DEF e
<1>6. tasks' \in Seq(TaskSet) /\ DOMAIN tasks' = DOMAIN tasks
  <2> HIDE DEF t
  <2> QED
    BY <1>2, <1>3, <1>4, <1>5, RowIsChanged
<1>7. tasks'[t] = e /\ \A u \in DOMAIN tasks : u # t => tasks'[u] = tasks[u]
  BY <1>2, <1>3, <1>5
<1>8. RowsTyped' /\ Grows
  BY <1>4, <1>5, <1>6, <1>7 DEF RowsTyped, Grows, TypeInv
<1>9. RowsOk'
  BY <1>4, <1>5, <1>6, <1>7 DEF RowsOk, Based, BasisInv
<1>16. v \in CallSet /\ v.at = "read_gap"
  BY DEF Idle, CallSet, Steps, Said, RouteSet, Routes, None
<1>17. /\ w \in CallSet /\ w.at = "resolve" /\ w.task = t
       /\ w.gap = call[p].gap /\ w.said = call[p].said /\ w.route = call[p].route
  BY <1>1 DEF CallSet, Steps
<1> HIDE DEF v, w, t
<1>15. PICK again \in CallSet : again = v /\ again.at = "read_gap"
  BY <1>16
<1>10. PICK resolve \in CallSet :
          /\ resolve = w /\ resolve.at = "resolve" /\ resolve.task = t
          /\ resolve.gap = call[p].gap /\ resolve.said = call[p].said
          /\ resolve.route = call[p].route
  BY <1>17
<1>11. CallOk(again)' /\ CallOk(resolve)'
  BY <1>2, <1>4, <1>6, <1>7, <1>10, <1>15 DEF CallOk
<1>12. ASSUME Books, SerialCall(call[p]) PROVE Books' /\ SerialCall(again)' /\
              (call[p].said # "unknown" => SerialCall(resolve)')
  <2>1. Asked(t) /\ call[p].route = tasks[t].route
    BY <1>1, <1>12 DEF SerialCall, t
  <2>2. NoneAsked'
    BY <1>2, <1>4, <1>6, <1>7, <1>12, <2>1 DEF NoneAsked, Asked, Books
  <2>3. ASSUME NEW r \in DOMAIN recs PROVE recs[r].task # t /\ recs[r].task \in DOMAIN tasks
    BY <1>12, <2>1, <2>3 DEF Books, BasisInv, RowsOk, Based
  <2>4. Books'
    BY <1>5, <1>6, <1>7, <1>12, <2>2, <2>3 DEF Books, NoneAsked, Asked, Meant
  <2>5. t \in DOMAIN tasks /\ tasks[t].gap \in DOMAIN gaps /\ gaps[tasks[t].gap].open
    BY <1>2, <1>12, <2>1 DEF Books, BasisInv, RowsOk
  <2>6. SerialCall(again)'
    BY <1>5, <1>15, <2>5 DEF SerialCall
  <2>7. ASSUME call[p].said # "unknown" PROVE SerialCall(resolve)'
    BY <1>4, <1>7, <1>10, <2>1, <2>2, <2>7 DEF SerialCall
  <2> QED
    BY <2>4, <2>6, <2>7
<1>13. CASE call[p].said = "unknown"
  BY <1>5, <1>8, <1>9, <1>11, <1>12, <1>13, <1>15 DEF GoesOn
<1>14. CASE call[p].said # "unknown"
  BY <1>5, <1>8, <1>9, <1>10, <1>11, <1>12, <1>14 DEF GoesOn
<1> QED
  BY <1>13, <1>14

LEMMA ResolveGoesOn ==
    ASSUME TypeInv, BasisInv, NEW p \in Calls, Resolve(p)
    PROVE  GoesOn(p)
<1> DEFINE v == [call[p] EXCEPT !.at = IF call[p].said = "clear" THEN "emit" ELSE "blocked"]
           g == call[p].gap
           e == [gaps[g] EXCEPT !.open = FALSE]
<1>1. call[p] \in CallSet /\ CallOk(call[p]) /\ call[p].at = "resolve"
  BY CallsAreTyped DEF Resolve, At
<1>2. /\ call[p].task \in DOMAIN tasks /\ tasks[call[p].task].said # None
      /\ g = tasks[call[p].task].gap /\ g \in DOMAIN gaps
  BY <1>1 DEF CallOk, BasisInv, RowsOk
<1>3. gaps \in Seq(GapSet) /\ gaps[g] \in GapSet
  BY <1>2 DEF TypeInv
<1>4. e \in GapSet /\ ~e.open
  BY <1>3 DEF GapSet
<1>5. gaps' = [gaps EXCEPT ![g] = e] /\ UNCHANGED <<tasks, recs>> /\ call' = [call EXCEPT ![p] = v]
  BY DEF Resolve, Goes
<1> HIDE DEF e
<1>6. gaps' \in Seq(GapSet) /\ DOMAIN gaps' = DOMAIN gaps
  <2> HIDE DEF g
  <2> QED
    BY <1>2, <1>3, <1>4, <1>5, RowIsChanged
<1>7. gaps'[g] = e /\ \A i \in DOMAIN gaps : i # g => gaps'[i] = gaps[i]
  BY <1>2, <1>3, <1>5
<1>8. RowsTyped' /\ Grows
  BY <1>4, <1>5, <1>6, <1>7 DEF RowsTyped, Grows, TypeInv
<1>9. RowsOk'
  BY <1>4, <1>5, <1>6, <1>7 DEF RowsOk, Based, BasisInv
<1>13. /\ v \in CallSet /\ v.at = IF call[p].said = "clear" THEN "emit" ELSE "blocked"
       /\ v.task = call[p].task /\ v.route = call[p].route
  BY <1>1 DEF CallSet, Steps
<1> HIDE DEF v, g
<1>10. PICK c \in CallSet :
          /\ c = v /\ c.at = IF call[p].said = "clear" THEN "emit" ELSE "blocked"
          /\ c.task = call[p].task /\ c.route = call[p].route
  BY <1>13
<1>11. CallOk(c)'
  BY <1>2, <1>4, <1>5, <1>7, <1>10 DEF CallOk, Based
<1>12. ASSUME Books, SerialCall(call[p]) PROVE Books' /\ SerialCall(c)'
  <2>1. /\ NoneAsked /\ call[p].route = tasks[call[p].task].route
        /\ call[p].said = tasks[call[p].task].said /\ call[p].said # "unknown"
    BY <1>1, <1>12 DEF SerialCall
  <2>2. Books'
    BY <1>5, <1>12, <2>1 DEF Books, NoneAsked, Asked, Meant
  <2>3. call[p].said \in {"clear", "blocked", "unknown"}
    BY <1>1, <1>2, <2>1 DEF CallSet, Said
  <2>4. SerialCall(c)'
    BY <1>2, <1>5, <1>10, <2>1, <2>3 DEF SerialCall, Meant, Asked, NoneAsked
  <2> QED
    BY <2>2, <2>4
<1> QED
  BY <1>5, <1>8, <1>9, <1>10, <1>11, <1>12 DEF GoesOn

LEMMA InsertRecGoesOn ==
    ASSUME TypeInv, BasisInv, NEW p \in Calls, InsertRec(p)
    PROVE  GoesOn(p)
<1> DEFINE e == [emitted |-> TRUE, route |-> call[p].route, task |-> call[p].task]
           n == Len(recs) + 1
<1>1. call[p] \in CallSet /\ CallOk(call[p]) /\ call[p].at = "insert_rec"
  BY CallsAreTyped DEF InsertRec, At
<1>2. CASE ActiveRec # 0
  BY <1>2, EndGoesOn DEF InsertRec, Raise
<1>3. CASE ActiveRec = 0
  <2>1. recs' = Append(recs, e) /\ UNCHANGED <<gaps, tasks>> /\ call' = [call EXCEPT ![p] = Idle]
    BY <1>3 DEF InsertRec, End, Goes
  <2>2. e \in RecSet /\ e.task = call[p].task /\ e.route = call[p].route
    BY <1>1 DEF RecSet, CallSet
  <2>3. recs \in Seq(RecSet)
    BY DEF TypeInv
  <2> HIDE DEF e
  <2>4. /\ recs' \in Seq(RecSet) /\ DOMAIN recs' = DOMAIN recs \cup {n}
        /\ recs'[n] = e /\ \A i \in DOMAIN recs : recs'[i] = recs[i]
    BY <2>1, <2>2, <2>3, RowIsAppended
  <2> HIDE DEF n
  <2>5. RowsTyped' /\ Grows
    BY <2>1, <2>4 DEF RowsTyped, Grows, TypeInv
  <2>6. Based(call[p].task)
    BY <1>1 DEF CallOk
  <2>7. RowsOk'
    <3>1. \A t : Based(t)' = Based(t)
      BY <2>1 DEF Based
    <3>2. ASSUME NEW r \in DOMAIN recs' PROVE Based(recs'[r].task)
      BY <2>2, <2>4, <2>6 DEF BasisInv, RowsOk
    <3>3. \A t \in DOMAIN tasks' : tasks'[t].gap \in DOMAIN gaps'
      BY <2>1 DEF BasisInv, RowsOk
    <3> QED
      BY <3>1, <3>2, <3>3 DEF RowsOk
  <2>8. Idle \in CallSet /\ CallOk(Idle)' /\ SerialCall(Idle)'
    BY IdleIsFine DEF Idle, CallOk, SerialCall
  <2>9. ASSUME Books, SerialCall(call[p]) PROVE Books'
    <3>1. ~Asked(call[p].task) /\ call[p].route = Meant(call[p].task)
      BY <1>1, <2>9 DEF SerialCall
    <3>2. \A t : Asked(t)' = Asked(t) /\ Meant(t)' = Meant(t)
      BY <2>1 DEF Asked, Meant
    <3>3. ASSUME NEW r \in DOMAIN recs'
          PROVE  ~Asked(recs'[r].task) /\ recs'[r].route = Meant(recs'[r].task)
      BY <2>2, <2>4, <2>9, <3>1 DEF Books
    <3>4. /\ \A t, u \in DOMAIN tasks' : Asked(t)' /\ Asked(u)' => t = u
          /\ \A t \in DOMAIN tasks' : Asked(t)' => gaps'[tasks'[t].gap].open
      BY <2>1, <2>9, <3>2 DEF Books
    <3> QED
      BY <3>2, <3>3, <3>4 DEF Books
  <2> QED
    BY <2>1, <2>5, <2>7, <2>8, <2>9 DEF GoesOn
<1> QED
  BY <1>2, <1>3

LEMMA CancelGoesOn ==
    ASSUME TypeInv, BasisInv, NEW p \in Calls, Cancel(p)
    PROVE  GoesOn(p)
<1> DEFINE t == call[p].task
           e == [tasks[t] EXCEPT !.status = "cancelled"]
<1>1. call[p] \in CallSet /\ t \in DOMAIN tasks
  BY CallsAreTyped DEF Cancel, At, CallOk
<1>2. tasks[t] \in TaskSet /\ tasks \in Seq(TaskSet)
  BY <1>1 DEF TypeInv
<1>3. /\ e \in TaskSet /\ e.gap = tasks[t].gap /\ e.route = tasks[t].route
      /\ e.said = tasks[t].said /\ e.status # "open"
  BY <1>2 DEF TaskSet
<1>4. tasks' = [tasks EXCEPT ![t] = e] /\ UNCHANGED <<gaps, recs>> /\ call' = [call EXCEPT ![p] = Idle]
  BY DEF Cancel, End, Goes
<1> HIDE DEF e, t
<1>5. tasks' \in Seq(TaskSet) /\ DOMAIN tasks' = DOMAIN tasks
  BY <1>1, <1>2, <1>3, <1>4, RowIsChanged
<1>6. /\ \A u \in DOMAIN tasks :
            /\ tasks'[u].gap = tasks[u].gap /\ tasks'[u].said = tasks[u].said
            /\ tasks'[u].route = tasks[u].route
            /\ tasks'[u].status = "open" => tasks[u].status = "open"
  BY <1>1, <1>2, <1>3, <1>4
<1>7. RowsTyped' /\ Grows /\ RowsOk'
  BY <1>4, <1>5, <1>6 DEF RowsTyped, Grows, RowsOk, Based, TypeInv, BasisInv
<1>8. Idle \in CallSet /\ CallOk(Idle)' /\ SerialCall(Idle)'
  BY IdleIsFine DEF Idle, CallOk, SerialCall
<1>9. ASSUME Books PROVE Books'
  <2>1. \A r \in DOMAIN recs : recs[r].task \in DOMAIN tasks
    BY DEF BasisInv, RowsOk, Based
  <2> QED
    BY <1>4, <1>5, <1>6, <1>9, <2>1 DEF Books, Asked, Meant
<1> QED
  BY <1>4, <1>7, <1>8, <1>9 DEF GoesOn

LEMMA AssignGoesOn ==
    ASSUME TypeInv, BasisInv, NEW p \in Calls, Assign(p)
    PROVE  GoesOn(p)
<1> DEFINE e == [member |-> call[p].member, gap |-> call[p].gap, route |-> call[p].route,
                 status |-> "open", said |-> None]
           n == Len(tasks) + 1
<1>1. call[p] \in CallSet /\ call[p].gap \in DOMAIN gaps /\ call[p].at = "assign"
  BY CallsAreTyped DEF Assign, At, CallOk
<1>2. tasks' = Append(tasks, e) /\ UNCHANGED <<gaps, recs>> /\ call' = [call EXCEPT ![p] = Idle]
  BY DEF Assign, End, Goes
<1>3. e \in TaskSet /\ e.gap = call[p].gap
  BY <1>1 DEF TaskSet, CallSet
<1>4. tasks \in Seq(TaskSet)
  BY DEF TypeInv
<1> HIDE DEF e
<1>5. /\ tasks' \in Seq(TaskSet) /\ DOMAIN tasks' = DOMAIN tasks \cup {n} /\ n \notin DOMAIN tasks
      /\ tasks'[n] = e /\ \A i \in DOMAIN tasks : tasks'[i] = tasks[i]
  BY <1>2, <1>3, <1>4, RowIsAppended
<1> HIDE DEF n
<1>6. RowsTyped' /\ Grows
  BY <1>2, <1>5 DEF RowsTyped, Grows, TypeInv
<1>7. RowsOk'
  BY <1>1, <1>2, <1>3, <1>5 DEF RowsOk, BasisInv, Based
<1>8. Idle \in CallSet /\ CallOk(Idle)' /\ SerialCall(Idle)'
  BY IdleIsFine DEF Idle, CallOk, SerialCall
<1>9. ASSUME Books, SerialCall(call[p]) PROVE Books'
  <2>1. NoneAsked /\ gaps[call[p].gap].open
    BY <1>1, <1>9 DEF SerialCall
  <2>2. \A r \in DOMAIN recs : recs[r].task \in DOMAIN tasks
    BY DEF BasisInv, RowsOk, Based
  <2>3. \A t \in DOMAIN tasks' : Asked(t)' => t = n
    BY <1>5, <2>1 DEF NoneAsked, Asked
  <2>4. gaps'[tasks'[n].gap].open
    BY <1>2, <1>3, <1>5, <2>1
  <2>5. \A r \in DOMAIN recs' : ~Asked(recs[r].task)' /\ recs'[r].route = Meant(recs[r].task)'
    BY <1>2, <1>5, <1>9, <2>2 DEF Books, Asked, Meant
  <2> QED
    BY <1>2, <2>3, <2>4, <2>5 DEF Books, Meant, Asked
<1> QED
  BY <1>2, <1>6, <1>7, <1>8, <1>9 DEF GoesOn

-----------------------------------------------------------------------------
(* The invariant and the theorems.                                         *)

LEMMA InvInit == Init => IInv
<1> SUFFICES ASSUME Init PROVE IInv
  OBVIOUS
<1>1. TypeInv
  <2>1. <<>> \in Seq(GapSet) /\ <<>> \in Seq(TaskSet) /\ <<>> \in Seq(RecSet)
    OBVIOUS
  <2>2. [p \in Calls |-> Idle] \in [Calls -> CallSet]
    BY IdleIsFine
  <2> QED
    BY <2>1, <2>2 DEF Init, TypeInv
<1>2. BasisInv
  BY IdleIsFine DEF Init, BasisInv, RowsOk
<1>3. \A p \in Calls : call[p] = Idle /\ call[p].at = "idle"
  BY DEF Init, Idle
<1>4. SerialInv
  BY <1>3, IdleIsFine DEF Init, SerialInv, Books
<1> QED
  BY <1>1, <1>2, <1>4 DEF IInv

\* A step of one call, or a new one.
LEMMA CallStep ==
    ASSUME IInv, NEW p \in Calls, GoesOn(p), able' = able,
           \/ call[p].at # "idle" /\ overlapped' = overlapped
           \/ overlapped' = (overlapped \/ \E q \in Calls : call[q].at # "idle")
    PROVE  IInv'
<1>1. PICK c \in CallSet :
         /\ call' = [call EXCEPT ![p] = c]
         /\ CallOk(c)'
         /\ Books /\ SerialCall(call[p]) => Books' /\ SerialCall(c)'
  BY DEF GoesOn
<1>2. TypeInv /\ BasisInv /\ SerialInv /\ RowsTyped' /\ Grows /\ RowsOk'
  BY DEF IInv, GoesOn
<1>3. call \in [Calls -> CallSet] /\ overlapped \in BOOLEAN
  BY <1>2 DEF TypeInv
<1>4. /\ call' \in [Calls -> CallSet] /\ call'[p] = c
      /\ \A q \in Calls : q # p => call'[q] = call[q]
  BY <1>1, <1>3
<1>5. overlapped' \in BOOLEAN
  BY <1>3
<1>6. TypeInv'
  BY <1>2, <1>4, <1>5 DEF TypeInv, RowsTyped
<1>7. BasisInv'
  <2>1. ASSUME NEW q \in Calls PROVE CallOk(call[q])'
    <3>1. CASE q = p
      BY <1>1, <1>4, <3>1
    <3>2. CASE q # p
      <4>1. PICK d \in CallSet : d = call[q]
        BY <1>3
      <4>2. CallOk(d)
        BY <1>2, <4>1 DEF BasisInv
      <4>3. CallOk(d)'
        BY <1>2, <4>2, StaysOk DEF BasisInv
      <4> QED
        BY <1>4, <3>2, <4>1, <4>3
    <3> QED
      BY <3>1, <3>2
  <2> QED
    BY <1>2, <2>1 DEF BasisInv
<1>8. ASSUME ~overlapped' PROVE SerialInv!2'
  <2>1. /\ ~overlapped
        /\ \A q \in Calls : call[q].at # "idle" => q = p
    <3>1. CASE call[p].at # "idle" /\ overlapped' = overlapped
      BY <1>2, <1>8, <3>1 DEF SerialInv
    <3>2. CASE overlapped' = (overlapped \/ \E q \in Calls : call[q].at # "idle")
      <4>1. ~(overlapped \/ \E q \in Calls : call[q].at # "idle")
        BY ONLY <1>8, <3>2
      <4> QED
        BY <4>1
    <3> QED
      BY <3>1, <3>2
  <2>2. Books /\ SerialCall(call[p])
    BY <1>2, <2>1 DEF SerialInv
  <2>3. Books' /\ SerialCall(c)'
    BY <1>1, <2>2
  <2>4. ASSUME NEW q \in Calls, q # p PROVE call'[q].at = "idle"
    BY <1>4, <2>1, <2>4
  <2>5. ASSUME NEW q \in Calls PROVE SerialCall(call[q])'
    <3>1. CASE q = p
      BY <1>4, <2>3, <3>1
    <3>2. CASE q # p
      BY <2>4, <3>2 DEF SerialCall
    <3> QED
      BY <3>1, <3>2
  <2> QED
    BY <2>3, <2>4, <2>5
<1>9. SerialInv'
  BY <1>8 DEF SerialInv
<1> QED
  BY <1>6, <1>7, <1>9 DEF IInv

LEMMA StepGoesOn ==
    ASSUME TypeInv, BasisInv, NEW p \in Calls, Step(p)
    PROVE  GoesOn(p) /\ call[p].at # "idle" /\ able' = able /\ overlapped' = overlapped
<1>1. CASE LateReport(p)
  BY <1>1, LateReportGoesOn DEF LateReport, At, Goes
<1>2. CASE Withdraw(p)
  BY <1>2, WithdrawGoesOn DEF Withdraw, At, Goes
<1>3. CASE FindGap(p)
  BY <1>3, FindGapGoesOn DEF FindGap, At, Goes
<1>4. CASE WriteGap(p)
  BY <1>4, WriteGapGoesOn DEF WriteGap, Raise, End, At, Goes
<1>5. CASE Complete(p)
  BY <1>5, CompleteGoesOn DEF Complete, At, Goes
<1>6. CASE Resolve(p)
  BY <1>6, ResolveGoesOn DEF Resolve, At, Goes
<1>7. CASE Blocked(p)
  BY <1>7, BlockedGoesOn DEF Blocked, At, Goes
<1>8. CASE Emit(p)
  BY <1>8, EmitGoesOn DEF Emit, At, End, Goes
<1>9. CASE InsertRec(p)
  BY <1>9, InsertRecGoesOn DEF InsertRec, Raise, End, At, Goes
<1>10. CASE ReadGap(p)
  BY <1>10, RefreshGoesOn DEF ReadGap, At, Goes
<1>11. CASE ReadTask(p)
  BY <1>11, ReadTaskGoesOn DEF ReadTask, At, End, Goes
<1>12. CASE Cancel(p)
  BY <1>12, CancelGoesOn DEF Cancel, End, At, Goes
<1>13. CASE Assign(p)
  BY <1>13, AssignGoesOn DEF Assign, End, At, Goes
<1> QED
  BY <1>1, <1>2, <1>3, <1>4, <1>5, <1>6, <1>7, <1>8, <1>9, <1>10, <1>11, <1>12, <1>13 DEF Step

LEMMA InvNext == IInv /\ [Next]_vars => IInv'
<1> SUFFICES ASSUME IInv, [Next]_vars PROVE IInv'
  OBVIOUS
<1>0. TypeInv /\ BasisInv /\ SerialInv
  BY DEF IInv
<1>5. ASSUME UNCHANGED <<rows, call, overlapped>>, able' \in [Members -> BOOLEAN] PROVE IInv'
  <2>1. UNCHANGED <<gaps, tasks, recs, call, overlapped>>
    BY <1>5 DEF rows
  <2>2. TypeInv'
    BY <1>0, <1>5, <2>1 DEF TypeInv
  <2>3. BasisInv'
    BY <1>0, <2>1 DEF BasisInv, RowsOk, CallOk, Based
  <2>4. Books' = Books /\ NoneAsked' = NoneAsked
    BY <2>1 DEF Books, NoneAsked, Asked, Meant
  <2>5. \A c : SerialCall(c)' = SerialCall(c)
    BY <2>1, <2>4 DEF SerialCall, Asked, Meant
  <2>6. SerialInv'
    BY <1>0, <2>1, <2>4, <2>5 DEF SerialInv
  <2> QED
    BY <2>2, <2>3, <2>6 DEF IInv
<1>1. ASSUME NEW p \in Calls, NEW b \in BOOLEAN, NEW h \in Routes \cup {None}, Finding(p, b, h)
      PROVE  IInv'
  <2>1. CASE DetailsDecoded
    <3>1. GoesOn(p)
      BY <1>0, <1>1, <2>1, FindingGoesOn
    <3>2. able' = able /\ overlapped' = (overlapped \/ \E q \in Calls : call[q].at # "idle")
      BY <1>1, <2>1 DEF Finding, Enter
    <3> QED
      BY <3>1, <3>2, CallStep
  <2>2. CASE ~DetailsDecoded
    <3>1. UNCHANGED <<able, rows, call, overlapped>>
      BY <1>1, <2>2 DEF Finding
    <3> QED
      BY <1>0, <1>5, <3>1 DEF TypeInv
  <2> QED
    BY <2>1, <2>2
<1>2. ASSUME NEW p \in Calls, NEW m \in Members, NEW s \in Said, NEW h \in Routes \cup {None},
             Report(p, m, s, h)
      PROVE  IInv'
  <2>1. GoesOn(p)
    BY <1>0, <1>2, ReportGoesOn
  <2>2. able' = able /\ overlapped' = (overlapped \/ \E q \in Calls : call[q].at # "idle")
    BY <1>2 DEF Report, Enter
  <2> QED
    BY <2>1, <2>2, CallStep
<1>3. ASSUME NEW p \in Calls, Refresh(p) PROVE IInv'
  <2>1. GoesOn(p)
    BY <1>0, <1>3, RefreshGoesOn
  <2>2. able' = able /\ overlapped' = (overlapped \/ \E q \in Calls : call[q].at # "idle")
    BY <1>3 DEF Refresh, Enter
  <2> QED
    BY <2>1, <2>2, CallStep
<1>4. ASSUME NEW p \in Calls, Step(p) PROVE IInv'
  BY <1>0, <1>4, StepGoesOn, CallStep
<1>6. ASSUME NEW m \in Members, Change(m) PROVE IInv'
  BY <1>0, <1>5, <1>6 DEF Change, TypeInv
<1>7. CASE UNCHANGED vars
  BY <1>0, <1>5, <1>7 DEF vars, rows, TypeInv
<1> QED
  BY <1>1, <1>2, <1>3, <1>4, <1>6, <1>7 DEF Next

LEMMA Invariant == Spec => []IInv
<1> QED
  BY InvInit, InvNext, PTL DEF Spec

\* However findings, reports and refreshes interleave at their statements, a
\* recommended route rests on a task a sensor has reported on and whose gap is
\* resolved (process_member_report, _emit_recommendation).
THEOREM RoutesHaveABasis == Spec => []EmittedHasBasis
<1>1. IInv => EmittedHasBasis
  BY DEF IInv, BasisInv, RowsOk, Based, EmittedHasBasis
<1> QED
  BY <1>1, Invariant, PTL

\* As long as no two calls of the engine have overlapped, one sensor at most is
\* asked, about an open gap; the recommended route is the one its report stands
\* for; and a call that comes to its refresh finds a gap open.
THEOREM SerialCallsKeepBooks == Spec => []SerialBooks
<1>1. ASSUME IInv, ~overlapped PROVE SerialBooks!2
  <2>1. TypeInv /\ Books /\ \A p \in Calls : SerialCall(call[p])
    BY <1>1 DEF IInv, SerialInv
  <2>2. ASSUME NEW p \in Calls, At(p, "read_gap") PROVE OpenGap # 0
    <3>1. \E g \in DOMAIN gaps : gaps[g].open
      BY <2>1, <2>2 DEF SerialCall, At
    <3> QED
      BY <2>1, <3>1, QueriesFind
  <2> QED
    BY <2>1, <2>2 DEF Books, Asked, Meant
<1>2. IInv => SerialBooks
  BY <1>1 DEF SerialBooks
<1> QED
  BY <1>2, Invariant, PTL
=============================================================================
