---------------------------- MODULE MCHost_proofs ----------------------------
(* What holds of installing a host, of starting and stopping hubs on it and  *)
(* of reviewing what they found, for any numbers of starts, terminals,       *)
(* passphrases and rows.                                                     *)
EXTENDS MCHost, FiniteSetTheorems, TLAPS

-----------------------------------------------------------------------------
(* The composition.                                                        *)

\* Each part runs as its component does, or stands still.
LEMMA Composed == AllSpec => Spec /\ Install!Spec /\ Feed!Spec
<1>1. AllInit => Init /\ Install!Init /\ Feed!Init
  BY DEF AllInit
<1>2. [AllNext]_<<vars, installVars, feedVars, part>> =>
        [Next]_vars /\ [Install!Next]_(Install!vars) /\ [Feed!Next]_(Feed!vars)
  BY DEF AllNext, installVars, feedVars, Install!vars, Install!host, Feed!vars, Feed!history
<1> QED
  BY <1>1, <1>2, PTL DEF AllSpec, Spec, Install!Spec, Feed!Spec

-----------------------------------------------------------------------------
(* The volume as a lock, for any operator.                                 *)

\* The hubs that have opened the volume and have not yet come to closing it.
Holds(h) == h \in Alive /\ opened[h]

TypeInv ==
  /\ pc \in [Hubs -> StartsUp \cup {"new", "serving", "draining", "ending", "sealing", "gone"}]
  /\ opened \in [Hubs -> BOOLEAN]
  /\ rows \in [Operations -> {"none", "active", "stopped"}]

\* The volume is a lock: open as long as somebody holds it, held by one at a
\* time, and held by whoever looks for an operation.
LockInv ==
  /\ \A h \in Hubs : Holds(h) => volume = "open"
  /\ \A g, h \in Hubs : Holds(g) /\ Holds(h) => g = h
  /\ \A h \in Hubs : pc[h] \in {"new", "booting", "mounting"} => ~opened[h]
  /\ \A h \in Hubs : pc[h] \in {"mounted", "selected"} => opened[h]

\* Whoever is about to create an operation has found none, and none came since.
OneActive ==
  /\ \A o, p \in Active : o = p
  /\ \A h \in Hubs : pc[h] = "selected" => Active = {}

LeftOpen == volume \in {"open", "closed"} /\ (volume = "open" => cutShort \/ \E h \in Hubs : Holds(h))

-----------------------------------------------------------------------------

\* The actions by what they do to the volume and to those that hold it.
LEMMA NextCases ==
  ASSUME Next
  PROVE  \/ \E h \in Hubs : \/ Check(h) \/ Boot(h) \/ Mount(h) \/ Select(h) \/ Create(h)
                            \/ Announce(h) \/ Serve(h) \/ Notice(h) \/ NoticeFails(h)
                            \/ Drained(h) \/ StartFails(h) \/ Interrupt(h)
                            \/ StopOperation(h) \/ Seal(h) \/ SealFails(h)
                            \/ MountFails(h) \/ Die(h)
         \/ Reboot
         \/ UNCHANGED <<pc, opened, rows, volume, cutShort>>
<1>1. ASSUME NEW t \in Stoppers, Stopper(t)
      PROVE  UNCHANGED <<pc, opened, rows, volume, cutShort>>
  BY <1>1 DEF Stopper, Stop, Ask, Terminate, Stopped, GiveUp, hubVars, history
<1>2. ASSUME Status
      PROVE  UNCHANGED <<pc, opened, rows, volume, cutShort>>
  BY <1>2 DEF Status, hubVars, history
<1> QED
  BY <1>1, <1>2 DEF Next, Hub

LEMMA TypeLasts == TypeInv /\ [Next]_vars => TypeInv'
<1> SUFFICES ASSUME TypeInv, [Next]_vars PROVE TypeInv'
  OBVIOUS
<1> USE DEF TypeInv, StartsUp, Goes, Finally
<1>up. ASSUME NEW h \in Hubs,
              \/ Check(h) \/ Mount(h) \/ Select(h) \/ Announce(h)
              \/ Serve(h) \/ Notice(h) \/ NoticeFails(h)
       PROVE  TypeInv'
  BY <1>up DEF Check, Mount, Select, Announce, Serve, Notice, NoticeFails, history
<1>boot. ASSUME NEW h \in Hubs, Boot(h) PROVE TypeInv'
  <2>1. /\ pc' = [pc EXCEPT ![h] = "mounting"] /\ UNCHANGED opened
        /\ \/ rows' = [o \in Operations |-> IF o \in Active THEN "stopped" ELSE rows[o]]
           \/ UNCHANGED rows
    BY <1>boot DEF Boot
  <2> QED
    BY <2>1
<1>create. ASSUME NEW h \in Hubs, Create(h) PROVE TypeInv'
  BY <1>create DEF Create
<1>down. ASSUME NEW h \in Hubs,
                \/ Drained(h) \/ StartFails(h) \/ Interrupt(h) \/ MountFails(h)
                \/ Seal(h) \/ SealFails(h) \/ Die(h)
         PROVE  TypeInv'
  BY <1>down DEF Drained, StartFails, Interrupt, MountFails, Seal, SealFails, Die
<1>stop. ASSUME NEW h \in Hubs, StopOperation(h) PROVE TypeInv'
  BY <1>stop DEF StopOperation
<1>reboot. CASE Reboot
  BY <1>reboot DEF Reboot
<1>rest. CASE UNCHANGED <<pc, opened, rows>>
  BY <1>rest
<1> QED
  BY <1>up, <1>boot, <1>create, <1>down, <1>stop, <1>reboot, <1>rest, NextCases
     DEF vars, hubVars

\* Only Mount takes the lock, from a volume that is closed; Seal, which gives it
\* back, is its holder's.
LEMMA LockLasts == TypeInv /\ LockInv /\ [Next]_vars => LockInv'
<1> SUFFICES ASSUME TypeInv, LockInv, [Next]_vars PROVE LockInv'
  OBVIOUS
<1> USE DEF TypeInv, LockInv, Holds, Alive, StartsUp, Goes, Finally
\* A hub that goes on without opening anything, past the steps that need it open.
<1>go. ASSUME NEW h \in Hubs, UNCHANGED <<opened, volume>>, h \in Alive,
              NEW there, pc' = [pc EXCEPT ![h] = there],
              there \in {"mounted", "selected"} => opened[h],
              there \notin {"new", "booting", "mounting"}
       PROVE  LockInv'
  BY <1>go
<1>check. ASSUME NEW h \in Hubs, Check(h) PROVE LockInv'
  BY <1>check DEF Check
<1>boot. ASSUME NEW h \in Hubs, Boot(h) PROVE LockInv'
  BY <1>boot DEF Boot, At
<1>mount. ASSUME NEW h \in Hubs, Mount(h) PROVE LockInv'
  <2>1. /\ \A g \in Hubs : ~Holds(g)
        /\ volume' = "open"
        /\ opened' = [opened EXCEPT ![h] = TRUE]
        /\ pc' = [pc EXCEPT ![h] = "mounted"]
    BY <1>mount DEF Mount
  <2> QED
    BY <2>1
<1>select. ASSUME NEW h \in Hubs, Select(h) PROVE LockInv'
  <2>1. /\ pc[h] = "mounted" /\ UNCHANGED <<opened, volume>>
        /\ \E there \in {"selected", "ready"} : pc' = [pc EXCEPT ![h] = there]
    BY <1>select DEF Select, At
  <2> QED
    BY <2>1
<1>on. ASSUME NEW h \in Hubs,
              \/ Create(h) \/ Announce(h) \/ Serve(h) \/ Notice(h)
              \/ Drained(h) \/ StartFails(h) \/ Interrupt(h) \/ StopOperation(h)
       PROVE  LockInv'
  <2>1. /\ h \in Alive /\ UNCHANGED <<opened, volume>>
        /\ \E there \in {"ready", "announced", "serving", "draining", "ending", "sealing"} :
             pc' = [pc EXCEPT ![h] = there]
    BY <1>on DEF Create, Announce, Serve, Notice, Drained, StartFails, Interrupt,
                 StopOperation, At
  <2> QED
    BY <2>1, <1>go
<1>mountfails. ASSUME NEW h \in Hubs, MountFails(h) PROVE LockInv'
  <2>1. /\ \A g \in Hubs : ~Holds(g)
        /\ UNCHANGED opened /\ ~opened[h]
        /\ pc' = [pc EXCEPT ![h] = "ending"]
    BY <1>mountfails DEF MountFails, At
  <2> QED
    BY <2>1
<1>seal. ASSUME NEW h \in Hubs, Seal(h) PROVE LockInv'
  <2>1. /\ h \in Alive /\ pc' = [pc EXCEPT ![h] = "gone"]
        /\ opened' = [opened EXCEPT ![h] = FALSE]
        /\ volume' = IF opened[h] THEN "closed" ELSE volume
    BY <1>seal DEF Seal, At
  <2>2. \A g \in Hubs : Holds(g)' => g # h /\ Holds(g)
    BY <2>1
  <2>3. \A g \in Hubs : Holds(g)' => volume' = volume
    BY <2>1, <2>2
  <2> QED
    BY <2>1, <2>2, <2>3
<1>out. ASSUME NEW h \in Hubs, SealFails(h) \/ Die(h) PROVE LockInv'
  BY <1>out DEF SealFails, Die
<1>reboot. CASE Reboot
  BY <1>reboot DEF Reboot
<1>rest. CASE UNCHANGED <<pc, opened, volume>>
  BY <1>rest
<1> QED
  BY <1>check, <1>boot, <1>mount, <1>select, <1>on, <1>mountfails, <1>seal, <1>out,
     <1>reboot, <1>rest, NextCases DEF vars, hubVars, NoticeFails

\* An operation is created by the holder of the lock, who has found none.
LEMMA OneActiveLasts == TypeInv /\ LockInv /\ OneActive /\ [Next]_vars => OneActive'
<1> SUFFICES ASSUME TypeInv, LockInv, OneActive, [Next]_vars PROVE OneActive'
  OBVIOUS
<1> USE DEF TypeInv, OneActive, Active, StartsUp, Goes, Finally
\* No operation becomes active, and nobody comes to select.
<1>fewer. ASSUME Active' \subseteq Active,
                 \A h \in Hubs : pc'[h] = "selected" => pc[h] = "selected"
          PROVE  OneActive'
  BY <1>fewer
<1>boot. ASSUME NEW h \in Hubs, Boot(h) PROVE OneActive'
  <2>1. /\ pc' = [pc EXCEPT ![h] = "mounting"]
        /\ \/ rows' = [o \in Operations |-> IF o \in Active THEN "stopped" ELSE rows[o]]
           \/ UNCHANGED rows
    BY <1>boot DEF Boot
  <2> QED
    BY <2>1, <1>fewer
<1>select. ASSUME NEW h \in Hubs, Select(h) PROVE OneActive'
  <2>1. UNCHANGED rows /\ (Active = {} \/ pc' = [pc EXCEPT ![h] = "ready"])
    BY <1>select DEF Select
  <2>2. CASE Active = {}
    BY <2>1, <2>2
  <2>3. CASE pc' = [pc EXCEPT ![h] = "ready"]
    BY <2>1, <2>3, <1>fewer
  <2> QED
    BY <2>1, <2>2, <2>3
<1>create. ASSUME NEW h \in Hubs, Create(h) PROVE OneActive'
  <2>1. PICK o \in Operations : rows' = [rows EXCEPT ![o] = "active"]
    BY <1>create DEF Create
  <2>2. Active = {} /\ pc[h] = "selected" /\ pc' = [pc EXCEPT ![h] = "ready"]
    BY <1>create DEF Create, At
  <2>3. \A p \in Active' : p = o
    BY <2>1, <2>2
  <2>4. \A g \in Hubs : pc[g] = "selected" => g = h
    BY <2>2 DEF LockInv, Holds, Alive
  <2> QED
    BY <2>2, <2>3, <2>4
<1>up. ASSUME NEW h \in Hubs,
              \/ Check(h) \/ Mount(h) \/ Announce(h) \/ Serve(h) \/ Notice(h) \/ NoticeFails(h)
       PROVE  OneActive'
  BY <1>up, <1>fewer DEF Check, Mount, Announce, Serve, Notice, NoticeFails
<1>down. ASSUME NEW h \in Hubs,
                \/ Drained(h) \/ StartFails(h) \/ Interrupt(h) \/ MountFails(h)
                \/ Seal(h) \/ SealFails(h) \/ Die(h)
         PROVE  OneActive'
  BY <1>down, <1>fewer DEF Drained, StartFails, Interrupt, MountFails, Seal, SealFails, Die
<1>stop. ASSUME NEW h \in Hubs, StopOperation(h) PROVE OneActive'
  <2>1. pc' = [pc EXCEPT ![h] = "sealing"] /\ rows' \in {rows, [rows EXCEPT ![op[h]] = "stopped"]}
    BY <1>stop DEF StopOperation
  <2> QED
    BY <2>1, <1>fewer
<1>reboot. CASE Reboot
  BY <1>reboot, <1>fewer DEF Reboot
<1>rest. CASE UNCHANGED <<pc, rows>>
  BY <1>rest
<1> QED
  BY <1>boot, <1>select, <1>create, <1>up, <1>down, <1>stop, <1>reboot, <1>rest, NextCases
     DEF vars, hubVars

\* Whoever leaves without giving the lock back was cut short.
LEMMA LeftOpenLasts == TypeInv /\ LeftOpen /\ [Next]_vars => LeftOpen'
<1> SUFFICES ASSUME TypeInv, LeftOpen, [Next]_vars PROVE LeftOpen'
  OBVIOUS
<1> USE DEF TypeInv, LeftOpen, Holds, Alive, StartsUp, Goes, Finally
\* Nobody gives it back.
<1>keep. ASSUME UNCHANGED <<volume, cutShort>>,
                \A h \in Hubs : Holds(h) => Holds(h)'
         PROVE  LeftOpen'
  BY <1>keep
<1>go. ASSUME NEW h \in Hubs, UNCHANGED <<opened, volume, cutShort>>,
              NEW there, pc' = [pc EXCEPT ![h] = there], there \notin {"new", "gone"}
       PROVE  LeftOpen'
  BY <1>go, <1>keep
<1>up. ASSUME NEW h \in Hubs,
              \/ Check(h) \/ Boot(h) \/ Select(h) \/ Create(h) \/ Announce(h) \/ Serve(h)
              \/ Notice(h) \/ Drained(h) \/ StartFails(h) \/ Interrupt(h) \/ StopOperation(h)
       PROVE  LeftOpen'
  <2>1. /\ UNCHANGED <<opened, volume, cutShort>>
        /\ \E there \in {"booting", "mounting", "selected", "ready", "announced", "serving",
                         "draining", "ending", "sealing"} : pc' = [pc EXCEPT ![h] = there]
    BY <1>up DEF Check, Boot, Select, Create, Announce, Serve, Notice, Drained, StartFails,
                 Interrupt, StopOperation, history
  <2> QED
    BY <2>1, <1>go
<1>mount. ASSUME NEW h \in Hubs, Mount(h) PROVE LeftOpen'
  <2>1. volume' = "open" /\ Holds(h)'
    BY <1>mount DEF Mount
  <2> QED
    BY <2>1
<1>seal. ASSUME NEW h \in Hubs, Seal(h) PROVE LeftOpen'
  <2>1. /\ pc' = [pc EXCEPT ![h] = "gone"] /\ opened' = [opened EXCEPT ![h] = FALSE]
        /\ volume' = (IF opened[h] THEN "closed" ELSE volume) /\ UNCHANGED cutShort
    BY <1>seal DEF Seal, history
  <2>2. CASE opened[h]
    BY <2>1, <2>2
  <2>3. CASE ~opened[h]
    BY <2>1, <2>3, <1>keep
  <2> QED
    BY <2>2, <2>3
<1>cut. ASSUME NEW h \in Hubs, MountFails(h) \/ SealFails(h) \/ Die(h) PROVE LeftOpen'
  BY <1>cut DEF MountFails, SealFails, Die
<1>reboot. CASE Reboot
  BY <1>reboot DEF Reboot
<1>rest. CASE UNCHANGED <<pc, opened, volume, cutShort>>
  BY <1>rest
<1> QED
  BY <1>up, <1>mount, <1>seal, <1>cut, <1>reboot, <1>rest, NextCases
     DEF vars, hubVars, history, NoticeFails

-----------------------------------------------------------------------------

LEMMA InitInv == Init => TypeInv /\ LockInv /\ OneActive /\ LeftOpen
  BY DEF Init, TypeInv, LockInv, OneActive, LeftOpen, Holds, Alive, Active, StartsUp

\* A set without two elements has at most one.
LEMMA OneOrNone == (\A o, p \in Active : o = p) => AtMostOneActive
<1> SUFFICES ASSUME \A o, p \in Active : o = p PROVE Cardinality(Active) <= 1
  BY DEF AtMostOneActive
<1>1. CASE Active = {}
  BY <1>1, FS_EmptySet
<1>2. CASE Active # {}
  <2>1. PICK o : o \in Active
    BY <1>2
  <2>2. Active = {o}
    BY <2>1
  <2>3. Cardinality({o}) = 1
    BY FS_Singleton, Zenon
  <2> QED
    BY <2>2, <2>3
<1> QED
  BY <1>1, <1>2

\* Through crashes, kills, restarts, failed starts and overlapping commands, no
\* operation is created while another is active.
THEOREM OneOperation == Spec => []AtMostOneActive
<1>1. OneActive => AtMostOneActive
  BY OneOrNone DEF OneActive
<1> QED
  BY <1>1, InitInv, TypeLasts, LockLasts, OneActiveLasts, PTL DEF Spec

\* When no hub runs and none was cut short, the volume is closed.
THEOREM Sealed == Spec => []SealedAtRest
<1>1. LeftOpen => SealedAtRest
  BY DEF LeftOpen, SealedAtRest, Holds
<1> QED
  BY <1>1, InitInv, TypeLasts, LeftOpenLasts, PTL DEF Spec
-----------------------------------------------------------------------------
(* What a careful operator may rely on.                                    *)

\* The hubs that still have the two files ahead of them: on their way up,
\* serving or draining.
Current(h) == pc[h] \in StartsUp \cup {"serving", "draining"}

CarefulTypes ==
  /\ op \in [Hubs -> Operations \cup {0}] /\ keep \in [Hubs -> BOOLEAN]
  /\ stop \in [Stoppers -> {"idle", "asking", "waiting", "killing"}]
  /\ victim \in [Stoppers -> Hubs \cup {NoHub}]
  /\ request \in {"none", "stop", "restart"}

\* There is one current hub at a time.  The state file names it once it is
\* written, a stop command under way is about it, and so is a request; one to
\* stop says that its operation shall end.
OneCurrent ==
  /\ \A g, h \in Hubs : Current(g) /\ Current(h) => g = h
  /\ \A h \in Hubs : pc[h] \in {"announced", "serving", "draining"} => state = h
  /\ \A t \in Stoppers : stop[t] # "idle" =>
        \A h \in Hubs : Current(h) => pc[h] \notin StartsUp /\ victim[t] = h
  /\ request # "none" =>
        \A h \in Hubs : Current(h) =>
           /\ pc[h] \notin StartsUp /\ addressee = h
           /\ request = "stop" => op[h] \in toEnd \cup {0}
  /\ \A h \in Hubs : pc[h] = "draining" => request # "none"

\* A hub that is past the files ends its operation only if that was asked for.
EndsForCause ==
  /\ \A h \in Hubs : pc[h] \in {"new", "booting", "mounting", "mounted", "selected"} => op[h] = 0
  /\ \A h \in Hubs : pc[h] = "ending" => keep[h] \/ op[h] \in toEnd \cup {0}

CarefulInv == Overlap = FALSE /\ CarefulTypes /\ OneCurrent /\ EndsForCause

\* The operation that is resumed is an active one.
LEMMA LatestIsActive == OneActive /\ Active # {} => Latest \in Active
<1> SUFFICES ASSUME OneActive, Active # {}
             PROVE  \E o \in Active : \A p \in Active : p <= o
  BY DEF Latest
<1>1. Active \subseteq 1..Cardinality(Hubs) /\ Cardinality(Hubs) \in Nat
  BY ConstantsOK, FS_CardinalityType DEF Active, Operations
<1>2. PICK o : o \in Active
  OBVIOUS
<1>3. \A p \in Active : p = o
  BY <1>2 DEF OneActive
<1>4. o <= o
  BY <1>1, <1>2
<1> QED
  BY <1>2, <1>3, <1>4

\* serve() returns for a request only through the watcher.
LEMMA NoticedOnly ==
    ASSUME TypeInv, Next, NEW h \in Hubs, pc[h] = "serving", pc'[h] = "draining"
    PROVE  request # "none"
<1> USE DEF TypeInv, StartsUp, Goes, Finally, At
<1>1. ASSUME NEW g \in Hubs, Notice(g) PROVE g = h
  BY <1>1 DEF Notice
<1>2. ASSUME NEW g \in Hubs, Check(g) \/ Boot(g) \/ Mount(g) \/ Select(g) \/ Create(g)
                            \/ Announce(g) \/ Serve(g)
      PROVE  FALSE
  BY <1>2 DEF Check, Boot, Mount, Select, Create, Announce, Serve
<1>3. ASSUME NEW g \in Hubs, NoticeFails(g) \/ Drained(g) \/ StartFails(g) \/ Interrupt(g)
                            \/ StopOperation(g) \/ Seal(g) \/ SealFails(g) \/ MountFails(g)
                            \/ Die(g)
      PROVE  FALSE
  BY <1>3 DEF NoticeFails, Drained, StartFails, Interrupt, StopOperation, Seal, SealFails,
     MountFails, Die
<1>4. CASE Reboot
  BY <1>4 DEF Reboot
<1> QED
  BY <1>1, <1>2, <1>3, <1>4, NextCases DEF Notice

\* A row is stopped by a fresh start or by a hub that ends.
LEMMA StoppedOnly ==
    ASSUME TypeInv, CarefulInv, Next, NEW o \in Operations,
           rows[o] = "active", rows'[o] = "stopped"
    PROVE  o \in toEnd'
<1> USE DEF TypeInv, StartsUp, Goes, Finally, At
<1>1. ASSUME NEW h \in Hubs, Boot(h) PROVE o \in toEnd'
  BY <1>1 DEF Boot, Active
<1>2. ASSUME NEW h \in Hubs, StopOperation(h) PROVE o \in toEnd'
  <2>1. pc[h] = "ending" /\ UNCHANGED toEnd /\ ~keep[h] /\ op[h] = o
    BY <1>2 DEF StopOperation, history
  <2> QED
    BY <2>1 DEF CarefulInv, EndsForCause, Operations
<1>3. ASSUME NEW h \in Hubs, Create(h) PROVE FALSE
  <2>1. PICK p \in Operations : rows' = [rows EXCEPT ![p] = "active"]
    BY <1>3 DEF Create
  <2> QED
    BY <2>1
<1>4. ASSUME NEW h \in Hubs,
             \/ Check(h) \/ Mount(h) \/ Select(h) \/ Announce(h) \/ Serve(h) \/ Notice(h)
             \/ NoticeFails(h) \/ Drained(h) \/ StartFails(h) \/ Interrupt(h) \/ Seal(h)
             \/ SealFails(h) \/ MountFails(h) \/ Die(h)
      PROVE  FALSE
  BY <1>4 DEF Check, Mount, Select, Announce, Serve, Notice, NoticeFails, Drained, StartFails,
     Interrupt, Seal, SealFails, MountFails, Die
<1>5. CASE Reboot
  BY <1>5 DEF Reboot
<1> QED
  BY <1>1, <1>2, <1>3, <1>4, <1>5, NextCases

LEMMA CarefulLasts == TypeInv /\ OneActive /\ CarefulInv /\ [Next]_vars => CarefulInv'
<1> SUFFICES ASSUME TypeInv, OneActive, CarefulInv, [Next]_vars PROVE CarefulInv'
  OBVIOUS
<1> USE DEF TypeInv, CarefulInv, CarefulTypes, OneCurrent, EndsForCause, Current, Alive, At,
            Goes, hubVars, files, stopVars, history
<1>known. NoHub \notin Hubs
  BY ConstantsOK
\* Nobody begins a command while one is under way.
<1>begin. ASSUME MayBegin
          PROVE  /\ \A t \in Stoppers : stop[t] = "idle"
                 /\ \A h \in Hubs : pc[h] \notin StartsUp
  BY <1>begin DEF MayBegin
<1>check. ASSUME NEW h \in Hubs, Check(h) PROVE CarefulInv'
  <2>1. /\ pc[h] = "new" /\ pc' = [pc EXCEPT ![h] = "booting"] /\ request' = "none"
        /\ UNCHANGED <<op, keep, stop, victim, addressee, toEnd>>
    BY <1>check DEF Check
  <2>2. \A g \in Hubs : ~Current(g)
    BY <1>check, <1>begin DEF Check, StartsUp
  <2>3. \A t \in Stoppers : stop[t] = "idle"
    BY <1>check, <1>begin DEF Check
  <2> QED
    BY <2>1, <2>2, <2>3 DEF StartsUp
\* A hub on its way up: no request and no stop command is there.
<1>up. ASSUME NEW h \in Hubs, NEW there \in StartsUp, pc[h] \in StartsUp,
              pc' = [pc EXCEPT ![h] = there],
              UNCHANGED <<keep, request, stop, victim, addressee>>, toEnd \subseteq toEnd',
              op' \in [Hubs -> Operations \cup {0}], \A g \in Hubs \ {h} : op'[g] = op[g],
              there \in {"booting", "mounting", "mounted", "selected"} => op'[h] = 0,
              there = "announced" => state' = h,
              there # "announced" => state' = state
       PROVE  CarefulInv'
  <2>1. \A g \in Hubs : Current(g) <=> g = h
    BY <1>up
  <2>2. request = "none" /\ \A t \in Stoppers : stop[t] = "idle"
    BY <1>up, <2>1
  <2>3. CarefulTypes'
    BY <1>up
  <2>4. \A g \in Hubs : Current(g)' => g = h
    BY <1>up, <2>1 DEF StartsUp
  <2>5. OneCurrent'
    BY <1>up, <2>2, <2>4 DEF StartsUp
  <2>6. EndsForCause'
    BY <1>up DEF StartsUp
  <2> QED
    BY <2>3, <2>5, <2>6
<1>boot. ASSUME NEW h \in Hubs, Boot(h) PROVE CarefulInv'
  BY <1>boot, <1>up DEF Boot, StartsUp
<1>mount. ASSUME NEW h \in Hubs, Mount(h) PROVE CarefulInv'
  BY <1>mount, <1>up DEF Mount, StartsUp
<1>select. ASSUME NEW h \in Hubs, Select(h) PROVE CarefulInv'
  <2>1. /\ pc[h] = "mounted"
        /\ UNCHANGED <<keep, state, request, stop, victim, addressee, toEnd>>
    BY <1>select DEF Select
  <2>2. CASE Active = {}
    <3>1. pc' = [pc EXCEPT ![h] = "selected"] /\ UNCHANGED op
      BY <1>select, <2>2 DEF Select
    <3> QED
      BY <1>up, <2>1, <3>1 DEF StartsUp
  <2>3. CASE Active # {}
    <3>1. pc' = [pc EXCEPT ![h] = "ready"] /\ op' = [op EXCEPT ![h] = Latest]
      BY <1>select, <2>3 DEF Select
    <3>2. Latest \in Operations
      BY <2>3, LatestIsActive DEF Active
    <3> QED
      BY <1>up, <2>1, <3>1, <3>2 DEF StartsUp
  <2> QED
    BY <2>2, <2>3
<1>create. ASSUME NEW h \in Hubs, Create(h) PROVE CarefulInv'
  <2>1. PICK o \in Operations : op' = [op EXCEPT ![h] = o]
    BY <1>create DEF Create
  <2> QED
    BY <1>create, <1>up, <2>1 DEF Create, StartsUp
<1>announce. ASSUME NEW h \in Hubs, Announce(h) PROVE CarefulInv'
  BY <1>announce, <1>up DEF Announce, StartsUp
<1>serve. ASSUME NEW h \in Hubs, Serve(h) PROVE CarefulInv'
  <2>1. /\ pc[h] = "announced" /\ pc' = [pc EXCEPT ![h] = "serving"]
        /\ UNCHANGED <<op, keep, state, request, stop, victim, addressee, toEnd>>
    BY <1>serve DEF Serve
  <2> QED
    BY <2>1 DEF StartsUp
<1>notice. ASSUME NEW h \in Hubs, Notice(h) PROVE CarefulInv'
  <2>1. /\ pc[h] = "serving" /\ pc' = [pc EXCEPT ![h] = "draining"] /\ request # "none"
        /\ UNCHANGED <<op, keep, state, request, stop, victim, addressee, toEnd>>
    BY <1>notice DEF Notice
  <2> QED
    BY <2>1 DEF StartsUp
\* The files are read and removed by the only hub that is current.
<1>finally. ASSUME NEW h \in Hubs, Current(h), pc' = [pc EXCEPT ![h] = "ending"],
                   state' = NoHub, request' = "none",
                   keep' = [keep EXCEPT ![h] = request = "restart"],
                   UNCHANGED <<op, stop, victim, addressee>>, toEnd \subseteq toEnd',
                   request = "restart" \/ op[h] \in toEnd' \cup {0}
            PROVE  CarefulInv'
  <2>1. \A g \in Hubs : ~Current(g)'
    BY <1>finally DEF StartsUp
  <2>2. keep' \in [Hubs -> BOOLEAN] /\ (request = "restart" => keep'[h])
        /\ \A g \in Hubs \ {h} : keep'[g] = keep[g]
    <3> DEFINE b == request = "restart"
    <3>1. keep' = [keep EXCEPT ![h] = b] /\ keep \in [Hubs -> BOOLEAN] /\ b \in BOOLEAN
      BY <1>finally
    <3>2. request = "restart" => b = TRUE
      OBVIOUS
    <3> HIDE DEF b
    <3>3. /\ keep' \in [Hubs -> BOOLEAN] /\ keep'[h] = b
          /\ \A g \in Hubs \ {h} : keep'[g] = keep[g]
      BY <3>1, ZenonT(60)
    <3> QED
      BY <3>2, <3>3
  <2>3. CarefulTypes'
    BY <1>finally, <2>2
  <2>4. OneCurrent'
    BY <1>finally, <2>1 DEF StartsUp
  <2>5. EndsForCause'
    BY <1>finally, <2>2
  <2> QED
    BY <2>3, <2>4, <2>5
<1>drained. ASSUME NEW h \in Hubs, Drained(h) PROVE CarefulInv'
  <2>1. request = "restart" \/ op[h] \in toEnd \cup {0}
    BY <1>drained DEF Drained, StartsUp
  <2> QED
    BY <1>drained, <1>finally, <2>1 DEF Drained, Finally
<1>fails. ASSUME NEW h \in Hubs, StartFails(h) \/ Interrupt(h) PROVE CarefulInv'
  <2>1. toEnd \subseteq toEnd' /\ op[h] \in toEnd' \cup {0}
    BY <1>fails DEF StartFails, Interrupt, EndsItsOperation
  <2> QED
    BY <1>fails, <1>finally, <2>1 DEF StartFails, Interrupt, Finally
<1>mountfails. ASSUME NEW h \in Hubs, MountFails(h) PROVE CarefulInv'
  BY <1>mountfails, <1>finally DEF MountFails, Finally, StartsUp
<1>stopop. ASSUME NEW h \in Hubs, StopOperation(h) PROVE CarefulInv'
  BY <1>stopop DEF StopOperation, StartsUp
<1>out. ASSUME NEW h \in Hubs, Seal(h) \/ SealFails(h) \/ Die(h) PROVE CarefulInv'
  <2>1. /\ pc' = [pc EXCEPT ![h] = "gone"]
        /\ UNCHANGED <<op, keep, state, request, stop, victim, addressee, toEnd>>
    BY <1>out DEF Seal, SealFails, Die
  <2> QED
    BY <2>1 DEF StartsUp
<1>reboot. CASE Reboot
  <2>1. \A h \in Hubs : pc'[h] \in {"new", "gone"} /\ (pc'[h] = "new" => pc[h] = "new")
    BY <1>reboot DEF Reboot
  <2> QED
    BY <1>reboot, <2>1 DEF Reboot, StartsUp
<1>stop. ASSUME NEW t \in Stoppers, Stop(t) PROVE CarefulInv'
  <2>1. /\ \A s \in Stoppers : stop[s] = "idle"
        /\ \A h \in Hubs : pc[h] \notin StartsUp
        /\ UNCHANGED <<pc, op, keep, request, addressee, toEnd>>
    BY <1>stop, <1>begin DEF Stop
  <2>2. \A h \in Hubs : Current(h) => state = h
    BY <2>1
  <2>3. CASE state \in Alive
    <3>1. /\ stop' = [stop EXCEPT ![t] = "asking"] /\ victim' = [victim EXCEPT ![t] = state]
          /\ state' = state
      BY <1>stop, <2>3 DEF Stop
    <3> QED
      BY <2>1, <2>2, <2>3, <3>1
  <2>4. CASE state \notin Alive
    <3>1. state' = NoHub /\ UNCHANGED <<stop, victim>>
      BY <1>stop, <2>4 DEF Stop
    <3>2. \A h \in Hubs : ~Current(h)
      BY <2>2, <2>4 DEF StartsUp
    <3> QED
      BY <2>1, <3>1, <3>2 DEF StartsUp
  <2> QED
    BY <2>3, <2>4
<1>ask. ASSUME NEW t \in Stoppers, NEW what \in {"stop", "restart"}, Ask(t, what)
        PROVE  CarefulInv'
  <2>1. /\ stop[t] = "asking" /\ stop' = [stop EXCEPT ![t] = "waiting"]
        /\ request' = what /\ addressee' = victim[t]
        /\ toEnd' = IF what = "stop" THEN toEnd \cup ({op[victim[t]]} \ {0}) ELSE toEnd
        /\ UNCHANGED <<pc, op, keep, state, victim>>
    BY <1>ask DEF Ask
  <2>2. \A h \in Hubs : Current(h) => pc[h] \notin StartsUp /\ victim[t] = h
    BY <2>1
  <2>3. toEnd \subseteq toEnd'
    BY <2>1
  <2> QED
    BY <2>1, <2>2, <2>3
<1>wait. ASSUME NEW t \in Stoppers, Terminate(t) PROVE CarefulInv'
  BY <1>wait DEF Terminate
<1>stopped. ASSUME NEW t \in Stoppers, Stopped(t) PROVE CarefulInv'
  <2>1. /\ stop[t] # "idle" /\ victim[t] \notin Alive
        /\ state' = NoHub /\ request' = "none" /\ stop' = [stop EXCEPT ![t] = "idle"]
        /\ victim' = [victim EXCEPT ![t] = NoHub]
        /\ UNCHANGED <<pc, op, keep, addressee, toEnd>>
    BY <1>stopped DEF Stopped, Returns
  <2>2. \A h \in Hubs : ~Current(h)
    BY <2>1 DEF StartsUp
  <2> QED
    BY <2>1, <2>2 DEF StartsUp
<1>giveup. ASSUME NEW t \in Stoppers, GiveUp(t) PROVE CarefulInv'
  BY <1>giveup DEF GiveUp, Returns
<1>status. CASE Status
  <2>1. \A h \in Hubs : pc[h] # "draining"
    BY <1>status, <1>known DEF Status
  <2>2. request' = "none" /\ UNCHANGED <<pc, op, keep, state, stop, victim, addressee, toEnd>>
    BY <1>status DEF Status
  <2> QED
    BY <2>1, <2>2 DEF StartsUp
<1>rest. CASE UNCHANGED vars \/ \E h \in Hubs : NoticeFails(h)
  BY <1>rest DEF vars, NoticeFails
<1> HIDE DEF TypeInv, CarefulInv, CarefulTypes, OneCurrent, EndsForCause, Current
<1>hub. ASSUME NEW h \in Hubs, Hub(h) PROVE CarefulInv'
  BY <1>hub, <1>check, <1>boot, <1>mount, <1>select, <1>create, <1>announce, <1>serve, <1>notice,
     <1>drained, <1>fails, <1>mountfails, <1>stopop, <1>out, <1>rest DEF Hub
<1>stopper. ASSUME NEW t \in Stoppers, Stopper(t) PROVE CarefulInv'
  BY <1>stopper, <1>stop, <1>ask, <1>wait, <1>stopped, <1>giveup DEF Stopper
<1> QED
  BY <1>hub, <1>stopper, <1>reboot, <1>status, <1>rest DEF Next

LEMMA CarefulBegins == Init /\ Overlap = FALSE => CarefulInv
  BY DEF Init, CarefulInv, CarefulTypes, OneCurrent, EndsForCause, Current, StartsUp

\* For a careful operator a hub that serves can be stopped: the state file names
\* it, although ends, failed starts and stop commands remove the file without
\* looking whose it is.
THEOREM ServingIsStoppable == Overlap = FALSE => (Spec => []Stoppable)
<1>1. CarefulInv => Stoppable
  BY DEF CarefulInv, OneCurrent, Stoppable
<1> QED
  BY <1>1, InitInv, CarefulBegins, TypeLasts, LockLasts, OneActiveLasts, CarefulLasts,
     PTL DEF Spec

\* For a careful operator no hub obeys a request that was meant for an earlier one.
THEOREM OwnRequestObeyed == Overlap = FALSE => (Spec => ObeysOwnRequest)
<1>1. TypeInv /\ CarefulInv /\ [Next]_vars =>
        [\A h \in Hubs : pc[h] = "serving" /\ pc'[h] = "draining" => addressee = h]_vars
  <2> SUFFICES ASSUME TypeInv, CarefulInv, Next, NEW h \in Hubs,
                      pc[h] = "serving", pc'[h] = "draining"
               PROVE  addressee = h
    OBVIOUS
  <2>1. request # "none"
    BY NoticedOnly
  <2> QED
    BY <2>1 DEF CarefulInv, OneCurrent, Current
<1> QED
  BY <1>1, InitInv, CarefulBegins, TypeLasts, LockLasts, OneActiveLasts, CarefulLasts,
     PTL DEF Spec, ObeysOwnRequest

\* For a careful operator an operation ends only if a command, Ctrl-C or a failed
\* start ended it.
THEOREM EndsForACause == Overlap = FALSE => (Spec => EndsOnlyForCause)
<1>1. TypeInv /\ CarefulInv /\ [Next]_vars =>
        [\A o \in Operations :
           rows[o] = "active" /\ rows'[o] = "stopped" => o \in toEnd']_vars
  <2> SUFFICES ASSUME TypeInv, CarefulInv, Next, NEW o \in Operations,
                      rows[o] = "active", rows'[o] = "stopped"
               PROVE  o \in toEnd'
    OBVIOUS
  <2> QED
    BY StoppedOnly DEF CarefulInv
<1> QED
  BY <1>1, InitInv, CarefulBegins, TypeLasts, LockLasts, OneActiveLasts, CarefulLasts,
     PTL DEF Spec, EndsOnlyForCause
-----------------------------------------------------------------------------
(* Preparing a host.                                                       *)

InstallTypes ==
    /\ config \in [luks : BOOLEAN, whisper : BOOLEAN, local : BOOLEAN]
    /\ key \in Nat /\ cert \in Nat /\ pairs \in Nat
    /\ image \in [state : {"none", "blank", "formatted", "ready"}, phrase : Phrases \cup {"none"}]
    /\ mapped \in BOOLEAN
    /\ install \in [at : {"idle", "cert", "volume", "format", "open", "mkfs", "close"},
                    phrase : Phrases \cup {"none"}]
    /\ start \in [at : {"idle", "check", "services", "database", "volume", "tls", "serving"},
                  phrase : Phrases \cup {"none"}]
    /\ cut \in BOOLEAN /\ left \in BOOLEAN
    /\ install.at = "cert" => pairs > 0

\* What the drill promised is still there: an install that runs meanwhile takes
\* nothing away.
Promise == promised => Install!Installed /\ Install!HasCompose

\* Except for the pair that an install is writing, two files are of one pair.
PairFits ==
    /\ cut \/ install.at = "cert" \/ cert = 0 \/ key = 0 \/ cert = key
    /\ install.at = "cert" => key = 0 \/ key = pairs

\* An image is made by one install from "blank" to "ready"; unless it was left
\* open it is mapped by an install or by a hub; a start that is past its check
\* finds an image.
ImageFits ==
    /\ mapped => config.luks
    /\ ~config.luks => install.at \in {"idle", "cert", "volume"}
    /\ config.luks =>
          /\ start.at \in {"services", "database", "volume", "tls", "serving"} => image.state # "none"
          /\ cut \/ /\ install.at \in {"idle", "cert", "volume"} => image.state \in {"none", "ready"}
                    /\ install.at = "format" => image.state = "blank"
                    /\ install.at \in {"open", "mkfs"} => image.state = "formatted"
                    /\ install.at = "close" => image.state = "ready"
                    /\ start.at \in {"tls", "serving"} => image.state = "ready"
                    /\ mapped => \/ left \/ start.at \in {"tls", "serving"}
                                 \/ install.at \in {"mkfs", "close"}

LEMMA InstallTypesLast == InstallTypes /\ [Install!Next]_(Install!vars) => InstallTypes'
<1> SUFFICES ASSUME InstallTypes, [Install!Next]_(Install!vars) PROVE InstallTypes'
  OBVIOUS
<1> USE DEF InstallTypes, Install!Idle, Install!NoImage, Install!host, Install!Removed
<1>install. ASSUME NEW p \in Phrases, Install!Install(p) PROVE InstallTypes'
  BY <1>install, PartsAssumption DEF Install!Install, Install!InstallAssumption
<1>writecert. CASE Install!WriteCert
  BY <1>writecert DEF Install!WriteCert
<1>truncate. CASE Install!Truncate
  BY <1>truncate DEF Install!Truncate
<1>format. CASE Install!Format
  BY <1>format DEF Install!Format
<1>mkfs. CASE Install!MakeFilesystem
  BY <1>mkfs DEF Install!MakeFilesystem
<1>openmapper. CASE Install!OpenMapper
  BY <1>openmapper DEF Install!OpenMapper
<1>close. CASE Install!CloseMapper
  <2>1. /\ install' = [at |-> "idle", phrase |-> "none"] /\ mapped' = FALSE
        /\ UNCHANGED <<config, key, cert, pairs, image, start, cut, left>>
    BY <1>close DEF Install!CloseMapper
  <2>2. install' \in [at : {"idle", "cert", "volume", "format", "open", "mkfs", "close"},
                      phrase : Phrases \cup {"none"}]
        /\ install'.at # "cert"
    BY <2>1
  <2>3. mapped' \in BOOLEAN
    BY <2>1
  <2> QED
    BY <2>1, <2>2, <2>3
<1>interrupt. CASE Install!Interrupt
  BY <1>interrupt DEF Install!Interrupt, Install!Spoilt
<1>start. ASSUME NEW p \in Phrases, Install!Start(p) PROVE InstallTypes'
  BY <1>start DEF Install!Start
<1>goes. ASSUME NEW from, NEW to \in {"idle", "services", "database", "volume", "tls", "serving"},
                Install!Goes(from, to), mapped' \in BOOLEAN, left' \in BOOLEAN
         PROVE  InstallTypes'
  BY <1>goes DEF Install!Goes
<1>check. CASE Install!Check \/ Install!Services \/ Install!Database
  BY <1>check, <1>goes DEF Install!Check, Install!Services, Install!Database, Install!Untouched
<1> USE DEF Install!Close, Install!Remains, Install!Untouched
<1>up. CASE Install!OpenVolume \/ Install!Serve \/ Install!Stop
  <2>1. CASE Install!OpenVolume
    BY <2>1, <1>goes DEF Install!OpenVolume, Install!Fits
  <2>2. CASE Install!Serve
    BY <2>2, <1>goes DEF Install!Serve
  <2>3. CASE Install!Stop
    BY <2>3, <1>goes DEF Install!Stop
  <2> QED
    BY <1>up, <2>1, <2>2, <2>3
<1>breaks. CASE Install!Breaks
  BY <1>breaks, <1>goes DEF Install!Breaks
<1>crash. CASE Install!Crash
  BY <1>crash, <1>goes DEF Install!Crash
<1>byhand. CASE Install!Release \/ \E p \in Phrases : Install!Unlock(p)
  BY <1>byhand DEF Install!Release, Install!Unlock
<1>tools. CASE Install!Drill \/ Install!ChangeTools
  BY <1>tools DEF Install!Drill, Install!ChangeTools
<1>lose. CASE Install!LoseFile
  BY <1>lose DEF Install!LoseFile
<1>destroy. CASE Install!Destroy
  BY <1>destroy DEF Install!Destroy
<1>still. CASE UNCHANGED Install!vars
  BY <1>still DEF Install!vars
<1> QED
  BY <1>install, <1>writecert, <1>truncate, <1>format, <1>openmapper, <1>mkfs, <1>close,
     <1>interrupt, <1>start, <1>check, <1>up, <1>breaks, <1>crash, <1>byhand, <1>tools, <1>lose,
     <1>destroy, <1>still
     DEF Install!Next

\* What is promised is lost only by being removed.
LEMMA PromiseLasts == InstallTypes /\ Promise /\ [Install!Next]_(Install!vars) => Promise'
<1> SUFFICES ASSUME InstallTypes, Promise, [Install!Next]_(Install!vars), promised' PROVE Promise'
  BY DEF Promise
<1> USE DEF InstallTypes, Promise, Install!Installed, Install!HasCompose, Install!Removed,
            Install!host, Install!Goes
<1>kept. ASSUME promised, UNCHANGED <<config, tools, key, cert>>,
                image.state # "none" => image'.state # "none"
         PROVE  Promise'
  BY <1>kept
<1>install. ASSUME NEW p \in Phrases, Install!Install(p) PROVE Promise'
  BY <1>install, <1>kept DEF Install!Install
<1>writecert. CASE Install!WriteCert
  BY <1>writecert DEF Install!WriteCert
<1>truncate. CASE Install!Truncate
  BY <1>truncate, <1>kept DEF Install!Truncate
<1>format. CASE Install!Format
  BY <1>format, <1>kept DEF Install!Format
<1>mkfs. CASE Install!MakeFilesystem
  BY <1>mkfs, <1>kept DEF Install!MakeFilesystem
<1>volume. CASE Install!OpenMapper \/ Install!CloseMapper \/ Install!Interrupt
  BY <1>volume, <1>kept DEF Install!OpenMapper, Install!CloseMapper, Install!Interrupt
<1>drill. CASE Install!Drill
  BY <1>drill DEF Install!Drill
<1>start. ASSUME NEW p \in Phrases, Install!Start(p) PROVE Promise'
  BY <1>start, <1>kept DEF Install!Start
<1>up. CASE \/ Install!Check \/ Install!Services \/ Install!Database \/ Install!OpenVolume
            \/ Install!Serve \/ Install!Stop \/ Install!Breaks \/ Install!Crash
            \/ Install!Release \/ \E p \in Phrases : Install!Unlock(p)
  BY <1>up, <1>kept DEF Install!Check, Install!Services, Install!Database, Install!OpenVolume,
     Install!Serve, Install!Stop, Install!Breaks, Install!Crash, Install!Release, Install!Unlock
<1>removed. CASE Install!ChangeTools \/ Install!LoseFile \/ Install!Destroy
  BY <1>removed DEF Install!ChangeTools, Install!LoseFile, Install!Destroy
<1>still. CASE UNCHANGED Install!vars
  BY <1>still, <1>kept DEF Install!vars
<1> QED
  BY <1>install, <1>writecert, <1>truncate, <1>format, <1>mkfs, <1>volume, <1>drill, <1>start,
     <1>up, <1>removed, <1>still DEF Install!Next

LEMMA PairFitsLasts == InstallTypes /\ PairFits /\ [Install!Next]_(Install!vars) => PairFits'
<1> SUFFICES ASSUME InstallTypes, PairFits, [Install!Next]_(Install!vars) PROVE PairFits'
  OBVIOUS
<1> USE DEF InstallTypes, PairFits, Install!Idle, Install!Removed, Install!host, Install!Goes
<1>install. ASSUME NEW p \in Phrases, Install!Install(p) PROVE PairFits'
  BY <1>install DEF Install!Install
<1> USE DEF Install!Spoilt
<1>writecert. CASE Install!WriteCert
  BY <1>writecert DEF Install!WriteCert
<1>interrupt. CASE Install!Interrupt
  BY <1>interrupt DEF Install!Interrupt
<1>image. CASE \/ Install!Truncate \/ Install!Format \/ Install!OpenMapper
               \/ Install!MakeFilesystem \/ Install!CloseMapper
  <2>1. /\ UNCHANGED <<key, cert, pairs, cut>>
        /\ install.at # "cert" /\ install'.at # "cert"
    BY <1>image DEF Install!Truncate, Install!Format, Install!OpenMapper,
       Install!MakeFilesystem, Install!CloseMapper
  <2> QED
    BY <2>1
<1>start. ASSUME NEW p \in Phrases, Install!Start(p) PROVE PairFits'
  BY <1>start DEF Install!Start
<1>up. CASE \/ Install!Check \/ Install!Services \/ Install!Database \/ Install!OpenVolume
            \/ Install!Serve \/ Install!Stop \/ Install!Breaks \/ Install!Crash
            \/ Install!Release \/ \E p \in Phrases : Install!Unlock(p)
  BY <1>up DEF Install!Check, Install!Services, Install!Database, Install!OpenVolume,
     Install!Serve, Install!Stop, Install!Breaks, Install!Crash, Install!Release, Install!Unlock
<1>rest. CASE \/ Install!Drill \/ Install!ChangeTools \/ Install!LoseFile \/ Install!Destroy
              \/ UNCHANGED Install!vars
  BY <1>rest DEF Install!Drill, Install!ChangeTools, Install!LoseFile, Install!Destroy, Install!vars
<1> QED
  BY <1>install, <1>writecert, <1>interrupt, <1>image, <1>start, <1>up, <1>rest DEF Install!Next

LEMMA ImageFitsLasts == InstallTypes /\ ImageFits /\ [Install!Next]_(Install!vars) => ImageFits'
<1> SUFFICES ASSUME InstallTypes, ImageFits, [Install!Next]_(Install!vars) PROVE ImageFits'
  OBVIOUS
<1> USE DEF InstallTypes, ImageFits, Install!Idle, Install!NoImage, Install!host
<1>install. ASSUME NEW p \in Phrases, Install!Install(p) PROVE ImageFits'
  BY <1>install DEF Install!Install
<1>writecert. CASE Install!WriteCert
  BY <1>writecert DEF Install!WriteCert
<1>truncate. CASE Install!Truncate
  BY <1>truncate DEF Install!Truncate
<1>format. CASE Install!Format
  BY <1>format DEF Install!Format
<1>openmapper. CASE Install!OpenMapper
  BY <1>openmapper DEF Install!OpenMapper
<1>mkfs. CASE Install!MakeFilesystem
  BY <1>mkfs DEF Install!MakeFilesystem
<1>close. CASE Install!CloseMapper
  BY <1>close DEF Install!CloseMapper
<1>interrupt. CASE Install!Interrupt
  BY <1>interrupt DEF Install!Interrupt, Install!Spoilt
<1>start. ASSUME NEW p \in Phrases, Install!Start(p) PROVE ImageFits'
  BY <1>start DEF Install!Start
<1>check. CASE Install!Check \/ Install!Services \/ Install!Database
  BY <1>check DEF Install!Check, Install!Services, Install!Database, Install!Installed,
     Install!Goes, Install!Untouched
<1> USE DEF Install!Close, Install!Remains, Install!Untouched
<1>open. CASE Install!OpenVolume
  BY <1>open DEF Install!OpenVolume, Install!Opens, Install!Fits, Install!Goes
<1>serve. CASE Install!Serve \/ Install!Stop
  BY <1>serve DEF Install!Serve, Install!Stop, Install!Goes
<1>breaks. CASE Install!Breaks
  BY <1>breaks DEF Install!Breaks, Install!Fits, Install!Goes
<1>crash. CASE Install!Crash
  BY <1>crash DEF Install!Crash, Install!Goes
<1>byhand. CASE Install!Release \/ \E p \in Phrases : Install!Unlock(p)
  BY <1>byhand DEF Install!Release, Install!Unlock, Install!Fits
<1>removed. CASE Install!Drill \/ Install!ChangeTools \/ Install!LoseFile
  BY <1>removed DEF Install!Drill, Install!ChangeTools, Install!LoseFile, Install!Removed
<1>destroy. CASE Install!Destroy
  BY <1>destroy DEF Install!Destroy, Install!Removed
<1>still. CASE UNCHANGED Install!vars
  BY <1>still DEF Install!vars
<1> QED
  BY <1>install, <1>writecert, <1>truncate, <1>format, <1>openmapper, <1>mkfs, <1>close,
     <1>interrupt, <1>start, <1>check, <1>open, <1>serve, <1>breaks, <1>crash, <1>byhand,
     <1>removed, <1>destroy, <1>still
     DEF Install!Next

LEMMA InstallBegins == Install!Init => InstallTypes /\ Promise /\ PairFits /\ ImageFits
<1> SUFFICES ASSUME Install!Init PROVE InstallTypes /\ Promise /\ PairFits /\ ImageFits
  OBVIOUS
<1> USE DEF Install!Init, Install!NoImage, Install!Idle
<1>1. InstallTypes
  BY DEF InstallTypes
<1>2. Promise /\ PairFits
  BY DEF Promise, PairFits
<1>3. ImageFits
  BY DEF ImageFits
<1> QED
  BY <1>1, <1>2, <1>3

\* A start of a host that the drill called ready passes every check of osk start:
\* what installation_issues and ensure_local_services ask for is there, the image
\* opens with its passphrase and mounts, and the certificate fits its key, unless
\* an install was cut short there or is under way, or the mapper was left open.
THEOREM PromisedStarts == Install!Spec => ReadyStarts
<1> DEFINE Turned ==
        /\ \/ Install!Check \/ Install!Services \/ Install!Database \/ Install!OpenVolume
           \/ Install!Serve
        /\ start'.at = "idle" /\ promised
        /\ config.luks => start.phrase = image.phrase
<1>1. InstallTypes /\ Promise /\ PairFits /\ ImageFits /\ [Install!Next]_(Install!vars) =>
        [Turned => cut \/ left \/ install.at # "idle"]_(Install!vars)
  <2> SUFFICES ASSUME InstallTypes, Promise, PairFits, ImageFits, Turned,
                      install.at = "idle", ~cut, ~left
               PROVE  FALSE
    OBVIOUS
  <2> USE DEF InstallTypes, Install!Goes
  <2>1. CASE Install!Check
    BY <2>1 DEF Install!Check, Promise
  <2>2. CASE Install!Services
    BY <2>2 DEF Install!Services, Promise
  <2>3. CASE Install!Database
    BY <2>3 DEF Install!Database
  <2>4. CASE Install!OpenVolume
    BY <2>4 DEF Install!OpenVolume, Install!Opens, ImageFits
  <2>5. CASE Install!Serve
    <3>1. Install!Paired
      BY DEF Install!Paired, Install!Installed, Promise, PairFits
    <3> QED
      BY <2>5, <3>1 DEF Install!Serve
  <2> QED
    BY <2>1, <2>2, <2>3, <2>4, <2>5
<1> QED
  BY <1>1, InstallBegins, InstallTypesLast, PromiseLasts, PairFitsLasts, ImageFitsLasts, PTL
     DEF Install!Spec, ReadyStarts, Install!ReadyStarts

-----------------------------------------------------------------------------
(* Reviewing findings.                                                     *)

FeedTypes ==
    /\ time \in Nat
    /\ row \in [Feed!Ids -> [at : Nat, seen : Nat, cat : Categories \cup {"none"},
                             status : {"none", "open", "resolved"}]]
    /\ \A i \in Feed!Ids : row[i].at <= time
    /\ query \in [of : SUBSET Feed!Ids, cat : Categories \cup {"any"},
                  status : {"any", "open", "resolved"}, limit : Limits \cup {1}]
    /\ got \subseteq [id : Feed!Ids, key : Nat]
    /\ answer \subseteq Feed!Ids /\ old \subseteq Feed!Ids /\ rivals \subseteq Feed!Ids

\* The tables are read in this order.
Reading == {"findings", "events", "sitreps", "merge"}
Unread(i) == \/ at = "findings"
             \/ at = "events" /\ i \notin Findings
             \/ at = "sitreps" /\ i \notin Findings \cup Events

Entry(i) == [id |-> i, key |-> row[i].at]

\* As many items as the limit were there that are at least as new as i: i may
\* be left out, then and from then on, for a row only becomes newer.
Ahead(i) == {j \in rivals \ {i} : row[j].at >= row[i].at}
Crowded(i) == Cardinality(Ahead(i)) >= query.limit

\* What matches is counted; what matched at the start and was not touched since
\* is yet to be read, has been read as it is, or may be left out.
FeedInv ==
    /\ at = "idle" => old = {}
    /\ at = "recent" => old = {}
    /\ at \notin Reading => got = {}
    /\ at \in Reading => \A i \in Feed!Ids : Feed!Matches(query, i, row[i]) => i \in rivals
    /\ at \in Reading => \A i \in old : Feed!Matches(query, i, row[i])
    /\ \A x \in got : x.id \in rivals /\ x.key <= row[x.id].at /\ ~Unread(x.id)
    /\ \A x, y \in got : x.id = y.id => x = y
    /\ at \in Reading => \A i \in old : Unread(i) \/ Entry(i) \in got \/ Crowded(i)
    /\ at = "done" => \A i \in old : i \in answer \/ Crowded(i)

LEMMA SameCardinality == \A S : Feed!Cardinality(S) = Cardinality(S)
  BY DEF Feed!Cardinality, Cardinality

LEMMA IdsAreFinite == IsFiniteSet(Feed!Ids)
<1>1. IsFiniteSet(Findings) /\ IsFiniteSet(Events) /\ IsFiniteSet(Sitreps)
  BY PartsAssumption DEF Feed!FeedAssumption, Feed!IsFiniteSet, IsFiniteSet
<1>2. IsFiniteSet(Findings \cup Events)
  BY <1>1, FS_Union
<1>3. IsFiniteSet((Findings \cup Events) \cup Sitreps)
  BY <1>1, <1>2, FS_Union
<1> QED
  BY <1>3 DEF Feed!Ids

LEMMA LimitIsPositive == FeedTypes => query.limit \in Nat \ {0}
<1>1. Limits \subseteq Nat \ {0}
  BY PartsAssumption DEF Feed!FeedAssumption
<1>2. Limits \cup {1} \subseteq Nat \ {0}
  BY <1>1
<1>3. FeedTypes => query.limit \in Limits \cup {1}
  BY DEF FeedTypes
<1> QED
  BY <1>2, <1>3

\* Entries of different items are as many as the items.
LEMMA Enough ==
    ASSUME NEW S, NEW T, IsFiniteSet(T), NEW n \in Nat, Cardinality(S) >= n,
           \A x \in S : x.id \in T, \A x, y \in S : x.id = y.id => x = y
    PROVE  IsFiniteSet(S) /\ Cardinality(T) >= n
<1> DEFINE f == [x \in S |-> x.id]
<1>1. f \in Injection(S, T)
  BY DEF Injection, IsInjective
<1>2. IsFiniteSet(S) /\ Cardinality(S) <= Cardinality(T)
  BY <1>1, FS_Injection, Zenon
<1>3. Cardinality(S) \in Nat /\ Cardinality(T) \in Nat
  BY <1>2, FS_CardinalityType
<1> QED
  BY <1>2, <1>3

\* What ORDER BY ... LIMIT leaves out is no newer than all it returns, and it
\* returns as much as it may.
LEMMA LeftOut ==
    ASSUME NEW S, NEW R, IsFiniteSet(R), NEW n \in Nat, S \subseteq R,
           Cardinality(S) = IF Cardinality(R) < n THEN Cardinality(R) ELSE n,
           NEW x \in R \ S
    PROVE  Cardinality(S) = n
<1>1. Cardinality(S) # Cardinality(R)
  BY FS_Subset
<1> QED
  BY <1>1

\* Rows only become newer.
LEMMA CrowdedLasts ==
    ASSUME FeedTypes, FeedTypes', NEW i \in Feed!Ids, Crowded(i),
           rivals \subseteq rivals', query'.limit = query.limit, row'[i] = row[i],
           \A j \in Feed!Ids : row'[j].at >= row[j].at
    PROVE  Crowded(i)'
<1> USE DEF FeedTypes
<1>1. Ahead(i) \subseteq Ahead(i)'
  <2> SUFFICES ASSUME NEW j \in Ahead(i) PROVE j \in Ahead(i)'
    OBVIOUS
  <2>1. j \in Feed!Ids /\ row[j].at \in Nat /\ row'[j].at \in Nat /\ row[i].at \in Nat
    BY DEF Ahead
  <2> QED
    BY <2>1 DEF Ahead
<1>2. IsFiniteSet(Ahead(i)')
  BY IdsAreFinite, FS_Subset DEF Ahead
<1>3. IsFiniteSet(Ahead(i)) /\ Cardinality(Ahead(i)) <= Cardinality(Ahead(i)')
  BY <1>1, <1>2, FS_Subset
<1>4. Cardinality(Ahead(i)) \in Nat /\ Cardinality(Ahead(i)') \in Nat
  BY <1>2, <1>3, FS_CardinalityType
<1>5. query.limit \in Nat
  BY LimitIsPositive
<1> QED
  BY <1>3, <1>4, <1>5 DEF Crowded

-----------------------------------------------------------------------------

FeedRow == [at : Nat, seen : Nat, cat : Categories \cup {"none"},
            status : {"none", "open", "resolved"}]

\* A write stores a row that is newer than it was.
LEMMA WriteSteps ==
    ASSUME FeedTypes, Feed!Writers
    PROVE  \E i \in Feed!Ids, r \in FeedRow :
              Feed!Write(i, r) /\ row[i].at <= r.at /\ r.at <= time
<1> USE DEF FeedTypes, FeedRow
<1>1. ASSUME NEW c \in Categories, NEW e \in Events, NEW lag \in 0..MaxLag,
             Feed!InsertEvent(e, c, lag)
      PROVE  \E i \in Feed!Ids, r \in FeedRow :
                Feed!Write(i, r) /\ row[i].at <= r.at /\ r.at <= time
  <2> DEFINE new == [at |-> time - lag, seen |-> time - lag, cat |-> c, status |-> "none"]
  <2>1. lag \in Nat /\ lag < time /\ row[e].at = 0 /\ e \in Feed!Ids /\ Feed!Write(e, new)
    BY <1>1, PartsAssumption DEF Feed!InsertEvent, Feed!Absent, Feed!FeedAssumption, Feed!Ids
  <2>2. time - lag \in Nat /\ time - lag <= time
    BY <2>1
  <2>3. new \in FeedRow /\ row[e].at <= new.at /\ new.at <= time
    BY <2>1, <2>2
  <2> QED
    BY <2>1, <2>3
<1>2. ASSUME NEW s \in Sitreps, Feed!InsertSitrep(s)
      PROVE  \E i \in Feed!Ids, r \in FeedRow :
                Feed!Write(i, r) /\ row[i].at <= r.at /\ r.at <= time
  <2> DEFINE new == [at |-> time, seen |-> time, cat |-> "none", status |-> "none"]
  <2>1. s \in Feed!Ids /\ Feed!Write(s, new)
    BY <1>2 DEF Feed!InsertSitrep, Feed!Ids
  <2>2. new \in FeedRow /\ row[s].at <= new.at /\ new.at <= time
    BY <2>1
  <2> QED
    BY <2>1, <2>2
<1>3. ASSUME NEW c \in Categories, NEW f \in Findings, Feed!UpsertFinding(f, c)
      PROVE  \E i \in Feed!Ids, r \in FeedRow :
                Feed!Write(i, r) /\ row[i].at <= r.at /\ r.at <= time
  <2> DEFINE new == [at |-> time, seen |-> time, cat |-> c,
                     status |-> IF row[f].status \in {"none", "resolved"} THEN "open"
                                ELSE row[f].status]
  <2>1. f \in Feed!Ids /\ Feed!Write(f, new)
    BY <1>3 DEF Feed!UpsertFinding, Feed!Ids
  <2>2. new \in FeedRow /\ row[f].at <= new.at /\ new.at <= time
    BY <2>1
  <2> QED
    BY <2>1, <2>2
<1>4. ASSUME NEW f \in Findings, NEW st \in Feed!Statuses, Feed!SetStatus(f, st)
      PROVE  \E i \in Feed!Ids, r \in FeedRow :
                Feed!Write(i, r) /\ row[i].at <= r.at /\ r.at <= time
  <2> DEFINE new == [row[f] EXCEPT !.status = st, !.at = time]
  <2>1. f \in Feed!Ids /\ Feed!Write(f, new)
    BY <1>4 DEF Feed!SetStatus, Feed!Ids
  <2>2. new \in FeedRow
    BY <2>1, ZenonT(30) DEF Feed!Statuses
  <2>3. row[f].at <= new.at /\ new.at <= time
    BY <2>1
  <2> QED
    BY <2>1, <2>2, <2>3
<1> QED
  BY <1>1, <1>2, <1>3, <1>4 DEF Feed!Writers

\* The requests and the reads by what they leave alone.
LEMMA FeedTypesLast == FeedTypes /\ [Feed!Next]_(Feed!vars) => FeedTypes'
<1> SUFFICES ASSUME FeedTypes, [Feed!Next]_(Feed!vars) PROVE FeedTypes'
  OBVIOUS
<1> USE DEF FeedTypes, Feed!history
<1>write. ASSUME NEW i \in Feed!Ids, NEW r \in FeedRow, Feed!Write(i, r), r.at <= time
          PROVE  FeedTypes'
  BY <1>write DEF Feed!Write, FeedRow
<1>clock. CASE Feed!Clock
  BY <1>clock DEF Feed!Clock
<1>ask. ASSUME NEW c \in Categories \cup {"any"}, NEW st \in Feed!Statuses \cup {"any"},
               NEW n \in Limits,
               NEW types \in SUBSET Feed!Types, Feed!Ask(types, c, st, n)
        PROVE  FeedTypes'
  <2>1. UNION types \subseteq Feed!Ids
    BY DEF Feed!Types, Feed!Ids
  <2> QED
    BY <1>ask, <2>1 DEF Feed!Ask, Feed!Statuses
<1>list. ASSUME NEW c \in Categories \cup {"any"}, NEW st \in Feed!Statuses \cup {"any"},
                NEW n \in Limits,
                NEW R \in Feed!Types, Feed!List(R, c, st, n)
         PROVE  FeedTypes'
  <2>1. R \subseteq Feed!Ids
    BY DEF Feed!Types, Feed!Ids
  <2> QED
    BY <1>list, <2>1 DEF Feed!List, Feed!Statuses
<1>recent. ASSUME NEW n \in Limits, Feed!ListRecent(n) PROVE FeedTypes'
  <2>1. query' = [of |-> Findings, cat |-> "any", status |-> "any", limit |-> n]
    BY <1>recent DEF Feed!ListRecent, Feed!NoQuery
  <2>2. \E S \in SUBSET Findings : answer' = S
    BY <1>recent DEF Feed!ListRecent
  <2>3. UNCHANGED <<time, row, got, old, rivals>>
    BY <1>recent DEF Feed!ListRecent
  <2> QED
    BY <2>1, <2>2, <2>3 DEF Feed!Ids
<1>read. ASSUME NEW from, NEW R \in SUBSET Feed!Ids, NEW to, Feed!Read(from, R, to)
         PROVE  FeedTypes'
  <2>1. PICK S \in SUBSET Feed!Rows(R) : got' = got \cup S
    BY <1>read DEF Feed!Read
  <2>2. S \subseteq [id : Feed!Ids, key : Nat]
    BY DEF Feed!Rows
  <2> QED
    BY <1>read, <2>1, <2>2 DEF Feed!Read
<1>merge. CASE Feed!Merge
  <2>1. PICK S \in SUBSET got : answer' = {x.id : x \in S}
    BY <1>merge DEF Feed!Merge
  <2> QED
    BY <1>merge, <2>1 DEF Feed!Merge
<1>finish. CASE Feed!Finish
  BY <1>finish DEF Feed!Finish, Feed!NoQuery
<1>still. CASE UNCHANGED Feed!vars
  BY <1>still DEF Feed!vars
<1>writers. CASE Feed!Writers
  BY <1>writers, <1>write, WriteSteps
<1>requests. CASE Feed!Requests
  BY <1>requests, <1>ask, <1>list, <1>recent DEF Feed!Requests, Feed!Types, Feed!Statuses
<1> QED
  BY <1>writers, <1>clock, <1>requests, <1>read, <1>merge, <1>finish, <1>still
     DEF Feed!Next, Feed!Ids

-----------------------------------------------------------------------------

\* A table is read.
LEMMA ReadLasts ==
    ASSUME FeedTypes, FeedTypes', FeedInv, NEW from, NEW R \in SUBSET Feed!Ids, NEW to,
           Feed!Read(from, R, to), from \in Reading, to \in Reading,
           \A i \in R : Unread(i), \A i \in Feed!Ids : Unread(i)' <=> Unread(i) /\ i \notin R
    PROVE  FeedInv'
<1> USE DEF FeedTypes, Feed!history
<1> DEFINE M == {i \in R : Feed!Matches(query, i, row[i])}
<1>1. PICK S \in SUBSET Feed!Rows(R) : Feed!Fetched(query, R, S) /\ got' = got \cup S
  BY DEF Feed!Read
<1>2. at = from /\ at' = to /\ UNCHANGED <<time, row, query, answer, writes, old, rivals>>
  BY DEF Feed!Read
<1>3. /\ S \subseteq Feed!Rows(M)
      /\ Cardinality(S) = IF Cardinality(Feed!Rows(M)) < 2 * query.limit
                          THEN Cardinality(Feed!Rows(M)) ELSE 2 * query.limit
      /\ \A x \in S, y \in Feed!Rows(M) \ S : x.key >= y.key
  BY <1>1, SameCardinality DEF Feed!Fetched, Feed!IsNewest, Feed!Key, Feed!PerType
<1>4. \A x \in Feed!Rows(M) : x.id \in M /\ x = Entry(x.id)
  BY DEF Feed!Rows, Entry
<1>5. IsFiniteSet(Feed!Rows(M))
  <2> DEFINE f == [x \in Feed!Rows(M) |-> x.id]
  <2>1. f \in Injection(Feed!Rows(M), Feed!Ids)
    BY <1>4 DEF Injection, IsInjective
  <2> QED
    BY <2>1, IdsAreFinite, FS_Injection, Zenon
<1>6. ASSUME NEW i \in old, i \in R
      PROVE  Entry(i) \in got' \/ Crowded(i)
  <2>1. i \in M /\ Entry(i) \in Feed!Rows(M)
    BY <1>2, <1>6 DEF FeedInv, Feed!Rows, Entry
  <2>2. CASE Entry(i) \in S
    BY <2>2, <1>1
  <2>3. CASE Entry(i) \notin S
    <3>1. query.limit \in Nat
      BY LimitIsPositive
    <3>2. Cardinality(S) = 2 * query.limit
      BY <1>3, <1>5, <2>1, <2>3, <3>1, LeftOut
    <3>3. \A x \in S : x.key >= row[i].at
      BY <1>3, <2>1, <2>3 DEF Entry
    <3>4. \A x \in S : x.id \in Ahead(i)
      <4> SUFFICES ASSUME NEW x \in S PROVE x.id \in Ahead(i)
        OBVIOUS
      <4>1. x.id \in M /\ x = Entry(x.id)
        BY <1>3, <1>4
      <4>2. x.id \in rivals
        BY <1>2, <4>1 DEF FeedInv
      <4>3. x.id # i
        BY <4>1, <2>3
      <4>4. row[x.id].at >= row[i].at
        BY <3>3, <4>1 DEF Entry
      <4> QED
        BY <4>2, <4>3, <4>4 DEF Ahead
    <3>5. \A x, y \in S : x.id = y.id => x = y
      BY <1>3, <1>4, ZenonT(30)
    <3>6. IsFiniteSet(Ahead(i))
      BY IdsAreFinite, FS_Subset DEF Ahead
    <3>7. Cardinality(S) >= query.limit
      BY <3>1, <3>2
    <3>8. Cardinality(Ahead(i)) >= query.limit
      BY <3>1, <3>4, <3>5, <3>6, <3>7, Enough
    <3> QED
      BY <3>8 DEF Crowded
  <2> QED
    BY <2>2, <2>3
<1>7. \A i \in old : Crowded(i) => Crowded(i)'
  BY <1>2, CrowdedLasts
<1>8. ASSUME NEW i \in old' PROVE Unread(i)' \/ Entry(i)' \in got' \/ Crowded(i)'
  BY <1>1, <1>2, <1>6, <1>7, <1>8 DEF FeedInv, Entry
<1>9. ASSUME NEW x \in got' PROVE x.id \in rivals' /\ x.key <= row'[x.id].at /\ ~Unread(x.id)'
  <2>1. CASE x \in got
    BY <2>1, <1>2 DEF FeedInv
  <2>2. CASE x \in S
    <3>1. x.id \in M /\ x.key = row[x.id].at
      <4>1. x.id \in M /\ x = Entry(x.id)
        BY <1>3, <1>4, <2>2
      <4>2. Entry(x.id).key = row[x.id].at
        BY DEF Entry
      <4> QED
        BY <4>1, <4>2
    <3>2. x.id \in rivals
      BY <3>1, <1>2 DEF FeedInv
    <3> QED
      BY <1>2, <3>1, <3>2
  <2> QED
    BY <1>1, <2>1, <2>2
<1>10. ASSUME NEW x \in got', NEW y \in got', x.id = y.id PROVE x = y
  <2>1. \A z \in got : z.id \notin R
    BY DEF FeedInv
  <2>2. \A z \in S : z.id \in R /\ z = Entry(z.id)
    BY <1>3, <1>4
  <2> QED
    BY <1>1, <1>10, <2>1, <2>2 DEF FeedInv
<1>11. \A i \in Feed!Ids : Feed!Matches(query, i, row[i])' <=> Feed!Matches(query, i, row[i])
  BY <1>2 DEF Feed!Matches
<1> QED
  BY <1>2, <1>8, <1>9, <1>10, <1>11 DEF FeedInv, Reading

\* The merge: what it leaves out is behind as many items as the limit.
LEMMA MergeLasts ==
    ASSUME FeedTypes, FeedTypes', FeedInv, Feed!Merge
    PROVE  FeedInv'
<1> USE DEF FeedTypes, Feed!history
<1>1. PICK S \in SUBSET got : Feed!Merged(query, got, S) /\ answer' = {x.id : x \in S}
  BY DEF Feed!Merge
<1>2. /\ at = "merge" /\ at' = "done" /\ got' = {}
      /\ UNCHANGED <<time, row, query, writes, old, rivals>>
  BY DEF Feed!Merge
<1>3. /\ Cardinality(S) = IF Cardinality(got) < query.limit THEN Cardinality(got) ELSE query.limit
      /\ \A x \in S, y \in got \ S : x.key >= y.key
  BY <1>1, SameCardinality DEF Feed!Merged, Feed!IsNewest, Feed!Key
<1>4. IsFiniteSet(got)
  <2> DEFINE f == [x \in got |-> x.id]
  <2>1. f \in Injection(got, Feed!Ids)
    BY DEF Injection, IsInjective, FeedInv
  <2> QED
    BY <2>1, IdsAreFinite, FS_Injection, Zenon
<1>5. ASSUME NEW i \in old PROVE i \in answer' \/ Crowded(i)
  <2>1. Entry(i) \in got \/ Crowded(i)
    BY <1>2 DEF FeedInv, Unread, Reading
  <2>2. CASE Entry(i) \in S
    <3>1. Entry(i).id = i
      BY DEF Entry
    <3> QED
      BY <1>1, <2>2, <3>1
  <2>3. CASE Entry(i) \in got \ S
    <3>1. query.limit \in Nat
      BY LimitIsPositive
    <3>2. Cardinality(S) = query.limit
      BY <1>3, <1>4, <2>3, <3>1, LeftOut
    <3>3. \A x \in S : x.key >= row[i].at
      BY <1>3, <2>3 DEF Entry
    <3>4. \A x \in S : x.id \in Ahead(i)
      <4> SUFFICES ASSUME NEW x \in S PROVE x.id \in Ahead(i)
        OBVIOUS
      <4>1. x \in got /\ x.id \in rivals /\ x.key <= row[x.id].at
        BY DEF FeedInv
      <4>2. Entry(i).id = i /\ Entry(i) # x
        BY <2>3 DEF Entry
      <4>3. x.id # i
        BY <2>3, <4>1, <4>2 DEF FeedInv
      <4>4. row[x.id].at >= row[i].at
        <5>1. x.key \in Nat /\ row[x.id].at \in Nat /\ row[i].at \in Nat
          BY <4>1
        <5> QED
          BY <3>3, <4>1, <5>1
      <4> QED
        BY <4>1, <4>3, <4>4 DEF Ahead
    <3>5. \A x, y \in S : x.id = y.id => x = y
      BY DEF FeedInv
    <3>6. IsFiniteSet(Ahead(i))
      BY IdsAreFinite, FS_Subset DEF Ahead
    <3>7. Cardinality(Ahead(i)) >= query.limit
      BY <3>1, <3>2, <3>4, <3>5, <3>6, Enough
    <3> QED
      BY <3>7 DEF Crowded
  <2> QED
    BY <2>1, <2>2, <2>3
<1>6. \A i \in old : Crowded(i) => Crowded(i)'
  BY <1>2, CrowdedLasts
<1> QED
  BY <1>2, <1>5, <1>6 DEF FeedInv, Reading

\* A list is one statement.
LEMMA ListLasts ==
    ASSUME FeedTypes, FeedTypes', FeedInv, NEW R \in SUBSET Feed!Ids, NEW c, NEW st,
           NEW n \in Limits, Feed!List(R, c, st, n)
    PROVE  FeedInv'
<1> USE DEF FeedTypes
<1>1. PICK S \in SUBSET R :
        Feed!IsNewest(Feed!Rows(S), Feed!Rows(old'), Feed!Key, n) /\ answer' = S
  BY DEF Feed!List
<1>2. /\ at = "idle" /\ at' = "done" /\ rivals' = old' /\ query'.limit = n
      /\ UNCHANGED <<time, row, got>>
  BY DEF Feed!List
<1>3. /\ Feed!Rows(S) \subseteq Feed!Rows(old')
      /\ Cardinality(Feed!Rows(S)) = IF Cardinality(Feed!Rows(old')) < n
                                     THEN Cardinality(Feed!Rows(old')) ELSE n
      /\ \A x \in Feed!Rows(S), y \in Feed!Rows(old') \ Feed!Rows(S) : x.key >= y.key
  BY <1>1, SameCardinality DEF Feed!IsNewest, Feed!Key
<1>4. \A T : \A x \in Feed!Rows(T) : x.id \in T /\ x = Entry(x.id)
  BY DEF Feed!Rows, Entry
<1>5. IsFiniteSet(Feed!Rows(old'))
  <2> DEFINE f == [x \in Feed!Rows(old') |-> x.id]
  <2>1. \A x \in Feed!Rows(old') : x.id \in Feed!Ids /\ x = Entry(x.id)
    BY <1>4
  <2>2. f \in Injection(Feed!Rows(old'), Feed!Ids)
    BY <2>1 DEF Injection, IsInjective
  <2> QED
    BY <2>2, IdsAreFinite, FS_Injection, Zenon
<1>6. n \in Nat
  BY PartsAssumption DEF Feed!FeedAssumption
<1>7. ASSUME NEW i \in old', i \notin S PROVE Crowded(i)'
  <2>1. Entry(i) \in Feed!Rows(old')
    BY DEF Feed!Rows, Entry
  <2>2. Entry(i).id = i
    BY DEF Entry
  <2>3. Entry(i) \notin Feed!Rows(S)
    BY <1>4, <1>7, <2>2
  <2>4. Cardinality(Feed!Rows(S)) = n
    BY <1>3, <1>5, <1>6, <2>1, <2>3, LeftOut
  <2>5. \A x \in Feed!Rows(S) : x.key >= row[i].at
    BY <1>3, <2>1, <2>3 DEF Entry
  <2>6. \A x \in Feed!Rows(S) : x.id \in Ahead(i)'
    <3> SUFFICES ASSUME NEW x \in Feed!Rows(S) PROVE x.id \in Ahead(i)'
      OBVIOUS
    <3>1. x.id \in S /\ x = Entry(x.id)
      BY <1>4
    <3>2. x.id \in old'
      BY <1>3, <1>4
    <3>3. Entry(x.id).key = row[x.id].at
      BY DEF Entry
    <3>4. row[x.id].at >= row[i].at
      BY <2>5, <3>1, <3>3
    <3> QED
      BY <1>2, <1>7, <3>1, <3>2, <3>4 DEF Ahead
  <2>7. \A x, y \in Feed!Rows(S) : x.id = y.id => x = y
    BY <1>4
  <2>8. IsFiniteSet(Ahead(i)')
    BY IdsAreFinite, FS_Subset DEF Ahead
  <2>9. Cardinality(Ahead(i)') >= n
    BY <1>6, <2>4, <2>6, <2>7, <2>8, Enough
  <2> QED
    BY <1>2, <2>9 DEF Crowded
<1> QED
  BY <1>1, <1>2, <1>7 DEF FeedInv, Reading

LEMMA WriteLasts ==
    ASSUME FeedTypes, FeedTypes', FeedInv, NEW i \in Feed!Ids, NEW r \in FeedRow,
           Feed!Write(i, r), row[i].at <= r.at
    PROVE  FeedInv'
<1> USE DEF FeedTypes
<1>1. /\ row' = [row EXCEPT ![i] = r] /\ old' = old \ {i}
      /\ rivals' = IF at # "idle" /\ Feed!Matches(query, i, r) THEN rivals \cup {i} ELSE rivals
      /\ UNCHANGED <<time, at, query, got, answer>>
  BY DEF Feed!Write
<1>2. \A j \in Feed!Ids : row'[j].at >= row[j].at
  BY <1>1 DEF FeedRow
<1>3. \A k \in old' : row'[k] = row[k] /\ Entry(k)' = Entry(k)
  BY <1>1 DEF Entry
<1>4. \A k \in old' : Crowded(k) => Crowded(k)'
  BY <1>1, <1>2, <1>3, CrowdedLasts
<1>5. \A k \in Feed!Ids : k # i => (Feed!Matches(query, k, row[k])' <=> Feed!Matches(query, k, row[k]))
  BY <1>1 DEF Feed!Matches
<1>6. Feed!Matches(query, i, row[i])' <=> Feed!Matches(query, i, r)
  BY <1>1 DEF Feed!Matches
<1>7. \A k : Unread(k)' <=> Unread(k)
  BY <1>1 DEF Unread
<1>8. ASSUME NEW x \in got' PROVE x.id \in rivals' /\ x.key <= row'[x.id].at /\ ~Unread(x.id)'
  <2>1. x \in got /\ x.id \in rivals /\ x.key <= row[x.id].at /\ ~Unread(x.id)
    BY <1>1 DEF FeedInv
  <2>2. x.key \in Nat /\ row[x.id].at \in Nat /\ row'[x.id].at \in Nat /\ x.id \in Feed!Ids
    BY <2>1
  <2> QED
    BY <1>1, <1>2, <1>7, <2>1, <2>2
<1>9. at' \in Reading => \A k \in Feed!Ids : Feed!Matches(query, k, row[k])' => k \in rivals'
  BY <1>1, <1>5, <1>6 DEF FeedInv, Reading
<1>10. at' \in Reading => \A k \in old' : Feed!Matches(query, k, row[k])'
  BY <1>1, <1>5 DEF FeedInv
<1>11. at' \in Reading => \A k \in old' : Unread(k)' \/ Entry(k)' \in got' \/ Crowded(k)'
  BY <1>1, <1>3, <1>4, <1>7 DEF FeedInv
<1>12. at' = "done" => \A k \in old' : k \in answer' \/ Crowded(k)'
  BY <1>1, <1>4 DEF FeedInv
<1> QED
  BY <1>1, <1>8, <1>9, <1>10, <1>11, <1>12 DEF FeedInv, Reading

LEMMA AskLasts ==
    ASSUME FeedTypes, FeedInv, NEW types \in SUBSET Feed!Types, NEW c, NEW st, NEW n,
           Feed!Ask(types, c, st, n)
    PROVE  FeedInv'
<1>1. /\ at = "idle" /\ at' = "findings" /\ got' = got /\ row' = row
      /\ rivals' = old' /\ old' = {i \in Feed!Ids : Feed!Matches(query', i, row[i])}
  BY DEF Feed!Ask
<1>2. \A i \in Feed!Ids : Feed!Matches(query, i, row[i])' <=> Feed!Matches(query', i, row[i])
  BY <1>1 DEF Feed!Matches
<1>3. got' = {} /\ \A i : Unread(i)'
  BY <1>1 DEF FeedInv, Reading, Unread
<1> QED
  BY <1>1, <1>2, <1>3 DEF FeedInv

LEMMA FeedInvLasts == FeedTypes /\ FeedInv /\ [Feed!Next]_(Feed!vars) => FeedInv'
<1> SUFFICES ASSUME FeedTypes, FeedInv, [Feed!Next]_(Feed!vars) PROVE FeedInv'
  OBVIOUS
<1>types. FeedTypes'
  BY FeedTypesLast
\* Items, request and what was read of them stay.
<1>same. ASSUME UNCHANGED <<row, at, query, got, answer, old, rivals>> PROVE FeedInv'
  BY <1>same DEF FeedInv, Unread, Entry, Crowded, Ahead, Feed!Matches
<1>writers. CASE Feed!Writers
  BY <1>writers, <1>types, WriteSteps, WriteLasts
<1>clock. CASE Feed!Clock
  BY <1>clock, <1>same DEF Feed!Clock, Feed!history
<1>ask. ASSUME NEW c, NEW st, NEW n, NEW types \in SUBSET Feed!Types, Feed!Ask(types, c, st, n)
        PROVE  FeedInv'
  BY <1>ask, AskLasts
<1>list. ASSUME NEW c, NEW st, NEW n \in Limits, NEW R \in Feed!Types, Feed!List(R, c, st, n)
         PROVE  FeedInv'
  <2>1. R \in SUBSET Feed!Ids
    BY DEF Feed!Types, Feed!Ids
  <2> QED
    BY <1>list, <1>types, <2>1, ListLasts
<1>recent. ASSUME NEW n, Feed!ListRecent(n) PROVE FeedInv'
  <2>1. at = "idle" /\ at' = "recent" /\ UNCHANGED <<got, old>>
    BY <1>recent DEF Feed!ListRecent, Feed!history
  <2> QED
    BY <2>1 DEF FeedInv, Reading
<1>requests. CASE Feed!Requests
  BY <1>requests, <1>ask, <1>list, <1>recent DEF Feed!Requests, Feed!Types
<1>findings. CASE Feed!Read("findings", Findings, "events")
  <2>1. at = "findings" /\ at' = "events"
    BY <1>findings DEF Feed!Read
  <2>2. \A i \in Feed!Ids : Unread(i)' <=> Unread(i) /\ i \notin Findings
    BY <2>1 DEF Unread
  <2>3. \A i \in Findings : Unread(i)
    BY <2>1 DEF Unread
  <2> QED
    BY <1>findings, <1>types, <2>2, <2>3, ReadLasts DEF Reading, Feed!Ids
<1>events. CASE Feed!Read("events", Events, "sitreps")
  <2>1. at = "events" /\ at' = "sitreps"
    BY <1>events DEF Feed!Read
  <2>2. \A i \in Feed!Ids : Unread(i)' <=> Unread(i) /\ i \notin Events
    BY <2>1 DEF Unread
  <2>3. \A i \in Events : Unread(i)
    BY <2>1, PartsAssumption DEF Unread, Feed!FeedAssumption
  <2> QED
    BY <1>events, <1>types, <2>2, <2>3, ReadLasts DEF Reading, Feed!Ids
<1>sitreps. CASE Feed!Read("sitreps", Sitreps, "merge")
  <2>1. at = "sitreps" /\ at' = "merge"
    BY <1>sitreps DEF Feed!Read
  <2>2. \A i \in Feed!Ids : Unread(i)' <=> Unread(i) /\ i \notin Sitreps
    BY <2>1 DEF Unread, Feed!Ids
  <2>3. \A i \in Sitreps : Unread(i)
    BY <2>1, PartsAssumption DEF Unread, Feed!FeedAssumption
  <2> QED
    BY <1>sitreps, <1>types, <2>2, <2>3, ReadLasts DEF Reading, Feed!Ids
<1>merge. CASE Feed!Merge
  BY <1>merge, <1>types, MergeLasts
<1>finish. CASE Feed!Finish
  <2>1. at' = "idle" /\ got' = {} /\ old' = {}
    BY <1>finish DEF Feed!Finish
  <2> QED
    BY <2>1 DEF FeedInv, Reading
<1>still. CASE UNCHANGED Feed!vars
  BY <1>still, <1>same DEF Feed!vars
<1> QED
  BY <1>writers, <1>clock, <1>requests, <1>findings, <1>events, <1>sitreps, <1>merge,
     <1>finish, <1>still DEF Feed!Next

\* However the three statements of the feed interleave with writes, what matched
\* when the request came and was not touched since is in the answer, or as many
\* items as the limit were there that are at least as new.
THEOREM NewestAreShown == Feed!Spec => []FeedShowsNewest
<1>1. Feed!Init => FeedTypes /\ FeedInv
  BY DEF Feed!Init, FeedTypes, FeedInv, Feed!Absent, Feed!NoQuery, Reading
<1>2. FeedInv => FeedShowsNewest
  BY SameCardinality DEF FeedInv, FeedShowsNewest, Feed!FeedShowsNewest, Crowded, Ahead
<1> QED
  BY <1>1, <1>2, FeedTypesLast, FeedInvLasts, PTL DEF Feed!Spec

-----------------------------------------------------------------------------
\* What was proved of the parts holds wherever they run side by side; three of
\* the facts need an operator who starts one hub at a time.
THEOREM PartsHold ==
    AllSpec => /\ []AtMostOneActive /\ []SealedAtRest
               /\ Overlap = FALSE => []Stoppable /\ ObeysOwnRequest /\ EndsOnlyForCause
               /\ ReadyStarts /\ []FeedShowsNewest
<1>1. AllSpec => []AtMostOneActive /\ []SealedAtRest
  BY Composed, OneOperation, Sealed, PTL
<1>2. Overlap = FALSE => (AllSpec => []Stoppable /\ ObeysOwnRequest /\ EndsOnlyForCause)
  BY Composed, ServingIsStoppable, OwnRequestObeyed, EndsForACause, PTL
<1>3. AllSpec => ReadyStarts /\ []FeedShowsNewest
  BY Composed, PromisedStarts, NewestAreShown, PTL
<1> QED
  BY <1>1, <1>2, <1>3
=============================================================================
