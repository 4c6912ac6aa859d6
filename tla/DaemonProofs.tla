----------------------------- MODULE DaemonProofs -----------------------------
(***************************************************************************)
(* The daemon's type invariant, that its steps are steps of the debouncer, *)
(* and that what it believes is backed, for any number of stations, radios *)
(* and timers, any configurations and any faults.                          *)
(***************************************************************************)
EXTENDS Daemon, TLAPS

------------------------------------------------------------------------------
(* Types.  Each lemma below is about one thing the actions are built from. *)

\* A configured device that is added or renamed has its entry.
ChangeIsTracked == \A m \in MAC :
    conf.change[m] \in {"added", "updated"} => Tracked(m)

TypeInv == TypeOK /\ ChangeIsTracked

LEMMA EventType ==
    /\ \A m \in MAC : /\ [kind |-> "connect", mac |-> m] \in Event
                      /\ [kind |-> "disconnect", mac |-> m] \in Event
    /\ [kind |-> "terminating", mac |-> None] \in Event
    /\ [kind |-> "detached", mac |-> None] \in Event
  BY DEF Event

LEMMA WaitingType ==
  ASSUME NEW step \in {"idle", "report", "diff"}
  PROVE  /\ Waiting(step) \in ConfState
         /\ Waiting(step).pc = step
         /\ \A m \in MAC : Waiting(step).change[m] = "none" /\ Waiting(step).listed[m] = None
<1>1. NoChanges \in [MAC -> Change] /\ Nowhere \in [MAC -> Hap \union {None}]
  BY DEF NoChanges, Nowhere, Change
<1>2. step \in LockedStep \union {"idle", "report"}
  BY DEF LockedStep
<1> QED
  BY <1>1, <1>2, 1 \in Nat \ {0} DEF Waiting, ConfState, NoChanges, Nowhere

\* What an action leaves alone keeps its type.
LEMMA Frame ==
  ASSUME TypeInv
  PROVE  /\ UNCHANGED env => EnvOK'
         /\ UNCHANGED stations => StationsOK'
         /\ UNCHANGED hap => HapOK'
         /\ UNCHANGED conf => ConfOK'
         /\ UNCHANGED db => DbOK'
         /\ UNCHANGED topics => TopicsOK'
         /\ UNCHANGED control => ControlOK'
         /\ UNCHANGED <<conf, stations>> => ChangeIsTracked'
<1> USE DEF TypeInv, TypeOK
<1>1. UNCHANGED env => EnvOK'
  BY DEF env, EnvOK
<1>2. UNCHANGED stations => StationsOK'
  BY DEF StationsOK
<1>3. UNCHANGED hap => HapOK'
  BY DEF HapOK
<1>4. UNCHANGED conf => ConfOK'
  BY DEF ConfOK
<1>5. UNCHANGED db => DbOK'
  BY DEF db, DbOK, Db!TypeOK
<1>6. UNCHANGED topics => TopicsOK'
  BY DEF topics, TopicsOK
<1>7. UNCHANGED control => ControlOK'
  BY DEF control, ControlOK
<1>8. UNCHANGED <<conf, stations>> => ChangeIsTracked'
  BY DEF ChangeIsTracked, Tracked
<1> QED
  BY <1>1, <1>2, <1>3, <1>4, <1>5, <1>6, <1>7, <1>8

\* The socket of a radio.
LEMMA AnnounceType ==
  ASSUME EnvOK, NEW h \in Hap, NEW m \in MAC, NEW kind \in {"connect", "disconnect"},
         Announce(h, m, kind)
  PROVE  evq' \in [Hap -> Seq(Event)] /\ unseen' \in [Hap -> SUBSET MAC]
<1>1. unseen \in [Hap -> SUBSET MAC] /\ evq \in [Hap -> Seq(Event)]
  BY DEF EnvOK
<1>2. [kind |-> kind, mac |-> m] \in Event
  BY EventType
<1>3. CASE attached[h]
  <2>1. /\ evq' = [evq EXCEPT ![h] = Append(@, [kind |-> kind, mac |-> m])]
        /\ unseen' = [unseen EXCEPT ![h] = @ \ {m}]
    BY <1>3 DEF Announce
  <2> QED BY <1>1, <1>2, <2>1
<1>4. CASE ~attached[h]
  <2>1. evq' = evq /\ unseen' = [unseen EXCEPT ![h] = @ \union {m}]
    BY <1>4 DEF Announce
  <2> QED BY <1>1, <2>1
<1> QED BY <1>3, <1>4

LEMMA ReceivesType ==
  ASSUME EnvOK, NEW h \in Hap, NEW kind, Receives(h, kind)
  PROVE  /\ evq' \in [Hap -> Seq(Event)]
         /\ Head(evq[h]) \in Event
         /\ kind \in {"connect", "disconnect"} => Head(evq[h]).mac \in MAC
<1>1. evq \in [Hap -> Seq(Event)]
  BY DEF EnvOK
<1>2. evq[h] # <<>> /\ evq' = [evq EXCEPT ![h] = Tail(@)] /\ Head(evq[h]).kind = kind
  BY DEF Receives
<1>3. Head(evq[h]) \in Event /\ Tail(evq[h]) \in Seq(Event)
  BY <1>1, <1>2
<1> QED
  BY <1>1, <1>2, <1>3 DEF Event

\* The goroutine of a radio.
LEMMA HapSteps ==
  ASSUME HapOK, NEW h \in Hap
  PROVE  /\ Returns(h) => HapOK'
         /\ hap' = [hap EXCEPT ![h] = Stopped] => HapOK'
         /\ \A step \in {"home", "attrs"} :
                hap[h].mac \in MAC /\ Enters(h, step) => HapOK'
         /\ \A step \in HapStep, m \in MAC, b \in BOOLEAN :
                hap' = [hap EXCEPT ![h] = [pc |-> step, mac |-> m, update |-> b]] => HapOK'
<1> USE DEF HapOK, HapState
<1>1. Returns(h) => HapOK'
  BY DEF Returns, Reading, HapStep
<1>2. hap' = [hap EXCEPT ![h] = Stopped] => HapOK'
  BY DEF Stopped, HapStep
<1>3. ASSUME NEW step \in {"home", "attrs"}, hap[h].mac \in MAC, Enters(h, step)
      PROVE  HapOK'
  BY <1>3 DEF Enters, HapStep
<1>4. ASSUME NEW step \in HapStep, NEW m \in MAC, NEW b \in BOOLEAN,
             hap' = [hap EXCEPT ![h] = [pc |-> step, mac |-> m, update |-> b]]
      PROVE  HapOK'
  <2>1. [pc |-> step, mac |-> m, update |-> b] \in HapState
    OBVIOUS
  <2> QED BY <1>4, <2>1
<1> QED
  BY <1>1, <1>2, <1>3, <1>4

LEMMA StopsType ==
  ASSUME EnvOK, HapOK, NEW h \in Hap, Stops(h)
  PROVE  HapOK' /\ attached' \in [Hap -> BOOLEAN]
<1>1. attached \in [Hap -> BOOLEAN] /\ attached' = [attached EXCEPT ![h] = FALSE]
  BY DEF EnvOK, Stops
<1>2. hap' = [hap EXCEPT ![h] = Stopped]
  BY DEF Stops
<1> QED
  BY <1>1, <1>2, HapSteps

LEMMA AbortsType ==
  ASSUME ControlOK, Aborts
  PROVE  ControlOK'
  BY DEF ControlOK, Aborts

\* The configuration's goroutine.
LEMMA ConfWaits ==
  ASSUME NEW step \in {"idle", "report"}, conf' = Waiting(step)
  PROVE  ConfOK' /\ ChangeIsTracked'
  BY WaitingType DEF ConfOK, ChangeIsTracked, LockedStep

LEMMA ConfSteps ==
  ASSUME ConfOK, ChangeIsTracked, NEW m \in MAC, \A n \in MAC : Tracked(n)' = Tracked(n)
  PROVE  /\ Settles(m) => ConfOK' /\ ChangeIsTracked'
         /\ \A step \in LockedStep :
                /\ Proceeds(m, step)
                /\ step \in {"register", "mark"} => conf.change[m] \in {"added", "updated"}
                => ConfOK' /\ ChangeIsTracked'
<1>1. ASSUME Settles(m) PROVE ConfOK' /\ ChangeIsTracked'
  <2>1. conf' = [conf EXCEPT !.pc = "apply", !.mac = None, !.change[m] = "none"]
    BY <1>1 DEF Settles
  <2>2. conf' \in ConfState
    BY <2>1 DEF ConfOK, ConfState, LockedStep, Change
  <2>3. \A n \in MAC : conf'.change[n] = IF n = m THEN "none" ELSE conf.change[n]
    BY <2>1 DEF ConfOK, ConfState
  <2>4. conf'.pc = "apply"
    BY <2>1 DEF ConfOK, ConfState
  <2> QED BY <2>2, <2>3, <2>4 DEF ConfOK, ChangeIsTracked
<1>2. ASSUME NEW step \in LockedStep, Proceeds(m, step),
             step \in {"register", "mark"} => conf.change[m] \in {"added", "updated"}
      PROVE  ConfOK' /\ ChangeIsTracked'
  <2>1. conf' = [conf EXCEPT !.pc = step, !.mac = m]
    BY <1>2 DEF Proceeds
  <2>2. conf' \in ConfState
    BY <2>1 DEF ConfOK, ConfState
  <2>3. conf'.pc = step /\ conf'.mac = m /\ conf'.change = conf.change
    BY <2>1 DEF ConfOK, ConfState
  <2> QED BY <1>2, <2>2, <2>3 DEF ConfOK, ChangeIsTracked
<1> QED
  BY <1>1, <1>2

\* The debouncer and the topics.
LEMMA DropType ==
  ASSUME DbOK, NEW m \in MAC, DropPending(m)
  PROVE  DbOK'
<1>1. CASE Db!Queued(m)
  <2>1. Db!Cancel(m) /\ cb' = [t \in Timer |-> IF phase'[t] = "free" THEN "none" ELSE cb[t]]
    BY <1>1 DEF DropPending
  <2>2. Db!TypeOK'
    BY <1>1, <2>1, SentinelAssumption DEF DbOK, Db!TypeOK, Db!Cancel, Db!Queued, Db!Phase
  <2>3. cb' \in [Timer -> CbStep]
    BY <2>1 DEF DbOK, CbStep
  <2> QED BY <2>2, <2>3 DEF DbOK
<1>2. CASE ~Db!Queued(m)
  BY <1>2 DEF DropPending, db, DbOK, Db!TypeOK
<1> QED BY <1>1, <1>2

LEMMA PublishType ==
  ASSUME TopicsOK, NEW m \in MAC, NEW value \in State, NEW stale, PublishState(m, value, stale)
  PROVE  TopicsOK'
<1>1. state' = [state EXCEPT ![m] = value] /\ disc' = disc
  BY DEF PublishState
<1>2. late' = late \union {m} \/ late' = late \ {m}
  BY DEF PublishState
<1> QED
  BY <1>1, <1>2 DEF TopicsOK

------------------------------------------------------------------------------
(* One lemma per goroutine, one step per action.                           *)

LEMMA InitType == Init => TypeInv
<1> SUFFICES ASSUME Init PROVE TypeInv
  OBVIOUS
<1>1. EnvOK
  BY DEF Init, EnvOK
<1>2. StationsOK
  BY DEF Init, StationsOK, Nowhere
<1>3. HapOK
  BY DEF Init, HapOK, HapState, HapStep, Reading
<1>4. ConfOK /\ ChangeIsTracked
  BY WaitingType DEF Init, ConfOK, ChangeIsTracked, LockedStep
<1>5. DbOK
  BY DEF Init, DbOK, CbStep, Db!Init, Db!TypeOK, Db!Phase
<1>6. TopicsOK
  BY DEF Init, TopicsOK
<1>7. done \in BOOLEAN /\ cfgErr \in BOOLEAN /\ sub \in BOOLEAN /\ watcher \in BOOLEAN
  BY Zenon DEF Init
<1>8. ControlOK
  BY <1>7 DEF Init, ControlOK
<1> QED
  BY <1>1, <1>2, <1>3, <1>4, <1>5, <1>6, <1>8 DEF TypeInv, TypeOK

LEMMA EnvNextType == TypeInv /\ EnvNext => TypeInv'
<1> SUFFICES ASSUME TypeInv, EnvNext PROVE TypeInv'
  OBVIOUS
<1> USE DEF TypeInv, TypeOK
<1>1. ASSUME NEW h \in Hap, NEW m \in MAC, Associate(h, m) \/ Disassociate(h, m)
      PROVE  TypeInv'
  <2>1. PICK kind \in {"connect", "disconnect"} : Announce(h, m, kind)
    BY <1>1 DEF Associate, Disassociate
  <2>2. evq' \in [Hap -> Seq(Event)] /\ unseen' \in [Hap -> SUBSET MAC]
    BY <2>1, AnnounceType
  <2>3. assoc' \in [Hap -> SUBSET MAC] /\ attached' = attached
    BY <1>1 DEF EnvOK, Associate, Disassociate
  <2>4. EnvOK'
    BY <2>2, <2>3 DEF EnvOK
  <2> QED BY <1>1, <2>4, Frame DEF Associate, Disassociate
<1>2. ASSUME NEW h \in Hap, HostapdTerminates(h) PROVE TypeInv'
  <2>1. EnvOK'
    BY <1>2, EventType DEF EnvOK, HostapdTerminates
  <2> QED BY <1>2, <2>1, Frame DEF HostapdTerminates
<1>3. ASSUME NEW c \in Config, Receive(c) PROVE TypeInv'
  <2>1. conf' = [Waiting("diff") EXCEPT !.cfg = c]
    BY <1>3 DEF Receive
  <2>2. /\ conf' \in ConfState
        /\ conf'.pc = "diff" /\ conf'.change = Waiting("diff").change
    BY <2>1, WaitingType DEF ConfState
  <2>3. ConfOK' /\ ChangeIsTracked'
    BY <2>2, WaitingType DEF ConfOK, ChangeIsTracked
  <2> QED BY <1>3, <2>3, Frame DEF Receive
<1>4. CASE Stop
  <2>1. ControlOK'
    BY <1>4 DEF Stop, ControlOK
  <2> QED BY <1>4, <2>1, Frame DEF Stop, topics, env
<1> QED
  BY <1>1, <1>2, <1>3, <1>4 DEF EnvNext

LEMMA HapNextType ==
  ASSUME TypeInv, NEW h \in Hap, HapNext(h) \/ SendDetach(h)
  PROVE  TypeInv'
<1> USE DEF TypeInv, TypeOK
<1>1. CASE Attach(h)
  <2>1. attached' \in [Hap -> BOOLEAN] /\ HapOK' /\ ControlOK'
    <3>1. CASE Returns(h) /\ attached' = [attached EXCEPT ![h] = TRUE] /\ UNCHANGED control
      BY <3>1, HapSteps, Frame DEF EnvOK
    <3>2. CASE Stops(h) /\ Aborts
      BY <3>2, StopsType, AbortsType
    <3> QED BY <1>1, <3>1, <3>2 DEF Attach
  <2>2. EnvOK'
    BY <1>1, <2>1 DEF Attach, EnvOK
  <2> QED BY <1>1, <2>1, <2>2, Frame DEF Attach
<1>2. CASE HandleConnect(h)
  <2> DEFINE m == Head(evq[h]).mac
  <2>1. evq' \in [Hap -> Seq(Event)] /\ m \in MAC
    BY <1>2, ReceivesType DEF HandleConnect
  <2>2. EnvOK'
    BY <1>2, <2>1 DEF HandleConnect, EnvOK
  <2>3. StationsOK' /\ HapOK' /\ \A n \in MAC : Tracked(n)' = Tracked(n)
    <3>1. CASE Tracked(m)
      <4>1. stations' = [stations EXCEPT ![m].connected = TRUE, ![m].bssid = h]
        BY <1>2, <3>1 DEF HandleConnect
      <4>2. PICK b \in BOOLEAN :
              hap' = [hap EXCEPT ![h] = [pc |-> "cancel", mac |-> m, update |-> b]]
        BY <1>2, <3>1 DEF HandleConnect
      <4>3. StationsOK' /\ \A n \in MAC : Tracked(n)' = Tracked(n)
        BY <2>1, <3>1, <4>1, SentinelAssumption DEF StationsOK, Station, Tracked
      <4> QED BY <2>1, <4>2, <4>3, HapSteps DEF HapStep
    <3>2. CASE ~Tracked(m)
      BY <1>2, <3>2, Frame DEF HandleConnect, Tracked
    <3> QED BY <3>1, <3>2
  <2>4. ChangeIsTracked'
    BY <1>2, <2>3 DEF HandleConnect, ChangeIsTracked
  <2> QED BY <1>2, <2>2, <2>3, <2>4, Frame DEF HandleConnect
<1>3. CASE HapCancel(h)
  <2>1. hap[h].mac \in MAC
    BY <1>3 DEF HapCancel, HapOK
  <2>2. DbOK' /\ HapOK'
    BY <1>3, <2>1, DropType, HapSteps DEF HapCancel
  <2> QED BY <1>3, <2>2, Frame DEF HapCancel
<1>4. CASE HapHome(h)
  <2>1. hap[h].mac \in MAC
    BY <1>4 DEF HapHome, HapOK
  <2>2. TopicsOK'
    BY <1>4, <2>1, PublishType, Frame DEF HapHome, State
  <2>3. attached' \in [Hap -> BOOLEAN] /\ HapOK' /\ ControlOK'
    <3>1. CASE Enters(h, "attrs") /\ UNCHANGED <<attached, control>>
      BY <2>1, <3>1, HapSteps, Frame DEF EnvOK
    <3>2. CASE Stops(h) /\ Aborts
      BY <3>2, StopsType, AbortsType
    <3> QED BY <1>4, <3>1, <3>2 DEF HapHome
  <2>4. EnvOK'
    BY <1>4, <2>3 DEF HapHome, EnvOK
  <2> QED BY <1>4, <2>2, <2>3, <2>4, Frame DEF HapHome
<1>5. CASE HapAttrs(h)
  <2>1. attached' \in [Hap -> BOOLEAN] /\ HapOK' /\ ControlOK'
    <3>1. CASE Returns(h) /\ UNCHANGED <<attached, control>>
      BY <3>1, HapSteps, Frame DEF EnvOK
    <3>2. CASE Stops(h) /\ Aborts
      BY <3>2, StopsType, AbortsType
    <3> QED BY <1>5, <3>1, <3>2 DEF HapAttrs
  <2>2. EnvOK'
    BY <1>5, <2>1 DEF HapAttrs, EnvOK
  <2> QED BY <1>5, <2>1, <2>2, Frame DEF HapAttrs
<1>6. CASE HandleDisconnect(h)
  <2> DEFINE m == Head(evq[h]).mac
  <2>1. evq' \in [Hap -> Seq(Event)] /\ m \in MAC
    BY <1>6, ReceivesType DEF HandleDisconnect
  <2>2. EnvOK'
    BY <1>6, <2>1 DEF HandleDisconnect, EnvOK
  <2>3. StationsOK' /\ HapOK' /\ \A n \in MAC : Tracked(n)' = Tracked(n)
    <3>1. CASE Tracked(m) /\ (Connected(m) => stations[m].bssid = h)
      <4>1. /\ stations' = [stations EXCEPT ![m].connected = FALSE]
            /\ hap' = [hap EXCEPT ![h] = [pc |-> "enqueue", mac |-> m, update |-> FALSE]]
        BY <1>6, <3>1 DEF HandleDisconnect
      <4>2. StationsOK' /\ \A n \in MAC : Tracked(n)' = Tracked(n)
        BY <2>1, <3>1, <4>1, SentinelAssumption DEF StationsOK, Station, Tracked
      <4> QED BY <2>1, <4>1, <4>2, HapSteps DEF HapStep
    <3>2. CASE ~(Tracked(m) /\ (Connected(m) => stations[m].bssid = h))
      BY <1>6, <3>2, Frame DEF HandleDisconnect, Tracked
    <3> QED BY <3>1, <3>2
  <2>4. ChangeIsTracked'
    BY <1>6, <2>3 DEF HandleDisconnect, ChangeIsTracked
  <2> QED BY <1>6, <2>2, <2>3, <2>4, Frame DEF HandleDisconnect
<1>7. CASE HapEnqueue(h)
  <2>1. hap[h].mac \in MAC
    BY <1>7 DEF HapEnqueue, HapOK
  <2>2. DbOK'
    <3>1. CASE Db!Queued(hap[h].mac)
      BY <1>7, <3>1, Frame DEF HapEnqueue
    <3>2. CASE ~Db!Queued(hap[h].mac)
      <4>1. Db!Enqueue(hap[h].mac)
        BY <1>7, <3>2 DEF HapEnqueue
      <4>2. Db!TypeOK'
        BY <2>1, <4>1, SentinelAssumption DEF DbOK, Db!TypeOK, Db!Enqueue, Db!Phase
      <4>3. cb' \in [Timer -> CbStep]
        BY <1>7, <3>2 DEF HapEnqueue, DbOK, CbStep
      <4> QED BY <4>2, <4>3 DEF DbOK
    <3> QED BY <3>1, <3>2
  <2> QED BY <1>7, <2>2, HapSteps, Frame DEF HapEnqueue
<1>8. CASE HandleTerminating(h) \/ HandleDetached(h)
  <2>1. PICK kind : Receives(h, kind)
    BY <1>8 DEF HandleTerminating, HandleDetached
  <2>2. evq' \in [Hap -> Seq(Event)]
    BY <2>1, ReceivesType
  <2>3. HapOK' /\ attached' \in [Hap -> BOOLEAN]
    BY <1>8, StopsType DEF HandleTerminating, HandleDetached
  <2>4. EnvOK'
    BY <1>8, <2>2, <2>3 DEF EnvOK, HandleTerminating, HandleDetached
  <2>5. ControlOK'
    BY <1>8, AbortsType, Frame DEF HandleTerminating, HandleDetached
  <2> QED BY <1>8, <2>3, <2>4, <2>5, Frame DEF HandleTerminating, HandleDetached
<1>9. CASE SendDetach(h)
  <2>1. EnvOK'
    BY <1>9, EventType DEF EnvOK, SendDetach
  <2> QED BY <1>9, <2>1, Frame DEF SendDetach
<1>10. CASE ReadTimeout(h)
  <2>1. HapOK' /\ attached' \in [Hap -> BOOLEAN]
    BY <1>10, StopsType DEF ReadTimeout
  <2>2. EnvOK'
    BY <1>10, <2>1 DEF EnvOK, ReadTimeout
  <2> QED BY <1>10, <2>1, <2>2, Frame DEF ReadTimeout
<1> QED
  BY <1>1, <1>2, <1>3, <1>4, <1>5, <1>6, <1>7, <1>8, <1>9, <1>10 DEF HapNext

LEMMA ConfNextType == TypeInv /\ ConfNext => TypeInv'
<1> SUFFICES ASSUME TypeInv, ConfNext PROVE TypeInv'
  OBVIOUS
<1> USE DEF TypeInv, TypeOK
<1>f. ConfFails => ConfOK' /\ ChangeIsTracked'
  BY ConfWaits DEF ConfFails
<1>s. UNCHANGED stations => \A n \in MAC : Tracked(n)' = Tracked(n)
  BY DEF Tracked
<1>1. CASE DiffDevice
  <2> DEFINE d == conf.cfg[conf.i]
  <2>1. d \in Device
    BY <1>1, ConfigAssumption DEF DiffDevice, ConfOK, ConfState
  <2>2. CASE d.mac = None
    BY <1>1, <1>f, <2>2, Frame DEF DiffDevice
  <2>3. CASE d.mac # None
    <3>1. PICK m \in MAC, n \in Name \union {None} : d.mac = m /\ d.name = n
      BY <2>1, <2>3 DEF Device
    <3> DEFINE s == IF Tracked(m) THEN [stations[m] EXCEPT !.name = n]
                    ELSE [name |-> n, connected |-> FALSE, bssid |-> None]
    <3>2. PICK c \in Change, b \in BOOLEAN :
            /\ conf' = [conf EXCEPT !.i = @ + 1, !.change[m] = c, !.update = b]
            /\ stations' = [stations EXCEPT ![m] = s]
      BY <1>1, <2>3, <3>1 DEF DiffDevice, ChangeOf, Change
    <3> HIDE DEF d
    <3>3. s \in Station
      BY DEF StationsOK, Station, Tracked
    <3> HIDE DEF s
    <3>4. s # None
      BY <3>3, SentinelAssumption
    <3>5. /\ StationsOK'
          /\ stations'[m] # None
          /\ \A k \in MAC : k # m => stations'[k] = stations[k]
      BY <3>2, <3>3, <3>4 DEF StationsOK
    <3>6. conf.change \in [MAC -> Change] /\ conf.i + 1 \in Nat \ {0}
      BY DEF ConfOK, ConfState
    <3>7. /\ conf' \in ConfState /\ conf'.pc = "diff"
          /\ \A k \in MAC : k # m => conf'.change[k] = conf.change[k]
      BY <1>1, <3>2, <3>6 DEF DiffDevice, ConfOK, ConfState
    <3>8. ConfOK'
      BY <3>7 DEF ConfOK
    <3>9. ChangeIsTracked'
      BY <3>5, <3>7 DEF ChangeIsTracked, Tracked
    <3> QED BY <1>1, <3>5, <3>8, <3>9, Frame DEF DiffDevice
  <2> QED BY <2>2, <2>3
<1>2. CASE DiffRemoved
  <2> DEFINE gone == {m \in MAC : Tracked(m) /\ conf.change[m] = "none"}
  <2>1. stations' = [m \in MAC |-> IF m \in gone THEN None ELSE stations[m]]
    BY <1>2 DEF DiffRemoved
  <2>2. StationsOK' /\ \A m \in MAC \ gone : Tracked(m)' = Tracked(m)
    BY <2>1 DEF StationsOK, Tracked
  <2>3. CASE conf' = Waiting("idle")
    BY <1>2, <2>2, <2>3, ConfWaits, Frame DEF DiffRemoved
  <2>4. CASE conf' # Waiting("idle")
    <3>1. conf' = [conf EXCEPT
                    !.pc = IF conf.update THEN "list" ELSE "apply",
                    !.cfg = <<>>,
                    !.i = 1,
                    !.change = [m \in MAC |-> IF m \in gone THEN "removed" ELSE @[m]]]
      BY <1>2, <2>4 DEF DiffRemoved
    <3>2. /\ conf' \in ConfState
          /\ conf'.pc \in {"list", "apply"}
      BY <3>1, 1 \in Nat \ {0} DEF ConfOK, ConfState, Change, LockedStep
    <3>3. \A n \in MAC : conf'.change[n] = IF n \in gone THEN "removed" ELSE conf.change[n]
      BY <3>1 DEF ConfOK, ConfState
    <3>4. ConfOK' /\ ChangeIsTracked'
      BY <2>2, <3>2, <3>3 DEF ConfOK, ChangeIsTracked
    <3> QED BY <1>2, <2>2, <3>4, Frame DEF DiffRemoved
  <2> QED BY <2>3, <2>4
<1>3. CASE ListRadio
  <2> DEFINE h == HapOrder[conf.i]
             added == {m \in MAC : conf.change[m] = "added"}
  <2>1. h \in Hap
    <3>1. conf.i <= Len(HapOrder) /\ conf.i \in Nat \ {0}
      BY <1>3 DEF ListRadio, ConfOK, ConfState
    <3> QED BY <3>1, HapOrderAssumption
  <2> HIDE DEF h
  <2>2. ConfOK' /\ ChangeIsTracked'
    <3>1. ASSUME NEW seen,
                 conf' = [conf EXCEPT !.i = @ + 1,
                            !.listed = [m \in MAC |-> IF m \in seen THEN h ELSE @[m]]]
          PROVE  ConfOK' /\ ChangeIsTracked'
      <4>1. [m \in MAC |-> IF m \in seen THEN h ELSE conf.listed[m]]
               \in [MAC -> Hap \union {None}]
        BY <2>1 DEF ConfOK, ConfState
      <4>2. conf' \in ConfState /\ conf'.pc = "list" /\ conf'.change = conf.change
        <5>1. conf.i + 1 \in Nat \ {0}
          BY DEF ConfOK, ConfState
        <5> QED BY <1>3, <3>1, <4>1, <5>1 DEF ListRadio, ConfOK, ConfState
      <4> QED BY <1>3, <1>s, <4>2 DEF ListRadio, ConfOK, ChangeIsTracked
    <3>2. CASE conf' = [conf EXCEPT !.pc = "apply", !.i = 1, !.listed = Nowhere]
      <4>1. /\ conf' \in ConfState
            /\ conf'.pc = "apply" /\ conf'.change = conf.change
        BY <3>2, 1 \in Nat \ {0} DEF ConfOK, ConfState, Nowhere, LockedStep
      <4> QED BY <1>3, <1>s, <4>1 DEF ListRadio, ConfOK, ChangeIsTracked
    <3> QED BY <1>3, <1>f, <3>1, <3>2 DEF ListRadio, h
  <2>3. unseen' = [unseen EXCEPT ![h] = @ \ added] \/ unseen' = unseen
    BY <1>3 DEF ListRadio, h
  <2>4. EnvOK'
    <3>1. unseen' \in [Hap -> SUBSET MAC]
      BY <2>1, <2>3 DEF EnvOK
    <3> QED BY <1>3, <3>1 DEF ListRadio, EnvOK
  <2> QED BY <1>3, <2>2, <2>4, Frame DEF ListRadio
<1>4. CASE ListDone
  <2>1. conf' = [conf EXCEPT !.pc = "apply", !.i = 1]
    BY <1>4 DEF ListDone
  <2>2. /\ conf' \in ConfState
        /\ conf'.pc = "apply" /\ conf'.change = conf.change
    BY <2>1, 1 \in Nat \ {0} DEF ConfOK, ConfState, LockedStep
  <2>3. ConfOK' /\ ChangeIsTracked'
    BY <1>4, <1>s, <2>2 DEF ListDone, ConfOK, ChangeIsTracked
  <2> QED BY <1>4, <2>3, Frame DEF ListDone
<1>5. ASSUME NEW m \in MAC, ApplyNoChange(m) \/ ApplyUpdated(m) \/ ApplyAdded(m)
      PROVE  TypeInv'
  <2>1. \/ Settles(m)
        \/ \E step \in {"register", "mark"} :
              Proceeds(m, step) /\ conf.change[m] \in {"added", "updated"}
    BY <1>5 DEF ApplyNoChange, ApplyUpdated, ApplyAdded
  <2>2. ConfOK' /\ ChangeIsTracked'
    BY <1>5, <1>s, <2>1, ConfSteps DEF LockedStep, ApplyNoChange, ApplyUpdated, ApplyAdded
  <2> QED BY <1>5, <2>2, Frame DEF ApplyNoChange, ApplyUpdated, ApplyAdded
<1>6. ASSUME NEW m \in MAC, ApplyRemoved(m) PROVE TypeInv'
  <2>1. ConfOK' /\ ChangeIsTracked'
    BY <1>6, <1>s, ConfSteps DEF LockedStep, ApplyRemoved
  <2>2. DbOK'
    BY <1>6, DropType DEF ApplyRemoved
  <2> QED BY <1>6, <2>1, <2>2, Frame DEF ApplyRemoved
<1>7. CASE Applied
  BY <1>7, ConfWaits, Frame DEF Applied
<1>8. CASE Register
  <2>1. conf.mac \in MAC /\ conf.change[conf.mac] \in {"added", "updated"}
    BY <1>8 DEF Register, ConfOK, LockedStep
  <2>2. ConfOK' /\ ChangeIsTracked'
    BY <1>8, <1>f, <1>s, <2>1, ConfSteps DEF Register, LockedStep
  <2>3. disc' \in [MAC -> Name \union {None}]
    <3>1. stations[conf.mac].name \in Name \union {None}
      BY <2>1 DEF StationsOK, Station, ChangeIsTracked, Tracked
    <3> QED BY <1>8, <2>1, <3>1 DEF Register, TopicsOK
  <2>4. TopicsOK'
    BY <1>8, <2>3 DEF Register, TopicsOK
  <2> QED BY <1>8, <2>2, <2>4, Frame DEF Register
<1>9. CASE Mark
  <2> DEFINE m == conf.mac
             h == conf.listed[m]
  <2>1. m \in MAC /\ conf.change[m] \in {"added", "updated"}
    BY <1>9 DEF Mark, ConfOK, LockedStep
  <2>2. Tracked(m) /\ h \in Hap \union {None}
    BY <2>1 DEF ChangeIsTracked, ConfOK, ConfState
  <2>3. CASE h # None
    <3>1. /\ stations' = [stations EXCEPT ![m].connected = TRUE, ![m].bssid = h]
          /\ DropPending(m)
          /\ Proceeds(m, "home")
      BY <1>9, <2>3 DEF Mark
    <3>2. StationsOK' /\ \A n \in MAC : Tracked(n)' = Tracked(n)
      BY <2>1, <2>2, <2>3, <3>1, SentinelAssumption DEF StationsOK, Station, Tracked
    <3>3. ConfOK' /\ ChangeIsTracked'
      BY <2>1, <3>1, <3>2, ConfSteps DEF LockedStep
    <3>4. DbOK'
      BY <2>1, <3>1, DropType
    <3> QED BY <1>9, <3>2, <3>3, <3>4, Frame DEF Mark
  <2>4. CASE h = None
    <3>1. /\ stations' = [stations EXCEPT ![m].connected = FALSE]
          /\ Proceeds(m, "nothome")
          /\ UNCHANGED db
      BY <1>9, <2>4 DEF Mark
    <3>2. StationsOK' /\ \A n \in MAC : Tracked(n)' = Tracked(n)
      BY <2>1, <2>2, <3>1, SentinelAssumption DEF StationsOK, Station, Tracked
    <3>3. ConfOK' /\ ChangeIsTracked'
      BY <2>1, <3>1, <3>2, ConfSteps DEF LockedStep
    <3> QED BY <1>9, <3>1, <3>2, <3>3, Frame DEF Mark
  <2> QED BY <2>3, <2>4
<1>10. CASE ConfNotHome \/ ConfHome
  <2>1. conf.mac \in MAC
    BY <1>10 DEF ConfNotHome, ConfHome, ConfOK, LockedStep
  <2>2. ConfOK' /\ ChangeIsTracked'
    BY <1>10, <1>f, <1>s, <2>1, ConfSteps DEF ConfNotHome, ConfHome, LockedStep
  <2>3. TopicsOK'
    BY <1>10, <2>1, PublishType, Frame DEF ConfNotHome, ConfHome, State
  <2> QED BY <1>10, <2>2, <2>3, Frame DEF ConfNotHome, ConfHome
<1>11. CASE ConfAttrs
  <2>1. conf.mac \in MAC
    BY <1>11 DEF ConfAttrs, ConfOK, LockedStep
  <2>2. ConfOK' /\ ChangeIsTracked'
    BY <1>11, <1>f, <1>s, <2>1, ConfSteps DEF ConfAttrs
  <2> QED BY <1>11, <2>2, Frame DEF ConfAttrs
<1>12. CASE Unregister
  <2>1. conf.mac \in MAC
    BY <1>12 DEF Unregister, ConfOK, LockedStep
  <2>2. ConfOK' /\ ChangeIsTracked'
    BY <1>12, <1>f, <1>s, <2>1, ConfSteps DEF Unregister
  <2>3. TopicsOK'
    BY <1>12 DEF Unregister, TopicsOK
  <2> QED BY <1>12, <2>2, <2>3, Frame DEF Unregister
<1>13. CASE ReportConf
  <2>1. ConfOK' /\ ChangeIsTracked'
    BY <1>13, ConfWaits DEF ReportConf
  <2>2. ControlOK'
    BY <1>13 DEF ReportConf, ControlOK
  <2> QED BY <1>13, <2>1, <2>2, Frame DEF ReportConf
<1> QED
  BY <1>1, <1>2, <1>3, <1>4, <1>5, <1>6, <1>7, <1>8, <1>9, <1>10, <1>11, <1>12, <1>13
  DEF ConfNext

LEMMA CbNextType ==
  ASSUME TypeInv, NEW t \in Timer, CbNext(t)
  PROVE  TypeInv'
<1> USE DEF TypeInv, TypeOK
<1>t. ASSUME NEW step \in CbStep, GoesTo(t, step) PROVE DbOK'
  BY <1>t DEF GoesTo, DbOK, Db!TypeOK
<1>f. Finishes(t) => DbOK'
  BY SentinelAssumption DEF Finishes, DbOK, Db!TypeOK, Db!Finish, Db!Phase, CbStep
<1>r. At(t, "nothome") \/ At(t, "read") => owner[t] \in MAC
  BY DEF At, DbOK, Db!TypeOK
<1>1. CASE Fire(t) \/ Begin(t) \/ Skip(t)
  <2>1. Db!TypeOK'
    <3>1. CASE Fire(t)
      BY <1>1, <3>1 DEF Fire, Db!Fire, DbOK, Db!TypeOK, Db!Phase
    <3>2. CASE Begin(t)
      BY <1>1, <3>2 DEF Begin, Db!Begin, DbOK, Db!TypeOK, Db!Phase
    <3>3. CASE Skip(t)
      BY <1>1, <3>3, SentinelAssumption DEF Skip, Db!Skip, DbOK, Db!TypeOK, Db!Phase
    <3> QED BY <1>1, <3>1, <3>2, <3>3
  <2>2. cb' \in [Timer -> CbStep]
    BY <1>1 DEF Fire, Begin, Skip, DbOK, CbStep
  <2>3. DbOK'
    BY <2>1, <2>2 DEF DbOK
  <2> QED BY <1>1, <2>3, Frame DEF Fire, Begin, Skip
<1>2. CASE CbNotHome(t)
  <2> DEFINE published == PublishState(owner[t], "not_home", Connected(owner[t]))
  <2>1. published \/ UNCHANGED topics
    BY <1>2 DEF CbNotHome
  <2>2. TopicsOK'
    BY <1>2, <1>r, <2>1, PublishType, Frame DEF CbNotHome, State
  <2>3. DbOK'
    BY <1>2, <1>t DEF CbNotHome, CbStep
  <2> QED BY <1>2, <2>2, <2>3, Frame DEF CbNotHome
<1>3. CASE CbRead(t) \/ CbAttrs(t)
  <2>1. DbOK'
    BY <1>3, <1>t, <1>f DEF CbRead, CbAttrs, CbStep
  <2> QED BY <1>3, <2>1, Frame DEF CbRead, CbAttrs
<1>4. CASE CbReport(t)
  <2>1. DbOK'
    BY <1>4, <1>f DEF CbReport
  <2>2. ControlOK'
    BY <1>4 DEF CbReport, ControlOK
  <2> QED BY <1>4, <2>1, <2>2, Frame DEF CbReport
<1> QED
  BY <1>1, <1>2, <1>3, <1>4 DEF CbNext

LEMMA RunNextType == TypeInv /\ RunNext => TypeInv'
<1> SUFFICES ASSUME TypeInv, RunNext PROVE TypeInv'
  OBVIOUS
<1> USE DEF TypeInv, TypeOK
<1>1. CASE Watch
  <2>1. errs' \in 0..1 /\ cfgErr' = cfgErr /\ sub' = sub /\ watcher' = FALSE
    BY <1>1 DEF Watch, ControlOK
  <2>2. done' \in BOOLEAN
    BY <1>1 DEF Watch, ControlOK
  <2>3. ControlOK'
    BY <2>1, <2>2 DEF ControlOK
  <2> QED BY <1>1, <2>3, Frame DEF Watch
<1>2. CASE SubscribeReturns
  <2>1. ControlOK'
    BY <1>2 DEF SubscribeReturns, ControlOK
  <2> QED BY <1>2, <2>1, Frame DEF SubscribeReturns
<1>3. ASSUME NEW h \in Hap, SendDetach(h) PROVE TypeInv'
  BY <1>3, HapNextType
<1> QED
  BY <1>1, <1>2, <1>3 DEF RunNext

LEMMA StutterType == TypeInv /\ UNCHANGED vars => TypeInv'
  BY Frame DEF TypeInv, TypeOK, vars

LEMMA NextType == TypeInv /\ [Next]_vars => TypeInv'
  BY EnvNextType, HapNextType, ConfNextType, CbNextType, RunNextType, StutterType DEF Next

\* Every variable keeps its type, for any number of stations, radios and timers
\* and any configurations and faults: a goroutine at a step that is about a
\* station has one, the registration and the marking of a station are reached
\* for an added or renamed one only (daemon.go:283-350), errs never holds more
\* than its capacity (daemon.go:144), and a timer has an address exactly while
\* it is allocated.
THEOREM TypeCorrect == SafeSpec => []TypeOK
<1>1. Init => TypeInv
  BY InitType
<1>2. TypeInv /\ [Next]_vars => TypeInv'
  BY NextType
<1>3. TypeInv => TypeOK
  BY DEF TypeInv
<1> QED
  BY <1>1, <1>2, <1>3, PTL DEF SafeSpec

------------------------------------------------------------------------------
(* The debouncer inside the daemon.                                        *)

DP == INSTANCE DebouncerProofs

\* An entry of the queue is a live timer, within the daemon as alone.
DbInv == Db!TypeOK /\ Db!EntryIsLive

LEMMA DbNext == DbInv /\ [Db!Next]_(Db!vars) => DbInv'
<1>1. DbInv <=> DP!IInv
  BY DEF DbInv, DP!IInv, Db!TypeOK, DP!TypeOK, Db!EntryIsLive, DP!EntryIsLive,
         Db!Queued, DP!Queued, Db!Phase, DP!Phase
<1>2. [Db!Next]_(Db!vars) => [DP!Next]_(DP!vars)
  BY DEF Db!Next, DP!Next, Db!vars, DP!vars, Db!Queued, DP!Queued,
         Db!Enqueue, DP!Enqueue, Db!Cancel, DP!Cancel, Db!Fire, DP!Fire,
         Db!Begin, DP!Begin, Db!Skip, DP!Skip, Db!Finish, DP!Finish
<1>3. DP!IInv /\ [DP!Next]_(DP!vars) => DP!IInv'
  BY DP!NextIInv, SentinelAssumption
<1>4. DP!IInv' <=> DbInv'
  BY <1>1, PTL
<1> QED
  BY <1>1, <1>2, <1>3, <1>4

LEMMA DropIsStep ==
  ASSUME NEW m \in MAC, DropPending(m)
  PROVE  [Db!Next]_(Db!vars)
  BY DEF DropPending, db, Db!Next, Db!vars

LEMMA NextIsDbStep == TypeInv /\ [Next]_vars => [Db!Next]_(Db!vars)
<1> SUFFICES ASSUME TypeInv, [Next]_vars PROVE [Db!Next]_(Db!vars)
  OBVIOUS
<1> USE DEF TypeInv, TypeOK
<1>1. CASE UNCHANGED db
  BY <1>1 DEF db, Db!vars
<1>2. ASSUME NEW h \in Hap, HapNext(h) PROVE [Db!Next]_(Db!vars)
  <2>1. CASE HapCancel(h)
    <3>1. PICK m \in MAC : m = hap[h].mac
      BY <2>1 DEF HapCancel, HapOK
    <3> QED BY <2>1, <3>1, DropIsStep DEF HapCancel
  <2>2. CASE HapEnqueue(h)
    <3>1. PICK m \in MAC : m = hap[h].mac
      BY <2>2 DEF HapEnqueue, HapOK
    <3>2. UNCHANGED db \/ Db!Enqueue(m)
      BY <2>2, <3>1 DEF HapEnqueue
    <3> QED BY <1>1, <3>2 DEF Db!Next
  <2>3. CASE ~HapCancel(h) /\ ~HapEnqueue(h)
    <3>1. UNCHANGED db
      BY <1>2, <2>3 DEF HapNext, Attach, HandleConnect, HapHome, HapAttrs, HandleDisconnect,
                        HandleTerminating, HandleDetached, ReadTimeout
    <3> QED BY <1>1, <3>1
  <2> QED BY <2>1, <2>2, <2>3
<1>3. CASE ConfNext
  <2>1. ASSUME NEW m \in MAC, ApplyRemoved(m) PROVE [Db!Next]_(Db!vars)
    BY <2>1, DropIsStep DEF ApplyRemoved
  <2>2. CASE Mark
    <3>1. PICK m \in MAC : m = conf.mac
      BY <2>2 DEF Mark, ConfOK, LockedStep
    <3>2. UNCHANGED db \/ DropPending(m)
      BY <2>2, <3>1 DEF Mark
    <3> QED BY <1>1, <3>2, DropIsStep
  <2>3. CASE ~Mark /\ ~\E m \in MAC : ApplyRemoved(m)
    <3>1. UNCHANGED db
      BY <1>3, <2>3 DEF ConfNext, DiffDevice, DiffRemoved, ListRadio, ListDone, ApplyNoChange,
                        ApplyUpdated, ApplyAdded, Applied, Register, ConfNotHome, ConfHome,
                        ConfAttrs, Unregister, ReportConf
    <3> QED BY <1>1, <3>1
  <2> QED BY <2>1, <2>2, <2>3
<1>4. ASSUME NEW t \in Timer, CbNext(t) PROVE [Db!Next]_(Db!vars)
  BY <1>4 DEF CbNext, Fire, Begin, Skip, CbNotHome, CbRead, CbAttrs, CbReport,
              GoesTo, Finishes, Db!Next, Db!vars
<1>5. CASE EnvNext \/ RunNext \/ UNCHANGED vars
  <2>1. UNCHANGED db
    BY <1>5 DEF EnvNext, RunNext, vars, Associate, Disassociate, HostapdTerminates, Receive,
                Stop, Watch, SubscribeReturns, SendDetach
  <2> QED BY <1>1, <2>1
<1> QED
  BY <1>2, <1>3, <1>4, <1>5 DEF Next

\* Inside the daemon, the debouncer's map holds live timers under their own
\* address only: each cancel of the two event handlers and of onConfigChange
\* (daemon.go:327, 353, 399) reaches the callback of its own station or none.
THEOREM DaemonKeepsQueue == SafeSpec => []Db!EntryIsLive
<1>1. Init => TypeInv /\ DbInv
  <2>1. Init => DbInv
    BY SentinelAssumption DEF Init, DbInv, Db!Init, Db!TypeOK, Db!EntryIsLive, Db!Queued, Db!Phase
  <2> QED BY <2>1, InitType
<1>2. TypeInv /\ DbInv /\ [Next]_vars => (TypeInv /\ DbInv)'
  BY NextType, NextIsDbStep, DbNext
<1>3. DbInv => Db!EntryIsLive
  BY DEF DbInv
<1> QED
  BY <1>1, <1>2, <1>3, PTL DEF SafeSpec

------------------------------------------------------------------------------
(* BelievedIsBacked.  By itself it is not inductive: a connect that waits  *)
(* in a socket will make the daemon believe, and so will a listing that    *)
(* onConfigChange carries from connectedStations to the loop over the      *)
(* changes.  The invariant below says that these, too, are backed.         *)

Connect(m)    == [kind |-> "connect", mac |-> m]
Disconnect(m) == [kind |-> "disconnect", mac |-> m]

\* What the daemon believes is at a radio, and is backed.
BeliefOK == \A m \in MAC : Connected(m) =>
    stations[m].bssid \in Hap /\ Backed(stations[m].bssid, m)

\* A connect in a socket: m is still there, or a disconnect waits behind it, or
\* m left when nobody was told.
ArrivalsOK == \A h \in Hap, m \in MAC : \A i \in 1..Len(evq[h]) :
    evq[h][i] = Connect(m) =>
        \/ m \in assoc[h] \/ m \in unseen[h]
        \/ \E j \in (i + 1)..Len(evq[h]) : evq[h][j] = Disconnect(m)

\* Before ATTACH the socket is empty.
SilenceOK == \A h \in Hap : hap[h].pc = "attach" => evq[h] = <<>> /\ ~attached[h]

\* A listing lives only under the lock, is backed, and comes from a radio that
\* was already asked.
ListingOK == \A m \in MAC : conf.listed[m] # None =>
    /\ conf.pc \in LockedStep \ {"diff"}
    /\ Backed(conf.listed[m], m)
    /\ conf.pc = "list" =>
        \E k \in 1..Len(HapOrder) : k < conf.i /\ HapOrder[k] = conf.listed[m]

\* A device that is new is not connected until its change is processed.
AddedOK == \A m \in MAC :
    conf.pc \in {"diff", "list"} /\ conf.change[m] = "added" => ~Connected(m)

BeliefInv == BeliefOK /\ ArrivalsOK /\ SilenceOK /\ ListingOK /\ AddedOK

\* The goroutine of a radio is busy with a station that connected.
Connecting == {"cancel", "home", "attrs"}

\* While a socket is attached, no event waits, and none is being handled, of a
\* station whose last arrival or departure was announced to nobody.
NewsOK == \A h \in Hap, m \in MAC : attached[h] /\ m \in unseen[h] =>
    /\ \A i \in 1..Len(evq[h]) : evq[h][i].mac # m
    /\ hap[h].pc \in Connecting => hap[h].mac # m

\* A step takes the backing of no station away.
Kept == \A h \in Hap, m \in MAC : Backed(h, m) => Backed(h, m)'

------------------------------------------------------------------------------
(* The sockets.                                                            *)

LEMMA SameKeeps ==
  ASSUME UNCHANGED <<assoc, evq, unseen>>
  PROVE  Kept /\ (ArrivalsOK => ArrivalsOK')
  BY DEF Kept, Backed, Leaving, ArrivalsOK

\* One more event keeps those that wait.
LEMMA AppendKeeps ==
  ASSUME EnvOK, NEW h \in Hap, NEW e \in Event,
         evq' = [evq EXCEPT ![h] = Append(@, e)]
  PROVE  /\ \A g \in Hap : /\ Len(evq'[g]) = IF g = h THEN Len(evq[g]) + 1 ELSE Len(evq[g])
                           /\ \A i \in 1..Len(evq[g]) : evq'[g][i] = evq[g][i]
         /\ evq'[h][Len(evq[h]) + 1] = e
         /\ \A g \in Hap, m \in MAC : Leaving(g, m) => Leaving(g, m)'
<1>1. evq \in [Hap -> Seq(Event)]
  BY DEF EnvOK
<1>2. \A g \in Hap : g # h => evq'[g] = evq[g]
  BY <1>1
<1>3. evq'[h] = Append(evq[h], e) /\ evq[h] \in Seq(Event)
  BY <1>1
<1>4. /\ Len(evq'[h]) = Len(evq[h]) + 1
      /\ \A i \in 1..Len(evq[h]) : evq'[h][i] = evq[h][i]
      /\ evq'[h][Len(evq[h]) + 1] = e
  BY <1>3
<1>5. \A g \in Hap : /\ Len(evq'[g]) = IF g = h THEN Len(evq[g]) + 1 ELSE Len(evq[g])
                     /\ \A i \in 1..Len(evq[g]) : evq'[g][i] = evq[g][i]
  BY <1>2, <1>4
<1>6. ASSUME NEW g \in Hap, NEW m \in MAC, Leaving(g, m) PROVE Leaving(g, m)'
  <2>1. Len(evq[g]) \in Nat
    BY <1>1
  <2>2. PICK i \in 1..Len(evq[g]) : evq[g][i] = Disconnect(m)
    BY <1>6 DEF Leaving, Disconnect
  <2>3. i \in 1..Len(evq'[g]) /\ evq'[g][i] = Disconnect(m)
    BY <1>5, <2>1, <2>2
  <2> QED BY <2>3 DEF Leaving, Disconnect
<1> QED
  BY <1>4, <1>5, <1>6

\* An event that is not a connect adds nothing to back.
LEMMA AppendArrivals ==
  ASSUME EnvOK, ArrivalsOK, NEW h \in Hap, NEW e \in Event, e.kind # "connect",
         evq' = [evq EXCEPT ![h] = Append(@, e)],
         NEW g \in Hap, NEW m \in MAC, NEW i \in 1..Len(evq'[g]), evq'[g][i] = Connect(m)
  PROVE  \/ m \in assoc[g] \/ m \in unseen[g]
         \/ \E j \in (i + 1)..Len(evq'[g]) : evq'[g][j] = Disconnect(m)
<1>1. Len(evq[g]) \in Nat
  BY DEF EnvOK
<1>2. i \in 1..Len(evq[g]) /\ evq[g][i] = Connect(m)
  <2>1. i # Len(evq[g]) + 1 \/ g # h
    BY AppendKeeps DEF Connect
  <2> QED BY <1>1, <2>1, AppendKeeps
<1>3. CASE m \in assoc[g] \/ m \in unseen[g]
  BY <1>3
<1>4. ASSUME NEW j \in (i + 1)..Len(evq[g]), evq[g][j] = Disconnect(m)
      PROVE  \E k \in (i + 1)..Len(evq'[g]) : evq'[g][k] = Disconnect(m)
  <2>1. j \in 1..Len(evq[g]) /\ j \in (i + 1)..Len(evq'[g])
    BY <1>1, <1>2, <1>4, AppendKeeps
  <2> QED BY <1>4, <2>1, AppendKeeps
<1> QED
  BY <1>2, <1>3, <1>4 DEF ArrivalsOK

\* A station comes, or comes back: it backs the connect itself.
LEMMA AssociateKeeps ==
  ASSUME EnvOK, ArrivalsOK, NEW h \in Hap, NEW m \in MAC, Associate(h, m)
  PROVE  Kept /\ ArrivalsOK'
<1>1. /\ assoc \in [Hap -> SUBSET MAC] /\ unseen \in [Hap -> SUBSET MAC]
      /\ assoc' = [assoc EXCEPT ![h] = @ \union {m}]
  BY DEF EnvOK, Associate
<1>2. CASE attached[h]
  <2>1. /\ evq' = [evq EXCEPT ![h] = Append(@, Connect(m))]
        /\ unseen' = [unseen EXCEPT ![h] = @ \ {m}]
    BY <1>2 DEF Associate, Announce, Connect
  <2>2. Connect(m) \in Event
    BY EventType DEF Connect
  <2>3. \A g \in Hap, n \in MAC :
          n \in assoc[g] \/ n \in unseen[g] => n \in assoc'[g] \/ n \in unseen'[g]
    BY <1>1, <2>1
  <2>4. Kept
    BY <2>1, <2>2, <2>3, AppendKeeps DEF Kept, Backed
  <2>5. ASSUME NEW g \in Hap, NEW n \in MAC, NEW i \in 1..Len(evq'[g]), evq'[g][i] = Connect(n)
        PROVE  \/ n \in assoc'[g] \/ n \in unseen'[g]
               \/ \E j \in (i + 1)..Len(evq'[g]) : evq'[g][j] = Disconnect(n)
    <3>0. Len(evq[g]) \in Nat
      BY DEF EnvOK
    <3>1. CASE g = h /\ i = Len(evq[h]) + 1
      <4>1. n = m
        BY <2>1, <2>2, <2>5, <3>1, AppendKeeps DEF Connect
      <4> QED BY <1>1, <3>1, <4>1
    <3>2. CASE ~(g = h /\ i = Len(evq[h]) + 1)
      <4>1. i \in 1..Len(evq[g]) /\ evq[g][i] = Connect(n)
        BY <2>1, <2>2, <2>5, <3>0, <3>2, AppendKeeps
      <4>2. ASSUME NEW j \in (i + 1)..Len(evq[g]), evq[g][j] = Disconnect(n)
            PROVE  \E k \in (i + 1)..Len(evq'[g]) : evq'[g][k] = Disconnect(n)
        <5>1. j \in 1..Len(evq[g]) /\ j \in (i + 1)..Len(evq'[g])
          BY <2>1, <2>2, <3>0, <4>1, <4>2, AppendKeeps
        <5> QED BY <2>1, <2>2, <4>2, <5>1, AppendKeeps
      <4> QED BY <2>3, <4>1, <4>2 DEF ArrivalsOK
    <3> QED BY <3>1, <3>2
  <2>6. ArrivalsOK'
    BY <2>5 DEF ArrivalsOK
  <2> QED BY <2>4, <2>6
<1>3. CASE ~attached[h]
  <2>1. evq' = evq /\ unseen' = [unseen EXCEPT ![h] = @ \union {m}]
    BY <1>3 DEF Associate, Announce
  <2>2. \A g \in Hap, n \in MAC :
          /\ n \in assoc[g] => n \in assoc'[g]
          /\ n \in unseen[g] => n \in unseen'[g]
    BY <1>1, <2>1
  <2> QED BY <2>1, <2>2 DEF Kept, Backed, Leaving, ArrivalsOK
<1> QED
  BY <1>2, <1>3

\* A station leaves: its disconnect waits last, or nobody is told.
LEMMA DisassociateKeeps ==
  ASSUME EnvOK, ArrivalsOK, NEW h \in Hap, NEW m \in MAC, Disassociate(h, m)
  PROVE  Kept /\ ArrivalsOK'
<1>1. /\ assoc \in [Hap -> SUBSET MAC] /\ unseen \in [Hap -> SUBSET MAC]
      /\ assoc' = [assoc EXCEPT ![h] = @ \ {m}]
  BY DEF EnvOK, Disassociate
<1>2. CASE attached[h]
  <2>1. /\ evq' = [evq EXCEPT ![h] = Append(@, Disconnect(m))]
        /\ unseen' = [unseen EXCEPT ![h] = @ \ {m}]
    BY <1>2 DEF Disassociate, Announce, Disconnect
  <2>2. Disconnect(m) \in Event /\ Disconnect(m).kind # "connect"
    BY EventType DEF Disconnect
  <2>3. \A g \in Hap, n \in MAC : ~(g = h /\ n = m) =>
          (n \in assoc[g] \/ n \in unseen[g] => n \in assoc'[g] \/ n \in unseen'[g])
    BY <1>1, <2>1
  <2>4. Len(evq[h]) \in Nat
    BY DEF EnvOK
  <2>5. Len(evq[h]) + 1 = Len(evq'[h]) /\ evq'[h][Len(evq[h]) + 1] = Disconnect(m)
    <3>1. evq[h] \in Seq(Event) /\ evq'[h] = Append(evq[h], Disconnect(m))
      BY <2>1 DEF EnvOK
    <3> QED BY <2>2, <3>1
  <2>6. Leaving(h, m)'
    BY <2>4, <2>5 DEF Leaving, Disconnect
  <2>7. Kept
    BY <2>1, <2>2, <2>3, <2>6, AppendKeeps DEF Kept, Backed
  <2>8. ASSUME NEW g \in Hap, NEW n \in MAC, NEW i \in 1..Len(evq'[g]), evq'[g][i] = Connect(n)
        PROVE  \/ n \in assoc'[g] \/ n \in unseen'[g]
               \/ \E j \in (i + 1)..Len(evq'[g]) : evq'[g][j] = Disconnect(n)
    <3>1. CASE g = h /\ n = m
      <4>1. i # Len(evq[h]) + 1
        BY <2>5, <2>8, <3>1 DEF Connect, Disconnect
      <4>2. Len(evq[h]) + 1 \in (i + 1)..Len(evq'[g])
        BY <2>4, <2>5, <3>1, <4>1
      <4> QED BY <2>5, <3>1, <4>2
    <3>2. CASE ~(g = h /\ n = m)
      BY <2>1, <2>2, <2>3, <2>8, <3>2, AppendArrivals
    <3> QED BY <3>1, <3>2
  <2>9. ArrivalsOK'
    BY <2>8 DEF ArrivalsOK
  <2> QED BY <2>7, <2>9
<1>3. CASE ~attached[h]
  <2>1. evq' = evq /\ unseen' = [unseen EXCEPT ![h] = @ \union {m}]
    BY <1>3 DEF Disassociate, Announce
  <2>2. \A g \in Hap, n \in MAC :
          n \in assoc[g] \/ n \in unseen[g] => n \in assoc'[g] \/ n \in unseen'[g]
    BY <1>1, <2>1
  <2>3. Kept
    BY <2>1, <2>2 DEF Kept, Backed, Leaving
  <2>4. ArrivalsOK'
    BY <2>1, <2>2 DEF ArrivalsOK
  <2> QED BY <2>3, <2>4
<1> QED
  BY <1>2, <1>3

\* An event that is about no station.
LEMMA NoticeKeeps ==
  ASSUME EnvOK, ArrivalsOK, NEW h \in Hap, HostapdTerminates(h) \/ SendDetach(h)
  PROVE  Kept /\ ArrivalsOK'
<1>1. PICK e \in Event : e.kind # "connect" /\ evq' = [evq EXCEPT ![h] = Append(@, e)]
  BY EventType DEF HostapdTerminates, SendDetach
<1>2. assoc' = assoc /\ unseen' = unseen
  BY DEF HostapdTerminates, SendDetach
<1>3. Kept
  BY <1>1, <1>2, AppendKeeps DEF Kept, Backed
<1>4. ArrivalsOK'
  BY <1>1, <1>2, AppendArrivals DEF ArrivalsOK
<1> QED
  BY <1>3, <1>4

\* Reading an event takes away the backing of the station it disconnects only.
LEMMA ReceiveKeeps ==
  ASSUME EnvOK, ArrivalsOK, NEW h \in Hap, NEW kind, Receives(h, kind),
         UNCHANGED <<assoc, unseen>>
  PROVE  /\ \A g \in Hap, m \in MAC :
               Backed(g, m) => Backed(g, m)' \/ (g = h /\ Head(evq[h]) = Disconnect(m))
         /\ \A m \in MAC : Head(evq[h]) = Connect(m) => Backed(h, m)'
         /\ ArrivalsOK'
<1>1. evq \in [Hap -> Seq(Event)] /\ evq' = [evq EXCEPT ![h] = Tail(@)] /\ evq[h] # <<>>
  BY DEF EnvOK, Receives
<1>2. \A g \in Hap : g # h => evq'[g] = evq[g]
  BY <1>1
<1>3. /\ Len(evq[h]) \in Nat /\ Len(evq[h]) >= 1 /\ Head(evq[h]) = evq[h][1]
      /\ Len(evq'[h]) = Len(evq[h]) - 1
      /\ \A i \in 1..Len(evq'[h]) : evq'[h][i] = evq[h][i + 1]
  <2>1. evq[h] \in Seq(Event) /\ evq'[h] = Tail(evq[h])
    BY <1>1
  <2> QED BY <1>1, <2>1
<1>4. ASSUME NEW m \in MAC, NEW i \in 2..Len(evq[h])
      PROVE  i - 1 \in 1..Len(evq'[h]) /\ evq'[h][i - 1] = evq[h][i]
  BY <1>3
<1>5. ASSUME NEW g \in Hap, NEW m \in MAC, Backed(g, m), ~(g = h /\ Head(evq[h]) = Disconnect(m))
      PROVE  Backed(g, m)'
  <2>1. CASE m \in assoc[g] \/ m \in unseen[g]
    BY <2>1 DEF Backed
  <2>2. CASE Leaving(g, m)
    <3>1. PICK i \in 1..Len(evq[g]) : evq[g][i] = Disconnect(m)
      BY <2>2 DEF Leaving, Disconnect
    <3>2. CASE g = h
      <4>1. i # 1
        BY <1>3, <1>5, <3>1, <3>2
      <4>2. i \in 2..Len(evq[h])
        BY <1>3, <3>1, <3>2, <4>1
      <4> QED BY <1>4, <3>1, <3>2, <4>2 DEF Backed, Leaving, Disconnect
    <3>3. CASE g # h
      BY <1>2, <2>2, <3>3 DEF Backed, Leaving
    <3> QED BY <3>2, <3>3
  <2> QED BY <1>5, <2>1, <2>2 DEF Backed
<1>6. ASSUME NEW m \in MAC, Head(evq[h]) = Connect(m) PROVE Backed(h, m)'
  <2>1. CASE m \in assoc[h] \/ m \in unseen[h]
    BY <2>1 DEF Backed
  <2>2. ASSUME NEW j \in 2..Len(evq[h]), evq[h][j] = Disconnect(m) PROVE Backed(h, m)'
    BY <1>4, <2>2 DEF Backed, Leaving, Disconnect
  <2>3. 1 \in 1..Len(evq[h]) /\ evq[h][1] = Connect(m)
    BY <1>3, <1>6
  <2> QED BY <2>1, <2>2, <2>3 DEF ArrivalsOK
<1>7. ASSUME NEW g \in Hap, NEW m \in MAC, NEW i \in 1..Len(evq'[g]), evq'[g][i] = Connect(m)
      PROVE  \/ m \in assoc[g] \/ m \in unseen[g]
             \/ \E j \in (i + 1)..Len(evq'[g]) : evq'[g][j] = Disconnect(m)
  <2>1. CASE g = h
    <3>1. i + 1 \in 1..Len(evq[h]) /\ evq[h][i + 1] = Connect(m)
      BY <1>3, <1>7, <2>1
    <3>2. ASSUME NEW j \in (i + 2)..Len(evq[h]), evq[h][j] = Disconnect(m)
          PROVE  \E k \in (i + 1)..Len(evq'[g]) : evq'[g][k] = Disconnect(m)
      <4>1. j \in 2..Len(evq[h]) /\ j - 1 \in (i + 1)..Len(evq'[g])
        BY <1>3, <2>1, <3>1
      <4> QED BY <1>4, <2>1, <3>2, <4>1
    <3>3. (i + 1) + 1 = i + 2
      OBVIOUS
    <3> QED BY <2>1, <3>1, <3>2, <3>3 DEF ArrivalsOK
  <2>2. CASE g # h
    BY <1>2, <1>7, <2>2 DEF ArrivalsOK
  <2> QED BY <2>1, <2>2
<1>8. ArrivalsOK'
  BY <1>7 DEF ArrivalsOK
<1> QED
  BY <1>5, <1>6, <1>8

------------------------------------------------------------------------------
(* What a step must leave alone to keep each part.                         *)

LEMMA BeliefKept ==
  ASSUME BeliefOK, Kept,
         \A m \in MAC : Connected(m)' =>
             Connected(m) /\ stations'[m].bssid = stations[m].bssid
  PROVE  BeliefOK'
<1>1. ASSUME NEW m \in MAC, Connected(m)'
      PROVE  stations'[m].bssid \in Hap /\ Backed(stations[m].bssid, m)'
  <2>1. PICK h \in Hap : h = stations[m].bssid /\ Backed(h, m)
    BY <1>1 DEF BeliefOK
  <2>2. stations'[m].bssid = h
    BY <1>1, <2>1
  <2>3. Backed(h, m)'
    BY <2>1 DEF Kept
  <2> QED BY <2>2, <2>3 DEF Backed, Leaving
<1> QED
  BY <1>1 DEF BeliefOK

LEMMA ListingKept ==
  ASSUME ConfOK, ListingOK, Kept,
         \A m \in MAC : conf'.listed[m] # None =>
             /\ conf'.listed[m] = conf.listed[m]
             /\ conf'.pc \in LockedStep \ {"diff"}
             /\ conf'.pc = "list" => conf.pc = "list" /\ conf'.i = conf.i
  PROVE  ListingOK'
<1>1. ASSUME NEW m \in MAC, conf'.listed[m] # None
      PROVE  Backed(conf.listed[m], m)'
  <2>1. PICK h \in Hap : h = conf.listed[m] /\ Backed(h, m)
    BY <1>1 DEF ListingOK, ConfOK, ConfState
  <2>2. conf'.listed[m] = h /\ Backed(h, m)'
    BY <1>1, <2>1 DEF Kept
  <2> QED BY <2>2 DEF Backed, Leaving
<1> QED
  BY <1>1 DEF ListingOK

\* Steps that neither read nor fill a socket, and leave the stations and the
\* configuration's goroutine alone.
LEMMA QuietKeeps ==
  ASSUME TypeInv, BeliefInv, UNCHANGED <<assoc, evq, unseen, stations, conf>>,
         \A h \in Hap : hap'[h].pc = "attach" =>
             hap[h].pc = "attach" /\ (attached'[h] => attached[h])
  PROVE  BeliefInv'
<1>1. Kept /\ ArrivalsOK'
  BY SameKeeps DEF BeliefInv
<1>2. BeliefOK'
  BY <1>1, BeliefKept DEF BeliefInv, Connected, Tracked
<1>3. ListingOK'
  BY <1>1, ListingKept DEF BeliefInv, ListingOK, TypeInv, TypeOK
<1>4. SilenceOK' /\ AddedOK'
  BY DEF BeliefInv, SilenceOK, AddedOK, Connected, Tracked
<1> QED
  BY <1>1, <1>2, <1>3, <1>4 DEF BeliefInv

\* Steps of the configuration's goroutine but the listing.
LEMMA ConfKeeps ==
  ASSUME TypeInv, BeliefInv, UNCHANGED <<env, hap>>,
         \A m \in MAC : Connected(m)' =>
             Connected(m) /\ stations'[m].bssid = stations[m].bssid,
         \A m \in MAC : conf'.listed[m] # None =>
             /\ conf'.listed[m] = conf.listed[m]
             /\ conf'.pc \in LockedStep \ {"diff"}
             /\ conf'.pc = "list" => conf.pc = "list" /\ conf'.i = conf.i,
         AddedOK'
  PROVE  BeliefInv'
<1>1. Kept /\ ArrivalsOK'
  BY SameKeeps DEF BeliefInv, env
<1>2. BeliefOK'
  BY <1>1, BeliefKept DEF BeliefInv
<1>3. ListingOK'
  BY <1>1, ListingKept DEF BeliefInv, TypeInv, TypeOK
<1>4. SilenceOK'
  BY DEF BeliefInv, SilenceOK, env
<1> QED
  BY <1>1, <1>2, <1>3, <1>4 DEF BeliefInv

------------------------------------------------------------------------------
(* One lemma per goroutine, one step per action.                           *)

LEMMA InitBelief == Init => BeliefInv
<1> SUFFICES ASSUME Init PROVE BeliefInv
  OBVIOUS
<1>1. BeliefOK /\ AddedOK
  BY DEF Init, BeliefOK, AddedOK, Connected, Tracked, Nowhere
<1>2. ArrivalsOK /\ SilenceOK
  BY DEF Init, ArrivalsOK, SilenceOK, Reading
<1>3. ListingOK
  BY WaitingType DEF Init, ListingOK
<1> QED
  BY <1>1, <1>2, <1>3 DEF BeliefInv

LEMMA EnvNextBelief == TypeInv /\ BeliefInv /\ EnvNext => BeliefInv'
<1> SUFFICES ASSUME TypeInv, BeliefInv, EnvNext PROVE BeliefInv'
  OBVIOUS
<1>1. ASSUME NEW h \in Hap,
             \/ \E m \in MAC : Associate(h, m) \/ Disassociate(h, m)
             \/ HostapdTerminates(h)
      PROVE  BeliefInv'
  <2>1. Kept /\ ArrivalsOK'
    BY <1>1, AssociateKeeps, DisassociateKeeps, NoticeKeeps DEF TypeInv, TypeOK, BeliefInv
  <2>2. UNCHANGED <<stations, hap, conf>>
    BY <1>1 DEF Associate, Disassociate, HostapdTerminates
  <2>3. BeliefOK' /\ ListingOK' /\ AddedOK'
    BY <2>1, <2>2, BeliefKept, ListingKept
    DEF BeliefInv, TypeInv, TypeOK, ListingOK, AddedOK, Connected, Tracked
  <2>4. ASSUME NEW g \in Hap, hap[g].pc = "attach"
        PROVE  evq'[g] = <<>> /\ ~attached'[g]
    <3>1. evq[g] = <<>> /\ ~attached[g]
      BY <2>4 DEF BeliefInv, SilenceOK
    <3>2. evq'[g] = evq[g] /\ attached'[g] = attached[g]
      BY <1>1, <3>1 DEF TypeInv, TypeOK, EnvOK, Associate, Disassociate, Announce,
                        HostapdTerminates
    <3> QED BY <3>1, <3>2
  <2>5. SilenceOK'
    BY <2>2, <2>4 DEF SilenceOK
  <2> QED BY <2>1, <2>3, <2>5 DEF BeliefInv
<1>2. ASSUME NEW c \in Config, Receive(c) PROVE BeliefInv'
  <2>1. conf' = [Waiting("diff") EXCEPT !.cfg = c] /\ UNCHANGED <<env, hap, stations>>
    BY <1>2 DEF Receive
  <2>2. /\ conf'.listed = Waiting("diff").listed
        /\ conf'.change = Waiting("diff").change
    BY <2>1, WaitingType DEF ConfState
  <2>3. \A m \in MAC : conf'.listed[m] = None /\ conf'.change[m] = "none"
    BY <2>2, WaitingType
  <2> QED BY <2>1, <2>3, ConfKeeps DEF AddedOK, Connected, Tracked
<1>3. CASE Stop
  BY <1>3, QuietKeeps DEF Stop, env
<1> QED
  BY <1>1, <1>2, <1>3 DEF EnvNext

LEMMA HapNextBelief ==
  ASSUME TypeInv, BeliefInv, NEW h \in Hap, HapNext(h) \/ SendDetach(h)
  PROVE  BeliefInv'
<1> USE DEF TypeInv, TypeOK, BeliefInv
<1>1. CASE Attach(h) \/ HapCancel(h) \/ HapHome(h) \/ HapAttrs(h) \/ HapEnqueue(h)
           \/ ReadTimeout(h)
  <2>1. UNCHANGED <<assoc, evq, unseen, stations, conf>>
    BY <1>1 DEF Attach, HapCancel, HapHome, HapAttrs, HapEnqueue, ReadTimeout, env
  <2>2. /\ hap \in [Hap -> HapState] /\ attached \in [Hap -> BOOLEAN]
        /\ \/ Returns(h) \/ Stops(h)
           \/ \E step \in {"home", "attrs"} : Enters(h, step)
        /\ \A g \in Hap : g # h => attached'[g] = attached[g]
    BY <1>1 DEF HapOK, EnvOK, env, Attach, HapCancel, HapHome, HapAttrs, HapEnqueue,
                ReadTimeout, Stops
  <2>3. \A g \in Hap : hap'[g].pc = "attach" => g # h /\ hap[g].pc = "attach"
    BY <2>2 DEF HapState, Returns, Stops, Enters, Reading, Stopped
  <2> QED BY <2>1, <2>2, <2>3, QuietKeeps
<1>2. CASE HandleConnect(h)
  <2> DEFINE e == Head(evq[h])
  <2>1. PICK m \in MAC : e = Connect(m)
    BY <1>2, ReceivesType DEF HandleConnect, Receives, Event, Connect
  <2>2. /\ \A g \in Hap, n \in MAC : Backed(g, n) => Backed(g, n)'
        /\ Backed(h, m)' /\ ArrivalsOK'
    <3>1. Receives(h, "connect") /\ UNCHANGED <<assoc, unseen>>
      BY <1>2 DEF HandleConnect
    <3>2. \A n \in MAC : e # Disconnect(n)
      BY <2>1 DEF Connect, Disconnect
    <3> QED BY <2>1, <3>1, <3>2, ReceiveKeeps
  <2>3. Kept
    BY <2>2 DEF Kept
  <2>4. e.mac = m
    BY <2>1 DEF Connect
  <2>5. BeliefOK'
    <3>1. CASE Tracked(m)
      <4>1. stations' = [stations EXCEPT ![m].connected = TRUE, ![m].bssid = h]
        BY <1>2, <2>4, <3>1 DEF HandleConnect
      <4>2. /\ stations'[m].bssid = h
            /\ \A n \in MAC : n # m => stations'[n] = stations[n]
        BY <3>1, <4>1 DEF StationsOK, Station, Tracked
      <4>3. ASSUME NEW n \in MAC, Connected(n)'
            PROVE  stations'[n].bssid \in Hap /\ Backed(stations[n].bssid, n)'
        <5>1. CASE n = m
          BY <2>2, <4>2, <5>1 DEF Backed, Leaving
        <5>2. CASE n # m
          <6>1. Connected(n)
            BY <4>2, <4>3, <5>2 DEF Connected, Tracked
          <6>2. PICK g \in Hap : g = stations[n].bssid /\ Backed(g, n)
            BY <6>1 DEF BeliefOK
          <6>3. stations'[n].bssid = g /\ Backed(g, n)'
            BY <2>2, <4>2, <5>2, <6>2
          <6> QED BY <6>3 DEF Backed, Leaving
        <5> QED BY <5>1, <5>2
      <4> QED BY <4>3 DEF BeliefOK
    <3>2. CASE ~Tracked(m)
      <4>1. stations' = stations
        BY <1>2, <2>4, <3>2 DEF HandleConnect
      <4> QED BY <2>3, <4>1, BeliefKept DEF Connected, Tracked
    <3> QED BY <3>1, <3>2
  <2>6. conf' = conf /\ conf.pc \notin LockedStep
    BY <1>2 DEF HandleConnect, Unlocked
  <2>7. ListingOK' /\ AddedOK'
    BY <2>6 DEF ListingOK, AddedOK, LockedStep
  <2>8. SilenceOK'
    <3>1. UNCHANGED attached /\ \A g \in Hap : g # h => evq'[g] = evq[g] /\ hap'[g] = hap[g]
      BY <1>2 DEF HandleConnect, Receives, EnvOK, HapOK
    <3>2. hap'[h].pc # "attach"
      BY <1>2 DEF HandleConnect, Receives, HapOK
    <3> QED BY <3>1, <3>2 DEF SilenceOK
  <2> QED BY <2>2, <2>5, <2>7, <2>8
<1>3. CASE HandleDisconnect(h)
  <2> DEFINE e == Head(evq[h])
  <2>1. PICK m \in MAC : e = Disconnect(m)
    BY <1>3, ReceivesType DEF HandleDisconnect, Receives, Event, Disconnect
  <2>2. /\ \A g \in Hap, n \in MAC : ~(g = h /\ n = m) => (Backed(g, n) => Backed(g, n)')
        /\ ArrivalsOK'
    <3>1. Receives(h, "disconnect") /\ UNCHANGED <<assoc, unseen>>
      BY <1>3 DEF HandleDisconnect
    <3>2. \A n \in MAC : n # m => e # Disconnect(n)
      BY <2>1 DEF Disconnect
    <3> QED BY <3>1, <3>2, ReceiveKeeps
  <2>3. e.mac = m
    BY <2>1 DEF Disconnect
  <2>4. /\ \A n \in MAC : n # m => stations'[n] = stations[n]
        /\ Connected(m)' => Connected(m) /\ stations'[m] = stations[m] /\ stations[m].bssid # h
    <3>1. CASE Tracked(m) /\ (Connected(m) => stations[m].bssid = h)
      <4>1. stations' = [stations EXCEPT ![m].connected = FALSE]
        BY <1>3, <2>3, <3>1 DEF HandleDisconnect
      <4> QED BY <3>1, <4>1 DEF StationsOK, Station, Connected, Tracked
    <3>2. CASE ~(Tracked(m) /\ (Connected(m) => stations[m].bssid = h))
      <4>1. stations' = stations
        BY <1>3, <2>3, <3>2 DEF HandleDisconnect
      <4> QED BY <3>2, <4>1 DEF Connected, Tracked
    <3> QED BY <3>1, <3>2
  <2>5. BeliefOK'
    <3>1. ASSUME NEW n \in MAC, Connected(n)'
          PROVE  stations'[n].bssid \in Hap /\ Backed(stations[n].bssid, n)'
      <4>1. Connected(n) /\ stations'[n] = stations[n] /\ ~(n = m /\ stations[n].bssid = h)
        BY <2>4, <3>1 DEF Connected, Tracked
      <4>2. PICK g \in Hap : g = stations[n].bssid /\ Backed(g, n)
        BY <4>1 DEF BeliefOK
      <4>3. stations'[n].bssid = g /\ Backed(g, n)'
        BY <2>2, <4>1, <4>2
      <4> QED BY <4>3 DEF Backed, Leaving
    <3> QED BY <3>1 DEF BeliefOK
  <2>6. conf' = conf /\ conf.pc \notin LockedStep
    BY <1>3 DEF HandleDisconnect, Unlocked
  <2>7. ListingOK' /\ AddedOK'
    BY <2>6 DEF ListingOK, AddedOK, LockedStep
  <2>8. SilenceOK'
    <3>1. UNCHANGED attached /\ \A g \in Hap : g # h => evq'[g] = evq[g] /\ hap'[g] = hap[g]
      BY <1>3 DEF HandleDisconnect, Receives, EnvOK, HapOK
    <3>2. hap'[h].pc # "attach"
      BY <1>3 DEF HandleDisconnect, Receives, HapOK
    <3> QED BY <3>1, <3>2 DEF SilenceOK
  <2> QED BY <2>2, <2>5, <2>7, <2>8
<1>4. CASE HandleTerminating(h) \/ HandleDetached(h)
  <2>1. PICK kind \in {"terminating", "detached"} : Receives(h, kind)
    BY <1>4 DEF HandleTerminating, HandleDetached
  <2>2. \A m \in MAC : Head(evq[h]) # Disconnect(m)
    BY <2>1 DEF Receives, Disconnect
  <2>3. UNCHANGED <<assoc, unseen, stations, conf>> /\ Stops(h)
    BY <1>4 DEF HandleTerminating, HandleDetached
  <2>4. Kept /\ ArrivalsOK'
    BY <2>1, <2>2, <2>3, ReceiveKeeps DEF Kept
  <2>5. BeliefOK' /\ ListingOK' /\ AddedOK'
    BY <2>3, <2>4, BeliefKept, ListingKept DEF ListingOK, AddedOK, Connected, Tracked
  <2>6. SilenceOK'
    <3>1. \A g \in Hap : g # h =>
            evq'[g] = evq[g] /\ hap'[g] = hap[g] /\ attached'[g] = attached[g]
      BY <2>1, <2>3 DEF Stops, Receives, EnvOK, HapOK
    <3>2. hap'[h].pc # "attach"
      BY <2>3 DEF Stops, Stopped, HapOK
    <3> QED BY <3>1, <3>2 DEF SilenceOK
  <2> QED BY <2>4, <2>5, <2>6
<1>5. CASE SendDetach(h)
  <2>1. Kept /\ ArrivalsOK' /\ UNCHANGED <<stations, hap, conf>>
    BY <1>5, NoticeKeeps DEF SendDetach
  <2>2. BeliefOK' /\ ListingOK' /\ AddedOK'
    BY <2>1, BeliefKept, ListingKept DEF ListingOK, AddedOK, Connected, Tracked
  <2>3. SilenceOK'
    <3>1. \A g \in Hap : g # h => evq'[g] = evq[g] /\ attached'[g] = attached[g]
      BY <1>5 DEF SendDetach, EnvOK
    <3>2. hap[h].pc # "attach"
      BY <1>5 DEF SendDetach, SilenceOK
    <3> QED BY <2>1, <3>1, <3>2 DEF SilenceOK
  <2> QED BY <2>1, <2>2, <2>3
<1> QED
  BY <1>1, <1>2, <1>3, <1>4, <1>5 DEF HapNext

LEMMA CbNextBelief ==
  ASSUME TypeInv, BeliefInv, NEW t \in Timer, CbNext(t)
  PROVE  BeliefInv'
<1>1. UNCHANGED <<assoc, evq, unseen, attached, stations, hap, conf>>
  BY DEF CbNext, Fire, Begin, Skip, CbNotHome, CbRead, CbAttrs, CbReport, env
<1> QED
  BY <1>1, QuietKeeps

LEMMA RunNextBelief == TypeInv /\ BeliefInv /\ RunNext => BeliefInv'
<1> SUFFICES ASSUME TypeInv, BeliefInv, RunNext PROVE BeliefInv'
  OBVIOUS
<1>1. CASE Watch \/ SubscribeReturns
  <2>1. UNCHANGED <<assoc, evq, unseen, attached, stations, hap, conf>>
    BY <1>1 DEF Watch, SubscribeReturns, env
  <2> QED BY <2>1, QuietKeeps
<1>2. CASE \E h \in Hap : SendDetach(h)
  BY <1>2, HapNextBelief
<1> QED
  BY <1>1, <1>2 DEF RunNext

\* A listing: what happened to new devices before the radio was attached is
\* forgotten, nothing about it waits, and nobody believes anything of them yet.
LEMMA ListRadioBelief == TypeInv /\ BeliefInv /\ NewsOK /\ ListRadio => BeliefInv'
<1> SUFFICES ASSUME TypeInv, BeliefInv, NewsOK, ListRadio PROVE BeliefInv'
  OBVIOUS
<1> USE DEF TypeInv, TypeOK, BeliefInv
<1>1. /\ UNCHANGED <<assoc, evq, attached, stations, hap>>
      /\ conf.pc = "list" /\ conf.i \in Nat \ {0} /\ conf.i <= Len(HapOrder)
  BY DEF ListRadio, ConfOK, ConfState
<1>2. PICK h \in Hap : h = HapOrder[conf.i]
  BY <1>1, HapOrderAssumption
<1>3. \A k \in 1..Len(HapOrder) : k < conf.i => HapOrder[k] # h
  <2>1. conf.i \in 1..Len(HapOrder)
    BY <1>1, HapOrderAssumption
  <2>2. \A k \in 1..Len(HapOrder) : HapOrder[k] = HapOrder[conf.i] => k = conf.i
    BY <2>1, HapOrderAssumption
  <2>3. \A k \in 1..Len(HapOrder) : k < conf.i => k # conf.i
    BY <1>1
  <2> QED BY <1>2, <2>2, <2>3
<1> DEFINE added == {m \in MAC : conf.change[m] = "added"}
<1>4. \/ unseen' = unseen
      \/ Listens(h) /\ unseen' = [unseen EXCEPT ![h] = @ \ added]
  BY <1>2 DEF ListRadio
<1>5. \A g \in Hap, m \in MAC :
        Backed(g, m) => Backed(g, m)' \/ (g = h /\ conf.change[m] = "added")
  BY <1>1, <1>4 DEF EnvOK, Backed, Leaving
<1>6. ArrivalsOK'
  <2>1. ASSUME NEW g \in Hap, NEW m \in MAC, m \in unseen[g], m \notin unseen'[g],
               NEW i \in 1..Len(evq[g])
        PROVE  evq[g][i].mac # m
    <3>1. Listens(g)
      BY <1>4, <2>1 DEF EnvOK
    <3>2. evq[g] # <<>>
      BY <2>1 DEF EnvOK
    <3>3. attached[g]
      BY <3>1, <3>2 DEF Listens, SilenceOK
    <3> QED BY <2>1, <3>3 DEF NewsOK
  <2>2. evq' = evq /\ assoc' = assoc
    BY <1>1
  <2>3. ASSUME NEW g \in Hap, NEW m \in MAC, NEW i \in 1..Len(evq[g]), evq[g][i] = Connect(m)
        PROVE  \/ m \in assoc[g] \/ m \in unseen'[g]
               \/ \E j \in (i + 1)..Len(evq[g]) : evq[g][j] = Disconnect(m)
    <3>1. m \in unseen[g] => m \in unseen'[g]
      BY <2>1, <2>3 DEF Connect
    <3> QED BY <2>3, <3>1 DEF ArrivalsOK
  <2> QED BY <2>2, <2>3 DEF ArrivalsOK
<1>7. BeliefOK'
  <2>1. ASSUME NEW m \in MAC, Connected(m)
        PROVE  stations[m].bssid \in Hap /\ Backed(stations[m].bssid, m)'
    <3>1. conf.change[m] # "added"
      BY <1>1, <2>1 DEF AddedOK
    <3>2. PICK g \in Hap : g = stations[m].bssid /\ Backed(g, m)
      BY <2>1 DEF BeliefOK
    <3>3. stations'[m].bssid = g /\ Backed(g, m)'
      BY <1>1, <1>5, <3>1, <3>2
    <3> QED BY <1>1, <3>2, <3>3 DEF Backed, Leaving
  <2> QED BY <1>1, <2>1 DEF BeliefOK, Connected, Tracked
<1>8. SilenceOK'
  BY <1>1 DEF SilenceOK
<1>9. CASE \E seen \in Listings(h) : conf' = [conf EXCEPT !.i = @ + 1,
                !.listed = [m \in MAC |-> IF m \in seen THEN h ELSE @[m]]]
  <2>1. PICK seen \in SUBSET assoc[h] : conf' = [conf EXCEPT !.i = @ + 1,
                !.listed = [m \in MAC |-> IF m \in seen THEN h ELSE @[m]]]
    BY <1>9 DEF Listings
  <2>2. /\ conf'.i = conf.i + 1 /\ conf'.pc = "list" /\ conf'.change = conf.change
        /\ \A m \in MAC : conf'.listed[m] = IF m \in seen THEN h ELSE conf.listed[m]
    BY <1>1, <2>1 DEF ConfOK, ConfState
  <2>3. AddedOK'
    BY <1>1, <2>2 DEF AddedOK, Connected, Tracked
  <2>4. ASSUME NEW m \in MAC, conf'.listed[m] # None
        PROVE  /\ Backed(conf.listed[m], m)'
               /\ \E k \in 1..Len(HapOrder) : k < conf'.i /\ HapOrder[k] = conf'.listed[m]
    <3>1. CASE m \in seen
      <4>1. conf'.listed[m] = h /\ m \in assoc'[h]
        BY <1>1, <2>1, <2>2, <3>1
      <4>2. conf.i \in 1..Len(HapOrder) /\ conf.i < conf'.i
        BY <1>1, <2>2, HapOrderAssumption
      <4> QED BY <1>2, <4>1, <4>2 DEF Backed
    <3>2. CASE m \notin seen
      <4>1. conf.listed[m] # None /\ conf'.listed[m] = conf.listed[m]
        BY <2>2, <2>4, <3>2
      <4>2. PICK k \in 1..Len(HapOrder) : k < conf.i /\ HapOrder[k] = conf.listed[m]
        BY <1>1, <4>1 DEF ListingOK
      <4>3. PICK g \in Hap : g = conf.listed[m] /\ g # h /\ Backed(g, m)
        BY <1>3, <4>1, <4>2 DEF ListingOK, ConfOK, ConfState
      <4>4. conf'.listed[m] = g /\ Backed(g, m)'
        BY <1>5, <4>1, <4>3
      <4>5. k < conf'.i
        <5>1. k \in Nat /\ conf.i \in Nat /\ conf'.i = conf.i + 1
          BY <1>1, <2>2, <4>2
        <5> QED BY <4>2, <5>1
      <4> QED BY <4>1, <4>2, <4>4, <4>5 DEF Backed, Leaving
    <3> QED BY <3>1, <3>2
  <2>5. ListingOK'
    BY <2>2, <2>4 DEF ListingOK, LockedStep
  <2> QED BY <1>6, <1>7, <1>8, <2>3, <2>5
<1>10. CASE conf' = [conf EXCEPT !.pc = "apply", !.i = 1, !.listed = Nowhere]
            \/ conf' = Waiting("report")
  <2>1. /\ conf'.pc \notin {"diff", "list"}
        /\ \A m \in MAC : conf'.listed[m] = None
    <3>1. CASE conf' = Waiting("report")
      BY <3>1, WaitingType
    <3>2. CASE conf' = [conf EXCEPT !.pc = "apply", !.i = 1, !.listed = Nowhere]
      BY <3>2 DEF ConfOK, ConfState, Nowhere
    <3> QED BY <1>10, <3>1, <3>2
  <2>2. ListingOK' /\ AddedOK'
    BY <2>1 DEF ListingOK, AddedOK
  <2> QED BY <1>6, <1>7, <1>8, <2>2
<1>11. \/ \E seen \in Listings(h) : conf' = [conf EXCEPT !.i = @ + 1,
                !.listed = [m \in MAC |-> IF m \in seen THEN h ELSE @[m]]]
       \/ conf' = [conf EXCEPT !.pc = "apply", !.i = 1, !.listed = Nowhere]
       \/ conf' = Waiting("report")
  <2> HIDE DEF TypeInv, TypeOK, BeliefInv
  <2> QED BY <1>2 DEF ListRadio, ConfFails
<1> QED
  BY ONLY <1>9, <1>10, <1>11

\* onConfigChange goes on to a later step with the same listing.
GoesOn == \E step \in LockedStep \ {"diff", "list"} : \E i, change, mac :
    conf' = [conf EXCEPT !.pc = step, !.i = i, !.change = change, !.mac = mac]

LEMMA ConfNextBelief == TypeInv /\ BeliefInv /\ NewsOK /\ ConfNext => BeliefInv'
<1> SUFFICES ASSUME TypeInv, BeliefInv, NewsOK, ConfNext PROVE BeliefInv'
  OBVIOUS
<1> USE DEF TypeInv, TypeOK, BeliefInv
<1>w. ASSUME NEW step \in {"idle", "report"}, conf' = Waiting(step)
      PROVE  (\A m \in MAC : conf'.listed[m] = None) /\ AddedOK'
  BY <1>w, WaitingType DEF AddedOK
<1>1. CASE DiffDevice
  <2> DEFINE d == conf.cfg[conf.i]
  <2>1. UNCHANGED <<env, hap>> /\ conf.pc = "diff"
    BY <1>1 DEF DiffDevice
  <2>2. \A m \in MAC : conf.listed[m] = None
    BY <2>1 DEF ListingOK
  <2>3. CASE d.mac = None
    BY <1>1, <1>w, <2>1, <2>3, ConfKeeps DEF DiffDevice, ConfFails, Connected, Tracked
  <2>4. CASE d.mac # None
    <3>1. d \in Device
      BY <1>1, ConfigAssumption DEF DiffDevice, ConfOK, ConfState
    <3>2. PICK m \in MAC : d.mac = m
      BY <2>4, <3>1 DEF Device
    <3>3. PICK c, b, n :
            /\ conf' = [conf EXCEPT !.i = @ + 1, !.change[m] = c, !.update = b]
            /\ c = "added" => ~Tracked(m)
            /\ stations' = [stations EXCEPT ![m] =
                  IF Tracked(m) THEN [@ EXCEPT !.name = n]
                  ELSE [name |-> n, connected |-> FALSE, bssid |-> None]]
      <4>1. ChangeOf(d) = "added" => ~Tracked(m)
        BY <3>2 DEF ChangeOf
      <4>2. /\ conf' = [conf EXCEPT !.i = @ + 1, !.change[m] = ChangeOf(d),
                                   !.update = @ \/ ChangeOf(d) # "nochange"]
            /\ stations' = [stations EXCEPT ![m] =
                  IF Tracked(m) THEN [@ EXCEPT !.name = d.name]
                  ELSE [name |-> d.name, connected |-> FALSE, bssid |-> None]]
        BY <1>1, <2>4, <3>2 DEF DiffDevice
      <4> QED BY <4>1, <4>2
    <3> HIDE DEF d
    <3>4. /\ \A k \in MAC : k # m => stations'[k] = stations[k]
          /\ Connected(m)' => Connected(m) /\ stations'[m].bssid = stations[m].bssid
          /\ ~Tracked(m) => ~Connected(m)'
      BY <3>3 DEF StationsOK, Station, Connected, Tracked
    <3>5. /\ conf'.pc = "diff" /\ conf'.listed = conf.listed
          /\ \A k \in MAC : conf'.change[k] = IF k = m THEN c ELSE conf.change[k]
      BY <2>1, <3>3 DEF ConfOK, ConfState
    <3>6. AddedOK'
      BY <2>1, <3>3, <3>4, <3>5 DEF AddedOK, Connected, Tracked
    <3> QED BY <2>1, <2>2, <3>4, <3>5, <3>6, ConfKeeps DEF Connected, Tracked
  <2> QED BY <2>3, <2>4
<1>2. CASE DiffRemoved
  <2> DEFINE gone == {m \in MAC : Tracked(m) /\ conf.change[m] = "none"}
  <2>1. UNCHANGED <<env, hap>> /\ conf.pc = "diff"
    BY <1>2 DEF DiffRemoved
  <2>2. \A m \in MAC : conf.listed[m] = None
    BY <2>1 DEF ListingOK
  <2>3. stations' = [m \in MAC |-> IF m \in gone THEN None ELSE stations[m]]
    BY <1>2 DEF DiffRemoved
  <2>4. \A m \in MAC : Connected(m)' => Connected(m) /\ stations'[m].bssid = stations[m].bssid
    BY <2>3 DEF Connected, Tracked
  <2>5. CASE conf' = Waiting("idle")
    BY <1>w, <2>1, <2>4, <2>5, ConfKeeps
  <2>6. CASE conf' # Waiting("idle")
    <3>1. conf' = [conf EXCEPT
                    !.pc = IF conf.update THEN "list" ELSE "apply",
                    !.cfg = <<>>,
                    !.i = 1,
                    !.change = [m \in MAC |-> IF m \in gone THEN "removed" ELSE @[m]]]
      BY <1>2, <2>6 DEF DiffRemoved
    <3>2. /\ conf'.listed = conf.listed
          /\ \A m \in MAC : conf'.change[m] = "added" => conf.change[m] = "added"
      BY <3>1 DEF ConfOK, ConfState
    <3>3. AddedOK'
      BY <2>1, <2>4, <3>2 DEF AddedOK
    <3> QED BY <2>1, <2>2, <2>4, <3>2, <3>3, ConfKeeps
  <2> QED BY <2>5, <2>6
<1>3. CASE ListRadio
  BY <1>3, ListRadioBelief
<1>4. ASSUME UNCHANGED <<env, stations, hap>>, conf.pc \in LockedStep \ {"diff"},
             GoesOn \/ \E step \in {"idle", "report"} : conf' = Waiting(step)
      PROVE  BeliefInv'
  <2>1. CASE \E step \in {"idle", "report"} : conf' = Waiting(step)
    BY <1>4, <1>w, <2>1, ConfKeeps DEF Connected, Tracked
  <2>2. ASSUME NEW step \in LockedStep \ {"diff", "list"}, NEW i, NEW change, NEW mac,
               conf' = [conf EXCEPT !.pc = step, !.i = i, !.change = change, !.mac = mac]
        PROVE  BeliefInv'
    <3>1. conf'.pc = step /\ conf'.listed = conf.listed
      BY <2>2 DEF ConfOK, ConfState
    <3>2. AddedOK'
      BY <3>1 DEF AddedOK
    <3> QED BY <1>4, <3>1, <3>2, ConfKeeps DEF Connected, Tracked
  <2> QED BY <1>4, <2>1, <2>2 DEF GoesOn
<1>5. ASSUME NEW m, Settles(m) PROVE GoesOn
  <2>1. conf' = [conf EXCEPT !.pc = "apply", !.i = conf.i,
                             !.change = [conf.change EXCEPT ![m] = "none"], !.mac = None]
    BY <1>5 DEF Settles, ConfOK, ConfState
  <2> QED BY <2>1 DEF GoesOn, LockedStep
<1>6. ASSUME NEW m, NEW step \in LockedStep \ {"diff", "list"}, Proceeds(m, step)
      PROVE  GoesOn
  <2>1. conf' = [conf EXCEPT !.pc = step, !.i = conf.i, !.change = conf.change, !.mac = m]
    BY <1>6 DEF Proceeds, ConfOK, ConfState
  <2> QED BY <2>1 DEF GoesOn
<1>7. CASE ListDone
  <2>1. conf' = [conf EXCEPT !.pc = "apply", !.i = 1, !.change = conf.change, !.mac = conf.mac]
    BY <1>7 DEF ListDone, ConfOK, ConfState
  <2>2. GoesOn
    BY <2>1 DEF GoesOn, LockedStep
  <2> QED BY <1>4, <1>7, <2>2 DEF ListDone, LockedStep
<1>8. ASSUME NEW m \in MAC,
             ApplyNoChange(m) \/ ApplyUpdated(m) \/ ApplyAdded(m) \/ ApplyRemoved(m)
      PROVE  BeliefInv'
  <2>1. Settles(m) \/ \E step \in LockedStep \ {"diff", "list"} : Proceeds(m, step)
    BY <1>8 DEF ApplyNoChange, ApplyUpdated, ApplyAdded, ApplyRemoved, LockedStep
  <2>2. UNCHANGED <<env, stations, hap>> /\ conf.pc = "apply"
    BY <1>8 DEF ApplyNoChange, ApplyUpdated, ApplyAdded, ApplyRemoved
  <2> QED BY <1>4, <1>5, <1>6, <2>1, <2>2 DEF LockedStep
<1>9. CASE Applied \/ Register \/ ConfNotHome \/ ConfHome \/ ConfAttrs \/ Unregister
  <2>1. \/ Settles(conf.mac) \/ Proceeds(conf.mac, "mark") \/ Proceeds(conf.mac, "attrs")
        \/ conf' = Waiting("idle") \/ conf' = Waiting("report")
    BY <1>9 DEF Applied, Register, ConfNotHome, ConfHome, ConfAttrs, Unregister, ConfFails
  <2>2. UNCHANGED <<env, stations, hap>> /\ conf.pc \in LockedStep \ {"diff"}
    BY <1>9 DEF Applied, Register, ConfNotHome, ConfHome, ConfAttrs, Unregister, LockedStep
  <2> QED BY <1>4, <1>5, <1>6, <2>1, <2>2 DEF LockedStep
<1>10. CASE ReportConf
  <2>1. UNCHANGED <<env, stations, hap>> /\ conf' = Waiting("idle")
    BY <1>10 DEF ReportConf
  <2> QED BY <1>w, <2>1, ConfKeeps DEF Connected, Tracked
<1>11. CASE Mark
  <2>1. PICK m \in MAC : m = conf.mac
    BY <1>11 DEF Mark, ConfOK, LockedStep
  <2>2. Tracked(m)
    BY <1>11, <2>1 DEF Mark, ConfOK, ChangeIsTracked
  <2>3. UNCHANGED <<env, hap>> /\ conf.pc = "mark"
    BY <1>11 DEF Mark
  <2>4. Kept /\ ArrivalsOK'
    BY <2>3, SameKeeps DEF env
  <2>5. /\ conf'.pc \in {"home", "nothome"} /\ conf'.listed = conf.listed
    BY <1>11 DEF Mark, Proceeds, ConfOK, ConfState
  <2>6. ListingOK' /\ AddedOK' /\ SilenceOK'
    <3>1. ListingOK'
      BY <2>4, <2>5, ListingKept DEF ListingOK, LockedStep
    <3> QED BY <2>3, <2>5, <3>1 DEF AddedOK, SilenceOK, env
  <2>7. CASE conf.listed[m] = None
    <3>1. stations' = [stations EXCEPT ![m].connected = FALSE]
      BY <1>11, <2>1, <2>7 DEF Mark
    <3>2. \A n \in MAC : Connected(n)' => Connected(n) /\ stations'[n].bssid = stations[n].bssid
      BY <2>2, <3>1 DEF StationsOK, Station, Connected, Tracked
    <3>3. BeliefOK'
      BY <2>4, <3>2, BeliefKept
    <3> QED BY <2>4, <2>6, <3>3
  <2>8. CASE conf.listed[m] # None
    <3>1. PICK h \in Hap : h = conf.listed[m] /\ Backed(h, m)
      BY <2>8 DEF ListingOK, ConfOK, ConfState
    <3>2. stations' = [stations EXCEPT ![m].connected = TRUE, ![m].bssid = h]
      BY <1>11, <2>1, <2>8, <3>1 DEF Mark
    <3>3. /\ stations'[m].bssid = h /\ Backed(h, m)'
          /\ \A n \in MAC : n # m => stations'[n] = stations[n]
      BY <2>2, <2>4, <3>1, <3>2 DEF Kept, StationsOK, Station, Tracked
    <3>4. ASSUME NEW n \in MAC, Connected(n)'
          PROVE  stations'[n].bssid \in Hap /\ Backed(stations[n].bssid, n)'
      <4>1. CASE n = m
        BY <3>3, <4>1 DEF Backed, Leaving
      <4>2. CASE n # m
        <5>1. Connected(n)
          BY <3>3, <3>4, <4>2 DEF Connected, Tracked
        <5>2. PICK g \in Hap : g = stations[n].bssid /\ Backed(g, n)
          BY <5>1 DEF BeliefOK
        <5>3. stations'[n].bssid = g /\ Backed(g, n)'
          BY <2>4, <3>3, <4>2, <5>2 DEF Kept
        <5> QED BY <5>3 DEF Backed, Leaving
      <4> QED BY <4>1, <4>2
    <3>5. BeliefOK'
      BY <3>4 DEF BeliefOK
    <3> QED BY <2>4, <2>6, <3>5
  <2> QED BY <2>7, <2>8
<1> QED
  BY <1>1, <1>2, <1>3, <1>7, <1>8, <1>9, <1>10, <1>11 DEF ConfNext

LEMMA NextBelief == TypeInv /\ BeliefInv /\ NewsOK /\ [Next]_vars => BeliefInv'
<1>1. TypeInv /\ BeliefInv /\ UNCHANGED vars => BeliefInv'
  BY QuietKeeps DEF vars, env
<1> QED
  BY <1>1, EnvNextBelief, HapNextBelief, ConfNextBelief, CbNextBelief, RunNextBelief DEF Next

LEMMA InitNews == Init => NewsOK
  BY DEF Init, NewsOK

\* A step of anyone but hostapd and the goroutine of h announces nothing.
LEMMA NewsKept ==
  ASSUME TypeInv, NewsOK, UNCHANGED <<evq, hap>>,
         \A h \in Hap : (attached'[h] => attached[h]) /\ unseen'[h] \subseteq unseen[h]
  PROVE  NewsOK'
  BY DEF NewsOK

\* hostapd announces something of m at h, or to nobody.
LEMMA AnnounceNews ==
  ASSUME TypeInv, NewsOK, NEW h \in Hap, NEW m \in MAC, NEW kind \in {"connect", "disconnect"},
         Announce(h, m, kind), UNCHANGED <<attached, hap>>
  PROVE  NewsOK'
<1> USE DEF TypeInv, TypeOK
<1> DEFINE e == [kind |-> kind, mac |-> m]
<1>1. e \in Event /\ e.mac = m
  BY DEF Event
<1>2. CASE attached[h]
  <2>1. /\ evq' = [evq EXCEPT ![h] = Append(@, e)]
        /\ unseen' = [unseen EXCEPT ![h] = @ \ {m}]
    BY <1>2 DEF Announce
  <2> HIDE DEF e
  <2>2. /\ \A g \in Hap : /\ Len(evq'[g]) = IF g = h THEN Len(evq[g]) + 1 ELSE Len(evq[g])
                          /\ \A i \in 1..Len(evq[g]) : evq'[g][i] = evq[g][i]
        /\ evq'[h][Len(evq[h]) + 1] = e
    BY <1>1, <2>1, AppendKeeps
  <2>3. ASSUME NEW g \in Hap, NEW n \in MAC, attached[g], n \in unseen'[g]
        PROVE  /\ \A i \in 1..Len(evq'[g]) : evq'[g][i].mac # n
               /\ hap[g].pc \in Connecting => hap[g].mac # n
    <3>1. n \in unseen[g] /\ (g = h => n # m)
      BY <2>1, <2>3 DEF EnvOK
    <3>2. /\ \A i \in 1..Len(evq[g]) : evq[g][i].mac # n
          /\ hap[g].pc \in Connecting => hap[g].mac # n
      BY <2>3, <3>1 DEF NewsOK
    <3>3. ASSUME NEW i \in 1..Len(evq'[g]) PROVE evq'[g][i].mac # n
      <4>1. Len(evq[g]) \in Nat
        BY DEF EnvOK
      <4>2. i \in 1..Len(evq[g]) \/ (g = h /\ i = Len(evq[g]) + 1)
        BY <2>2, <3>3, <4>1
      <4> QED BY <1>1, <2>2, <3>1, <3>2, <4>2
    <3> QED BY <3>2, <3>3
  <2> QED BY <2>3 DEF NewsOK
<1>3. CASE ~attached[h]
  <2>1. evq' = evq /\ unseen' = [unseen EXCEPT ![h] = @ \union {m}]
    BY <1>3 DEF Announce
  <2>2. \A g \in Hap : attached[g] => unseen'[g] = unseen[g]
    BY <1>3, <2>1 DEF EnvOK
  <2> QED BY <2>1, <2>2 DEF NewsOK
<1> QED
  BY <1>2, <1>3

\* The goroutine of h reads one datagram at most and goes on with its station.
LEMMA HapNextNews ==
  ASSUME TypeInv, SilenceOK, NewsOK, NEW h \in Hap, HapNext(h)
  PROVE  NewsOK'
<1> USE DEF TypeInv, TypeOK
<1>1. /\ unseen' = unseen
      /\ \A g \in Hap : g # h => /\ evq'[g] = evq[g] /\ attached'[g] = attached[g]
                                 /\ hap'[g] = hap[g]
  BY DEF HapNext, Attach, HandleConnect, HapCancel, HapHome, HapAttrs, HandleDisconnect,
     HapEnqueue, HandleTerminating, HandleDetached, ReadTimeout, Receives, Returns, Stops,
     Enters, env, EnvOK, HapOK
<1>2. ASSUME NEW m \in MAC, attached'[h], m \in unseen[h]
      PROVE  /\ \A i \in 1..Len(evq'[h]) : evq'[h][i].mac # m
             /\ hap'[h].pc \in Connecting => hap'[h].mac # m
  <2>1. CASE Attach(h)
    <3>1. evq' = evq /\ evq[h] = <<>>
      BY <2>1 DEF Attach, SilenceOK
    <3>2. hap'[h].pc \notin Connecting
      BY <2>1 DEF Attach, Returns, Stops, Reading, Stopped, HapOK, Connecting
    <3> QED BY <3>1, <3>2
  <2>2. CASE ~Attach(h)
    <3>1. attached[h]
      BY <1>2, <2>2 DEF HapNext, HandleConnect, HapCancel, HapHome, HapAttrs, HandleDisconnect,
         HapEnqueue, HandleTerminating, HandleDetached, ReadTimeout, Stops, env, EnvOK
    <3>2. /\ \A i \in 1..Len(evq[h]) : evq[h][i].mac # m
          /\ hap[h].pc \in Connecting => hap[h].mac # m
      BY <1>2, <3>1 DEF NewsOK
    <3>3. CASE \E kind : Receives(h, kind)
      <4>1. PICK kind : Receives(h, kind)
        BY <3>3
      <4>2. evq[h] \in Seq(Event) /\ evq[h] # <<>> /\ evq'[h] = Tail(evq[h])
        BY <4>1 DEF Receives, EnvOK
      <4>3. Head(evq[h]).mac # m
        BY <3>2, <4>2
      <4>4. \A i \in 1..Len(evq'[h]) : evq'[h][i].mac # m
        BY <3>2, <4>2
      <4>5. hap[h].pc = "read"
        BY <4>1 DEF Receives
      <4>6. hap'[h].pc \in Connecting => hap'[h].mac = Head(evq[h]).mac
        BY <4>5, <2>2 DEF HapNext, HandleConnect, HapCancel, HapHome, HapAttrs,
           HandleDisconnect, HapEnqueue, HandleTerminating, HandleDetached, ReadTimeout,
           Stops, Stopped, HapOK, HapState, Connecting
      <4> QED BY <4>3, <4>4, <4>6
    <3>4. CASE ~\E kind : Receives(h, kind)
      <4>1. /\ evq' = evq
            /\ HapCancel(h) \/ HapHome(h) \/ HapAttrs(h) \/ HapEnqueue(h) \/ ReadTimeout(h)
        BY <2>2, <3>4 DEF HapNext, HandleConnect, HapCancel, HapHome, HapAttrs,
           HandleDisconnect, HapEnqueue, HandleTerminating, HandleDetached, ReadTimeout, env
      <4>2. \/ hap'[h].pc \notin Connecting
            \/ hap[h].pc \in Connecting /\ hap'[h].mac = hap[h].mac
        <5>1. CASE Returns(h) \/ Stops(h)
          BY <5>1 DEF Returns, Stops, Reading, Stopped, HapOK, Connecting
        <5>2. ASSUME NEW step, hap[h].pc \in Connecting, Enters(h, step)
              PROVE  hap'[h].mac = hap[h].mac
          BY <5>2 DEF Enters, HapOK, HapState
        <5> QED BY <4>1, <5>1, <5>2
                DEF HapCancel, HapHome, HapAttrs, HapEnqueue, ReadTimeout, Connecting
      <4> QED BY <3>2, <4>1, <4>2
    <3> QED BY <3>3, <3>4
  <2> QED BY <2>1, <2>2
<1> QED
  BY <1>1, <1>2 DEF NewsOK

LEMMA NextNews ==
  ASSUME TypeInv, SilenceOK, NewsOK, [Next]_vars
  PROVE  NewsOK'
<1> USE DEF TypeInv, TypeOK
<1>1. ASSUME NEW h \in Hap, NEW m \in MAC, Associate(h, m) \/ Disassociate(h, m)
      PROVE  NewsOK'
  BY <1>1, AnnounceNews DEF Associate, Disassociate
<1>2. ASSUME NEW h \in Hap, HostapdTerminates(h) \/ SendDetach(h)
      PROVE  NewsOK'
  <2>1. /\ unseen' = unseen /\ hap' = hap
        /\ \A g \in Hap : attached'[g] => attached[g] /\ evq'[g] = evq[g]
    BY <1>2 DEF HostapdTerminates, SendDetach, EnvOK
  <2> QED BY <2>1 DEF NewsOK
<1>3. ASSUME NEW h \in Hap, HapNext(h) PROVE NewsOK'
  BY <1>3, HapNextNews
<1>4. CASE ConfNext
  <2>1. CASE ListRadio
    <3>1. unseen' = unseen \/ \E g, A : unseen' = [unseen EXCEPT ![g] = unseen[g] \ A]
      BY <2>1, Zenon DEF ListRadio
    <3>2. ASSUME NEW g, NEW A, unseen' = [unseen EXCEPT ![g] = unseen[g] \ A]
          PROVE  \A h \in Hap : unseen'[h] \subseteq unseen[h]
      <4>1. unseen \in [Hap -> SUBSET MAC]
        BY DEF EnvOK
      <4> HIDE DEF TypeInv, TypeOK
      <4> QED BY <3>2, <4>1
    <3>3. \A h \in Hap : unseen'[h] \subseteq unseen[h]
      BY <3>1, <3>2
    <3> QED BY <2>1, <3>3, NewsKept DEF ListRadio
  <2>2. CASE ~ListRadio
    <3>1. UNCHANGED <<env, hap>>
      BY <1>4, <2>2 DEF ConfNext, DiffDevice, DiffRemoved, ListDone, ApplyNoChange,
         ApplyUpdated, ApplyAdded, ApplyRemoved, Applied, Register, Mark, ConfNotHome,
         ConfHome, ConfAttrs, Unregister, ReportConf
    <3> QED BY <3>1, NewsKept DEF env
  <2> QED BY <2>1, <2>2
<1>5. ASSUME NEW t \in Timer, CbNext(t) PROVE NewsOK'
  <2>1. UNCHANGED <<env, hap>>
    BY <1>5 DEF CbNext, Fire, Begin, Skip, CbNotHome, CbRead, CbAttrs, CbReport
  <2> QED BY <2>1, NewsKept DEF env
<1>6. ASSUME UNCHANGED vars \/ Stop \/ Watch \/ SubscribeReturns \/ \E c \in Config : Receive(c)
      PROVE  NewsOK'
  <2>1. UNCHANGED <<env, hap>>
    BY <1>6 DEF vars, Stop, Watch, SubscribeReturns, Receive
  <2> QED BY <2>1, NewsKept DEF env
<1> QED
  BY <1>1, <1>2, <1>3, <1>4, <1>5, <1>6 DEF Next, EnvNext, RunNext

\* The daemon holds no station for connected that left while a radio was told:
\* whatever the radios, the configuration and the debouncer do at once, and
\* whatever fails, for any number of stations, radios and timers
\* (daemon.go:259-325, 383-393, 441-455).
THEOREM BeliefIsBacked == SafeSpec => []BelievedIsBacked
<1>1. Init => TypeInv /\ BeliefInv /\ NewsOK
  BY InitType, InitBelief, InitNews
<1>2. TypeInv /\ BeliefInv /\ NewsOK /\ [Next]_vars => (TypeInv /\ BeliefInv /\ NewsOK)'
  BY NextType, NextBelief, NextNews DEF BeliefInv
<1>3. BeliefInv => BelievedIsBacked
  BY DEF BeliefInv, BeliefOK, BelievedIsBacked
<1> QED
  BY <1>1, <1>2, <1>3, PTL DEF SafeSpec
==============================================================================
