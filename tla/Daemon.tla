-------------------------------- MODULE Daemon --------------------------------
(***************************************************************************)
(* internal/presence/daemon.go with its debouncer: Run and the goroutines  *)
(* it starts, onConfigChange, onHostapdEvent, connectedStations and the    *)
(* debounced callback, between hostapd (which stations are associated, and *)
(* one FIFO of events per attached socket) and the retained topics of the  *)
(* MQTT broker.                                                            *)
(*                                                                         *)
(* A step of a goroutine ends where another goroutine can see the          *)
(* difference: at a lock, an unlock, a call of the debouncer, a command to *)
(* hostapd or a publish.  Daemon.mu is held while conf.pc is a step of     *)
(* onConfigChange; onHostapdEvent and the callback hold it for one step.   *)
(***************************************************************************)
EXTENDS Naturals, Sequences, FiniteSets

CONSTANTS MAC,          \* station addresses
          Hap,          \* the hostapd clients, one per radio
          HapOrder,     \* Daemon.haps: the order connectedStations asks them in
          Timer,        \* see Debouncer
          Name,         \* names a configuration gives to devices
          Config,       \* the configurations that may arrive
          AutoDisc,     \* Daemon.hassAutoDisc
          Fault,        \* what may go wrong outside: a subset of AllFaults
          Restart,      \* an earlier run may have left its topics in the broker
          MaxEvents,    \* bound on the events waiting in an attached socket
          None          \* no value: no entry, no address, blank, undecodable

AllFaults == {"publish",    \* a publish or its acknowledgement is lost
              "list",       \* a station listing fails
              "unknown",    \* hostapd does not know STA-FIRST
              "truncate",   \* a STA-NEXT times out: the rest is not listed
              "attach",     \* ATTACH fails
              "terminate",  \* hostapd announces that it terminates
              "subscribe",  \* the config subscription fails
              "stop"}       \* SIGTERM, or the MQTT connection is lost

Device  == [name : Name \union {None}, mac : MAC \union {None}]
Station == [name : Name \union {None}, connected : BOOLEAN, bssid : Hap \union {None}]
State   == {"home", "not_home"}

ASSUME HapOrderAssumption ==
    /\ HapOrder \in Seq(Hap)
    /\ \A h \in Hap : \E i \in 1..Len(HapOrder) : HapOrder[i] = h
    /\ \A i, j \in 1..Len(HapOrder) : HapOrder[i] = HapOrder[j] => i = j
ASSUME ConfigAssumption == Config \subseteq Seq(Device)
ASSUME FaultAssumption == Fault \subseteq AllFaults
ASSUME SentinelAssumption ==
    None \notin MAC \union Hap \union Timer \union Name \union Station \union State
ASSUME SwitchAssumption == AutoDisc \in BOOLEAN /\ Restart \in BOOLEAN /\ MaxEvents \in Nat

VARIABLES
  assoc,    \* [Hap -> SUBSET MAC]: the stations associated with the radio
  evq,      \* [Hap -> Seq(Event)]: datagrams waiting in the attached socket
  attached, \* [Hap -> BOOLEAN]: hostapd sends events to the socket
  unseen,   \* [Hap -> SUBSET MAC], history: the last arrival or departure
            \* was sent to no socket, and no listing has told of it since
  stations, \* Daemon.stations: [MAC -> Station or None]
  hap,      \* [Hap -> HapState]: the goroutine of Client.Attach
  conf,     \* the goroutine of the config callback, with its locals
  queue, phase, owner,  \* Daemon.db, see Debouncer
  cb,       \* [Timer -> CbStep]: how far the callback of a running timer is
  state,    \* [MAC -> State or None]: the retained state topics
  disc,     \* [MAC -> Name or None]: the retained discovery topics
  late,     \* SUBSET MAC, history: the last state was published by a callback
            \* when the daemon held the station for connected
  done,     \* the context of the errgroup is cancelled
  errs,     \* 0..1: errors in Run's channel
  cfgErr,   \* an error is in SubscribeConfig's channel
  sub,      \* SubscribeConfig has not returned
  watcher   \* the goroutine that watches errs has not returned

env     == <<assoc, evq, attached, unseen>>
db      == <<queue, phase, owner, cb>>
topics  == <<state, disc, late>>
control == <<done, errs, cfgErr, sub, watcher>>
vars    == <<env, stations, hap, conf, db, topics, control>>

Db == INSTANCE Debouncer

------------------------------------------------------------------------------
Event   == [kind : {"connect", "disconnect"}, mac : MAC]
             \union [kind : {"terminating", "detached"}, mac : {None}]
Change  == {"none", "nochange", "updated", "added", "removed"}

HapStep == {"attach", "read", "cancel", "home", "attrs", "enqueue", "stopped"}
HapState == [pc : HapStep, mac : MAC \union {None}, update : BOOLEAN]

LockedStep == {"diff", "list", "apply", "register", "mark", "home", "nothome",
               "attrs", "unregister"}
ConfState == [pc     : LockedStep \union {"idle", "report"},
              cfg    : Config \union {<<>>},
              i      : Nat \ {0},           \* the device or the radio of a loop
              change : [MAC -> Change],     \* changes
              update : BOOLEAN,             \* hasUpdates
              listed : [MAC -> Hap \union {None}],  \* connected
              mac    : MAC \union {None}]   \* the change being processed

CbStep == {"none", "nothome", "read", "attrs", "errs"}

EnvOK ==
    /\ assoc \in [Hap -> SUBSET MAC]
    /\ evq \in [Hap -> Seq(Event)]
    /\ attached \in [Hap -> BOOLEAN]
    /\ unseen \in [Hap -> SUBSET MAC]

StationsOK == stations \in [MAC -> Station \union {None}]

\* A goroutine at a step that is about a station has that station.
HapOK ==
    /\ hap \in [Hap -> HapState]
    /\ \A h \in Hap :
        hap[h].pc \in {"cancel", "home", "attrs", "enqueue"} => hap[h].mac \in MAC

ConfOK ==
    /\ conf \in ConfState
    /\ conf.pc \in LockedStep \ {"diff", "list", "apply"} => conf.mac \in MAC
    /\ conf.pc \in {"register", "mark"} => conf.change[conf.mac] \in {"added", "updated"}

DbOK == Db!TypeOK /\ cb \in [Timer -> CbStep]

TopicsOK ==
    /\ state \in [MAC -> State \union {None}]
    /\ disc \in [MAC -> Name \union {None}]
    /\ late \subseteq MAC

ControlOK ==
    /\ done \in BOOLEAN
    /\ errs \in 0..1
    /\ cfgErr \in BOOLEAN
    /\ sub \in BOOLEAN
    /\ watcher \in BOOLEAN

TypeOK == EnvOK /\ StationsOK /\ HapOK /\ ConfOK /\ DbOK /\ TopicsOK /\ ControlOK

Reading == [pc |-> "read", mac |-> None, update |-> FALSE]
Stopped == [pc |-> "stopped", mac |-> None, update |-> FALSE]

NoChanges == [m \in MAC |-> "none"]
Nowhere   == [m \in MAC |-> None]

\* onConfigChange is not running (or has only its error left to report).
Waiting(step) == [pc |-> step, cfg |-> <<>>, i |-> 1, change |-> NoChanges,
                  update |-> FALSE, listed |-> Nowhere, mac |-> None]

\* NewDaemon has run: nothing is tracked, and the radios may have stations.
Init ==
    /\ assoc \in [Hap -> SUBSET MAC]
    /\ evq = [h \in Hap |-> <<>>]
    /\ attached = [h \in Hap |-> FALSE]
    /\ unseen = [h \in Hap |-> {}]
    /\ stations = Nowhere
    /\ hap = [h \in Hap |-> [Reading EXCEPT !.pc = "attach"]]
    /\ conf = Waiting("idle")
    /\ Db!Init
    /\ cb = [t \in Timer |-> "none"]
    /\ state \in [MAC -> {None} \union IF Restart THEN State ELSE {}]
    /\ disc \in [MAC -> {None} \union IF Restart /\ AutoDisc THEN Name ELSE {}]
    /\ late = {}
    /\ done = FALSE /\ errs = 0 /\ cfgErr = FALSE
    /\ sub = TRUE /\ watcher = TRUE

------------------------------------------------------------------------------
Tracked(m)   == stations[m] # None
Connected(m) == Tracked(m) /\ stations[m].connected

\* Faulty Unlocked: the radios are listed before the lock is taken.
UnlockedWhileListing == conf.pc \notin LockedStep \ {"list"}

\* Daemon.mu is free.
Unlocked == conf.pc \notin LockedStep

(* hostapd and the stations.                                               *)

Room(h) == attached[h] => Len(evq[h]) < MaxEvents

\* An event goes to the socket if it is attached, else nobody is told.
Announce(h, m, kind) ==
    IF attached[h]
      THEN /\ evq' = [evq EXCEPT ![h] = Append(@, [kind |-> kind, mac |-> m])]
           /\ unseen' = [unseen EXCEPT ![h] = @ \ {m}]
      ELSE /\ unseen' = [unseen EXCEPT ![h] = @ \union {m}]
           /\ UNCHANGED evq

\* Also a reassociation: hostapd announces a station it already has again.
Associate(h, m) ==
    /\ Room(h)
    /\ assoc' = [assoc EXCEPT ![h] = @ \union {m}]
    /\ Announce(h, m, "connect")
    /\ UNCHANGED <<attached, stations, hap, conf, db, topics, control>>

Disassociate(h, m) ==
    /\ m \in assoc[h]
    /\ Room(h)
    /\ assoc' = [assoc EXCEPT ![h] = @ \ {m}]
    /\ Announce(h, m, "disconnect")
    /\ UNCHANGED <<attached, stations, hap, conf, db, topics, control>>

HostapdTerminates(h) ==
    /\ "terminate" \in Fault
    /\ attached[h]
    /\ evq' = [evq EXCEPT ![h] = Append(@, [kind |-> "terminating", mac |-> None])]
    /\ attached' = [attached EXCEPT ![h] = FALSE]
    /\ UNCHANGED <<assoc, unseen, stations, hap, conf, db, topics, control>>

------------------------------------------------------------------------------
(* The goroutine of Client.Attach.                                         *)

Enters(h, step) == hap' = [hap EXCEPT ![h].pc = step]

\* The callback returns nil: the goroutine reads the next event.
Returns(h) == hap' = [hap EXCEPT ![h] = Reading]

\* Attach returns; its deferred detach keeps hostapd from sending more.
Stops(h) ==
    /\ hap' = [hap EXCEPT ![h] = Stopped]
    /\ attached' = [attached EXCEPT ![h] = FALSE]

\* The error of one goroutine of the errgroup cancels the others.
Aborts == done' = TRUE /\ UNCHANGED <<errs, cfgErr, sub, watcher>>

Attach(h) ==
    /\ hap[h].pc = "attach"
    /\ \/ /\ Returns(h)
          /\ attached' = [attached EXCEPT ![h] = TRUE]
          /\ UNCHANGED control
       \/ /\ "attach" \in Fault
          /\ Stops(h)
          /\ Aborts
    /\ UNCHANGED <<assoc, evq, unseen, stations, conf, db, topics>>

\* The next datagram of the socket is an event e of this kind.
Receives(h, kind) ==
    /\ hap[h].pc = "read"
    /\ evq[h] # <<>>
    /\ Head(evq[h]).kind = kind
    /\ evq' = [evq EXCEPT ![h] = Tail(@)]

\* Faulty HandleConnect: only a station that comes from another radio counts as
\* an update.
HandleConnectIfRoaming(h) ==
    /\ Receives(h, "connect")
    /\ Unlocked
    /\ LET m == Head(evq[h]).mac IN
       IF Tracked(m)
         THEN /\ stations' = [stations EXCEPT ![m].connected = TRUE, ![m].bssid = h]
              /\ hap' = [hap EXCEPT ![h] =
                    [pc |-> "cancel", mac |-> m, update |-> stations[m].bssid # h]]
         ELSE UNCHANGED <<stations, hap>>
    /\ UNCHANGED <<assoc, attached, unseen, conf, db, topics, control>>

\* EventStationConnect, to the unlock.
HandleConnect(h) ==
    /\ Receives(h, "connect")
    /\ Unlocked
    /\ LET m == Head(evq[h]).mac IN
       IF Tracked(m)
         THEN /\ stations' = [stations EXCEPT ![m].connected = TRUE, ![m].bssid = h]
              /\ hap' = [hap EXCEPT ![h] =
                    [pc |-> "cancel", mac |-> m,
                     update |-> ~stations[m].connected \/ stations[m].bssid # h]]
         ELSE UNCHANGED <<stations, hap>>
    /\ UNCHANGED <<assoc, attached, unseen, conf, db, topics, control>>

\* Drop the pending callback of m, if there is one: db.cancel.
DropPending(m) ==
    IF Db!Queued(m)
      THEN /\ Db!Cancel(m)
           /\ cb' = [t \in Timer |-> IF phase'[t] = "free" THEN "none" ELSE cb[t]]
      ELSE UNCHANGED db

HapCancel(h) ==
    /\ hap[h].pc = "cancel"
    /\ DropPending(hap[h].mac)
    /\ IF hap[h].update THEN Enters(h, "home") ELSE Returns(h)
    /\ UNCHANGED <<env, stations, conf, topics, control>>

\* A state topic takes a value that agrees with the station unless `stale`.
PublishState(m, value, stale) ==
    /\ state' = [state EXCEPT ![m] = value]
    /\ late' = IF stale THEN late \union {m} ELSE late \ {m}
    /\ UNCHANGED disc

HapHome(h) ==
    /\ hap[h].pc = "home"
    /\ \/ /\ PublishState(hap[h].mac, "home", FALSE)
          /\ Enters(h, "attrs")
          /\ UNCHANGED <<attached, control>>
       \/ /\ "publish" \in Fault
          /\ PublishState(hap[h].mac, "home", FALSE) \/ UNCHANGED topics
          /\ Stops(h)
          /\ Aborts
    /\ UNCHANGED <<assoc, evq, unseen, stations, conf, db>>

HapAttrs(h) ==
    /\ hap[h].pc = "attrs"
    /\ \/ /\ Returns(h)
          /\ UNCHANGED <<attached, control>>
       \/ /\ "publish" \in Fault
          /\ Stops(h)
          /\ Aborts
    /\ UNCHANGED <<assoc, evq, unseen, stations, conf, db, topics>>

\* Faulty HandleDisconnect: a station held for away has nothing to report.
HandleDisconnectIfConnected(h) ==
    /\ Receives(h, "disconnect")
    /\ Unlocked
    /\ LET m == Head(evq[h]).mac IN
       IF Tracked(m) /\ Connected(m) /\ stations[m].bssid = h
         THEN /\ stations' = [stations EXCEPT ![m].connected = FALSE]
              /\ hap' = [hap EXCEPT ![h] =
                    [pc |-> "enqueue", mac |-> m, update |-> FALSE]]
         ELSE UNCHANGED <<stations, hap>>
    /\ UNCHANGED <<assoc, attached, unseen, conf, db, topics, control>>

\* Faulty HandleDisconnect: the disconnect of any other radio than the last one
\* is ignored, whether the station is connected or not.
HandleDisconnectOfLast(h) ==
    /\ Receives(h, "disconnect")
    /\ Unlocked
    /\ LET m == Head(evq[h]).mac IN
       IF Tracked(m) /\ stations[m].bssid = h
         THEN /\ stations' = [stations EXCEPT ![m].connected = FALSE]
              /\ hap' = [hap EXCEPT ![h] =
                    [pc |-> "enqueue", mac |-> m, update |-> FALSE]]
         ELSE UNCHANGED <<stations, hap>>
    /\ UNCHANGED <<assoc, attached, unseen, conf, db, topics, control>>

\* EventStationDisconnect, to the unlock.  The disconnect of a radio that the
\* station has left for another one is ignored.
HandleDisconnect(h) ==
    /\ Receives(h, "disconnect")
    /\ Unlocked
    /\ LET m == Head(evq[h]).mac IN
       IF Tracked(m) /\ (Connected(m) => stations[m].bssid = h)
         THEN /\ stations' = [stations EXCEPT ![m].connected = FALSE]
              /\ hap' = [hap EXCEPT ![h] =
                    [pc |-> "enqueue", mac |-> m, update |-> FALSE]]
         ELSE UNCHANGED <<stations, hap>>
    /\ UNCHANGED <<assoc, attached, unseen, conf, db, topics, control>>

HapEnqueue(h) ==
    /\ hap[h].pc = "enqueue"
    /\ IF Db!Queued(hap[h].mac)
         THEN UNCHANGED db
         ELSE /\ Db!Enqueue(hap[h].mac)
              /\ cb' = [t \in Timer |-> IF phase'[t] = "armed" THEN "nothome" ELSE cb[t]]
    /\ Returns(h)
    /\ UNCHANGED <<env, stations, conf, topics, control>>

\* ErrTerminating is an error; the answer to DETACH ends Attach without one.
HandleTerminating(h) ==
    /\ Receives(h, "terminating")
    /\ Stops(h)
    /\ Aborts
    /\ UNCHANGED <<assoc, unseen, stations, conf, db, topics>>

HandleDetached(h) ==
    /\ Receives(h, "detached")
    /\ Stops(h)
    /\ UNCHANGED <<assoc, unseen, stations, conf, db, topics, control>>

\* The context is cancelled: DETACH is sent, its answer queues behind the
\* events that are already in the socket.
SendDetach(h) ==
    /\ done
    /\ attached[h]
    /\ attached' = [attached EXCEPT ![h] = FALSE]
    /\ evq' = [evq EXCEPT ![h] = Append(@, [kind |-> "detached", mac |-> None])]
    /\ UNCHANGED <<assoc, unseen, stations, hap, conf, db, topics, control>>

\* The read deadline that the detach set is over.
ReadTimeout(h) ==
    /\ done
    /\ hap[h].pc = "read"
    /\ ~attached[h]
    /\ Stops(h)
    /\ UNCHANGED <<assoc, evq, unseen, stations, conf, db, topics, control>>

------------------------------------------------------------------------------
(* The goroutine that runs the callback of the config subscription, one    *)
(* message at a time: onConfigChange.                                      *)

Changed == \E m \in MAC : conf.change[m] # "none"

\* onConfigChange returns an error, and with it the lock.
ConfFails == conf' = Waiting("report")

\* A configuration arrives; the lock is taken.
Receive(c) ==
    /\ conf.pc = "idle"
    /\ sub
    /\ conf' = [Waiting("diff") EXCEPT !.cfg = c]
    /\ UNCHANGED <<env, stations, hap, db, topics, control>>

\* How a configured device differs from the entry of its MAC.
ChangeOf(d) ==
    IF ~Tracked(d.mac) THEN "added"
    ELSE IF stations[d.mac].name # d.name THEN "updated" ELSE "nochange"

\* One round of the loop over cfg.Devices: an address that does not decode ends
\* onConfigChange with the devices before it already tracked.
DiffDevice ==
    /\ conf.pc = "diff"
    /\ conf.i <= Len(conf.cfg)
    /\ LET d == conf.cfg[conf.i] IN
       IF d.mac = None
         THEN ConfFails /\ UNCHANGED stations
         ELSE /\ conf' = [conf EXCEPT
                    !.i = @ + 1,
                    !.change[d.mac] = ChangeOf(d),
                    !.update = @ \/ ChangeOf(d) # "nochange"]
              /\ stations' = [stations EXCEPT ![d.mac] =
                    IF Tracked(d.mac)
                      THEN [@ EXCEPT !.name = d.name]
                      ELSE [name |-> d.name, connected |-> FALSE, bssid |-> None]]
    /\ UNCHANGED <<env, hap, db, topics, control>>

\* The loop over d.stations, and what to do next: list the stations that are
\* connected only if a device was added or renamed.
DiffRemoved ==
    /\ conf.pc = "diff"
    /\ conf.i > Len(conf.cfg)
    /\ LET gone == {m \in MAC : Tracked(m) /\ conf.change[m] = "none"} IN
       /\ stations' = [m \in MAC |-> IF m \in gone THEN None ELSE stations[m]]
       /\ IF Changed \/ gone # {}
            THEN conf' = [conf EXCEPT
                    !.pc = IF conf.update THEN "list" ELSE "apply",
                    !.cfg = <<>>,
                    !.i = 1,
                    !.change = [m \in MAC |-> IF m \in gone THEN "removed" ELSE @[m]]]
            ELSE conf' = Waiting("idle")
    /\ UNCHANGED <<env, hap, db, topics, control>>

\* What Client.Stations may return: a STA-NEXT that times out is taken for the
\* end of the list.
Listings(h) ==
    {assoc[h]} \union
        IF "truncate" \in Fault THEN SUBSET assoc[h] \ {{}} ELSE {}

\* hostapd has not ended what it sends to the socket: none of what it announced
\* to nobody is older than an event that waits.
Listens(h) == attached[h] \/ hap[h].pc = "attach"

\* Client.Stations of the next radio: a later radio overrides an earlier one.
\* What happened to new devices before the radio was attached is known from here on.
ListRadio ==
    /\ conf.pc = "list"
    /\ conf.i <= Len(HapOrder)
    /\ LET h == HapOrder[conf.i]
           added == {m \in MAC : conf.change[m] = "added"} IN
       \/ /\ \E seen \in Listings(h) :
               conf' = [conf EXCEPT
                    !.i = @ + 1,
                    !.listed = [m \in MAC |-> IF m \in seen THEN h ELSE @[m]]]
          /\ unseen' = IF Listens(h)
                         THEN [unseen EXCEPT ![h] = @ \ added] ELSE unseen
       \/ /\ "unknown" \in Fault
          /\ conf' = [conf EXCEPT !.pc = "apply", !.i = 1, !.listed = Nowhere]
          /\ UNCHANGED unseen
       \/ /\ "list" \in Fault
          /\ ConfFails
          /\ UNCHANGED unseen
    /\ UNCHANGED <<assoc, evq, attached, stations, hap, db, topics, control>>

ListDone ==
    /\ conf.pc = "list"
    /\ conf.i > Len(HapOrder)
    /\ conf' = [conf EXCEPT !.pc = "apply", !.i = 1]
    /\ UNCHANGED <<env, stations, hap, db, topics, control>>

\* The next change, in the order of the map's iteration; changes that need
\* nothing published are done with at once.
Proceeds(m, step) == conf' = [conf EXCEPT !.pc = step, !.mac = m]
Settles(m) == conf' = [conf EXCEPT !.pc = "apply", !.mac = None, !.change[m] = "none"]

ApplyNoChange(m) ==
    /\ conf.pc = "apply"
    /\ conf.change[m] = "nochange"
    /\ Settles(m)
    /\ UNCHANGED <<env, stations, hap, db, topics, control>>

\* Faulty ApplyUpdated: a renamed device is not registered again.
ApplyUpdatedSilently(m) ==
    /\ conf.pc = "apply"
    /\ conf.change[m] = "updated"
    /\ Settles(m)
    /\ UNCHANGED <<env, stations, hap, db, topics, control>>

ApplyUpdated(m) ==
    /\ conf.pc = "apply"
    /\ conf.change[m] = "updated"
    /\ IF AutoDisc THEN Proceeds(m, "register") ELSE Settles(m)
    /\ UNCHANGED <<env, stations, hap, db, topics, control>>

ApplyAdded(m) ==
    /\ conf.pc = "apply"
    /\ conf.change[m] = "added"
    /\ Proceeds(m, IF AutoDisc THEN "register" ELSE "mark")
    /\ UNCHANGED <<env, stations, hap, db, topics, control>>

ApplyRemoved(m) ==
    /\ conf.pc = "apply"
    /\ conf.change[m] = "removed"
    /\ DropPending(m)
    /\ IF AutoDisc THEN Proceeds(m, "unregister") ELSE Settles(m)
    /\ UNCHANGED <<env, stations, hap, topics, control>>

\* All changes are processed: the lock is released.
Applied ==
    /\ conf.pc = "apply"
    /\ ~Changed
    /\ conf' = Waiting("idle")
    /\ UNCHANGED <<env, stations, hap, db, topics, control>>

\* RegisterDeviceTracker refuses a blank name.
Register ==
    /\ conf.pc = "register"
    /\ LET m == conf.mac
           published == disc' = [disc EXCEPT ![m] = stations[m].name] IN
       \/ /\ stations[m].name # None
          /\ published
          /\ IF conf.change[m] = "added" THEN Proceeds(m, "mark") ELSE Settles(m)
       \/ /\ "publish" \in Fault /\ stations[m].name # None
          /\ published \/ UNCHANGED disc
          /\ ConfFails
       \/ /\ stations[m].name = None
          /\ ConfFails
          /\ UNCHANGED disc
    /\ UNCHANGED <<env, stations, hap, db, state, late, control>>

\* A new station is connected if some radio listed it.
Mark ==
    /\ conf.pc = "mark"
    /\ LET m == conf.mac
           h == conf.listed[m] IN
       IF h # None
         THEN /\ stations' = [stations EXCEPT ![m].connected = TRUE, ![m].bssid = h]
              /\ DropPending(m)
              /\ Proceeds(m, "home")
         ELSE /\ stations' = [stations EXCEPT ![m].connected = FALSE]
              /\ Proceeds(m, "nothome")
              /\ UNCHANGED db
    /\ UNCHANGED <<env, hap, topics, control>>

ConfNotHome ==
    /\ conf.pc = "nothome"
    /\ \/ PublishState(conf.mac, "not_home", FALSE) /\ Settles(conf.mac)
       \/ /\ "publish" \in Fault
          /\ PublishState(conf.mac, "not_home", FALSE) \/ UNCHANGED topics
          /\ ConfFails
    /\ UNCHANGED <<env, stations, hap, db, control>>

ConfHome ==
    /\ conf.pc = "home"
    /\ \/ PublishState(conf.mac, "home", FALSE) /\ Proceeds(conf.mac, "attrs")
       \/ /\ "publish" \in Fault
          /\ PublishState(conf.mac, "home", FALSE) \/ UNCHANGED topics
          /\ ConfFails
    /\ UNCHANGED <<env, stations, hap, db, control>>

ConfAttrs ==
    /\ conf.pc = "attrs"
    /\ Settles(conf.mac) \/ ("publish" \in Fault /\ ConfFails)
    /\ UNCHANGED <<env, stations, hap, db, topics, control>>

Unregister ==
    /\ conf.pc = "unregister"
    /\ LET published == disc' = [disc EXCEPT ![conf.mac] = None] IN
       \/ published /\ Settles(conf.mac)
       \/ "publish" \in Fault /\ (published \/ UNCHANGED disc) /\ ConfFails
    /\ UNCHANGED <<env, stations, hap, db, state, late, control>>

\* onError: the error goes to SubscribeConfig, or is dropped once done.
ReportConf ==
    /\ conf.pc = "report"
    /\ \/ ~cfgErr /\ cfgErr' = TRUE
       \/ done /\ UNCHANGED cfgErr
    /\ conf' = Waiting("idle")
    /\ UNCHANGED <<env, stations, hap, db, topics, done, errs, sub, watcher>>

ConfNext ==
    \/ DiffDevice \/ DiffRemoved \/ ListRadio \/ ListDone
    \/ \E m \in MAC : \/ ApplyNoChange(m) \/ ApplyUpdated(m)
                      \/ ApplyAdded(m) \/ ApplyRemoved(m)
    \/ Applied \/ Register \/ Mark \/ ConfNotHome \/ ConfHome \/ ConfAttrs
    \/ Unregister \/ ReportConf

------------------------------------------------------------------------------
(* The debounced callback of onHostapdEvent, in the goroutine of a timer.  *)

Fire(t) ==
    /\ Db!Fire(t)
    /\ UNCHANGED <<env, stations, hap, conf, cb, topics, control>>

Begin(t) ==
    /\ Db!Begin(t)
    /\ UNCHANGED <<env, stations, hap, conf, cb, topics, control>>

Skip(t) ==
    /\ Db!Skip(t)
    /\ cb' = [cb EXCEPT ![t] = "none"]
    /\ UNCHANGED <<env, stations, hap, conf, topics, control>>

At(t, step) == phase[t] = "running" /\ cb[t] = step
GoesTo(t, step) == cb' = [cb EXCEPT ![t] = step] /\ UNCHANGED <<queue, phase, owner>>
Finishes(t) == Db!Finish(t) /\ cb' = [cb EXCEPT ![t] = "none"]

CbNotHome(t) ==
    /\ At(t, "nothome")
    /\ LET published == PublishState(owner[t], "not_home", Connected(owner[t])) IN
       \/ published /\ GoesTo(t, "read")
       \/ "publish" \in Fault /\ (published \/ UNCHANGED topics) /\ GoesTo(t, "errs")
    /\ UNCHANGED <<env, stations, hap, conf, control>>

\* Faulty CbRead: a station that is away by now has no attributes to report.
CbReadIfConnected(t) ==
    /\ At(t, "read")
    /\ Unlocked
    /\ IF Connected(owner[t]) THEN GoesTo(t, "attrs") ELSE Finishes(t)
    /\ UNCHANGED <<env, stations, hap, conf, topics, control>>

\* The entry is read under the lock: it may be gone.
CbRead(t) ==
    /\ At(t, "read")
    /\ Unlocked
    /\ IF Tracked(owner[t]) THEN GoesTo(t, "attrs") ELSE Finishes(t)
    /\ UNCHANGED <<env, stations, hap, conf, topics, control>>

CbAttrs(t) ==
    /\ At(t, "attrs")
    /\ Finishes(t) \/ ("publish" \in Fault /\ GoesTo(t, "errs"))
    /\ UNCHANGED <<env, stations, hap, conf, topics, control>>

\* Faulty CbReport: errs counts as having room for every error.
CbReportUnbounded(t) ==
    /\ At(t, "errs")
    /\ errs' = errs + 1
    /\ Finishes(t)
    /\ UNCHANGED <<env, stations, hap, conf, topics, done, cfgErr, sub, watcher>>

\* errs has room for one error.  Once the watcher has returned and errs is full,
\* the callback waits for ever; nothing sees it again, and its identity is free.
CbReport(t) ==
    /\ At(t, "errs")
    /\ \/ errs = 0 /\ errs' = 1
       \/ errs = 1 /\ ~watcher /\ UNCHANGED errs
    /\ Finishes(t)
    /\ UNCHANGED <<env, stations, hap, conf, topics, done, cfgErr, sub, watcher>>

------------------------------------------------------------------------------
(* Run.                                                                    *)

\* Faulty Watch: the watcher waits for an error only.
WatchErrorsOnly ==
    /\ watcher
    /\ errs = 1
    /\ errs' = 0 /\ done' = TRUE /\ watcher' = FALSE
    /\ UNCHANGED <<env, stations, hap, conf, db, topics, cfgErr, sub>>

\* The watcher takes an error and returns it, or returns when the rest ends.
Watch ==
    /\ watcher
    /\ watcher' = FALSE
    /\ \/ errs = 1 /\ errs' = 0 /\ done' = TRUE
       \/ done /\ UNCHANGED <<errs, done>>
    /\ UNCHANGED <<env, stations, hap, conf, db, topics, cfgErr, sub>>

\* SubscribeConfig returns: an error of the callback, of the subscription, or
\* because the rest ends.
SubscribeReturns ==
    /\ sub
    /\ sub' = FALSE
    /\ \/ cfgErr /\ cfgErr' = FALSE /\ done' = TRUE
       \/ done /\ UNCHANGED <<cfgErr, done>>
       \/ "subscribe" \in Fault /\ done' = TRUE /\ UNCHANGED cfgErr
    /\ UNCHANGED <<env, stations, hap, conf, db, topics, errs, watcher>>

\* main cancels the context that it gave to Run.
Stop ==
    /\ "stop" \in Fault
    /\ ~done
    /\ done' = TRUE
    /\ UNCHANGED <<env, stations, hap, conf, db, topics, errs, cfgErr, sub, watcher>>

EnvNext ==
    \/ \E h \in Hap, m \in MAC : Associate(h, m) \/ Disassociate(h, m)
    \/ \E h \in Hap : HostapdTerminates(h)
    \/ \E c \in Config : Receive(c)
    \/ Stop

HapNext(h) ==
    \/ Attach(h) \/ HandleConnect(h) \/ HapCancel(h) \/ HapHome(h) \/ HapAttrs(h)
    \/ HandleDisconnect(h) \/ HapEnqueue(h)
    \/ HandleTerminating(h) \/ HandleDetached(h) \/ ReadTimeout(h)

CbNext(t) ==
    \/ Fire(t) \/ Begin(t) \/ Skip(t)
    \/ CbNotHome(t) \/ CbRead(t) \/ CbAttrs(t) \/ CbReport(t)

RunNext == Watch \/ SubscribeReturns \/ \E h \in Hap : SendDetach(h)

Next ==
    \/ EnvNext
    \/ \E h \in Hap : HapNext(h)
    \/ ConfNext
    \/ \E t \in Timer : CbNext(t)
    \/ RunNext

\* Every goroutine that can move does.  A Go mutex hands the lock to the
\* goroutine that has waited longest (starvation mode), so a step that takes
\* Daemon.mu happens if the lock is free again and again: it is strongly fair,
\* and with it the other steps of its goroutine.
Fairness ==
    /\ \A h \in Hap : SF_vars(HapNext(h)) /\ WF_vars(SendDetach(h))
    /\ \A t \in Timer : SF_vars(CbNext(t))
    /\ WF_vars(ConfNext)
    /\ WF_vars(Watch)
    /\ WF_vars(SubscribeReturns)

SafeSpec == Init /\ [][Next]_vars
Spec     == SafeSpec /\ Fairness

------------------------------------------------------------------------------
(* What the daemon promises.                                               *)

\* A disconnect of m waits in the socket of h.
Leaving(h, m) == \E i \in 1..Len(evq[h]) :
    evq[h][i] = [kind |-> "disconnect", mac |-> m]

\* m is at the radio h, or its disconnect waits in the socket, or it left when
\* nobody was told.
Backed(h, m) == m \in assoc[h] \/ Leaving(h, m) \/ m \in unseen[h]

\* Whatever two radios, the configuration and the debouncer do at once, the
\* daemon holds a station for connected at a radio only if it is there, or the
\* event that will correct the daemon waits in the socket, or the station left
\* when nobody was told: a latent disconnect is never ignored by mistake
\* (daemon.go:444), a listing under the lock never outlives its events
\* (daemon.go:259-325).
BelievedIsBacked ==
    \A m \in MAC : Connected(m) => Backed(stations[m].bssid, m)

\* Nothing about m is under way: every radio is attached and reads, no event,
\* callback or configuration waits, and no error is on its way.
InFlight(m) ==
    \/ \E h \in Hap : \/ hap[h].mac = m
                      \/ \E i \in 1..Len(evq[h]) : evq[h][i].mac = m
    \/ \E t \in Timer : owner[t] = m

Settled ==
    /\ conf.pc = "idle" /\ ~done /\ ~cfgErr /\ errs = 0
    /\ \A t \in Timer : cb[t] # "errs"
    /\ \A h \in Hap : attached[h]

Gone(m) == \A h \in Hap : m \notin assoc[h]
Unseen(m) == \E h \in Hap : m \in unseen[h]

\* When nothing about a tracked station is under way and it is at no radio,
\* its topic does not say home: every departure that hostapd announced was
\* published, whatever callbacks were cancelled, refused or taken over
\* (daemon.go:441-495, README.md:66).
DepartureIsPublished ==
    \A m \in MAC :
        Settled /\ ~InFlight(m) /\ Tracked(m) /\ Gone(m) /\ ~Unseen(m)
            => state[m] # "home"

\* When nothing about a tracked station is under way and it is at a radio, its
\* topic says home, unless a callback that had begun before the station came
\* back published not_home after it (daemon.go:399-409, 464).
ArrivalIsPublished ==
    \A m \in MAC :
        Settled /\ ~InFlight(m) /\ Tracked(m) /\ ~Gone(m) /\ ~Unseen(m)
            => state[m] = "home" \/ m \in late

\* When nothing is under way about a station that the daemon holds for connected,
\* with whatever radios, its topic says home, but for such a late callback: who
\* only moves the station from radio to radio publishes too (daemon.go:322-342, 389-409).
BeliefIsPublished ==
    \A m \in MAC :
        Settled /\ ~InFlight(m) /\ Connected(m) => state[m] = "home" \/ m \in late

\* Once a configuration is processed, every device of it has a state and, with
\* autodiscovery, a discovery topic with its latest name (README.md:196-199).
ConfiguredIsPublished ==
    conf.pc = "idle" /\ ~done /\ ~cfgErr =>
        \A m \in MAC : Tracked(m) =>
            /\ state[m] # None
            /\ AutoDisc => disc[m] = stations[m].name

\* A tracked station that leaves for good is reported away in the end, and for
\* good, although nothing repeats the report (daemon.go:461-464).
DepartureIsReported ==
    \A m \in MAC :
        <>[](Tracked(m) /\ Gone(m) /\ ~Unseen(m)) => <>[](state[m] # "home")

\* Run returns.
Returned == ~sub /\ ~watcher /\ \A h \in Hap : hap[h].pc = "stopped"

\* Once one goroutine has failed or the context is cancelled, every goroutine
\* that Run waits for returns: none waits for ever on the lock, on a full
\* channel or on a socket that stays silent (daemon.go:141-182).
ShutdownCompletes == done ~> Returned
==============================================================================
