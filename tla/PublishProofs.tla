----------------------------- MODULE PublishProofs -----------------------------
(***************************************************************************)
(* What the daemon publishes, for any number of stations, radios and       *)
(* timers: a departure reaches the state topic and the attributes, and a   *)
(* configuration the topics of its devices; with one radio an arrival      *)
(* reaches them too.                                                       *)
(*                                                                         *)
(* The properties speak of a settled daemon.  The invariants say the same  *)
(* of every state: a topic that says home is covered, by a radio that has  *)
(* the station or will correct the daemon, by a callback that is due, or   *)
(* by a configuration that has the device still to process.  Every step    *)
(* hands the cover on, or publishes.                                       *)
(***************************************************************************)
EXTENDS Attributes, DaemonProofs

\* No configuration lists an address twice.
Distinct == \A c \in Config : \A i, j \in 1..Len(c) :
    i # j /\ c[i].mac = c[j].mac => c[i].mac = None

\* Something has failed, and Run returns or will: nothing is promised any more.
ConfTrouble == done \/ cfgErr \/ conf.pc = "report"
Trouble     == ConfTrouble \/ errs = 1 \/ \E t \in Timer : cb[t] = "errs"

\* A callback that has not begun will publish not_home first.
CbInv == \A t \in Timer :
    /\ phase[t] = "free" <=> cb[t] = "none"
    /\ phase[t] \in {"armed", "fired"} => cb[t] = "nothome"

\* How far a change may be, where onConfigChange is.
StepInv ==
    /\ conf.pc \in {"idle", "report"} => \A m \in MAC : conf.change[m] = "none"
    /\ conf.pc \in {"mark", "nothome", "home", "attrs"} => conf.change[conf.mac] = "added"
    /\ conf.pc \in {"home", "attrs"} => Connected(conf.mac)
    /\ conf.pc = "unregister" => conf.change[conf.mac] = "removed"
    /\ \A m \in MAC : conf.change[m] = "removed" => ~Tracked(m)

\* The devices that the loop has still to look at have no change yet.
DiffInv == conf.pc = "diff" =>
    \A k \in conf.i..Len(conf.cfg) :
        conf.cfg[k].mac # None => conf.change[conf.cfg[k].mac] = "none"

\* A goroutine that is about to publish home has its station.
ConnectingInv == \A h \in Hap :
    hap[h].pc \in {"cancel", "home", "attrs"} => Backed(h, hap[h].mac)

\* The callback of t has one of these steps before it, about m.
Running(t, m, steps) == phase[t] = "running" /\ owner[t] = m /\ cb[t] \in steps

\* A callback about m is to be queued, is queued, or has such a step before it.
Due(m, steps) ==
    \/ \E h \in Hap : hap[h].pc = "enqueue" /\ hap[h].mac = m
    \/ Db!Queued(m)
    \/ \E t \in Timer : Running(t, m, steps)

\* onConfigChange has still to publish whether the new device m is here.
Adding(m) == conf.change[m] = "added" /\ ~(conf.mac = m /\ conf.pc \in {"home", "attrs"})

Covered(m, steps) == Due(m, steps) \/ Adding(m) \/ \E h \in Hap : Backed(h, m)

\* A topic that says home is covered by what ends with not_home.
AwayInv == ~Trouble => \A m \in MAC :
    Tracked(m) /\ state[m] = "home" => Covered(m, {"nothome"})

\* Attributes that say connected are covered by what ends with the attributes.
Afterwards == {"nothome", "read", "attrs"}
AttrsInv == ~Trouble => \A m \in MAC :
    Tracked(m) /\ attrs[m] = TRUE => m \in unsaid \/ Covered(m, Afterwards)

\* A device without a state, or with the discovery topic of another name, has
\* a change that is not processed so far.
TopicInv == ~ConfTrouble => \A m \in MAC : Tracked(m) =>
    /\ state[m] = None => conf.change[m] = "added" /\ ~(conf.mac = m /\ conf.pc = "attrs")
    /\ AutoDisc => \/ disc[m] = stations[m].name
                   \/ /\ conf.change[m] \in {"added", "updated"}
                      /\ ~(conf.mac = m /\ conf.pc \in {"mark", "nothome", "home", "attrs"})

\* What every invariant below rests on.
BaseInv == /\ TypeInv /\ DbInv /\ BeliefInv /\ NewsOK
           /\ CbInv /\ StepInv /\ DiffInv /\ ConnectingInv

------------------------------------------------------------------------------
(* Failure is for good.                                                    *)

\* Goroutines other than the one that onConfigChange runs in leave it alone.
LEMMA ConfAlone ==
  ASSUME TypeInv, [Next]_vars, ~ConfNext, \A c \in Config : ~Receive(c)
  PROVE  conf' = conf
<1>1. ASSUME NEW h \in Hap, HapNext(h) PROVE conf' = conf
  BY <1>1 DEF HapNext, Attach, HandleConnect, HapCancel, HapHome, HapAttrs, HandleDisconnect,
              HapEnqueue, HandleTerminating, HandleDetached, ReadTimeout
<1>2. ASSUME NEW t \in Timer, CbNext(t) PROVE conf' = conf
  BY <1>2 DEF CbNext, Fire, Begin, Skip, CbNotHome, CbRead, CbAttrs, CbReport
<1>3. CASE EnvNext \/ RunNext \/ UNCHANGED vars
  BY <1>3 DEF EnvNext, RunNext, vars, Associate, Disassociate, HostapdTerminates, Stop, Watch,
              SubscribeReturns, SendDetach
<1> QED
  BY <1>1, <1>2, <1>3 DEF Next

LEMMA ConfTroubleStays == TypeInv /\ [Next]_vars /\ ConfTrouble => ConfTrouble'
<1> SUFFICES ASSUME TypeInv, [Next]_vars, ConfTrouble PROVE ConfTrouble'
  OBVIOUS
<1>1. CASE done
  <2>1. done'
    <3>1. ASSUME NEW h \in Hap, HapNext(h) PROVE done'
      BY <1>1, <3>1 DEF HapNext, Attach, HandleConnect, HapCancel, HapHome, HapAttrs,
           HandleDisconnect, HapEnqueue, HandleTerminating, HandleDetached, ReadTimeout,
           Aborts, control
    <3>2. ASSUME NEW t \in Timer, CbNext(t) PROVE done'
      BY <1>1, <3>2 DEF CbNext, Fire, Begin, Skip, CbNotHome, CbRead, CbAttrs, CbReport, control
    <3>3. CASE EnvNext \/ RunNext \/ UNCHANGED vars
      BY <1>1, <3>3 DEF EnvNext, RunNext, vars, Associate, Disassociate, HostapdTerminates,
           Receive, Stop, Watch, SubscribeReturns, SendDetach, control
    <3>4. CASE ConfNext
      BY <1>1, <3>4 DEF ConfNext, DiffDevice, DiffRemoved, ListRadio, ListDone, ApplyNoChange,
           ApplyUpdated, ApplyAdded, ApplyRemoved, Applied, Register, Mark, ConfNotHome,
           ConfHome, ConfAttrs, Unregister, ReportConf, control
    <3> QED BY <3>1, <3>2, <3>3, <3>4 DEF Next
  <2> QED BY <2>1 DEF ConfTrouble
<1>2. CASE cfgErr
  <2>1. cfgErr' \/ done'
    <3>1. ASSUME NEW h \in Hap, HapNext(h) PROVE cfgErr'
      BY <1>2, <3>1 DEF HapNext, Attach, HandleConnect, HapCancel, HapHome, HapAttrs,
           HandleDisconnect, HapEnqueue, HandleTerminating, HandleDetached, ReadTimeout,
           Aborts, control
    <3>2. ASSUME NEW t \in Timer, CbNext(t) PROVE cfgErr'
      BY <1>2, <3>2 DEF CbNext, Fire, Begin, Skip, CbNotHome, CbRead, CbAttrs, CbReport, control
    <3>3. CASE EnvNext \/ RunNext \/ UNCHANGED vars
      BY <1>2, <3>3 DEF EnvNext, RunNext, vars, Associate, Disassociate, HostapdTerminates,
           Receive, Stop, Watch, SubscribeReturns, SendDetach, control
    <3>4. CASE ConfNext
      BY <1>2, <3>4 DEF ConfNext, DiffDevice, DiffRemoved, ListRadio, ListDone, ApplyNoChange,
           ApplyUpdated, ApplyAdded, ApplyRemoved, Applied, Register, Mark, ConfNotHome,
           ConfHome, ConfAttrs, Unregister, ReportConf, control
    <3> QED BY <3>1, <3>2, <3>3, <3>4 DEF Next
  <2> QED BY <2>1 DEF ConfTrouble
<1>3. CASE conf.pc = "report"
  <2>1. CASE ConfNext
    <3>1. ReportConf
      BY <1>3, <2>1 DEF ConfNext, DiffDevice, DiffRemoved, ListRadio, ListDone, ApplyNoChange,
           ApplyUpdated, ApplyAdded, ApplyRemoved, Applied, Register, Mark, ConfNotHome,
           ConfHome, ConfAttrs, Unregister
    <3> QED BY <3>1 DEF ReportConf, ConfTrouble
  <2>2. CASE ~ConfNext
    <3>1. \A c \in Config : ~Receive(c)
      BY <1>3 DEF Receive
    <3> QED BY <1>3, <2>2, <3>1, ConfAlone DEF ConfTrouble
  <2> QED BY <2>1, <2>2
<1> QED
  BY <1>1, <1>2, <1>3 DEF ConfTrouble

------------------------------------------------------------------------------
(* The debouncer and its callbacks.                                        *)

\* A step of the debouncer that the daemon's goroutines take leaves the running
\* callbacks alone, and the entries of the other addresses.
LEMMA DropKeeps ==
  ASSUME DbOK, NEW n \in MAC, DropPending(n)
  PROVE  /\ \A m \in MAC : m # n /\ Db!Queued(m) => Db!Queued(m)'
         /\ \A t \in Timer : phase[t] = "running" =>
               phase'[t] = "running" /\ owner'[t] = owner[t] /\ cb'[t] = cb[t]
         /\ CbInv => CbInv'
<1>1. CASE Db!Queued(n)
  <2>1. /\ Db!Cancel(n)
        /\ cb' = [t \in Timer |-> IF phase'[t] = "free" THEN "none" ELSE cb[t]]
    BY <1>1 DEF DropPending
  <2>2. \A m \in MAC : m # n /\ Db!Queued(m) => Db!Queued(m)'
    BY <2>1 DEF DbOK, Db!TypeOK, Db!Cancel, Db!Queued
  <2>3. \A t \in Timer : \/ phase'[t] = "free" /\ phase[t] = "armed"
                         \/ phase'[t] = phase[t] /\ owner'[t] = owner[t]
    BY <2>1 DEF DbOK, Db!TypeOK, Db!Cancel
  <2>4. \A t \in Timer : phase[t] = "running" =>
           phase'[t] = "running" /\ owner'[t] = owner[t] /\ cb'[t] = cb[t]
    BY <2>1, <2>3
  <2>5. CbInv => CbInv'
    BY <2>1, <2>3 DEF CbInv
  <2> QED BY <2>2, <2>4, <2>5
<1>2. CASE ~Db!Queued(n)
  BY <1>2 DEF DropPending, db, Db!Queued, CbInv
<1> QED
  BY <1>1, <1>2

LEMMA EnqueueKeeps ==
  ASSUME DbOK, NEW h \in Hap, NEW n \in MAC, hap[h].mac = n, HapEnqueue(h)
  PROVE  /\ Db!Queued(n)'
         /\ \A m \in MAC : Db!Queued(m) => Db!Queued(m)'
         /\ \A t \in Timer : phase[t] = "running" =>
               phase'[t] = "running" /\ owner'[t] = owner[t] /\ cb'[t] = cb[t]
         /\ CbInv => CbInv'
<1>1. CASE Db!Queued(n)
  BY <1>1 DEF HapEnqueue, db, Db!Queued, CbInv
<1>2. CASE ~Db!Queued(n)
  <2>1. /\ Db!Enqueue(n)
        /\ cb' = [t \in Timer |-> IF phase'[t] = "armed" THEN "nothome" ELSE cb[t]]
    BY <1>2 DEF HapEnqueue
  <2>2. PICK u \in Timer :
          /\ phase[u] = "free"
          /\ queue' = [queue EXCEPT ![n] = u]
          /\ phase' = [phase EXCEPT ![u] = "armed"]
          /\ owner' = [owner EXCEPT ![u] = n]
    BY <2>1 DEF Db!Enqueue
  <2>3. Db!Queued(n)' /\ \A m \in MAC : Db!Queued(m) => Db!Queued(m)'
    BY <2>2, SentinelAssumption DEF DbOK, Db!TypeOK, Db!Queued
  <2>4. /\ \A t \in Timer : t # u => phase'[t] = phase[t] /\ owner'[t] = owner[t]
        /\ phase'[u] = "armed"
    BY <2>2 DEF DbOK, Db!TypeOK
  <2>5. \A t \in Timer : phase[t] = "running" =>
           phase'[t] = "running" /\ owner'[t] = owner[t] /\ cb'[t] = cb[t]
    BY <2>1, <2>2, <2>4
  <2>6. CbInv => CbInv'
    BY <2>1, <2>4 DEF CbInv
  <2> QED BY <2>3, <2>5, <2>6
<1> QED
  BY <1>1, <1>2

LEMMA InitCb == Init => CbInv
  BY DEF Init, Db!Init, CbInv

\* The callback of a timer and its phase go together.
LEMMA NextCb == TypeInv /\ CbInv /\ [Next]_vars => CbInv'
<1> SUFFICES ASSUME TypeInv, CbInv, [Next]_vars PROVE CbInv'
  OBVIOUS
<1> USE DEF TypeInv, TypeOK
<1>1. CASE UNCHANGED db
  BY <1>1 DEF db, CbInv
<1>2. ASSUME NEW h \in Hap, HapNext(h) PROVE CbInv'
  <2>1. CASE HapCancel(h)
    <3>1. PICK m \in MAC : m = hap[h].mac
      BY <2>1 DEF HapCancel, HapOK
    <3> QED BY <2>1, <3>1, DropKeeps DEF HapCancel
  <2>2. CASE HapEnqueue(h)
    <3>1. PICK m \in MAC : m = hap[h].mac
      BY <2>2 DEF HapEnqueue, HapOK
    <3> QED BY <2>2, <3>1, EnqueueKeeps
  <2>3. CASE ~HapCancel(h) /\ ~HapEnqueue(h)
    <3>1. UNCHANGED db
      BY <1>2, <2>3 DEF HapNext, Attach, HandleConnect, HapHome, HapAttrs, HandleDisconnect,
                        HandleTerminating, HandleDetached, ReadTimeout
    <3> QED BY <1>1, <3>1
  <2> QED BY <2>1, <2>2, <2>3
<1>3. CASE ConfNext
  <2>1. ASSUME NEW m \in MAC, ApplyRemoved(m) PROVE CbInv'
    BY <2>1, DropKeeps DEF ApplyRemoved
  <2>2. CASE Mark
    <3>1. PICK m \in MAC : m = conf.mac
      BY <2>2 DEF Mark, ConfOK, LockedStep
    <3>2. UNCHANGED db \/ DropPending(m)
      BY <2>2, <3>1 DEF Mark
    <3> QED BY <1>1, <3>2, DropKeeps
  <2>3. CASE ~Mark /\ ~\E m \in MAC : ApplyRemoved(m)
    <3>1. UNCHANGED db
      BY <1>3, <2>3 DEF ConfNext, DiffDevice, DiffRemoved, ListRadio, ListDone, ApplyNoChange,
                        ApplyUpdated, ApplyAdded, Applied, Register, ConfNotHome, ConfHome,
                        ConfAttrs, Unregister, ReportConf
    <3> QED BY <1>1, <3>1
  <2> QED BY <2>1, <2>2, <2>3
<1>4. ASSUME NEW t \in Timer, CbNext(t) PROVE CbInv'
  <2>1. /\ phase \in [Timer -> Db!Phase] /\ cb \in [Timer -> CbStep]
    BY DEF DbOK, Db!TypeOK
  <2>2. CASE Fire(t) \/ Begin(t) \/ Skip(t)
    BY <2>1, <2>2 DEF Fire, Begin, Skip, Db!Fire, Db!Begin, Db!Skip, CbInv
  <2>3. CASE CbNotHome(t) \/ CbRead(t) \/ CbAttrs(t) \/ CbReport(t)
    BY <2>1, <2>3 DEF CbNotHome, CbRead, CbAttrs, CbReport, At, GoesTo, Finishes, Db!Finish,
                      CbInv
  <2> QED BY <1>4, <2>2, <2>3 DEF CbNext
<1>5. CASE EnvNext \/ RunNext \/ UNCHANGED vars
  <2>1. UNCHANGED db
    BY <1>5 DEF EnvNext, RunNext, vars, Associate, Disassociate, HostapdTerminates, Receive,
                Stop, Watch, SubscribeReturns, SendDetach
  <2> QED BY <1>1, <2>1
<1> QED
  BY <1>2, <1>3, <1>4, <1>5 DEF Next

\* A running callback is left alone by all steps but its own.
LEMMA RunningAlone ==
  ASSUME TypeInv, [Next]_vars, NEW t \in Timer, phase[t] = "running",
         ~CbNotHome(t), ~CbRead(t), ~CbAttrs(t), ~CbReport(t)
  PROVE  phase'[t] = "running" /\ owner'[t] = owner[t] /\ cb'[t] = cb[t]
<1> USE DEF TypeInv, TypeOK
<1>1. CASE UNCHANGED db
  BY <1>1 DEF db
<1>2. ASSUME NEW m \in MAC,
             \/ DropPending(m)
             \/ \E h \in Hap : hap[h].mac = m /\ HapEnqueue(h)
      PROVE  phase'[t] = "running" /\ owner'[t] = owner[t] /\ cb'[t] = cb[t]
  BY <1>2, DropKeeps, EnqueueKeeps
<1>3. ASSUME NEW h \in Hap, HapNext(h) PROVE UNCHANGED db \/ \E m \in MAC :
          DropPending(m) \/ (hap[h].mac = m /\ HapEnqueue(h))
  BY <1>3 DEF HapOK, HapNext, Attach, HandleConnect, HapCancel, HapHome, HapAttrs,
              HandleDisconnect, HapEnqueue, HandleTerminating, HandleDetached, ReadTimeout
<1>4. CASE ConfNext
  <2>1. CASE Mark
    <3>1. PICK m \in MAC : m = conf.mac
      BY <2>1 DEF Mark, ConfOK, LockedStep
    <3>2. UNCHANGED db \/ DropPending(m)
      BY <2>1, <3>1 DEF Mark
    <3> QED BY <1>1, <1>2, <3>2
  <2>2. CASE ~Mark
    <3>1. UNCHANGED db \/ \E m \in MAC : DropPending(m)
      BY <1>4, <2>2 DEF ConfNext, DiffDevice, DiffRemoved, ListRadio, ListDone, ApplyNoChange,
           ApplyUpdated, ApplyAdded, ApplyRemoved, Applied, Register, ConfNotHome, ConfHome,
           ConfAttrs, Unregister, ReportConf
    <3> QED BY <1>1, <1>2, <3>1
  <2> QED BY <2>1, <2>2
<1>5. ASSUME NEW u \in Timer, CbNext(u)
      PROVE  phase'[t] = "running" /\ owner'[t] = owner[t] /\ cb'[t] = cb[t]
  <2>1. u # t \/ ~(Fire(u) \/ Begin(u) \/ Skip(u))
    BY DEF Fire, Begin, Skip, Db!Fire, Db!Begin, Db!Skip
  <2>2. u # t
    BY <1>5, <2>1 DEF CbNext
  <2>3. CASE Fire(u) \/ Begin(u) \/ Skip(u)
    BY <2>2, <2>3 DEF DbOK, Db!TypeOK, Fire, Begin, Skip, Db!Fire, Db!Begin, Db!Skip
  <2>4. CASE CbNotHome(u) \/ CbRead(u) \/ CbAttrs(u) \/ CbReport(u)
    BY <2>2, <2>4 DEF DbOK, Db!TypeOK, CbNotHome, CbRead, CbAttrs, CbReport, GoesTo, Finishes,
                      Db!Finish
  <2> QED BY <1>5, <2>3, <2>4 DEF CbNext
<1>6. CASE EnvNext \/ RunNext \/ UNCHANGED vars
  <2>1. UNCHANGED db
    BY <1>6 DEF EnvNext, RunNext, vars, Associate, Disassociate, HostapdTerminates, Receive,
                Stop, Watch, SubscribeReturns, SendDetach
  <2> QED BY <1>1, <2>1
<1> QED
  BY <1>1, <1>2, <1>3, <1>4, <1>5, <1>6 DEF Next

\* Who takes an entry out of the debouncer's map.
LEMMA QueuedUntil ==
  ASSUME TypeInv, [Next]_vars, NEW m \in MAC, Db!Queued(m), ~Db!Queued(m)'
  PROVE  \/ \E t \in Timer : Begin(t) /\ owner[t] = m
         \/ \E h \in Hap : HapCancel(h) /\ hap[h].mac = m
         \/ ApplyRemoved(m)
         \/ Mark /\ conf.mac = m /\ conf.listed[m] # None
<1> USE DEF TypeInv, TypeOK
<1>1. ~UNCHANGED db
  BY DEF db, Db!Queued
<1>2. ASSUME NEW n \in MAC, DropPending(n) PROVE n = m
  BY <1>2, DropKeeps
<1>3. ASSUME NEW h \in Hap, HapNext(h) PROVE HapCancel(h) /\ hap[h].mac = m
  <2>1. ~HapEnqueue(h)
    <3>1. ASSUME HapEnqueue(h) PROVE FALSE
      <4>1. PICK n \in MAC : n = hap[h].mac
        BY <3>1 DEF HapEnqueue, HapOK
      <4> QED BY <3>1, <4>1, EnqueueKeeps
    <3> QED BY <3>1
  <2>2. HapCancel(h)
    BY <1>1, <1>3, <2>1 DEF HapNext, Attach, HandleConnect, HapHome, HapAttrs,
         HandleDisconnect, HandleTerminating, HandleDetached, ReadTimeout
  <2>3. hap[h].mac \in MAC /\ DropPending(hap[h].mac)
    BY <2>2 DEF HapCancel, HapOK
  <2> QED BY <1>2, <2>2, <2>3
<1>4. ASSUME ConfNext PROVE ApplyRemoved(m) \/ (Mark /\ conf.mac = m /\ conf.listed[m] # None)
  <2>1. Mark \/ \E n \in MAC : ApplyRemoved(n)
    BY <1>1, <1>4 DEF ConfNext, DiffDevice, DiffRemoved, ListRadio, ListDone, ApplyNoChange,
         ApplyUpdated, ApplyAdded, Applied, Register, ConfNotHome, ConfHome, ConfAttrs,
         Unregister, ReportConf
  <2>2. ASSUME NEW n \in MAC, ApplyRemoved(n) PROVE ApplyRemoved(m)
    BY <1>2, <2>2 DEF ApplyRemoved
  <2>3. CASE Mark
    <3>1. conf.mac \in MAC
      BY <2>3 DEF Mark, ConfOK, LockedStep
    <3>2. conf.listed[conf.mac] # None /\ DropPending(conf.mac)
      BY <1>1, <2>3 DEF Mark
    <3> QED BY <1>2, <2>3, <3>1, <3>2
  <2> QED BY <2>1, <2>2, <2>3
<1>5. ASSUME NEW t \in Timer, CbNext(t) PROVE Begin(t) /\ owner[t] = m
  <2>1. queue' # queue
    BY DEF Db!Queued
  <2>2. Begin(t)
    BY <1>5, <2>1 DEF CbNext, Fire, Skip, CbNotHome, CbRead, CbAttrs, CbReport, GoesTo,
         Finishes, Db!Fire, Db!Skip, Db!Finish
  <2>3. owner[t] = m
    BY <2>2 DEF DbOK, Db!TypeOK, Begin, Db!Begin, Db!Queued
  <2> QED BY <2>2, <2>3
<1>6. CASE EnvNext \/ RunNext \/ UNCHANGED vars
  <2>1. UNCHANGED db
    BY <1>6 DEF EnvNext, RunNext, vars, Associate, Disassociate, HostapdTerminates, Receive,
                Stop, Watch, SubscribeReturns, SendDetach
  <2> QED BY <1>1, <2>1
<1> QED
  BY <1>3, <1>4, <1>5, <1>6 DEF Next

\* An error that a callback has to report, or has reported, is not lost.
LEMMA TroubleStays == TypeInv /\ CbInv /\ [Next]_vars /\ Trouble => Trouble'
<1> SUFFICES ASSUME TypeInv, CbInv, [Next]_vars, Trouble PROVE Trouble'
  OBVIOUS
<1> USE DEF TypeInv, TypeOK
<1>1. CASE ConfTrouble
  BY <1>1, ConfTroubleStays DEF Trouble
<1>2. CASE errs = 1
  <2>1. errs' = errs \/ done'
    <3>1. ASSUME NEW h \in Hap, HapNext(h) PROVE errs' = errs
      BY <3>1 DEF HapNext, Attach, HandleConnect, HapCancel, HapHome, HapAttrs,
           HandleDisconnect, HapEnqueue, HandleTerminating, HandleDetached, ReadTimeout,
           Aborts, control
    <3>2. ASSUME NEW t \in Timer, CbNext(t) PROVE errs' = errs
      BY <1>2, <3>2 DEF CbNext, Fire, Begin, Skip, CbNotHome, CbRead, CbAttrs, CbReport, control
    <3>3. CASE EnvNext \/ RunNext \/ UNCHANGED vars
      BY <3>3 DEF EnvNext, RunNext, vars, Associate, Disassociate, HostapdTerminates,
           Receive, Stop, Watch, SubscribeReturns, SendDetach, control
    <3>4. CASE ConfNext
      BY <3>4 DEF ConfNext, DiffDevice, DiffRemoved, ListRadio, ListDone, ApplyNoChange,
           ApplyUpdated, ApplyAdded, ApplyRemoved, Applied, Register, Mark, ConfNotHome,
           ConfHome, ConfAttrs, Unregister, ReportConf, control
    <3> QED BY <3>1, <3>2, <3>3, <3>4 DEF Next
  <2> QED BY <1>2, <2>1 DEF Trouble, ConfTrouble
<1>3. ASSUME NEW t \in Timer, cb[t] = "errs" PROVE Trouble'
  <2>1. phase[t] = "running"
    BY <1>3 DEF CbInv, DbOK, Db!TypeOK, Db!Phase
  <2>2. ~CbNotHome(t) /\ ~CbRead(t) /\ ~CbAttrs(t)
    BY <1>3 DEF CbNotHome, CbRead, CbAttrs, At
  <2>3. CASE CbReport(t)
    BY <2>3 DEF CbReport, Trouble
  <2>4. CASE ~CbReport(t)
    BY <1>3, <2>1, <2>2, <2>4, RunningAlone DEF Trouble
  <2> QED BY <2>3, <2>4
<1> QED
  BY <1>1, <1>2, <1>3 DEF Trouble

------------------------------------------------------------------------------
(* How far onConfigChange is.                                              *)

LEMMA ConfFields ==
  ASSUME ConfOK, NEW m \in MAC
  PROVE  /\ Settles(m) =>
               /\ conf'.pc = "apply" /\ conf'.mac = None
               /\ \A n \in MAC : conf'.change[n] = IF n = m THEN "none" ELSE conf.change[n]
         /\ \A step : Proceeds(m, step) =>
               /\ conf'.pc = step /\ conf'.mac = m
               /\ conf'.change = conf.change
         /\ \A step \in {"idle", "report"} : conf' = Waiting(step) =>
               /\ conf'.pc = step /\ conf'.mac = None
               /\ \A n \in MAC : conf'.change[n] = "none"
<1>1. Settles(m) =>
        /\ conf'.pc = "apply" /\ conf'.mac = None
        /\ \A n \in MAC : conf'.change[n] = IF n = m THEN "none" ELSE conf.change[n]
  BY DEF ConfOK, ConfState, Settles
<1>2. ASSUME NEW step, Proceeds(m, step)
      PROVE  conf'.pc = step /\ conf'.mac = m /\ conf'.change = conf.change
  BY <1>2 DEF ConfOK, ConfState, Proceeds
<1>3. ASSUME NEW step \in {"idle", "report"}, conf' = Waiting(step)
      PROVE  /\ conf'.pc = step /\ conf'.mac = None
             /\ \A n \in MAC : conf'.change[n] = "none"
  BY <1>3 DEF Waiting, NoChanges
<1> QED
  BY <1>1, <1>2, <1>3

\* Only onConfigChange adds, removes or renames a station, and nobody else
\* writes to one while it has the lock.
LEMMA StationsAlone ==
  ASSUME TypeInv, [Next]_vars, ~ConfNext
  PROVE  /\ \A m \in MAC : /\ Tracked(m)' <=> Tracked(m)
                           /\ Tracked(m) => stations'[m].name = stations[m].name
         /\ conf.pc \in LockedStep => stations' = stations
<1> USE DEF TypeInv, TypeOK
<1>1. CASE stations' = stations
  BY <1>1 DEF Tracked
<1>2. ASSUME NEW h \in Hap, HandleConnect(h) \/ HandleDisconnect(h), stations' # stations
      PROVE  /\ conf.pc \notin LockedStep
             /\ \A m \in MAC : /\ Tracked(m)' <=> Tracked(m)
                               /\ Tracked(m) => stations'[m].name = stations[m].name
  <2>1. conf.pc \notin LockedStep
    BY <1>2 DEF HandleConnect, HandleDisconnect, Unlocked
  <2>2. PICK m \in MAC : m = Head(evq[h]).mac
    BY <1>2, ReceivesType DEF HandleConnect, HandleDisconnect
  <2>3. Tracked(m)
    BY <1>2, <2>2 DEF HandleConnect, HandleDisconnect
  <2>4. \/ stations' = [stations EXCEPT ![m].connected = TRUE, ![m].bssid = h]
        \/ stations' = [stations EXCEPT ![m].connected = FALSE]
    BY <1>2, <2>2 DEF HandleConnect, HandleDisconnect
  <2>5. /\ stations'[m] \in Station /\ stations'[m].name = stations[m].name
        /\ \A n \in MAC : n # m => stations'[n] = stations[n]
    BY <2>3, <2>4 DEF StationsOK, Station, Tracked
  <2> QED BY <2>1, <2>3, <2>5, SentinelAssumption DEF Tracked
<1>3. ASSUME NEW h \in Hap, HapNext(h)
      PROVE  stations' = stations \/ HandleConnect(h) \/ HandleDisconnect(h)
  BY <1>3 DEF HapNext, Attach, HapCancel, HapHome, HapAttrs, HapEnqueue, HandleTerminating,
              HandleDetached, ReadTimeout
<1>4. ASSUME NEW t \in Timer, CbNext(t) PROVE stations' = stations
  BY <1>4 DEF CbNext, Fire, Begin, Skip, CbNotHome, CbRead, CbAttrs, CbReport
<1>5. CASE EnvNext \/ RunNext \/ UNCHANGED vars
  <2>1. stations' = stations
    BY <1>5 DEF EnvNext, RunNext, vars, Associate, Disassociate, HostapdTerminates, Receive,
                Stop, Watch, SubscribeReturns, SendDetach
  <2> QED BY <1>1, <2>1
<1> QED
  BY <1>1, <1>2, <1>3, <1>4, <1>5 DEF Next

\* A round of the loop over the devices.
LEMMA DiffFields ==
  ASSUME TypeInv, DiffDevice, conf.cfg[conf.i].mac # None
  PROVE  \E m \in MAC : \E n \in Name \union {None} :
           /\ conf.cfg[conf.i].mac = m /\ conf.cfg[conf.i].name = n
           /\ conf'.pc = "diff" /\ conf'.mac = conf.mac /\ conf'.cfg = conf.cfg
           /\ conf'.i = conf.i + 1
           /\ \A k \in MAC : conf'.change[k] = IF k # m THEN conf.change[k]
                ELSE IF ~Tracked(m) THEN "added"
                ELSE IF stations[m].name # n THEN "updated" ELSE "nochange"
           /\ \A k \in MAC : k # m => stations'[k] = stations[k]
           /\ Tracked(m)' /\ stations'[m].name = n
<1> USE DEF TypeInv, TypeOK
<1> DEFINE d == conf.cfg[conf.i]
<1>1. d \in Device
  BY ConfigAssumption DEF DiffDevice, ConfOK, ConfState
<1>2. PICK m \in MAC, n \in Name \union {None} : d.mac = m /\ d.name = n
  BY <1>1 DEF Device
<1> DEFINE s == IF Tracked(m) THEN [stations[m] EXCEPT !.name = n]
                ELSE [name |-> n, connected |-> FALSE, bssid |-> None]
           c == IF ~Tracked(m) THEN "added"
                ELSE IF stations[m].name # n THEN "updated" ELSE "nochange"
<1>3. /\ conf' = [conf EXCEPT !.i = @ + 1, !.change[m] = c, !.update = @ \/ c # "nochange"]
      /\ stations' = [stations EXCEPT ![m] = s]
  BY <1>2 DEF DiffDevice, ChangeOf
<1>4. s \in Station /\ s.name = n
  BY DEF StationsOK, Station, Tracked
<1> HIDE DEF d, s, c
<1>5. /\ conf'.pc = "diff" /\ conf'.mac = conf.mac /\ conf'.cfg = conf.cfg
      /\ conf'.i = conf.i + 1
      /\ \A k \in MAC : conf'.change[k] = IF k # m THEN conf.change[k] ELSE c
  BY <1>3 DEF DiffDevice, ConfOK, ConfState
<1>6. /\ \A k \in MAC : k # m => stations'[k] = stations[k]
      /\ Tracked(m)' /\ stations'[m].name = n
  BY <1>3, <1>4, SentinelAssumption DEF StationsOK, Tracked
<1> QED
  BY <1>2, <1>5, <1>6 DEF c, d

\* The end of that loop.
LEMMA RemovedFields ==
  ASSUME TypeInv, DiffRemoved
  PROVE  /\ \A m \in MAC : Tracked(m)' => Tracked(m) /\ stations'[m] = stations[m]
         /\ \/ conf' = Waiting("idle") /\ ~Changed
            \/ /\ conf'.pc \in {"list", "apply"} /\ conf'.mac = conf.mac
               /\ \A m \in MAC :
                    \/ conf'.change[m] = conf.change[m]
                    \/ conf'.change[m] = "removed" /\ conf.change[m] = "none" /\ ~Tracked(m)'
<1> USE DEF TypeInv, TypeOK
<1> DEFINE gone == {m \in MAC : Tracked(m) /\ conf.change[m] = "none"}
<1>1. stations' = [m \in MAC |-> IF m \in gone THEN None ELSE stations[m]]
  BY DEF DiffRemoved
<1>2. \A m \in MAC : Tracked(m)' => Tracked(m) /\ stations'[m] = stations[m]
  BY <1>1 DEF Tracked
<1>3. CASE Changed \/ gone # {}
  <2>1. conf' = [conf EXCEPT
          !.pc = IF conf.update THEN "list" ELSE "apply",
          !.cfg = <<>>,
          !.i = 1,
          !.change = [m \in MAC |-> IF m \in gone THEN "removed" ELSE @[m]]]
    BY <1>3 DEF DiffRemoved
  <2>2. conf'.pc \in {"list", "apply"} /\ conf'.mac = conf.mac
    BY <2>1 DEF ConfOK, ConfState
  <2>3. \A m \in MAC : conf'.change[m] = IF m \in gone THEN "removed" ELSE conf.change[m]
    BY <2>1 DEF ConfOK, ConfState
  <2>4. \A m \in gone : ~Tracked(m)'
    BY <1>1 DEF Tracked
  <2> QED BY <1>2, <2>2, <2>3, <2>4
<1>4. CASE ~(Changed \/ gone # {})
  BY <1>2, <1>4 DEF DiffRemoved
<1> QED
  BY <1>3, <1>4

\* The listing.
LEMMA ListFields ==
  ASSUME TypeInv, ListRadio \/ ListDone
  PROVE  /\ stations' = stations
         /\ conf.pc = "list"
         /\ \/ conf' = Waiting("report")
            \/ /\ conf'.pc \in {"list", "apply"} /\ conf'.mac = conf.mac
               /\ conf'.change = conf.change
  BY DEF TypeInv, TypeOK, ListRadio, ListDone, ConfFails, ConfOK, ConfState

\* The new station is marked.
LEMMA MarkFields ==
  ASSUME TypeInv, Mark
  PROVE  \E m \in MAC :
           /\ conf.mac = m /\ conf'.mac = m /\ conf'.change = conf.change
           /\ Tracked(m) /\ Tracked(m)' /\ stations'[m].name = stations[m].name
           /\ \A k \in MAC : k # m => stations'[k] = stations[k]
           /\ \/ conf.listed[m] # None /\ conf'.pc = "home" /\ Connected(m)'
              \/ conf.listed[m] = None /\ conf'.pc = "nothome"
<1> USE DEF TypeInv, TypeOK
<1>1. PICK m \in MAC : m = conf.mac
  BY DEF Mark, ConfOK, LockedStep
<1>2. Tracked(m)
  BY <1>1 DEF Mark, ConfOK, ChangeIsTracked
<1>3. CASE conf.listed[m] # None
  <2>1. PICK h \in Hap : h = conf.listed[m]
    BY <1>3 DEF ConfOK, ConfState
  <2>2. /\ stations' = [stations EXCEPT ![m].connected = TRUE, ![m].bssid = h]
        /\ Proceeds(m, "home")
    BY <1>1, <1>3, <2>1 DEF Mark
  <2>3. /\ stations'[m] \in Station /\ stations'[m].name = stations[m].name
        /\ stations'[m].connected
        /\ \A k \in MAC : k # m => stations'[k] = stations[k]
    BY <1>2, <2>2 DEF StationsOK, Station, Tracked
  <2>4. Tracked(m)' /\ Connected(m)'
    BY <2>3, SentinelAssumption DEF Tracked, Connected
  <2>5. conf'.pc = "home" /\ conf'.mac = m /\ conf'.change = conf.change
    BY <2>2, ConfFields
  <2> QED BY <1>1, <1>2, <1>3, <2>3, <2>4, <2>5
<1>4. CASE conf.listed[m] = None
  <2>1. /\ stations' = [stations EXCEPT ![m].connected = FALSE]
        /\ Proceeds(m, "nothome")
    BY <1>1, <1>4 DEF Mark
  <2>2. /\ stations'[m] \in Station /\ stations'[m].name = stations[m].name
        /\ \A k \in MAC : k # m => stations'[k] = stations[k]
    BY <1>2, <2>1 DEF StationsOK, Station, Tracked
  <2>3. Tracked(m)'
    BY <2>2, SentinelAssumption DEF Tracked
  <2> QED BY <1>1, <1>2, <1>4, <2>1, <2>2, <2>3, ConfFields
<1> QED
  BY <1>3, <1>4

\* What is left of onConfigChange leaves the stations alone, and either goes on
\* with a change or is done with it.
LEMMA ChangeStep ==
  ASSUME TypeInv, StepInv,
         \/ \E m \in MAC : ApplyNoChange(m) \/ ApplyUpdated(m) \/ ApplyAdded(m) \/ ApplyRemoved(m)
         \/ Applied \/ Register \/ ConfNotHome \/ ConfHome \/ ConfAttrs \/ Unregister \/ ReportConf
  PROVE  /\ stations' = stations
         /\ conf.pc # "diff" /\ conf'.pc # "diff"
         /\ \/ conf' = Waiting("idle") \/ conf' = Waiting("report")
            \/ \E m \in MAC : Settles(m)
            \/ \E m \in MAC : \E step \in LockedStep \ {"diff", "list"} :
                 /\ Proceeds(m, step)
                 /\ step \in {"mark", "nothome", "home", "attrs"} => conf.change[m] = "added"
                 /\ step \in {"home", "attrs"} => Connected(m)
                 /\ step = "unregister" => conf.change[m] = "removed"
<1> USE DEF TypeInv, TypeOK
<1>1. stations' = stations
  BY DEF ApplyNoChange, ApplyUpdated, ApplyAdded, ApplyRemoved, Applied, Register, ConfNotHome,
         ConfHome, ConfAttrs, Unregister, ReportConf
<1>2. ASSUME NEW m \in MAC,
             ApplyNoChange(m) \/ ApplyUpdated(m) \/ ApplyAdded(m) \/ ApplyRemoved(m)
      PROVE  \/ Settles(m)
             \/ \E step \in {"register", "mark", "unregister"} :
                  /\ Proceeds(m, step)
                  /\ step = "mark" => conf.change[m] = "added"
                  /\ step = "unregister" => conf.change[m] = "removed"
  BY <1>2 DEF ApplyNoChange, ApplyUpdated, ApplyAdded, ApplyRemoved
<1>3. \/ conf' = Waiting("idle") \/ conf' = Waiting("report")
      \/ \E m \in MAC : Settles(m)
      \/ \E m \in MAC : \E step \in LockedStep \ {"diff", "list"} :
           /\ Proceeds(m, step)
           /\ step \in {"mark", "nothome", "home", "attrs"} => conf.change[m] = "added"
           /\ step \in {"home", "attrs"} => Connected(m)
           /\ step = "unregister" => conf.change[m] = "removed"
  <2>1. CASE \E m \in MAC : ApplyNoChange(m) \/ ApplyUpdated(m) \/ ApplyAdded(m) \/ ApplyRemoved(m)
    BY <1>2, <2>1 DEF LockedStep
  <2>2. CASE Register \/ ConfNotHome \/ ConfHome \/ ConfAttrs \/ Unregister
    <3>1. conf.mac \in MAC
      BY <2>2 DEF Register, ConfNotHome, ConfHome, ConfAttrs, Unregister, ConfOK, LockedStep
    <3>2. \/ conf' = Waiting("report") \/ Settles(conf.mac)
          \/ Proceeds(conf.mac, "mark") /\ conf.change[conf.mac] = "added"
          \/ Proceeds(conf.mac, "attrs") /\ conf.pc = "home"
      BY <2>2 DEF Register, ConfNotHome, ConfHome, ConfAttrs, Unregister, ConfFails
    <3> QED BY <3>1, <3>2 DEF StepInv, LockedStep
  <2>3. CASE Applied \/ ReportConf
    BY <2>3 DEF Applied, ReportConf
  <2> QED BY <2>1, <2>2, <2>3
<1>4. conf.pc # "diff"
  BY DEF ApplyNoChange, ApplyUpdated, ApplyAdded, ApplyRemoved, Applied, Register, ConfNotHome,
         ConfHome, ConfAttrs, Unregister, ReportConf
<1>5. conf'.pc # "diff"
  <2>1. ASSUME NEW m \in MAC, NEW step \in LockedStep \ {"diff", "list"}, Proceeds(m, step)
        PROVE  conf'.pc # "diff"
    BY <2>1, ConfFields
  <2>2. ASSUME NEW m \in MAC, Settles(m) PROVE conf'.pc # "diff"
    BY <2>2, ConfFields
  <2> QED BY <1>3, <2>1, <2>2, WaitingType
<1> QED
  BY <1>1, <1>3, <1>4, <1>5

LEMMA InitStep == Init => StepInv /\ DiffInv
  BY WaitingType DEF Init, StepInv, DiffInv, Tracked, Nowhere

LEMMA NextStep == TypeInv /\ StepInv /\ [Next]_vars => StepInv'
<1> SUFFICES ASSUME TypeInv, StepInv, [Next]_vars PROVE StepInv'
  OBVIOUS
<1> USE DEF TypeInv, TypeOK
<1>w. ASSUME NEW step \in {"idle", "report"}, conf' = Waiting(step) PROVE StepInv'
  <2>1. /\ conf'.pc = step /\ \A m \in MAC : conf'.change[m] = "none"
    BY <1>w, WaitingType
  <2> QED BY <2>1 DEF StepInv
<1>1. CASE ~ConfNext
  <2>1. CASE \E c \in Config : Receive(c)
    <3>1. PICK c \in Config : conf' = [Waiting("diff") EXCEPT !.cfg = c]
      BY <2>1 DEF Receive
    <3>2. conf'.pc = "diff" /\ \A m \in MAC : conf'.change[m] = "none"
      BY <3>1, WaitingType DEF ConfState, Waiting, NoChanges
    <3> QED BY <3>2 DEF StepInv
  <2>2. CASE \A c \in Config : ~Receive(c)
    <3>1. conf' = conf
      BY <1>1, <2>2, ConfAlone
    <3>2. \A m \in MAC : Tracked(m)' <=> Tracked(m)
      BY <1>1, StationsAlone
    <3>3. conf.pc \in {"home", "attrs"} => stations' = stations
      BY <1>1, StationsAlone DEF LockedStep
    <3> QED BY <3>1, <3>2, <3>3 DEF StepInv, Connected, Tracked
  <2> QED BY <2>1, <2>2
<1>2. CASE DiffDevice
  <2>1. CASE conf.cfg[conf.i].mac = None
    BY <1>2, <1>w, <2>1 DEF DiffDevice, ConfFails
  <2>2. CASE conf.cfg[conf.i].mac # None
    <3>1. PICK m \in MAC :
            /\ conf'.pc = "diff" /\ Tracked(m)'
            /\ \A k \in MAC : k # m => conf'.change[k] = conf.change[k]
                                       /\ stations'[k] = stations[k]
            /\ conf'.change[m] # "removed"
      BY <1>2, <2>2, DiffFields
    <3> QED BY <3>1 DEF StepInv, Tracked
  <2> QED BY <2>1, <2>2
<1>3. CASE DiffRemoved
  <2>1. CASE conf' = Waiting("idle")
    BY <1>w, <2>1
  <2>2. CASE conf' # Waiting("idle")
    BY <1>3, <2>2, RemovedFields DEF StepInv
  <2> QED BY <2>1, <2>2
<1>4. CASE ListRadio \/ ListDone
  BY <1>4, <1>w, ListFields DEF StepInv, Tracked
<1>5. CASE Mark
  <2>1. PICK m \in MAC :
          /\ conf.mac = m /\ conf'.mac = m /\ conf'.change = conf.change
          /\ Tracked(m) /\ Tracked(m)'
          /\ \A k \in MAC : k # m => stations'[k] = stations[k]
          /\ conf'.pc \in {"home", "nothome"} /\ (conf'.pc = "home" => Connected(m)')
    BY <1>5, MarkFields
  <2>2. conf.change[m] = "added"
    BY <1>5, <2>1 DEF Mark, StepInv
  <2> QED BY <2>1, <2>2 DEF StepInv, Tracked, Connected
<1>6. CASE \/ \E m \in MAC : ApplyNoChange(m) \/ ApplyUpdated(m) \/ ApplyAdded(m) \/ ApplyRemoved(m)
           \/ Applied \/ Register \/ ConfNotHome \/ ConfHome \/ ConfAttrs \/ Unregister \/ ReportConf
  <2>1. stations' = stations
    BY <1>6, ChangeStep
  <2>2. ASSUME NEW m \in MAC, Settles(m) PROVE StepInv'
    BY <2>1, <2>2, ConfFields DEF StepInv, Tracked
  <2>3. ASSUME NEW m \in MAC, NEW step \in LockedStep, Proceeds(m, step),
               step \in {"mark", "nothome", "home", "attrs"} => conf.change[m] = "added",
               step \in {"home", "attrs"} => Connected(m),
               step = "unregister" => conf.change[m] = "removed"
        PROVE  StepInv'
    <3>1. conf'.pc = step /\ conf'.mac = m /\ conf'.change = conf.change
      BY <2>3, ConfFields
    <3>2. step \notin {"idle", "report"}
      BY DEF LockedStep
    <3> QED BY <2>1, <2>3, <3>1, <3>2 DEF StepInv, Tracked, Connected
  <2> QED BY <1>6, <1>w, <2>2, <2>3, ChangeStep
<1> QED
  BY <1>1, <1>2, <1>3, <1>4, <1>5, <1>6 DEF ConfNext

\* No round of the loop over the devices looks at a device twice.
LEMMA NextDiff ==
  ASSUME Distinct, TypeInv, StepInv, DiffInv, [Next]_vars
  PROVE  DiffInv'
<1> USE DEF TypeInv, TypeOK
<1>1. CASE conf' = conf
  BY <1>1 DEF DiffInv
<1>2. CASE conf'.pc # "diff"
  BY <1>2 DEF DiffInv
<1>3. CASE ~ConfNext
  <2>1. ASSUME NEW c \in Config, Receive(c) PROVE DiffInv'
    <3>1. conf' = [Waiting("diff") EXCEPT !.cfg = c]
      BY <2>1 DEF Receive
    <3>2. conf'.cfg = c /\ conf'.i = 1 /\ \A m \in MAC : conf'.change[m] = "none"
      BY <3>1 DEF Waiting, NoChanges
    <3>3. c \in Seq(Device)
      BY ConfigAssumption
    <3>4. ASSUME NEW k \in 1..Len(c), c[k].mac # None PROVE c[k].mac \in MAC
      <4>1. c[k] \in Device
        BY <3>3
      <4> QED BY <3>4, <4>1 DEF Device
    <3> QED BY <3>2, <3>4 DEF DiffInv
  <2> QED BY <1>1, <1>3, <2>1, ConfAlone
<1>4. CASE DiffDevice
  <2>1. CASE conf.cfg[conf.i].mac = None
    BY <1>4, <2>1, WaitingType DEF DiffDevice, ConfFails, DiffInv
  <2>2. CASE conf.cfg[conf.i].mac # None
    <3>1. PICK m \in MAC :
            /\ conf.cfg[conf.i].mac = m
            /\ conf'.cfg = conf.cfg /\ conf'.i = conf.i + 1
            /\ \A k \in MAC : k # m => conf'.change[k] = conf.change[k]
      BY <1>4, <2>2, DiffFields
    <3>2. conf.cfg \in Config /\ conf.i \in 1..Len(conf.cfg) /\ conf.pc = "diff"
      BY <1>4 DEF DiffDevice, ConfOK, ConfState
    <3>3. Len(conf.cfg) \in Nat /\ conf.cfg \in Seq(Device)
      BY <3>2, ConfigAssumption
    <3>4. ASSUME NEW k \in (conf.i + 1)..Len(conf.cfg), conf.cfg[k].mac # None
          PROVE  conf'.change[conf.cfg[k].mac] = "none"
      <4>1. k \in conf.i..Len(conf.cfg) /\ k \in 1..Len(conf.cfg) /\ k # conf.i
        BY <3>2, <3>3
      <4>2. conf.cfg[k].mac # m
        BY <3>1, <3>2, <3>4, <4>1 DEF Distinct
      <4>3. conf.cfg[k].mac \in MAC
        <5>1. conf.cfg[k] \in Device
          BY <3>3, <4>1
        <5> QED BY <3>4, <5>1 DEF Device
      <4> QED BY <3>1, <3>2, <3>4, <4>1, <4>2, <4>3 DEF DiffInv
    <3> QED BY <3>1, <3>4 DEF DiffInv
  <2> QED BY <2>1, <2>2
<1>5. CASE ConfNext /\ ~DiffDevice
  <2>1. conf'.pc # "diff"
    BY <1>5, RemovedFields, ListFields, MarkFields, ChangeStep, WaitingType DEF ConfNext
  <2> QED BY <1>2, <2>1
<1> QED
  BY <1>3, <1>4, <1>5

------------------------------------------------------------------------------
(* The cover of a topic that says home.                                    *)

\* A radio stops backing a station when the daemon reads its disconnect, or when
\* a listing makes up for what nobody was told; then no event of the station is
\* being handled.
LEMMA BackedUntil ==
  ASSUME TypeInv, BeliefInv, NewsOK, [Next]_vars, NEW h \in Hap, NEW m \in MAC,
         Backed(h, m), ~Backed(h, m)'
  PROVE  \/ HandleDisconnect(h) /\ Head(evq[h]) = Disconnect(m)
         \/ /\ ListRadio /\ conf.change[m] = "added"
            /\ hap[h].pc \in Connecting => hap[h].mac # m
<1> USE DEF TypeInv, TypeOK
<1>1. EnvOK /\ ArrivalsOK
  BY DEF BeliefInv
<1>2. ~Kept
  BY DEF Kept
<1>3. ~UNCHANGED <<assoc, evq, unseen>>
  BY <1>2, SameKeeps
<1>4. ASSUME NEW g \in Hap, HapNext(g) PROVE HandleDisconnect(h) /\ Head(evq[h]) = Disconnect(m)
  <2>1. PICK kind \in {"connect", "disconnect", "terminating", "detached"} :
          /\ Receives(g, kind) /\ UNCHANGED <<assoc, unseen>>
          /\ kind = "disconnect" => HandleDisconnect(g)
    BY <1>3, <1>4 DEF HapNext, Attach, HandleConnect, HapCancel, HapHome, HapAttrs,
         HandleDisconnect, HapEnqueue, HandleTerminating, HandleDetached, ReadTimeout, env
  <2>2. g = h /\ Head(evq[h]) = Disconnect(m)
    BY <1>1, <2>1, ReceiveKeeps
  <2>3. kind = "disconnect"
    BY <2>1, <2>2 DEF Receives, Disconnect
  <2> QED BY <2>1, <2>2, <2>3
<1>5. ASSUME ConfNext
      PROVE  /\ ListRadio /\ conf.change[m] = "added"
             /\ hap[h].pc \in Connecting => hap[h].mac # m
  <2>1. ListRadio
    BY <1>3, <1>5 DEF ConfNext, DiffDevice, DiffRemoved, ListDone, ApplyNoChange, ApplyUpdated,
         ApplyAdded, ApplyRemoved, Applied, Register, Mark, ConfNotHome, ConfHome, ConfAttrs,
         Unregister, ReportConf, env
  <2>2. PICK g \in Hap : g = HapOrder[conf.i]
    <3>1. conf.i \in Nat \ {0} /\ conf.i <= Len(HapOrder)
      BY <2>1 DEF ListRadio, ConfOK, ConfState
    <3> QED BY <3>1, HapOrderAssumption
  <2> DEFINE added == {n \in MAC : conf.change[n] = "added"}
  <2>3. Listens(g) /\ unseen' = [unseen EXCEPT ![g] = @ \ added]
    BY <1>3, <2>1, <2>2 DEF ListRadio
  <2>4. assoc' = assoc /\ evq' = evq
    BY <2>1 DEF ListRadio
  <2>5. \A f \in Hap, n \in MAC :
          Backed(f, n) => Backed(f, n)' \/ (f = g /\ n \in added /\ n \in unseen[g])
    BY <2>3, <2>4 DEF EnvOK, Backed, Leaving
  <2>6. h = g /\ m \in added /\ m \in unseen[h]
    BY <2>5
  <2>7. hap[h].pc \in Connecting => hap[h].mac # m
    BY <2>3, <2>6 DEF Listens, NewsOK, Connecting
  <2> QED BY <2>1, <2>6, <2>7
<1>6. ASSUME NEW t \in Timer, CbNext(t) PROVE FALSE
  BY <1>3, <1>6 DEF CbNext, Fire, Begin, Skip, CbNotHome, CbRead, CbAttrs, CbReport, env
<1>7. ASSUME EnvNext PROVE FALSE
  BY <1>1, <1>2, <1>3, <1>7, AssociateKeeps, DisassociateKeeps, NoticeKeeps
  DEF EnvNext, Receive, Stop, env
<1>8. ASSUME RunNext PROVE FALSE
  BY <1>1, <1>2, <1>3, <1>8, NoticeKeeps DEF RunNext, Watch, SubscribeReturns, env
<1>9. ASSUME UNCHANGED vars PROVE FALSE
  BY <1>3, <1>9 DEF vars, env
<1> QED
  BY <1>4, <1>5, <1>6, <1>7, <1>8, <1>9 DEF Next

\* Where the goroutine of a radio is after a step of it.
LEMMA HapFields ==
  ASSUME HapOK, NEW h \in Hap
  PROVE  /\ Returns(h) => hap'[h].pc = "read"
         /\ Stops(h) => hap'[h].pc = "stopped"
         /\ \A step : Enters(h, step) => hap'[h].pc = step /\ hap'[h].mac = hap[h].mac
         /\ \A step : Returns(h) \/ Stops(h) \/ Enters(h, step) =>
               \A g \in Hap : g # h => hap'[g] = hap[g]
  BY DEF HapOK, HapState, Returns, Stops, Enters, Reading, Stopped

\* No goroutine moves that of another radio.
LEMMA HapAlone ==
  ASSUME TypeInv, [Next]_vars, NEW h \in Hap, ~HapNext(h)
  PROVE  hap'[h] = hap[h]
<1> USE DEF TypeInv, TypeOK
<1>1. ASSUME NEW g \in Hap, HapNext(g) PROVE hap'[h] = hap[h]
  <2>1. g # h
    BY <1>1
  <2>2. CASE HandleConnect(g) \/ HandleDisconnect(g)
    BY <2>1, <2>2 DEF HandleConnect, HandleDisconnect, HapOK
  <2>3. CASE ~(HandleConnect(g) \/ HandleDisconnect(g))
    <3>1. \E step : Returns(g) \/ Stops(g) \/ Enters(g, step)
      BY <1>1, <2>3 DEF HapNext, Attach, HapCancel, HapHome, HapAttrs, HapEnqueue,
           HandleTerminating, HandleDetached, ReadTimeout
    <3> QED BY <2>1, <3>1, HapFields
  <2> QED BY <2>2, <2>3
<1>2. ASSUME NEW t \in Timer, CbNext(t) PROVE hap' = hap
  BY <1>2 DEF CbNext, Fire, Begin, Skip, CbNotHome, CbRead, CbAttrs, CbReport
<1>3. CASE EnvNext \/ RunNext \/ UNCHANGED vars
  BY <1>3 DEF EnvNext, RunNext, vars, Associate, Disassociate, HostapdTerminates, Receive,
       Stop, Watch, SubscribeReturns, SendDetach
<1>4. CASE ConfNext
  BY <1>4 DEF ConfNext, DiffDevice, DiffRemoved, ListRadio, ListDone, ApplyNoChange,
       ApplyUpdated, ApplyAdded, ApplyRemoved, Applied, Register, Mark, ConfNotHome, ConfHome,
       ConfAttrs, Unregister, ReportConf
<1> QED
  BY <1>1, <1>2, <1>3, <1>4 DEF Next

LEMMA InitConnecting == Init => ConnectingInv
  BY DEF Init, ConnectingInv, Reading

LEMMA NextConnecting ==
  ASSUME TypeInv, BeliefInv, NewsOK, ConnectingInv, [Next]_vars
  PROVE  ConnectingInv'
<1> USE DEF TypeInv, TypeOK
<1> DEFINE Steps == {"cancel", "home", "attrs"}
<1>1. ASSUME NEW h \in Hap, hap'[h].pc \in Steps
      PROVE  Backed(h, hap[h].mac)'
  <2>1. CASE hap[h].pc \in Steps
    <3>1. PICK m \in MAC : m = hap[h].mac
      BY <2>1 DEF HapOK
    <3>2. Backed(h, m)
      BY <2>1, <3>1 DEF ConnectingInv
    <3>3. ~HandleDisconnect(h) /\ hap[h].pc \in Connecting
      BY <2>1 DEF HandleDisconnect, Receives, Connecting
    <3>4. Backed(h, m)'
      BY <3>1, <3>2, <3>3, BackedUntil
    <3>5. hap'[h].mac = m
      <4>1. CASE HapNext(h)
        <5>1. HapCancel(h) \/ HapHome(h) \/ HapAttrs(h)
          BY <2>1, <4>1 DEF HapNext, Attach, HandleConnect, HandleDisconnect, HapEnqueue,
               HandleTerminating, HandleDetached, ReadTimeout, Receives
        <5>2. Returns(h) \/ Stops(h) \/ Enters(h, "home") \/ Enters(h, "attrs")
          BY <5>1 DEF HapCancel, HapHome, HapAttrs
        <5> QED BY <1>1, <3>1, <5>2, HapFields
      <4>2. CASE ~HapNext(h)
        BY <3>1, <4>2, HapAlone
      <4> QED BY <4>1, <4>2
    <3> QED BY <3>4, <3>5 DEF Backed, Leaving
  <2>2. CASE hap[h].pc \notin Steps
    <3>1. HapNext(h)
      BY <1>1, <2>2, HapAlone
    <3>2. HandleConnect(h)
      <4>1. CASE HandleDisconnect(h)
        BY <1>1, <2>2, <4>1 DEF HandleDisconnect, HapOK, HapState
      <4>2. CASE Returns(h) \/ Stops(h)
        BY <1>1, <4>2, HapFields
      <4> QED BY <2>2, <3>1, <4>1, <4>2 DEF HapNext, Attach, HapCancel, HapHome, HapAttrs,
                HapEnqueue, HandleTerminating, HandleDetached, ReadTimeout
    <3>3. PICK m \in MAC : Head(evq[h]) = Connect(m)
      BY <3>2, ReceivesType DEF HandleConnect, Receives, Event, Connect
    <3>4. Backed(h, m)'
      BY <3>2, <3>3, ReceiveKeeps DEF HandleConnect, BeliefInv
    <3>5. hap'[h].mac = m
      BY <1>1, <2>2, <3>2, <3>3 DEF HandleConnect, HapOK, HapState, Connect
    <3> QED BY <3>4, <3>5 DEF Backed, Leaving
  <2> QED BY <2>1, <2>2
<1> QED
  BY <1>1 DEF ConnectingInv

LEMMA InitBase == Init => BaseInv
<1>1. Init => DbInv
  BY SentinelAssumption DEF Init, DbInv, Db!Init, Db!TypeOK, Db!EntryIsLive, Db!Queued, Db!Phase
<1> QED
  BY <1>1, InitType, InitBelief, InitNews, InitCb, InitStep, InitConnecting DEF BaseInv

LEMMA NextBase ==
  ASSUME Distinct, BaseInv, [Next]_vars
  PROVE  BaseInv'
<1>1. TypeInv' /\ DbInv' /\ BeliefInv' /\ NewsOK'
  BY NextType, NextIsDbStep, DbNext, NextBelief, NextNews DEF BaseInv, BeliefInv
<1>2. CbInv' /\ StepInv' /\ DiffInv' /\ ConnectingInv'
  BY NextCb, NextStep, NextDiff, NextConnecting DEF BaseInv
<1> QED
  BY <1>1, <1>2 DEF BaseInv

\* A station that is held for connected is backed.
LEMMA ConnectedIsBacked ==
  ASSUME BeliefInv, NEW m \in MAC, Connected(m)
  PROVE  \E h \in Hap : Backed(h, m)
  BY DEF BeliefInv, BeliefOK

\* Whoever reads the disconnect of a tracked station either has its callback
\* queued, or leaves the station to the radio that it is connected to.
LEMMA DisconnectCovers ==
  ASSUME TypeInv, BeliefInv', NEW h \in Hap, NEW m \in MAC, NEW steps,
         HandleDisconnect(h), Head(evq[h]) = Disconnect(m), Tracked(m)'
  PROVE  Covered(m, steps)'
<1> USE DEF TypeInv, TypeOK
<1>1. Head(evq[h]).mac = m
  BY DEF Disconnect
<1>2. Tracked(m)
  BY <1>1 DEF HandleDisconnect, Tracked
<1>3. CASE Connected(m) => stations[m].bssid = h
  <2>1. hap'[h].pc = "enqueue" /\ hap'[h].mac = m
    BY <1>1, <1>2, <1>3 DEF HandleDisconnect, HapOK
  <2> QED BY <2>1 DEF Covered, Due
<1>4. CASE ~(Connected(m) => stations[m].bssid = h)
  <2>1. stations' = stations
    BY <1>1, <1>4 DEF HandleDisconnect
  <2>2. Connected(m)'
    BY <1>4, <2>1 DEF Connected, Tracked
  <2>3. \E g \in Hap : Backed(g, m)'
    BY <2>2 DEF BeliefInv, BeliefOK
  <2> QED BY <2>3 DEF Covered
<1> QED
  BY <1>3, <1>4

\* A device that is new stays to be processed until onConfigChange has published
\* that it is away, or knows a radio that has it.
LEMMA AddingUntil ==
  ASSUME BaseInv, BeliefInv', [Next]_vars, NEW m \in MAC, Adding(m), ~Adding(m)',
         \A h \in Hap : ~Backed(h, m)'
  PROVE  conf'.pc = "report" \/ (ConfNotHome /\ Settles(m) /\ conf.mac = m)
<1> USE DEF BaseInv, TypeInv, TypeOK
<1>a. ASSUME conf'.change[m] = "added", conf'.mac # m \/ conf'.pc \notin {"home", "attrs"}
      PROVE  FALSE
  BY <1>a DEF Adding
<1>c. conf.change[m] = "added" /\ ~(conf.mac = m /\ conf.pc \in {"home", "attrs"})
  BY DEF Adding
<1>s. ASSUME NEW n \in MAC, Settles(n) PROVE n = m
  BY <1>s, <1>a, <1>c, ConfFields, SentinelAssumption
<1>p. ASSUME NEW n \in MAC, NEW step, Proceeds(n, step) PROVE n = m /\ step \in {"home", "attrs"}
  BY <1>p, <1>a, <1>c, ConfFields
<1>1. ConfNext
  <2>1. ASSUME NEW c \in Config, Receive(c) PROVE FALSE
    BY <1>c, <2>1 DEF Receive, StepInv
  <2>2. conf' # conf
    BY <1>a, <1>c
  <2> QED BY <2>1, <2>2, ConfAlone
<1>2. CASE DiffDevice
  <2>1. CASE conf.cfg[conf.i].mac = None
    BY <1>2, <2>1, WaitingType DEF DiffDevice, ConfFails
  <2>2. CASE conf.cfg[conf.i].mac # None
    <3>1. PICK n \in MAC :
            /\ conf.cfg[conf.i].mac = n /\ conf'.pc = "diff"
            /\ \A k \in MAC : k # n => conf'.change[k] = conf.change[k]
      BY <1>2, <2>2, DiffFields
    <3>2. conf.cfg \in Seq(Device) /\ conf.i \in 1..Len(conf.cfg) /\ conf.pc = "diff"
      BY <1>2, ConfigAssumption DEF DiffDevice, ConfOK, ConfState
    <3>3. conf.i \in conf.i..Len(conf.cfg)
      BY <3>2
    <3>4. conf.change[n] = "none"
      BY <2>2, <3>1, <3>2, <3>3 DEF DiffInv
    <3> QED BY <1>a, <1>c, <3>1, <3>4
  <2> QED BY <2>1, <2>2
<1>3. CASE DiffRemoved
  BY <1>3, <1>a, <1>c, RemovedFields DEF Changed
<1>4. CASE ListRadio \/ ListDone
  BY <1>4, <1>a, <1>c, ListFields, WaitingType
<1>5. CASE Mark
  <2>1. PICK n \in MAC :
          /\ conf'.mac = n /\ conf'.change = conf.change
          /\ (conf'.pc = "home" /\ Connected(n)') \/ conf'.pc = "nothome"
    BY <1>5, MarkFields
  <2>2. n = m /\ Connected(m)'
    BY <1>a, <1>c, <2>1
  <2>3. \E h \in Hap : Backed(h, m)'
    BY <2>2 DEF BeliefInv, BeliefOK
  <2> QED BY <2>3
<1>6. ASSUME NEW n \in MAC,
             ApplyNoChange(n) \/ ApplyUpdated(n) \/ ApplyAdded(n) \/ ApplyRemoved(n)
      PROVE  FALSE
  BY <1>6, <1>c, <1>s, <1>p DEF ApplyNoChange, ApplyUpdated, ApplyAdded, ApplyRemoved
<1>7. CASE Applied \/ ReportConf
  BY <1>7, <1>c DEF Applied, ReportConf, Changed, StepInv
<1>8. CASE Register \/ ConfNotHome \/ ConfHome \/ ConfAttrs \/ Unregister
  <2>1. conf.mac \in MAC
    BY <1>8 DEF Register, ConfNotHome, ConfHome, ConfAttrs, Unregister, ConfOK, LockedStep
  <2>2. conf' = Waiting("report") \/ (ConfNotHome /\ Settles(conf.mac))
    <3>1. CASE Register
      BY <1>c, <1>s, <1>p, <2>1, <3>1 DEF Register, ConfFails
    <3>2. CASE ConfHome \/ ConfAttrs
      BY <1>c, <1>s, <1>p, <2>1, <3>2 DEF ConfHome, ConfAttrs, ConfFails
    <3>3. CASE Unregister
      BY <1>c, <1>s, <2>1, <3>3 DEF Unregister, ConfFails, StepInv
    <3>4. CASE ConfNotHome
      BY <3>4 DEF ConfNotHome, ConfFails
    <3> QED BY <1>8, <3>1, <3>2, <3>3, <3>4
  <2> QED BY <1>s, <2>1, <2>2, WaitingType
<1> QED
  BY <1>1, <1>2, <1>3, <1>4, <1>5, <1>6, <1>7, <1>8 DEF ConfNext

\* A station that nothing covers any more has just been published: by
\* onConfigChange, or by a callback that had such a step before it.
LEMMA CoverUntil ==
  ASSUME BaseInv, BeliefInv', [Next]_vars, NEW m \in MAC, NEW steps,
         "nothome" \in steps, "errs" \notin steps,
         Covered(m, steps), ~Covered(m, steps)', Tracked(m)'
  PROVE  \/ conf'.pc = "report"
         \/ ConfNotHome /\ Settles(m) /\ conf.mac = m
         \/ \E t \in Timer : /\ owner[t] = m /\ cb[t] \in steps
                             /\ CbNotHome(t) \/ CbRead(t) \/ CbAttrs(t)
                             /\ ~Running(t, m, steps)'
<1> USE DEF BaseInv, TypeInv, TypeOK
<1>n. /\ \A h \in Hap : ~Backed(h, m)' /\ ~(hap'[h].pc = "enqueue" /\ hap'[h].mac = m)
      /\ ~Db!Queued(m)' /\ ~Adding(m)'
      /\ \A t \in Timer : ~Running(t, m, steps)'
  BY DEF Covered, Due
<1>b. ASSUME NEW h \in Hap, Backed(h, m)
      PROVE  /\ conf'.pc = "report" /\ ListRadio
             /\ hap[h].pc \in Connecting => hap[h].mac # m
  <2>1. CASE HandleDisconnect(h) /\ Head(evq[h]) = Disconnect(m)
    BY <1>n, <2>1, DisconnectCovers
  <2>2. CASE /\ ListRadio /\ conf.change[m] = "added"
             /\ hap[h].pc \in Connecting => hap[h].mac # m
    <3>1. Adding(m) /\ ~ConfNotHome
      BY <2>2 DEF Adding, ListRadio, ConfNotHome
    <3> QED BY <1>n, <2>2, <3>1, AddingUntil
  <2> QED BY <1>b, <1>n, <2>1, <2>2, BackedUntil
<1>1. ASSUME NEW h \in Hap, Backed(h, m) PROVE conf'.pc = "report"
  BY <1>1, <1>b
<1>2. CASE Adding(m)
  BY <1>2, <1>n, AddingUntil
<1>3. ASSUME NEW h \in Hap, hap[h].pc = "enqueue", hap[h].mac = m PROVE FALSE
  <2>1. HapNext(h)
    BY <1>3, <1>n, HapAlone
  <2>2. HapEnqueue(h)
    BY <1>3, <2>1 DEF HapNext, Attach, HandleConnect, HapCancel, HapHome, HapAttrs,
         HandleDisconnect, HandleTerminating, HandleDetached, ReadTimeout, Receives
  <2> QED BY <1>3, <1>n, <2>2, EnqueueKeeps
<1>4. ASSUME Db!Queued(m) PROVE FALSE
  <2>1. ASSUME NEW t \in Timer, Begin(t), owner[t] = m PROVE FALSE
    <3>1. phase[t] = "fired" /\ phase'[t] = "running" /\ owner' = owner /\ cb' = cb
      BY <2>1 DEF Begin, Db!Begin, DbOK, Db!TypeOK
    <3>2. cb[t] = "nothome"
      BY <3>1 DEF CbInv
    <3> QED BY <1>n, <2>1, <3>1, <3>2 DEF Running
  <2>2. ASSUME NEW h \in Hap, HapCancel(h), hap[h].mac = m PROVE FALSE
    <3>1. Backed(h, m)
      BY <2>2 DEF ConnectingInv, HapCancel
    <3> QED BY <1>b, <2>2, <3>1 DEF HapCancel, Connecting
  <2>3. CASE ApplyRemoved(m)
    BY <2>3 DEF ApplyRemoved, StepInv, Tracked
  <2>4. CASE Mark /\ conf.mac = m /\ conf.listed[m] # None
    <3>1. PICK h \in Hap : h = conf.listed[m] /\ Backed(h, m)
      BY <2>4 DEF BeliefInv, ListingOK, ConfOK, ConfState
    <3> QED BY <1>b, <2>4, <3>1 DEF Mark, ListRadio
  <2> QED BY <1>4, <1>n, <2>1, <2>2, <2>3, <2>4, QueuedUntil
<1>5. ASSUME NEW t \in Timer, Running(t, m, steps)
      PROVE  /\ owner[t] = m /\ cb[t] \in steps
             /\ CbNotHome(t) \/ CbRead(t) \/ CbAttrs(t)
  <2>1. ~CbReport(t)
    BY <1>5 DEF CbReport, At, Running
  <2>2. CbNotHome(t) \/ CbRead(t) \/ CbAttrs(t)
    BY <1>5, <1>n, <2>1, RunningAlone DEF Running
  <2> QED BY <1>5, <2>2 DEF Running
<1> QED
  BY <1>n, <1>1, <1>2, <1>3, <1>4, <1>5 DEF Covered, Due

\* A station that is tracked from now on is a change to be processed.
LEMMA NewIsAdding ==
  ASSUME BaseInv, [Next]_vars, NEW m \in MAC, Tracked(m)', ~Tracked(m)
  PROVE  /\ DiffDevice /\ conf'.pc = "diff" /\ conf'.change[m] = "added"
         /\ Adding(m)'
<1> USE DEF BaseInv, TypeInv, TypeOK
<1>1. ConfNext
  BY StationsAlone
<1>2. DiffDevice
  <2>1. ~DiffRemoved /\ ~ListRadio /\ ~ListDone /\ ~Mark
    BY RemovedFields, ListFields, MarkFields DEF Tracked
  <2> QED BY <1>1, <2>1, ChangeStep DEF ConfNext, Tracked
<1>3. conf.cfg[conf.i].mac # None
  BY <1>2 DEF DiffDevice, Tracked
<1>4. conf'.pc = "diff" /\ conf'.change[m] = "added"
  BY <1>2, <1>3, DiffFields DEF Tracked
<1> QED
  BY <1>2, <1>4 DEF Adding

\* Who publishes home, or that a station is connected, has a radio that backs it.
LEMMA HomeIsBacked ==
  ASSUME BaseInv, BeliefInv', [Next]_vars, NEW m \in MAC,
         \/ \E h \in Hap : hap[h].mac = m /\ (HapHome(h) \/ HapAttrs(h))
         \/ conf.mac = m /\ (ConfHome \/ ConfAttrs)
  PROVE  \E h \in Hap : Backed(h, m)'
<1> USE DEF BaseInv, TypeInv, TypeOK
<1>1. ASSUME NEW h \in Hap, hap[h].mac = m, HapHome(h) \/ HapAttrs(h)
      PROVE  Backed(h, m)'
  <2>1. Backed(h, m)
    BY <1>1 DEF ConnectingInv, HapHome, HapAttrs
  <2>2. ~HandleDisconnect(h) /\ hap[h].pc \in Connecting
    BY <1>1 DEF HapHome, HapAttrs, HandleDisconnect, Receives, Connecting
  <2> QED BY <1>1, <2>1, <2>2, BackedUntil
<1>2. CASE conf.mac = m /\ (ConfHome \/ ConfAttrs)
  <2>1. Connected(m) /\ stations' = stations
    BY <1>2 DEF StepInv, ConfHome, ConfAttrs
  <2>2. Connected(m)'
    BY <2>1 DEF Connected, Tracked
  <2> QED BY <2>2 DEF BeliefInv, BeliefOK
<1> QED
  BY <1>1, <1>2

------------------------------------------------------------------------------
(* The state topics.                                                       *)

\* Who writes to the state topic of m, and what.
LEMMA TopicUntil ==
  ASSUME TypeInv, [Next]_vars, NEW m \in MAC,
         state'[m] # state[m] \/ (m \in late /\ m \notin late')
  PROVE  \/ /\ PublishState(m, "home", FALSE)
            /\ \/ \E h \in Hap : hap[h].mac = m /\ HapHome(h)
               \/ conf.mac = m /\ ConfHome
         \/ /\ PublishState(m, "not_home", FALSE)
            /\ conf.mac = m /\ ConfNotHome
         \/ /\ PublishState(m, "not_home", Connected(m))
            /\ \E t \in Timer : owner[t] = m /\ CbNotHome(t)
<1> USE DEF TypeInv, TypeOK
<1>p. ASSUME NEW n \in MAC, NEW value, NEW stale,
             PublishState(n, value, stale) \/ UNCHANGED topics
      PROVE  n = m /\ PublishState(m, value, stale)
  BY <1>p DEF PublishState, TopicsOK, topics
<1>0. ~UNCHANGED topics
  BY DEF topics
<1>1. ASSUME NEW h \in Hap, HapNext(h)
      PROVE  PublishState(m, "home", FALSE) /\ hap[h].mac = m /\ HapHome(h)
  <2>1. HapHome(h)
    BY <1>0, <1>1 DEF HapNext, Attach, HandleConnect, HapCancel, HapAttrs, HandleDisconnect,
         HapEnqueue, HandleTerminating, HandleDetached, ReadTimeout
  <2>2. hap[h].mac \in MAC
    BY <2>1 DEF HapHome, HapOK
  <2>3. PublishState(hap[h].mac, "home", FALSE) \/ UNCHANGED topics
    BY <2>1 DEF HapHome
  <2> QED BY <1>p, <2>1, <2>2, <2>3
<1>2. ASSUME ConfNext
      PROVE  /\ conf.mac = m
             /\ \/ PublishState(m, "home", FALSE) /\ ConfHome
                \/ PublishState(m, "not_home", FALSE) /\ ConfNotHome
  <2>1. ConfHome \/ ConfNotHome
    BY <1>0, <1>2 DEF ConfNext, DiffDevice, DiffRemoved, ListRadio, ListDone, ApplyNoChange,
         ApplyUpdated, ApplyAdded, ApplyRemoved, Applied, Register, Mark, ConfAttrs, Unregister,
         ReportConf, topics
  <2>2. conf.mac \in MAC
    BY <2>1 DEF ConfHome, ConfNotHome, ConfOK, LockedStep
  <2>3. CASE ConfHome
    <3>1. PublishState(conf.mac, "home", FALSE) \/ UNCHANGED topics
      BY <2>3 DEF ConfHome
    <3> QED BY <1>p, <2>2, <2>3, <3>1
  <2>4. CASE ConfNotHome
    <3>1. PublishState(conf.mac, "not_home", FALSE) \/ UNCHANGED topics
      BY <2>4 DEF ConfNotHome
    <3> QED BY <1>p, <2>2, <2>4, <3>1
  <2> QED BY <2>1, <2>3, <2>4
<1>3. ASSUME NEW t \in Timer, CbNext(t)
      PROVE  PublishState(m, "not_home", Connected(m)) /\ owner[t] = m /\ CbNotHome(t)
  <2>1. CbNotHome(t)
    BY <1>0, <1>3 DEF CbNext, Fire, Begin, Skip, CbRead, CbAttrs, CbReport
  <2>2. owner[t] \in MAC
    BY <2>1 DEF CbNotHome, At, DbOK, Db!TypeOK
  <2>3. PublishState(owner[t], "not_home", Connected(owner[t])) \/ UNCHANGED topics
    BY <2>1 DEF CbNotHome
  <2>4. owner[t] = m
    BY <1>p, <2>2, <2>3
  <2> QED BY <1>p, <2>1, <2>2, <2>3, <2>4
<1>4. CASE EnvNext \/ RunNext \/ UNCHANGED vars
  BY <1>0, <1>4 DEF EnvNext, RunNext, vars, Associate, Disassociate, HostapdTerminates,
       Receive, Stop, Watch, SubscribeReturns, SendDetach
<1> QED
  BY <1>1, <1>2, <1>3, <1>4 DEF Next

\* The topic takes the value.
LEMMA PublishFields ==
  ASSUME TopicsOK, NEW m \in MAC, NEW value, NEW stale, PublishState(m, value, stale)
  PROVE  state'[m] = value /\ (stale => m \in late')
  BY DEF TopicsOK, PublishState

LEMMA StateUntil ==
  ASSUME TypeInv, [Next]_vars, NEW m \in MAC, state'[m] # state[m]
  PROVE  \/ state'[m] = "home" /\ \/ \E h \in Hap : hap[h].mac = m /\ HapHome(h)
                                  \/ conf.mac = m /\ ConfHome
         \/ state'[m] = "not_home" /\ \/ conf.mac = m /\ ConfNotHome
                                      \/ \E t \in Timer : owner[t] = m /\ CbNotHome(t)
<1>1. TopicsOK
  BY DEF TypeInv, TypeOK
<1> QED BY <1>1, TopicUntil, PublishFields

LEMMA InitAway == Init => AwayInv
  BY DEF Init, AwayInv, Tracked, Nowhere

LEMMA NextAway ==
  ASSUME BaseInv, BaseInv', AwayInv, [Next]_vars
  PROVE  AwayInv'
<1> USE DEF TypeInv, TypeOK
<1>b. TypeInv /\ CbInv /\ BeliefInv' /\ TopicsOK /\ DbOK
  BY DEF BaseInv
<1> SUFFICES ASSUME ~Trouble', NEW m \in MAC, Tracked(m)', state'[m] = "home",
                    ~Covered(m, {"nothome"})'
             PROVE  FALSE
  BY DEF AwayInv, Covered, Due, Running
<1>1. ~Trouble
  BY <1>b, TroubleStays
<1>2. conf'.pc # "report" /\ \A t \in Timer : cb'[t] # "errs"
  BY DEF Trouble, ConfTrouble
<1>3. Tracked(m)
  BY NewIsAdding DEF Covered
<1>4. state[m] = "home"
  <2>1. \A h \in Hap : ~Backed(h, m)'
    BY DEF Covered
  <2>2. ~(\E h \in Hap : hap[h].mac = m /\ HapHome(h)) /\ ~(conf.mac = m /\ ConfHome)
    BY <1>b, <2>1, HomeIsBacked
  <2> QED BY <1>b, <2>2, StateUntil
<1>5. Covered(m, {"nothome"})
  BY <1>1, <1>3, <1>4 DEF AwayInv
<1>6. ASSUME ConfNotHome, Settles(m), conf.mac = m PROVE FALSE
  <2>1. conf' # Waiting("report")
    BY <1>2, WaitingType
  <2>2. PublishState(m, "not_home", FALSE)
    BY <1>6, <2>1 DEF ConfNotHome, ConfFails
  <2> QED BY <1>b, <2>2 DEF PublishState, TopicsOK
<1>7. ASSUME NEW t \in Timer, owner[t] = m, cb[t] \in {"nothome"},
             CbNotHome(t) \/ CbRead(t) \/ CbAttrs(t)
      PROVE  FALSE
  <2>1. CbNotHome(t)
    BY <1>7 DEF CbRead, CbAttrs, At
  <2>2. ~GoesTo(t, "errs")
    BY <1>b, <1>2 DEF GoesTo, DbOK
  <2>3. PublishState(m, "not_home", Connected(m))
    BY <1>7, <2>1, <2>2 DEF CbNotHome
  <2> QED BY <1>b, <2>3 DEF PublishState, TopicsOK
<1> QED
  BY <1>b, <1>2, <1>5, <1>6, <1>7, CoverUntil

\* In a settled daemon nothing covers a station that is at no radio.
LEMMA SettledIsUncovered ==
  ASSUME BaseInv, Settled, NEW m \in MAC, ~InFlight(m), Gone(m), ~Unseen(m), NEW steps
  PROVE  ~Trouble /\ ~Covered(m, steps)
<1> USE DEF BaseInv, TypeInv, TypeOK
<1>1. ~Trouble
  BY DEF Trouble, ConfTrouble, Settled
<1>2. ASSUME NEW h \in Hap PROVE ~Backed(h, m) /\ hap[h].mac # m
  BY DEF Backed, Leaving, InFlight, Gone, Unseen
<1>3. ~Db!Queued(m)
  BY DEF DbInv, Db!EntryIsLive, Db!Queued, Db!TypeOK, InFlight
<1>4. ASSUME NEW t \in Timer PROVE ~Running(t, m, steps)
  BY DEF Running, InFlight
<1>5. ~Adding(m)
  BY DEF Adding, StepInv, Settled
<1> QED
  BY <1>1, <1>2, <1>3, <1>4, <1>5 DEF Covered, Due

\* Every departure that hostapd announces is published, whatever callbacks are
\* cancelled, refused or taken over, for any number of stations, radios and
\* timers: a tracked station whose topic says home is at a radio, or somebody is
\* about to publish that it is not, or something has failed (daemon.go:399-495).
\* A configuration that lists an address twice breaks it: the second entry takes
\* the place of the first one's change (daemon.go:217-231).
THEOREM DeparturesArePublished ==
  ASSUME Distinct
  PROVE  SafeSpec => []DepartureIsPublished
<1>1. Init => BaseInv /\ AwayInv
  BY InitBase, InitAway
<1>2. BaseInv /\ AwayInv /\ [Next]_vars => (BaseInv /\ AwayInv)'
  BY NextBase, NextAway
<1>3. BaseInv /\ AwayInv => DepartureIsPublished
  BY SettledIsUncovered DEF AwayInv, DepartureIsPublished
<1> QED
  BY <1>1, <1>2, <1>3, PTL DEF SafeSpec

------------------------------------------------------------------------------
(* The attributes topics.                                                  *)

LEMMA NextNoReport ==
  ASSUME TypeInv, Next, NoReport
  PROVE  /\ \A h \in Hap : ~HapAttrs(h)
         /\ ~ConfAttrs /\ ~ConfNotHome
         /\ \A t \in Timer : ~CbAttrs(t)
<1> USE DEF TypeInv, TypeOK
<1>1. ASSUME NEW h \in Hap, HapAttrs(h) PROVE FALSE
  <2>1. Returns(h) \/ Stops(h)
    BY <1>1 DEF HapAttrs
  <2>2. hap'[h].pc # "attrs"
    BY <2>1, HapFields
  <2> QED BY <1>1, <2>2 DEF NoReport, HapAttrs
<1>2. ASSUME ConfAttrs \/ ConfNotHome PROVE FALSE
  <2>1. conf.mac \in MAC /\ conf.pc \in {"attrs", "nothome"}
    BY <1>2 DEF ConfAttrs, ConfNotHome, ConfOK, LockedStep
  <2>2. Settles(conf.mac) \/ conf' = Waiting("report")
    BY <1>2 DEF ConfAttrs, ConfNotHome, ConfFails
  <2>3. conf'.pc \notin {"attrs", "nothome"}
    BY <2>1, <2>2, ConfFields
  <2> QED BY <2>1, <2>3 DEF NoReport
<1>3. ASSUME NEW t \in Timer, CbAttrs(t) PROVE FALSE
  <2>1. At(t, "attrs") /\ cb'[t] \in {"none", "errs"}
    BY <1>3 DEF CbAttrs, Finishes, GoesTo, DbOK
  <2> QED BY <2>1 DEF NoReport, At
<1> QED
  BY <1>1, <1>2, <1>3

\* A step of the attributes is a step of the daemon.
LEMMA AttributesAreDaemon == [AttributesNext]_<<vars, about>> => [Next]_vars
<1>1. ASSUME NEW h \in Hap, HapReports(h) PROVE Next
  BY <1>1 DEF HapReports, HapNext, Next
<1>2. ASSUME NEW t \in Timer, CbReports(t) PROVE Next
  BY <1>2 DEF CbReports, CbNext, Next
<1>3. ConfReports \/ ConfSaysNothing => Next
  BY DEF ConfReports, ConfSaysNothing, ConfNext, Next
<1> QED
  BY <1>1, <1>2, <1>3 DEF AttributesNext

\* The types of the three variables that Attributes adds.
AttributesOK ==
    /\ attrs \in [MAC -> BOOLEAN \union {None}]
    /\ unsaid \subseteq MAC
    /\ overtaken \subseteq MAC

LEMMA InitAttributes == AttributesInit => AttributesOK /\ AttrsInv
<1>1. AttributesInit => AttributesOK
  BY DEF AttributesInit, AttributesOK
<1>2. AttributesInit => AttrsInv
  BY DEF AttributesInit, Init, AttrsInv, Tracked, Nowhere
<1> QED
  BY <1>1, <1>2

LEMMA NextAttributesOK ==
  ASSUME TypeInv, AttributesOK, [AttributesNext]_<<vars, about>>
  PROVE  AttributesOK'
<1> USE DEF TypeInv, TypeOK
<1>r. ASSUME NEW m \in MAC, NEW connected \in BOOLEAN, NEW failed,
             StationAttributes(m, connected, failed)
      PROVE  AttributesOK'
  <2>1. attrs' = [attrs EXCEPT ![m] = connected] \/ attrs' = attrs
    BY <1>r DEF StationAttributes
  <2>2. attrs' \in [MAC -> BOOLEAN \union {None}]
    BY <2>1 DEF AttributesOK
  <2>3. unsaid' \subseteq MAC
    BY <1>r DEF StationAttributes, AttributesOK
  <2>4. overtaken' = overtaken \union {m} \/ overtaken' = overtaken \ {m}
    BY <1>r DEF StationAttributes
  <2> QED BY <2>2, <2>3, <2>4 DEF AttributesOK
<1>1. ASSUME NEW h \in Hap, HapReports(h) PROVE AttributesOK'
  BY <1>1, <1>r DEF HapReports, HapAttrs, HapOK
<1>2. CASE ConfReports
  BY <1>2, <1>r DEF ConfReports, ConfAttrs, ConfOK, LockedStep
<1>3. CASE ConfSaysNothing
  <2>1. conf.mac \in MAC
    BY <1>3 DEF ConfSaysNothing, ConfNotHome, ConfOK, LockedStep
  <2>2. unsaid' \subseteq MAC
    BY <1>3, <2>1 DEF ConfSaysNothing, AttributesOK
  <2>3. attrs' = attrs /\ overtaken' = overtaken
    BY <1>3 DEF ConfSaysNothing
  <2> QED BY <2>2, <2>3 DEF AttributesOK
<1>4. ASSUME NEW t \in Timer, CbReports(t) PROVE AttributesOK'
  BY <1>4, <1>r DEF CbReports, CbAttrs, At, DbOK, Db!TypeOK
<1>5. CASE Next /\ NoReport
  BY <1>5 DEF NoReport, AttributesOK
<1>6. CASE UNCHANGED <<vars, about>>
  BY <1>6 DEF about, AttributesOK
<1> QED
  BY <1>1, <1>2, <1>3, <1>4, <1>5, <1>6 DEF AttributesNext

LEMMA NextAttrs ==
  ASSUME BaseInv, BaseInv', AttributesOK, AttrsInv, [AttributesNext]_<<vars, about>>
  PROVE  AttrsInv'
<1> USE DEF TypeInv, TypeOK
<1>b. TypeInv /\ CbInv /\ DbOK /\ BeliefInv' /\ [Next]_vars
  BY AttributesAreDaemon DEF BaseInv
<1> SUFFICES ASSUME ~Trouble', NEW m \in MAC, Tracked(m)', attrs'[m] = TRUE,
                    m \notin unsaid', ~Covered(m, Afterwards)'
             PROVE  FALSE
  BY DEF AttrsInv, Covered, Due, Running, Afterwards
<1>1. ~Trouble
  BY <1>b, TroubleStays
<1>2. conf'.pc # "report" /\ \A t \in Timer : cb'[t] # "errs"
  BY DEF Trouble, ConfTrouble
<1>3. Tracked(m)
  BY <1>b, NewIsAdding DEF Covered
<1>n. /\ \A h \in Hap : ~Backed(h, m)'
      /\ \A t \in Timer : ~Running(t, m, Afterwards)'
  BY DEF Covered, Due
<1>h. /\ \A h \in Hap : hap[h].mac = m => ~HapAttrs(h)
      /\ conf.mac = m => ~ConfAttrs
  BY <1>b, <1>n, HomeIsBacked
\* A step that leaves attributes and history of m as they were.
<1>k. ASSUME attrs[m] = TRUE, m \notin unsaid
      PROVE  \/ ConfNotHome /\ Settles(m) /\ conf.mac = m
             \/ \E t \in Timer : owner[t] = m /\ CbAttrs(t)
  <2>1. Covered(m, Afterwards)
    BY <1>1, <1>3, <1>k DEF AttrsInv
  <2>2. \/ ConfNotHome /\ Settles(m) /\ conf.mac = m
        \/ \E t \in Timer : /\ owner[t] = m /\ cb[t] \in Afterwards
                            /\ CbNotHome(t) \/ CbRead(t) \/ CbAttrs(t)
                            /\ ~Running(t, m, Afterwards)'
    <3>1. "nothome" \in Afterwards /\ "errs" \notin Afterwards
      BY DEF Afterwards
    <3> HIDE DEF TypeInv
    <3> QED BY <1>b, <1>2, <2>1, <3>1, CoverUntil
  <2>3. ASSUME NEW t \in Timer, owner[t] = m, CbNotHome(t) PROVE Running(t, m, Afterwards)'
    <3>1. ~GoesTo(t, "errs")
      BY <1>b, <1>2 DEF GoesTo, DbOK
    <3>2. phase[t] = "running" /\ GoesTo(t, "read")
      BY <2>3, <3>1 DEF CbNotHome, At
    <3> QED BY <1>b, <2>3, <3>2 DEF GoesTo, DbOK, Running, Afterwards
  <2>4. ASSUME NEW t \in Timer, owner[t] = m, CbRead(t) PROVE Running(t, m, Afterwards)'
    <3>1. phase[t] = "running" /\ GoesTo(t, "attrs")
      BY <1>3, <2>4 DEF CbRead, At
    <3> QED BY <1>b, <2>4, <3>1 DEF GoesTo, DbOK, Running, Afterwards
  <2> QED BY <2>2, <2>3, <2>4
\* A message about another station.
<1>s. ASSUME NEW n \in MAC, NEW connected, NEW failed, StationAttributes(n, connected, failed),
             n # m
      PROVE  attrs[m] = TRUE /\ m \notin unsaid
  BY <1>s DEF StationAttributes, AttributesOK
<1>4. ASSUME NEW h \in Hap, HapReports(h) PROVE FALSE
  <2>1. HapAttrs(h) /\ hap[h].mac \in MAC
    BY <1>b, <1>4 DEF HapReports, HapAttrs, HapOK
  <2>2. attrs[m] = TRUE /\ m \notin unsaid
    BY <1>4, <1>h, <1>s, <2>1 DEF HapReports
  <2>3. conf' = conf /\ UNCHANGED db
    BY <2>1 DEF HapAttrs
  <2>4. ~(ConfNotHome /\ Settles(m))
    BY <1>b, <2>3, ConfFields DEF ConfNotHome
  <2>5. \A t \in Timer : ~CbAttrs(t)
    BY <1>b, <2>3 DEF db, CbAttrs, At, GoesTo, Finishes, DbOK
  <2> QED BY <1>k, <2>2, <2>4, <2>5
<1>5. CASE ConfReports
  <2>1. ConfAttrs /\ conf.mac \in MAC
    BY <1>b, <1>5 DEF ConfReports, ConfAttrs, ConfOK, LockedStep
  <2>2. attrs[m] = TRUE /\ m \notin unsaid
    BY <1>5, <1>h, <1>s, <2>1 DEF ConfReports
  <2>3. UNCHANGED db /\ ~ConfNotHome
    BY <2>1 DEF ConfAttrs, ConfNotHome
  <2>4. \A t \in Timer : ~CbAttrs(t)
    BY <1>b, <2>3 DEF db, CbAttrs, At, GoesTo, Finishes, DbOK
  <2> QED BY <1>k, <2>2, <2>3, <2>4
<1>6. CASE ConfSaysNothing
  <2>1. /\ ConfNotHome /\ UNCHANGED db
        /\ attrs[m] = TRUE /\ m \notin unsaid /\ conf.mac # m
    BY <1>6 DEF ConfSaysNothing, ConfNotHome
  <2>2. \A t \in Timer : ~CbAttrs(t)
    BY <1>b, <2>1 DEF db, CbAttrs, At, GoesTo, Finishes, DbOK
  <2> QED BY <1>k, <2>1, <2>2
<1>7. ASSUME NEW u \in Timer, CbReports(u) PROVE FALSE
  <2>1. CbAttrs(u) /\ owner[u] \in MAC /\ conf' = conf
    BY <1>b, <1>7 DEF CbReports, CbAttrs, At, DbOK, Db!TypeOK
  <2>2. owner[u] # m
    BY <1>2, <1>7 DEF CbReports, StationAttributes, AttributesOK
  <2>3. attrs[m] = TRUE /\ m \notin unsaid
    BY <1>7, <1>s, <2>1, <2>2 DEF CbReports
  <2>4. ~(ConfNotHome /\ Settles(m))
    BY <1>b, <2>1, ConfFields DEF ConfNotHome
  <2>5. ASSUME NEW t \in Timer, owner[t] = m, CbAttrs(t) PROVE FALSE
    <3>1. t # u /\ At(t, "attrs")
      BY <2>2, <2>5 DEF CbAttrs
    <3>2. cb'[t] = cb[t]
      BY <1>b, <2>1, <3>1 DEF CbAttrs, GoesTo, Finishes, DbOK
    <3>3. cb'[t] \in {"none", "errs"}
      BY <1>b, <2>5 DEF CbAttrs, GoesTo, Finishes, DbOK
    <3> QED BY <3>1, <3>2, <3>3 DEF At
  <2> QED BY <1>k, <2>3, <2>4, <2>5
<1>8. CASE Next /\ NoReport
  <2>1. ~ConfNotHome /\ \A t \in Timer : ~CbAttrs(t)
    BY <1>b, <1>8, NextNoReport
  <2>2. attrs[m] = TRUE /\ (m \in unsaid => Connected(m)')
    BY <1>8 DEF NoReport
  <2>3. m \notin unsaid
    BY <1>b, <1>n, <2>2 DEF BeliefInv, BeliefOK
  <2> QED BY <1>k, <2>1, <2>2, <2>3
<1>9. CASE UNCHANGED <<vars, about>>
  BY <1>1, <1>3, <1>9 DEF AttrsInv, Covered, Due, Adding, Running, Backed, Leaving, Tracked,
       Db!Queued, vars, about, env, db
<1> QED
  BY <1>4, <1>5, <1>6, <1>7, <1>8, <1>9 DEF AttributesNext

\* The last departure has the last word in the attributes, too, although they
\* are published apart from the state and outside the lock, for any number of
\* stations, radios and timers (daemon.go:411-433, 464-494).
THEOREM DeparturesInAttributes ==
  ASSUME Distinct
  PROVE  SafeAttributesSpec => []DepartureInAttributes
<1>1. AttributesInit => BaseInv /\ AttributesOK /\ AttrsInv
  BY InitBase, InitAttributes DEF AttributesInit
<1>2. BaseInv /\ AttributesOK /\ AttrsInv /\ [AttributesNext]_<<vars, about>>
        => (BaseInv /\ AttributesOK /\ AttrsInv)'
  <2>1. BaseInv => TypeInv
    BY DEF BaseInv
  <2> QED BY <2>1, AttributesAreDaemon, NextBase, NextAttributesOK, NextAttrs
<1>3. BaseInv /\ AttributesOK /\ AttrsInv => DepartureInAttributes
  BY SettledIsUncovered DEF AttrsInv, DepartureInAttributes
<1> QED
  BY <1>1, <1>2, <1>3, PTL DEF SafeAttributesSpec

------------------------------------------------------------------------------
(* The topics of a configuration.                                          *)

\* Only onConfigChange writes to a discovery topic.
LEMMA DiscAlone ==
  ASSUME [Next]_vars, ~Register, ~Unregister
  PROVE  disc' = disc
<1>1. ASSUME NEW h \in Hap, HapNext(h) PROVE disc' = disc
  BY <1>1 DEF HapNext, Attach, HandleConnect, HapCancel, HapHome, HapAttrs, HandleDisconnect,
       HapEnqueue, HandleTerminating, HandleDetached, ReadTimeout, PublishState, topics
<1>2. ASSUME NEW t \in Timer, CbNext(t) PROVE disc' = disc
  BY <1>2 DEF CbNext, Fire, Begin, Skip, CbNotHome, CbRead, CbAttrs, CbReport, PublishState,
       topics
<1>3. CASE EnvNext \/ RunNext \/ UNCHANGED vars
  BY <1>3 DEF EnvNext, RunNext, vars, Associate, Disassociate, HostapdTerminates, Receive,
       Stop, Watch, SubscribeReturns, SendDetach, topics
<1>4. CASE ConfNext
  BY <1>4 DEF ConfNext, DiffDevice, DiffRemoved, ListRadio, ListDone, ApplyNoChange,
       ApplyUpdated, ApplyAdded, ApplyRemoved, Applied, Mark, ConfNotHome, ConfHome, ConfAttrs,
       ReportConf, PublishState, topics
<1> QED
  BY <1>1, <1>2, <1>3, <1>4 DEF Next

\* The two parts of TopicInv, for one station.
StateToCome(m) == conf.change[m] = "added" /\ ~(conf.mac = m /\ conf.pc = "attrs")
NameToCome(m) ==
    /\ conf.change[m] \in {"added", "updated"}
    /\ ~(conf.mac = m /\ conf.pc \in {"mark", "nothome", "home", "attrs"})
TopicOK(m) ==
    /\ state[m] = None => StateToCome(m)
    /\ AutoDisc => disc[m] = stations[m].name \/ NameToCome(m)

\* A step that goes on with the changes as they are.
LEMMA ChangesKept ==
  ASSUME NEW m \in MAC, TopicOK(m), conf'.change[m] = conf.change[m],
         conf'.mac # m \/ conf'.pc \notin {"mark", "nothome", "home", "attrs"},
         state'[m] = None => state[m] = None,
         disc' = disc, stations'[m] = stations[m]
  PROVE  TopicOK(m)'
  BY DEF TopicOK, StateToCome, NameToCome

LEMMA InitTopics == Init => TopicInv
  BY DEF Init, TopicInv, Tracked, Nowhere

LEMMA NextTopics ==
  ASSUME BaseInv, BaseInv', TopicInv, [Next]_vars
  PROVE  TopicInv'
<1> USE DEF TypeInv, TypeOK
<1>b. TypeInv /\ StepInv /\ DiffInv /\ TopicsOK /\ TypeInv'
  BY DEF BaseInv
<1> SUFFICES ASSUME ~ConfTrouble', NEW m \in MAC, Tracked(m)' PROVE TopicOK(m)'
  BY DEF TopicInv, TopicOK, StateToCome, NameToCome
<1>1. ~ConfTrouble
  BY <1>b, ConfTroubleStays
<1>2. conf'.pc # "report" /\ conf' # Waiting("report")
  BY WaitingType DEF ConfTrouble
<1>3. ASSUME Tracked(m) PROVE TopicOK(m)
  BY <1>1, <1>3 DEF TopicInv, TopicOK, StateToCome, NameToCome
<1>4. state'[m] = None => state[m] = None
  BY <1>b, StateUntil, SentinelAssumption DEF State
<1>5. CASE ~ConfNext
  <2>1. Tracked(m) /\ stations'[m].name = stations[m].name
    BY <1>b, <1>5, StationsAlone
  <2>2. disc' = disc
    BY <1>5, DiscAlone DEF ConfNext
  <2>3. CASE conf' = conf
    BY <1>3, <1>4, <2>1, <2>2, <2>3 DEF TopicOK, StateToCome, NameToCome
  <2>4. CASE \E c \in Config : Receive(c)
    <3>1. conf.change[m] = "none"
      BY <1>b, <2>4 DEF Receive, StepInv
    <3> QED BY <1>3, <1>4, <2>1, <2>2, <3>1 DEF TopicOK, StateToCome, NameToCome
  <2> QED BY <1>b, <1>5, <2>3, <2>4, ConfAlone
<1>6. CASE DiffDevice
  <2>1. conf.cfg[conf.i].mac # None
    BY <1>2, <1>6 DEF DiffDevice, ConfFails
  <2>2. PICK n \in MAC : \E name \in Name \union {None} :
          /\ conf.cfg[conf.i].mac = n
          /\ conf'.pc = "diff"
          /\ \A k \in MAC : conf'.change[k] = IF k # n THEN conf.change[k]
               ELSE IF ~Tracked(n) THEN "added"
               ELSE IF stations[n].name # name THEN "updated" ELSE "nochange"
          /\ \A k \in MAC : k # n => stations'[k] = stations[k]
          /\ stations'[n].name = name
    BY <1>b, <1>6, <2>1, DiffFields
  <2>3. disc' = disc
    BY <1>6 DEF DiffDevice, topics
  <2>4. CASE m # n
    <3>1. Tracked(m)
      BY <2>2, <2>4 DEF Tracked
    <3> QED BY <1>3, <1>4, <2>2, <2>3, <2>4, <3>1, ChangesKept
  <2>5. CASE m = n /\ ~Tracked(m)
    BY <2>2, <2>5 DEF TopicOK, StateToCome, NameToCome
  <2>6. CASE m = n /\ Tracked(m)
    <3>1. conf.change[m] = "none"
      <4>1. conf.cfg \in Seq(Device) /\ conf.i \in conf.i..Len(conf.cfg) /\ conf.pc = "diff"
        BY <1>b, <1>6, ConfigAssumption DEF DiffDevice, ConfOK, ConfState
      <4> QED BY <1>b, <2>1, <2>2, <2>6, <4>1 DEF DiffInv
    <3>2. state[m] # None /\ (AutoDisc => disc[m] = stations[m].name)
      BY <1>3, <2>6, <3>1 DEF TopicOK, StateToCome, NameToCome
    <3>3. conf'.change[m] = "updated" \/ stations'[m].name = stations[m].name
      BY <2>2, <2>6
    <3> QED BY <1>4, <2>2, <2>3, <3>2, <3>3 DEF TopicOK, NameToCome
  <2> QED BY <2>4, <2>5, <2>6
<1>7. CASE DiffRemoved
  <2>1. Tracked(m) /\ stations'[m] = stations[m] /\ disc' = disc
    BY <1>b, <1>7, RemovedFields DEF DiffRemoved, topics
  <2>2. CASE conf' = Waiting("idle")
    <3>1. conf.change[m] = "none"
      BY <1>b, <1>7, <2>2, RemovedFields, WaitingType DEF Changed
    <3> QED BY <1>3, <1>4, <2>1, <3>1 DEF TopicOK, StateToCome, NameToCome
  <2>3. CASE conf' # Waiting("idle")
    <3>1. conf'.pc \in {"list", "apply"} /\ conf'.change[m] = conf.change[m]
      BY <1>b, <1>7, <2>3, RemovedFields
    <3> QED BY <1>3, <1>4, <2>1, <3>1, ChangesKept
  <2> QED BY <2>2, <2>3
<1>8. CASE ListRadio \/ ListDone
  <2>1. stations' = stations /\ conf'.pc \in {"list", "apply"} /\ conf'.change = conf.change
    BY <1>b, <1>2, <1>8, ListFields
  <2>2. Tracked(m) /\ disc' = disc
    BY <1>8, <2>1 DEF ListRadio, ListDone, topics, Tracked
  <2> QED BY <1>3, <1>4, <2>1, <2>2, ChangesKept
<1>9. CASE Mark
  <2>1. PICK n \in MAC :
          /\ conf.mac = n /\ conf'.mac = n /\ conf'.change = conf.change
          /\ Tracked(n) /\ stations'[n].name = stations[n].name
          /\ \A k \in MAC : k # n => stations'[k] = stations[k]
          /\ conf'.pc \in {"home", "nothome"}
    BY <1>b, <1>9, MarkFields
  <2>2. disc' = disc /\ conf.pc = "mark"
    BY <1>9 DEF Mark, topics
  <2>3. Tracked(m) /\ stations'[m].name = stations[m].name
    BY <2>1 DEF Tracked
  <2> QED BY <1>3, <1>4, <2>1, <2>2, <2>3 DEF TopicOK, StateToCome, NameToCome
<1>10. CASE \/ \E n \in MAC : ApplyNoChange(n) \/ ApplyUpdated(n) \/ ApplyAdded(n) \/ ApplyRemoved(n)
            \/ Applied \/ Register \/ ConfNotHome \/ ConfHome \/ ConfAttrs \/ Unregister \/ ReportConf
  <2>1. stations' = stations /\ Tracked(m)
    BY <1>b, <1>10, ChangeStep DEF Tracked
  <2>2. TopicOK(m)
    BY <1>3, <2>1
  <2>3. ASSUME NEW n \in MAC, n # m, Settles(n), disc' = disc PROVE TopicOK(m)'
    <3>1. conf'.pc = "apply" /\ conf'.change[m] = conf.change[m]
      BY <1>b, <2>3, ConfFields
    <3> QED BY <1>4, <2>1, <2>2, <2>3, <3>1, ChangesKept
  <2>4. ASSUME NEW n \in MAC, NEW step, Proceeds(n, step), disc' = disc,
               n # m \/ step \notin {"mark", "nothome", "home", "attrs"}
        PROVE  TopicOK(m)'
    <3>1. conf'.pc = step /\ conf'.mac = n /\ conf'.change = conf.change
      BY <1>b, <2>4, ConfFields
    <3> QED BY <1>4, <2>1, <2>2, <2>4, <3>1, ChangesKept
  <2>5. ASSUME state'[m] # None, AutoDisc => disc'[m] = stations[m].name PROVE TopicOK(m)'
    BY <2>1, <2>5 DEF TopicOK
  <2>6. ASSUME NEW n \in MAC,
               ApplyNoChange(n) \/ ApplyUpdated(n) \/ ApplyAdded(n) \/ ApplyRemoved(n)
        PROVE  TopicOK(m)'
    <3>1. disc' = disc /\ state' = state
      BY <2>6 DEF ApplyNoChange, ApplyUpdated, ApplyAdded, ApplyRemoved, topics
    <3>2. CASE n # m
      <4>1. Settles(n) \/ \E step : Proceeds(n, step)
        BY <2>6 DEF ApplyNoChange, ApplyUpdated, ApplyAdded, ApplyRemoved
      <4> QED BY <2>3, <2>4, <3>1, <3>2, <4>1
    <3>3. CASE n = m
      <4>1. conf.change[m] # "removed"
        BY <1>b, <2>1 DEF StepInv
      <4>2. CASE conf.change[m] = "nochange" \/ (conf.change[m] = "updated" /\ ~AutoDisc)
        BY <2>2, <2>5, <3>1, <4>2 DEF TopicOK, StateToCome, NameToCome
      <4>3. CASE conf.change[m] \in {"updated", "added"} /\ AutoDisc
        BY <2>4, <2>6, <3>1, <3>3, <4>3
        DEF ApplyNoChange, ApplyUpdated, ApplyAdded, ApplyRemoved
      <4>4. CASE conf.change[m] = "added" /\ ~AutoDisc
        <5>1. Proceeds(m, "mark")
          BY <2>6, <3>3, <4>4 DEF ApplyNoChange, ApplyUpdated, ApplyAdded, ApplyRemoved
        <5>2. conf'.pc = "mark" /\ conf'.change = conf.change
          BY <1>b, <5>1, ConfFields
        <5> QED BY <4>4, <5>2 DEF TopicOK, StateToCome
      <4> QED BY <2>6, <3>3, <4>1, <4>2, <4>3, <4>4
              DEF ApplyNoChange, ApplyUpdated, ApplyAdded, ApplyRemoved
    <3> QED BY <3>2, <3>3
  <2>7. CASE Applied
    <3>1. conf.change[m] = "none" /\ disc' = disc /\ state' = state
      BY <2>7 DEF Applied, Changed, topics
    <3> QED BY <2>2, <2>5, <3>1 DEF TopicOK, StateToCome, NameToCome
  <2>8. CASE ReportConf
    BY <1>1, <2>8 DEF ReportConf, ConfTrouble
  <2>9. CASE Register \/ ConfNotHome \/ ConfHome \/ ConfAttrs \/ Unregister
    <3>1. PICK n \in MAC : n = conf.mac
      BY <1>b, <2>9 DEF Register, ConfNotHome, ConfHome, ConfAttrs, Unregister, ConfOK, LockedStep
    <3>2. CASE Register
      <4>1. /\ disc' = [disc EXCEPT ![n] = stations[n].name]
            /\ IF conf.change[n] = "added" THEN Proceeds(n, "mark") ELSE Settles(n)
        BY <1>2, <3>1, <3>2 DEF Register, ConfFails
      <4>2. state' = state
        BY <3>2 DEF Register
      <4>3. CASE n = m
        <5>1. disc'[m] = stations'[m].name
          BY <1>b, <2>1, <4>1, <4>3 DEF TopicsOK
        <5>2. state[m] = None => StateToCome(m)'
          <6>1. ASSUME state[m] = None PROVE conf'.pc = "mark" /\ conf'.change[m] = "added"
            BY <1>b, <2>2, <4>1, <4>3, <6>1, ConfFields DEF TopicOK, StateToCome
          <6> QED BY <6>1 DEF StateToCome
        <5> QED BY <4>2, <5>1, <5>2 DEF TopicOK
      <4>4. CASE n # m
        <5>1. disc'[m] = disc[m]
          BY <1>b, <4>1, <4>4 DEF TopicsOK
        <5>2. conf'.mac # m /\ conf'.change[m] = conf.change[m]
          BY <1>b, <4>1, <4>4, ConfFields, SentinelAssumption
        <5> QED BY <2>1, <2>2, <4>2, <5>1, <5>2 DEF TopicOK, StateToCome, NameToCome
      <4> QED BY <4>3, <4>4
    <3>3. CASE Unregister
      <4>1. n # m
        BY <1>b, <2>1, <3>1, <3>3 DEF Unregister, StepInv
      <4>2. disc' = [disc EXCEPT ![n] = None] /\ Settles(n) /\ state' = state
        BY <1>2, <3>1, <3>3 DEF Unregister, ConfFails
      <4>3. disc'[m] = disc[m]
        BY <1>b, <4>1, <4>2 DEF TopicsOK
      <4>4. conf'.mac # m /\ conf'.change[m] = conf.change[m]
        BY <1>b, <4>1, <4>2, ConfFields, SentinelAssumption
      <4> QED BY <2>1, <2>2, <4>2, <4>3, <4>4 DEF TopicOK, StateToCome, NameToCome
    <3>4. CASE ConfNotHome \/ ConfHome \/ ConfAttrs
      <4>1. disc' = disc
        BY <3>4 DEF ConfNotHome, ConfHome, ConfAttrs, PublishState, topics
      <4>2. Settles(n) \/ Proceeds(n, "attrs")
        BY <1>2, <3>1, <3>4 DEF ConfNotHome, ConfHome, ConfAttrs, ConfFails
      <4>3. CASE n # m
        BY <2>3, <2>4, <4>1, <4>2, <4>3
      <4>4. CASE n = m
        <5>1. AutoDisc => disc'[m] = stations[m].name
          BY <2>2, <3>1, <3>4, <4>1, <4>4 DEF TopicOK, NameToCome, ConfNotHome, ConfHome, ConfAttrs
        <5>2. state'[m] # None
          <6>1. CASE ConfAttrs
            BY <2>2, <3>1, <4>4, <6>1 DEF ConfAttrs, TopicOK, StateToCome, topics
          <6>2. CASE ConfNotHome
            <7>1. PublishState(m, "not_home", FALSE)
              BY <1>2, <3>1, <4>4, <6>2 DEF ConfNotHome, ConfFails
            <7> QED BY <1>b, <7>1, SentinelAssumption DEF PublishState, TopicsOK, State
          <6>3. CASE ConfHome
            <7>1. PublishState(m, "home", FALSE)
              BY <1>2, <3>1, <4>4, <6>3 DEF ConfHome, ConfFails
            <7> QED BY <1>b, <7>1, SentinelAssumption DEF PublishState, TopicsOK, State
          <6> QED BY <3>4, <6>1, <6>2, <6>3
        <5> QED BY <2>5, <5>1, <5>2
      <4> QED BY <4>3, <4>4
    <3> QED BY <2>9, <3>2, <3>3, <3>4
  <2> QED BY <1>10, <2>6, <2>7, <2>8, <2>9
<1> QED
  BY <1>5, <1>6, <1>7, <1>8, <1>9, <1>10 DEF ConfNext

\* Once a configuration is processed, every device of it has a state and, with
\* autodiscovery, a discovery topic with its latest name, for any number of
\* devices, renamed, added and removed in any order (daemon.go:209-356,
\* README.md:196-199).
THEOREM ConfigurationsArePublished ==
  ASSUME Distinct
  PROVE  SafeSpec => []ConfiguredIsPublished
<1>1. Init => BaseInv /\ TopicInv
  BY InitBase, InitTopics
<1>2. BaseInv /\ TopicInv /\ [Next]_vars => (BaseInv /\ TopicInv)'
  BY NextBase, NextTopics
<1>3. BaseInv /\ TopicInv => ConfiguredIsPublished
  BY DEF BaseInv, TopicInv, StepInv, ConfTrouble, ConfiguredIsPublished
<1> QED
  BY <1>1, <1>2, <1>3, PTL DEF SafeSpec

------------------------------------------------------------------------------
(* Arrivals.                                                               *)

\* A new device is not connected before its change is processed.
NewInv == \A m \in MAC : Adding(m) => ~Connected(m)

\* Who comes to believe that m is connected.
LEMMA ConnectedUntil ==
  ASSUME TypeInv, [Next]_vars, NEW m \in MAC, Connected(m)', ~Connected(m)
  PROVE  \/ \E h \in Hap : HandleConnect(h) /\ Head(evq[h]).mac = m /\ Tracked(m)
         \/ Mark /\ conf.mac = m /\ conf'.mac = m /\ conf'.pc = "home"
<1> USE DEF TypeInv, TypeOK
<1>0. stations'[m] # stations[m]
  BY DEF Connected, Tracked
<1>1. ASSUME NEW h \in Hap, HapNext(h)
      PROVE  HandleConnect(h) /\ Head(evq[h]).mac = m /\ Tracked(m)
  <2>1. HandleConnect(h) \/ HandleDisconnect(h)
    BY <1>0, <1>1 DEF HapNext, Attach, HapCancel, HapHome, HapAttrs, HapEnqueue,
         HandleTerminating, HandleDetached, ReadTimeout
  <2>2. PICK n \in MAC : n = Head(evq[h]).mac
    BY <2>1, ReceivesType DEF HandleConnect, HandleDisconnect
  <2>3. n = m /\ Tracked(m)
    BY <1>0, <2>1, <2>2 DEF HandleConnect, HandleDisconnect, StationsOK
  <2>4. ASSUME HandleDisconnect(h) PROVE FALSE
    <3>1. stations' = [stations EXCEPT ![m].connected = FALSE]
      BY <1>0, <2>2, <2>3, <2>4 DEF HandleDisconnect
    <3>2. ~stations'[m].connected
      BY <2>3, <3>1 DEF StationsOK, Station, Tracked
    <3> QED BY <3>2 DEF Connected
  <2> QED BY <2>1, <2>2, <2>3, <2>4
<1>2. CASE DiffDevice
  <2>1. conf.cfg[conf.i] \in Device
    BY <1>2, ConfigAssumption DEF DiffDevice, ConfOK, ConfState
  <2>2. PICK n \in MAC \union {None} : n = conf.cfg[conf.i].mac
    BY <2>1 DEF Device
  <2>3. n = m
    BY <1>0, <1>2, <2>2 DEF DiffDevice, StationsOK
  <2>4. stations'[m] = IF Tracked(m) THEN [stations[m] EXCEPT !.name = conf.cfg[conf.i].name]
          ELSE [name |-> conf.cfg[conf.i].name, connected |-> FALSE, bssid |-> None]
    BY <1>0, <1>2, <2>2, <2>3 DEF DiffDevice, StationsOK
  <2>5. Tracked(m) => stations'[m].connected = stations[m].connected
    BY <2>4 DEF StationsOK, Station, Tracked
  <2>6. ~Tracked(m) => ~stations'[m].connected
    BY <2>4
  <2> QED BY <2>5, <2>6 DEF Connected
<1>3. CASE DiffRemoved
  BY <1>0, <1>3, RemovedFields DEF Connected
<1>4. CASE Mark
  <2>1. PICK n \in MAC :
          /\ conf.mac = n /\ conf'.mac = n
          /\ \A k \in MAC : k # n => stations'[k] = stations[k]
          /\ \/ conf'.pc = "home"
             \/ conf.listed[n] = None
    BY <1>4, MarkFields
  <2>2. n = m
    BY <1>0, <2>1
  <2>3. ASSUME conf.listed[m] = None PROVE FALSE
    <3>1. stations' = [stations EXCEPT ![m].connected = FALSE] /\ Tracked(m)
      BY <1>4, <2>1, <2>2, <2>3 DEF Mark, ConfOK, ChangeIsTracked
    <3>2. ~stations'[m].connected
      BY <3>1 DEF StationsOK, Station, Tracked
    <3> QED BY <3>2 DEF Connected
  <2> QED BY <1>4, <2>1, <2>2, <2>3
<1>5. ASSUME ConfNext PROVE DiffDevice \/ DiffRemoved \/ Mark
  BY <1>0, <1>5 DEF ConfNext, ListRadio, ListDone, ApplyNoChange, ApplyUpdated, ApplyAdded,
       ApplyRemoved, Applied, Register, ConfNotHome, ConfHome, ConfAttrs, Unregister, ReportConf
<1>6. ASSUME NEW t \in Timer, CbNext(t) PROVE FALSE
  BY <1>0, <1>6 DEF CbNext, Fire, Begin, Skip, CbNotHome, CbRead, CbAttrs, CbReport
<1>7. ASSUME EnvNext \/ RunNext \/ UNCHANGED vars PROVE FALSE
  BY <1>0, <1>7 DEF EnvNext, RunNext, vars, Associate, Disassociate, HostapdTerminates,
       Receive, Stop, Watch, SubscribeReturns, SendDetach
<1> QED
  BY <1>1, <1>2, <1>3, <1>4, <1>5, <1>6, <1>7 DEF Next

\* A change is new when onConfigChange finds no entry for the device.
LEMMA AddingFrom ==
  ASSUME TypeInv, StepInv, [Next]_vars, NEW m \in MAC, Adding(m)', ~Adding(m)
  PROVE  DiffDevice /\ conf'.pc = "diff" /\ ~Tracked(m)
<1> USE DEF TypeInv, TypeOK
<1>a. /\ conf'.change[m] = "added"
      /\ conf.change[m] = "added" => conf.mac = m /\ conf.pc \in {"home", "attrs"}
  BY DEF Adding
<1>w. ASSUME NEW step \in {"idle", "report"}, conf' = Waiting(step) PROVE FALSE
  BY <1>a, <1>w, ConfFields
<1>1. ConfNext
  <2>1. ASSUME NEW c \in Config, Receive(c) PROVE FALSE
    BY <1>a, <2>1 DEF Receive, Waiting, NoChanges
  <2>2. conf' # conf
    BY DEF Adding
  <2> QED BY <2>1, <2>2, ConfAlone
<1>2. CASE DiffDevice
  <2>1. conf.cfg[conf.i].mac # None
    BY <1>2, <1>w DEF DiffDevice, ConfFails
  <2>2. PICK n \in MAC :
          /\ conf'.pc = "diff"
          /\ \A k \in MAC : k # n => conf'.change[k] = conf.change[k]
          /\ Tracked(n) => conf'.change[n] # "added"
    BY <1>2, <2>1, DiffFields
  <2> QED BY <1>a, <1>2, <2>2 DEF DiffDevice
<1>3. ASSUME conf.change[m] = "added" PROVE FALSE
  <2>1. conf.mac = m /\ conf.pc \in {"home", "attrs"}
    BY <1>a, <1>3
  <2>2. ConfHome \/ ConfAttrs
    BY <1>1, <2>1 DEF ConfNext, DiffDevice, DiffRemoved, ListRadio, ListDone, ApplyNoChange,
         ApplyUpdated, ApplyAdded, ApplyRemoved, Applied, Register, Mark, ConfNotHome,
         Unregister, ReportConf
  <2>3. Proceeds(m, "attrs") \/ Settles(m)
    BY <1>w, <2>1, <2>2 DEF ConfHome, ConfAttrs, ConfFails
  <2>4. ~Settles(m)
    BY <1>a, ConfFields
  <2>5. conf'.mac = m /\ conf'.pc = "attrs"
    BY <2>3, <2>4, ConfFields
  <2> QED BY <2>5 DEF Adding
<1>4. CASE DiffRemoved
  BY <1>4, <1>3, <1>a, <1>w, RemovedFields
<1>5. CASE ListRadio \/ ListDone
  BY <1>5, <1>3, <1>a, <1>w, ListFields
<1>6. CASE Mark
  BY <1>6, <1>3, <1>a, MarkFields
<1>7. CASE \/ \E n \in MAC : ApplyNoChange(n) \/ ApplyUpdated(n) \/ ApplyAdded(n) \/ ApplyRemoved(n)
           \/ Applied \/ Register \/ ConfNotHome \/ ConfHome \/ ConfAttrs \/ Unregister \/ ReportConf
  <2>1. ASSUME NEW n \in MAC, Settles(n) PROVE FALSE
    BY <1>3, <1>a, <2>1, ConfFields
  <2>2. ASSUME NEW n \in MAC, NEW step, Proceeds(n, step) PROVE FALSE
    BY <1>3, <1>a, <2>2, ConfFields
  <2> QED BY <1>7, <1>w, <2>1, <2>2, ChangeStep
<1> QED
  BY <1>1, <1>2, <1>4, <1>5, <1>6, <1>7 DEF ConfNext

LEMMA InitNew == Init => NewInv
  BY DEF Init, NewInv, Connected, Tracked, Nowhere

LEMMA NextNew ==
  ASSUME TypeInv, StepInv, StepInv', NewInv, [Next]_vars
  PROVE  NewInv'
<1> USE DEF TypeInv, TypeOK
<1> SUFFICES ASSUME NEW m \in MAC, Adding(m)', Connected(m)' PROVE FALSE
  BY DEF NewInv, Adding, Connected, Tracked
<1>1. CASE Connected(m)
  <2>1. ~Adding(m)
    BY <1>1 DEF NewInv
  <2> QED BY <1>1, <2>1, AddingFrom DEF Connected
<1>2. CASE ~Connected(m)
  <2>1. ASSUME Mark, conf'.mac = m, conf'.pc = "home" PROVE FALSE
    BY <2>1 DEF Adding
  <2>2. ASSUME NEW h \in Hap, HandleConnect(h) PROVE FALSE
    <3>1. conf' = conf /\ conf.pc \in {"idle", "report"}
      BY <2>2 DEF HandleConnect, Unlocked, ConfOK, ConfState
    <3>2. conf'.change[m] = "none"
      BY <3>1 DEF StepInv
    <3> QED BY <3>2 DEF Adding
  <2> QED BY <1>2, <2>1, <2>2, ConnectedUntil
<1> QED
  BY <1>1, <1>2

\* A goroutine of a radio or onConfigChange is about to publish that m is here.
Arriving(m, steps) ==
    \/ \E h \in Hap : /\ hap[h].mac = m
                      /\ hap[h].pc \in steps \/ (hap[h].pc = "cancel" /\ hap[h].update)
    \/ conf.mac = m /\ conf.pc \in steps

\* What a station that is held for connected has in its topics.
HomeInv == ~Trouble => \A m \in MAC : Connected(m) =>
    state[m] = "home" \/ m \in late \/ Arriving(m, {"home"})

HereInv == ~Trouble => \A m \in MAC : Connected(m) =>
    attrs[m] = TRUE \/ m \in overtaken \/ Arriving(m, {"home", "attrs"})

\* Who begins to believe in a station publishes that it is here.
LEMMA ConnectedArrives ==
  ASSUME TypeInv, [Next]_vars, NEW m \in MAC, Connected(m)', ~Connected(m),
         NEW steps, "home" \in steps
  PROVE  Arriving(m, steps)'
<1> USE DEF TypeInv, TypeOK
<1>1. ASSUME NEW h \in Hap, HandleConnect(h), Head(evq[h]).mac = m, Tracked(m)
      PROVE  Arriving(m, steps)'
  <2>1. /\ hap' = [hap EXCEPT ![h] =
              [pc |-> "cancel", mac |-> m,
               update |-> ~stations[m].connected \/ stations[m].bssid # h]]
        /\ ~stations[m].connected
    BY <1>1 DEF HandleConnect, Connected
  <2>2. hap'[h].mac = m /\ hap'[h].pc = "cancel" /\ hap'[h].update
    BY <2>1 DEF HapOK
  <2> QED BY <2>2 DEF Arriving
<1> QED
  BY <1>1, ConnectedUntil DEF Arriving

\* Who was about to publish has published, or something has failed.
LEMMA ArrivingUntil ==
  ASSUME TypeInv, [Next]_vars, NEW m \in MAC, NEW steps,
         steps \in {{"home"}, {"home", "attrs"}},
         Arriving(m, steps), ~Arriving(m, steps)', ~Trouble'
  PROVE  \/ \E h \in Hap : hap[h].mac = m /\ (HapHome(h) \/ HapAttrs(h)) /\ hap[h].pc \in steps
         \/ conf.mac = m /\ (ConfHome \/ ConfAttrs) /\ conf.pc \in steps
<1> USE DEF TypeInv, TypeOK
<1>1. ASSUME NEW h \in Hap, hap[h].mac = m,
             hap[h].pc \in steps \/ (hap[h].pc = "cancel" /\ hap[h].update)
      PROVE  (HapHome(h) \/ HapAttrs(h)) /\ hap[h].pc \in steps
  <2>1. HapNext(h)
    <3>1. hap'[h] # hap[h]
      BY <1>1 DEF Arriving
    <3> QED BY <3>1, HapAlone
  <2>2. HapCancel(h) \/ HapHome(h) \/ HapAttrs(h)
    BY <1>1, <2>1 DEF HapNext, Attach, HandleConnect, HandleDisconnect, HapEnqueue,
         HandleTerminating, HandleDetached, ReadTimeout, Receives
  <2>3. ASSUME HapCancel(h) PROVE FALSE
    <3>1. hap[h].update /\ Enters(h, "home")
      BY <1>1, <2>3 DEF HapCancel
    <3>2. hap'[h].pc = "home" /\ hap'[h].mac = m
      BY <1>1, <3>1, HapFields
    <3> QED BY <3>2 DEF Arriving
  <2> QED BY <1>1, <2>2, <2>3 DEF HapHome, HapAttrs, HapCancel
<1>2. ASSUME conf.mac = m, conf.pc \in steps
      PROVE  ConfHome \/ ConfAttrs
  <2>1. conf' # conf
    BY <1>2 DEF Arriving
  <2>2. \A c \in Config : ~Receive(c)
    BY <1>2 DEF Receive
  <2>3. ConfNext
    BY <2>1, <2>2, ConfAlone
  <2> QED BY <1>2, <2>3 DEF ConfNext, DiffDevice, DiffRemoved, ListRadio, ListDone,
         ApplyNoChange, ApplyUpdated, ApplyAdded, ApplyRemoved, Applied, Register, Mark,
         ConfNotHome, Unregister, ReportConf
<1> QED
  BY <1>1, <1>2 DEF Arriving

LEMMA InitHome == Init => HomeInv
  BY DEF Init, HomeInv, Connected, Tracked, Nowhere

\* A station that is held for away is the only one for which onConfigChange says so.
LEMMA AwayIsSaid ==
  ASSUME StepInv, NewInv, NEW m \in MAC, conf.mac = m, conf.pc = "nothome"
  PROVE  ~Connected(m)
  BY DEF StepInv, NewInv, Adding

LEMMA NextHome ==
  ASSUME TypeInv, CbInv, StepInv, NewInv, HomeInv, [Next]_vars
  PROVE  HomeInv'
<1> USE DEF TypeInv, TypeOK
<1> SUFFICES ASSUME ~Trouble', NEW m \in MAC, Connected(m)',
                    state'[m] # "home", m \notin late', ~Arriving(m, {"home"})'
             PROVE  FALSE
  BY DEF HomeInv, Arriving
<1>1. ~Trouble
  BY TroubleStays
<1>2. ~done' /\ conf'.pc # "report"
  BY DEF Trouble, ConfTrouble
<1>3. Connected(m)
  BY ConnectedArrives
<1>4. state[m] = "home" \/ m \in late \/ Arriving(m, {"home"})
  BY <1>1, <1>3 DEF HomeInv
<1>5. ~PublishState(m, "home", FALSE) /\ ~PublishState(m, "not_home", Connected(m))
  BY <1>3, PublishFields
<1>6. ~(conf.mac = m /\ ConfNotHome)
  BY <1>3, AwayIsSaid DEF ConfNotHome
<1>7. CASE Arriving(m, {"home"})
  <2>1. ASSUME NEW h \in Hap, hap[h].mac = m, HapHome(h) PROVE FALSE
    BY <1>2, <1>5, <2>1 DEF HapHome, Aborts
  <2>2. ASSUME conf.mac = m, ConfHome PROVE FALSE
    <3>1. ~ConfFails
      BY <1>2, ConfFields DEF ConfFails
    <3> QED BY <1>5, <2>2, <3>1 DEF ConfHome
  <2> QED BY <1>7, <2>1, <2>2, ArrivingUntil DEF HapAttrs, ConfAttrs
<1> QED
  BY <1>4, <1>5, <1>6, <1>7, TopicUntil

LEMMA InitHere == AttributesInit => HereInv
  BY DEF AttributesInit, Init, HereInv, Connected, Tracked, Nowhere

\* Who publishes attributes does it with the step of Daemon.
LEMMA Reported ==
  ASSUME TypeInv, AttributesNext
  PROVE  /\ \A h \in Hap : HapAttrs(h) => HapReports(h)
         /\ ConfAttrs => ConfReports
<1> USE DEF TypeInv, TypeOK
<1>a. ASSUME NEW h \in Hap, HapAttrs(h)
      PROVE  hap'[h] # hap[h] /\ \A g \in Hap : g # h => hap'[g] = hap[g]
  <2>1. Returns(h) \/ Stops(h)
    BY <1>a DEF HapAttrs
  <2>2. hap[h].pc = "attrs" /\ hap'[h].pc # "attrs"
    BY <1>a, <2>1, HapFields DEF HapAttrs
  <2> QED BY <2>1, <2>2, HapFields
<1>b. ASSUME ConfAttrs PROVE conf' # conf
  <2>1. conf.mac \in MAC /\ conf.pc = "attrs"
    BY <1>b DEF ConfAttrs, ConfOK, LockedStep
  <2>2. conf'.pc # "attrs"
    BY <1>b, <2>1, ConfFields DEF ConfAttrs, ConfFails
  <2> QED BY <2>1, <2>2
<1>1. ASSUME NEW h \in Hap, HapReports(h)
      PROVE  /\ \A g \in Hap : HapAttrs(g) => HapReports(g)
             /\ ~ConfAttrs
  BY <1>1, <1>a, <1>b DEF HapReports, HapAttrs
<1>2. CASE ConfReports \/ ConfSaysNothing
  <2>1. /\ hap' = hap
        /\ ConfAttrs => ConfReports
    BY <1>2 DEF ConfReports, ConfSaysNothing, ConfAttrs, ConfNotHome
  <2> QED BY <1>a, <2>1
<1>3. ASSUME NEW t \in Timer, CbReports(t)
      PROVE  /\ \A h \in Hap : ~HapAttrs(h)
             /\ ~ConfAttrs
  BY <1>3, <1>a, <1>b DEF CbReports, CbAttrs
<1>4. CASE Next /\ NoReport
  BY <1>4, NextNoReport
<1> QED
  BY <1>1, <1>2, <1>3, <1>4 DEF AttributesNext

\* Attributes that are published without a failure are in the topic.
LEMMA ReportFields ==
  ASSUME AttributesOK, NEW m \in MAC, NEW n \in MAC, NEW connected, NEW failed,
         StationAttributes(n, connected, failed)
  PROVE  /\ n # m => attrs'[m] = attrs[m] /\ (m \in overtaken' <=> m \in overtaken)
         /\ n = m /\ ~failed => attrs'[m] = connected
         /\ n = m /\ ~connected /\ Connected(m) => m \in overtaken'
  BY DEF AttributesOK, StationAttributes

LEMMA NextHere ==
  ASSUME TypeInv, CbInv, AttributesOK, HereInv, [AttributesNext]_<<vars, about>>
  PROVE  HereInv'
<1> USE DEF TypeInv, TypeOK
<1>d. [Next]_vars
  BY AttributesAreDaemon
<1> SUFFICES ASSUME ~Trouble', NEW m \in MAC, Connected(m)',
                    attrs'[m] # TRUE, m \notin overtaken', ~Arriving(m, {"home", "attrs"})'
             PROVE  FALSE
  BY DEF HereInv, Arriving
<1>1. ~Trouble
  BY <1>d, TroubleStays
<1>2. ~done' /\ conf'.pc # "report"
  BY DEF Trouble, ConfTrouble
<1>f. ~ConfFails
  BY <1>2, ConfFields DEF ConfFails
<1>3. Connected(m)
  BY <1>d, ConnectedArrives
<1>4. attrs[m] = TRUE \/ m \in overtaken \/ Arriving(m, {"home", "attrs"})
  BY <1>1, <1>3 DEF HereInv
<1>5. ASSUME NEW h \in Hap, HapReports(h)
      PROVE  attrs'[m] = attrs[m] /\ (m \in overtaken' <=> m \in overtaken) /\ hap[h].mac # m
  <2>1. hap[h].mac \in MAC
    BY <1>5 DEF HapReports, HapAttrs, HapOK
  <2>2. Returns(h)
    BY <1>2, <1>5 DEF HapReports, HapAttrs, Aborts
  <2>3. hap'[h].pc # "stopped"
    BY <2>2, HapFields
  <2> QED BY <1>5, <2>1, <2>3, ReportFields DEF HapReports
<1>6. ASSUME ConfReports
      PROVE  attrs'[m] = attrs[m] /\ (m \in overtaken' <=> m \in overtaken) /\ conf.mac # m
  <2>1. conf.mac \in MAC
    BY <1>6 DEF ConfReports, ConfAttrs, ConfOK, LockedStep
  <2> QED BY <1>2, <1>6, <2>1, ReportFields DEF ConfReports
<1>7. CASE UNCHANGED <<vars, about>>
  BY <1>1, <1>3, <1>4, <1>7 DEF about, vars, Arriving
<1>8. CASE AttributesNext
  <2>1. ~Arriving(m, {"home", "attrs"})
    <3>1. ASSUME NEW h \in Hap, hap[h].mac = m, HapHome(h) PROVE FALSE
      <4>1. Enters(h, "attrs")
        BY <1>2, <3>1 DEF HapHome, Aborts
      <4>2. hap'[h].pc = "attrs" /\ hap'[h].mac = m
        BY <3>1, <4>1, HapFields
      <4> QED BY <4>2 DEF Arriving
    <3>2. ASSUME conf.mac = m, ConfHome PROVE FALSE
      <4>1. Proceeds(m, "attrs")
        BY <1>f, <3>2 DEF ConfHome
      <4>2. conf'.mac = m /\ conf'.pc = "attrs"
        BY <4>1, ConfFields
      <4> QED BY <4>2 DEF Arriving
    <3>3. ASSUME NEW h \in Hap, hap[h].mac = m, HapAttrs(h) PROVE FALSE
      BY <1>5, <1>8, <3>3, Reported
    <3>4. ASSUME conf.mac = m, ConfAttrs PROVE FALSE
      BY <1>6, <1>8, <3>4, Reported
    <3> QED BY <1>d, <3>1, <3>2, <3>3, <3>4, ArrivingUntil
  <2>2. ASSUME NEW t \in Timer, CbReports(t)
        PROVE  attrs'[m] = attrs[m] /\ (m \in overtaken' <=> m \in overtaken)
    <3>1. owner[t] \in MAC
      BY <2>2 DEF CbReports, CbAttrs, At, DbOK, Db!TypeOK
    <3> QED BY <1>3, <2>2, <3>1, ReportFields DEF CbReports
  <2>3. CASE ConfSaysNothing
    BY <1>4, <2>1, <2>3 DEF ConfSaysNothing
  <2>4. CASE NoReport
    BY <1>4, <2>1, <2>4 DEF NoReport
  <2> QED BY <1>4, <1>5, <1>6, <1>8, <2>1, <2>2, <2>3, <2>4 DEF AttributesNext
<1> QED
  BY <1>7, <1>8

\* In a settled system nothing has failed and nobody is about to publish.
LEMMA SettledIsPublished ==
  ASSUME Settled, NEW m \in MAC, ~InFlight(m)
  PROVE  /\ ~Trouble
         /\ ~Arriving(m, {"home"}) /\ ~Arriving(m, {"home", "attrs"})
  BY DEF Trouble, ConfTrouble, Arriving, InFlight, Settled

\* What the daemon believes of a station that is connected it publishes, for any
\* number of stations, radios and timers, repeated addresses included: whoever
\* sets the flag publishes home before it goes on (daemon.go:322-342, 389-409).
THEOREM BeliefsArePublished == SafeSpec => []BeliefIsPublished
<1> DEFINE Inv == TypeInv /\ CbInv /\ StepInv /\ NewInv /\ HomeInv
<1>1. Init => Inv
  BY InitType, InitCb, InitStep, InitNew, InitHome
<1>2. Inv /\ [Next]_vars => Inv'
  <2> SUFFICES ASSUME Inv, [Next]_vars PROVE Inv'
    OBVIOUS
  <2>1. TypeInv' /\ CbInv' /\ StepInv'
    BY NextType, NextCb, NextStep
  <2> QED BY <2>1, NextNew, NextHome
<1>3. Inv => BeliefIsPublished
  BY SettledIsPublished DEF HomeInv, BeliefIsPublished
<1> QED
  BY <1>1, <1>2, <1>3, PTL DEF SafeSpec

\* Nor do the attributes of a station that the daemon holds for connected say
\* otherwise, but for a callback that read the station earlier (daemon.go:416-431, 491).
BeliefInAttributes ==
    \A m \in MAC :
        Settled /\ ~InFlight(m) /\ Connected(m) => attrs[m] = TRUE \/ m \in overtaken

\* The same for the attributes, for any number of radios (daemon.go:332-348, 416-431).
THEOREM BeliefsInAttributes == SafeAttributesSpec => []BeliefInAttributes
<1> DEFINE Inv == TypeInv /\ CbInv /\ AttributesOK /\ HereInv
<1>1. AttributesInit => Inv
  BY InitType, InitCb, InitAttributes, InitHere DEF AttributesInit
<1>2. Inv /\ [AttributesNext]_<<vars, about>> => Inv'
  BY AttributesAreDaemon, NextType, NextCb, NextAttributesOK, NextHere
<1>3. Inv => BeliefInAttributes
  BY SettledIsPublished DEF HereInv, BeliefInAttributes
<1> QED
  BY <1>1, <1>2, <1>3, PTL DEF SafeAttributesSpec

------------------------------------------------------------------------------
(* The connects in the sockets.                                            *)

\* A connect of m waits in the socket of h.
Waits(h, m) == \E i \in 1..Len(evq[h]) : evq[h][i] = Connect(m)

\* A disconnect in a socket: m is not there, or a connect waits behind it, or m
\* came back when nobody was told.
ReturnsOK == \A h \in Hap, m \in MAC : \A i \in 1..Len(evq[h]) :
    evq[h][i] = Disconnect(m) =>
        \/ m \notin assoc[h] \/ m \in unseen[h]
        \/ \E j \in (i + 1)..Len(evq[h]) : evq[h][j] = Connect(m)

\* What a step does to the sockets and to the stations at the radios.
LEMMA SocketSteps ==
  ASSUME [Next]_vars
  PROVE  \/ UNCHANGED <<assoc, evq, unseen>>
         \/ \E h \in Hap, m \in MAC : Associate(h, m) \/ Disassociate(h, m)
         \/ \E h \in Hap : HostapdTerminates(h) \/ SendDetach(h)
         \/ \E h \in Hap : \E kind \in {"connect", "disconnect", "terminating", "detached"} :
              /\ Receives(h, kind) /\ UNCHANGED <<assoc, unseen>>
              /\ kind = "connect" => HandleConnect(h)
         \/ ListRadio /\ UNCHANGED <<assoc, evq>>
<1>1. ASSUME NEW h \in Hap, HapNext(h)
      PROVE  \/ UNCHANGED <<assoc, evq, unseen>>
             \/ \E kind \in {"connect", "disconnect", "terminating", "detached"} :
                  /\ Receives(h, kind) /\ UNCHANGED <<assoc, unseen>>
                  /\ kind = "connect" => HandleConnect(h)
  BY <1>1 DEF HapNext, Attach, HandleConnect, HapCancel, HapHome, HapAttrs, HandleDisconnect,
       HapEnqueue, HandleTerminating, HandleDetached, ReadTimeout, env
<1>2. CASE ConfNext
  BY <1>2 DEF ConfNext, DiffDevice, DiffRemoved, ListRadio, ListDone, ApplyNoChange,
       ApplyUpdated, ApplyAdded, ApplyRemoved, Applied, Register, Mark, ConfNotHome, ConfHome,
       ConfAttrs, Unregister, ReportConf, env
<1>3. ASSUME NEW t \in Timer, CbNext(t) PROVE UNCHANGED <<assoc, evq, unseen>>
  BY <1>3 DEF CbNext, Fire, Begin, Skip, CbNotHome, CbRead, CbAttrs, CbReport, env
<1>4. CASE EnvNext \/ RunNext \/ UNCHANGED vars
  BY <1>4 DEF EnvNext, RunNext, vars, Receive, Stop, Watch, SubscribeReturns, env
<1> QED
  BY <1>1, <1>2, <1>3, <1>4 DEF Next

\* A datagram is read: those behind it move up.
LEMMA ReceiveMoves ==
  ASSUME EnvOK, NEW h \in Hap, NEW kind, Receives(h, kind)
  PROVE  /\ \A g \in Hap : g # h => evq'[g] = evq[g]
         /\ Len(evq[h]) \in Nat /\ Len(evq[h]) >= 1 /\ Len(evq'[h]) = Len(evq[h]) - 1
         /\ evq[h][1] = Head(evq[h])
         /\ \A i \in 1..Len(evq'[h]) : evq'[h][i] = evq[h][i + 1]
<1>1. evq \in [Hap -> Seq(Event)] /\ evq' = [evq EXCEPT ![h] = Tail(@)] /\ evq[h] # <<>>
  BY DEF EnvOK, Receives
<1>2. evq[h] \in Seq(Event) /\ evq'[h] = Tail(evq[h])
  BY <1>1
<1> QED BY <1>1, <1>2

\* An event about m is the last in the socket, or nobody was told.
Announced(h, m, e) ==
    /\ \A g \in Hap : \A i \in 1..Len(evq[g]) :
          i \in 1..Len(evq'[g]) /\ evq'[g][i] = evq[g][i]
    /\ \A g \in Hap : \A i \in 1..Len(evq'[g]) :
          i \in 1..Len(evq[g]) \/ (g = h /\ evq'[g][i] = e)
    /\ \/ Len(evq'[h]) > Len(evq[h]) /\ evq'[h][Len(evq'[h])] = e
       \/ m \in unseen'[h]
    /\ \A g \in Hap, n \in MAC : g # h \/ n # m => (n \in unseen'[g] <=> n \in unseen[g])

LEMMA AnnounceFields ==
  ASSUME EnvOK, NEW h \in Hap, NEW m \in MAC, NEW kind \in {"connect", "disconnect"},
         Announce(h, m, kind)
  PROVE  Announced(h, m, [kind |-> kind, mac |-> m])
<1> DEFINE e == [kind |-> kind, mac |-> m]
<1>1. e \in Event
  BY DEF Event
<1>2. \A g \in Hap : Len(evq[g]) \in Nat
  BY DEF EnvOK
<1>3. CASE attached[h]
  <2>1. /\ evq' = [evq EXCEPT ![h] = Append(@, e)]
        /\ unseen' = [unseen EXCEPT ![h] = @ \ {m}]
    BY <1>3 DEF Announce
  <2> HIDE DEF e
  <2>2. /\ \A g \in Hap : /\ Len(evq'[g]) = IF g = h THEN Len(evq[g]) + 1 ELSE Len(evq[g])
                          /\ \A i \in 1..Len(evq[g]) : evq'[g][i] = evq[g][i]
        /\ evq'[h][Len(evq[h]) + 1] = e
    BY <1>1, <2>1, AppendKeeps
  <2>3. \A g \in Hap, n \in MAC : g # h \/ n # m => (n \in unseen'[g] <=> n \in unseen[g])
    BY <2>1 DEF EnvOK
  <2>4. \A g \in Hap : \A i \in 1..Len(evq'[g]) :
          i \in 1..Len(evq[g]) \/ (g = h /\ evq'[g][i] = e)
    BY <1>2, <2>2
  <2>5. Len(evq'[h]) > Len(evq[h]) /\ evq'[h][Len(evq'[h])] = e
    BY <1>2, <2>2
  <2>6. \A g \in Hap : \A i \in 1..Len(evq[g]) :
          i \in 1..Len(evq'[g]) /\ evq'[g][i] = evq[g][i]
    BY <1>2, <2>2
  <2> QED BY <2>3, <2>4, <2>5, <2>6 DEF Announced, e
<1>4. CASE ~attached[h]
  <2>1. evq' = evq /\ unseen' = [unseen EXCEPT ![h] = @ \union {m}]
    BY <1>4 DEF Announce
  <2> QED BY <2>1 DEF EnvOK, Announced
<1> QED
  BY <1>3, <1>4

LEMMA InitReturns == Init => ReturnsOK
  BY DEF Init, ReturnsOK

LEMMA NextReturns ==
  ASSUME TypeInv, SilenceOK, NewsOK, ReturnsOK, [Next]_vars
  PROVE  ReturnsOK'
<1> USE DEF TypeInv, TypeOK
<1>l. \A g \in Hap : Len(evq[g]) \in Nat
  BY DEF EnvOK
<1>t. TypeInv'
  BY NextType
<1>m. \A g \in Hap : Len(evq'[g]) \in Nat
  BY <1>t DEF EnvOK
<1>1. CASE UNCHANGED <<assoc, evq, unseen>>
  BY <1>1 DEF ReturnsOK
<1>2. ASSUME NEW h \in Hap, NEW n \in MAC, NEW kind \in {"connect", "disconnect"},
             Announce(h, n, kind),
             kind = "disconnect" => n \notin assoc'[h],
             \A g \in Hap, m \in MAC : g # h \/ m # n => (m \in assoc'[g] <=> m \in assoc[g]),
             NEW g \in Hap, NEW m \in MAC, NEW i \in 1..Len(evq'[g]), evq'[g][i] = Disconnect(m),
             m \in assoc'[g], m \notin unseen'[g]
      PROVE  \E j \in (i + 1)..Len(evq'[g]) : evq'[g][j] = Connect(m)
  <2>a. Announced(h, n, [kind |-> kind, mac |-> n])
    BY <1>2, AnnounceFields
  <2>1. CASE g = h /\ m = n
    <3>1. kind = "connect"
      BY <1>2, <2>1
    <3>2. Len(evq'[h]) > Len(evq[h]) /\ evq'[h][Len(evq'[h])] = Connect(m)
      BY <1>2, <2>1, <2>a, <3>1 DEF Announced, Connect
    <3>3. i # Len(evq'[h])
      BY <1>2, <2>1, <3>2 DEF Connect, Disconnect
    <3>4. Len(evq'[h]) \in (i + 1)..Len(evq'[h])
      BY <1>2, <1>m, <2>1, <3>3
    <3> QED BY <2>1, <3>2, <3>4
  <2>2. CASE ~(g = h /\ m = n)
    <3>1. i \in 1..Len(evq[g]) /\ evq'[g][i] = evq[g][i]
      <4>1. evq'[g][i] # [kind |-> kind, mac |-> n] \/ g # h
        BY <1>2, <2>2 DEF Disconnect
      <4> QED BY <1>2, <2>a, <4>1 DEF Announced
    <3>2. m \in assoc[g] /\ m \notin unseen[g]
      BY <1>2, <2>2, <2>a DEF Announced
    <3>3. PICK j \in (i + 1)..Len(evq[g]) : evq[g][j] = Connect(m)
      BY <1>2, <3>1, <3>2 DEF ReturnsOK
    <3>4. j \in 1..Len(evq[g])
      BY <1>l, <3>1, <3>3
    <3>5. j \in 1..Len(evq'[g]) /\ evq'[g][j] = evq[g][j]
      BY <2>a, <3>4 DEF Announced
    <3>6. j \in (i + 1)..Len(evq'[g])
      BY <1>l, <1>m, <3>1, <3>3, <3>5
    <3> QED BY <3>3, <3>5, <3>6
  <2> QED BY <2>1, <2>2
<1>3. ASSUME NEW h \in Hap, NEW n \in MAC, Associate(h, n) \/ Disassociate(h, n)
      PROVE  ReturnsOK'
  <2>1. PICK kind \in {"connect", "disconnect"} :
          /\ Announce(h, n, kind)
          /\ kind = "disconnect" => n \notin assoc'[h]
          /\ \A g \in Hap, m \in MAC : g # h \/ m # n => (m \in assoc'[g] <=> m \in assoc[g])
    BY <1>3 DEF Associate, Disassociate, EnvOK
  <2> QED BY <1>2, <2>1 DEF ReturnsOK
<1>4. ASSUME NEW h \in Hap, HostapdTerminates(h) \/ SendDetach(h) PROVE ReturnsOK'
  <2>1. PICK e \in Event : /\ e.kind \in {"terminating", "detached"}
                           /\ evq' = [evq EXCEPT ![h] = Append(@, e)]
    BY <1>4, EventType DEF HostapdTerminates, SendDetach
  <2>2. assoc' = assoc /\ unseen' = unseen
    BY <1>4 DEF HostapdTerminates, SendDetach
  <2>3. /\ \A g \in Hap : /\ Len(evq'[g]) = IF g = h THEN Len(evq[g]) + 1 ELSE Len(evq[g])
                          /\ \A i \in 1..Len(evq[g]) : evq'[g][i] = evq[g][i]
        /\ evq'[h][Len(evq[h]) + 1] = e
    BY <2>1, AppendKeeps
  <2>4. ASSUME NEW g \in Hap, NEW m \in MAC, NEW i \in 1..Len(evq'[g]),
               evq'[g][i] = Disconnect(m), m \in assoc'[g], m \notin unseen'[g]
        PROVE  \E j \in (i + 1)..Len(evq'[g]) : evq'[g][j] = Connect(m)
    <3>1. i # Len(evq[g]) + 1 \/ g # h
      BY <2>1, <2>3, <2>4 DEF Disconnect
    <3>2. i \in 1..Len(evq[g]) /\ evq[g][i] = Disconnect(m)
      BY <1>l, <2>3, <2>4, <3>1
    <3>3. PICK j \in (i + 1)..Len(evq[g]) : evq[g][j] = Connect(m)
      BY <2>2, <2>4, <3>2 DEF ReturnsOK
    <3>4. j \in (i + 1)..Len(evq'[g]) /\ evq'[g][j] = evq[g][j]
      BY <1>l, <2>3, <3>2, <3>3
    <3> QED BY <3>3, <3>4
  <2> QED BY <2>4 DEF ReturnsOK
<1>5. ASSUME NEW h \in Hap, NEW kind, Receives(h, kind), UNCHANGED <<assoc, unseen>>
      PROVE  ReturnsOK'
  <2>1. ASSUME NEW g \in Hap, NEW m \in MAC, NEW i \in 1..Len(evq'[g]),
               evq'[g][i] = Disconnect(m), m \in assoc'[g], m \notin unseen'[g]
        PROVE  \E j \in (i + 1)..Len(evq'[g]) : evq'[g][j] = Connect(m)
    <3>1. CASE g # h
      BY <1>5, <2>1, <3>1, ReceiveMoves DEF ReturnsOK
    <3>2. CASE g = h
      <4>1. i + 1 \in 1..Len(evq[h]) /\ evq[h][i + 1] = Disconnect(m)
        BY <1>5, <2>1, <3>2, ReceiveMoves
      <4>2. PICK j \in (i + 2)..Len(evq[h]) : evq[h][j] = Connect(m)
        BY <1>5, <2>1, <3>2, <4>1 DEF ReturnsOK
      <4>3. /\ Len(evq[h]) \in Nat /\ Len(evq'[h]) = Len(evq[h]) - 1
            /\ \A k \in 1..Len(evq'[h]) : evq'[h][k] = evq[h][k + 1]
        BY <1>5, ReceiveMoves
      <4>4. j - 1 \in (i + 1)..Len(evq'[h]) /\ j - 1 \in 1..Len(evq'[h]) /\ (j - 1) + 1 = j
        BY <2>1, <3>2, <4>2, <4>3
      <4>5. evq'[h][j - 1] = evq[h][j]
        BY <4>3, <4>4
      <4> QED BY <3>2, <4>2, <4>4, <4>5
    <3> QED BY <3>1, <3>2
  <2> QED BY <2>1 DEF ReturnsOK
<1>6. CASE ListRadio /\ UNCHANGED <<assoc, evq>>
  <2>1. PICK g \in Hap : g = HapOrder[conf.i]
    <3>1. conf.i \in Nat \ {0} /\ conf.i <= Len(HapOrder)
      BY <1>6 DEF ListRadio, ConfOK, ConfState
    <3> QED BY <3>1, HapOrderAssumption
  <2>2. CASE ~Listens(g)
    <3>1. unseen' = unseen
      BY <1>6, <2>1, <2>2 DEF ListRadio
    <3> QED BY <1>6, <3>1 DEF ReturnsOK
  <2>3. CASE Listens(g)
    <3>1. \A h \in Hap : h # g => unseen'[h] = unseen[h]
      BY <1>6, <2>1 DEF ListRadio, EnvOK
    <3>2. \A m \in unseen[g] : \A i \in 1..Len(evq[g]) : evq[g][i].mac # m
      <4>1. CASE evq[g] = <<>>
        BY <4>1
      <4>2. CASE evq[g] # <<>>
        <5>1. attached[g]
          BY <2>3, <4>2 DEF Listens, SilenceOK
        <5>2. unseen[g] \subseteq MAC
          BY DEF EnvOK
        <5> QED BY <5>1, <5>2 DEF NewsOK
      <4> QED BY <4>1, <4>2
    <3>3. \A h \in Hap, m \in MAC : \A i \in 1..Len(evq[h]) :
            evq[h][i] = Disconnect(m) => (m \in unseen[h] => m \in unseen'[h])
      BY <3>1, <3>2 DEF Disconnect
    <3> QED BY <1>6, <3>3 DEF ReturnsOK
  <2> QED BY <2>2, <2>3
<1> QED
  BY <1>1, <1>3, <1>4, <1>5, <1>6, SocketSteps

\* A connect that no longer waits has been handled.
LEMMA WaitsUntil ==
  ASSUME TypeInv, [Next]_vars, NEW h \in Hap, NEW m \in MAC, Waits(h, m), ~Waits(h, m)'
  PROVE  HandleConnect(h) /\ Head(evq[h]) = Connect(m)
<1> USE DEF TypeInv, TypeOK
<1>1. PICK i \in 1..Len(evq[h]) : evq[h][i] = Connect(m)
  BY DEF Waits
<1>2. evq' # evq
  BY DEF Waits
<1>3. ASSUME NEW g \in Hap, NEW n \in MAC, Associate(g, n) \/ Disassociate(g, n) PROVE FALSE
  <2>1. PICK kind \in {"connect", "disconnect"} : Announce(g, n, kind)
    BY <1>3 DEF Associate, Disassociate
  <2>2. Announced(g, n, [kind |-> kind, mac |-> n])
    BY <2>1, AnnounceFields
  <2> QED BY <1>1, <2>2 DEF Announced, Waits
<1>4. ASSUME NEW g \in Hap, HostapdTerminates(g) \/ SendDetach(g) PROVE FALSE
  <2>1. PICK e \in Event : evq' = [evq EXCEPT ![g] = Append(@, e)]
    BY <1>4, EventType DEF HostapdTerminates, SendDetach
  <2>2. Len(evq[h]) \in Nat
    BY DEF EnvOK
  <2>3. i \in 1..Len(evq'[h]) /\ evq'[h][i] = evq[h][i]
    BY <1>1, <2>1, <2>2, AppendKeeps
  <2> QED BY <1>1, <2>3 DEF Waits
<1>5. ASSUME NEW g \in Hap, NEW kind, Receives(g, kind), kind = "connect" => HandleConnect(g)
      PROVE  HandleConnect(h) /\ Head(evq[h]) = Connect(m)
  <2>1. g = h
    BY <1>1, <1>5, ReceiveMoves DEF Waits
  <2>2. /\ Len(evq[h]) \in Nat /\ Len(evq'[h]) = Len(evq[h]) - 1
        /\ evq[h][1] = Head(evq[h])
        /\ \A k \in 1..Len(evq'[h]) : evq'[h][k] = evq[h][k + 1]
    BY <1>5, <2>1, ReceiveMoves
  <2>3. ASSUME i # 1 PROVE FALSE
    <3>1. i - 1 \in 1..Len(evq'[h]) /\ (i - 1) + 1 = i
      BY <1>1, <2>2, <2>3
    <3>2. evq'[h][i - 1] = Connect(m)
      BY <1>1, <2>2, <3>1
    <3> QED BY <3>1, <3>2 DEF Waits
  <2>4. Head(evq[h]) = Connect(m)
    BY <1>1, <2>2, <2>3
  <2>5. kind = "connect"
    BY <1>5, <2>1, <2>4 DEF Receives, Connect
  <2> QED BY <1>5, <2>1, <2>4, <2>5
<1> QED
  BY <1>2, <1>3, <1>4, <1>5, SocketSteps

\* The disconnect of a station that is there has a connect behind it.
LEMMA ConnectFollows ==
  ASSUME TypeInv, ReturnsOK, NEW h \in Hap, NEW m \in MAC,
         HandleDisconnect(h), Head(evq[h]) = Disconnect(m), m \in assoc[h], m \notin unseen[h]
  PROVE  Waits(h, m)'
<1> USE DEF TypeInv, TypeOK
<1>1. /\ Len(evq[h]) \in Nat /\ Len(evq[h]) >= 1 /\ Len(evq'[h]) = Len(evq[h]) - 1
      /\ evq[h][1] = Head(evq[h])
      /\ \A k \in 1..Len(evq'[h]) : evq'[h][k] = evq[h][k + 1]
  BY ReceiveMoves DEF HandleDisconnect
<1>2. 1 \in 1..Len(evq[h]) /\ evq[h][1] = Disconnect(m)
  BY <1>1
<1>3. PICK j \in (1 + 1)..Len(evq[h]) : evq[h][j] = Connect(m)
  BY <1>2 DEF ReturnsOK
<1>4. j - 1 \in 1..Len(evq'[h]) /\ (j - 1) + 1 = j
  BY <1>1, <1>3
<1>5. evq'[h][j - 1] = Connect(m)
  BY <1>1, <1>3, <1>4
<1> QED BY <1>4, <1>5 DEF Waits

------------------------------------------------------------------------------
(* One radio.                                                              *)

OneRadio == \A g, h \in Hap : g = h

\* Client.Stations gives all that hostapd has, or an error.
FullListings == Fault \cap {"unknown", "truncate"} = {}

\* connectedStations has asked the radio.
Asked(h) ==
    \/ conf.pc \in LockedStep \ {"diff", "list"}
    \/ conf.pc = "list" /\ \E k \in 1..Len(HapOrder) : k < conf.i /\ HapOrder[k] = h

\* onConfigChange will find the new device m connected.
Awaited(h, m) ==
    /\ conf.change[m] = "added"
    /\ ~(conf.mac = m /\ conf.pc \in {"nothome", "home", "attrs"})
    /\ Asked(h) => conf.listed[m] = h

\* A device that is new makes onConfigChange ask the radios.
UpdateInv == conf.pc = "diff" => \A m \in MAC : conf.change[m] = "added" => conf.update

\* The daemon knows of a tracked station that is at the radio, or will.
PresentInv == ~Trouble => \A h \in Hap, m \in MAC :
    Tracked(m) /\ m \in assoc[h] /\ m \notin unseen[h] =>
        Connected(m) \/ Waits(h, m) \/ Awaited(h, m)

LEMMA InitUpdate == Init => UpdateInv
  BY WaitingType DEF Init, UpdateInv

LEMMA NextUpdate ==
  ASSUME TypeInv, StepInv, UpdateInv, [Next]_vars
  PROVE  UpdateInv'
<1> USE DEF TypeInv, TypeOK
<1>1. CASE conf' = conf
  BY <1>1 DEF UpdateInv
<1>2. CASE conf'.pc # "diff"
  BY <1>2 DEF UpdateInv
<1>3. CASE ~ConfNext
  <2>1. ASSUME NEW c \in Config, Receive(c) PROVE \A m \in MAC : conf'.change[m] = "none"
    BY <2>1 DEF Receive, Waiting, NoChanges
  <2> QED BY <1>1, <1>3, <2>1, ConfAlone DEF UpdateInv
<1>4. CASE DiffDevice
  <2>1. CASE conf.cfg[conf.i].mac = None
    BY <1>4, <2>1, WaitingType DEF DiffDevice, ConfFails, UpdateInv
  <2>2. CASE conf.cfg[conf.i].mac # None
    <3>1. PICK c \in Change : c = ChangeOf(conf.cfg[conf.i])
      BY DEF ChangeOf, Change
    <3>2. conf' = [conf EXCEPT !.i = @ + 1, !.change[conf.cfg[conf.i].mac] = c,
                               !.update = @ \/ c # "nochange"]
      BY <1>4, <2>2, <3>1 DEF DiffDevice
    <3>3. /\ conf'.update <=> conf.update \/ c # "nochange"
          /\ \A m \in MAC : conf'.change[m] \in {conf.change[m], c}
      BY <3>2 DEF ConfOK, ConfState
    <3> QED BY <1>4, <3>3 DEF UpdateInv, DiffDevice
  <2> QED BY <2>1, <2>2
<1>5. CASE ConfNext /\ ~DiffDevice
  <2>1. conf'.pc # "diff"
    BY <1>5, RemovedFields, ListFields, MarkFields, ChangeStep, WaitingType DEF ConfNext
  <2> QED BY <1>2, <2>1
<1> QED
  BY <1>3, <1>4, <1>5

\* Going through the changes leaves the listing alone.
LEMMA ListedKept ==
  ASSUME ConfOK, NEW n \in MAC
  PROVE  /\ Settles(n) => conf'.listed = conf.listed
         /\ \A step : Proceeds(n, step) => conf'.listed = conf.listed
  BY DEF ConfOK, ConfState, Settles, Proceeds

\* A device that will be found connected is, or something has failed.
LEMMA AwaitedUntil ==
  ASSUME OneRadio, FullListings, BaseInv, UpdateInv, [Next]_vars,
         NEW h \in Hap, NEW m \in MAC, m \in assoc[h],
         Awaited(h, m), ~Awaited(h, m)', conf'.pc # "report"
  PROVE  Connected(m)'
<1> USE DEF BaseInv, TypeInv, TypeOK
<1>a. /\ conf.change[m] = "added" /\ conf.pc \notin {"idle", "report"}
      /\ ~(conf.mac = m /\ conf.pc \in {"nothome", "home", "attrs"})
      /\ Asked(h) => conf.listed[m] = h
  BY DEF Awaited, StepInv
<1>w. ASSUME NEW step \in {"idle", "report"}, conf' = Waiting(step) PROVE step = "idle"
  BY <1>w, ConfFields
<1>1. ConfNext
  <2>1. conf' # conf
    BY DEF Awaited, Asked
  <2> QED BY <1>a, <2>1, ConfAlone DEF Receive
<1>2. CASE DiffDevice
  <2>1. conf.cfg[conf.i].mac # None
    BY <1>2, <1>w DEF DiffDevice, ConfFails
  <2>2. PICK n \in MAC :
          /\ conf.cfg[conf.i].mac = n
          /\ conf'.pc = "diff" /\ conf'.mac = conf.mac
          /\ \A k \in MAC : k # n => conf'.change[k] = conf.change[k]
    BY <1>2, <2>1, DiffFields
  <2>3. conf.i \in conf.i..Len(conf.cfg) /\ conf.pc = "diff"
    BY <1>2, ConfigAssumption DEF DiffDevice, ConfOK, ConfState
  <2>4. conf.change[n] = "none"
    BY <2>1, <2>2, <2>3 DEF DiffInv
  <2>5. conf'.change[m] = "added" /\ ~Asked(h)'
    BY <1>a, <2>2, <2>4 DEF Asked
  <2> QED BY <2>2, <2>5 DEF Awaited
<1>3. CASE DiffRemoved
  <2>1. Changed
    BY <1>a DEF Changed
  <2>2. /\ conf'.pc \in {"list", "apply"} /\ conf'.mac = conf.mac
        /\ conf'.change[m] = "added"
    BY <1>3, <1>a, <2>1, RemovedFields
  <2>3. conf.update
    BY <1>3, <1>a DEF DiffRemoved, UpdateInv
  <2>4. conf'.pc = "list" /\ conf'.i = 1
    BY <1>3, <2>1, <2>3 DEF DiffRemoved, ConfOK, ConfState
  <2>5. ~Asked(h)'
    BY <2>4 DEF Asked
  <2> QED BY <2>2, <2>4, <2>5 DEF Awaited
<1>4. CASE ListRadio
  <2>1. HapOrder[conf.i] = h
    <3>1. conf.i \in Nat \ {0} /\ conf.i <= Len(HapOrder)
      BY <1>4 DEF ListRadio, ConfOK, ConfState
    <3>2. HapOrder[conf.i] \in Hap
      BY <3>1, HapOrderAssumption
    <3> QED BY <3>2 DEF OneRadio
  <2>2. Listings(h) = {assoc[h]}
    BY DEF FullListings, Listings
  <2>3. conf' = [conf EXCEPT !.i = @ + 1,
                   !.listed = [n \in MAC |-> IF n \in assoc[h] THEN h ELSE @[n]]]
    BY <1>4, <1>w, <2>1, <2>2 DEF ListRadio, FullListings, ConfFails
  <2>4. /\ conf'.pc = conf.pc /\ conf'.mac = conf.mac /\ conf'.change = conf.change
        /\ conf'.listed[m] = h
    BY <2>3 DEF ConfOK, ConfState
  <2> QED BY <1>a, <2>4 DEF Awaited
<1>5. CASE ListDone
  <2>1. PICK k \in 1..Len(HapOrder) : HapOrder[k] = h
    BY HapOrderAssumption
  <2>2. k < conf.i /\ conf.pc = "list"
    BY <1>5, <2>1, HapOrderAssumption DEF ListDone, ConfOK, ConfState
  <2>3. conf.listed[m] = h
    BY <1>a, <2>1, <2>2 DEF Asked
  <2>4. /\ conf'.pc = "apply" /\ conf'.change = conf.change /\ conf'.listed = conf.listed
    BY <1>5 DEF ListDone, ConfOK, ConfState
  <2> QED BY <1>a, <2>3, <2>4 DEF Awaited
<1>6. ASSUME conf.pc \in LockedStep \ {"diff", "list"},
             NEW n \in MAC, NEW step, Proceeds(n, step),
             n = m => step \notin {"nothome", "home", "attrs"}
      PROVE  FALSE
  <2>1. conf.listed[m] = h
    BY <1>6, <1>a DEF Asked
  <2>2. /\ conf'.pc = step /\ conf'.mac = n /\ conf'.change = conf.change
        /\ conf'.listed = conf.listed
    BY <1>6, ConfFields, ListedKept
  <2> QED BY <1>6, <1>a, <2>1, <2>2 DEF Awaited
<1>7. ASSUME conf.pc \in LockedStep \ {"diff", "list"}, NEW n \in MAC, Settles(n), n # m
      PROVE  FALSE
  <2>1. conf.listed[m] = h
    BY <1>7, <1>a DEF Asked
  <2>2. /\ conf'.pc = "apply" /\ conf'.change[m] = conf.change[m]
        /\ conf'.listed = conf.listed
    BY <1>7, ConfFields, ListedKept
  <2> QED BY <1>7, <1>a, <2>1, <2>2 DEF Awaited
<1>8. CASE Mark
  <2>1. PICK n \in MAC :
          /\ conf.mac = n
          /\ \/ Connected(n)'
             \/ conf.listed[n] = None
    BY <1>8, MarkFields
  <2>2. conf.pc = "mark" /\ conf.pc \in LockedStep \ {"diff", "list"}
    BY <1>8 DEF Mark, LockedStep
  <2>3. conf.listed[m] # None
    BY <1>a, <2>2, SentinelAssumption DEF Asked
  <2>4. \E step : Proceeds(n, step)
    BY <1>8, <2>1 DEF Mark
  <2>5. n = m
    BY <1>6, <2>2, <2>4
  <2> QED BY <2>1, <2>3, <2>5
<1>9. ASSUME NEW n \in MAC, ApplyNoChange(n) \/ ApplyUpdated(n) \/ ApplyAdded(n) \/ ApplyRemoved(n)
      PROVE  FALSE
  <2>1. conf.pc \in LockedStep \ {"diff", "list"}
    BY <1>9 DEF ApplyNoChange, ApplyUpdated, ApplyAdded, ApplyRemoved, LockedStep
  <2>2. \/ Settles(n) /\ n # m
        \/ Proceeds(n, "register") \/ Proceeds(n, "mark") \/ Proceeds(n, "unregister")
    BY <1>9, <1>a DEF ApplyNoChange, ApplyUpdated, ApplyAdded, ApplyRemoved
  <2> QED BY <1>6, <1>7, <2>1, <2>2
<1>10. ASSUME Register \/ ConfNotHome \/ ConfHome \/ ConfAttrs \/ Unregister
       PROVE  FALSE
  <2>1. conf.mac \in MAC
    BY <1>10 DEF Register, ConfNotHome, ConfHome, ConfAttrs, Unregister, ConfOK, LockedStep
  <2>2. conf.pc \in LockedStep \ {"diff", "list"}
    BY <1>10 DEF Register, ConfNotHome, ConfHome, ConfAttrs, Unregister, LockedStep
  <2>3. ~ConfFails
    BY <1>w DEF ConfFails
  <2>4. \/ Proceeds(conf.mac, "mark")
        \/ Settles(conf.mac) /\ conf.mac # m
        \/ Proceeds(conf.mac, "attrs") /\ conf.mac # m
    BY <1>10, <1>a, <2>3 DEF Register, ConfNotHome, ConfHome, ConfAttrs, Unregister, StepInv
  <2> QED BY <1>6, <1>7, <2>1, <2>2, <2>4
<1>11. ASSUME Applied \/ ReportConf PROVE FALSE
  BY <1>11, <1>a DEF Applied, ReportConf, Changed
<1> QED
  BY <1>1, <1>2, <1>3, <1>4, <1>5, <1>8, <1>9, <1>10, <1>11 DEF ConfNext

\* Who comes to hold m for away.
LEMMA AwayUntil ==
  ASSUME TypeInv, [Next]_vars, NEW m \in MAC, Connected(m), Tracked(m)', ~Connected(m)'
  PROVE  \/ \E h \in Hap : HandleDisconnect(h) /\ Head(evq[h]) = Disconnect(m)
         \/ Mark /\ conf.mac = m
<1> USE DEF TypeInv, TypeOK
<1>0. stations'[m] # stations[m] /\ Tracked(m) /\ stations[m].connected
  BY DEF Connected, Tracked
<1>1. ASSUME NEW h \in Hap, HapNext(h)
      PROVE  HandleDisconnect(h) /\ Head(evq[h]) = Disconnect(m)
  <2>1. HandleConnect(h) \/ HandleDisconnect(h)
    BY <1>0, <1>1 DEF HapNext, Attach, HapCancel, HapHome, HapAttrs, HapEnqueue,
         HandleTerminating, HandleDetached, ReadTimeout
  <2>2. PICK n \in MAC : n = Head(evq[h]).mac
    BY <2>1, ReceivesType DEF HandleConnect, HandleDisconnect
  <2>3. n = m
    BY <1>0, <2>1, <2>2 DEF HandleConnect, HandleDisconnect, StationsOK
  <2>4. ASSUME HandleConnect(h) PROVE FALSE
    <3>1. stations' = [stations EXCEPT ![m].connected = TRUE, ![m].bssid = h]
      BY <1>0, <2>2, <2>3, <2>4 DEF HandleConnect
    <3>2. stations'[m].connected
      BY <1>0, <3>1 DEF StationsOK, Station, Tracked
    <3> QED BY <3>2 DEF Connected
  <2>5. Head(evq[h]) \in Event /\ Head(evq[h]).kind = "disconnect" /\ Head(evq[h]).mac = m
    BY <2>1, <2>2, <2>3, <2>4, ReceivesType DEF HandleDisconnect, Receives
  <2>6. Head(evq[h]) = Disconnect(m)
    BY <2>5 DEF Event, Disconnect
  <2> QED BY <2>1, <2>4, <2>6
<1>2. CASE DiffDevice
  <2>1. conf.cfg[conf.i] \in Device
    BY <1>2, ConfigAssumption DEF DiffDevice, ConfOK, ConfState
  <2>2. PICK n \in MAC \union {None} : n = conf.cfg[conf.i].mac
    BY <2>1 DEF Device
  <2>3. n = m
    BY <1>0, <1>2, <2>2 DEF DiffDevice, StationsOK
  <2>4. stations'[m] = [stations[m] EXCEPT !.name = conf.cfg[conf.i].name]
    BY <1>0, <1>2, <2>2, <2>3 DEF DiffDevice, StationsOK
  <2>5. stations'[m].connected
    BY <1>0, <2>4 DEF StationsOK, Station, Tracked
  <2> QED BY <2>5 DEF Connected
<1>3. CASE DiffRemoved
  BY <1>0, <1>3, RemovedFields
<1>4. CASE Mark
  BY <1>0, <1>4, MarkFields
<1>5. ASSUME ConfNext PROVE DiffDevice \/ DiffRemoved \/ Mark
  BY <1>0, <1>5 DEF ConfNext, ListRadio, ListDone, ApplyNoChange, ApplyUpdated, ApplyAdded,
       ApplyRemoved, Applied, Register, ConfNotHome, ConfHome, ConfAttrs, Unregister, ReportConf
<1>6. ASSUME NEW t \in Timer, CbNext(t) PROVE FALSE
  BY <1>0, <1>6 DEF CbNext, Fire, Begin, Skip, CbNotHome, CbRead, CbAttrs, CbReport
<1>7. ASSUME EnvNext \/ RunNext \/ UNCHANGED vars PROVE FALSE
  BY <1>0, <1>7 DEF EnvNext, RunNext, vars, Associate, Disassociate, HostapdTerminates,
       Receive, Stop, Watch, SubscribeReturns, SendDetach
<1> QED
  BY <1>1, <1>2, <1>3, <1>4, <1>5, <1>6, <1>7 DEF Next

\* A station that comes to the radio, or is told of, waits in the socket or is
\* in the listing.
LEMMA TellsOfNew ==
  ASSUME OneRadio, FullListings, TypeInv, [Next]_vars, NEW h \in Hap, NEW m \in MAC,
         m \in assoc'[h], m \notin unseen'[h], m \notin assoc[h] \/ m \in unseen[h],
         conf'.pc # "report"
  PROVE  Waits(h, m)' \/ Awaited(h, m)'
<1> USE DEF TypeInv, TypeOK
<1>0. ~UNCHANGED <<assoc, unseen>>
  OBVIOUS
<1>1. ASSUME NEW n \in MAC, Associate(h, n) \/ Disassociate(h, n) PROVE Waits(h, m)'
  <2>1. PICK kind \in {"connect", "disconnect"} :
          /\ Announce(h, n, kind)
          /\ kind = "disconnect" => n \notin assoc'[h]
          /\ \A k \in MAC : k # n => (k \in assoc'[h] <=> k \in assoc[h])
    BY <1>1 DEF Associate, Disassociate, EnvOK
  <2>2. Announced(h, n, [kind |-> kind, mac |-> n])
    BY <2>1, AnnounceFields
  <2>3. n = m
    BY <2>1, <2>2 DEF Announced
  <2>4. kind = "connect"
    BY <2>1, <2>3
  <2>5. Len(evq'[h]) > Len(evq[h]) /\ evq'[h][Len(evq'[h])] = Connect(m)
    BY <2>2, <2>3, <2>4 DEF Announced, Connect
  <2>6. Len(evq[h]) \in Nat /\ Len(evq'[h]) \in Nat
    <3>1. TypeInv'
      BY NextType
    <3> QED BY <3>1 DEF EnvOK
  <2>7. Len(evq'[h]) \in 1..Len(evq'[h])
    BY <2>5, <2>6
  <2> QED BY <2>5, <2>7 DEF Waits
<1>2. CASE ListRadio /\ UNCHANGED assoc
  <2>1. HapOrder[conf.i] = h
    <3>1. conf.i \in Nat \ {0} /\ conf.i <= Len(HapOrder)
      BY <1>2 DEF ListRadio, ConfOK, ConfState
    <3>2. HapOrder[conf.i] \in Hap
      BY <3>1, HapOrderAssumption
    <3> QED BY <3>2 DEF OneRadio
  <2>2. unseen' # unseen
    BY <1>0, <1>2
  <2>3. Listings(h) = {assoc[h]}
    BY DEF FullListings, Listings
  <2>4. /\ conf' = [conf EXCEPT !.i = @ + 1,
                      !.listed = [n \in MAC |-> IF n \in assoc[h] THEN h ELSE @[n]]]
        /\ unseen' = [unseen EXCEPT ![h] = @ \ {n \in MAC : conf.change[n] = "added"}]
    BY <1>2, <2>1, <2>2, <2>3 DEF ListRadio
  <2>5. conf.change[m] = "added" /\ m \in assoc[h]
    BY <1>2, <2>4 DEF EnvOK
  <2>6. conf'.pc = "list" /\ conf'.change = conf.change /\ conf'.listed[m] = h
    BY <1>2, <2>4, <2>5 DEF ListRadio, ConfOK, ConfState
  <2> QED BY <2>5, <2>6 DEF Awaited
<1>3. ASSUME NEW g \in Hap, HostapdTerminates(g) \/ SendDetach(g) PROVE UNCHANGED <<assoc, unseen>>
  BY <1>3 DEF HostapdTerminates, SendDetach
<1> QED
  BY <1>0, <1>1, <1>2, <1>3, SocketSteps DEF OneRadio

LEMMA InitPresent == Init => PresentInv
  BY DEF Init, PresentInv, Tracked, Nowhere

LEMMA NextPresent ==
  ASSUME OneRadio, FullListings, BaseInv, NewInv, ReturnsOK, UpdateInv, PresentInv, [Next]_vars
  PROVE  PresentInv'
<1> USE DEF BaseInv, TypeInv, TypeOK
<1> SUFFICES ASSUME ~Trouble', NEW h \in Hap, NEW m \in MAC, Tracked(m)',
                    m \in assoc'[h], m \notin unseen'[h],
                    ~Connected(m)', ~Waits(h, m)', ~Awaited(h, m)'
             PROVE  FALSE
  BY DEF PresentInv, Tracked, Connected, Waits, Awaited
<1>1. ~Trouble
  BY TroubleStays
<1>2. conf'.pc # "report"
  BY DEF Trouble, ConfTrouble
<1>3. m \in assoc[h] /\ m \notin unseen[h]
  BY <1>2, TellsOfNew
<1>4. Tracked(m)
  <2>1. ASSUME ~Tracked(m) PROVE conf'.pc = "diff" /\ conf'.change[m] = "added"
    BY <2>1, NewIsAdding
  <2>2. ASSUME ~Tracked(m) PROVE ~Asked(h)'
    BY <2>1, <2>2 DEF Asked
  <2> QED BY <2>1, <2>2 DEF Awaited
<1>5. ~Connected(m)
  <2>1. ASSUME Mark, conf.mac = m, Connected(m) PROVE FALSE
    BY <2>1 DEF NewInv, Adding, Mark, StepInv
  <2>2. ASSUME NEW g \in Hap, HandleDisconnect(g), Head(evq[g]) = Disconnect(m) PROVE FALSE
    <3>1. g = h
      BY DEF OneRadio
    <3> QED BY <1>3, <2>2, <3>1, ConnectFollows
  <2> QED BY <2>1, <2>2, AwayUntil
<1>6. ~Waits(h, m)
  <2>1. ASSUME HandleConnect(h), Head(evq[h]) = Connect(m) PROVE FALSE
    <3>1. Head(evq[h]).mac = m
      BY <2>1 DEF Connect
    <3>2. stations' = [stations EXCEPT ![m].connected = TRUE, ![m].bssid = h]
      BY <1>4, <2>1, <3>1 DEF HandleConnect
    <3>3. stations'[m].connected
      BY <1>4, <3>2 DEF StationsOK, Station, Tracked
    <3> QED BY <3>3 DEF Connected
  <2> QED BY <2>1, WaitsUntil
<1>7. ~Awaited(h, m)
  BY <1>2, <1>3, AwaitedUntil
<1> QED
  BY <1>1, <1>3, <1>4, <1>5, <1>6, <1>7 DEF PresentInv

\* In a settled system the daemon knows of the stations that are there.
LEMMA SettledIsPresent ==
  ASSUME BaseInv, PresentInv, Settled, NEW m \in MAC,
         ~InFlight(m), Tracked(m), ~Gone(m), ~Unseen(m)
  PROVE  Connected(m)
<1> USE DEF BaseInv, TypeInv, TypeOK
<1>1. PICK h \in Hap : m \in assoc[h] /\ m \notin unseen[h]
  BY DEF Gone, Unseen
<1>2. ~Waits(h, m)
  BY DEF Waits, Connect, InFlight
<1>3. ~Awaited(h, m)
  BY DEF Awaited, StepInv, Settled
<1> QED
  BY <1>1, <1>2, <1>3, SettledIsPublished DEF PresentInv

\* With one radio that always lists its stations whole, every arrival that
\* hostapd announces, and every station that a new device finds there, is
\* published, for any number of stations and timers: a tracked station that is
\* at the radio is held for connected, or its connect waits in the socket, or
\* onConfigChange will find it listed; and a station that is held for connected
\* has home in its topic, or somebody is about to publish it, or a late callback
\* has overwritten it (daemon.go:259-342, 377-409).  With two radios it does not
\* hold: the disconnect of the one that was left takes the station away.
THEOREM ArrivalsArePublished ==
  ASSUME Distinct, OneRadio, FullListings
  PROVE  SafeSpec => []ArrivalIsPublished
<1> DEFINE Inv == /\ BaseInv /\ NewInv /\ HomeInv
                  /\ ReturnsOK /\ UpdateInv /\ PresentInv
<1>1. Init => Inv
  BY InitBase, InitNew, InitHome, InitReturns, InitUpdate, InitPresent
<1>2. Inv /\ [Next]_vars => Inv'
  <2> SUFFICES ASSUME Inv, [Next]_vars PROVE Inv'
    OBVIOUS
  <2>1. TypeInv /\ CbInv /\ StepInv /\ SilenceOK /\ NewsOK
    BY DEF BaseInv, BeliefInv
  <2>2. BaseInv' /\ StepInv'
    BY NextBase DEF BaseInv
  <2>3. NewInv' /\ HomeInv' /\ ReturnsOK' /\ UpdateInv' /\ PresentInv'
    BY <2>1, <2>2, NextNew, NextHome, NextReturns, NextUpdate, NextPresent
  <2> QED BY <2>2, <2>3
<1>3. Inv => ArrivalIsPublished
  BY SettledIsPublished, SettledIsPresent DEF HomeInv, ArrivalIsPublished
<1> QED
  BY <1>1, <1>2, <1>3, PTL DEF SafeSpec

\* With one radio that always lists its stations whole, the attributes of a
\* station that is there say so, unless a callback that read the station earlier
\* publishes them last (daemon.go:332-348, 416-431, 479-491).
THEOREM ArrivalsInAttributes ==
  ASSUME Distinct, OneRadio, FullListings
  PROVE  SafeAttributesSpec => []ArrivalInAttributes
<1> DEFINE Inv == /\ BaseInv /\ NewInv /\ AttributesOK /\ HereInv
                  /\ ReturnsOK /\ UpdateInv /\ PresentInv
<1>1. AttributesInit => Inv
  BY InitBase, InitNew, InitAttributes, InitHere, InitReturns, InitUpdate, InitPresent
     DEF AttributesInit
<1>2. Inv /\ [AttributesNext]_<<vars, about>> => Inv'
  <2> SUFFICES ASSUME Inv, [AttributesNext]_<<vars, about>> PROVE Inv'
    OBVIOUS
  <2>1. TypeInv /\ CbInv /\ StepInv /\ SilenceOK /\ NewsOK
    BY DEF BaseInv, BeliefInv
  <2>2. [Next]_vars
    BY AttributesAreDaemon
  <2>3. BaseInv' /\ StepInv'
    BY <2>2, NextBase DEF BaseInv
  <2>4. NewInv' /\ ReturnsOK' /\ UpdateInv' /\ PresentInv'
    BY <2>1, <2>2, <2>3, NextNew, NextReturns, NextUpdate, NextPresent
  <2>5. AttributesOK' /\ HereInv'
    BY <2>1, NextAttributesOK, NextHere
  <2> QED BY <2>3, <2>4, <2>5
<1>3. Inv => ArrivalInAttributes
  BY SettledIsPublished, SettledIsPresent DEF HereInv, ArrivalInAttributes
<1> QED
  BY <1>1, <1>2, <1>3, PTL DEF SafeAttributesSpec
==============================================================================
