--------------------------- MODULE DebouncerProofs ---------------------------
(***************************************************************************)
(* The debouncer's queue is consistent with its timers, and every step of  *)
(* it is a step of PendingCallback or invisible to it, for any number of   *)
(* addresses and timers.                                                   *)
(***************************************************************************)
EXTENDS Debouncer, TLAPS

\* The queue and the timers, together: neither half is inductive alone.
IInv == TypeOK /\ EntryIsLive

\* Every initial state is well typed, with an empty queue.
LEMMA InitIInv == Init => IInv
  BY NoneAssumption DEF Init, IInv, TypeOK, EntryIsLive, Phase, Queued

\* Every step of the debouncer keeps the queue consistent with the timers.
LEMMA NextIInv == IInv /\ [Next]_vars => IInv'
<1> SUFFICES ASSUME IInv, [Next]_vars PROVE IInv'
  OBVIOUS
<1> USE NoneAssumption DEF IInv, TypeOK, EntryIsLive, Phase, Queued
<1>1. ASSUME NEW m \in MAC, Enqueue(m) PROVE IInv'
  <2> PICK t \in Timer : /\ phase[t] = "free"
                         /\ queue' = [queue EXCEPT ![m] = t]
                         /\ phase' = [phase EXCEPT ![t] = "armed"]
                         /\ owner' = [owner EXCEPT ![t] = m]
    BY <1>1 DEF Enqueue
  <2>1. TypeOK'
    OBVIOUS
  <2>2. EntryIsLive'
    OBVIOUS
  <2> QED BY <2>1, <2>2
<1>2. ASSUME NEW m \in MAC, Cancel(m) PROVE IInv'
  <2>1. TypeOK'
    BY <1>2 DEF Cancel
  <2>2. EntryIsLive'
    BY <1>2 DEF Cancel
  <2> QED BY <2>1, <2>2
<1>3. ASSUME NEW t \in Timer, Fire(t) PROVE IInv'
  BY <1>3 DEF Fire
<1>4. ASSUME NEW t \in Timer, Begin(t) PROVE IInv'
  <2>1. owner[t] \in MAC
    BY <1>4 DEF Begin
  <2>2. TypeOK'
    BY <1>4, <2>1 DEF Begin
  <2>3. EntryIsLive'
    BY <1>4, <2>1 DEF Begin
  <2> QED BY <2>2, <2>3
<1>5. ASSUME NEW t \in Timer, Skip(t) PROVE IInv'
  BY <1>5 DEF Skip
<1>6. ASSUME NEW t \in Timer, Finish(t) PROVE IInv'
  BY <1>6 DEF Finish
<1>7. CASE UNCHANGED vars
  BY <1>7 DEF vars
<1> QED
  BY <1>1, <1>2, <1>3, <1>4, <1>5, <1>6, <1>7 DEF Next

\* In every behaviour of the debouncer the map and the timers hold what they
\* should, and a timer has an address exactly while it is allocated
\* (debounce.go:17-23).
THEOREM DebouncerTyped == Spec => []TypeOK
<1>1. IInv => TypeOK
  BY DEF IInv
<1> QED
  BY InitIInv, NextIInv, <1>1, PTL DEF Spec

\* In every behaviour of the debouncer an entry of the map is a timer whose body
\* has not begun, filed under the address that its body captured: cancel stops
\* no stranger's timer and enqueue is not refused for a dead one.
THEOREM QueueIsConsistent == Spec => []EntryIsLive
<1>1. IInv => EntryIsLive
  BY DEF IInv
<1> QED
  BY InitIInv, NextIInv, <1>1, PTL DEF Spec

------------------------------------------------------------------------------
\* The two sets of the refinement mapping.
Late(m) == {t \in Timer : /\ phase[t] \in {"armed", "fired"}
                          /\ owner[t] = m
                          /\ queue[m] # t}
Running(m) == {t \in Timer : phase[t] = "running" /\ owner[t] = m}

\* The debouncer starts with nothing pending, late or running.
LEMMA InitPromise == Init => Promise!Init
  BY DEF Init, Promise!Init

\* A timer that is not allocated is no callback of the promise.
LEMMA FreeIsFresh ==
    ASSUME IInv, NEW t \in Timer, phase[t] = "free"
    PROVE  Promise!Fresh(t)
  BY NoneAssumption DEF Promise!Fresh, IInv, TypeOK, EntryIsLive, Phase, Queued

\* Filing a timer that was not allocated displaces nothing and begins nothing.
LEMMA EnqueuePromise ==
    ASSUME IInv, NEW m \in MAC, Enqueue(m)
    PROVE  \E t \in Timer : Promise!Enqueue(m, t)
<1> PICK t \in Timer : /\ phase[t] = "free"
                       /\ queue' = [queue EXCEPT ![m] = t]
                       /\ phase' = [phase EXCEPT ![t] = "armed"]
                       /\ owner' = [owner EXCEPT ![t] = m]
  BY DEF Enqueue
<1>1. queue[m] = None
  BY DEF Enqueue, Queued
<1>2. owner[t] = None /\ \A n \in MAC : queue[n] # t
  BY NoneAssumption DEF IInv, TypeOK, EntryIsLive, Queued
<1>3. \A n \in MAC : Late(n)' = Late(n) /\ Running(n)' = Running(n)
  <2> TAKE n \in MAC
  <2>1. ASSUME NEW u \in Timer, u # t
        PROVE  phase'[u] = phase[u] /\ owner'[u] = owner[u]
    BY <2>1 DEF IInv, TypeOK
  <2>2. phase'[t] = "armed" /\ owner'[t] = m /\ queue'[m] = t
    BY DEF IInv, TypeOK
  <2>3. \A k \in MAC : k # m => queue'[k] = queue[k]
    BY DEF IInv, TypeOK
  <2>4. ASSUME NEW u \in Timer, u \in Late(n)' PROVE u \in Late(n)
    BY <2>1, <2>2, <2>3, <2>4, <1>1, NoneAssumption DEF Late
  <2>5. ASSUME NEW u \in Timer, u \in Late(n) PROVE u \in Late(n)'
    BY <2>1, <2>2, <2>3, <2>5, <1>1, <1>2, NoneAssumption DEF Late
  <2>6. Late(n)' = Late(n)
    BY <2>4, <2>5 DEF Late
  <2>7. Running(n)' = Running(n)
    BY <2>1, <2>2 DEF Running
  <2> QED BY <2>6, <2>7
<1>4. Promise!Fresh(t)
  BY FreeIsFresh
<1>5. [n \in MAC |-> Late(n)]' = [n \in MAC |-> Late(n)]
  BY <1>3
<1>6. [n \in MAC |-> Running(n)]' = [n \in MAC |-> Running(n)]
  BY <1>3
<1>7. Promise!Enqueue(m, t)
  BY <1>1, <1>4, <1>5, <1>6 DEF Promise!Enqueue, Late, Running
<1> QED
  BY <1>7

\* A cancel that stops the timer leaves nothing of it; any other makes it late.
LEMMA CancelPromise ==
    ASSUME IInv, NEW m \in MAC, Cancel(m)
    PROVE  Promise!Cancel(m)
<1> DEFINE t == queue[m]
<1>1. t \in Timer /\ t # None /\ phase[t] \in {"armed", "fired"} /\ owner[t] = m
  BY NoneAssumption DEF Cancel, IInv, TypeOK, EntryIsLive, Queued
<1>2. queue' = [queue EXCEPT ![m] = None]
  BY DEF Cancel
<1>3. CASE phase[t] = "armed"
  <2>1. /\ phase' = [phase EXCEPT ![t] = "free"]
        /\ owner' = [owner EXCEPT ![t] = None]
    BY <1>3 DEF Cancel
  <2>2. \A n \in MAC : Late(n)' = Late(n) /\ Running(n)' = Running(n)
    BY <1>1, <1>2, <1>3, <2>1, NoneAssumption
       DEF Late, Running, IInv, TypeOK, EntryIsLive, Queued
  <2> QED
    BY <1>1, <1>2, <2>2 DEF Promise!Cancel, Late, Running
<1>4. CASE phase[t] # "armed"
  <2>1. UNCHANGED <<phase, owner>>
    BY <1>4 DEF Cancel
  <2>2. Late(m)' = Late(m) \union {t}
    BY <1>1, <1>2, <2>1, NoneAssumption DEF Late, IInv, TypeOK
  <2>3. \A n \in MAC : n # m => Late(n)' = Late(n)
    BY <1>2, <2>1 DEF Late, IInv, TypeOK
  <2>4. \A n \in MAC : Running(n)' = Running(n)
    BY <2>1 DEF Running
  <2> HIDE DEF t
  <2>5. [n \in MAC |-> Late(n)]' = [[n \in MAC |-> Late(n)] EXCEPT ![m] = @ \union {t}]
    BY <2>2, <2>3
  <2> QED
    BY <1>1, <1>2, <2>4, <2>5 DEF Promise!Cancel, Late, Running, t
<1> QED
  BY <1>3, <1>4

\* A body that finds an entry begins, if the entry is its own, or takes the
\* place of the timer it finds.
LEMMA BeginPromise ==
    ASSUME IInv, NEW t \in Timer, Begin(t)
    PROVE  \E m \in MAC : Promise!Begin(m, t) \/ Promise!TakeOver(m, t)
<1>1. PICK m \in MAC : owner[t] = m /\ queue[m] # None /\ phase[t] = "fired"
  BY DEF Begin, IInv, TypeOK, Queued
<1>2. queue' = [queue EXCEPT ![m] = None]
  BY <1>1 DEF Begin
<1>3. phase' = [phase EXCEPT ![t] = "running"] /\ owner' = owner
  BY DEF Begin
<1>4. \A n \in MAC : Running(n)' = IF n = m THEN Running(n) \union {t} ELSE Running(n)
  BY <1>1, <1>3 DEF Running, IInv, TypeOK
<1>5. [n \in MAC |-> Running(n)]' = [[n \in MAC |-> Running(n)] EXCEPT ![m] = @ \union {t}]
  BY ZenonT(40), <1>4
<1>6. \A n \in MAC : n # m => Late(n)' = Late(n)
  BY <1>1, <1>2, <1>3 DEF Late, IInv, TypeOK
<1>7. CASE queue[m] = t
  <2>1. Late(m)' = Late(m)
    BY <1>1, <1>2, <1>3, <1>7, NoneAssumption DEF Late, IInv, TypeOK
  <2>2. [n \in MAC |-> Late(n)]' = [n \in MAC |-> Late(n)]
    BY <1>6, <2>1
  <2>3. t # None
    BY NoneAssumption
  <2>4. Promise!Begin(m, t)
    BY <1>2, <1>5, <1>7, <2>2, <2>3 DEF Promise!Begin, Late, Running
  <2> QED BY <2>4
<1>8. CASE queue[m] # t
  <2> DEFINE d == queue[m]
  <2>1. d \in Timer /\ phase[d] \in {"armed", "fired"} /\ owner[d] = m /\ d # t
    BY <1>1, <1>8 DEF IInv, TypeOK, EntryIsLive, Queued
  <2>2. t \in Late(m)
    BY <1>1, <1>8 DEF Late
  <2>3. Late(m)' = (Late(m) \ {t}) \union {d}
    BY <1>1, <1>2, <1>3, <2>1, NoneAssumption DEF Late, IInv, TypeOK
  <2> HIDE DEF d
  <2>4. [n \in MAC |-> Late(n)]'
          = [[n \in MAC |-> Late(n)] EXCEPT ![m] = (@ \ {t}) \union {d}]
    BY ZenonT(40), <1>6, <2>3
  <2>5. Promise!TakeOver(m, t)
    BY <1>1, <1>2, <1>5, <2>2, <2>4 DEF Promise!TakeOver, Late, Running, d
  <2> QED BY <2>5
<1> QED
  BY <1>7, <1>8

\* A body that finds no entry was late, and is gone.
LEMMA SkipPromise ==
    ASSUME IInv, NEW t \in Timer, Skip(t)
    PROVE  \E m \in MAC : Promise!Drop(m, t)
<1>1. PICK m \in MAC : owner[t] = m /\ queue[m] = None /\ phase[t] = "fired"
  BY DEF Skip, IInv, TypeOK, Queued
<1>2. /\ phase' = [phase EXCEPT ![t] = "free"]
      /\ owner' = [owner EXCEPT ![t] = None]
      /\ queue' = queue
  BY DEF Skip
<1>3. t \in Late(m)
  BY <1>1, NoneAssumption DEF Late
<1>4. \A n \in MAC : Late(n)' = IF n = m THEN Late(n) \ {t} ELSE Late(n)
  BY <1>1, <1>2, NoneAssumption DEF Late, IInv, TypeOK
<1>5. [n \in MAC |-> Late(n)]' = [[n \in MAC |-> Late(n)] EXCEPT ![m] = @ \ {t}]
  BY ZenonT(40), <1>4
<1>6. \A n \in MAC : Running(n)' = Running(n)
  BY <1>1, <1>2, NoneAssumption DEF Running, IInv, TypeOK
<1> QED
  BY <1>1, <1>2, <1>3, <1>5, <1>6 DEF Promise!Drop, Late, Running

\* A callback that returns was running, and is gone.
LEMMA FinishPromise ==
    ASSUME IInv, NEW t \in Timer, Finish(t)
    PROVE  \E m \in MAC : Promise!Finish(m, t)
<1>1. PICK m \in MAC : owner[t] = m /\ phase[t] = "running"
  BY DEF Finish, IInv, TypeOK
<1>2. /\ phase' = [phase EXCEPT ![t] = "free"]
      /\ owner' = [owner EXCEPT ![t] = None]
      /\ queue' = queue
  BY DEF Finish
<1>3. \A n \in MAC : Running(n)' = IF n = m THEN Running(n) \ {t} ELSE Running(n)
  BY <1>1, <1>2, NoneAssumption DEF Running, IInv, TypeOK
<1>4. [n \in MAC |-> Running(n)]' = [[n \in MAC |-> Running(n)] EXCEPT ![m] = @ \ {t}]
  BY ZenonT(40), <1>3
<1>5. \A n \in MAC : Late(n)' = Late(n)
  BY <1>1, <1>2, NoneAssumption DEF Late, IInv, TypeOK
<1>6. t \in Running(m)
  BY <1>1 DEF Running
<1>7. [n \in MAC |-> Late(n)]' = [n \in MAC |-> Late(n)]
  BY <1>5
<1>8. Promise!Finish(m, t)
  BY <1>2, <1>4, <1>6, <1>7 DEF Promise!Finish, Late, Running
<1> QED
  BY <1>8

\* Every step of a consistent debouncer is one step of the promise, or changes
\* nothing the promise speaks of: a timer that fires.
LEMMA NextPromise == IInv /\ [Next]_vars => [Promise!Next]_(Promise!vars)
<1> SUFFICES ASSUME IInv, [Next]_vars PROVE [Promise!Next]_(Promise!vars)
  OBVIOUS
<1>1. ASSUME NEW m \in MAC, Enqueue(m) PROVE Promise!Next
  <2>1. \E t \in Timer : Promise!Enqueue(m, t)
    BY <1>1, EnqueuePromise
  <2> QED BY <2>1 DEF Promise!Next
<1>2. ASSUME NEW m \in MAC, Cancel(m) PROVE Promise!Next
  <2>1. Promise!Cancel(m)
    BY <1>2, CancelPromise
  <2> QED BY <2>1 DEF Promise!Next
<1>3. ASSUME NEW t \in Timer, Fire(t) PROVE UNCHANGED Promise!vars
  <2>1. \A n \in MAC : Late(n)' = Late(n) /\ Running(n)' = Running(n)
    BY <1>3 DEF Fire, Late, Running, IInv, TypeOK, Phase
  <2> QED
    BY <1>3, <2>1 DEF Fire, Promise!vars, Late, Running
<1>4. ASSUME NEW t \in Timer, Begin(t) PROVE Promise!Next
  <2>1. \E m \in MAC : Promise!Begin(m, t) \/ Promise!TakeOver(m, t)
    BY <1>4, BeginPromise
  <2> QED BY <2>1 DEF Promise!Next
<1>5. ASSUME NEW t \in Timer, Skip(t) PROVE Promise!Next
  <2>1. \E m \in MAC : Promise!Drop(m, t)
    BY <1>5, SkipPromise
  <2> QED BY <2>1 DEF Promise!Next
<1>6. ASSUME NEW t \in Timer, Finish(t) PROVE Promise!Next
  <2>1. \E m \in MAC : Promise!Finish(m, t)
    BY <1>6, FinishPromise
  <2> QED BY <2>1 DEF Promise!Next
<1>7. CASE UNCHANGED vars
  BY <1>7 DEF vars, Promise!vars
<1> QED
  BY <1>1, <1>2, <1>3, <1>4, <1>5, <1>6, <1>7 DEF Next

\* Whatever the addresses and the timers, at most one callback is pending per
\* address, it begins only while it is pending or in the place of another that
\* is, a callback that a cancel stopped never begins, and none begins twice:
\* the safety part of PendingCallback.
THEOREM KeepsPromiseSafely == Spec => Promise!Init /\ [][Promise!Next]_(Promise!vars)
<1>1. Init /\ [][Next]_vars => []IInv
  BY InitIInv, NextIInv, PTL
<1> QED
  BY <1>1, InitPromise, NextPromise, PTL DEF Spec
==============================================================================
