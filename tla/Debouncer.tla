------------------------------ MODULE Debouncer ------------------------------
(***************************************************************************)
(* The debouncer of internal/presence/debounce.go: a map from MAC to a     *)
(* *time.Timer, guarded by a mutex, whose timers run a callback after the  *)
(* debounce duration.                                                      *)
(*                                                                         *)
(* The body of a timer starts by taking the mutex.  Between the moment the *)
(* runtime starts the body and the moment the body owns the mutex, any     *)
(* number of cancel and enqueue calls may run: phase "fired" is that       *)
(* window.  Every critical section is one action.                          *)
(***************************************************************************)
EXTENDS Naturals, FiniteSets

CONSTANTS MAC,      \* addresses
          Timer,    \* identities of the time.AfterFunc timers alive at a time
          None      \* no timer, no address

ASSUME NoneAssumption == None \notin MAC \union Timer

VARIABLES queue,    \* [MAC -> Timer or None]: debouncer.queue
          phase,    \* [Timer -> Phase]: how far the timer's body is
          owner     \* [Timer -> MAC or None]: the mac its body captured

vars == <<queue, phase, owner>>

Phase == {"free",       \* not allocated
          "armed",      \* the runtime will start the body later
          "fired",      \* the body has started and waits for the mutex
          "running"}    \* the body has released the mutex and runs cb

TypeOK ==
    /\ queue \in [MAC -> Timer \union {None}]
    /\ phase \in [Timer -> Phase]
    /\ owner \in [Timer -> MAC \union {None}]
    /\ \A t \in Timer : phase[t] = "free" <=> owner[t] = None

Init ==
    /\ queue = [m \in MAC |-> None]
    /\ phase = [t \in Timer |-> "free"]
    /\ owner = [t \in Timer |-> None]

------------------------------------------------------------------------------
Queued(m) == queue[m] # None

\* Faulty Enqueue: the body captures no address.
EnqueueCapturesNothing(m) ==
    /\ ~Queued(m)
    /\ \E t \in Timer :
        /\ phase[t] = "free"
        /\ queue' = [queue EXCEPT ![m] = t]
        /\ phase' = [phase EXCEPT ![t] = "armed"]
        /\ UNCHANGED owner

\* enqueue is refused while the map has an entry for m; else it arms a timer.
Enqueue(m) ==
    /\ ~Queued(m)
    /\ \E t \in Timer :
        /\ phase[t] = "free"
        /\ queue' = [queue EXCEPT ![m] = t]
        /\ phase' = [phase EXCEPT ![t] = "armed"]
        /\ owner' = [owner EXCEPT ![t] = m]

\* Faulty Cancel: it stops the timer and forgets to delete the entry.
CancelKeepsEntry(m) ==
    /\ Queued(m)
    /\ phase[queue[m]] = "armed"
    /\ phase' = [phase EXCEPT ![queue[m]] = "free"]
    /\ owner' = [owner EXCEPT ![queue[m]] = None]
    /\ UNCHANGED queue

\* cancel drops the entry; Stop reaches a timer only before its body starts.
Cancel(m) ==
    /\ Queued(m)
    /\ queue' = [queue EXCEPT ![m] = None]
    /\ IF phase[queue[m]] = "armed"
         THEN /\ phase' = [phase EXCEPT ![queue[m]] = "free"]
              /\ owner' = [owner EXCEPT ![queue[m]] = None]
         ELSE UNCHANGED <<phase, owner>>

\* The debounce duration is over: the runtime starts the body of t.
Fire(t) ==
    /\ phase[t] = "armed"
    /\ phase' = [phase EXCEPT ![t] = "fired"]
    /\ UNCHANGED <<queue, owner>>

\* Faulty Begin: the body runs cb without looking for an entry.
BeginUnchecked(t) ==
    /\ phase[t] = "fired"
    /\ queue' = [queue EXCEPT ![owner[t]] = None]
    /\ phase' = [phase EXCEPT ![t] = "running"]
    /\ UNCHANGED owner

\* The body owns the mutex and finds an entry for its MAC, whichever timer
\* that entry is: it removes the entry and goes on to run cb.
Begin(t) ==
    /\ phase[t] = "fired"
    /\ Queued(owner[t])
    /\ queue' = [queue EXCEPT ![owner[t]] = None]
    /\ phase' = [phase EXCEPT ![t] = "running"]
    /\ UNCHANGED owner

\* The body owns the mutex and finds no entry: it returns.
Skip(t) ==
    /\ phase[t] = "fired"
    /\ ~Queued(owner[t])
    /\ phase' = [phase EXCEPT ![t] = "free"]
    /\ owner' = [owner EXCEPT ![t] = None]
    /\ UNCHANGED queue

\* cb returns.
Finish(t) ==
    /\ phase[t] = "running"
    /\ phase' = [phase EXCEPT ![t] = "free"]
    /\ owner' = [owner EXCEPT ![t] = None]
    /\ UNCHANGED queue

Next ==
    \/ \E m \in MAC : Enqueue(m) \/ Cancel(m)
    \/ \E t \in Timer : Fire(t) \/ Begin(t) \/ Skip(t) \/ Finish(t)

\* The runtime starts the body of every timer that is not stopped in time.
\* Go's mutexes hand the lock to a goroutine that has waited for more than
\* 1ms (starvation mode), so a body that waits for the mutex gets it.
Fairness == \A t \in Timer : WF_vars(Fire(t)) /\ WF_vars(Begin(t) \/ Skip(t))

Spec == Init /\ [][Next]_vars /\ Fairness

------------------------------------------------------------------------------
(* What the debouncer promises.                                            *)

\* The queue never points at a timer whose body has run or is running, and a
\* timer is filed under the MAC its body captured: cancel stops no stranger's
\* timer and enqueue is never refused because of a dead entry.
EntryIsLive ==
    \A m \in MAC : Queued(m) =>
        /\ phase[queue[m]] \in {"armed", "fired"}
        /\ owner[queue[m]] = m

\* The debouncer seen as its promise: an entry is a pending callback, a body
\* that has released the mutex is a running one, and a timer that was neither
\* stopped nor begun but has lost its entry is a late one.
Promise == INSTANCE PendingCallback WITH
    Callback <- Timer,
    pending  <- queue,
    late     <- [m \in MAC |-> {t \in Timer : /\ phase[t] \in {"armed", "fired"}
                                              /\ owner[t] = m
                                              /\ queue[m] # t}],
    running  <- [m \in MAC |-> {t \in Timer : phase[t] = "running" /\ owner[t] = m}]

\* One pending callback per MAC at a time; a callback that was stopped never
\* begins; a body runs its own callback, and only while some callback is
\* pending for its MAC (debounce.go:55-64): its own, or, when its own was
\* cancelled too late, a younger one whose place it takes.  A pending callback
\* begins in the end unless it is cancelled or its place is taken.
KeepsPromise == Promise!Spec
==============================================================================
