------------------------------ MODULE Attributes ------------------------------
(***************************************************************************)
(* The retained attributes topics beside the state topics of Daemon.  A    *)
(* state and its attributes are two publishes of one goroutine, outside    *)
(* Daemon.mu in the event handler and in the callback, so those of two     *)
(* goroutines may interleave.  Of the attributes only is_connected is kept. *)
(***************************************************************************)
EXTENDS Daemon

VARIABLES
  attrs,     \* [MAC -> BOOLEAN or None]: is_connected of the retained message
  unsaid,    \* SUBSET MAC, history: added as away over attributes that say
             \* connected, and not seen to connect since
  overtaken  \* SUBSET MAC, history: connected since a callback published that
             \* the station is not

about == <<attrs, unsaid, overtaken>>

\* The broker retains the message; if the publish fails it may have it or not.
StationAttributes(m, connected, failed) ==
    /\ attrs' \in {[attrs EXCEPT ![m] = connected]} \union (IF failed THEN {attrs} ELSE {})
    /\ unsaid' = unsaid \ {m}
    /\ overtaken' = IF ~connected /\ Connected(m) THEN overtaken \union {m} ELSE overtaken \ {m}

HapReports(h) ==
    /\ HapAttrs(h)
    /\ StationAttributes(hap[h].mac, TRUE, hap'[h].pc = "stopped")

ConfReports ==
    /\ ConfAttrs
    /\ StationAttributes(conf.mac, TRUE, conf'.pc = "report")

\* A device that is added while it is away gets a state and no attributes.
ConfSaysNothing ==
    /\ ConfNotHome
    /\ unsaid' = IF attrs[conf.mac] = TRUE THEN unsaid \union {conf.mac} ELSE unsaid
    /\ UNCHANGED <<attrs, overtaken>>

CbReports(t) ==
    /\ CbAttrs(t)
    /\ StationAttributes(owner[t], FALSE, cb'[t] = "errs")

\* Any other step: no goroutine leaves a step above.
NoReport ==
    /\ \A h \in Hap : hap[h].pc = "attrs" => hap'[h] = hap[h]
    /\ conf.pc \in {"attrs", "nothome"} => conf' = conf
    /\ \A t \in Timer : At(t, "attrs") => cb'[t] = cb[t]
    /\ UNCHANGED attrs
    /\ unsaid' = {m \in unsaid : Tracked(m)' /\ ~Connected(m)'}
    /\ overtaken' = {m \in overtaken : Connected(m)'}

AttributesInit ==
    /\ Init
    /\ attrs \in [MAC -> {None} \union IF Restart THEN BOOLEAN ELSE {}]
    /\ unsaid = {}
    /\ overtaken = {}

AttributesNext ==
    \/ \E h \in Hap : HapReports(h)
    \/ ConfReports
    \/ ConfSaysNothing
    \/ \E t \in Timer : CbReports(t)
    \/ Next /\ NoReport

SafeAttributesSpec == AttributesInit /\ [][AttributesNext]_<<vars, about>>
AttributesSpec     == SafeAttributesSpec /\ Fairness

------------------------------------------------------------------------------
\* When nothing about a tracked station is under way and it is at no radio, its
\* attributes do not say that it is connected, unless it was added while it was
\* away, which leaves those of an earlier time as they are: although the goroutines
\* publish outside the lock, the last departure has the last word
\* (daemon.go:411-433, 464-494).
DepartureInAttributes ==
    \A m \in MAC :
        Settled /\ ~InFlight(m) /\ Tracked(m) /\ Gone(m) /\ ~Unseen(m)
            => attrs[m] # TRUE \/ m \in unsaid

\* When nothing about a tracked station is under way and it is at a radio, its
\* attributes say that it is connected, unless a callback published its own after
\* the station had come back (daemon.go:431, 491).
ArrivalInAttributes ==
    \A m \in MAC :
        Settled /\ ~InFlight(m) /\ Tracked(m) /\ ~Gone(m) /\ ~Unseen(m)
            => attrs[m] = TRUE \/ m \in overtaken
==============================================================================
