--------------------------- MODULE StationListing ---------------------------
(***************************************************************************)
(* What Client.Stations promises (internal/hostapd/client.go:68), although *)
(* it asks for one station after the other while stations come and go: the *)
(* list holds every station that was associated throughout the call and    *)
(* none that was not associated at any time of it.  It may fail only if    *)
(* hostapd forgot a station meanwhile or an answer was missing, and be     *)
(* short only if an answer was missing.  It is worth nothing if answers of *)
(* an earlier call were still to come when it began.                       *)
(***************************************************************************)
EXTENDS Naturals

CONSTANTS MAC, Faulty

VARIABLES
  assoc,    \* the stations that are associated
  busy,     \* a call is under way
  must,     \* associated throughout the call
  may,      \* associated at some time of it
  trouble,  \* what else there was: "forgot", "missing", "stale"
  result    \* what the last call returned: [ok |-> BOOLEAN, macs |-> SUBSET MAC]

vars == <<assoc, busy, must, may, trouble, result>>

Init ==
    /\ assoc \in SUBSET MAC
    /\ busy = FALSE
    /\ must = {} /\ may = {} /\ trouble = {}
    /\ result = [ok |-> FALSE, macs |-> {}]

Begin ==
    /\ ~busy
    /\ busy' = TRUE
    /\ must' = assoc /\ may' = assoc
    /\ trouble' \in {{}} \union IF Faulty THEN {{"missing"}, {"stale"}} ELSE {}
    /\ UNCHANGED <<assoc, result>>

Associate(m) ==
    /\ assoc' = assoc \union {m}
    /\ may' = IF busy THEN may \union {m} ELSE may
    /\ UNCHANGED <<busy, must, trouble, result>>

Disassociate(m) ==
    /\ assoc' = assoc \ {m}
    /\ must' = must \ {m}
    /\ UNCHANGED <<busy, may, trouble, result>>

Hinder ==
    /\ busy
    /\ \E what \in {"forgot"} \union IF Faulty THEN {"missing"} ELSE {} :
          trouble' = trouble \union {what}
    /\ UNCHANGED <<assoc, busy, must, may, result>>

Ends(ok, macs) ==
    /\ busy
    /\ busy' = FALSE
    /\ result' = [ok |-> ok, macs |-> macs]
    /\ must' = {} /\ may' = {} /\ trouble' = {}
    /\ UNCHANGED assoc

Return == \E S \in SUBSET MAC :
    /\ "stale" \in trouble \/ S \subseteq may
    /\ trouble \intersect {"missing", "stale"} # {} \/ must \subseteq S
    /\ Ends(TRUE, S)

Fail == trouble # {} /\ Ends(FALSE, {})

Next ==
    \/ Begin \/ Hinder \/ Return \/ Fail
    \/ \E m \in MAC : Associate(m) \/ Disassociate(m)

Spec == Init /\ [][Next]_vars
==============================================================================
