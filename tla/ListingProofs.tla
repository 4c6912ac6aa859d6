--------------------------- MODULE ListingProofs ---------------------------
(***************************************************************************)
(* Client.Stations implements StationListing: although it asks for one     *)
(* station after the other while stations come and go, the list is right,  *)
(* for any stations and any faults.                                        *)
(***************************************************************************)
EXTENDS HostapdCtrlProofs

\* A listing whose answers are its own.
Clean == Busy /\ "stale" \notin trouble

\* Those that are still to be listed.
Unlisted == must \ found

\* hostapd tells of x before it tells of m.
After(x, m) == \A i, j \in DOMAIN list : list[i] = x /\ list[j] = m => i < j

\* With x told, whatever is still to be listed comes after it.
Behind(x) ==
    /\ \A m \in Unlisted : m # x => After(x, m)
    /\ x \notin ToSet(list) => "forgot" \in trouble

\* Only faults have taken hostapd away or delayed an answer, and only the main
\* connection lists stations.
FaultInv ==
    /\ ~up => "terminate" \in Fault
    /\ slow => "late" \in Fault
    /\ op \in {"status", "idle", "first", "next"} => role = "main"

MustInv ==
    /\ Busy => must \subseteq assoc /\ assoc \subseteq may
    /\ Busy /\ ~up => "missing" \in trouble
    /\ Clean => found \subseteq may

\* Nothing but the one command of the listing and the answer to it is under way.
WireInv == Clean =>
    /\ ~sent /\ up => requests = <<>> /\ answers = <<>>
    /\ sent => Len(requests) + Len(answers) <= 1
    /\ sent /\ "missing" \notin trouble =>
          /\ Len(requests) + Len(answers) = 1
          /\ \A i \in DOMAIN requests : requests[i].own
    /\ sent => \A i \in DOMAIN requests : requests[i].cmd = op /\ requests[i].mac = at

\* What an answer says has come true when it is read.
Truthful(a) ==
    CASE a.kind = "station" -> /\ a.assoc => a.mac \in may
                               /\ a.mac \in must => a.assoc
                               /\ Behind(a.mac)
      [] a.kind = "end"     -> must \subseteq found
      [] a.kind = "fail"    -> "forgot" \in trouble
      [] a.kind = "unknown" -> "missing" \in trouble
      [] OTHER              -> FALSE

Waits(a) == \E i \in DOMAIN answers : answers[i] = a

AnswerInv ==
    /\ Clean /\ sent => \A a \in Answer : Waits(a) => Truthful(a)
    /\ Clean /\ op = "next" =>
          \A x \in MAC \union {None} : x = at => Behind(x) /\ x \notin Unlisted

ListInv == FaultInv /\ MustInv /\ WireInv /\ AnswerInv

------------------------------------------------------------------------------
(* The order of hostapd's list                                             *)

\* A station that hostapd learns comes before all others, and one that it forgets
\* leaves the others in their order.
LEMMA OrderKept ==
  ASSUME TypeInv, NEW mac \in MAC, Associate(mac) \/ Forget(mac),
         NEW x, NEW m \in ToSet(list), After(x, m)
  PROVE  After(x, m)'
<1>1. list \in Seq(MAC) /\ IsInjective(list) /\ assoc \subseteq ToSet(list)
  BY DEF TypeInv, TypeOK, ListOK
<1>2. CASE list' = list
  BY <1>2 DEF After
<1>3. CASE mac \notin ToSet(list) /\ list' = <<mac>> \o list
  <2>1. /\ DOMAIN list' = 1..(Len(list) + 1) /\ list'[1] = mac /\ Len(list) \in Nat
        /\ \A i \in 2..(Len(list) + 1) : i - 1 \in DOMAIN list /\ list'[i] = list[i - 1]
    BY <1>1, <1>3, ListGrows
  <2>2. ASSUME NEW i \in DOMAIN list', NEW j \in DOMAIN list', list'[i] = x, list'[j] = m
        PROVE  i < j
    <3>1. m # mac
      BY <1>3
    <3>2. j \in 2..(Len(list) + 1) /\ i \in 1..(Len(list) + 1)
      BY <2>1, <2>2, <3>1
    <3>3. CASE i = 1
      BY <3>2, <3>3
    <3>4. CASE i # 1
      <4>1. i \in 2..(Len(list) + 1)
        BY <3>2, <3>4
      <4>2. i - 1 < j - 1
        BY <2>1, <2>2, <3>2, <4>1 DEF After
      <4> QED BY <3>2, <4>1, <4>2
    <3> QED BY <3>3, <3>4
  <2> QED BY <2>2 DEF After
<1>4. ASSUME NEW k \in DOMAIN list, list' = RemoveAt(list, k) PROVE After(x, m)'
  <2> DEFINE old(i) == IF i < k THEN i ELSE i + 1
  <2>1. \A i \in DOMAIN list' : old(i) \in DOMAIN list /\ list'[i] = list[old(i)]
    BY <1>1, <1>4, ListShrinks
  <2>2. ASSUME NEW i \in DOMAIN list', NEW j \in DOMAIN list', list'[i] = x, list'[j] = m
        PROVE  i < j
    <3>1. old(i) < old(j)
      BY <2>1, <2>2 DEF After
    <3>2. list' \in Seq(MAC)
      BY <1>1, <1>4, ListShrinks
    <3>3. i \in Nat /\ j \in Nat /\ k \in Nat
      BY <1>1, <3>2
    <3> QED BY <3>1, <3>3
  <2> QED BY <2>2 DEF After
<1> QED BY <1>2, <1>3, <1>4 DEF Associate, Forget

LEMMA StationsKept ==
  ASSUME TypeInv, NEW mac \in MAC, Associate(mac) \/ Forget(mac)
  PROVE  \A x : x \notin ToSet(list)' => x \notin ToSet(list) \/ Forget(mac)
<1>1. CASE Associate(mac)
  BY <1>1, ListGrows DEF Associate, TypeInv, TypeOK, ListOK
<1> QED BY <1>1

\* What was said of the list stays true while the list changes as it may.
LEMMA TruthKept ==
  ASSUME Clean, MustInv, TypeInv,
         must' \subseteq must, may \subseteq may', trouble \subseteq trouble', found' = found,
         \A x : \A m \in ToSet(list) : After(x, m) => After(x, m)',
         \A x : x \notin ToSet(list)' => x \notin ToSet(list) \/ "forgot" \in trouble'
  PROVE  /\ \A x : Behind(x) => Behind(x)'
         /\ \A a \in Answer : Truthful(a) => Truthful(a)'
<1>1. must \subseteq ToSet(list)
  BY DEF MustInv, TypeInv, TypeOK, ListOK, Clean
<1>2. ASSUME NEW x, Behind(x) PROVE Behind(x)'
  <2>1. ASSUME NEW m \in Unlisted', m # x PROVE After(x, m)'
    <3>1. m \in Unlisted /\ m \in ToSet(list)
      BY <1>1, <2>1 DEF Unlisted
    <3>2. After(x, m)
      BY <1>2, <2>1, <3>1 DEF Behind
    <3> QED BY <3>1, <3>2
  <2>2. x \notin ToSet(list)' => "forgot" \in trouble'
    BY <1>2 DEF Behind
  <2> QED BY <2>1, <2>2 DEF Behind
<1>3. ASSUME NEW a \in Answer, Truthful(a) PROVE Truthful(a)'
  <2>1. Behind(a.mac) => Behind(a.mac)'
    BY <1>2
  <2>2. CASE a.kind = "station"
    BY <1>3, <2>1, <2>2 DEF Truthful
  <2>3. CASE a.kind # "station"
    BY <1>3, <2>3 DEF Truthful
  <2> QED BY <2>2, <2>3
<1> QED BY <1>2, <1>3

------------------------------------------------------------------------------
(* The listing knows what it lists                                         *)

LEMMA ListInit == Init => ListInv
  BY DEF Init, ListInv, FaultInv, MustInv, WireInv, AnswerInv, Clean, Busy

\* A step outside the listing leaves nothing to say but who lists.
LEMMA ListIdle ==
  ASSUME ListInv, ~Busy', up' = up, slow' = slow, role' = role,
         op' = op \/ op' = "shut" \/ (op' = "idle" /\ op \in {"first", "next", "status"})
                  \/ (op' = "status" /\ role = "main")
                  \/ op' \in {"attach", "unset", "read", "detach", "ended"}
  PROVE  ListInv'
  BY DEF ListInv, FaultInv, MustInv, WireInv, AnswerInv, Clean, Busy

\* hostapd's stations come and go.
LEMMA ListOutside ==
  ASSUME TypeInv, ListInv, NEW mac \in MAC,
         Associate(mac) \/ Disassociate(mac) \/ Forget(mac)
  PROVE  ListInv'
<1>1. /\ UNCHANGED <<role, up, wires, op, sent, at, slow, found>>
      /\ must' \subseteq must /\ may \subseteq may'
      /\ trouble \subseteq trouble'
      /\ ("stale" \in trouble' => "stale" \in trouble)
  BY DEF Associate, Disassociate, Forget, Hindered
<1>2. FaultInv'
  BY <1>1 DEF ListInv, FaultInv
<1>3. Busy' = Busy
  BY <1>1 DEF Busy
<1>4. MustInv'
  <2>1. Busy => must' \subseteq assoc' /\ assoc' \subseteq may'
    BY DEF Associate, Disassociate, Forget, ListInv, MustInv
  <2>2. Busy /\ ~up => "missing" \in trouble'
    BY <1>1 DEF ListInv, MustInv
  <2>3. Clean' => found \subseteq may'
    BY <1>1, <1>3 DEF ListInv, MustInv, Clean
  <2> QED BY <1>1, <1>3, <2>1, <2>2, <2>3 DEF MustInv
<1>5. WireInv'
  BY <1>1, <1>3 DEF ListInv, WireInv, Clean, wires
<1>6. ASSUME Clean PROVE AnswerInv'
  <2>1. CASE Disassociate(mac)
    <3>1. list' = list /\ trouble' = trouble
      BY <2>1 DEF Disassociate
    <3>2. ASSUME NEW x, NEW m, After(x, m) PROVE After(x, m)'
      BY <3>1, <3>2 DEF After
    <3>3. /\ \A x : \A m \in ToSet(list) : After(x, m) => After(x, m)'
          /\ \A x : x \notin ToSet(list)' => x \notin ToSet(list) \/ "forgot" \in trouble'
      BY <3>1, <3>2
    <3> QED BY <1>1, <1>6, <3>3, TruthKept DEF ListInv, AnswerInv, Waits, wires, Clean, Unlisted
  <2>2. CASE Associate(mac) \/ Forget(mac)
    <3>1. \A x : \A m \in ToSet(list) : After(x, m) => After(x, m)'
      BY <2>2, OrderKept
    <3>2. Forget(mac) => "forgot" \in trouble'
      BY <1>6 DEF Forget, Hindered, Clean
    <3>3. \A x : x \notin ToSet(list)' => x \notin ToSet(list) \/ "forgot" \in trouble'
      BY <2>2, <3>2, StationsKept
    <3> QED BY <1>1, <1>6, <3>1, <3>3, TruthKept DEF ListInv, AnswerInv, Waits, wires, Clean, Unlisted
  <2> QED BY <2>1, <2>2
<1>7. ASSUME ~Clean PROVE AnswerInv'
  BY <1>1, <1>3, <1>7 DEF AnswerInv, Clean
<1> QED BY <1>2, <1>4, <1>5, <1>6, <1>7 DEF ListInv

\* The wires during a listing: what awaits an answer is the one request under way,
\* or the one answer.
LEMMA OneUnderWay ==
  ASSUME TypeInv, WireInv, Clean, requests # <<>>, up
  PROVE  /\ sent /\ answers = <<>> /\ Len(requests) = 1
         /\ Head(requests).cmd = op /\ Head(requests).mac = at
<1>1. sent
  BY DEF WireInv
<1>2. /\ requests \in Seq(Request) /\ Len(requests) \in Nat /\ Len(requests) > 0
      /\ answers \in Seq(Answer) /\ Len(answers) \in Nat
  BY DEF TypeInv, TypeOK
<1>3. Len(requests) + Len(answers) <= 1
  BY <1>1 DEF WireInv
<1>4. Len(requests) = 1 /\ Len(answers) = 0
  BY <1>2, <1>3, OneOfTwo
<1>5. answers = <<>>
  BY <1>2, <1>4
<1>6. Head(requests) = requests[1] /\ 1 \in DOMAIN requests
  BY <1>2, RestOfTail
<1> QED BY <1>1, <1>4, <1>5, <1>6 DEF WireInv

\* The station that is told next is true to the list if those that are still to be
\* listed are not before it.
LEMMA TellsTrue ==
  ASSUME TypeInv, MustInv, Busy, NEW k \in Nat, k > 0,
         \A m \in Unlisted : \A j \in DOMAIN list : list[j] = m => j >= k
  PROVE  Truthful(Tells(k))
<1>1. /\ list \in Seq(MAC) /\ IsInjective(list) /\ assoc \subseteq ToSet(list)
      /\ must \subseteq assoc /\ assoc \subseteq may
      /\ Unlisted \subseteq ToSet(list)
  BY DEF TypeInv, TypeOK, ListOK, MustInv, Unlisted
<1>2. CASE k \in DOMAIN list
  <2>1. Tells(k).kind = "station" /\ Tells(k).mac = list[k] /\ Tells(k).assoc = (list[k] \in assoc)
    BY <1>2 DEF Tells
  <2>2. ASSUME NEW m \in Unlisted, m # list[k] PROVE After(list[k], m)
    <3>1. ASSUME NEW i \in DOMAIN list, NEW j \in DOMAIN list, list[i] = list[k], list[j] = m
          PROVE  i < j
      <4>1. i = k
        BY <1>1, <1>2, <3>1 DEF IsInjective
      <4>2. j >= k /\ j # k
        BY <2>2, <3>1
      <4>3. j \in Nat /\ k \in Nat
        BY <1>1
      <4> QED BY <4>1, <4>2, <4>3
    <3> QED BY <3>1 DEF After
  <2>3. Behind(list[k])
    BY <1>2, <2>2 DEF Behind, ToSet
  <2>4. Behind(Tells(k).mac)
    BY <2>1, <2>3
  <2>5. /\ Tells(k).assoc => Tells(k).mac \in may
        /\ Tells(k).mac \in must => Tells(k).assoc
    BY <1>1, <2>1
  <2> QED BY <2>1, <2>4, <2>5 DEF Truthful
<1>3. CASE k \notin DOMAIN list
  <2>1. Tells(k).kind = "end"
    BY <1>3 DEF Tells, Says
  <2>2. ASSUME NEW m \in Unlisted PROVE FALSE
    <3>1. PICK j \in DOMAIN list : list[j] = m
      BY <1>1 DEF ToSet
    <3>2. j >= k /\ j \in 1..Len(list) /\ Len(list) \in Nat /\ k \notin 1..Len(list)
      BY <1>1, <1>3, <3>1
    <3> QED BY <3>2
  <2> QED BY <2>1, <2>2 DEF Truthful, Unlisted
<1> QED BY <1>2, <1>3

\* What hostapd answers to the command of a listing is true.
LEMMA AnswerTrue ==
  ASSUME TypeInv, ListInv, Clean, NEW r \in Request, r.cmd = op, r.mac = at
  PROVE  Truthful(AnswerTo(r))
<1>1. MustInv /\ Busy /\ list \in Seq(MAC) /\ IsInjective(list)
  BY DEF ListInv, Clean, TypeInv, TypeOK, ListOK
<1>2. CASE op = "first"
  <2>1. Truthful(Tells(1))
    BY <1>1, TellsTrue
  <2>2. AnswerTo(r) = Tells(1)
    BY <1>2 DEF AnswerTo
  <2> QED BY <2>1, <2>2
<1>3. CASE op = "next"
  <2>1. at \in MAC \union {None} /\ Behind(at) /\ at \notin Unlisted
    BY <1>3 DEF ListInv, AnswerInv, TypeInv, TypeOK
  <2>2. CASE at \in ToSet(list)
    <3> DEFINE k == CHOOSE i \in DOMAIN list : list[i] = r.mac
    <3>1. k \in DOMAIN list /\ list[k] = at
      BY <2>2 DEF ToSet
    <3>2. AnswerTo(r) = Tells(1 + k)
      BY <1>3, <2>2 DEF AnswerTo
    <3> HIDE DEF k
    <3>3. k \in Nat /\ 1 + k \in Nat /\ 1 + k > 0
      BY <1>1, <3>1
    <3>4. ASSUME NEW m \in Unlisted, NEW j \in DOMAIN list, list[j] = m PROVE j >= 1 + k
      <4>1. After(at, m)
        BY <2>1 DEF Behind
      <4>2. k < j /\ j \in Nat
        BY <1>1, <3>1, <3>4, <4>1 DEF After
      <4> QED BY <3>3, <4>2
    <3>5. Truthful(Tells(1 + k))
      BY <1>1, <3>3, <3>4, TellsTrue
    <3> QED BY <3>2, <3>5
  <2>3. CASE at \notin ToSet(list)
    <3>1. AnswerTo(r).kind = "fail"
      BY <1>3, <2>3 DEF AnswerTo, Says
    <3> QED BY <2>1, <2>3, <3>1 DEF Behind, Truthful
  <2> QED BY <2>2, <2>3
<1> QED BY <1>1, <1>2, <1>3 DEF Busy

\* Whether an answer is true does not depend on whose it is.
LEMMA TruthOfAny ==
  ASSUME NEW a, NEW b, a.kind = b.kind, a.mac = b.mac, a.assoc = b.assoc
  PROVE  Truthful(a) => Truthful(b)
  BY DEF Truthful

LEMMA ListServe ==
  ASSUME TypeInv, ListInv, Serve
  PROVE  ListInv'
<1> DEFINE r == Head(requests)
<1>1. /\ UNCHANGED <<role, list, assoc, up, op, sent, at, slow, must, may, found>>
      /\ up /\ requests # <<>> /\ requests' = Tail(requests)
      /\ trouble \subseteq trouble' /\ ("stale" \in trouble' => "stale" \in trouble)
  BY DEF Serve, Hindered, hostapd, attaching, detacher
<1>2. Busy' = Busy
  BY <1>1 DEF Busy
<1>3. FaultInv' /\ MustInv'
  BY <1>1, <1>2 DEF ListInv, FaultInv, MustInv, Clean
<1>4. CASE ~Clean
  BY <1>1, <1>2, <1>3, <1>4 DEF ListInv, WireInv, AnswerInv, Clean
<1>5. CASE Clean
  <2>1. sent /\ answers = <<>> /\ Len(requests) = 1 /\ r.cmd = op /\ r.mac = at
    BY <1>1, <1>5, OneUnderWay DEF ListInv
  <2>2. r \in Request /\ Len(requests') = 0 /\ DOMAIN requests' = {}
    BY <1>1, <2>1, RestOfTail DEF TypeInv, TypeOK
  <2>3. list' = list
    BY <1>1
  <2>4. ASSUME NEW x, NEW m, After(x, m) PROVE After(x, m)'
    BY <2>3, <2>4 DEF After
  <2>5. /\ \A x : Behind(x) => Behind(x)'
        /\ \A a \in Answer : Truthful(a) => Truthful(a)'
    <3>1. \A x : \A m \in ToSet(list) : After(x, m) => After(x, m)'
      BY <2>4
    <3>2. \A x : x \notin ToSet(list)' => x \notin ToSet(list) \/ "forgot" \in trouble'
      BY <2>3
    <3>3. must' \subseteq must /\ may \subseteq may' /\ trouble \subseteq trouble' /\ found' = found
      BY <1>1
    <3> QED BY <1>5, <3>1, <3>2, <3>3, TruthKept DEF ListInv
  <2>6. Clean /\ op = "next" =>
          \A x \in MAC \union {None} : x = at => Behind(x)' /\ x \notin Unlisted'
    BY <1>1, <2>5 DEF ListInv, AnswerInv, Unlisted
  <2>7. ASSUME NEW a \in Answer, answers' = Append(answers, a), Truthful(a)'
        PROVE  WireInv' /\ AnswerInv'
    <3>1. Len(answers') = 1 /\ \A i \in DOMAIN answers' : answers'[i] = a
      BY <2>1, <2>7, EndOfAppend
    <3>2. \A b \in Answer : Waits(b)' => b = a
      BY <3>1 DEF Waits
    <3> QED BY <1>1, <1>2, <1>5, <2>1, <2>2, <2>6, <2>7, <3>1, <3>2 DEF WireInv, AnswerInv, Clean
  <2>8. CASE answers' = Append(answers, [AnswerTo(r) EXCEPT !.own = r.own])
    <3> DEFINE b == AnswerTo(r)
               a == [b EXCEPT !.own = r.own]
    <3>1. b \in Answer /\ Truthful(b)
      BY <1>5, <2>1, <2>2, AnswerTyped, AnswerTrue DEF TypeInv, TypeOK
    <3>2. a \in Answer /\ a.kind = b.kind /\ a.mac = b.mac /\ a.assoc = b.assoc
      BY <2>2, <3>1 DEF Answer, Request
    <3>3. \E c \in Answer : answers' = Append(answers, c) /\ Truthful(c)
      <4> HIDE DEF b
      <4>1. Truthful(a)
        BY <3>1, <3>2, TruthOfAny
      <4> QED BY <2>8, <3>2, <4>1 DEF b
    <3>4. PICK c \in Answer : answers' = Append(answers, c) /\ Truthful(c)
      BY <3>3
    <3>5. Truthful(c)'
      BY <2>5, <3>4
    <3> QED BY <1>3, <2>7, <3>4, <3>5 DEF ListInv
  <2>9. CASE answers' = Append(answers, [Says("unknown") EXCEPT !.own = r.own]) /\ Hindered("missing")
    <3>1. \E c \in Answer : answers' = Append(answers, c) /\ c.kind = "unknown"
      <4>1. /\ [Says("unknown") EXCEPT !.own = r.own] \in Answer
            /\ [Says("unknown") EXCEPT !.own = r.own].kind = "unknown"
        BY <2>2 DEF Says, Answer, AnswerKind, Request
      <4> QED BY <2>9, <4>1
    <3>2. PICK c \in Answer : answers' = Append(answers, c) /\ c.kind = "unknown"
      BY <3>1
    <3>3. "missing" \in trouble'
      BY <1>5, <2>9 DEF Hindered, Clean
    <3>4. Truthful(c)'
      BY <3>2, <3>3 DEF Truthful
    <3> QED BY <1>3, <2>7, <3>2, <3>4 DEF ListInv
  <2>10. CASE answers' = answers /\ Hindered("missing")
    <3>1. "missing" \in trouble' /\ Len(answers') = 0 /\ DOMAIN answers' = {}
      BY <1>5, <2>1, <2>10 DEF Hindered, Clean
    <3> QED BY <1>1, <1>2, <1>3, <1>5, <2>1, <2>2, <2>6, <3>1
            DEF ListInv, WireInv, AnswerInv, Clean, Waits
  <2> QED BY <2>8, <2>9, <2>10 DEF Serve
<1> QED BY <1>4, <1>5

\* hostapd goes, or answers too late.
LEMMA ListTrouble ==
  ASSUME TypeInv, MainInv, ListInv, Terminate \/ Late
  PROVE  ListInv'
<1>1. /\ UNCHANGED <<role, list, assoc, op, sent, at, must, may, found>>
      /\ Hindered("missing") /\ trouble \subseteq trouble'
      /\ ("stale" \in trouble' => "stale" \in trouble)
  BY DEF Terminate, Late, Hindered, hostapd, attaching, detacher
<1>2. Busy' = Busy /\ Clean' = Clean
  BY <1>1 DEF Busy, Clean
<1>3. FaultInv'
  BY <1>1 DEF Terminate, Late, ListInv, FaultInv, hostapd
<1>4. MustInv'
  BY <1>1, <1>2 DEF ListInv, MustInv, Clean, Hindered
<1>5. CASE ~Clean
  BY <1>2, <1>3, <1>4, <1>5 DEF ListInv, WireInv, AnswerInv
<1>6. CASE Clean
  <2>1. "missing" \in trouble' /\ role = "main"
    BY <1>1, <1>6 DEF Hindered, Clean, Busy, ListInv, FaultInv
  <2>2. answers' = answers /\ (requests' = <<>> \/ requests' = Disown(requests))
    BY <2>1 DEF Terminate, Late, MainInv
  <2>3. (~sent /\ up') => (~sent /\ up /\ requests' = Disown(requests))
    BY DEF Terminate, Late, hostapd
  <2>4. WireInv'
    <3>0. requests \in Seq(Request) /\ Len(requests) \in Nat /\ Len(answers) \in Nat
      BY DEF TypeInv, TypeOK
    <3>1. CASE requests' = <<>>
      <4>1. sent => Len(answers) <= 1
        BY <1>6, <3>0 DEF ListInv, WireInv
      <4>2. sent => Len(requests') + Len(answers') <= 1
        BY <2>2, <3>0, <3>1, <4>1
      <4>3. ~(~sent /\ up')
        BY <2>3, <3>1, <1>6, <2>2 DEF Terminate, Late, ListInv, WireInv
      <4> QED BY <1>1, <2>1, <2>2, <3>1, <4>2, <4>3 DEF WireInv
    <3>2. CASE requests' = Disown(requests)
      <4>1. /\ Len(requests') = Len(requests) /\ DOMAIN requests' = DOMAIN requests
            /\ \A i \in DOMAIN requests :
                  requests'[i].cmd = requests[i].cmd /\ requests'[i].mac = requests[i].mac
        BY <3>0, <3>2, DisownRequests
      <4>2. requests = <<>> => requests' = <<>>
        BY <3>0, <3>2 DEF Disown
      <4> QED BY <1>1, <1>6, <2>1, <2>2, <2>3, <4>1, <4>2 DEF ListInv, WireInv
    <3> QED BY <2>2, <3>1, <3>2
  <2>5. AnswerInv'
    <3>1. list' = list
      BY <1>1
    <3>2. ASSUME NEW x, NEW m, After(x, m) PROVE After(x, m)'
      BY <3>1, <3>2 DEF After
    <3>3. /\ \A x : \A m \in ToSet(list) : After(x, m) => After(x, m)'
          /\ \A x : x \notin ToSet(list)' => x \notin ToSet(list) \/ "forgot" \in trouble'
      BY <3>1, <3>2
    <3> QED BY <1>1, <1>6, <2>2, <3>3, TruthKept DEF ListInv, AnswerInv, Waits, Clean, Unlisted
  <2> QED BY <1>3, <1>4, <2>4, <2>5 DEF ListInv
<1> QED BY <1>5, <1>6

\* A listing begins.
LEMMA ListBegins ==
  ASSUME TypeInv, SentInv, ListInv, Stations
  PROVE  ListInv'
<1>1. ~sent' /\ Busy' /\ op' = "first" /\ UNCHANGED <<role, up, slow, wires>>
  BY DEF Stations, SentInv, Command, Busy, hostapd
<1>2. FaultInv'
  BY <1>1 DEF Stations, ListInv, FaultInv
<1>3. MustInv'
  BY <1>1 DEF Stations, MustInv, hostapd
<1>4. WireInv'
  BY <1>1 DEF Stations, WireInv, Clean, wires
<1>5. AnswerInv'
  BY <1>1 DEF AnswerInv
<1> QED BY <1>2, <1>3, <1>4, <1>5 DEF ListInv

\* It sends its next command.
LEMMA ListSends ==
  ASSUME TypeInv, ListInv, Send
  PROVE  ListInv'
<1>1. /\ UNCHANGED <<role, hostapd, answers, op, at, slow, listing>>
      /\ ~sent /\ sent' /\ up
      /\ requests' = Append(requests, [cmd |-> op, mac |-> at, own |-> TRUE])
  BY DEF Send
<1>2. Busy' = Busy /\ Clean' = Clean
  BY <1>1 DEF Busy, Clean, listing
<1>3. FaultInv' /\ MustInv'
  BY <1>1, <1>2 DEF ListInv, FaultInv, MustInv, hostapd, listing
<1>4. CASE ~Clean
  BY <1>2, <1>3, <1>4 DEF ListInv, WireInv, AnswerInv
<1>5. CASE Clean
  <2>1. requests = <<>> /\ answers = <<>>
    BY <1>1, <1>5 DEF ListInv, WireInv
  <2>2. [cmd |-> op, mac |-> at, own |-> TRUE] \in Request
    BY DEF Send, Request, TypeInv, TypeOK
  <2>3. /\ Len(requests') = 1
        /\ \A i \in DOMAIN requests' : requests'[i] = [cmd |-> op, mac |-> at, own |-> TRUE]
    <3>1. requests \in Seq(Request) /\ Len(requests) = 0
      BY <2>1
    <3> QED BY <1>1, <2>2, <3>1, EndOfAppend
  <2>4. WireInv'
    BY <1>1, <2>1, <2>3 DEF WireInv
  <2>5. \A a \in Answer : ~Waits(a)'
    BY <1>1, <2>1 DEF Waits
  <2>6. ASSUME NEW x, Behind(x) PROVE Behind(x)'
    BY <1>1, <2>6 DEF Behind, Unlisted, After, hostapd, listing
  <2>7. AnswerInv'
    BY <1>1, <1>2, <1>5, <2>5, <2>6 DEF ListInv, AnswerInv, Unlisted, listing
  <2> QED BY <1>3, <2>4, <2>7 DEF ListInv
<1> QED BY <1>4, <1>5

\* The one answer under way is the one that is read.
LEMMA OneRead ==
  ASSUME TypeInv, WireInv, Clean, sent, answers # <<>>
  PROVE  /\ requests = <<>> /\ Tail(answers) = <<>>
         /\ Head(answers) \in Answer /\ Waits(Head(answers))
<1>1. /\ requests \in Seq(Request) /\ Len(requests) \in Nat
      /\ answers \in Seq(Answer) /\ Len(answers) \in Nat /\ Len(answers) > 0
  BY DEF TypeInv, TypeOK
<1>2. Len(answers) + Len(requests) <= 1
  BY <1>1 DEF WireInv
<1>3. Len(answers) = 1 /\ Len(requests) = 0
  BY <1>1, <1>2, OneOfTwo
<1>4. Head(answers) = answers[1] /\ 1 \in DOMAIN answers /\ Head(answers) \in Answer
      /\ Tail(answers) \in Seq(Answer) /\ Len(Tail(answers)) = 0
  BY <1>1, <1>3, RestOfTail
<1>5. requests = <<>>
  BY <1>1, <1>3
<1>6. Tail(answers) = <<>>
  BY <1>4, EmptySeq
<1> QED BY <1>4, <1>5, <1>6 DEF Waits

\* It takes note of the station that it was told of.
LEMMA ListReads ==
  ASSUME TypeInv, ListInv, ReadStation
  PROVE  ListInv'
<1> DEFINE a == Head(answers)
<1>1. /\ UNCHANGED <<role, hostapd, slow, must, may, trouble, result>>
      /\ answers' = Disown(Tail(answers)) /\ requests' = Disown(requests)
      /\ sent /\ ~sent' /\ answers # <<>> /\ a.kind = "station"
      /\ found' = (IF a.assoc THEN found \union {a.mac} ELSE found) /\ at' = a.mac
      /\ Busy /\ op' = "next"
  BY DEF ReadStation, Reads
<1>2. Busy' /\ Clean' = Clean
  BY <1>1 DEF Busy, Clean
<1>3. FaultInv'
  BY <1>1 DEF ListInv, FaultInv, hostapd, Busy
<1>4. CASE ~Clean
  BY <1>1, <1>2, <1>3, <1>4 DEF ListInv, MustInv, WireInv, AnswerInv, hostapd
<1>5. CASE Clean
  <2>1. requests = <<>> /\ Tail(answers) = <<>> /\ a \in Answer /\ Waits(a)
    BY <1>1, <1>5, OneRead DEF ListInv
  <2>2. Truthful(a)
    BY <1>1, <1>5, <2>1 DEF ListInv, AnswerInv
  <2>3. requests' = <<>> /\ answers' = <<>>
    BY <1>1, <2>1 DEF Disown
  <2>4. WireInv'
    BY <1>1, <2>3 DEF WireInv
  <2>5. MustInv'
    BY <1>1, <1>2, <1>5, <2>2 DEF ListInv, MustInv, Truthful, hostapd
  <2>6. Behind(a.mac) /\ (a.mac \in must => a.assoc)
    BY <1>1, <2>2 DEF Truthful
  <2>7. ASSUME NEW x, x = a.mac PROVE Behind(x)' /\ x \notin Unlisted'
    <3>1. Behind(x) /\ (x \in must => x \in found')
      BY <1>1, <2>6, <2>7
    <3>2. Unlisted' \subseteq Unlisted /\ list' = list /\ trouble' = trouble
      BY <1>1 DEF Unlisted, hostapd
    <3>3. ASSUME NEW m, After(x, m) PROVE After(x, m)'
      BY <3>2, <3>3 DEF After
    <3>4. Behind(x)'
      BY <3>1, <3>2, <3>3 DEF Behind
    <3> QED BY <1>1, <3>1, <3>4 DEF Unlisted
  <2>8. AnswerInv'
    BY <1>1, <2>7 DEF AnswerInv
  <2> QED BY <1>3, <2>4, <2>5, <2>8 DEF ListInv
<1> QED BY <1>4, <1>5

\* It ends, or has not begun.
LEMMA ListEnds ==
  ASSUME TypeInv, ListInv,
         ReadEnd \/ ReadUnknown \/ ReadOther \/ Timeout \/ SendFails
  PROVE  ListInv'
<1>1. op \in Command /\ UNCHANGED <<role, up, slow>>
  BY DEF ReadEnd, ReadUnknown, ReadOther, Timeout, SendFails, Reads, hostapd
<1>2. /\ FailsUnparsed \/ Fails \/ (Busy /\ Ends(TRUE, found))
  BY DEF ReadEnd, ReadUnknown, ReadOther, Timeout, SendFails
<1>3. op' = "shut" \/ (op' = "idle" /\ Busy)
  BY <1>2 DEF FailsUnparsed, Fails, Ends, Busy
<1> QED BY <1>1, <1>3, ListIdle DEF Busy

LEMMA ListNext == CtrlInv /\ ListInv /\ [Next]_vars => ListInv'
<1> SUFFICES ASSUME CtrlInv, ListInv, [Next]_vars PROVE ListInv'
  OBVIOUS
<1>1. TypeInv /\ SentInv /\ MainInv /\ PlaceInv
  BY DEF CtrlInv, TypeInv
<1>2. ASSUME NEW m \in MAC, Associate(m) \/ Disassociate(m) \/ Forget(m) PROVE ListInv'
  BY <1>1, <1>2, ListOutside
<1>3. CASE Serve \/ Terminate \/ Late \/ Stations \/ Send \/ ReadStation
  BY <1>1, <1>3, ListServe, ListTrouble, ListBegins, ListSends, ListReads
<1>4. CASE ReadEnd \/ ReadUnknown \/ ReadOther \/ Timeout \/ SendFails
  BY <1>1, <1>4, ListEnds
<1>5. ASSUME UNCHANGED <<role, up, list, assoc, wires, op, sent, at, slow, must, may, trouble, found>>
      PROVE  ListInv'
  BY <1>5 DEF ListInv, FaultInv, MustInv, WireInv, AnswerInv, Truthful, Behind, Unlisted, After,
              Waits, Clean, Busy, wires
<1>6. CASE Cancel \/ UNCHANGED vars
  BY <1>5, <1>6 DEF Cancel, vars, hostapd, listing
<1>7. CASE Announce
  <2>1. ~Busy /\ UNCHANGED <<role, up, slow, op>>
    BY <1>1, <1>7 DEF Announce, MainInv, ListInv, FaultInv, Busy, hostapd
  <2>2. ~Busy'
    BY <2>1 DEF Busy
  <2> QED BY <2>1, <2>2, ListIdle
<1>8. CASE ReadExpected
  <2>1. /\ \/ op \in {"ping", "status"} /\ op' \in {"status", "attach", "idle"}
           \/ op = "attach" /\ op' = "unset"
        /\ (op' = "status" => role = "main") /\ (op' = "idle" => op = "status")
        /\ UNCHANGED <<role, up, slow>>
    <3>1. UNCHANGED <<role, up, slow>>
      BY <1>8 DEF ReadExpected, Reads, hostapd
    <3>2. \/ op \in {"ping", "status"} /\ op' \in {"status", "attach", "idle"}
          \/ op = "attach" /\ op' = "unset"
      BY <1>1, <1>8, ExpectedPlace
    <3>3. (op' = "status" => role = "main") /\ (op' = "idle" => op = "status")
      BY <1>8, <3>2 DEF ReadExpected
    <3> QED BY <3>1, <3>2, <3>3
  <2> QED BY <2>1, ListIdle DEF Busy
<1>9. CASE UnsetReadDeadline \/ ReadMessage \/ ReadTimeout \/ DeferredDetachDone \/ CloseConn
  <2>1. /\ op \in {"unset", "read", "detach", "shut"} /\ UNCHANGED <<role, up, slow>>
        /\ op' \in {"read", "detach", "shut", "ended"}
    BY <1>9 DEF UnsetReadDeadline, ReadMessage, ReadTimeout, DeferredDetachDone, CloseConn, Leaves, hostapd
  <2> QED BY <2>1, ListIdle DEF Busy
<1>10. CASE Wake
  BY <1>5, <1>10 DEF Wake, hostapd, listing
<1>11. ASSUME NEW c \in Caller, DetNext(c) PROVE ListInv'
  <2>1. op \notin Command \union {"idle"} /\ UNCHANGED <<role, up, slow, op>>
    BY <1>1, <1>11 DEF DetNext, DetLock, DetWrite, DetArm, DetClose, PlaceInv, Caller, hostapd
  <2>2. ~Busy'
    BY <2>1 DEF Busy, Command
  <2> QED BY <2>1, <2>2, ListIdle
<1> QED
  BY <1>2, <1>3, <1>4, <1>6, <1>7, <1>8, <1>9, <1>10, <1>11 DEF Next, EnvNext, ClientNext

------------------------------------------------------------------------------
(* Every step is one that StationListing allows                            *)

LEMMA ListingInit == Init => Listing!Init
  BY DEF Init, Listing!Init, Busy

LEMMA ListingStill ==
  ASSUME UNCHANGED <<assoc, listing>>, Busy' = Busy
  PROVE  UNCHANGED Listing!vars
  BY DEF listing, Listing!vars

\* hostapd may hinder a listing.
LEMMA ListingHindered ==
  ASSUME NEW what \in {"forgot", "missing"}, Hindered(what), what = "missing" => Fault # {},
         UNCHANGED <<assoc, op, must, may, result>>
  PROVE  Listing!Hinder \/ UNCHANGED Listing!vars
<1>1. Busy' = Busy
  BY DEF Busy
<1>2. CASE Busy
  BY <1>1, <1>2 DEF Hindered, Listing!Hinder
<1>3. CASE ~Busy
  BY <1>1, <1>3 DEF Hindered, Listing!vars
<1> QED BY <1>2, <1>3

LEMMA ListingServe ==
  ASSUME Serve
  PROVE  Listing!Hinder \/ UNCHANGED Listing!vars
<1>1. UNCHANGED <<assoc, op, must, may, found, result>>
  BY DEF Serve
<1>2. CASE UNCHANGED trouble
  BY <1>1, <1>2 DEF Listing!vars, Busy
<1>3. CASE Hindered("missing") /\ Fault # {}
  BY <1>1, <1>3, ListingHindered
<1> QED BY <1>2, <1>3 DEF Serve

LEMMA ListingBegin ==
  ASSUME TypeInv, SentInv, MainInv, ListInv, Stations
  PROVE  Listing!Begin
<1>1. ~Busy /\ Busy' /\ must' = assoc /\ may' = assoc /\ UNCHANGED <<assoc, result>>
  BY DEF Stations, Busy, hostapd
<1>2. ~up => Fault # {}
  BY DEF ListInv, FaultInv
<1>3. requests # <<>> \/ answers # <<>> => Fault # {}
  <2>1. ~sent /\ role = "main"
    BY DEF Stations, SentInv, Command
  <2>2. CASE slow
    BY <2>2 DEF ListInv, FaultInv
  <2>3. CASE ~slow
    <3>1. /\ requests \in Seq(Request) /\ Len(requests) \in Nat
          /\ answers \in Seq(Answer) /\ Len(answers) \in Nat
      BY DEF TypeInv, TypeOK
    <3>2. Len(requests) + Len(answers) <= 0
      BY <2>1, <2>3 DEF MainInv
    <3>3. Len(requests) = 0 /\ Len(answers) = 0
      BY <3>1, <3>2
    <3> QED BY <3>1, <3>3
  <2> QED BY <2>2, <2>3
<1>4. trouble' \in {{}} \union (IF Fault # {} THEN {{"missing"}, {"stale"}} ELSE {})
  BY <1>2, <1>3 DEF Stations
<1> QED BY <1>1, <1>4 DEF Listing!Begin

\* What a listing may return, and when it may fail.
LEMMA ListingEnd ==
  ASSUME TypeInv, ListInv, Busy, assoc' = assoc
  PROVE  /\ Ends(TRUE, found) /\ (must \subseteq found \/ trouble \intersect {"missing", "stale"} # {})
            => Listing!Return
         /\ Ends(FALSE, {}) /\ trouble # {} => Listing!Fail
<1>1. found \subseteq MAC /\ ("stale" \in trouble \/ found \subseteq may)
  BY DEF TypeInv, TypeOK, ListInv, MustInv, Clean
<1>2. ASSUME Ends(TRUE, found), must \subseteq found \/ trouble \intersect {"missing", "stale"} # {}
      PROVE  Listing!Return
  <2>1. Listing!Ends(TRUE, found)
    BY <1>2 DEF Ends, Listing!Ends, Busy
  <2> QED BY <1>1, <1>2, <2>1 DEF Listing!Return
<1>3. ASSUME Ends(FALSE, {}), trouble # {} PROVE Listing!Fail
  <2>1. Listing!Ends(FALSE, {})
    BY <1>3 DEF Ends, Listing!Ends, Busy
  <2> QED BY <1>3, <2>1 DEF Listing!Fail
<1> QED BY <1>2, <1>3

\* A step that ends a command that lists: the answer was true, or one was missing.
LEMMA ListCommandEnds ==
  ASSUME TypeInv, ListInv, Busy, ReadEnd \/ ReadUnknown \/ ReadOther \/ Timeout \/ SendFails
  PROVE  Listing!Return \/ Listing!Fail
<1>1. assoc' = assoc
  BY DEF ReadEnd, ReadUnknown, ReadOther, Timeout, SendFails, Reads, hostapd
<1>2. "stale" \in trouble <=> ~Clean
  BY DEF Clean
<1>3. ASSUME FailsUnparsed, trouble \intersect {"missing", "stale"} # {}
      PROVE  Listing!Return \/ Listing!Fail
  BY <1>1, <1>3, ListingEnd DEF FailsUnparsed, Fails
<1>4. ASSUME NEW kinds, Reads(kinds), Clean
      PROVE  Truthful(Head(answers)) /\ Head(answers).kind \in kinds
  <2>1. sent /\ answers # <<>> /\ Head(answers).kind \in kinds
    BY <1>4 DEF Reads
  <2> QED BY <1>4, <2>1, OneRead DEF ListInv, AnswerInv
<1>5. CASE ReadEnd
  <2>1. Ends(TRUE, found) /\ Reads({"end"})
    BY <1>5 DEF ReadEnd
  <2>2. Clean => must \subseteq found
    BY <1>4, <2>1 DEF Truthful
  <2> QED BY <1>1, <1>2, <2>1, <2>2, ListingEnd
<1>6. CASE ReadUnknown
  <2>1. FailsUnparsed /\ Reads({"unknown"})
    BY <1>6 DEF ReadUnknown
  <2>2. Clean => "missing" \in trouble
    BY <1>4, <2>1 DEF Truthful
  <2> QED BY <1>2, <1>3, <2>1, <2>2
<1>7. CASE ReadOther
  <2>1. Fails /\ Reads(Unparsed) /\ ~Expected(Head(answers).kind)
    BY <1>7 DEF ReadOther
  <2>2. Head(answers).kind # "station"
    BY <2>1 DEF Expected, Busy
  <2>3. Clean => "forgot" \in trouble
    BY <1>4, <2>1, <2>2 DEF Truthful, Unparsed
  <2>4. Ends(FALSE, {}) /\ trouble # {}
    BY <1>2, <2>1, <2>3 DEF Fails
  <2> QED BY <1>1, <2>4, ListingEnd
<1>8. CASE Timeout
  <2>1. FailsUnparsed /\ sent /\ answers = <<>> /\ \A i \in DOMAIN requests : ~requests[i].own
    BY <1>8 DEF Timeout
  <2>2. Clean => "missing" \in trouble
    <3> SUFFICES ASSUME Clean, "missing" \notin trouble PROVE FALSE
      OBVIOUS
    <3>1. Len(requests) + Len(answers) = 1 /\ \A i \in DOMAIN requests : requests[i].own
      BY <2>1 DEF ListInv, WireInv
    <3>2. requests \in Seq(Request) /\ Len(requests) \in Nat /\ Len(answers) = 0
      BY <2>1 DEF TypeInv, TypeOK
    <3>3. Len(requests) = 1
      BY <3>1, <3>2
    <3>4. 1 \in DOMAIN requests
      BY <3>2, <3>3
    <3> QED BY <2>1, <3>1, <3>4
  <2> QED BY <1>2, <1>3, <2>1, <2>2
<1>9. CASE SendFails
  <2>1. FailsUnparsed /\ "missing" \in trouble
    BY <1>9 DEF SendFails, ListInv, MustInv
  <2> QED BY <1>3, <2>1
<1> QED BY <1>5, <1>6, <1>7, <1>8, <1>9

\* One that ends another command is not seen.
LEMMA OtherCommandEnds ==
  ASSUME ~Busy, ReadEnd \/ ReadUnknown \/ ReadOther \/ Timeout \/ SendFails
  PROVE  UNCHANGED Listing!vars
<1>1. Fails
  BY DEF ReadEnd, ReadUnknown, ReadOther, Timeout, SendFails, FailsUnparsed, Busy
<1>2. op' = "shut" /\ UNCHANGED listing
  BY <1>1 DEF Fails
<1>3. assoc' = assoc
  BY DEF ReadEnd, ReadUnknown, ReadOther, Timeout, SendFails, Reads, hostapd
<1>4. Busy' = Busy
  BY <1>2 DEF Busy
<1> QED BY <1>2, <1>3, <1>4, ListingStill

LEMMA ListingNext ==
  CtrlInv /\ ListInv /\ [Next]_vars => [Listing!Next]_(Listing!vars)
<1> SUFFICES ASSUME CtrlInv, ListInv, [Next]_vars
             PROVE  Listing!Next \/ UNCHANGED Listing!vars
  OBVIOUS
<1>1. TypeInv /\ SentInv /\ MainInv /\ PlaceInv
  BY DEF CtrlInv, TypeInv
<1>2. ASSUME NEW m \in MAC, Associate(m) \/ Disassociate(m)
      PROVE  Listing!Next
  <2>1. Listing!Associate(m) \/ Listing!Disassociate(m)
    BY <1>2 DEF Associate, Disassociate, Listing!Associate, Listing!Disassociate, Busy
  <2> QED BY <2>1 DEF Listing!Next
<1>3. ASSUME NEW m \in MAC, Forget(m) PROVE Listing!Hinder \/ UNCHANGED Listing!vars
  BY <1>3, ListingHindered DEF Forget
<1>4. CASE Terminate \/ Late
  <2>1. Hindered("missing") /\ Fault # {} /\ UNCHANGED <<assoc, op, must, may, result>>
    BY <1>4 DEF Terminate, Late, hostapd
  <2>2. Listing!Hinder \/ UNCHANGED Listing!vars
    BY <2>1, ListingHindered
  <2> QED BY <2>2 DEF Listing!Next
<1>5. CASE Serve
  BY <1>5, ListingServe DEF Listing!Next
<1>6. CASE Stations
  BY <1>1, <1>6, ListingBegin DEF Listing!Next
<1>7. CASE ReadEnd \/ ReadUnknown \/ ReadOther \/ Timeout \/ SendFails
  <2>1. CASE Busy
    BY <1>1, <1>7, <2>1, ListCommandEnds DEF Listing!Next
  <2>2. CASE ~Busy
    BY <1>7, <2>2, OtherCommandEnds
  <2> QED BY <2>1, <2>2
<1>8. CASE Announce \/ Cancel \/ Send \/ Wake \/ UNCHANGED vars
  <2>1. UNCHANGED <<assoc, listing, op>>
    BY <1>8 DEF Announce, Cancel, Send, Wake, vars, hostapd
  <2> QED BY <2>1, ListingStill DEF Busy
<1>9. CASE ReadStation
  BY <1>9 DEF ReadStation, Reads, Busy, hostapd, Listing!vars
<1>10. CASE ReadExpected
  <2>1. UNCHANGED <<assoc, listing>> /\ ~Busy /\ ~Busy'
    <3>1. UNCHANGED <<assoc, listing>>
      BY <1>10 DEF ReadExpected, Reads, hostapd
    <3> QED BY <1>1, <1>10, <3>1, ExpectedPlace DEF Busy
  <2> QED BY <2>1, ListingStill DEF Busy
<1>11. CASE UnsetReadDeadline \/ ReadMessage \/ ReadTimeout \/ DeferredDetachDone \/ CloseConn
  <2>1. UNCHANGED <<assoc, listing>> /\ ~Busy /\ ~Busy'
    BY <1>11 DEF UnsetReadDeadline, ReadMessage, ReadTimeout, DeferredDetachDone, CloseConn, Leaves,
                 hostapd, Busy
  <2> QED BY <2>1, ListingStill DEF Busy
<1>12. ASSUME NEW c \in Caller, DetNext(c) PROVE UNCHANGED Listing!vars
  <2>1. UNCHANGED <<assoc, listing, op>>
    BY <1>12 DEF DetNext, DetLock, DetWrite, DetArm, DetClose, hostapd
  <2> QED BY <2>1, ListingStill DEF Busy
<1> QED
  BY <1>2, <1>3, <1>4, <1>5, <1>6, <1>7, <1>8, <1>9, <1>10, <1>11, <1>12
  DEF Next, EnvNext, ClientNext, Listing!Next

\* Client.Stations keeps the promise of StationListing: the list has every station
\* that was associated throughout the call and none that was not at any time of
\* it, unless hostapd forgot a station or an answer was missing or late
\* (client.go:68-95, ctrl.go:139-157).
THEOREM ListingRefines == Spec => ListingIsRegular
<1>1. Init => ListInv /\ Listing!Init
  BY ListInit, ListingInit
<1>2. CtrlInv /\ CtrlInv' /\ ListInv /\ [Next]_vars => ListInv' /\ [Listing!Next]_(Listing!vars)
  BY ListNext, ListingNext
<1> QED BY CtrlInvHolds, <1>1, <1>2, PTL DEF Spec, ListingIsRegular, Listing!Spec
==============================================================================
