-------------------------- MODULE HostapdCtrlProofs --------------------------
(***************************************************************************)
(* One connection to hostapd: commands and answers stay in step, attach    *)
(* detaches before it closes its socket and stops only when it is asked    *)
(* to, for any stations, any faults and any number of waiting datagrams.   *)
(***************************************************************************)
EXTENDS HostapdCtrl, SequenceTheorems, TLAPS

\* What the client sends on one connection never mixes the two roles.
Asked(cmd) == \E i \in DOMAIN requests : requests[i].cmd = cmd
Answered(kind) == \E i \in DOMAIN answers : answers[i].kind = kind

\* Only what tells of a station names one.
NamedInv == \A i \in DOMAIN answers : answers[i].kind = "station" => answers[i].mac \in MAC

\* hostapd tells a station once, and has every station that is associated.
ListOK == assoc \subseteq ToSet(list) /\ IsInjective(list)

TypeInv == TypeOK /\ ListOK /\ NamedInv

SentInv == sent => op \in Command

\* The main connection never asks for events, and unless an answer was late there
\* is at most the one answer under way that is awaited.
MainInv == role = "main" =>
    /\ op \in {"ping", "status", "idle", "first", "next", "shut", "ended"}
    /\ ~listener /\ ~Asked("attach") /\ \A c \in Caller : det[c] = "none"
    /\ ~slow => /\ Len(requests) + Len(answers) <= IF sent THEN 1 ELSE 0
                /\ \A i \in DOMAIN requests : requests[i].own
                /\ \A i \in DOMAIN answers : answers[i].own

\* ATTACH is asked for once and answered once, before anybody may detach.
AttachInv ==
    /\ op \in (Command \ {"attach"}) \union {"idle"} => ~Asked("attach") /\ ~Answered("ok")
    /\ op = "attach" /\ ~sent => ~Asked("attach") /\ ~Answered("ok")
    /\ \A i, j \in DOMAIN requests :
          requests[i].cmd = "attach" /\ requests[j].cmd = "attach" => i = j
    /\ Answered("ok") \/ det["cancel"] # "none" => ~Asked("attach")
    /\ op = "attach" => \A i, j \in DOMAIN answers :
          answers[i].kind = "ok" /\ answers[j].kind = "ok" => i = j

\* Where the loop is when the callers of the detacher are where they are.
PlaceInv ==
    /\ op \in Command \union {"idle"} => det["cancel"] = "none"
    /\ det["cancel"] = "none" => det["loop"] = "none" /\ ~detached /\ ~Asked("detach")
    /\ op \in {"unset", "read"} => det["cancel"] # "none" /\ det["loop"] = "none"
    /\ op = "detach" => det["cancel"] # "none"
    /\ op \in {"shut", "ended"} /\ det["cancel"] # "none" => det["loop"] = "done"
    /\ ~open <=> op = "ended"

\* The detacher's mutex.
Inside == {"write", "arm", "close"}
MutexInv == \A c \in Caller :
    /\ det[c] \in Inside \union {"done"} => detached
    /\ det[c] \in Inside =>
          \A o \in Caller \ {c} : det[o] \notin Inside \union {"done"}

\* Once a caller has written DETACH, hostapd has it or has obeyed it.
WrittenInv ==
    /\ ~up => ~listener
    /\ detached /\ (\A c \in Caller : det[c] # "write") /\ listener => Asked("detach")

\* What ends the wait for events comes from a detach, and that from the context.
StopInv ==
    /\ det["cancel"] \notin {"none", "wait"} => cancelled
    /\ op \in {"unset", "read"} /\ (Asked("detach") \/ Answered("ok")) => cancelled
    /\ op = "read" /\ deadline => cancelled
    /\ StopsOnRequest

\* Until hostapd has obeyed ATTACH nothing else is under way, and its OK is the
\* first answer: it is read, or it is missing or late.
Early == op = "ping" \/ (op = "attach" /\ ~sent)
EarlyInv ==
    /\ Early => ~listener /\ (~slow => Len(requests) + Len(answers) <= IF sent THEN 1 ELSE 0)
    /\ op = "attach" /\ Asked("attach") =>
          ~listener /\ (~slow => answers = <<>> /\ Len(requests) = 1 /\ requests[1].own)
    /\ op = "attach" /\ Answered("ok") => slow \/ answers[1].kind = "ok"
    /\ op \in {"shut", "ended"} /\ ~Accepted => slow \/ (~Asked("attach") /\ ~Answered("ok"))

\* The channel is closed by a caller that has returned.
ClosedInv == closed => \E c \in Caller : det[c] = "done"

CtrlInv == TypeInv /\ SentInv /\ MainInv /\ AttachInv /\ PlaceInv /\ MutexInv
           /\ WrittenInv /\ StopInv /\ EarlyInv /\ ClosedInv

------------------------------------------------------------------------------
(* Sequences                                                               *)

LEMMA OneOfTwo ==
  ASSUME NEW a \in Nat, NEW b \in Nat, a > 0, a + b <= 1
  PROVE  a = 1 /\ b = 0
  OBVIOUS

LEMMA EndOfAppend ==
  ASSUME NEW S, NEW s \in Seq(S), NEW e \in S
  PROVE  /\ Append(s, e) \in Seq(S)
         /\ Len(Append(s, e)) = Len(s) + 1
         /\ DOMAIN Append(s, e) = 1..(Len(s) + 1)
         /\ \A i \in 1..Len(s) : Append(s, e)[i] = s[i]
         /\ Append(s, e)[Len(s) + 1] = e
  OBVIOUS

LEMMA RestOfTail ==
  ASSUME NEW S, NEW s \in Seq(S), s # <<>>
  PROVE  /\ Head(s) = s[1] /\ 1 \in DOMAIN s /\ s[1] \in S
         /\ Tail(s) \in Seq(S)
         /\ Len(Tail(s)) = Len(s) - 1
         /\ DOMAIN Tail(s) = 1..(Len(s) - 1)
         /\ \A i \in DOMAIN Tail(s) : i + 1 \in DOMAIN s /\ Tail(s)[i] = s[i + 1]
  OBVIOUS

\* What is disowned keeps its place.
LEMMA DisownRequests ==
  ASSUME NEW s \in Seq(Request)
  PROVE  /\ Disown(s) \in Seq(Request)
         /\ Len(Disown(s)) = Len(s) /\ DOMAIN Disown(s) = DOMAIN s
         /\ \A i \in DOMAIN s : Disown(s)[i].cmd = s[i].cmd /\ Disown(s)[i].mac = s[i].mac
<1>1. \A i \in 1..Len(s) : s[i] \in Request
  BY ElementOfSeq
<1>2. ASSUME NEW i \in 1..Len(s) PROVE [s[i] EXCEPT !.own = FALSE] \in Request
  BY <1>1 DEF Request
<1>3. Disown(s) \in [1..Len(s) -> Request]
  BY <1>2 DEF Disown
<1>4. Disown(s) \in Seq(Request)
  BY <1>3, SeqDef
<1> QED BY <1>1, <1>4 DEF Disown, Request

LEMMA DisownAnswers ==
  ASSUME NEW s \in Seq(Answer)
  PROVE  /\ Disown(s) \in Seq(Answer)
         /\ Len(Disown(s)) = Len(s) /\ DOMAIN Disown(s) = DOMAIN s
         /\ \A i \in DOMAIN s : Disown(s)[i].kind = s[i].kind /\ Disown(s)[i].mac = s[i].mac
<1>1. \A i \in 1..Len(s) : s[i] \in Answer
  BY ElementOfSeq
<1>2. ASSUME NEW i \in 1..Len(s) PROVE [s[i] EXCEPT !.own = FALSE] \in Answer
  BY <1>1 DEF Answer
<1>3. Disown(s) \in [1..Len(s) -> Answer]
  BY <1>2 DEF Disown
<1>4. Disown(s) \in Seq(Answer)
  BY <1>3, SeqDef
<1> QED BY <1>1, <1>4 DEF Disown, Answer

------------------------------------------------------------------------------
(* Types                                                                   *)

LEMMA SaysTyped ==
  ASSUME NEW k \in AnswerKind
  PROVE  Says(k) \in Answer /\ Says(k).kind = k
  BY DEF Says, Answer

LEMMA TellsTyped ==
  ASSUME list \in Seq(MAC), NEW i \in Nat
  PROVE  Tells(i) \in Answer /\ (Tells(i).kind = "station" => Tells(i).mac \in MAC)
         /\ Tells(i).kind \in {"station", "end"}
<1>1. CASE i \in DOMAIN list
  BY <1>1 DEF Tells, Answer, AnswerKind
<1>2. CASE i \notin DOMAIN list
  BY <1>2, SaysTyped DEF Tells, AnswerKind
<1> QED BY <1>1, <1>2

\* hostapd's answer is one, and it can only be of a few kinds.
LEMMA AnswerTyped ==
  ASSUME list \in Seq(MAC), NEW r \in Request
  PROVE  /\ AnswerTo(r) \in Answer
         /\ AnswerTo(r).kind = "station" => AnswerTo(r).mac \in MAC
         /\ AnswerTo(r).kind = "ok" <=> r.cmd \in {"attach", "detach"}
<1>1. CASE r.cmd \in {"ping", "status", "attach", "detach"}
  BY <1>1, SaysTyped DEF AnswerTo, Says, AnswerKind
<1>2. CASE r.cmd = "first"
  BY <1>2, TellsTyped DEF AnswerTo
<1>3. CASE r.cmd = "next" /\ r.mac \in ToSet(list)
  <2> DEFINE i == CHOOSE i \in DOMAIN list : list[i] = r.mac
  <2>1. i \in DOMAIN list
    BY <1>3 DEF ToSet
  <2>2. 1 + i \in Nat
    BY <2>1
  <2>3. AnswerTo(r) = Tells(1 + i)
    BY <1>3 DEF AnswerTo
  <2> QED BY <1>3, <2>2, <2>3, TellsTyped
<1>4. CASE r.cmd = "next" /\ r.mac \notin ToSet(list)
  BY <1>4, SaysTyped DEF AnswerTo, Says, AnswerKind
<1> QED BY <1>1, <1>2, <1>3, <1>4 DEF Request, Command

\* The order in which hostapd tells its stations: one that is new comes first.
LEMMA ListGrows ==
  ASSUME list \in Seq(MAC), IsInjective(list), NEW m \in MAC, m \notin ToSet(list)
  PROVE  LET l == <<m>> \o list IN
         /\ l \in Seq(MAC) /\ IsInjective(l) /\ ToSet(l) = ToSet(list) \union {m}
         /\ DOMAIN l = 1..(Len(list) + 1) /\ l[1] = m
         /\ \A i \in 2..(Len(list) + 1) : i - 1 \in DOMAIN list /\ l[i] = list[i - 1]
<1> DEFINE l == <<m>> \o list
<1>1. <<m>> \in Seq(MAC) /\ Len(<<m>>) = 1
  OBVIOUS
<1>2. /\ l \in Seq(MAC) /\ Len(l) = Len(list) + 1
      /\ \A i \in 1..(1 + Len(list)) : l[i] = IF i <= 1 THEN <<m>>[i] ELSE list[i - 1]
  BY <1>1, ConcatProperties
<1>3. DOMAIN l = 1..(Len(list) + 1) /\ l[1] = m
  BY <1>2
<1>4. \A i \in 2..(Len(list) + 1) : i - 1 \in DOMAIN list /\ l[i] = list[i - 1]
  BY <1>2
<1>5. IsInjective(l)
  <2> SUFFICES ASSUME NEW i \in DOMAIN l, NEW j \in DOMAIN l, l[i] = l[j] PROVE i = j
    BY DEF IsInjective
  <2>1. CASE i = 1 \/ j = 1
    BY <2>1, <1>3, <1>4 DEF ToSet
  <2>2. CASE i # 1 /\ j # 1
    <3>1. i \in 2..(Len(list) + 1) /\ j \in 2..(Len(list) + 1)
      BY <2>2, <1>3
    <3>2. list[i - 1] = list[j - 1]
      BY <3>1, <1>4
    <3>3. i - 1 = j - 1
      BY <3>1, <3>2, <1>4 DEF IsInjective
    <3> QED BY <3>1, <3>3
  <2> QED BY <2>1, <2>2
<1>6. ToSet(l) = ToSet(list) \union {m}
  <2>1. ASSUME NEW i \in DOMAIN list PROVE i + 1 \in DOMAIN l /\ l[i + 1] = list[i]
    BY <1>3, <1>4
  <2>2. ASSUME NEW i \in DOMAIN l PROVE l[i] \in ToSet(list) \union {m}
    BY <1>3, <1>4 DEF ToSet
  <2>3. 1 \in DOMAIN l
    BY <1>3
  <2> HIDE DEF l
  <2>4. ToSet(list) \union {m} \subseteq ToSet(l)
    <3>1. m \in ToSet(l)
      BY <2>3, <1>3 DEF ToSet
    <3>2. ASSUME NEW i \in DOMAIN list PROVE list[i] \in ToSet(l)
      BY <2>1 DEF ToSet
    <3> QED BY <3>1, <3>2 DEF ToSet
  <2>5. ToSet(l) \subseteq ToSet(list) \union {m}
    BY <2>2 DEF ToSet
  <2> QED BY <2>4, <2>5
<1> QED BY <1>2, <1>3, <1>4, <1>5, <1>6

\* One that is forgotten leaves the others in their order.
LEMMA ListShrinks ==
  ASSUME list \in Seq(MAC), IsInjective(list), NEW k \in DOMAIN list
  PROVE  LET l == RemoveAt(list, k)
             old(i) == IF i < k THEN i ELSE i + 1
         IN /\ l \in Seq(MAC) /\ IsInjective(l) /\ ToSet(l) = ToSet(list) \ {list[k]}
            /\ \A i \in DOMAIN l : old(i) \in DOMAIN list /\ l[i] = list[old(i)]
<1> DEFINE l == RemoveAt(list, k)
           a == SubSeq(list, 1, k - 1)
           b == SubSeq(list, k + 1, Len(list))
           old(i) == IF i < k THEN i ELSE i + 1
<1>1. k \in 1..Len(list) /\ Len(list) \in Nat
  OBVIOUS
<1>2. /\ a \in Seq(MAC) /\ Len(a) = k - 1
      /\ \A i \in 1..(k - 1) : a[i] = list[i]
  <2>1. \A i \in 1..(k - 1) : list[i] \in MAC
    BY <1>1
  <2>2. /\ a \in Seq(MAC) /\ Len(a) = IF 1 <= k - 1 THEN (k - 1) - 1 + 1 ELSE 0
        /\ \A i \in 1..((k - 1) - 1 + 1) : a[i] = list[1 + i - 1]
    BY <1>1, <2>1, SubSeqProperties
  <2> QED BY <1>1, <2>2
<1>3. /\ b \in Seq(MAC) /\ Len(b) = Len(list) - k
      /\ \A i \in 1..(Len(list) - k) : b[i] = list[i + k]
  <2>1. \A i \in (k + 1)..Len(list) : list[i] \in MAC
    BY <1>1
  <2>2. /\ b \in Seq(MAC)
        /\ Len(b) = IF k + 1 <= Len(list) THEN Len(list) - (k + 1) + 1 ELSE 0
        /\ \A i \in 1..(Len(list) - (k + 1) + 1) : b[i] = list[(k + 1) + i - 1]
    BY <1>1, <2>1, SubSeqProperties
  <2> QED BY <1>1, <2>2
<1> HIDE DEF a, b, l
<1>4. /\ l \in Seq(MAC) /\ Len(l) = Len(list) - 1
      /\ \A i \in 1..(Len(list) - 1) : l[i] = IF i <= k - 1 THEN a[i] ELSE b[i - (k - 1)]
  <2>1. l = a \o b
    BY DEF RemoveAt, a, b, l
  <2>2. /\ a \o b \in Seq(MAC) /\ Len(a \o b) = Len(a) + Len(b)
        /\ \A i \in 1..(Len(a) + Len(b)) :
              (a \o b)[i] = IF i <= Len(a) THEN a[i] ELSE b[i - Len(a)]
    BY <1>2, <1>3, ConcatProperties
  <2>3. Len(a) + Len(b) = Len(list) - 1
    BY <1>1, <1>2, <1>3
  <2> QED BY <1>2, <2>1, <2>2, <2>3
<1>5. ASSUME NEW i \in DOMAIN l PROVE old(i) \in DOMAIN list /\ l[i] = list[old(i)]
  <2>1. i \in 1..(Len(list) - 1)
    BY <1>4
  <2>2. CASE i < k
    <3>1. i \in 1..(k - 1) /\ i <= k - 1
      BY <1>1, <2>1, <2>2
    <3>2. l[i] = a[i] /\ a[i] = list[i]
      BY <1>2, <1>4, <2>1, <3>1
    <3>3. i \in DOMAIN list
      BY <1>1, <2>1
    <3> QED BY <2>2, <3>2, <3>3
  <2>3. CASE ~(i < k)
    <3>0. ~(i <= k - 1) /\ i - (k - 1) \in 1..(Len(list) - k)
      BY <1>1, <2>1, <2>3
    <3>1. l[i] = b[i - (k - 1)] /\ i - (k - 1) \in 1..(Len(list) - k)
      BY <1>4, <2>1, <3>0
    <3>2. b[i - (k - 1)] = list[(i - (k - 1)) + k] /\ (i - (k - 1)) + k = i + 1
      <4>1. (i - (k - 1)) + k = i + 1
        BY <1>1, <2>1
      <4>2. b[i - (k - 1)] = list[(i - (k - 1)) + k]
        BY Zenon, <1>3, <3>1
      <4> QED BY <4>1, <4>2
    <3> QED BY <1>1, <2>1, <2>3, <3>1, <3>2
  <2> QED BY <2>2, <2>3
<1>6. IsInjective(l)
  <2> SUFFICES ASSUME NEW i \in DOMAIN l, NEW j \in DOMAIN l, l[i] = l[j] PROVE i = j
    BY DEF IsInjective
  <2>1. list[old(i)] = list[old(j)] /\ old(i) \in DOMAIN list /\ old(j) \in DOMAIN list
    BY <1>5
  <2>2. old(i) = old(j)
    BY <2>1 DEF IsInjective
  <2>3. i \in Nat /\ j \in Nat
    BY <1>4
  <2> QED BY <1>1, <2>2, <2>3
<1>7. ToSet(l) = ToSet(list) \ {list[k]}
  <2>1. ASSUME NEW i \in DOMAIN l PROVE l[i] \in ToSet(list) \ {list[k]}
    <3>1. old(i) \in DOMAIN list /\ old(i) # k /\ l[i] = list[old(i)]
      BY <1>1, <1>4, <1>5
    <3> QED BY <3>1 DEF IsInjective, ToSet
  <2>2. ASSUME NEW j \in DOMAIN list, list[j] # list[k] PROVE list[j] \in ToSet(l)
    <3>1. CASE j < k
      <4>1. j \in DOMAIN l /\ l[j] = list[j]
        BY <1>1, <1>4, <1>5, <3>1
      <4> QED BY <4>1 DEF ToSet
    <3>2. CASE j > k
      <4>1. j - 1 \in DOMAIN l /\ l[j - 1] = list[j]
        BY <1>1, <1>4, <1>5, <3>2
      <4> QED BY <4>1 DEF ToSet
    <3> QED BY <1>1, <2>2, <3>1, <3>2
  <2> QED BY <2>1, <2>2 DEF ToSet
<1> QED BY <1>4, <1>5, <1>6, <1>7 DEF l


LEMMA AppendedAnswer ==
  ASSUME answers \in Seq(Answer), NamedInv, NEW a \in Answer, a.kind = "station" => a.mac \in MAC,
         answers' = Append(answers, a)
  PROVE  answers' \in Seq(Answer) /\ NamedInv'
  BY EndOfAppend DEF NamedInv

LEMMA ReadTyped ==
  ASSUME TypeInv, NEW kinds, Reads(kinds)
  PROVE  /\ requests' \in Seq(Request) /\ answers' \in Seq(Answer) /\ NamedInv'
         /\ Head(answers) \in Answer
         /\ Head(answers).kind \in kinds
         /\ Head(answers).kind = "station" => Head(answers).mac \in MAC
         /\ sent' = FALSE /\ op \in Command /\ sent
         /\ UNCHANGED <<role, hostapd, slow, open, cancelled, lifted, outcome>>
<1>1. answers \in Seq(Answer) /\ requests \in Seq(Request) /\ answers # <<>>
  BY DEF TypeInv, TypeOK, Reads
<1>2. /\ Head(answers) = answers[1] /\ 1 \in DOMAIN answers /\ answers[1] \in Answer
      /\ Tail(answers) \in Seq(Answer)
      /\ \A i \in DOMAIN Tail(answers) :
            i + 1 \in DOMAIN answers /\ Tail(answers)[i] = answers[i + 1]
  BY <1>1, RestOfTail
<1>3. answers' = Disown(Tail(answers)) /\ requests' = Disown(requests)
  BY DEF Reads
<1>4. /\ answers' \in Seq(Answer) /\ DOMAIN answers' = DOMAIN Tail(answers)
      /\ \A i \in DOMAIN Tail(answers) : /\ answers'[i].kind = Tail(answers)[i].kind
                                         /\ answers'[i].mac = Tail(answers)[i].mac
  BY <1>2, <1>3, DisownAnswers
<1>5. requests' \in Seq(Request)
  BY <1>1, <1>3, DisownRequests
<1>6. NamedInv'
  BY <1>2, <1>4 DEF NamedInv, TypeInv
<1> QED BY <1>2, <1>4, <1>5, <1>6 DEF Reads, TypeInv, NamedInv

\* How a command ends that fails or that was the last of a listing.
LEMMA EndTyped ==
  ASSUME TypeInv, op \in Command, FailsUnparsed \/ Fails \/ Ends(TRUE, found)
  PROVE  /\ op' \in Op /\ at' \in MAC \union {None} /\ (op' = "next" <=> at' # None)
         /\ must' \subseteq MAC /\ may' \subseteq MAC /\ trouble' \subseteq {"forgot", "missing", "stale"}
         /\ found' \subseteq MAC /\ result' \in [ok : BOOLEAN, macs : SUBSET MAC]
<1>1. ASSUME NEW ok \in BOOLEAN, NEW macs \in SUBSET MAC, Ends(ok, macs)
      PROVE  /\ op' = "idle" /\ at' = None /\ must' = {} /\ may' = {} /\ trouble' = {} /\ found' = {}
             /\ result' \in [ok : BOOLEAN, macs : SUBSET MAC]
  BY <1>1 DEF Ends
<1>2. found \in SUBSET MAC /\ {} \in SUBSET MAC
  BY DEF TypeInv, TypeOK
<1>3. CASE Ends(TRUE, found)
  BY <1>1, <1>2, <1>3 DEF Op
<1>4. CASE Ends(FALSE, {})
  BY <1>1, <1>2, <1>4 DEF Op
<1>5. CASE ~Busy /\ op' = "shut" /\ UNCHANGED <<at, listing>>
  BY <1>5 DEF TypeInv, TypeOK, listing, Op, Busy
<1> QED BY <1>3, <1>4, <1>5 DEF FailsUnparsed, Fails

LEMMA DetTyped ==
  ASSUME TypeInv, NEW c \in Caller, NEW s \in DetStep, DetGoes(c, s)
  PROVE  det' \in [Caller -> DetStep]
  BY DEF TypeInv, TypeOK, DetGoes

LEMMA HinderedTyped ==
  ASSUME TypeInv, NEW what \in {"forgot", "missing", "stale"}, Hindered(what)
  PROVE  trouble' \subseteq {"forgot", "missing", "stale"}
  BY DEF TypeInv, TypeOK, Hindered

LEMMA TypeInit == Init => TypeInv
<1> SUFFICES ASSUME Init PROVE TypeInv
  OBVIOUS
<1>1. list \in Seq(MAC) /\ ListOK
  BY DEF Init, ToSet, IsInjective, ListOK
<1>2. requests \in Seq(Request) /\ answers \in Seq(Answer) /\ NamedInv
  BY DEF Init, NamedInv
<1>3. det \in [Caller -> DetStep]
  BY DEF Init, DetStep
<1> QED BY <1>1, <1>2, <1>3 DEF Init, TypeInv, TypeOK, Op, Command, Outcome

LEMMA TypeNext == TypeInv /\ [Next]_vars => TypeInv'
<1> SUFFICES ASSUME TypeInv, [Next]_vars PROVE TypeInv'
  OBVIOUS
<1> USE DEF TypeInv, ListOK
<1>1. ASSUME NEW m \in MAC, Associate(m) PROVE TypeInv'
  <2>1. list' \in Seq(MAC) /\ assoc' \subseteq ToSet(list)' /\ IsInjective(list)'
    <3>1. CASE m \in ToSet(list)
      BY <1>1, <3>1 DEF Associate, TypeOK
    <3>2. CASE m \notin ToSet(list)
      BY <1>1, <3>2, ListGrows DEF Associate, TypeOK
    <3> QED BY <3>1, <3>2
  <2> QED BY <1>1, <2>1 DEF Associate, TypeOK, NamedInv, wires, attaching, detacher
<1>2. ASSUME NEW m \in MAC, Disassociate(m) PROVE TypeInv'
  BY <1>2 DEF Disassociate, TypeOK, NamedInv, wires, attaching, detacher
<1>3. ASSUME NEW m \in MAC, Forget(m) PROVE TypeInv'
  <2>1. PICK i \in DOMAIN list : list[i] = m /\ list' = RemoveAt(list, i)
    BY <1>3 DEF Forget
  <2>2. list' \in Seq(MAC) /\ IsInjective(list)' /\ ToSet(list)' = ToSet(list) \ {m}
    BY <2>1, ListShrinks DEF TypeOK
  <2>3. assoc' \subseteq ToSet(list)'
    BY <1>3, <2>2 DEF Forget, TypeOK
  <2> QED BY <1>3, <2>2, <2>3, HinderedTyped
          DEF Forget, TypeOK, NamedInv, wires, attaching, detacher
<1>4. CASE Announce
  <2>1. PICK k \in {"event", "odd"} : answers' = Append(answers, Says(k))
    BY <1>4 DEF Announce
  <2>2. Says(k) \in Answer /\ Says(k).kind # "station"
    BY SaysTyped DEF AnswerKind
  <2> QED BY <1>4, <2>1, <2>2, AppendedAnswer DEF Announce, TypeOK, hostapd, listing, attaching, detacher
<1>5. CASE Terminate
  <2>1. answers' \in Seq(Answer) /\ NamedInv'
    <3>1. Says("terminating") \in Answer /\ Says("terminating").kind # "station"
      BY SaysTyped DEF AnswerKind
    <3>2. CASE listener
      BY <1>5, <3>1, <3>2, AppendedAnswer DEF Terminate, TypeOK
    <3>3. CASE ~listener
      BY <1>5, <3>3 DEF Terminate, TypeOK, NamedInv
    <3> QED BY <3>2, <3>3
  <2>2. requests' \in Seq(Request)
    BY <1>5 DEF Terminate
  <2>3. trouble' \subseteq {"forgot", "missing", "stale"}
    BY <1>5, HinderedTyped DEF Terminate
  <2> QED BY ZenonT(60), <1>5, <2>1, <2>2, <2>3 DEF Terminate, TypeOK, attaching, detacher
<1>6. CASE Late
  <2>1. requests' \in Seq(Request)
    BY <1>6, DisownRequests DEF Late, TypeOK
  <2> QED BY <1>6, <2>1, HinderedTyped DEF Late, TypeOK, NamedInv, hostapd, attaching, detacher
<1>7. CASE Stations
  <2>1. assoc \subseteq MAC
    BY DEF TypeOK
  <2>2. op' \in Op /\ trouble' \subseteq {"forgot", "missing", "stale"}
    BY <1>7 DEF Stations, Op, Command
  <2> QED BY <1>7, <2>1, <2>2 DEF Stations, TypeOK, NamedInv, hostapd, wires, attaching, detacher
<1>8. CASE Cancel
  BY <1>8 DEF Cancel, TypeOK, NamedInv, hostapd, wires, listing, detacher
<1>9. CASE Serve
  <2> DEFINE r == Head(requests)
  <2>1. r \in Request /\ requests' \in Seq(Request)
    BY <1>9, RestOfTail DEF Serve, TypeOK
  <2>2. \A kind \in {"unknown"} : [Says(kind) EXCEPT !.own = r.own] \in Answer
    BY <2>1 DEF Says, Answer, AnswerKind, Request
  <2>3. /\ [AnswerTo(r) EXCEPT !.own = r.own] \in Answer
        /\ [AnswerTo(r) EXCEPT !.own = r.own].kind = "station" =>
              [AnswerTo(r) EXCEPT !.own = r.own].mac \in MAC
    BY ZenonT(60), <2>1, AnswerTyped DEF Answer, Request, TypeOK
  <2>4. answers' \in Seq(Answer) /\ NamedInv' /\ trouble' \subseteq {"forgot", "missing", "stale"}
    <3>1. CASE answers' = Append(answers, [AnswerTo(r) EXCEPT !.own = r.own]) /\ trouble' = trouble
      BY <3>1, <2>3, AppendedAnswer DEF TypeOK
    <3>2. CASE answers' = Append(answers, [Says("unknown") EXCEPT !.own = r.own])
               /\ Hindered("missing")
      <4>1. [Says("unknown") EXCEPT !.own = r.own].kind # "station"
        BY DEF Says
      <4> QED BY <3>2, <4>1, <2>2, AppendedAnswer, HinderedTyped DEF TypeOK
    <3>3. CASE answers' = answers /\ Hindered("missing")
      BY <3>3, HinderedTyped DEF TypeOK, NamedInv
    <3> QED BY <1>9, <3>1, <3>2, <3>3 DEF Serve
  <2> QED BY ZenonT(60), <1>9, <2>1, <2>4 DEF Serve, TypeOK, attaching, detacher
<1>10. CASE Send
  <2>1. [cmd |-> op, mac |-> at, own |-> TRUE] \in Request
    BY <1>10 DEF Send, Request, TypeOK
  <2>2. requests' \in Seq(Request)
    BY <1>10, <2>1, EndOfAppend DEF Send, TypeOK
  <2> QED BY <1>10, <2>2 DEF Send, TypeOK, NamedInv, hostapd, listing, detacher
<1>11. CASE SendFails
  BY <1>11, EndTyped DEF SendFails, TypeOK, NamedInv, hostapd, wires, attaching, detacher
<1>12. CASE Timeout
  BY ZenonT(60), <1>12, EndTyped DEF Timeout, TypeOK, NamedInv, hostapd, wires, attaching, detacher
<1>13. CASE ReadExpected
  <2>1. op \in {"ping", "status", "attach"}
    <3>1. Expected(Head(answers).kind) /\ Head(answers).kind \in {"pong", "status", "ok"}
      BY <1>13 DEF ReadExpected, Reads
    <3> QED BY <3>1 DEF Expected
  <2>2. op' \in Op
    BY <1>13, <2>1 DEF ReadExpected, Op, Command
  <2>3. det' \in [Caller -> DetStep]
    BY <1>13 DEF ReadExpected, TypeOK, DetStep
  <2>4. Reads({"pong", "status", "ok"}) /\ UNCHANGED <<at, listing, deadline, detached, closed>>
    BY <1>13 DEF ReadExpected
  <2>5. /\ requests' \in Seq(Request) /\ answers' \in Seq(Answer) /\ NamedInv' /\ sent' = FALSE
        /\ UNCHANGED <<role, hostapd, slow, open, cancelled, lifted, outcome>>
    BY <2>4, ReadTyped
  <2>6. op' # "next" /\ at' = None
    BY <1>13, <2>1, <2>4 DEF ReadExpected, TypeOK
  <2> QED BY ZenonT(60), <2>2, <2>3, <2>4, <2>5, <2>6 DEF TypeOK, hostapd, listing
<1>14. CASE ReadStation
  <2>1. Head(answers).mac \in MAC
    <3>1. Reads({"station"}) /\ Head(answers).kind = "station"
      BY <1>14 DEF ReadStation, Reads
    <3> QED BY <3>1, ReadTyped
  <2>2. found' \subseteq MAC /\ at' \in MAC /\ at' # None /\ op' = "next" /\ op' \in Op
    BY <1>14, <2>1, NoneAssumption DEF ReadStation, TypeOK, Op, Command
  <2> QED BY ZenonT(60), <1>14, <2>2, ReadTyped DEF ReadStation, TypeOK, hostapd, detacher
<1>15. ASSUME NEW kinds, Reads(kinds), FailsUnparsed \/ Fails \/ Ends(TRUE, found),
              UNCHANGED <<deadline, detacher>>
       PROVE  TypeInv'
  BY ZenonT(60), <1>15, ReadTyped, EndTyped DEF TypeOK, hostapd, detacher
<1>16. CASE ReadEnd
  BY <1>16, <1>15 DEF ReadEnd
<1>17. CASE ReadUnknown
  BY <1>17, <1>15 DEF ReadUnknown
<1>18. CASE ReadOther
  BY <1>18, <1>15 DEF ReadOther
<1>19. CASE UnsetReadDeadline
  <2>1. lifted' \in BOOLEAN /\ op' \in Op
    BY <1>19 DEF UnsetReadDeadline, Op
  <2> QED BY ZenonT(60), <1>19, <2>1 DEF UnsetReadDeadline, TypeOK, NamedInv, hostapd, wires, listing, detacher
<1>20. CASE ReadMessage
  <2>1. answers' \in Seq(Answer) /\ NamedInv'
    <3>1. answers \in Seq(Answer) /\ answers # <<>> /\ answers' = Tail(answers)
      BY <1>20 DEF ReadMessage, TypeOK
    <3> QED BY <3>1, RestOfTail DEF NamedInv
  <2>2. /\ op' \in Op /\ outcome' \in Outcome
        /\ det' \in [Caller -> DetStep]
    BY <1>20 DEF ReadMessage, Leaves, TypeOK, Op, Outcome, DetStep, Caller
  <2>3. op' # "next" /\ at' = None
    BY <1>20 DEF ReadMessage, Leaves, TypeOK
  <2> QED BY ZenonT(60), <1>20, <2>1, <2>2, <2>3 DEF ReadMessage, TypeOK, hostapd, listing
<1>21. CASE ReadTimeout
  BY <1>21 DEF ReadTimeout, Leaves, TypeOK, NamedInv, hostapd, wires, listing, Op, Outcome, DetStep, Caller
<1>22. CASE DeferredDetachDone
  BY <1>22 DEF DeferredDetachDone, TypeOK, NamedInv, hostapd, wires, listing, attaching, detacher, Op
<1>23. CASE CloseConn
  BY ZenonT(60), <1>23 DEF CloseConn, TypeOK, NamedInv, hostapd, wires, listing, detacher, Op
<1>24. CASE Wake
  BY <1>24 DEF Wake, DetGoes, TypeOK, NamedInv, hostapd, wires, listing, DetStep, Caller
<1>25. ASSUME NEW c \in Caller, DetLock(c) PROVE TypeInv'
  BY <1>25 DEF DetLock, DetGoes, TypeOK, NamedInv, hostapd, wires, listing, DetStep
<1>26. ASSUME NEW c \in Caller, DetWrite(c) PROVE TypeInv'
  <2>1. [cmd |-> "detach", mac |-> None, own |-> TRUE] \in Request
    BY DEF Request
  <2>2. requests' \in Seq(Request)
    BY <1>26, <2>1, EndOfAppend DEF DetWrite, TypeOK
  <2> QED BY <1>26, <2>2 DEF DetWrite, DetGoes, TypeOK, NamedInv, hostapd, listing, DetStep
<1>27. ASSUME NEW c \in Caller, DetArm(c) PROVE TypeInv'
  BY <1>27 DEF DetArm, DetGoes, TypeOK, NamedInv, hostapd, wires, listing, DetStep
<1>28. ASSUME NEW c \in Caller, DetClose(c) PROVE TypeInv'
  BY <1>28 DEF DetClose, DetGoes, TypeOK, NamedInv, hostapd, wires, listing, DetStep
<1>29. CASE UNCHANGED vars
  BY <1>29 DEF vars, TypeOK, NamedInv, hostapd, wires, listing, attaching, detacher
<1> QED
  BY <1>1, <1>2, <1>3, <1>4, <1>5, <1>6, <1>7, <1>8, <1>9, <1>10, <1>11, <1>12, <1>13, <1>14,
     <1>16, <1>17, <1>18, <1>19, <1>20, <1>21, <1>22, <1>23, <1>24, <1>25, <1>26, <1>27, <1>28, <1>29
  DEF Next, EnvNext, ClientNext, DetNext

\* The sockets, the list of stations and the detacher hold what they should.
THEOREM CtrlTyped == Spec => []TypeOK
<1>1. TypeInv => TypeOK
  BY DEF TypeInv
<1> QED BY TypeInit, TypeNext, <1>1, PTL DEF Spec

------------------------------------------------------------------------------
(* What is under way                                                       *)

LEMMA RequestAppended ==
  ASSUME TypeInv, NEW r \in Request, requests' = Append(requests, r)
  PROVE  \A cmd \in Command \union {"detach"} : Asked(cmd)' <=> Asked(cmd) \/ r.cmd = cmd
<1>1. requests \in Seq(Request)
  BY DEF TypeInv, TypeOK
<1>2. /\ DOMAIN requests' = 1..(Len(requests) + 1)
      /\ \A i \in 1..Len(requests) : requests'[i] = requests[i]
      /\ requests'[Len(requests) + 1] = r
  BY <1>1, EndOfAppend
<1>3. DOMAIN requests = 1..Len(requests) /\ Len(requests) \in Nat
  BY <1>1
<1> QED BY <1>2, <1>3 DEF Asked

LEMMA RequestServed ==
  ASSUME TypeInv, requests # <<>>, requests' = Tail(requests)
  PROVE  \A cmd \in Command \union {"detach"} :
            /\ Asked(cmd)' => Asked(cmd)
            /\ Asked(cmd) => Asked(cmd)' \/ Head(requests).cmd = cmd
<1>1. requests \in Seq(Request)
  BY DEF TypeInv, TypeOK
<1>2. /\ Head(requests) = requests[1] /\ DOMAIN requests' = 1..(Len(requests) - 1)
      /\ \A i \in DOMAIN requests' : i + 1 \in DOMAIN requests /\ requests'[i] = requests[i + 1]
  BY <1>1, RestOfTail
<1>3. ASSUME NEW i \in DOMAIN requests, i # 1
      PROVE  i - 1 \in DOMAIN requests' /\ requests'[i - 1] = requests[i]
  BY <1>1, <1>2, <1>3
<1> QED BY <1>2, <1>3 DEF Asked

LEMMA RequestsDisowned ==
  ASSUME TypeInv, requests' = Disown(requests)
  PROVE  \A cmd \in Command \union {"detach"} : Asked(cmd)' <=> Asked(cmd)
  BY DisownRequests DEF Asked, TypeInv, TypeOK

LEMMA AnswerAppended ==
  ASSUME TypeInv, NEW a \in Answer, answers' = Append(answers, a)
  PROVE  Answered("ok")' <=> Answered("ok") \/ a.kind = "ok"
<1>1. answers \in Seq(Answer)
  BY DEF TypeInv, TypeOK
<1>2. /\ DOMAIN answers' = 1..(Len(answers) + 1)
      /\ \A i \in 1..Len(answers) : answers'[i] = answers[i]
      /\ answers'[Len(answers) + 1] = a
  BY <1>1, EndOfAppend
<1>3. DOMAIN answers = 1..Len(answers) /\ Len(answers) \in Nat
  BY <1>1
<1> QED BY <1>2, <1>3 DEF Answered

LEMMA AnswerTaken ==
  ASSUME TypeInv, answers # <<>>, answers' = Tail(answers) \/ answers' = Disown(Tail(answers))
  PROVE  /\ Answered("ok")' => Answered("ok")
         /\ Len(answers') = Len(answers) - 1 /\ Len(answers) > 0
         /\ DOMAIN answers' = 1..(Len(answers) - 1)
         /\ \A i \in DOMAIN answers' : i + 1 \in DOMAIN answers /\ answers'[i].kind = answers[i + 1].kind
         /\ Head(answers) = answers[1] /\ 1 \in DOMAIN answers
<1>1. answers \in Seq(Answer)
  BY DEF TypeInv, TypeOK
<1>2. /\ Tail(answers) \in Seq(Answer) /\ Len(Tail(answers)) = Len(answers) - 1
      /\ DOMAIN Tail(answers) = 1..(Len(answers) - 1)
      /\ \A i \in DOMAIN Tail(answers) :
            i + 1 \in DOMAIN answers /\ Tail(answers)[i] = answers[i + 1]
      /\ Head(answers) = answers[1] /\ 1 \in DOMAIN answers
  BY <1>1, RestOfTail
<1>3. /\ Len(answers') = Len(Tail(answers)) /\ DOMAIN answers' = DOMAIN Tail(answers)
      /\ \A i \in DOMAIN answers' : answers'[i].kind = Tail(answers)[i].kind
  <2>1. CASE answers' = Tail(answers)
    BY <2>1
  <2>2. CASE answers' = Disown(Tail(answers))
    BY <1>2, <2>2, DisownAnswers
  <2> QED BY <2>1, <2>2
<1>4. Len(answers) > 0
  BY <1>1
<1> QED BY <1>2, <1>3, <1>4 DEF Answered

\* What hostapd makes of the request it serves.
LEMMA ServeAnswers ==
  ASSUME TypeInv, Serve
  PROVE  /\ Head(requests) \in Request /\ requests # <<>> /\ requests' = Tail(requests)
         /\ \/ answers' = answers
            \/ \E a \in Answer : /\ answers' = Append(answers, a)
                                 /\ a.own = Head(requests).own
                                 /\ a.kind = "ok" => Head(requests).cmd \in {"attach", "detach"}
<1> DEFINE r == Head(requests)
<1>1. r \in Request
  BY RestOfTail DEF Serve, TypeInv, TypeOK
<1>2. /\ [AnswerTo(r) EXCEPT !.own = r.own] \in Answer
      /\ [AnswerTo(r) EXCEPT !.own = r.own].own = r.own
      /\ [AnswerTo(r) EXCEPT !.own = r.own].kind = "ok" => r.cmd \in {"attach", "detach"}
  BY ZenonT(60), <1>1, AnswerTyped DEF Answer, Request, TypeInv, TypeOK
<1>3. /\ [Says("unknown") EXCEPT !.own = r.own] \in Answer
      /\ [Says("unknown") EXCEPT !.own = r.own].own = r.own
      /\ [Says("unknown") EXCEPT !.own = r.own].kind # "ok"
  BY <1>1 DEF Says, Answer, AnswerKind, Request
<1> QED BY <1>1, <1>2, <1>3 DEF Serve

------------------------------------------------------------------------------
(* Commands and answers                                                    *)

LEMMA SentNext == SentInv /\ [Next]_vars => SentInv'
<1> SUFFICES ASSUME SentInv, [Next]_vars PROVE SentInv'
  OBVIOUS
<1> USE DEF SentInv
<1>1. CASE UNCHANGED <<op, sent>>
  BY <1>1
<1>2. CASE sent' = FALSE
  BY <1>2
<1>3. CASE Send
  BY <1>3 DEF Send
<1>4. CASE SendFails
  BY <1>4 DEF SendFails
<1>5. CASE op \notin Command /\ sent' = sent
  BY <1>5
<1>6. ASSUME NEW m \in MAC, Associate(m) \/ Disassociate(m) \/ Forget(m)
      PROVE  UNCHANGED <<op, sent>>
  BY <1>6 DEF Associate, Disassociate, Forget
<1>7. ASSUME NEW c \in Caller, DetNext(c)
      PROVE  UNCHANGED <<op, sent>>
  BY <1>7 DEF DetNext, DetLock, DetWrite, DetArm, DetClose
<1>8. Announce \/ Terminate \/ Late \/ Cancel \/ Serve \/ Wake \/ UNCHANGED vars
      => UNCHANGED <<op, sent>>
  BY DEF Announce, Terminate, Late, Cancel, Serve, Wake, vars
<1>9. Timeout \/ ReadExpected \/ ReadStation \/ ReadEnd \/ ReadUnknown \/ ReadOther
      => sent' = FALSE
  BY DEF Timeout, ReadExpected, ReadStation, ReadEnd, ReadUnknown, ReadOther, Reads
<1>10. Stations \/ UnsetReadDeadline \/ ReadMessage \/ ReadTimeout \/ DeferredDetachDone \/ CloseConn
      => op \notin Command /\ sent' = sent
  BY DEF Stations, UnsetReadDeadline, ReadMessage, ReadTimeout, DeferredDetachDone, CloseConn, Command
<1> QED
  BY <1>1, <1>2, <1>3, <1>4, <1>5, <1>6, <1>7, <1>8, <1>9, <1>10 DEF Next, EnvNext, ClientNext

LEMMA MainInit == Init => SentInv /\ MainInv
  BY DEF Init, SentInv, MainInv, Asked

\* A connection keeps the role that it was made for.
LEMMA RoleKept == [Next]_vars => role' = role
<1>1. EnvNext \/ Serve => role' = role
  BY DEF EnvNext, Associate, Disassociate, Forget, Announce, Terminate, Late, Stations, Cancel, Serve
<1>2. ClientNext => role' = role
  BY DEF ClientNext, Send, SendFails, Timeout, ReadExpected, ReadStation, ReadEnd, ReadUnknown,
         ReadOther, Reads, UnsetReadDeadline, ReadMessage, ReadTimeout, DeferredDetachDone, CloseConn
<1>3. Wake \/ (\E c \in Caller : DetNext(c)) => role' = role
  BY DEF DetNext, Wake, DetLock, DetWrite, DetArm, DetClose
<1> QED BY <1>1, <1>2, <1>3 DEF Next, vars

LEMMA MainNext == TypeInv /\ SentInv /\ MainInv /\ [Next]_vars => MainInv'
<1> SUFFICES ASSUME TypeInv, SentInv, MainInv, [Next]_vars, role = "main"
             PROVE  MainInv'
  BY RoleKept DEF MainInv
<1> DEFINE Places == {"ping", "status", "idle", "first", "next", "shut", "ended"}
<1>20. /\ op \in Places /\ ~listener /\ ~Asked("attach") /\ \A c \in Caller : det[c] = "none"
       /\ ~slow => /\ Len(requests) + Len(answers) <= IF sent THEN 1 ELSE 0
                   /\ \A i \in DOMAIN requests : requests[i].own
                   /\ \A i \in DOMAIN answers : answers[i].own
  BY DEF MainInv
<1>21. /\ requests \in Seq(Request) /\ Len(requests) \in Nat
       /\ answers \in Seq(Answer) /\ Len(answers) \in Nat
  BY DEF TypeInv, TypeOK
<1>1. ASSUME op' \in Places, sent' = sent, UNCHANGED <<listener, wires, det, slow>>
      PROVE  MainInv'
  BY <1>1, <1>20 DEF MainInv, Asked, wires
<1>2. ASSUME NEW m \in MAC, Associate(m) \/ Disassociate(m) \/ Forget(m) PROVE MainInv'
  BY <1>2, <1>1, <1>20 DEF Associate, Disassociate, Forget, attaching, detacher
<1>3. CASE Cancel \/ Stations \/ UNCHANGED vars
  BY <1>3, <1>1, <1>20 DEF Cancel, Stations, vars, hostapd, attaching, detacher
<1>4. CASE SendFails \/ CloseConn
  BY <1>4, <1>1, <1>20 DEF SendFails, CloseConn, FailsUnparsed, Fails, Ends, Busy, hostapd, attaching, detacher
<1>5. ~(Announce \/ Wake \/ UnsetReadDeadline \/ ReadMessage \/ ReadTimeout \/ DeferredDetachDone)
  BY <1>20 DEF Announce, Wake, UnsetReadDeadline, ReadMessage, ReadTimeout, DeferredDetachDone, Caller
<1>6. ASSUME NEW c \in Caller PROVE ~DetNext(c)
  BY <1>20 DEF DetNext, DetLock, DetWrite, DetArm, DetClose
<1>7. CASE Terminate
  BY <1>7, <1>20, <1>21 DEF Terminate, MainInv, Asked, attaching, detacher
<1>8. CASE Late
  BY <1>8, <1>20, RequestsDisowned DEF Late, MainInv, hostapd, attaching, detacher, Command
<1>9. CASE Serve
  <2>1. /\ Head(requests) \in Request /\ requests # <<>> /\ requests' = Tail(requests)
        /\ \/ answers' = answers
           \/ \E a \in Answer : answers' = Append(answers, a) /\ a.own = Head(requests).own
    BY <1>9, ServeAnswers
  <2>2. ~Asked("attach")'
    BY <2>1, <1>20, RequestServed DEF Command
  <2>3. Head(requests) = requests[1] /\ 1 \in DOMAIN requests /\ Len(requests) > 0
    BY <2>1, <1>21, RestOfTail
  <2>4. Head(requests).cmd # "attach"
    BY <2>3, <1>20 DEF Asked
  <2>5. ~listener'
    BY <1>9, <2>4, <1>20 DEF Serve
  <2>6. ASSUME ~slow
        PROVE  /\ Len(requests') + Len(answers') <= 1 /\ sent
               /\ \A i \in DOMAIN requests' : requests'[i].own
               /\ \A i \in DOMAIN answers' : answers'[i].own
    <3>0. Head(requests).own
      BY <2>3, <2>6, <1>20
    <3>1. sent /\ Len(requests) = 1 /\ Len(answers) = 0
      <4>1. Len(requests) + Len(answers) <= IF sent THEN 1 ELSE 0
        BY <2>6, <1>20
      <4>2. sent
        BY <4>1, <2>3, <1>21
      <4>3. Len(requests) + Len(answers) <= 1
        BY <4>1
      <4>4. Len(requests) \in Nat /\ Len(answers) \in Nat /\ Len(requests) > 0
        BY <2>3, <1>21
      <4> QED BY <4>2, <4>3, <4>4, OneOfTwo
    <3>2. Len(requests') = 0 /\ DOMAIN requests' = {}
      BY <3>1, <2>1, <1>21, RestOfTail
    <3>3. CASE answers' = answers
      BY <3>1, <3>2, <3>3, <1>20
    <3>4. ASSUME NEW a \in Answer, answers' = Append(answers, a), a.own = Head(requests).own
          PROVE  Len(answers') = 1 /\ \A i \in DOMAIN answers' : answers'[i].own
      BY <3>0, <3>1, <3>4, <1>21, EndOfAppend
    <3> QED BY <2>1, <3>1, <3>2, <3>3, <3>4
  <2> QED BY <1>9, <1>20, <2>2, <2>5, <2>6 DEF MainInv, Serve, attaching, detacher
<1>10. CASE Send
  <2>1. [cmd |-> op, mac |-> at, own |-> TRUE] \in Request
    BY <1>10 DEF Send, Request, TypeInv, TypeOK
  <2>2. ~Asked("attach")'
    BY <1>10, <2>1, <1>20, RequestAppended DEF Send, Command
  <2>3. ASSUME ~slow
        PROVE  /\ Len(requests') + Len(answers') <= 1
               /\ \A i \in DOMAIN requests' : requests'[i].own
               /\ \A i \in DOMAIN answers' : answers'[i].own
    <3>1. Len(requests) = 0 /\ Len(answers) = 0 /\ answers' = answers
      BY <1>10, <2>3, <1>20, <1>21 DEF Send
    <3>2. requests' = Append(requests, [cmd |-> op, mac |-> at, own |-> TRUE])
      BY <1>10 DEF Send
    <3> QED BY <3>1, <3>2, <2>1, <2>3, <1>20, <1>21, EndOfAppend
  <2> QED BY <1>10, <2>2, <2>3, <1>20 DEF MainInv, Send, hostapd, detacher
<1>11. CASE Timeout
  <2>1. op' \in Places /\ sent' = FALSE /\ UNCHANGED <<listener, wires, det, slow>>
    BY <1>11, <1>20 DEF Timeout, FailsUnparsed, Fails, Ends, Busy, hostapd, attaching, detacher
  <2>2. ASSUME ~slow PROVE Len(requests) + Len(answers) <= 0
    <3>1. DOMAIN requests = {} /\ answers = <<>>
      BY <1>11, <2>2, <1>20 DEF Timeout
    <3> QED BY <3>1, <1>21
  <2> QED BY <2>1, <2>2, <1>20 DEF MainInv, Asked, wires
<1>12. ASSUME NEW kinds, Reads(kinds), op' \in Places, det' = det
       PROVE  MainInv'
  <2>1. ~Asked("attach")'
    BY <1>12, <1>20, RequestsDisowned DEF Reads, Command
  <2>2. /\ Len(requests') = Len(requests)
        /\ Len(answers') = Len(answers) - 1 /\ Len(answers) > 0
    BY <1>12, <1>21, DisownRequests, AnswerTaken DEF Reads
  <2>3. requests' \in Seq(Request) /\ answers' \in Seq(Answer)
    BY <1>12, ReadTyped
  <2>4. ASSUME ~slow
        PROVE  /\ Len(requests') + Len(answers') <= 0
               /\ DOMAIN requests' = {} /\ DOMAIN answers' = {}
    BY <2>2, <2>3, <2>4, <1>20, <1>21
  <2> QED BY <1>12, <2>1, <2>4, <1>20 DEF MainInv, Reads, hostapd
<1>13. CASE ReadExpected
  <2>1. Reads({"pong", "status", "ok"}) /\ Expected(Head(answers).kind)
    BY <1>13 DEF ReadExpected
  <2>2. op \in {"ping", "status"}
    <3>1. Head(answers).kind \in {"pong", "status", "ok"}
      BY <2>1 DEF Reads
    <3> QED BY <2>1, <3>1, <1>20 DEF Expected
  <2>3. op' \in Places /\ det' = det
    BY <1>13, <2>2 DEF ReadExpected
  <2> QED BY <2>1, <2>3, <1>12
<1>14. CASE ReadStation
  <2>1. Reads({"station"}) /\ op' \in Places /\ det' = det
    BY <1>14 DEF ReadStation, detacher
  <2> QED BY <2>1, <1>12
<1>15. ASSUME NEW kinds, Reads(kinds), FailsUnparsed \/ Fails \/ Ends(TRUE, found), det' = det
       PROVE  MainInv'
  <2>1. op' \in Places
    BY <1>15 DEF FailsUnparsed, Fails, Ends
  <2> QED BY <1>15, <2>1, <1>12
<1>16. CASE ReadEnd \/ ReadUnknown \/ ReadOther
  BY <1>16, <1>15 DEF ReadEnd, ReadUnknown, ReadOther, detacher
<1> QED
  BY <1>2, <1>3, <1>4, <1>5, <1>6, <1>7, <1>8, <1>9, <1>10, <1>11, <1>13, <1>14, <1>16
  DEF Next, EnvNext, ClientNext

------------------------------------------------------------------------------
(* The detacher                                                            *)

LEMMA PlaceInit == Init => PlaceInv /\ AttachInv /\ MutexInv /\ WrittenInv /\ StopInv
  BY DEF Init, PlaceInv, AttachInv, MutexInv, WrittenInv, StopInv, StopsOnRequest, Asked, Answered,
         Command, Caller, Inside

\* How a step may change what is asked for.
LEMMA AskedNext ==
  ASSUME TypeInv, [Next]_vars
  PROVE  \A cmd \in Command \union {"detach"} : Asked(cmd)' =>
            \/ Asked(cmd)
            \/ Send /\ op = cmd
            \/ cmd = "detach" /\ \E c \in Caller : DetWrite(c)
<1> DEFINE Goal == \A cmd \in Command \union {"detach"} : Asked(cmd)' =>
            \/ Asked(cmd)
            \/ Send /\ op = cmd
            \/ cmd = "detach" /\ \E c \in Caller : DetWrite(c)
<1>1. CASE UNCHANGED requests
  BY <1>1 DEF Asked
<1>2. CASE Terminate
  BY <1>2 DEF Terminate, Asked
<1>3. CASE requests' = Disown(requests)
  BY <1>3, RequestsDisowned
<1>4. CASE Serve
  BY <1>4, ServeAnswers, RequestServed
<1>5. CASE Send
  <2>1. [cmd |-> op, mac |-> at, own |-> TRUE] \in Request
    BY <1>5 DEF Send, Request, TypeInv, TypeOK
  <2> QED BY <1>5, <2>1, RequestAppended DEF Send
<1>6. ASSUME NEW c \in Caller, DetWrite(c) PROVE Goal
  <2>1. [cmd |-> "detach", mac |-> None, own |-> TRUE] \in Request
    BY DEF Request
  <2>2. CASE requests' = Append(requests, [cmd |-> "detach", mac |-> None, own |-> TRUE])
    BY <1>6, <2>1, <2>2, RequestAppended
  <2> QED BY <1>6, <1>1, <2>2 DEF DetWrite
<1>7. ASSUME NEW m \in MAC, Associate(m) \/ Disassociate(m) \/ Forget(m) PROVE UNCHANGED requests
  BY <1>7 DEF Associate, Disassociate, Forget, wires
<1>8. ASSUME NEW c \in Caller, DetLock(c) \/ DetArm(c) \/ DetClose(c) PROVE UNCHANGED requests
  BY <1>8 DEF DetLock, DetArm, DetClose, wires
<1>9. Announce \/ Stations \/ Cancel \/ SendFails \/ Timeout \/ UnsetReadDeadline \/ ReadMessage
      \/ ReadTimeout \/ DeferredDetachDone \/ CloseConn \/ Wake \/ UNCHANGED vars
      => UNCHANGED requests
  BY DEF Announce, Stations, Cancel, SendFails, Timeout, UnsetReadDeadline, ReadMessage,
         ReadTimeout, DeferredDetachDone, CloseConn, Wake, vars, wires
<1>10. Late \/ ReadExpected \/ ReadStation \/ ReadEnd \/ ReadUnknown \/ ReadOther
      => requests' = Disown(requests)
  BY DEF Late, ReadExpected, ReadStation, ReadEnd, ReadUnknown, ReadOther, Reads
<1> QED
  BY <1>1, <1>2, <1>3, <1>4, <1>5, <1>6, <1>7, <1>8, <1>9, <1>10
  DEF Next, EnvNext, ClientNext, DetNext

\* Steps after which the loop and both callers of the detacher are where they were.
Still == UNCHANGED <<op, sent, open, deadline, cancelled, det, detached, outcome>>

LEMMA StillSteps ==
  ASSUME [Next]_vars
  PROVE  \/ Still
         \/ Stations \/ Cancel \/ Send \/ SendFails \/ Timeout
         \/ ReadExpected \/ ReadStation \/ ReadEnd \/ ReadUnknown \/ ReadOther
         \/ UnsetReadDeadline \/ ReadMessage \/ ReadTimeout \/ DeferredDetachDone \/ CloseConn
         \/ Wake \/ \E c \in Caller : DetNext(c)
<1>1. ASSUME NEW m \in MAC, Associate(m) \/ Disassociate(m) \/ Forget(m) PROVE Still
  BY <1>1 DEF Associate, Disassociate, Forget, Still, attaching, detacher
<1>2. Announce \/ Terminate \/ Late \/ Serve \/ UNCHANGED vars => Still
  BY DEF Announce, Terminate, Late, Serve, vars, Still, attaching, detacher
<1> QED BY <1>1, <1>2 DEF Next, EnvNext, ClientNext

\* What a command leaves alone that fails, whatever it was.
LEMMA FailsPlace ==
  ASSUME op \in Command, FailsUnparsed \/ Fails \/ Ends(TRUE, found)
  PROVE  op' \in {"idle", "shut"}
  BY DEF FailsUnparsed, Fails, Ends

LEMMA ReadsPlace ==
  ASSUME ReadStation \/ ReadEnd \/ ReadUnknown \/ ReadOther \/ Timeout \/ SendFails
  PROVE  /\ op \in Command /\ op' \in {"idle", "shut", "next"}
         /\ UNCHANGED <<open, cancelled, det, detached, outcome>>
<1>1. CASE ReadStation
  BY <1>1 DEF ReadStation, Reads, detacher
<1>2. ASSUME NEW kinds, Reads(kinds), FailsUnparsed \/ Fails \/ Ends(TRUE, found),
             UNCHANGED <<deadline, detacher>>
      PROVE  /\ op \in Command /\ op' \in {"idle", "shut", "next"}
             /\ UNCHANGED <<open, cancelled, det, detached, outcome>>
  BY <1>2, FailsPlace DEF Reads, detacher
<1>3. CASE ReadEnd \/ ReadUnknown \/ ReadOther
  BY <1>3, <1>2 DEF ReadEnd, ReadUnknown, ReadOther
<1>4. CASE Timeout \/ SendFails
  BY <1>4, FailsPlace DEF Timeout, SendFails, attaching, detacher
<1> QED BY <1>1, <1>3, <1>4

\* ReadExpected starts the goroutine that waits for the context, after ATTACH.
LEMMA ExpectedPlace ==
  ASSUME TypeInv, ReadExpected
  PROVE  /\ \/ op \in {"ping", "status"} /\ op' \in {"status", "attach", "idle"} /\ det' = det
            \/ op = "attach" /\ op' = "unset" /\ det' = [det EXCEPT !["cancel"] = "wait"]
               /\ Head(answers).kind = "ok"
         /\ UNCHANGED <<open, deadline, cancelled, detached, outcome>> /\ sent' = FALSE
<1>1. Expected(Head(answers).kind) /\ Head(answers).kind \in {"pong", "status", "ok"}
  BY DEF ReadExpected, Reads
<1>2. op \in {"ping", "status", "attach"} /\ (op = "attach" => Head(answers).kind = "ok")
  BY <1>1 DEF Expected
<1>3. UNCHANGED <<open, deadline, cancelled, detached, outcome>> /\ sent' = FALSE
  BY DEF ReadExpected, Reads
<1>4. /\ op = "attach" => op' = "unset" /\ det' = [det EXCEPT !["cancel"] = "wait"]
      /\ op # "attach" => det' = det /\ op' \in {"status", "attach", "idle"}
  BY <1>2 DEF ReadExpected
<1> QED BY <1>2, <1>3, <1>4

LEMMA PlaceNext == TypeInv /\ PlaceInv /\ [Next]_vars => PlaceInv'
<1> SUFFICES ASSUME TypeInv, PlaceInv, [Next]_vars PROVE PlaceInv'
  OBVIOUS
<1>1. det \in [Caller -> DetStep] /\ "cancel" \in Caller /\ "loop" \in Caller /\ "cancel" # "loop"
  BY DEF TypeInv, TypeOK, Caller
<1>2. Asked("detach")' => Asked("detach") \/ \E c \in Caller : det[c] = "write"
  BY AskedNext DEF Send, DetWrite, Command
<1>3. Asked("detach")' => det["cancel"] # "none"
  BY <1>1, <1>2 DEF PlaceInv, Caller
<1>4. CASE Still
  BY <1>3, <1>4 DEF Still, PlaceInv
<1>5. CASE Stations \/ Cancel \/ Send
  BY <1>3, <1>5 DEF PlaceInv, Stations, Cancel, Send, attaching, detacher, Command
<1>6. CASE ReadStation \/ ReadEnd \/ ReadUnknown \/ ReadOther \/ Timeout \/ SendFails
  <2>1. /\ op \in Command /\ op' \in {"idle", "shut", "next"}
        /\ UNCHANGED <<open, cancelled, det, detached, outcome>>
    BY <1>6, ReadsPlace
  <2> QED BY <1>3, <2>1 DEF PlaceInv, Command
<1>7. CASE ReadExpected
  BY <1>1, <1>3, <1>7, ExpectedPlace DEF PlaceInv, Command
<1>8. CASE UnsetReadDeadline \/ DeferredDetachDone \/ CloseConn
  BY <1>3, <1>8 DEF PlaceInv, UnsetReadDeadline, DeferredDetachDone, CloseConn, attaching, detacher, Command
<1>9. CASE ReadMessage \/ ReadTimeout
  <2>1. op = "read" /\ UNCHANGED <<open, detached>>
    BY <1>9 DEF ReadMessage, ReadTimeout
  <2>2. \/ UNCHANGED <<op, det>>
        \/ op' = "detach" /\ det' = [det EXCEPT !["loop"] = "lock"]
    BY <1>9 DEF ReadMessage, ReadTimeout, Leaves
  <2> QED BY <1>1, <1>3, <2>1, <2>2 DEF PlaceInv, Command
<1>10. CASE Wake
  BY <1>1, <1>3, <1>10 DEF PlaceInv, Wake, DetGoes, Command
<1>11. ASSUME NEW c \in Caller, DetNext(c) PROVE PlaceInv'
  <2>1. /\ det[c] \in {"lock", "write", "arm", "close"} /\ UNCHANGED <<op, open>>
        /\ \E s \in {"write", "arm", "close", "done"} : det' = [det EXCEPT ![c] = s]
    BY <1>11 DEF DetNext, DetLock, DetWrite, DetArm, DetClose, DetGoes
  <2>2. det["cancel"] # "none" /\ det'["cancel"] # "none" /\ (c = "loop" => op \notin {"unset", "read"})
    BY <1>1, <2>1 DEF PlaceInv, Caller
  <2>3. c = "loop" => op \notin {"shut", "ended"}
    BY <1>1, <2>1, <2>2 DEF PlaceInv
  <2>4. c # "loop" => det'["loop"] = det["loop"]
    BY <1>1, <2>1
  <2> QED BY <2>1, <2>2, <2>3, <2>4 DEF PlaceInv
<1> QED BY <1>4, <1>5, <1>6, <1>7, <1>8, <1>9, <1>10, <1>11, StillSteps

\* How a step may change what is answered.
LEMMA AnsweredNext ==
  ASSUME TypeInv, [Next]_vars
  PROVE  Answered("ok")' =>
            Answered("ok") \/ (Serve /\ (Asked("attach") \/ Asked("detach")))
<1>1. CASE UNCHANGED answers
  BY <1>1 DEF Answered
<1>2. CASE answers # <<>> /\ (answers' = Tail(answers) \/ answers' = Disown(Tail(answers)))
  BY <1>2, AnswerTaken
<1>3. ASSUME NEW k \in AnswerKind \ {"ok"}, answers' = Append(answers, Says(k))
      PROVE  Answered("ok")' => Answered("ok")
  BY <1>3, SaysTyped, AnswerAppended
<1>4. CASE Serve
  <2>1. CASE answers' = answers
    BY <2>1, <1>1
  <2>2. ASSUME NEW a \in Answer, answers' = Append(answers, a),
               a.kind = "ok" => Head(requests).cmd \in {"attach", "detach"}
        PROVE  Answered("ok")' => Answered("ok") \/ Asked("attach") \/ Asked("detach")
    <3>1. Answered("ok")' => Answered("ok") \/ a.kind = "ok"
      BY <2>2, AnswerAppended
    <3>2. Head(requests) = requests[1] /\ 1 \in DOMAIN requests
      BY <1>4, RestOfTail DEF Serve, TypeInv, TypeOK
    <3> QED BY <2>2, <3>1, <3>2 DEF Asked
  <2> QED BY <1>4, <2>1, <2>2, ServeAnswers
<1>5. CASE Announce
  <2>1. PICK k \in {"event", "odd"} : answers' = Append(answers, Says(k))
    BY <1>5 DEF Announce
  <2> QED BY <1>3, <2>1 DEF AnswerKind
<1>6. CASE Terminate
  <2>1. UNCHANGED answers \/ answers' = Append(answers, Says("terminating"))
    BY <1>6 DEF Terminate
  <2> QED BY <1>1, <1>3, <2>1 DEF AnswerKind
<1>7. ASSUME NEW m \in MAC, Associate(m) \/ Disassociate(m) \/ Forget(m) PROVE UNCHANGED answers
  BY <1>7 DEF Associate, Disassociate, Forget, wires
<1>8. ASSUME NEW c \in Caller, DetNext(c) PROVE UNCHANGED answers
  BY <1>8 DEF DetNext, DetLock, DetWrite, DetArm, DetClose, wires
<1>9. Late \/ Stations \/ Cancel \/ Send \/ SendFails \/ Timeout \/ UnsetReadDeadline
      \/ ReadTimeout \/ DeferredDetachDone \/ CloseConn \/ Wake \/ UNCHANGED vars
      => UNCHANGED answers
  BY DEF Late, Stations, Cancel, Send, SendFails, Timeout, UnsetReadDeadline,
         ReadTimeout, DeferredDetachDone, CloseConn, Wake, vars, wires
<1>10. ReadExpected \/ ReadStation \/ ReadEnd \/ ReadUnknown \/ ReadOther \/ ReadMessage
      => answers # <<>> /\ (answers' = Tail(answers) \/ answers' = Disown(Tail(answers)))
  BY DEF ReadExpected, ReadStation, ReadEnd, ReadUnknown, ReadOther, ReadMessage, Reads
<1> QED
  BY <1>1, <1>2, <1>4, <1>5, <1>6, <1>7, <1>8, <1>9, <1>10 DEF Next, EnvNext, ClientNext

\* Whatever is asked for once is asked for once after it was disowned or another
\* request was served, and so with answers.
OneAttach == \A i, j \in DOMAIN requests :
    requests[i].cmd = "attach" /\ requests[j].cmd = "attach" => i = j
OneOk == \A i, j \in DOMAIN answers : answers[i].kind = "ok" /\ answers[j].kind = "ok" => i = j

LEMMA OneAttachNext ==
  ASSUME TypeInv, AttachInv, [Next]_vars
  PROVE  OneAttach'
<1>1. CASE UNCHANGED requests \/ requests' = <<>>
  BY <1>1 DEF OneAttach, AttachInv
<1>2. CASE requests' = Disown(requests)
  BY <1>2, DisownRequests DEF OneAttach, AttachInv, TypeInv, TypeOK
<1>3. CASE requests # <<>> /\ requests' = Tail(requests)
  <2>1. \A i \in DOMAIN requests' : i \in Nat /\ i + 1 \in DOMAIN requests /\ requests'[i] = requests[i + 1]
    BY <1>3, RestOfTail DEF TypeInv, TypeOK
  <2>2. ASSUME NEW i \in DOMAIN requests', NEW j \in DOMAIN requests',
               requests'[i].cmd = "attach", requests'[j].cmd = "attach"
        PROVE  i = j
    <3>1. i \in Nat /\ j \in Nat /\ i + 1 = j + 1
      BY <2>1, <2>2 DEF AttachInv
    <3> QED BY <3>1
  <2> QED BY <2>2 DEF OneAttach
<1>4. ASSUME NEW r \in Request, requests' = Append(requests, r), r.cmd = "attach" => ~Asked("attach")
      PROVE  OneAttach'
  <2>1. /\ DOMAIN requests' = 1..(Len(requests) + 1) /\ Len(requests) \in Nat
        /\ \A i \in 1..Len(requests) : requests'[i] = requests[i]
        /\ requests'[Len(requests) + 1] = r
        /\ DOMAIN requests = 1..Len(requests)
    BY <1>4, EndOfAppend DEF TypeInv, TypeOK
  <2>2. CASE r.cmd = "attach"
    BY <1>4, <2>1, <2>2 DEF OneAttach, Asked
  <2>3. CASE r.cmd # "attach"
    BY <2>1, <2>3 DEF OneAttach, AttachInv
  <2> QED BY <2>2, <2>3
<1>5. CASE Send
  <2>1. [cmd |-> op, mac |-> at, own |-> TRUE] \in Request
    BY <1>5 DEF Send, Request, TypeInv, TypeOK
  <2> QED BY <1>4, <1>5, <2>1 DEF Send, AttachInv
<1>6. ASSUME NEW c \in Caller, DetWrite(c) PROVE OneAttach'
  <2>1. [cmd |-> "detach", mac |-> None, own |-> TRUE] \in Request
    BY DEF Request
  <2>2. \/ requests' = Append(requests, [cmd |-> "detach", mac |-> None, own |-> TRUE])
        \/ UNCHANGED requests
    BY <1>6 DEF DetWrite
  <2> QED BY <1>1, <1>4, <2>1, <2>2
<1>7. ASSUME NEW m \in MAC, Associate(m) \/ Disassociate(m) \/ Forget(m) PROVE UNCHANGED requests
  BY <1>7 DEF Associate, Disassociate, Forget, wires
<1>8. ASSUME NEW c \in Caller, DetLock(c) \/ DetArm(c) \/ DetClose(c) PROVE UNCHANGED requests
  BY <1>8 DEF DetLock, DetArm, DetClose, wires
<1>9. Announce \/ Stations \/ Cancel \/ SendFails \/ Timeout \/ UnsetReadDeadline \/ ReadMessage
      \/ ReadTimeout \/ DeferredDetachDone \/ CloseConn \/ Wake \/ UNCHANGED vars
      => UNCHANGED requests
  BY DEF Announce, Stations, Cancel, SendFails, Timeout, UnsetReadDeadline, ReadMessage,
         ReadTimeout, DeferredDetachDone, CloseConn, Wake, vars, wires
<1>10. Late \/ ReadExpected \/ ReadStation \/ ReadEnd \/ ReadUnknown \/ ReadOther
      => requests' = Disown(requests)
  BY DEF Late, ReadExpected, ReadStation, ReadEnd, ReadUnknown, ReadOther, Reads
<1>11. /\ Terminate => requests' = <<>>
       /\ Serve => requests # <<>> /\ requests' = Tail(requests)
  BY DEF Terminate, Serve
<1> QED
  BY <1>1, <1>2, <1>3, <1>5, <1>6, <1>7, <1>8, <1>9, <1>10, <1>11 DEF Next, EnvNext, ClientNext, DetNext

LEMMA OneOkNext ==
  ASSUME TypeInv, AttachInv, PlaceInv, op = "attach", op' = "attach", [Next]_vars
  PROVE  OneOk'
<1>1. OneOk /\ ~Asked("detach")
  BY DEF AttachInv, OneOk, PlaceInv, Command
<1>2. CASE UNCHANGED answers
  BY <1>1, <1>2 DEF OneOk
<1>3. ASSUME NEW a \in Answer, answers' = Append(answers, a), a.kind = "ok" => ~Answered("ok")
      PROVE  OneOk'
  <2>1. /\ DOMAIN answers' = 1..(Len(answers) + 1) /\ Len(answers) \in Nat
        /\ \A i \in 1..Len(answers) : answers'[i] = answers[i]
        /\ answers'[Len(answers) + 1] = a
        /\ DOMAIN answers = 1..Len(answers)
    BY <1>3, EndOfAppend DEF TypeInv, TypeOK
  <2>2. CASE a.kind = "ok"
    BY <1>3, <2>1, <2>2 DEF OneOk, Answered
  <2>3. CASE a.kind # "ok"
    BY <1>1, <2>1, <2>3 DEF OneOk
  <2> QED BY <2>2, <2>3
<1>4. CASE Serve
  <2>1. ASSUME NEW a \in Answer, answers' = Append(answers, a),
               a.kind = "ok" => Head(requests).cmd \in {"attach", "detach"}
        PROVE  OneOk'
    <3>1. Head(requests) = requests[1] /\ 1 \in DOMAIN requests
      BY <1>4, RestOfTail DEF Serve, TypeInv, TypeOK
    <3>2. a.kind = "ok" => Asked("attach")
      BY <1>1, <2>1, <3>1 DEF Asked
    <3> QED BY <1>3, <2>1, <3>2 DEF AttachInv
  <2> QED BY <1>2, <1>4, <2>1, ServeAnswers
<1>5. ASSUME NEW k \in AnswerKind \ {"ok"}, answers' = Append(answers, Says(k)) PROVE OneOk'
  BY <1>3, <1>5, SaysTyped
<1>6. CASE Announce
  <2>1. PICK k \in {"event", "odd"} : answers' = Append(answers, Says(k))
    BY <1>6 DEF Announce
  <2> QED BY <1>5, <2>1 DEF AnswerKind
<1>7. CASE Terminate
  <2>1. UNCHANGED answers \/ answers' = Append(answers, Says("terminating"))
    BY <1>7 DEF Terminate
  <2> QED BY <1>2, <1>5, <2>1 DEF AnswerKind
<1>8. ASSUME NEW m \in MAC, Associate(m) \/ Disassociate(m) \/ Forget(m) PROVE UNCHANGED answers
  BY <1>8 DEF Associate, Disassociate, Forget, wires
<1>9. ASSUME NEW c \in Caller, DetNext(c) PROVE UNCHANGED answers
  BY <1>9 DEF DetNext, DetLock, DetWrite, DetArm, DetClose, wires
<1>10. Late \/ Stations \/ Cancel \/ Send \/ Wake \/ UNCHANGED vars
      => UNCHANGED answers
  BY DEF Late, Stations, Cancel, Send, Wake, vars, wires
<1>11. ~(SendFails \/ Timeout \/ ReadStation \/ ReadEnd \/ ReadUnknown \/ ReadOther \/ ReadExpected)
  BY ReadsPlace, ExpectedPlace
<1>12. ~(UnsetReadDeadline \/ ReadMessage \/ ReadTimeout \/ DeferredDetachDone \/ CloseConn)
  BY DEF UnsetReadDeadline, ReadTimeout, ReadMessage, DeferredDetachDone, CloseConn
<1> QED
  BY <1>2, <1>4, <1>6, <1>7, <1>8, <1>9, <1>10, <1>11, <1>12 DEF Next, EnvNext, ClientNext

\* The steps of the loop, as far as ATTACH goes: nothing leads back before it.
LEMMA AttachPlace ==
  ASSUME TypeInv, PlaceInv, [Next]_vars
  PROVE  LET Before == (Command \ {"attach"}) \union {"idle"} IN
         /\ op' \in Before => op \in Before
         /\ op' = "attach" /\ ~sent' => op \in Before \/ (op = "attach" /\ ~sent)
         /\ op' = "attach" => op \in {"attach", "ping"}
         /\ det'["cancel"] # "none" => det["cancel"] # "none" \/ (op = "attach" /\ Answered("ok"))
<1>1. det \in [Caller -> DetStep] /\ "cancel" \in Caller
  BY DEF TypeInv, TypeOK, Caller
<1>2. CASE Still
  BY <1>2 DEF Still
<1>3. CASE Stations \/ Cancel \/ Send
  BY <1>3 DEF Stations, Cancel, Send, Command, attaching, detacher
<1>4. CASE SendFails \/ Timeout
  <2>1. op \in Command /\ op' \in {"idle", "shut"} /\ UNCHANGED det
        /\ (op' = "idle" => op \in {"first", "next"})
    BY <1>4 DEF SendFails, Timeout, FailsUnparsed, Fails, Ends, Busy, attaching, detacher
  <2> QED BY <2>1 DEF Command
<1>5. ASSUME NEW kinds, Reads(kinds), FailsUnparsed \/ Fails \/ (Busy /\ Ends(TRUE, found)),
             UNCHANGED detacher
      PROVE  op' \in {"idle", "shut"} /\ UNCHANGED det /\ (op' = "idle" => op \in {"first", "next"})
  BY <1>5 DEF FailsUnparsed, Fails, Ends, Busy, detacher
<1>6. CASE ReadEnd \/ ReadUnknown \/ ReadOther
  <2>1. op' \in {"idle", "shut"} /\ UNCHANGED det /\ (op' = "idle" => op \in {"first", "next"})
    BY <1>5, <1>6 DEF ReadEnd, ReadUnknown, ReadOther
  <2> QED BY <2>1 DEF Command
<1>7. CASE ReadStation
  BY <1>7 DEF ReadStation, Busy, detacher, Command
<1>8. CASE ReadExpected
  <2>1. Head(answers).kind = "ok" => Answered("ok")
    BY <1>8, AnswerTaken DEF ReadExpected, Reads, Answered
  <2>2. op' = "attach" => op = "ping"
    BY <1>8, ExpectedPlace DEF ReadExpected
  <2> QED BY <1>1, <1>8, <2>1, <2>2, ExpectedPlace DEF Command
<1>9. CASE UnsetReadDeadline \/ DeferredDetachDone \/ CloseConn
  BY <1>9 DEF UnsetReadDeadline, DeferredDetachDone, CloseConn, Command, attaching, detacher
<1>10. CASE ReadMessage \/ ReadTimeout
  <2>1. op = "read" /\ op' \in {"read", "detach"} /\ det["cancel"] # "none"
    BY <1>10 DEF ReadMessage, ReadTimeout, Leaves, PlaceInv
  <2> QED BY <2>1 DEF Command
<1>11. CASE Wake
  BY <1>11 DEF Wake
<1>12. ASSUME NEW c \in Caller, DetNext(c)
       PROVE  UNCHANGED <<op, sent>> /\ det["cancel"] # "none"
  BY <1>12 DEF DetNext, DetLock, DetWrite, DetArm, DetClose, PlaceInv, Caller
<1> QED BY <1>2, <1>3, <1>4, <1>6, <1>7, <1>8, <1>9, <1>10, <1>11, <1>12, StillSteps

LEMMA AttachInvNext == TypeInv /\ PlaceInv /\ AttachInv /\ [Next]_vars => AttachInv'
<1> SUFFICES ASSUME TypeInv, PlaceInv, AttachInv, [Next]_vars PROVE AttachInv'
  OBVIOUS
<1> DEFINE Before == (Command \ {"attach"}) \union {"idle"}
<1>1. /\ op' \in Before => op \in Before
      /\ op' = "attach" /\ ~sent' => op \in Before \/ (op = "attach" /\ ~sent)
      /\ op' = "attach" => op \in {"attach", "ping"}
      /\ det'["cancel"] # "none" => det["cancel"] # "none" \/ (op = "attach" /\ Answered("ok"))
  BY AttachPlace
<1>2. Asked("attach")' => Asked("attach") \/ (Send /\ op = "attach")
  BY AskedNext DEF Command
<1>3. Answered("ok")' => Answered("ok") \/ (Serve /\ (Asked("attach") \/ Asked("detach")))
  BY AnsweredNext
<1>4. ASSUME op \in Before \/ (op = "attach" /\ ~sent)
      PROVE  ~Asked("attach") /\ ~Answered("ok") /\ ~Answered("ok")'
  <2>1. ~Asked("attach") /\ ~Answered("ok")
    BY <1>4 DEF AttachInv
  <2>2. ~Asked("detach")
    BY <1>4 DEF PlaceInv, Command
  <2> QED BY <2>1, <2>2, <1>3
<1>5. op' \in Before => ~Asked("attach")' /\ ~Answered("ok")'
  <2> SUFFICES ASSUME op' \in Before PROVE ~Asked("attach")' /\ ~Answered("ok")'
    OBVIOUS
  <2> QED BY <1>1, <1>2, <1>4 DEF Command
<1>6. op' = "attach" /\ ~sent' => ~Asked("attach")' /\ ~Answered("ok")'
  <2>1. Send => sent'
    BY DEF Send
  <2> QED BY <1>1, <1>2, <1>4, <2>1
<1>7. Answered("ok")' \/ det'["cancel"] # "none" => ~Asked("attach")'
  <2>1. CASE Send /\ op = "attach"
    <3>1. det["cancel"] = "none" /\ UNCHANGED det
      BY <2>1 DEF Send, PlaceInv, Command, detacher
    <3>2. ~sent
      BY <2>1 DEF Send
    <3> QED BY <2>1, <3>1, <3>2, <1>4
  <2>2. CASE Serve
    <3>1. requests # <<>> /\ requests' = Tail(requests)
      BY <2>2, ServeAnswers
    <3>2. CASE Head(requests).cmd = "attach"
      <4>1. ASSUME NEW i \in DOMAIN requests' PROVE requests'[i].cmd # "attach"
        <5>1. /\ i + 1 \in DOMAIN requests /\ requests'[i] = requests[i + 1] /\ i \in 1..(Len(requests) - 1)
              /\ 1 \in DOMAIN requests /\ requests[1].cmd = "attach"
          BY <3>1, <3>2, RestOfTail DEF TypeInv, TypeOK
        <5>2. i + 1 # 1
          BY <5>1
        <5> QED BY <5>1, <5>2 DEF AttachInv
      <4> QED BY <4>1 DEF Asked
    <3>3. CASE Head(requests).cmd # "attach"
      <4>1. Asked("attach")' => Asked("attach")
        BY <3>1, RequestServed DEF Command
      <4>2. Asked("attach") => ~Answered("ok") /\ ~Asked("detach") /\ det["cancel"] = "none"
        BY DEF AttachInv, PlaceInv
      <4>3. UNCHANGED det
        BY <2>2 DEF Serve, attaching, detacher
      <4>4. Asked("attach") => ~Answered("ok")'
        <5>1. Head(requests) = requests[1] /\ 1 \in DOMAIN requests /\ Head(requests) \in Request
          BY <3>1, RestOfTail DEF TypeInv, TypeOK
        <5>2. Asked("attach") => Head(requests).cmd \notin {"attach", "detach"}
          BY <3>3, <4>2, <5>1 DEF Asked
        <5>3. \/ answers' = answers
              \/ \E a \in Answer : /\ answers' = Append(answers, a)
                                   /\ a.kind = "ok" => Head(requests).cmd \in {"attach", "detach"}
          BY <2>2, ServeAnswers
        <5>4. CASE answers' = answers
          BY <4>2, <5>4 DEF Answered
        <5>5. ASSUME NEW a \in Answer, answers' = Append(answers, a),
                     a.kind = "ok" => Head(requests).cmd \in {"attach", "detach"}
              PROVE  Asked("attach") => ~Answered("ok")'
          BY <4>2, <5>2, <5>5, AnswerAppended
        <5> QED BY <5>3, <5>4, <5>5
      <4> QED BY <4>1, <4>2, <4>3, <4>4
    <3> QED BY <3>2, <3>3
  <2>3. CASE ~Serve /\ ~(Send /\ op = "attach")
    BY <2>3, <1>1, <1>2, <1>3 DEF AttachInv
  <2> QED BY <2>1, <2>2, <2>3
<1>8. op' = "attach" => OneOk'
  <2>1. CASE op = "attach"
    BY <2>1, OneOkNext
  <2>2. CASE op = "ping"
    BY <2>2, <1>4 DEF OneOk, Answered, Command
  <2> QED BY <1>1, <2>1, <2>2
<1> QED BY <1>5, <1>6, <1>7, <1>8, OneAttachNext DEF AttachInv, OneAttach, OneOk

LEMMA MutexNext == TypeInv /\ MutexInv /\ [Next]_vars => MutexInv'
<1> SUFFICES ASSUME TypeInv, MutexInv, [Next]_vars PROVE MutexInv'
  OBVIOUS
<1>1. det \in [Caller -> DetStep] /\ detached \in BOOLEAN
  BY DEF TypeInv, TypeOK
<1>2. CASE UNCHANGED <<det, detached>>
  BY <1>2 DEF MutexInv
<1>3. ASSUME NEW c \in Caller, NEW s \in {"wait", "lock"},
             det' = [det EXCEPT ![c] = s], detached' = detached
      PROVE  MutexInv'
  BY <1>1, <1>3 DEF MutexInv, Inside
<1>4. CASE Stations \/ Cancel \/ Send \/ UnsetReadDeadline \/ DeferredDetachDone \/ CloseConn
  BY <1>2, <1>4 DEF Stations, Cancel, Send, UnsetReadDeadline, DeferredDetachDone, CloseConn,
                    attaching, detacher
<1>5. CASE ReadStation \/ ReadEnd \/ ReadUnknown \/ ReadOther \/ Timeout \/ SendFails
  BY <1>2, <1>5, ReadsPlace
<1>6. CASE ReadExpected
  BY <1>2, <1>3, <1>6, ExpectedPlace DEF Caller
<1>7. CASE ReadMessage \/ ReadTimeout
  <2>1. detached' = detached /\ (det' = det \/ det' = [det EXCEPT !["loop"] = "lock"])
    BY <1>7 DEF ReadMessage, ReadTimeout, Leaves
  <2> QED BY <1>2, <1>3, <2>1 DEF Caller
<1>8. CASE Wake
  BY <1>3, <1>8 DEF Wake, DetGoes, Caller
<1>9. ASSUME NEW c \in Caller, DetLock(c) PROVE MutexInv'
  <2>1. \A o \in Caller : det[o] \notin Inside
    BY <1>9 DEF DetLock, Inside
  <2>2. detached' /\ \A o \in Caller \ {c} : det'[o] = det[o]
    BY <1>1, <1>9 DEF DetLock, DetGoes
  <2>3. CASE detached
    <3>1. det'[c] = "done"
      BY <1>1, <1>9, <2>3 DEF DetLock, DetGoes
    <3> QED BY <2>1, <2>2, <3>1 DEF MutexInv, Inside
  <2>4. CASE ~detached
    <3>1. det'[c] = "write"
      BY <1>1, <1>9, <2>4 DEF DetLock, DetGoes
    <3>2. \A o \in Caller : det[o] \notin Inside \union {"done"}
      BY <2>4 DEF MutexInv
    <3> QED BY <2>2, <3>1, <3>2 DEF MutexInv, Inside
  <2> QED BY <2>3, <2>4
<1>10. ASSUME NEW c \in Caller, DetWrite(c) \/ DetArm(c) \/ DetClose(c) PROVE MutexInv'
  <2>1. det[c] \in Inside /\ detached' = detached
    BY <1>10 DEF DetWrite, DetArm, DetClose, Inside
  <2>2. det'[c] \in {"arm", "close", "done"} /\ \A o \in Caller \ {c} : det'[o] = det[o]
    BY <1>1, <1>10 DEF DetWrite, DetArm, DetClose, DetGoes
  <2>3. detached /\ \A o \in Caller \ {c} : det[o] \notin Inside \union {"done"}
    BY <2>1 DEF MutexInv
  <2> QED BY <2>1, <2>2, <2>3 DEF MutexInv, Inside
<1>11. CASE Still
  BY <1>2, <1>11 DEF Still
<1> QED BY <1>4, <1>5, <1>6, <1>7, <1>8, <1>9, <1>10, <1>11, StillSteps DEF DetNext

\* A caller that has written DETACH, once the other one cannot write it any more.
Wrote == detached /\ \A c \in Caller : det[c] # "write"

LEMMA WrittenNext ==
  ASSUME TypeInv, PlaceInv, AttachInv, MutexInv, WrittenInv, [Next]_vars
  PROVE  WrittenInv'
<1>1. det \in [Caller -> DetStep] /\ detached \in BOOLEAN
  BY DEF TypeInv, TypeOK
<1>2. ASSUME up' = up, listener' = listener, requests' = requests \/ requests' = Disown(requests)
                 \/ Send,
             Wrote' => Wrote
      PROVE  WrittenInv'
  <2>1. Asked("detach") => Asked("detach")'
    <3>1. CASE requests' = requests
      BY <3>1 DEF Asked
    <3>2. CASE requests' = Disown(requests)
      BY <3>2, RequestsDisowned
    <3>3. CASE Send
      <4>1. [cmd |-> op, mac |-> at, own |-> TRUE] \in Request
        BY <3>3 DEF Send, Request, TypeInv, TypeOK
      <4> QED BY <3>3, <4>1, RequestAppended DEF Send
    <3> QED BY <1>2, <3>1, <3>2, <3>3
  <2> QED BY <1>2, <2>1 DEF WrittenInv, Wrote
<1>3. ASSUME NEW c \in Caller, NEW s \in {"wait", "lock"},
             det' = [det EXCEPT ![c] = s], detached' = detached, det[c] # "write"
      PROVE  Wrote' => Wrote
  BY <1>1, <1>3 DEF Wrote
<1>4. CASE Stations \/ Cancel \/ Send \/ UnsetReadDeadline \/ DeferredDetachDone \/ CloseConn
  BY <1>2, <1>4 DEF Stations, Cancel, Send, UnsetReadDeadline, DeferredDetachDone, CloseConn,
                    attaching, detacher, hostapd, wires, Wrote
<1>5. CASE ReadStation \/ ReadEnd \/ ReadUnknown \/ ReadOther \/ Timeout \/ SendFails
  <2>1. UNCHANGED <<det, detached>>
    BY <1>5, ReadsPlace
  <2>2. UNCHANGED <<up, listener>> /\ (requests' = requests \/ requests' = Disown(requests))
    BY <1>5 DEF ReadStation, ReadEnd, ReadUnknown, ReadOther, Reads, Timeout, SendFails, hostapd, wires
  <2> QED BY <1>2, <2>1, <2>2 DEF Wrote
<1>6. CASE ReadExpected
  <2>1. UNCHANGED <<up, listener>> /\ requests' = Disown(requests)
    BY <1>6 DEF ReadExpected, Reads, hostapd
  <2>2. op = "attach" => det["cancel"] = "none"
    BY DEF PlaceInv, Command
  <2>3. Wrote' => Wrote
    <3>1. CASE det' = det
      BY <1>6, <3>1, ExpectedPlace DEF Wrote
    <3>2. CASE op = "attach" /\ det' = [det EXCEPT !["cancel"] = "wait"]
      BY <1>3, <1>6, <2>2, <3>2, ExpectedPlace DEF Caller
    <3> QED BY <1>6, <3>1, <3>2, ExpectedPlace
  <2> QED BY <1>2, <2>1, <2>3
<1>7. CASE ReadMessage \/ ReadTimeout
  <2>1. /\ detached' = detached /\ (det' = det \/ det' = [det EXCEPT !["loop"] = "lock"])
        /\ op = "read"
    BY <1>7 DEF ReadMessage, ReadTimeout, Leaves
  <2>2. det["loop"] = "none"
    BY <2>1 DEF PlaceInv
  <2>3. UNCHANGED <<up, listener, requests>>
    BY <1>7 DEF ReadMessage, ReadTimeout, hostapd, wires
  <2>4. Wrote' => Wrote
    <3>1. CASE det' = det
      BY <2>1, <3>1 DEF Wrote
    <3>2. CASE det' = [det EXCEPT !["loop"] = "lock"]
      BY <1>3, <2>1, <2>2, <3>2 DEF Caller
    <3> QED BY <2>1, <3>1, <3>2
  <2> QED BY <1>2, <2>3, <2>4
<1>8. CASE Wake
  <2>1. det["cancel"] = "wait" /\ det' = [det EXCEPT !["cancel"] = "lock"] /\ detached' = detached
        /\ UNCHANGED <<up, listener, requests>>
    BY <1>8 DEF Wake, DetGoes, hostapd, wires
  <2> QED BY <1>2, <1>3, <2>1 DEF Caller
<1>9. ASSUME NEW c \in Caller, DetLock(c) PROVE WrittenInv'
  <2>1. /\ \A o \in Caller : det[o] # "write"
        /\ det'[c] = IF detached THEN "done" ELSE "write"
        /\ UNCHANGED <<up, listener, requests>>
    BY <1>1, <1>9 DEF DetLock, DetGoes, hostapd, wires
  <2>2. Wrote' => Wrote
    BY <2>1 DEF Wrote
  <2> QED BY <1>2, <2>1, <2>2
<1>10. ASSUME NEW c \in Caller, DetWrite(c) PROVE WrittenInv'
  <2>1. det[c] = "write" /\ UNCHANGED <<up, listener>>
    BY <1>10 DEF DetWrite, hostapd
  <2>2. open
    <3>1. det["cancel"] # "none"
      BY <2>1 DEF PlaceInv, Caller
    <3>2. CASE op = "ended"
      <4>1. det["loop"] = "done"
        BY <3>1, <3>2 DEF PlaceInv
      <4> QED BY <2>1, <4>1 DEF MutexInv, Inside, Caller
    <3> QED BY <3>2 DEF PlaceInv
  <2>3. CASE up
    <3>1. [cmd |-> "detach", mac |-> None, own |-> TRUE] \in Request
      BY DEF Request
    <3>2. requests' = Append(requests, [cmd |-> "detach", mac |-> None, own |-> TRUE])
      BY <1>10, <2>2, <2>3 DEF DetWrite
    <3>3. Asked("detach")'
      BY <3>1, <3>2, RequestAppended
    <3> QED BY <2>1, <2>3, <3>3 DEF WrittenInv
  <2>4. CASE ~up
    BY <2>1, <2>4 DEF WrittenInv
  <2> QED BY <2>3, <2>4
<1>11. ASSUME NEW c \in Caller, DetArm(c) \/ DetClose(c) PROVE WrittenInv'
  <2>1. /\ det[c] # "write" /\ detached' = detached /\ UNCHANGED <<up, listener, requests>>
        /\ \A o \in Caller \ {c} : det'[o] = det[o]
    BY <1>1, <1>11 DEF DetArm, DetClose, DetGoes, hostapd, wires
  <2>2. Wrote' => Wrote
    BY <2>1 DEF Wrote
  <2> QED BY <1>2, <2>1, <2>2
<1>12. CASE Serve
  <2>1. /\ requests # <<>> /\ requests' = Tail(requests) /\ Head(requests) \in Request
    BY <1>12, ServeAnswers
  <2>2. /\ up /\ up' /\ UNCHANGED <<det, detached>>
        /\ Head(requests).cmd = "detach" => ~listener'
        /\ Head(requests).cmd \notin {"attach", "detach"} => listener' = listener
    BY <1>12 DEF Serve, attaching, detacher
  <2>3. CASE Head(requests).cmd = "detach"
    BY <2>2, <2>3 DEF WrittenInv
  <2>4. CASE Head(requests).cmd = "attach"
    <3>1. Asked("attach")
      <4>1. Head(requests) = requests[1] /\ 1 \in DOMAIN requests
        BY <2>1, RestOfTail DEF TypeInv, TypeOK
      <4> QED BY <2>4, <4>1 DEF Asked
    <3>2. ~detached
      BY <3>1 DEF AttachInv, PlaceInv
    <3> QED BY <2>2, <3>2 DEF WrittenInv
  <2>5. CASE Head(requests).cmd \notin {"attach", "detach"}
    <3>1. Asked("detach") => Asked("detach")'
      BY <2>1, <2>5, RequestServed
    <3> QED BY <2>2, <2>5, <3>1 DEF WrittenInv
  <2> QED BY <2>3, <2>4, <2>5
<1>13. CASE Terminate
  BY <1>13 DEF Terminate, WrittenInv
<1>14. ASSUME NEW m \in MAC, Associate(m) \/ Disassociate(m) \/ Forget(m) PROVE WrittenInv'
  BY <1>2, <1>14 DEF Associate, Disassociate, Forget, wires, attaching, detacher, Wrote
<1>15. CASE Announce \/ Late \/ UNCHANGED vars
  <2>1. UNCHANGED <<up, listener, det, detached>> /\ (requests' = requests \/ requests' = Disown(requests))
    BY <1>15 DEF Announce, Late, vars, hostapd, wires, attaching, detacher
  <2> QED BY <1>2, <2>1 DEF Wrote
<1> QED
  BY <1>4, <1>5, <1>6, <1>7, <1>8, <1>9, <1>10, <1>11, <1>12, <1>13, <1>14, <1>15
  DEF Next, EnvNext, ClientNext, DetNext

\* What attach waits for, and who gave it a deadline: the steps of its wait.
LEMMA WaitPlace ==
  ASSUME TypeInv, PlaceInv, [Next]_vars
  PROVE  /\ cancelled => cancelled'
         /\ op' \in {"unset", "read"} => op \in {"unset", "read"} \/ (op = "attach" /\ ReadExpected)
         /\ op' = "read" /\ deadline' => \/ op = "read" /\ deadline
                                         \/ op = "read" /\ \E c \in Caller : DetArm(c)
         /\ outcome' # outcome => ReadMessage \/ ReadTimeout
         /\ det'["cancel"] \notin {"none", "wait"} =>
               det["cancel"] \notin {"none", "wait"} \/ cancelled
<1>1. det \in [Caller -> DetStep] /\ "cancel" \in Caller
  BY DEF TypeInv, TypeOK, Caller
<1>2. CASE Still
  BY <1>2 DEF Still
<1>3. CASE Stations \/ Cancel \/ Send
  BY <1>3 DEF Stations, Cancel, Send, Command, attaching, detacher
<1>4. CASE ReadStation \/ ReadEnd \/ ReadUnknown \/ ReadOther \/ Timeout \/ SendFails
  <2>1. op' \in {"idle", "shut", "next"} /\ UNCHANGED <<cancelled, det, outcome>>
    BY <1>4, ReadsPlace
  <2> QED BY <2>1
<1>5. CASE ReadExpected
  BY <1>1, <1>5, ExpectedPlace
<1>6. CASE UnsetReadDeadline \/ DeferredDetachDone \/ CloseConn
  BY <1>6 DEF UnsetReadDeadline, DeferredDetachDone, CloseConn, attaching, detacher
<1>7. CASE ReadMessage \/ ReadTimeout
  BY <1>1, <1>7 DEF ReadMessage, ReadTimeout, Leaves
<1>8. CASE Wake
  BY <1>1, <1>8 DEF Wake, DetGoes
<1>9. ASSUME NEW c \in Caller, DetNext(c)
      PROVE  /\ UNCHANGED <<cancelled, op, outcome>>
             /\ deadline' # deadline => DetArm(c)
             /\ det'["cancel"] \notin {"none", "wait"} => det["cancel"] \notin {"none", "wait"}
  BY <1>1, <1>9 DEF DetNext, DetLock, DetWrite, DetArm, DetClose, DetGoes
<1> QED BY <1>2, <1>3, <1>4, <1>5, <1>6, <1>7, <1>8, <1>9, StillSteps

\* Only the goroutine that waits for the context detaches while attach waits.
LEMMA OnlyCancelDetaches ==
  ASSUME TypeInv, PlaceInv, StopInv, op \in {"unset", "read"},
         NEW c \in Caller, det[c] \in Inside
  PROVE  cancelled
<1>1. c = "cancel"
  BY DEF PlaceInv, Caller, Inside
<1> QED BY <1>1 DEF StopInv, Inside

LEMMA StopNext ==
  ASSUME TypeInv, PlaceInv, AttachInv, StopInv, [Next]_vars
  PROVE  StopInv'
<1>1. /\ cancelled => cancelled'
      /\ op' \in {"unset", "read"} => op \in {"unset", "read"} \/ (op = "attach" /\ ReadExpected)
      /\ op' = "read" /\ deadline' => \/ op = "read" /\ deadline
                                      \/ op = "read" /\ \E c \in Caller : DetArm(c)
      /\ outcome' # outcome => ReadMessage \/ ReadTimeout
      /\ det'["cancel"] \notin {"none", "wait"} =>
            det["cancel"] \notin {"none", "wait"} \/ cancelled
  BY WaitPlace
<1>2. det'["cancel"] \notin {"none", "wait"} => cancelled'
  BY <1>1 DEF StopInv
<1>3. ASSUME op \in {"unset", "read"}, Asked("detach")' \/ Answered("ok")'
      PROVE  cancelled
  <2>1. CASE Asked("detach") \/ Answered("ok")
    BY <1>3, <2>1 DEF StopInv
  <2>2. ASSUME NEW c \in Caller, DetWrite(c) PROVE cancelled
    BY <1>3, <2>2, OnlyCancelDetaches DEF DetWrite, Inside
  <2>3. CASE Asked("detach")'
    BY <1>3, <2>1, <2>2, <2>3, AskedNext DEF Command
  <2>4. CASE Answered("ok")'
    <3>1. ~Asked("attach")
      BY <1>3 DEF PlaceInv, AttachInv
    <3> QED BY <2>1, <2>4, <3>1, AnsweredNext
  <2> QED BY <1>3, <2>3, <2>4
<1>4. ASSUME op = "attach", ReadExpected PROVE ~Asked("detach")' /\ ~Answered("ok")'
  <2>1. requests' = Disown(requests) /\ answers # <<>> /\ answers' = Disown(Tail(answers))
    BY <1>4 DEF ReadExpected, Reads
  <2>2. ~Asked("detach")'
    BY <1>4, <2>1, RequestsDisowned DEF PlaceInv, Command
  <2>3. Head(answers).kind = "ok"
    BY <1>4, ExpectedPlace
  <2>4. ASSUME NEW i \in DOMAIN answers' PROVE answers'[i].kind # "ok"
    <3>1. /\ i \in 1..(Len(answers) - 1) /\ i + 1 \in DOMAIN answers
          /\ answers'[i].kind = answers[i + 1].kind
          /\ 1 \in DOMAIN answers /\ answers[1].kind = "ok"
      BY <2>1, <2>3, AnswerTaken
    <3>2. i + 1 # 1
      BY <3>1
    <3> QED BY <1>4, <3>1, <3>2 DEF AttachInv
  <2> QED BY <2>2, <2>4 DEF Answered
<1>5. op' \in {"unset", "read"} /\ (Asked("detach")' \/ Answered("ok")') => cancelled'
  BY <1>1, <1>3, <1>4
<1>6. ASSUME op' = "read", deadline' PROVE cancelled'
  <2>1. ASSUME NEW c \in Caller, DetArm(c), op = "read" PROVE cancelled
    BY <2>1, OnlyCancelDetaches DEF DetArm, Inside
  <2>2. CASE op = "read" /\ deadline
    BY <1>1, <2>2 DEF StopInv
  <2> QED BY <1>1, <1>6, <2>1, <2>2
<1>7. StopsOnRequest'
  <2>1. CASE outcome' = outcome
    BY <1>1, <2>1 DEF StopInv, StopsOnRequest
  <2>2. CASE ReadTimeout
    BY <1>1, <2>2 DEF ReadTimeout, StopInv, StopsOnRequest
  <2>3. CASE ReadMessage
    <3>1. op = "read" /\ (Head(answers).kind = "ok" => Answered("ok"))
      BY <2>3, AnswerTaken DEF ReadMessage, Answered
    <3>2. outcome' \in {"nil", "unexpected", "timeout"} => outcome' = outcome \/ Head(answers).kind = "ok"
      BY <2>3 DEF ReadMessage, Leaves
    <3> QED BY <1>1, <3>1, <3>2 DEF StopInv, StopsOnRequest
  <2> QED BY <1>1, <2>1, <2>2, <2>3
<1> QED BY <1>2, <1>5, <1>6, <1>7 DEF StopInv

------------------------------------------------------------------------------
(* How an ATTACH may end that attach never learns of.                      *)

LEMMA EarlyInit == Init => EarlyInv /\ ClosedInv
  BY DEF Init, EarlyInv, Early, ClosedInv, Asked, Answered

\* Steps that touch nothing EarlyInv speaks of.
Quiet == UNCHANGED <<op, sent, slow, listener, requests, answers, det>>

LEMMA EarlyQuiet == ASSUME EarlyInv, Quiet PROVE EarlyInv'
  BY DEF EarlyInv, Quiet, Early, Accepted, Asked, Answered

\* Once attach has read the OK, or while there is no ATTACH to speak of, nothing
\* is claimed.
LEMMA EarlyOver ==
  ASSUME op' \notin {"ping", "attach"}, op' \in {"shut", "ended"} => Accepted'
  PROVE  EarlyInv'
  BY DEF EarlyInv, Early

\* A command that fails leaves no ATTACH behind that an OK may still answer,
\* unless one was late.
LEMMA EarlyFails ==
  ASSUME TypeInv, PlaceInv, AttachInv, EarlyInv, op \in Command, UNCHANGED <<slow, det>>,
         op = "attach" /\ ~slow => ~Asked("attach") /\ ~Answered("ok"),
         Asked("attach")' => Asked("attach"), Answered("ok")' => Answered("ok"),
         op' \notin {"ping", "attach"}
  PROVE  EarlyInv'
<1>1. ~slow => ~Asked("attach") /\ ~Answered("ok")
  BY DEF AttachInv
<1> QED BY <1>1 DEF EarlyInv, Early

LEMMA EarlySends ==
  ASSUME TypeInv, SentInv, AttachInv, EarlyInv, Send
  PROVE  EarlyInv'
<1> DEFINE q == [cmd |-> op, mac |-> at, own |-> TRUE]
<1>1. /\ op \in Command /\ ~sent /\ sent' /\ op' = op
      /\ requests' = Append(requests, q)
      /\ UNCHANGED <<slow, listener, answers, det>>
  BY DEF Send, hostapd, detacher
<1>2. q \in Request /\ q.own = TRUE
  BY <1>1 DEF Request, TypeInv, TypeOK
<1> HIDE DEF q
<1>3. requests \in Seq(Request) /\ answers \in Seq(Answer)
  BY DEF TypeInv, TypeOK
<1>4. Len(requests') = Len(requests) + 1 /\ requests'[Len(requests) + 1] = q
  BY <1>1, <1>2, <1>3, EndOfAppend
<1>5. CASE op = "ping"
  <2>1. ~listener /\ (~slow => Len(requests) + Len(answers) <= 0)
    BY <1>1, <1>5 DEF EarlyInv, Early
  <2>2. ~slow => Len(requests') + Len(answers') <= 1
    BY <1>1, <1>3, <1>4, <2>1
  <2> QED BY <1>1, <1>5, <2>1, <2>2 DEF EarlyInv, Early
<1>6. CASE op = "attach"
  <2>1. ~listener /\ (~slow => Len(requests) + Len(answers) <= 0) /\ ~Answered("ok")
    BY <1>1, <1>6 DEF EarlyInv, Early, AttachInv
  <2>2. ~slow => Len(requests) = 0 /\ answers = <<>>
    BY <1>3, <2>1
  <2>3. ~slow => Len(requests') = 1 /\ answers' = <<>> /\ requests'[1].own
    BY <1>1, <1>2, <1>4, <2>2
  <2>4. ~Answered("ok")'
    BY <1>1, <2>1 DEF Answered
  <2> QED BY <1>1, <1>6, <2>1, <2>3, <2>4 DEF EarlyInv, Early
<1>7. CASE op \notin {"ping", "attach"}
  BY <1>1, <1>7, EarlyOver DEF Command
<1> QED BY <1>5, <1>6, <1>7

LEMMA EarlyServe ==
  ASSUME TypeInv, PlaceInv, AttachInv, EarlyInv, Serve
  PROVE  EarlyInv'
<1> DEFINE r == Head(requests)
<1>1. /\ r \in Request /\ requests # <<>> /\ requests' = Tail(requests)
      /\ \/ answers' = answers
         \/ \E a \in Answer : /\ answers' = Append(answers, a)
                              /\ a.kind = "ok" => r.cmd \in {"attach", "detach"}
  BY ServeAnswers
<1>2. /\ UNCHANGED <<op, sent, slow, det>>
      /\ r.cmd \notin {"attach", "detach"} => listener' = listener
  BY DEF Serve, attaching, detacher
<1>3. /\ requests \in Seq(Request) /\ answers \in Seq(Answer)
      /\ r = requests[1] /\ 1 \in DOMAIN requests /\ Len(requests') = Len(requests) - 1
  BY <1>1, RestOfTail DEF TypeInv, TypeOK
<1>4. /\ r.cmd = "attach" => Asked("attach")
      /\ r.cmd = "detach" => Asked("detach")
      /\ Asked("attach")' => Asked("attach")
  BY <1>1, <1>3, RequestServed DEF Asked, Command
<1> HIDE DEF r
<1>5. \/ answers' = answers
      \/ Len(answers') = Len(answers) + 1 /\ \A i \in 1..Len(answers) : answers'[i] = answers[i]
  BY <1>1, <1>3, EndOfAppend
<1>6. Answered("ok")' => Answered("ok") \/ r.cmd \in {"attach", "detach"}
  <2>1. CASE answers' = answers
    BY <2>1 DEF Answered
  <2>2. ASSUME NEW a \in Answer, answers' = Append(answers, a),
               a.kind = "ok" => r.cmd \in {"attach", "detach"}
        PROVE  Answered("ok")' => Answered("ok") \/ r.cmd \in {"attach", "detach"}
    BY <2>2, AnswerAppended
  <2> QED BY <1>1, <2>1, <2>2
<1>7. op \in {"ping", "attach"} => ~Asked("detach")
  BY DEF PlaceInv, Command
<1>8. Early => r.cmd \notin {"attach", "detach"}
  <2>1. Early => ~Asked("attach")
    BY DEF Early, AttachInv, Command
  <2> QED BY <1>4, <1>7, <2>1 DEF Early
<1>9. ASSUME Early'
      PROVE  ~listener' /\ (~slow' => Len(requests') + Len(answers') <= IF sent' THEN 1 ELSE 0)
  <2>1. Early
    BY <1>2, <1>9 DEF Early
  <2>2. Len(answers') = Len(answers) \/ Len(answers') = Len(answers) + 1
    BY <1>5
  <2>3. Len(requests') + Len(answers') <= Len(requests) + Len(answers)
    BY <1>3, <2>2
  <2>4. ~listener /\ (~slow => Len(requests) + Len(answers) <= IF sent THEN 1 ELSE 0)
    BY <2>1 DEF EarlyInv
  <2>5. \/ Len(requests) + Len(answers) <= 0 => Len(requests') + Len(answers') <= 0
        \/ FALSE
    BY <1>3, <2>2, <2>3
  <2>6. Len(requests) + Len(answers) <= 1 => Len(requests') + Len(answers') <= 1
    BY <1>3, <2>2, <2>3
  <2> QED BY <1>2, <1>8, <2>1, <2>4, <2>5, <2>6
<1>10. ~(op' = "attach" /\ Asked("attach")' /\ ~slow)
  <2> SUFFICES ASSUME op' = "attach", Asked("attach")', ~slow PROVE FALSE
    OBVIOUS
  <2>1. Len(requests) = 1
    BY <1>2, <1>4 DEF EarlyInv
  <2>2. Len(requests') = 0
    BY <1>3, <2>1
  <2>3. requests' \in Seq(Request)
    BY <1>1, <1>3, RestOfTail
  <2>4. DOMAIN requests' = {}
    BY <2>2, <2>3
  <2> QED BY <2>4 DEF Asked
<1>11. op' = "attach" /\ Asked("attach")' => ~listener'
  <2> SUFFICES ASSUME op' = "attach", Asked("attach")' PROVE ~listener'
    OBVIOUS
  <2>1. op = "attach" /\ Asked("attach") /\ ~listener
    BY <1>2, <1>4 DEF EarlyInv
  <2>2. r.cmd # "attach"
    <3>1. ASSUME r.cmd = "attach", NEW i \in DOMAIN requests', requests'[i].cmd = "attach"
          PROVE  FALSE
      <4>1. i \in 1..(Len(requests) - 1) /\ i + 1 \in DOMAIN requests /\ requests'[i] = requests[i + 1]
        BY <1>1, <1>3, RestOfTail
      <4>2. i + 1 # 1
        BY <4>1
      <4> QED BY <1>3, <3>1, <4>1, <4>2 DEF AttachInv
    <3> QED BY <3>1 DEF Asked
  <2> QED BY <1>2, <1>4, <1>7, <2>1, <2>2
<1>12. ASSUME op' = "attach", Answered("ok")', ~slow
       PROVE  answers'[1].kind = "ok"
  <2>1. CASE Answered("ok")
    <3>1. answers[1].kind = "ok" /\ 1 \in 1..Len(answers)
      <4>1. answers[1].kind = "ok"
        BY <1>2, <1>12, <2>1 DEF EarlyInv
      <4>2. 1 \in 1..Len(answers)
        BY <1>3, <2>1 DEF Answered
      <4> QED BY <4>1, <4>2
    <3> QED BY <1>5, <3>1
  <2>2. CASE ~Answered("ok")
    <3>1. Asked("attach")
      BY <1>2, <1>4, <1>6, <1>7, <1>12, <2>2
    <3>2. answers = <<>>
      BY <1>2, <1>12, <3>1 DEF EarlyInv
    <3>3. PICK i \in DOMAIN answers' : answers'[i].kind = "ok"
      BY <1>12 DEF Answered
    <3>4. i = 1
      BY <1>1, <3>2, <3>3
    <3> QED BY <3>3, <3>4
  <2> QED BY <2>1, <2>2
<1>13. ASSUME op' \in {"shut", "ended"}, ~Accepted', ~slow
       PROVE  ~Asked("attach")' /\ ~Answered("ok")'
  <2>1. ~Asked("attach") /\ ~Answered("ok") /\ ~Asked("detach")
    BY <1>2, <1>13 DEF EarlyInv, Accepted, PlaceInv
  <2> QED BY <1>4, <1>6, <2>1
<1> QED BY <1>2, <1>9, <1>10, <1>11, <1>12, <1>13 DEF EarlyInv

\* A command other than ATTACH that a reading ends, or ATTACH when it was not OK.
LEMMA EarlyReads ==
  ASSUME TypeInv, PlaceInv, AttachInv, EarlyInv,
         ReadStation \/ ReadEnd \/ ReadUnknown \/ ReadOther
  PROVE  EarlyInv'
<1>1. PICK kinds : Reads(kinds)
  BY DEF ReadStation, ReadEnd, ReadUnknown, ReadOther
<1>2. /\ op \in Command /\ answers # <<>> /\ slow' = slow
      /\ requests' = Disown(requests) /\ answers' = Disown(Tail(answers))
  BY <1>1 DEF Reads
<1>3. op' \in {"idle", "shut", "next"} /\ det' = det
  BY ReadsPlace
<1>4. Asked("attach")' => Asked("attach")
  BY <1>2, RequestsDisowned DEF Command
<1>5. /\ Answered("ok")' => Answered("ok")
      /\ Head(answers) = answers[1]
  BY <1>2, AnswerTaken
<1>6. ASSUME op = "attach", ~slow PROVE ~Asked("attach") /\ ~Answered("ok")
  <2>1. ~Asked("attach")
    BY <1>2, <1>6 DEF EarlyInv
  <2>2. Head(answers).kind # "ok"
    BY <1>6 DEF ReadStation, ReadEnd, ReadUnknown, ReadOther, Reads, Expected
  <2>3. ~Answered("ok")
    BY <1>5, <1>6, <2>2 DEF EarlyInv
  <2> QED BY <2>1, <2>3
<1> QED BY <1>2, <1>3, <1>4, <1>5, <1>6, EarlyFails

LEMMA EarlyGivesUp ==
  ASSUME TypeInv, PlaceInv, AttachInv, EarlyInv, Timeout \/ SendFails
  PROVE  EarlyInv'
<1>1. op \in Command /\ UNCHANGED <<slow, requests, answers>>
  BY DEF Timeout, SendFails, wires
<1>2. op' \in {"idle", "shut", "next"} /\ det' = det
  BY ReadsPlace
<1>3. Asked("attach")' <=> Asked("attach")
  BY <1>1 DEF Asked
<1>4. Answered("ok")' <=> Answered("ok")
  BY <1>1 DEF Answered
<1>5. ASSUME op = "attach", ~slow PROVE ~Asked("attach") /\ ~Answered("ok")
  <2>1. CASE SendFails
    BY <1>5, <2>1 DEF SendFails, AttachInv
  <2>2. CASE Timeout
    <3>1. answers = <<>> /\ \A i \in DOMAIN requests : ~requests[i].own
      BY <2>2 DEF Timeout
    <3>2. ASSUME Asked("attach") PROVE FALSE
      <4>1. Len(requests) = 1 /\ requests[1].own
        BY <1>5, <3>2 DEF EarlyInv
      <4>2. 1 \in DOMAIN requests
        BY <4>1 DEF TypeInv, TypeOK
      <4> QED BY <3>1, <4>1, <4>2
    <3> QED BY <3>1, <3>2 DEF Answered
  <2> QED BY <2>1, <2>2
<1> QED BY <1>1, <1>2, <1>3, <1>4, <1>5, EarlyFails

LEMMA EarlyExpected ==
  ASSUME TypeInv, SentInv, PlaceInv, AttachInv, EarlyInv, ReadExpected
  PROVE  EarlyInv'
<1>1. CASE op = "ping" /\ op' = "attach"
  <2>1. /\ answers # <<>> /\ slow' = slow /\ ~sent' /\ listener' = listener /\ sent
        /\ requests' = Disown(requests) /\ answers' = Disown(Tail(answers))
    BY DEF ReadExpected, Reads, hostapd
  <2>2. Len(answers') = Len(answers) - 1 /\ Len(requests') = Len(requests)
        /\ Len(answers) \in Nat /\ Len(requests) \in Nat
    BY <2>1, AnswerTaken, DisownRequests DEF TypeInv, TypeOK
  <2>3. ~listener /\ (~slow => Len(requests) + Len(answers) <= 1)
    BY <1>1, <2>1 DEF EarlyInv, Early
  <2>4. ~slow => Len(requests') + Len(answers') <= 0
    BY <2>2, <2>3
  <2>5. ~Asked("attach")' /\ ~Answered("ok")'
    <3>1. ~Asked("attach") /\ ~Answered("ok")
      BY <1>1 DEF AttachInv, Command
    <3> QED BY <2>1, <3>1, RequestsDisowned, AnswerTaken DEF Command
  <2> QED BY <1>1, <2>1, <2>3, <2>4, <2>5 DEF EarlyInv, Early
<1>2. CASE ~(op = "ping" /\ op' = "attach")
  <2>1. op' \notin {"ping", "attach", "shut", "ended"}
    BY <1>2, ExpectedPlace DEF ReadExpected
  <2> QED BY <2>1, EarlyOver
<1> QED BY <1>1, <1>2

LEMMA EarlyNext ==
  ASSUME TypeInv, SentInv, PlaceInv, AttachInv, EarlyInv, [Next]_vars
  PROVE  EarlyInv'
<1>1. ASSUME NEW m \in MAC, Associate(m) \/ Disassociate(m) \/ Forget(m) PROVE EarlyInv'
  BY <1>1, EarlyQuiet DEF Associate, Disassociate, Forget, wires, attaching, detacher, Quiet
<1>2. CASE Cancel \/ UNCHANGED vars
  BY <1>2, EarlyQuiet DEF Cancel, vars, hostapd, wires, attaching, detacher, Quiet
<1>3. CASE Stations \/ UnsetReadDeadline
  BY <1>3, EarlyOver DEF Stations, UnsetReadDeadline
<1>4. CASE ReadMessage \/ ReadTimeout
  <2>1. op' \in {"read", "detach"}
    BY <1>4 DEF ReadMessage, ReadTimeout, Leaves
  <2> QED BY <2>1, EarlyOver
<1>5. CASE DeferredDetachDone
  <2>1. op' = "shut" /\ det' = det /\ op = "detach"
    BY <1>5 DEF DeferredDetachDone, attaching, detacher
  <2>2. Accepted'
    BY <2>1 DEF PlaceInv, Accepted
  <2> QED BY <2>1, <2>2, EarlyOver
<1>6. CASE CloseConn
  <2>1. op = "shut" /\ op' = "ended" /\ UNCHANGED <<slow, requests, answers, det>>
    BY <1>6 DEF CloseConn, wires, detacher
  <2> QED BY <2>1 DEF EarlyInv, Early, Accepted, Asked, Answered
<1>7. CASE Announce
  <2>1. listener /\ UNCHANGED <<op, sent, slow, listener, requests, det>>
    BY <1>7 DEF Announce, hostapd, attaching, detacher
  <2>2. PICK k \in {"event", "odd"} : answers' = Append(answers, Says(k))
    BY <1>7 DEF Announce
  <2>3. Says(k) \in Answer /\ Says(k).kind = k
    BY SaysTyped DEF AnswerKind
  <2>4. Answered("ok")' => Answered("ok")
    BY <2>2, <2>3, AnswerAppended
  <2>5. ~Early /\ ~(op = "attach" /\ Asked("attach"))
    BY <2>1 DEF EarlyInv
  <2>6. ASSUME op = "attach", Answered("ok"), ~slow PROVE answers'[1].kind = "ok"
    <3>1. answers[1].kind = "ok" /\ answers \in Seq(Answer)
      BY <2>6 DEF EarlyInv, TypeInv, TypeOK
    <3>2. 1 \in 1..Len(answers)
      BY <2>6, <3>1 DEF Answered
    <3> QED BY <2>2, <2>3, <3>1, <3>2, EndOfAppend
  <2> QED BY <2>1, <2>4, <2>5, <2>6 DEF EarlyInv, Early, Accepted, Asked
<1>8. CASE Terminate
  <2>1. /\ UNCHANGED <<op, sent, slow, det>> /\ ~listener' /\ requests' = <<>>
        /\ answers' = IF listener THEN Append(answers, Says("terminating")) ELSE answers
    BY <1>8 DEF Terminate, attaching, detacher
  <2>2. Says("terminating") \in Answer /\ Says("terminating").kind = "terminating"
    BY SaysTyped DEF AnswerKind
  <2>3. ~Asked("attach")'
    BY <2>1 DEF Asked
  <2>4. Answered("ok")' => Answered("ok")
    <3>1. CASE listener
      BY <2>1, <2>2, <3>1, AnswerAppended
    <3>2. CASE ~listener
      BY <2>1, <3>2 DEF Answered
    <3> QED BY <3>1, <3>2
  <2>5. ASSUME op = "attach", Answered("ok"), ~slow PROVE answers'[1].kind = "ok"
    <3>1. answers[1].kind = "ok" /\ answers \in Seq(Answer)
      BY <2>5 DEF EarlyInv, TypeInv, TypeOK
    <3>2. 1 \in 1..Len(answers)
      BY <2>5, <3>1 DEF Answered
    <3> QED BY <2>1, <2>2, <3>1, <3>2, EndOfAppend
  <2>6. ASSUME Early, ~slow PROVE Len(requests') + Len(answers') <= IF sent' THEN 1 ELSE 0
    <3>1. ~listener /\ Len(requests) + Len(answers) <= IF sent THEN 1 ELSE 0
      BY <2>6 DEF EarlyInv
    <3>2. answers' = answers /\ Len(requests') = 0
      BY <2>1, <3>1
    <3>3. Len(requests) \in Nat /\ Len(answers) \in Nat
      BY DEF TypeInv, TypeOK
    <3>4. Len(requests') + Len(answers') <= Len(requests) + Len(answers)
      BY <3>2, <3>3
    <3>5. \A b \in {0, 1} : Len(requests) + Len(answers) <= b => Len(requests') + Len(answers') <= b
      BY <3>2, <3>3
    <3> QED BY <2>1, <3>1, <3>5
  <2> QED BY <2>1, <2>3, <2>4, <2>5, <2>6 DEF EarlyInv, Early, Accepted
<1>9. CASE Late
  <2>1. /\ UNCHANGED <<op, sent, listener, answers, det>> /\ slow'
        /\ requests' = Disown(requests) /\ op \in Command
    BY <1>9 DEF Late, hostapd, attaching, detacher
  <2>2. Asked("attach")' => Asked("attach")
    BY <2>1, RequestsDisowned DEF Command
  <2> QED BY <2>1, <2>2 DEF EarlyInv, Early, Accepted
<1>10. ASSUME NEW c \in Caller, DetNext(c) PROVE EarlyInv'
  <2>1. op' = op /\ det[c] # "none" /\ det'[c] # "none" /\ \A o \in Caller \ {c} : det'[o] = det[o]
    BY <1>10 DEF DetNext, DetLock, DetWrite, DetArm, DetClose, DetGoes, TypeInv, TypeOK
  <2>2. det["cancel"] # "none"
    BY <2>1 DEF PlaceInv, Caller
  <2>3. Accepted'
    BY <2>1, <2>2 DEF Accepted, Caller
  <2>4. op \notin Command
    BY <2>2 DEF PlaceInv
  <2> QED BY <2>1, <2>3, <2>4, EarlyOver DEF Command
<1>11. CASE Wake
  <2>1. op' = op /\ det["cancel"] # "none" /\ det'["cancel"] # "none"
    BY <1>11 DEF Wake, DetGoes, TypeInv, TypeOK, Caller
  <2>2. op \notin Command
    BY <2>1 DEF PlaceInv
  <2> QED BY <2>1, <2>2, EarlyOver DEF Command, Accepted
<1> QED
  BY <1>1, <1>2, <1>3, <1>4, <1>5, <1>6, <1>7, <1>8, <1>9, <1>10, <1>11,
     EarlySends, EarlyServe, EarlyReads, EarlyGivesUp, EarlyExpected
  DEF Next, EnvNext, ClientNext

\* The channel stays open until the first caller has gone through.
LEMMA ClosedNext ==
  ASSUME TypeInv, MutexInv, ClosedInv, PlaceInv, [Next]_vars
  PROVE  ClosedInv'
<1>1. det \in [Caller -> DetStep]
  BY DEF TypeInv, TypeOK
<1>2. ASSUME closed' = closed, \A c \in Caller : det[c] = "done" => det'[c] = "done"
      PROVE  ClosedInv'
  BY <1>2 DEF ClosedInv
<1>3. ASSUME NEW m \in MAC, Associate(m) \/ Disassociate(m) \/ Forget(m) PROVE ClosedInv'
  BY <1>2, <1>3 DEF Associate, Disassociate, Forget, attaching, detacher
<1>4. CASE Announce \/ Terminate \/ Late \/ Serve \/ Stations \/ Cancel \/ Send \/ UNCHANGED vars
  BY <1>2, <1>4 DEF Announce, Terminate, Late, Serve, Stations, Cancel, Send, vars,
                    attaching, detacher
<1>5. CASE Timeout \/ SendFails \/ UnsetReadDeadline \/ DeferredDetachDone \/ CloseConn
  BY <1>2, <1>5 DEF Timeout, SendFails, UnsetReadDeadline, DeferredDetachDone, CloseConn,
                    attaching, detacher
<1>6. CASE ReadStation \/ ReadEnd \/ ReadUnknown \/ ReadOther
  BY <1>2, <1>6 DEF ReadStation, ReadEnd, ReadUnknown, ReadOther, detacher
<1>7. CASE ReadExpected
  <2>1. \/ det' = det
        \/ det' = [det EXCEPT !["cancel"] = "wait"] /\ det["cancel"] = "none"
    BY <1>7, ExpectedPlace DEF PlaceInv, Command
  <2>2. closed' = closed
    BY <1>7 DEF ReadExpected
  <2> QED BY <1>1, <1>2, <2>1, <2>2
<1>8. CASE ReadMessage \/ ReadTimeout
  <2>1. op = "read" /\ closed' = closed /\ (det' = det \/ det' = [det EXCEPT !["loop"] = "lock"])
    BY <1>8 DEF ReadMessage, ReadTimeout, Leaves
  <2>2. det["loop"] = "none"
    BY <2>1 DEF PlaceInv
  <2> QED BY <1>1, <1>2, <2>1, <2>2
<1>9. CASE Wake
  BY <1>1, <1>2, <1>9 DEF Wake, DetGoes
<1>10. ASSUME NEW c \in Caller, DetLock(c) \/ DetWrite(c) \/ DetArm(c) PROVE ClosedInv'
  BY <1>1, <1>2, <1>10 DEF DetLock, DetWrite, DetArm, DetGoes
<1>11. ASSUME NEW c \in Caller, DetClose(c) PROVE ClosedInv'
  BY <1>1, <1>11 DEF DetClose, DetGoes, ClosedInv
<1> QED
  BY <1>3, <1>4, <1>5, <1>6, <1>7, <1>8, <1>9, <1>10, <1>11
  DEF Next, EnvNext, ClientNext, DetNext

------------------------------------------------------------------------------
(* The invariant                                                           *)

LEMMA CtrlInvHolds == Spec => []CtrlInv
<1>1. Init => CtrlInv
  BY TypeInit, MainInit, PlaceInit, EarlyInit DEF CtrlInv
<1>2. CtrlInv /\ [Next]_vars => CtrlInv'
  BY TypeNext, SentNext, MainNext, PlaceNext, AttachInvNext, MutexNext, WrittenNext, StopNext,
     EarlyNext, ClosedNext
     DEF CtrlInv
<1> QED BY <1>1, <1>2, PTL DEF Spec

\* A command reads the answer to itself, unless an earlier answer was late
\* (ctrl.go:61, 89).
THEOREM CommandsInStep == Spec => []InStep
<1>1. CtrlInv => InStep
  <2> SUFFICES ASSUME CtrlInv, role = "main", answers # <<>>, ~slow PROVE Head(answers).own
    BY DEF InStep
  <2>1. 1 \in DOMAIN answers /\ Head(answers) = answers[1]
    BY RestOfTail DEF CtrlInv, TypeOK
  <2> QED BY <2>1 DEF CtrlInv, MainInv
<1> QED BY CtrlInvHolds, <1>1, PTL

\* DETACH is on its way, or obeyed, before attach closes its socket, in whatever
\* order the two callers of the detacher come; a listener is left behind without
\* one only by an ATTACH whose OK was missing or late (ctrl.go:161-189, 247-267).
THEOREM DetachComesFirst == Spec => []DetachBeforeClose
<1>1. CtrlInv => DetachBeforeClose
  <2> SUFFICES ASSUME CtrlInv, ~open, listener PROVE Asked("detach") \/ (~Accepted /\ AnswerLost)
    BY DEF DetachBeforeClose, Asked
  <2>1. op = "ended"
    BY DEF CtrlInv, PlaceInv
  <2>2. CASE Accepted
    <3>1. det["loop"] = "done"
      BY <2>1, <2>2 DEF CtrlInv, PlaceInv, Accepted
    <3>2. detached /\ det["cancel"] # "write"
      BY <3>1 DEF CtrlInv, MutexInv, Inside, Caller
    <3>3. \A c \in Caller : det[c] # "write"
      BY <3>1, <3>2 DEF Caller
    <3> QED BY <3>2, <3>3 DEF CtrlInv, WrittenInv
  <2>3. CASE ~Accepted
    BY <2>1, <2>3 DEF CtrlInv, EarlyInv, AnswerLost, Answered
  <2> QED BY <2>2, <2>3
<1> QED BY CtrlInvHolds, <1>1, PTL

\* The detacher closes its channel once, although the reading goroutine and the
\* one that waits for the context both call it (ctrl.go:247-257).
THEOREM DetacherClosesOnce == Spec => []ClosesOnce
<1>1. CtrlInv => ClosesOnce
  <2> SUFFICES ASSUME CtrlInv, NEW c \in Caller, det[c] = "close", closed PROVE FALSE
    BY DEF ClosesOnce
  <2>1. PICK o \in Caller : det[o] = "done"
    BY DEF CtrlInv, ClosedInv
  <2> QED BY <2>1 DEF CtrlInv, MutexInv, Inside
<1> QED BY CtrlInvHolds, <1>1, PTL

\* attach ends without an error, with an unexpected OK or with a timeout only
\* after its context was cancelled (ctrl.go:191-195, 207-217).
THEOREM AttachStopsOnRequest == Spec => []StopsOnRequest
<1>1. CtrlInv => StopsOnRequest
  BY DEF CtrlInv, StopInv
<1> QED BY CtrlInvHolds, <1>1, PTL
==============================================================================
