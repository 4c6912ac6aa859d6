---------------------------- MODULE HostapdCtrl ----------------------------
(***************************************************************************)
(* internal/hostapd/ctrl.go and client.go: one connection to the control   *)
(* interface of hostapd, and the far side of it as the repository's fake   *)
(* hostapd (hostapdtest) and its parsers describe it.                      *)
(*                                                                         *)
(* The connection has one of two roles.  That of Client.ctrl ("main") runs *)
(* one command after the other: Status at start-up, then Stations at each  *)
(* new configuration, which asks for one station at a time.  That of       *)
(* Client.Attach ("attach") asks for events, reads them until its context  *)
(* is cancelled, and detaches: the reading goroutine and the one that      *)
(* waits for the context share the detacher.                               *)
(***************************************************************************)
EXTENDS Naturals, Sequences, SequencesExt

CONSTANTS MAC,        \* station addresses
          Role,       \* the roles to choose from
          Fault,      \* what may go wrong outside: a subset of AllFaults
          MaxEvents,  \* bound on the datagrams waiting in the client's socket
          None        \* no address

AllFaults == {"silent",     \* an answer is missing
              "late",       \* once, an answer comes after the read deadline
              "unknown",    \* hostapd does not know STA-FIRST or STA-NEXT
              "terminate",  \* hostapd terminates
              "odd",        \* an event does not parse
              "callback"}   \* the callback of Attach returns an error

ASSUME RoleAssumption == Role \subseteq {"main", "attach"}
ASSUME CtrlFaultAssumption == Fault \subseteq AllFaults
ASSUME BoundAssumption == MaxEvents \in Nat
ASSUME NoneAssumption == None \notin MAC

VARIABLES
  role,
  list,      \* hostapd's stations, in the order it tells them
  assoc,     \* SUBSET of them: flag [ASSOC]
  listener,  \* hostapd sends its events to this connection
  up,        \* hostapd runs
  requests,  \* Seq(Request): waiting in hostapd's socket
  answers,   \* Seq(Answer): waiting in the client's socket
  op,        \* what the client is doing
  sent,      \* its command is sent, the answer is awaited
  at,        \* the station that the last answer told of
  slow,      \* history: the read deadline was over before hostapd answered
  must, may, trouble,  \* history of the listing, see StationListing
  found,     \* the stations listed so far
  result,    \* what the last listing returned
  open,      \* the client's socket is open
  deadline,  \* it has a read deadline
  cancelled, \* the context of attach is cancelled
  det,       \* [Caller -> DetStep]: how far each caller of the detacher is
  detached,  \* the detacher's flag
  closed,    \* its channel is closed
  lifted,    \* history: attach removed the deadline that a detach had set
  outcome    \* how attach ended

hostapd == <<list, assoc, listener, up>>
wires   == <<requests, answers>>
listing == <<must, may, trouble, found, result>>
detacher == <<det, detached, closed>>
attaching == <<open, deadline, cancelled, detacher, lifted, outcome>>
vars == <<role, hostapd, wires, op, sent, at, slow, listing, attaching>>

Caller  == {"loop", "cancel"}
DetStep == {"none", "wait", "lock", "write", "arm", "close", "done"}
Command == {"ping", "status", "first", "next", "attach"}
Op      == Command \union {"idle", "unset", "read", "detach", "shut", "ended"}
Outcome == {"none", "nil", "unexpected", "timeout", "terminating", "error"}
Request == [cmd : Command \union {"detach"}, mac : MAC \union {None}, own : BOOLEAN]
AnswerKind == {"pong", "status", "station", "end", "fail", "unknown", "ok",
               "event", "terminating", "odd"}
Answer  == [kind : AnswerKind,
            mac : MAC \union {None}, assoc : BOOLEAN, own : BOOLEAN]

\* Besides the types: STA-NEXT always names a station, and only STA-NEXT does
\* (client.go:81-82).
TypeOK ==
    /\ role \in Role
    /\ list \in Seq(MAC) /\ assoc \subseteq MAC
    /\ listener \in BOOLEAN /\ up \in BOOLEAN
    /\ requests \in Seq(Request) /\ answers \in Seq(Answer)
    /\ op \in Op /\ sent \in BOOLEAN /\ at \in MAC \union {None} /\ slow \in BOOLEAN
    /\ must \subseteq MAC /\ may \subseteq MAC /\ trouble \subseteq {"forgot", "missing", "stale"}
    /\ found \subseteq MAC /\ result \in [ok : BOOLEAN, macs : SUBSET MAC]
    /\ open \in BOOLEAN /\ deadline \in BOOLEAN /\ cancelled \in BOOLEAN
    /\ det \in [Caller -> DetStep] /\ detached \in BOOLEAN /\ closed \in BOOLEAN
    /\ lifted \in BOOLEAN /\ outcome \in Outcome
    /\ op = "next" <=> at # None

\* newCtrl pings at once.
Init ==
    /\ role \in Role
    /\ list = <<>> /\ assoc = {}
    /\ listener = FALSE /\ up = TRUE
    /\ requests = <<>> /\ answers = <<>>
    /\ op = "ping" /\ sent = FALSE /\ at = None /\ slow = FALSE
    /\ must = {} /\ may = {} /\ trouble = {} /\ found = {}
    /\ result = [ok |-> FALSE, macs |-> {}]
    /\ open = TRUE /\ deadline = FALSE /\ cancelled = FALSE
    /\ det = [c \in Caller |-> "none"] /\ detached = FALSE /\ closed = FALSE
    /\ lifted = FALSE /\ outcome = "none"

------------------------------------------------------------------------------
(* hostapd: its stations, its events and its answers.                      *)

Busy == op \in {"first", "next"}

\* A station that hostapd does not know yet goes to the head of its list.
Associate(m) ==
    /\ role = "main" /\ m \notin assoc
    /\ list' = IF m \in ToSet(list) THEN list ELSE <<m>> \o list
    /\ assoc' = assoc \union {m}
    /\ may' = IF Busy THEN may \union {m} ELSE may
    /\ UNCHANGED <<role, listener, up, wires, op, sent, at, slow, must, trouble, found,
                   result, attaching>>

Disassociate(m) ==
    /\ m \in assoc
    /\ assoc' = assoc \ {m}
    /\ must' = must \ {m}
    /\ UNCHANGED <<role, list, listener, up, wires, op, sent, at, slow, may, trouble,
                   found, result, attaching>>

Hindered(what) == trouble' = IF Busy THEN trouble \union {what} ELSE trouble

Forget(m) ==
    /\ m \notin assoc
    /\ \E i \in DOMAIN list : list[i] = m /\ list' = RemoveAt(list, i)
    /\ Hindered("forgot")
    /\ UNCHANGED <<role, assoc, listener, up, wires, op, sent, at, slow, must, may,
                   found, result, attaching>>

Says(kind) == [kind |-> kind, mac |-> None, assoc |-> FALSE, own |-> TRUE]

\* One station, or none: the end of the list is an empty answer.
Tells(i) ==
    IF i \in DOMAIN list
      THEN [kind |-> "station", mac |-> list[i], assoc |-> list[i] \in assoc, own |-> TRUE]
      ELSE Says("end")

\* STA-NEXT of a station that hostapd does not know fails (station.go:27; the fake
\* hostapd ends the list instead).
AnswerTo(r) ==
    CASE r.cmd = "ping" -> Says("pong")
      [] r.cmd = "status" -> Says("status")
      [] r.cmd = "first" -> Tells(1)
      [] r.cmd = "next" -> IF r.mac \in ToSet(list)
                             THEN Tells(1 + CHOOSE i \in DOMAIN list : list[i] = r.mac)
                             ELSE Says("fail")
      [] OTHER -> Says("ok")

\* hostapd serves the next request; its answer may be missing.
Serve ==
    /\ up /\ requests # <<>>
    /\ requests' = Tail(requests)
    /\ LET r == Head(requests) IN
       /\ listener' = CASE r.cmd = "attach" -> TRUE
                        [] r.cmd = "detach" -> FALSE
                        [] OTHER -> listener
       /\ \/ /\ answers' = Append(answers, [AnswerTo(r) EXCEPT !.own = r.own])
             /\ UNCHANGED trouble
          \/ /\ "unknown" \in Fault /\ r.cmd \in {"first", "next"}
             /\ answers' = Append(answers, [Says("unknown") EXCEPT !.own = r.own])
             /\ Hindered("missing")
          \/ /\ "silent" \in Fault
             /\ UNCHANGED answers
             /\ Hindered("missing")
    /\ UNCHANGED <<role, list, assoc, up, op, sent, at, slow, must, may, found, result, attaching>>

Announce ==
    /\ up /\ listener /\ Len(answers) < MaxEvents
    /\ answers' \in {Append(answers, Says(k)) :
            k \in {"event"} \union ({"odd"} \intersect Fault)}
    /\ UNCHANGED <<role, hostapd, requests, op, sent, at, slow, listing, attaching>>

\* hostapd tells its listener and is gone, and with it what it had not served.
Terminate ==
    /\ "terminate" \in Fault /\ up
    /\ up' = FALSE /\ listener' = FALSE
    /\ requests' = <<>>
    /\ answers' = IF listener THEN Append(answers, Says("terminating")) ELSE answers
    /\ Hindered("missing")
    /\ UNCHANGED <<role, list, assoc, op, sent, at, slow, must, may, found, result, attaching>>

------------------------------------------------------------------------------
(* ctrl.cmd: a command is written, and one datagram read with a deadline.  *)

Ends(ok, macs) ==
    /\ op' = "idle" /\ at' = None
    /\ result' = [ok |-> ok, macs |-> macs]
    /\ must' = {} /\ may' = {} /\ trouble' = {} /\ found' = {}

\* The command fails.  The caller of newCtrl closes the connection, NewDaemon
\* fails without a status and the program closes it; attach returns before it
\* has anything to detach.
Fails ==
    IF Busy THEN Ends(FALSE, {}) ELSE op' = "shut" /\ UNCHANGED <<at, listing>>

\* An error of STA-NEXT that left nothing to parse looks like the end of the
\* list: Stations looks at ok before it looks at the error.
FailsUnparsed == IF op = "next" THEN Ends(TRUE, found) ELSE Fails

\* Faulty Send: a command is sent once more, to be sure.
SendTwice ==
    /\ op \in Command /\ ~sent /\ up
    /\ LET r == [cmd |-> op, mac |-> at, own |-> TRUE] IN requests' = requests \o <<r, r>>
    /\ sent' = TRUE /\ deadline' = TRUE
    /\ UNCHANGED <<role, hostapd, answers, op, at, slow, listing, open, cancelled, detacher,
                   lifted, outcome>>

Send ==
    /\ op \in Command /\ ~sent /\ up
    /\ requests' = Append(requests, [cmd |-> op, mac |-> at, own |-> TRUE])
    /\ sent' = TRUE /\ deadline' = TRUE
    /\ UNCHANGED <<role, hostapd, answers, op, at, slow, listing, open, cancelled, detacher,
                   lifted, outcome>>

SendFails ==
    /\ op \in Command /\ ~sent /\ ~up
    /\ FailsUnparsed
    /\ UNCHANGED <<role, hostapd, wires, sent, slow, attaching>>

Disown(s) == [i \in DOMAIN s |-> [s[i] EXCEPT !.own = FALSE]]

\* The read deadline is over, and hostapd has still to answer.
Late ==
    /\ "late" \in Fault /\ ~slow /\ op \in Command /\ sent /\ answers = <<>>
    /\ \E i \in DOMAIN requests : requests[i].own
    /\ requests' = Disown(requests)
    /\ slow' = TRUE
    /\ Hindered("missing")
    /\ UNCHANGED <<role, hostapd, answers, op, sent, at, must, may, found, result, attaching>>

\* cmd gives up; what is still under way is nobody's any more.
Timeout ==
    /\ op \in Command /\ sent /\ answers = <<>>
    /\ \A i \in DOMAIN requests : ~requests[i].own
    /\ FailsUnparsed
    /\ sent' = FALSE
    /\ UNCHANGED <<role, hostapd, wires, slow, attaching>>

\* The client reads an answer of this kind, and leaves to the next command what
\* else is under way.
Reads(kinds) ==
    /\ op \in Command /\ sent /\ answers # <<>>
    /\ Head(answers).kind \in kinds
    /\ answers' = Disown(Tail(answers))
    /\ requests' = Disown(requests)
    /\ sent' = FALSE
    /\ UNCHANGED <<role, hostapd, slow, open, cancelled, lifted, outcome>>

\* The command got the kind of answer it expects.
Expected(kind) == <<op, kind>> \in
    {<<"ping", "pong">>, <<"status", "status">>, <<"attach", "ok">>,
     <<"first", "station">>, <<"next", "station">>}

\* newCtrl returns, and NewDaemon asks for the status or attach goes on; Status
\* returns; ATTACH is accepted: the goroutine that waits for the context starts.
ReadExpected ==
    /\ Reads({"pong", "status", "ok"})
    /\ Expected(Head(answers).kind)
    /\ op' = CASE op = "ping" -> (IF role = "main" THEN "status" ELSE "attach")
               [] op = "status" -> "idle"
               [] op = "attach" -> "unset"
    /\ det' = IF op = "attach" THEN [det EXCEPT !["cancel"] = "wait"] ELSE det
    /\ UNCHANGED <<at, listing, deadline, detached, closed>>

\* Faulty ReadStation: the loop goes on asking for the one after the first.
ReadStationAgain ==
    /\ Busy
    /\ Reads({"station"})
    /\ LET a == Head(answers) IN
       /\ found' = IF a.assoc THEN found \union {a.mac} ELSE found
       /\ at' = IF op = "first" THEN a.mac ELSE at
    /\ op' = "next"
    /\ UNCHANGED <<must, may, trouble, result, deadline, detacher>>

\* Faulty ReadStation: a station without the flag is skipped before its address
\* is noted.
ReadStationSkips ==
    /\ Busy
    /\ Reads({"station"})
    /\ LET a == Head(answers) IN
       /\ found' = IF a.assoc THEN found \union {a.mac} ELSE found
       /\ at' = IF a.assoc THEN a.mac ELSE at
    /\ op' = "next"
    /\ UNCHANGED <<must, may, trouble, result, deadline, detacher>>

\* Stations adds the station and asks for the one after it.  A station without
\* the flag is told of, and not connected (client.go:69-71).
ReadStation ==
    /\ Busy
    /\ Reads({"station"})
    /\ LET a == Head(answers) IN
       /\ found' = IF a.assoc THEN found \union {a.mac} ELSE found
       /\ at' = a.mac
    /\ op' = "next"
    /\ UNCHANGED <<must, may, trouble, result, deadline, detacher>>

\* The end of the list.  Only a listing gets an empty answer: the ping and the
\* status come before the first one, and a connection that attaches lists nothing.
ReadEnd ==
    /\ Reads({"end"})
    /\ IF Busy THEN Ends(TRUE, found) ELSE Fails
    /\ UNCHANGED <<deadline, detacher>>

\* UNKNOWN COMMAND is an error before anything is parsed.
ReadUnknown ==
    /\ Reads({"unknown"})
    /\ FailsUnparsed
    /\ UNCHANGED <<deadline, detacher>>

\* Neither empty nor UNKNOWN COMMAND.
Unparsed == AnswerKind \ {"end", "unknown"}

\* Faulty ReadOther: any error of STA-NEXT ends the list.
ReadOtherAsEnd ==
    /\ Reads(Unparsed)
    /\ ~Expected(Head(answers).kind)
    /\ FailsUnparsed
    /\ UNCHANGED <<deadline, detacher>>

\* An answer that does not parse as one to this command: FAIL, an event, or what
\* answers an earlier command.
ReadOther ==
    /\ Reads(Unparsed)
    /\ ~Expected(Head(answers).kind)
    /\ Fails
    /\ UNCHANGED <<deadline, detacher>>

------------------------------------------------------------------------------
(* Client.Stations, which the config callback calls.                       *)

Stations ==
    /\ role = "main" /\ op = "idle"
    /\ op' = "first" /\ at' = None
    /\ must' = assoc /\ may' = assoc /\ found' = {}
    /\ trouble' = IF ~up THEN {"missing"}
                  ELSE IF requests # <<>> \/ answers # <<>> THEN {"stale"} ELSE {}
    /\ UNCHANGED <<role, hostapd, wires, sent, slow, result, attaching>>

------------------------------------------------------------------------------
(* attach and the detacher.                                                *)

Cancel ==
    /\ role = "attach" /\ ~cancelled
    /\ cancelled' = TRUE
    /\ UNCHANGED <<role, hostapd, wires, op, sent, at, slow, listing, open, deadline, detacher,
                   lifted, outcome>>

\* Faulty UnsetReadDeadline: that of the ATTACH command stays.
KeepReadDeadline ==
    /\ op = "unset"
    /\ op' = "read"
    /\ UNCHANGED <<role, hostapd, wires, sent, at, slow, listing, open, deadline, cancelled, detacher,
                   lifted, outcome>>

\* The deadline of the ATTACH command goes, or that of a detach that was quick.
UnsetReadDeadline ==
    /\ op = "unset"
    /\ op' = "read"
    /\ deadline' = FALSE
    /\ lifted' = (det["cancel"] \in {"close", "done"})
    /\ UNCHANGED <<role, hostapd, wires, sent, at, slow, listing, open, cancelled, detacher, outcome>>

\* attach is about to return: the deferred detach comes first.
Leaves(how) ==
    /\ op' = "detach" /\ outcome' = how
    /\ det' = [det EXCEPT !["loop"] = "lock"]

\* The next message of an attached socket.
ReadMessage ==
    /\ op = "read" /\ answers # <<>>
    /\ answers' = Tail(answers)
    /\ LET k == Head(answers).kind IN
       \/ k = "ok" /\ Leaves(IF closed THEN "nil" ELSE "unexpected")
       \/ k = "event" /\ UNCHANGED <<op, outcome, det>>
       \/ k = "event" /\ "callback" \in Fault /\ Leaves("error")
       \/ k = "odd" /\ Leaves("error")
       \/ k = "terminating" /\ Leaves("terminating")
    /\ UNCHANGED <<role, hostapd, requests, sent, at, slow, listing, open, deadline, cancelled,
                   detached, closed, lifted>>

\* The read deadline is over, perhaps while a callback was running.
ReadTimeout ==
    /\ op = "read" /\ deadline
    /\ Leaves("timeout")
    /\ UNCHANGED <<role, hostapd, wires, sent, at, slow, listing, open, deadline, cancelled,
                   detached, closed, lifted>>

DetGoes(c, step) == det' = [det EXCEPT ![c] = step]

Wake ==
    /\ cancelled /\ det["cancel"] = "wait"
    /\ DetGoes("cancel", "lock")
    /\ UNCHANGED <<role, hostapd, wires, op, sent, at, slow, listing, open, deadline, cancelled,
                   detached, closed, lifted, outcome>>

\* Faulty DetLock: the flag without the mutex.
DetFlagOnly(c) ==
    /\ det[c] = "lock"
    /\ DetGoes(c, IF detached THEN "done" ELSE "write")
    /\ detached' = TRUE
    /\ UNCHANGED <<role, hostapd, wires, op, sent, at, slow, listing, open, deadline, cancelled,
                   closed, lifted, outcome>>

\* Faulty DetLock: the flag is looked at and never set.
DetForgets(c) ==
    /\ det[c] = "lock"
    /\ \A o \in Caller : det[o] \notin {"write", "arm", "close"}
    /\ DetGoes(c, IF detached THEN "done" ELSE "write")
    /\ UNCHANGED <<role, hostapd, wires, op, sent, at, slow, listing, open, deadline, cancelled,
                   detached, closed, lifted, outcome>>

\* The mutex is free: the first caller goes on to detach, later ones return.
DetLock(c) ==
    /\ det[c] = "lock"
    /\ \A o \in Caller : det[o] \notin {"write", "arm", "close"}
    /\ DetGoes(c, IF detached THEN "done" ELSE "write")
    /\ detached' = TRUE
    /\ UNCHANGED <<role, hostapd, wires, op, sent, at, slow, listing, open, deadline, cancelled,
                   closed, lifted, outcome>>

\* Its errors are ignored.
DetWrite(c) ==
    /\ det[c] = "write"
    /\ DetGoes(c, "arm")
    /\ requests' = IF open /\ up
            THEN Append(requests, [cmd |-> "detach", mac |-> None, own |-> TRUE])
            ELSE requests
    /\ UNCHANGED <<role, hostapd, answers, op, sent, at, slow, listing, open, deadline, cancelled,
                   detached, closed, lifted, outcome>>

\* Faulty DetArm: no deadline for the answer to DETACH.
DetNoArm(c) ==
    /\ det[c] = "arm"
    /\ DetGoes(c, "close")
    /\ UNCHANGED <<role, hostapd, wires, op, sent, at, slow, listing, open, deadline, cancelled,
                   detached, closed, lifted, outcome>>

DetArm(c) ==
    /\ det[c] = "arm"
    /\ DetGoes(c, "close")
    /\ deadline' = TRUE
    /\ UNCHANGED <<role, hostapd, wires, op, sent, at, slow, listing, open, cancelled, detached,
                   closed, lifted, outcome>>

DetClose(c) ==
    /\ det[c] = "close"
    /\ DetGoes(c, "done")
    /\ closed' = TRUE
    /\ UNCHANGED <<role, hostapd, wires, op, sent, at, slow, listing, open, deadline, cancelled,
                   detached, lifted, outcome>>

DeferredDetachDone ==
    /\ op = "detach" /\ det["loop"] = "done"
    /\ op' = "shut"
    /\ UNCHANGED <<role, hostapd, wires, sent, at, slow, listing, attaching>>

\* Client.Attach or NewClient closes the connection.
CloseConn ==
    /\ op = "shut"
    /\ op' = "ended" /\ open' = FALSE
    /\ UNCHANGED <<role, hostapd, wires, sent, at, slow, listing, deadline, cancelled, detacher,
                   lifted, outcome>>

------------------------------------------------------------------------------
EnvNext ==
    \/ \E m \in MAC : Associate(m) \/ Disassociate(m) \/ Forget(m)
    \/ Announce \/ Terminate \/ Late \/ Stations \/ Cancel

ClientNext ==
    \/ Send \/ SendFails \/ Timeout
    \/ ReadExpected \/ ReadStation \/ ReadEnd \/ ReadUnknown \/ ReadOther
    \/ UnsetReadDeadline \/ ReadMessage \/ ReadTimeout \/ DeferredDetachDone \/ CloseConn

DetNext(c) == DetLock(c) \/ DetWrite(c) \/ DetArm(c) \/ DetClose(c)

Next == EnvNext \/ Serve \/ ClientNext \/ Wake \/ \E c \in Caller : DetNext(c)

\* Every goroutine that can move does, and so does hostapd; a deadline that is
\* armed is over some time.
Fairness ==
    /\ WF_vars(Serve) /\ WF_vars(ClientNext) /\ WF_vars(Wake)
    /\ \A c \in Caller : WF_vars(DetNext(c))

Spec == Init /\ [][Next]_vars /\ Fairness

------------------------------------------------------------------------------
(* What the connection promises.                                           *)

\* Stations keeps the promise of StationListing.
Listing == INSTANCE StationListing WITH busy <- Busy, Faulty <- Fault # {}
ListingIsRegular == Listing!Spec

\* Commands and answers stay in step (ctrl.go:61, 89): a command reads the answer
\* to itself, unless an earlier one has timed out before its answer came.
InStep ==
    role = "main" /\ op \in Command /\ sent /\ answers # <<>> => Head(answers).own \/ slow

\* attach has read the OK to its ATTACH, and waits for the context.
Accepted == det["cancel"] # "none"

\* hostapd's OK to ATTACH is missing, or it came after the read deadline.
AnswerLost == slow \/ \A i \in DOMAIN answers : answers[i].kind # "ok"

\* When the connection is closed and hostapd still sends its events there, a
\* DETACH is on its way, whoever of the two callers of the detacher came first
\* and wherever the other one is (ctrl.go:182-189, 247-267).  One case is left,
\* and the code does leave a listener behind in it: hostapd has obeyed an ATTACH
\* whose OK was missing or late, and attach returned with the error of the
\* command, before there was a detacher (ctrl.go:161-169).
DetachBeforeClose ==
    ~open /\ listener =>
        \/ \E i \in DOMAIN requests : requests[i].cmd = "detach"
        \/ ~Accepted /\ AnswerLost

\* A caller that is about to close the channel finds it open: closing it once
\* more would be a panic (ctrl.go:247-257).
ClosesOnce == \A c \in Caller : det[c] = "close" => ~closed

\* attach ends without an error, with an unexpected OK or with a timeout only
\* after its context was cancelled: the deadline of the ATTACH command never
\* ends the wait for events (ctrl.go:191-195, 207-217).
StopsOnRequest == outcome \in {"nil", "unexpected", "timeout"} => cancelled

\* Once the context is cancelled attach returns, unless it removed the deadline
\* that the detach had set and hostapd stays silent (ctrl.go:186-193, 266).
CancelEndsAttach ==
    cancelled ~> (op = "ended" \/ (lifted /\ requests = <<>> /\ answers = <<>>))

\* A listing ends if the stations leave hostapd's list alone: a station that is
\* forgotten and comes back sends the listing back to the head of the list
\* (client.go:81-89).
ListingEnds == <>[][list' = list]_list => [](Busy => <>~Busy)
==============================================================================
