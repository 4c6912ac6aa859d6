----------------------------- MODULE Lifecycle ------------------------------
(***************************************************************************)
(* The life of the program (cmd/wifi-presence/main.go): a process connects *)
(* to the broker, says that it is online, connects to hostapd's sockets    *)
(* and runs until a signal, a lost connection or hostapd's end stops it;   *)
(* on its way out it closes its sockets, says that it is offline and       *)
(* disconnects.  Processes are started by others, perhaps while the last   *)
(* one still runs; they share the client ID at the broker and the local    *)
(* socket files (hostapd/conn.go, client.go).                              *)
(*                                                                         *)
(* External: the broker keeps one connection per client ID and publishes   *)
(* the will of a connection that ends without a DISCONNECT; a Unix socket  *)
(* cannot be bound where a file is, and binding it makes the file.         *)
(***************************************************************************)
EXTENDS Naturals, FiniteSets

CONSTANTS Proc, None,
          Radios,   \* hostapd sockets on the command line, 1..Radios
          Fault     \* what may go wrong outside: a subset of LifeFaults

LifeFaults == {"crash",   \* a process is killed
               "cut",     \* the network between a process and the broker fails
               "slow",    \* the broker does not answer in time
               "silent"}  \* hostapd does not answer

ASSUME RadiosAssumption == Radios \in Nat \ {0}
ASSUME LifeFaultAssumption == Fault \subseteq LifeFaults

Radio == 1..Radios
File == {"wp", "wp-attach"} \X Radio

Ghost   == "ghost"    \* a connection whose process is gone
Crashed == "crashed"  \* a file whose process was killed
Refused == "refused"  \* a file whose process was refused by hostapd
ASSUME ProcAssumption ==
    {None, Ghost, Crashed, Refused} \intersect Proc = {} /\ None \notin {Ghost, Crashed, Refused}

VARIABLES
  pc,        \* [Proc -> Step]
  radio,     \* [Proc -> Radio]: the socket run is at in its loop
  signalled, \* [Proc -> BOOLEAN]: its context is cancelled
  conn,      \* [Proc -> Conn]: its end of the connection to the broker
  attach,    \* [Proc -> [Radio -> AttachStep]]: its goroutines in Client.Attach
  linked,    \* [Proc -> SUBSET File]: its sockets whose far end is alive
  file,      \* [File -> who made the file that is there, or None]
  up,        \* SUBSET Radio: those whose hostapd runs
  owner,     \* the broker's end of the connection
  status,    \* the retained message of the status topic
  discarded  \* history: a will went unpublished with the offline status

process == <<pc, radio, signalled, attach>>
broker == <<owner, status, discarded>>
vars == <<process, conn, linked, file, up, broker>>

Step == {"down", "mqtt", "online", "dial", "ping", "daemon", "run", "stop",
         "close", "offline", "bye"}
Conn == {"none", "up", "cut", "lost"}
AttachStep == {"dial", "ping", "on", "done"}

TypeOK ==
    /\ pc \in [Proc -> Step] /\ radio \in [Proc -> Radio]
    /\ signalled \in [Proc -> BOOLEAN]
    /\ conn \in [Proc -> Conn]
    /\ attach \in [Proc -> [Radio -> AttachStep]]
    /\ linked \in [Proc -> SUBSET File]
    /\ file \in [File -> Proc \union {None, Crashed, Refused}]
    /\ up \subseteq Radio
    /\ owner \in Proc \union {None, Ghost}
    /\ status \in {"online", "offline"} /\ discarded \in BOOLEAN

Init ==
    /\ pc = [p \in Proc |-> "down"] /\ radio = [p \in Proc |-> 1]
    /\ signalled = [p \in Proc |-> FALSE]
    /\ conn = [p \in Proc |-> "none"]
    /\ attach = [p \in Proc |-> [r \in Radio |-> "dial"]]
    /\ linked = [p \in Proc |-> {}]
    /\ file = [f \in File |-> None]
    /\ up \in SUBSET Radio
    /\ owner = None /\ status = "offline" /\ discarded = FALSE

Alive(p) == pc[p] # "down"
Goes(p, step) == pc' = [pc EXCEPT ![p] = step]

\* The process is gone, and with it its variables.
Gone(p) ==
    /\ Goes(p, "down")
    /\ radio' = [radio EXCEPT ![p] = 1]
    /\ signalled' = [signalled EXCEPT ![p] = FALSE]
    /\ attach' = [attach EXCEPT ![p] = [r \in Radio |-> "dial"]]

------------------------------------------------------------------------------
(* The broker, as paho and the code use it.                                *)

Publishes(s) == status' = s /\ discarded' = FALSE

\* The process has ended without a DISCONNECT: the broker sees it at once, or
\* later if the network is cut.
Hangs(p) ==
    /\ conn' = [conn EXCEPT ![p] = "none"]
    /\ CASE conn[p] = "up"  -> owner' = None /\ Publishes("offline")
         [] conn[p] = "cut" /\ owner = p
                             -> owner' = Ghost /\ UNCHANGED <<status, discarded>>
         [] OTHER -> UNCHANGED broker

Cut(p) ==
    /\ "cut" \in Fault /\ conn[p] = "up"
    /\ conn' = [conn EXCEPT ![p] = "cut"]
    /\ UNCHANGED <<process, linked, file, up, broker>>

\* Keep-alive at the broker's end.
BrokerNotices ==
    /\ owner = Ghost \/ (owner \in Proc /\ conn[owner] = "cut")
    /\ owner' = None
    /\ Publishes("offline")
    /\ UNCHANGED <<process, conn, linked, file, up>>

\* Keep-alive at the client's end: paho calls the ConnectionLostHandler.
ClientNotices(p) ==
    /\ conn[p] = "cut"
    /\ conn' = [conn EXCEPT ![p] = "lost"]
    /\ owner' = IF owner = p THEN Ghost ELSE owner
    /\ UNCHANGED <<process, linked, file, up, status, discarded>>

------------------------------------------------------------------------------
(* Others: who starts and stops the program, and hostapd.                  *)

Start(p) ==
    /\ ~Alive(p)
    /\ Goes(p, "mqtt")
    /\ UNCHANGED <<radio, signalled, attach, conn, linked, file, up, broker>>

Signal(p) ==
    /\ Alive(p) /\ ~signalled[p]
    /\ signalled' = [signalled EXCEPT ![p] = TRUE]
    /\ UNCHANGED <<pc, radio, attach, conn, linked, file, up, broker>>

Crash(p) ==
    /\ "crash" \in Fault /\ Alive(p)
    /\ Gone(p) /\ Hangs(p)
    /\ file' = [f \in File |-> IF file[f] = p THEN Crashed ELSE file[f]]
    /\ linked' = [linked EXCEPT ![p] = {}]
    /\ UNCHANGED up

\* Files that nobody holds go when the temporary directory is emptied.
Tidy ==
    /\ \E f \in File : file[f] \in {Crashed, Refused}
    /\ file' = [f \in File |-> IF file[f] \in Proc THEN file[f] ELSE None]
    /\ UNCHANGED <<process, conn, linked, up, broker>>

HostapdStarts(r) ==
    /\ r \notin up
    /\ up' = up \union {r}
    /\ UNCHANGED <<process, conn, linked, file, broker>>

\* hostapd tells the attached and closes its socket.
HostapdEnds(r) ==
    /\ r \in up
    /\ up' = up \ {r}
    /\ linked' = [p \in Proc |-> {f \in linked[p] : f[2] # r}]
    /\ UNCHANGED <<process, conn, file, broker>>

------------------------------------------------------------------------------
(* main.run up to eg.Wait.                                                 *)

\* run returns before anything is deferred, and the process ends.
Exits(p) == Gone(p) /\ Hangs(p)

\* The broker gives the client ID to p's new connection: it ends the one that had
\* it, whose will is due.
TakesOver(p, end) ==
    conn' = [q \in Proc |-> IF q = p THEN end
                            ELSE IF q = owner /\ conn[q] = "up" THEN "lost" ELSE conn[q]]
WillOfLast == IF owner = None THEN UNCHANGED <<status, discarded>> ELSE Publishes("offline")

NewMQTT(p) ==
    /\ pc[p] = "mqtt"
    /\ Goes(p, "online")
    /\ TakesOver(p, "up") /\ WillOfLast
    /\ owner' = p
    /\ UNCHANGED <<radio, signalled, attach, linked, file, up>>

\* Refused, out of reach, or the context is cancelled before it is connected.
NewMQTTFails(p) ==
    /\ pc[p] = "mqtt"
    /\ signalled[p] \/ "cut" \in Fault
    /\ Exits(p)
    /\ UNCHANGED <<linked, file, up>>

\* The broker has accepted the connection when the context is cancelled: it sees
\* the process end, and its will is due as well.
NewMQTTCancelled(p) ==
    /\ pc[p] = "mqtt" /\ signalled[p]
    /\ Gone(p)
    /\ TakesOver(p, "none")
    /\ owner' = None /\ Publishes("offline")
    /\ UNCHANGED <<linked, file, up>>

\* Its acceptance never arrives.
NewMQTTCut(p) ==
    /\ "cut" \in Fault /\ pc[p] = "mqtt"
    /\ Gone(p)
    /\ TakesOver(p, "none") /\ WillOfLast
    /\ owner' = Ghost
    /\ UNCHANGED <<linked, file, up>>

\* The status is acknowledged.
StatusOnline(p) ==
    /\ pc[p] = "online" /\ conn[p] = "up"
    /\ Goes(p, "dial")
    /\ Publishes("online")
    /\ UNCHANGED <<radio, signalled, attach, conn, linked, file, up, owner>>

\* Faulty StatusOnlineFails: a status that is late does not matter.
StatusOnlineIgnored(p) ==
    /\ pc[p] = "online"
    /\ conn[p] # "up" \/ "slow" \in Fault
    /\ Goes(p, "dial")
    /\ UNCHANGED <<radio, signalled, attach, conn, linked, file, up, broker>>

\* It is not, in time; whether the broker took it or not, the will follows.
StatusOnlineFails(p) ==
    /\ pc[p] = "online"
    /\ conn[p] # "up" \/ "slow" \in Fault
    /\ Exits(p)
    /\ UNCHANGED <<linked, file, up>>

\* newUnixSocketConn: bind the local file, then connect to hostapd.  A connect
\* that fails leaves the file behind.
Binds(p, f) ==
    /\ file' = [file EXCEPT ![f] = IF @ # None THEN @ ELSE IF f[2] \in up THEN p ELSE Refused]
    /\ linked' = [linked EXCEPT ![p] = IF file'[f] = p THEN @ \union {f} ELSE @]

\* conn.Close
Closes(p, f) ==
    /\ file' = [file EXCEPT ![f] = None]
    /\ linked' = [linked EXCEPT ![p] = @ \ {f}]

NewClientDials(p) ==
    /\ pc[p] = "dial"
    /\ LET f == <<"wp", radio[p]>> IN
       /\ Binds(p, f)
       /\ Goes(p, IF file'[f] = p THEN "ping" ELSE "close")
    /\ UNCHANGED <<radio, signalled, attach, conn, up, broker>>

\* Faulty NewClientPings: the loop goes on after the last socket.
NewClientPingsOn(p) ==
    /\ pc[p] = "ping" /\ <<"wp", radio[p]>> \in linked[p]
    /\ IF radio[p] > Radios
         THEN Goes(p, "daemon") /\ UNCHANGED radio
         ELSE Goes(p, "dial") /\ radio' = [radio EXCEPT ![p] = @ + 1]
    /\ UNCHANGED <<signalled, attach, conn, linked, file, up, broker>>

NewClientPings(p) ==
    /\ pc[p] = "ping" /\ <<"wp", radio[p]>> \in linked[p]
    /\ IF radio[p] = Radios
         THEN Goes(p, "daemon") /\ UNCHANGED radio
         ELSE Goes(p, "dial") /\ radio' = [radio EXCEPT ![p] = @ + 1]
    /\ UNCHANGED <<signalled, attach, conn, linked, file, up, broker>>

\* Faulty NewClientPingFails: the connection is not closed.
NewClientPingLeaves(p) ==
    /\ pc[p] = "ping"
    /\ <<"wp", radio[p]>> \notin linked[p] \/ "silent" \in Fault
    /\ Exits(p)
    /\ UNCHANGED <<linked, file, up>>

\* hostapd went away after the connect, or does not answer.
NewClientPingFails(p) ==
    /\ pc[p] = "ping"
    /\ <<"wp", radio[p]>> \notin linked[p] \/ "silent" \in Fault
    /\ Closes(p, <<"wp", radio[p]>>)
    /\ Goes(p, "close")
    /\ UNCHANGED <<radio, signalled, attach, conn, up, broker>>

Main == {"wp"} \X Radio

\* Client.Status of each.
NewDaemon(p) ==
    /\ pc[p] = "daemon" /\ Main \subseteq linked[p]
    /\ Goes(p, "run")
    /\ UNCHANGED <<radio, signalled, attach, conn, linked, file, up, broker>>

NewDaemonFails(p) ==
    /\ pc[p] = "daemon"
    /\ ~(Main \subseteq linked[p]) \/ "silent" \in Fault
    /\ Goes(p, "close")
    /\ UNCHANGED <<radio, signalled, attach, conn, linked, file, up, broker>>

------------------------------------------------------------------------------
(* Daemon.Run: the goroutines in Client.Attach.  Their context is cancelled *)
(* by the first error, and by the signal.                                   *)

Running(p) == pc[p] \in {"run", "stop"}
AttachGoes(p, r, step) == attach' = [attach EXCEPT ![p][r] = step]
AttachFails(p, r) == AttachGoes(p, r, "done") /\ Goes(p, "stop")

AttachDials(p, r) ==
    /\ Running(p) /\ attach[p][r] = "dial"
    /\ LET f == <<"wp-attach", r>> IN
       /\ Binds(p, f)
       /\ IF file'[f] = p THEN AttachGoes(p, r, "ping") /\ UNCHANGED pc
                          ELSE AttachFails(p, r)
    /\ UNCHANGED <<radio, signalled, conn, up, broker>>

\* PING and ATTACH.
Attached(p, r) ==
    /\ Running(p) /\ attach[p][r] = "ping" /\ <<"wp-attach", r>> \in linked[p]
    /\ AttachGoes(p, r, "on")
    /\ UNCHANGED <<pc, radio, signalled, conn, linked, file, up, broker>>

\* An answer is missing, or hostapd terminates.
AttachErr(p, r) ==
    /\ Running(p)
    /\ \/ attach[p][r] \in {"ping", "on"} /\ <<"wp-attach", r>> \notin linked[p]
       \/ attach[p][r] = "ping" /\ "silent" \in Fault
    /\ Closes(p, <<"wp-attach", r>>)
    /\ AttachFails(p, r)
    /\ UNCHANGED <<radio, signalled, conn, up, broker>>

\* DETACH and the end, with or without an error.
Detached(p, r) ==
    /\ pc[p] = "stop" /\ attach[p][r] = "on"
    /\ Closes(p, <<"wp-attach", r>>)
    /\ AttachGoes(p, r, "done")
    /\ UNCHANGED <<pc, radio, signalled, conn, up, broker>>

\* Faulty RunEnds: the lost connection is not watched.
RunEndsOnSignal(p) ==
    /\ pc[p] = "run" /\ signalled[p]
    /\ Goes(p, "stop")
    /\ UNCHANGED <<radio, signalled, attach, conn, linked, file, up, broker>>

\* The signal, or OnConnectionLost, cancels the context of the group.
RunEnds(p) ==
    /\ pc[p] = "run" /\ (signalled[p] \/ conn[p] = "lost")
    /\ Goes(p, "stop")
    /\ UNCHANGED <<radio, signalled, attach, conn, linked, file, up, broker>>

\* eg.Wait
Waited(p) ==
    /\ pc[p] = "stop" /\ \A r \in Radio : attach[p][r] = "done"
    /\ Goes(p, "close")
    /\ UNCHANGED <<radio, signalled, attach, conn, linked, file, up, broker>>

------------------------------------------------------------------------------
(* The deferred calls, last first.                                         *)

Held(p) == {r \in Radio : file[<<"wp", r>>] = p}

ClientClose(p) ==
    /\ pc[p] = "close"
    /\ \E r \in Held(p) :
        /\ \A o \in Held(p) : o <= r
        /\ Closes(p, <<"wp", r>>)
    /\ UNCHANGED <<process, conn, up, broker>>

ClientsClosed(p) ==
    /\ pc[p] = "close" /\ Held(p) = {}
    /\ Goes(p, "offline")
    /\ UNCHANGED <<radio, signalled, attach, conn, linked, file, up, broker>>

\* Faulty StatusOffline: the will is trusted to say it.
StatusOfflineSkipped(p) ==
    /\ pc[p] = "offline"
    /\ Goes(p, "bye")
    /\ UNCHANGED <<radio, signalled, attach, conn, linked, file, up, broker>>

\* Its error is ignored.
StatusOffline(p) ==
    /\ pc[p] = "offline"
    /\ Goes(p, "bye")
    /\ IF conn[p] = "up" THEN Publishes("offline") ELSE UNCHANGED <<status, discarded>>
    /\ UNCHANGED <<radio, signalled, attach, conn, linked, file, up, owner>>

\* The broker has not taken it within two seconds.
StatusOfflineLate(p) ==
    /\ "slow" \in Fault /\ pc[p] = "offline" /\ conn[p] = "up"
    /\ Goes(p, "bye")
    /\ discarded' = TRUE
    /\ UNCHANGED <<radio, signalled, attach, conn, linked, file, up, owner, status>>

\* MQTT.Close: after a DISCONNECT the broker forgets the will.
Close(p) ==
    /\ pc[p] = "bye"
    /\ IF conn[p] = "up"
         THEN /\ conn' = [conn EXCEPT ![p] = "none"] /\ owner' = None
              /\ UNCHANGED <<status, discarded>>
         ELSE Hangs(p)
    /\ Gone(p)
    /\ UNCHANGED <<linked, file, up>>

------------------------------------------------------------------------------
ProcNext(p) ==
    \/ NewMQTT(p) \/ NewMQTTFails(p) \/ NewMQTTCancelled(p) \/ NewMQTTCut(p)
    \/ StatusOnline(p) \/ StatusOnlineFails(p)
    \/ NewClientDials(p) \/ NewClientPings(p) \/ NewClientPingFails(p)
    \/ NewDaemon(p) \/ NewDaemonFails(p) \/ RunEnds(p) \/ Waited(p)
    \/ ClientClose(p) \/ ClientsClosed(p)
    \/ StatusOffline(p) \/ StatusOfflineLate(p) \/ Close(p)

AttachNext(p, r) ==
    AttachDials(p, r) \/ Attached(p, r) \/ AttachErr(p, r) \/ Detached(p, r)

Next ==
    \/ \E p \in Proc : Start(p) \/ Signal(p) \/ Crash(p) \/ Cut(p) \/ ClientNotices(p)
    \/ \E p \in Proc : ProcNext(p) \/ \E r \in Radio : AttachNext(p, r)
    \/ \E r \in Radio : HostapdStarts(r) \/ HostapdEnds(r)
    \/ BrokerNotices \/ Tidy

\* The goroutines of a process go on; every call they make has a timeout, or is
\* ended by the detach (see HostapdCtrl and Daemon).  Both ends of a connection
\* watch it with the keep-alive.
Fairness ==
    /\ \A p \in Proc : WF_vars(ProcNext(p)) /\ WF_vars(ClientNotices(p))
    /\ \A p \in Proc : \A r \in Radio : WF_vars(AttachNext(p, r))
    /\ WF_vars(BrokerNotices)

Spec == Init /\ [][Next]_vars /\ Fairness

------------------------------------------------------------------------------
\* The status topic does not say online while nobody is connected, whether the
\* process failed on its way up, lost its connection, was killed or said goodbye
\* - unless the broker took no offline status before the DISCONNECT that made it
\* forget the will (main.go:223-230, mqtt.go:92).
OfflineWhenGone == owner = None /\ status = "online" => discarded

\* The daemon runs on a connection that works only if the topic says online: no
\* will and no goodbye of an earlier process comes after (main.go:218-222).
OnlineWhileRunning == \A p \in Proc : pc[p] = "run" /\ conn[p] = "up" => status = "online"

\* A local socket file is left behind by a process that was killed or that hostapd
\* refused, and by no other: every way out of run closes what it opened
\* (client.go:31-34, 111-117, main.go:241, conn.go:52-63).
FilesAreHeld == \A f \in File : file[f] \in Proc => Alive(file[f])

\* A process ends that got a signal, whose connection is lost or that is attached
\* to a hostapd that ended (main.go:261-266).
TroubleEndsRun == \A p \in Proc :
    Alive(p) /\ (\/ signalled[p]
                 \/ conn[p] = "lost"
                 \/ \E r \in Radio : attach[p][r] = "on" /\ <<"wp-attach", r>> \notin linked[p])
    ~> ~Alive(p)

\* hostapd may restart: a start is refused a local socket only if another process
\* has it or one was killed that had it (conn.go:23-26).
RestartSucceeds == [][\A p \in Proc, f \in File :
    NewClientDials(p) /\ f = <<"wp", radio[p]>> /\ f[2] \in up /\ pc'[p] = "close"
        => file[f] \in Proc \union {Crashed}]_vars
==============================================================================
