-------------------------- MODULE LifecycleProofs ---------------------------
(***************************************************************************)
(* What the status topic says and which socket files are left behind, for  *)
(* any number of processes and radios and any faults.                      *)
(***************************************************************************)
EXTENDS Lifecycle, TLAPS

\* The broker and a client agree on a connection that works: there is one.
OwnerInv == \A p \in Proc : conn[p] = "up" => owner = p

\* From the answer to its status to its goodbye, a connected process is said to
\* be online.
Announced == {"dial", "ping", "daemon", "run", "stop", "close", "offline"}
OnlineInv == \A p \in Proc : pc[p] \in Announced /\ conn[p] = "up" => status = "online"

\* What is due before the DISCONNECT that makes the broker forget the will.
GoodbyeInv == \A p \in Proc : pc[p] = "bye" /\ conn[p] = "up" /\ status = "online" => discarded

\* Which socket files a process holds at which of its steps: those of NewClient
\* until their Close is due, that of Attach while the goroutine is in it.
MainHeld == \A p \in Proc : \A r \in Radio :
    file[<<"wp", r>>] = p => pc[p] \in {"dial", "ping", "daemon", "run", "stop", "close"}
AttachHeld == \A p \in Proc : \A r \in Radio :
    file[<<"wp-attach", r>>] = p => pc[p] \in {"run", "stop"} /\ attach[p][r] \in {"ping", "on"}

StatusInv == TypeOK /\ OwnerInv /\ OnlineInv /\ GoodbyeInv /\ OfflineWhenGone
FileInv == TypeOK /\ MainHeld /\ AttachHeld
------------------------------------------------------------------------------
(* Types                                                                   *)

\* The step of run, and the variables of a process that ends.
LEMMA GoesTyped ==
  ASSUME TypeOK, NEW p \in Proc, NEW s \in Step, Goes(p, s)
  PROVE  pc' \in [Proc -> Step]
  BY DEF TypeOK, Goes

LEMMA GoneTyped ==
  ASSUME TypeOK, NEW p \in Proc, Gone(p)
  PROVE  /\ pc' \in [Proc -> Step] /\ radio' \in [Proc -> Radio]
         /\ signalled' \in [Proc -> BOOLEAN]
         /\ attach' \in [Proc -> [Radio -> AttachStep]]
<1>1. 1 \in Radio
  BY RadiosAssumption DEF Radio
<1>2. [r \in Radio |-> "dial"] \in [Radio -> AttachStep]
  BY DEF AttachStep
<1>3. "down" \in Step
  BY DEF Step
<1> QED BY <1>1, <1>2, <1>3 DEF TypeOK, Gone, Goes

\* What a connection leaves at the broker when its process ends.
LEMMA HangsTyped ==
  ASSUME TypeOK, NEW p \in Proc, Hangs(p)
  PROVE  /\ conn' \in [Proc -> Conn] /\ owner' \in Proc \union {None, Ghost}
         /\ status' \in {"online", "offline"} /\ discarded' \in BOOLEAN
<1>1. conn' \in [Proc -> Conn]
  BY DEF TypeOK, Hangs, Conn
<1>2. CASE conn[p] = "up"
  BY <1>1, <1>2 DEF TypeOK, Hangs, Publishes
<1>3. CASE conn[p] = "cut" /\ owner = p
  BY <1>1, <1>3 DEF TypeOK, Hangs
<1>4. CASE conn[p] # "up" /\ ~(conn[p] = "cut" /\ owner = p)
  BY <1>1, <1>4 DEF TypeOK, Hangs, broker
<1> QED BY <1>2, <1>3, <1>4

LEMMA TakesOverTyped ==
  ASSUME TypeOK, NEW p \in Proc, NEW end \in Conn, TakesOver(p, end)
  PROVE  /\ conn' \in [Proc -> Conn]
         /\ WillOfLast => status' \in {"online", "offline"} /\ discarded' \in BOOLEAN
<1>1. conn' \in [Proc -> Conn]
  BY DEF TypeOK, TakesOver, Conn
<1>2. WillOfLast => status' \in {"online", "offline"} /\ discarded' \in BOOLEAN
  BY DEF TypeOK, WillOfLast, Publishes
<1> QED BY <1>1, <1>2

\* The socket files after a connect and after a Close.
LEMMA BindsTyped ==
  ASSUME TypeOK, NEW p \in Proc, NEW f \in File, Binds(p, f)
  PROVE  /\ file' \in [File -> Proc \union {None, Crashed, Refused}]
         /\ linked' \in [Proc -> SUBSET File]
  BY DEF TypeOK, Binds

LEMMA ClosesTyped ==
  ASSUME TypeOK, NEW p \in Proc, NEW f \in File, Closes(p, f)
  PROVE  /\ file' \in [File -> Proc \union {None, Crashed, Refused}]
         /\ linked' \in [Proc -> SUBSET File]
  BY DEF TypeOK, Closes

LEMMA FileNames ==
  ASSUME NEW r \in Radio
  PROVE  <<"wp", r>> \in File /\ <<"wp-attach", r>> \in File
  BY DEF File

LEMMA AttachTyped ==
  ASSUME TypeOK, NEW p \in Proc, NEW r \in Radio, NEW s \in AttachStep, AttachGoes(p, r, s)
  PROVE  attach' \in [Proc -> [Radio -> AttachStep]]
  BY DEF TypeOK, AttachGoes

LEMMA TypeInit == Init => TypeOK
<1> SUFFICES ASSUME Init PROVE TypeOK
  OBVIOUS
<1>1. 1 \in Radio
  BY RadiosAssumption DEF Radio
<1> QED BY <1>1 DEF Init, TypeOK, Step, Conn, AttachStep

LEMMA TypeNext == TypeOK /\ [Next]_vars => TypeOK'
<1> SUFFICES ASSUME TypeOK, [Next]_vars PROVE TypeOK'
  OBVIOUS
<1> DEFINE Rest == UNCHANGED <<radio, signalled, attach, conn, linked, file, up, broker>>
<1>0. ASSUME NEW p \in Proc, NEW s \in Step, Goes(p, s), Rest PROVE TypeOK'
  BY <1>0, GoesTyped DEF TypeOK, broker
<1>1. ASSUME NEW p \in Proc, NewDaemon(p) PROVE TypeOK'
  BY <1>1, <1>0 DEF NewDaemon, Step
<1>2. ASSUME NEW p \in Proc, NewDaemonFails(p) PROVE TypeOK'
  BY <1>2, <1>0 DEF NewDaemonFails, Step
<1>3. ASSUME NEW p \in Proc, RunEnds(p) PROVE TypeOK'
  BY <1>3, <1>0 DEF RunEnds, Step
<1>4. ASSUME NEW p \in Proc, Waited(p) PROVE TypeOK'
  BY <1>4, <1>0 DEF Waited, Step
<1>5. ASSUME NEW p \in Proc, ClientsClosed(p) PROVE TypeOK'
  BY <1>5, <1>0 DEF ClientsClosed, Step
<1>6. ASSUME NEW p \in Proc, Start(p) PROVE TypeOK'
  BY <1>6, <1>0 DEF Start, Step
<1>7. ASSUME NEW p \in Proc, Signal(p) PROVE TypeOK'
  BY <1>7 DEF Signal, TypeOK, broker
<1>8. ASSUME NEW p \in Proc, Crash(p) PROVE TypeOK'
  BY <1>8, GoneTyped, HangsTyped DEF Crash, TypeOK
<1>9. ASSUME NEW p \in Proc, Cut(p) PROVE TypeOK'
  BY <1>9 DEF Cut, TypeOK, process, broker, Conn
<1>10. ASSUME NEW p \in Proc, ClientNotices(p) PROVE TypeOK'
  BY <1>10 DEF ClientNotices, TypeOK, process, Conn
<1>11. ASSUME NEW p \in Proc, NewMQTT(p) PROVE TypeOK'
  <2>1. conn' \in [Proc -> Conn] /\ status' \in {"online", "offline"} /\ discarded' \in BOOLEAN
    BY <1>11, TakesOverTyped DEF NewMQTT, Conn
  <2> QED BY <1>11, <2>1, GoesTyped DEF NewMQTT, TypeOK, Step
<1>31. ASSUME NEW p \in Proc, NewMQTTCancelled(p) PROVE TypeOK'
  <2>1. conn' \in [Proc -> Conn]
    BY <1>31, TakesOverTyped DEF NewMQTTCancelled, Conn
  <2> QED BY <1>31, <2>1, GoneTyped DEF NewMQTTCancelled, Publishes, TypeOK
<1>32. ASSUME NEW p \in Proc, NewMQTTCut(p) PROVE TypeOK'
  <2>1. conn' \in [Proc -> Conn] /\ status' \in {"online", "offline"} /\ discarded' \in BOOLEAN
    BY <1>32, TakesOverTyped DEF NewMQTTCut, Conn
  <2> QED BY <1>32, <2>1, GoneTyped DEF NewMQTTCut, TypeOK
<1>12. ASSUME NEW p \in Proc, NewMQTTFails(p) PROVE TypeOK'
  BY <1>12, GoneTyped, HangsTyped DEF NewMQTTFails, Exits, TypeOK
<1>13. ASSUME NEW p \in Proc, StatusOnlineFails(p) PROVE TypeOK'
  BY <1>13, GoneTyped, HangsTyped DEF StatusOnlineFails, Exits, TypeOK
<1>14. ASSUME NEW p \in Proc, StatusOnline(p) PROVE TypeOK'
  BY <1>14, GoesTyped DEF StatusOnline, Publishes, TypeOK, Step
<1>15. ASSUME NEW p \in Proc, StatusOffline(p) PROVE TypeOK'
  BY <1>15, GoesTyped DEF StatusOffline, Publishes, TypeOK, Step
<1>16. ASSUME NEW p \in Proc, StatusOfflineLate(p) PROVE TypeOK'
  BY <1>16, GoesTyped DEF StatusOfflineLate, Publishes, TypeOK, Step
<1>17. ASSUME NEW p \in Proc, NewClientDials(p) PROVE TypeOK'
  <2>1. <<"wp", radio[p]>> \in File
    BY FileNames DEF TypeOK
  <2> QED BY <1>17, <2>1, GoesTyped, BindsTyped DEF NewClientDials, TypeOK, Step, broker
<1>18. ASSUME NEW p \in Proc, NewClientPings(p) PROVE TypeOK'
  <2>1. radio[p] # Radios => radio[p] + 1 \in Radio
    BY RadiosAssumption DEF TypeOK, Radio
  <2> QED BY <1>18, <2>1, GoesTyped DEF NewClientPings, TypeOK, Step, broker
<1>19. ASSUME NEW p \in Proc, NewClientPingFails(p) PROVE TypeOK'
  <2>1. <<"wp", radio[p]>> \in File
    BY FileNames DEF TypeOK
  <2> QED BY <1>19, <2>1, GoesTyped, ClosesTyped DEF NewClientPingFails, TypeOK, Step, broker
<1>20. ASSUME NEW p \in Proc, ClientClose(p) PROVE TypeOK'
  BY <1>20, ClosesTyped, FileNames DEF ClientClose, Held, TypeOK, process, broker
<1>21. ASSUME NEW p \in Proc, Close(p) PROVE TypeOK'
  <2>1. CASE conn[p] = "up"
    BY <1>21, <2>1, GoneTyped DEF Close, TypeOK, Conn
  <2>2. CASE conn[p] # "up"
    BY <1>21, <2>2, GoneTyped, HangsTyped DEF Close, TypeOK
  <2> QED BY <2>1, <2>2
<1>22. ASSUME NEW p \in Proc, NEW r \in Radio, AttachDials(p, r) PROVE TypeOK'
  BY <1>22, BindsTyped, FileNames, AttachTyped, GoesTyped DEF AttachDials, AttachFails, AttachStep, TypeOK, Step, broker
<1>23. ASSUME NEW p \in Proc, NEW r \in Radio, Attached(p, r) PROVE TypeOK'
  BY <1>23, AttachTyped DEF Attached, AttachStep, TypeOK, broker
<1>24. ASSUME NEW p \in Proc, NEW r \in Radio, AttachErr(p, r) PROVE TypeOK'
  BY <1>24, ClosesTyped, FileNames, AttachTyped, GoesTyped DEF AttachErr, AttachFails, AttachStep, TypeOK, Step, broker
<1>25. ASSUME NEW p \in Proc, NEW r \in Radio, Detached(p, r) PROVE TypeOK'
  BY <1>25, ClosesTyped, FileNames, AttachTyped DEF Detached, AttachStep, TypeOK, broker
<1>26. ASSUME NEW r \in Radio, HostapdStarts(r) PROVE TypeOK'
  BY <1>26 DEF HostapdStarts, TypeOK, process, broker
<1>27. ASSUME NEW r \in Radio, HostapdEnds(r) PROVE TypeOK'
  BY <1>27 DEF HostapdEnds, TypeOK, process, broker
<1>28. ASSUME BrokerNotices PROVE TypeOK'
  BY <1>28 DEF BrokerNotices, Publishes, TypeOK, process
<1>29. ASSUME Tidy PROVE TypeOK'
  BY <1>29 DEF Tidy, TypeOK, process, broker
<1>30. CASE UNCHANGED vars
  BY <1>30 DEF vars, process, broker, TypeOK
<1> QED
  BY <1>1, <1>2, <1>3, <1>4, <1>5, <1>6, <1>7, <1>8, <1>9, <1>10, <1>11, <1>12, <1>13, <1>14,
     <1>15, <1>16, <1>17, <1>18, <1>19, <1>20, <1>21, <1>22, <1>23, <1>24, <1>25, <1>26, <1>27, <1>28, <1>29, <1>30, <1>31, <1>32
  DEF Next, ProcNext, AttachNext
\* In every behaviour the variables have their types.
THEOREM LifecycleTyped == Spec => []TypeOK
  BY TypeInit, TypeNext, PTL DEF Spec

------------------------------------------------------------------------------
(* The status topic                                                        *)

LEMMA StatusInit == Init => StatusInv
  BY TypeInit DEF Init, StatusInv, OwnerInv, OnlineInv, GoodbyeInv, OfflineWhenGone, Announced

\* A step that leaves the broker alone and brings nobody into a new phase.
LEMMA StatusQuiet ==
  ASSUME StatusInv, TypeOK', UNCHANGED <<conn, broker>>,
         \A q \in Proc : pc'[q] \in Announced => pc[q] \in Announced,
         \A q \in Proc : pc'[q] = "bye" => pc[q] = "bye"
  PROVE  StatusInv'
  BY DEF StatusInv, OwnerInv, OnlineInv, GoodbyeInv, OfflineWhenGone, broker

\* A step of one process that goes on within its phase.
LEMMA StatusGoes ==
  ASSUME StatusInv, TypeOK', NEW p \in Proc, NEW s, Goes(p, s),
         s \in Announced => pc[p] \in Announced, s # "bye",
         UNCHANGED <<conn, broker>>
  PROVE  StatusInv'
<1>1. \A q \in Proc : pc'[q] = IF q = p THEN s ELSE pc[q]
  BY DEF StatusInv, TypeOK, Goes
<1> QED BY <1>1, StatusQuiet

\* A process that ends without a DISCONNECT.
LEMMA StatusHangs ==
  ASSUME StatusInv, TypeOK', NEW p \in Proc, Gone(p), Hangs(p)
  PROVE  StatusInv'
<1> USE DEF StatusInv, OwnerInv, OnlineInv, GoodbyeInv, OfflineWhenGone
<1>1. \A q \in Proc : pc'[q] = IF q = p THEN "down" ELSE pc[q]
  BY DEF TypeOK, Gone, Goes
<1>2. \A q \in Proc : conn'[q] = IF q = p THEN "none" ELSE conn[q]
  BY DEF TypeOK, Hangs
<1>3. "down" \notin Announced /\ "down" # "bye" /\ "none" # "up"
  BY DEF Announced
<1>4. CASE conn[p] = "up"
  <2>1. \A q \in Proc : conn'[q] # "up"
    BY <1>2, <1>4
  <2>2. status' = "offline"
    BY <1>4 DEF Hangs, Publishes
  <2> QED BY <2>1, <2>2
<1>5. CASE conn[p] = "cut" /\ owner = p
  <2>1. \A q \in Proc : conn'[q] # "up"
    BY <1>2, <1>5
  <2>2. owner' = Ghost /\ Ghost # None
    BY <1>5, ProcAssumption DEF Hangs
  <2> QED BY <2>1, <2>2
<1>6. CASE conn[p] # "up" /\ ~(conn[p] = "cut" /\ owner = p)
  <2>1. UNCHANGED broker
    BY <1>6 DEF Hangs
  <2> QED BY <1>1, <1>2, <1>3, <2>1 DEF broker
<1> QED BY <1>4, <1>5, <1>6

LEMMA StatusNext == StatusInv /\ [Next]_vars => StatusInv'
<1> SUFFICES ASSUME StatusInv, [Next]_vars PROVE StatusInv'
  OBVIOUS
<1>0. TypeOK /\ TypeOK'
  BY TypeNext DEF StatusInv
<1>1. ASSUME NEW p \in Proc, NewDaemon(p) PROVE StatusInv'
  BY <1>1, <1>0, StatusGoes DEF NewDaemon, Announced
<1>2. ASSUME NEW p \in Proc, NewDaemonFails(p) PROVE StatusInv'
  BY <1>2, <1>0, StatusGoes DEF NewDaemonFails, Announced
<1>3. ASSUME NEW p \in Proc, RunEnds(p) PROVE StatusInv'
  BY <1>3, <1>0, StatusGoes DEF RunEnds, Announced
<1>4. ASSUME NEW p \in Proc, Waited(p) PROVE StatusInv'
  BY <1>4, <1>0, StatusGoes DEF Waited, Announced
<1>5. ASSUME NEW p \in Proc, ClientsClosed(p) PROVE StatusInv'
  BY <1>5, <1>0, StatusGoes DEF ClientsClosed, Announced
<1>6. ASSUME NEW p \in Proc, Start(p) PROVE StatusInv'
  BY <1>6, <1>0, StatusGoes DEF Start, Announced
<1>7. ASSUME NEW p \in Proc, NewClientDials(p) PROVE StatusInv'
  BY <1>7, <1>0, StatusGoes DEF NewClientDials, Announced
<1>8. ASSUME NEW p \in Proc, NewClientPings(p) PROVE StatusInv'
  BY <1>8, <1>0, StatusGoes DEF NewClientPings, Announced
<1>9. ASSUME NEW p \in Proc, NewClientPingFails(p) PROVE StatusInv'
  BY <1>9, <1>0, StatusGoes DEF NewClientPingFails, Announced
<1>10. ASSUME NEW p \in Proc, Signal(p) PROVE StatusInv'
  BY <1>10, <1>0, StatusQuiet DEF Signal, process
<1>11. ASSUME NEW p \in Proc, ClientClose(p) PROVE StatusInv'
  BY <1>11, <1>0, StatusQuiet DEF ClientClose, process
<1>12. ASSUME NEW p \in Proc, NEW r \in Radio, AttachDials(p, r) PROVE StatusInv'
  <2>1. UNCHANGED pc \/ Goes(p, "stop")
    BY <1>12 DEF AttachDials, AttachFails
  <2> QED BY <1>12, <1>0, <2>1, StatusQuiet, StatusGoes DEF AttachDials, Announced, Running
<1>13. ASSUME NEW p \in Proc, NEW r \in Radio, AttachErr(p, r) PROVE StatusInv'
  <2>1. UNCHANGED pc \/ Goes(p, "stop")
    BY <1>13 DEF AttachErr, AttachFails
  <2> QED BY <1>13, <1>0, <2>1, StatusQuiet, StatusGoes DEF AttachErr, Announced, Running
<1>14. ASSUME NEW p \in Proc, NEW r \in Radio, Attached(p, r) PROVE StatusInv'
  BY <1>14, <1>0, StatusQuiet DEF Attached
<1>15. ASSUME NEW p \in Proc, NEW r \in Radio, Detached(p, r) PROVE StatusInv'
  BY <1>15, <1>0, StatusQuiet DEF Detached
<1>16. ASSUME NEW r \in Radio, HostapdStarts(r) PROVE StatusInv'
  BY <1>16, <1>0, StatusQuiet DEF HostapdStarts, process
<1>17. ASSUME NEW r \in Radio, HostapdEnds(r) PROVE StatusInv'
  BY <1>17, <1>0, StatusQuiet DEF HostapdEnds, process
<1>18. ASSUME Tidy PROVE StatusInv'
  BY <1>18, <1>0, StatusQuiet DEF Tidy, process
<1>19. ASSUME NEW p \in Proc, NewMQTTFails(p) PROVE StatusInv'
  BY <1>19, <1>0, StatusHangs DEF NewMQTTFails, Exits
<1>20. ASSUME NEW p \in Proc, StatusOnlineFails(p) PROVE StatusInv'
  BY <1>20, <1>0, StatusHangs DEF StatusOnlineFails, Exits
<1>21. ASSUME NEW p \in Proc, Crash(p) PROVE StatusInv'
  BY <1>21, <1>0, StatusHangs DEF Crash
<1>22. ASSUME NEW p \in Proc, Cut(p) PROVE StatusInv'
  <2>1. \A q \in Proc : conn'[q] = "up" => conn[q] = "up"
    BY <1>22, <1>0 DEF Cut, TypeOK
  <2> QED BY <1>22, <1>0, <2>1 DEF StatusInv, OwnerInv, OnlineInv, GoodbyeInv, OfflineWhenGone, Cut, process, broker
<1>23. ASSUME BrokerNotices PROVE StatusInv'
  <2>1. \A q \in Proc : conn'[q] # "up"
    BY <1>23, <1>0, ProcAssumption DEF BrokerNotices, StatusInv, OwnerInv
  <2> QED BY <1>23, <1>0, <2>1 DEF StatusInv, OwnerInv, OnlineInv, GoodbyeInv, OfflineWhenGone, BrokerNotices, Publishes
<1>24. ASSUME NEW p \in Proc, ClientNotices(p) PROVE StatusInv'
  <2>1. \A q \in Proc : conn'[q] = "up" => conn[q] = "up" /\ q # p
    BY <1>24, <1>0 DEF ClientNotices, TypeOK
  <2>2. owner' = None => owner = None
    BY <1>24, ProcAssumption DEF ClientNotices
  <2>3. \A q \in Proc : conn'[q] = "up" => owner' = q
    BY <1>24, <2>1 DEF ClientNotices, StatusInv, OwnerInv
  <2> QED BY <1>24, <1>0, <2>1, <2>2, <2>3 DEF StatusInv, OwnerInv, OnlineInv, GoodbyeInv, OfflineWhenGone, ClientNotices, process
<1>25. ASSUME NEW p \in Proc, NewMQTT(p) PROVE StatusInv'
  <2>1. \A q \in Proc : conn'[q] = "up" => q = p
    BY <1>25, <1>0 DEF NewMQTT, TakesOver, StatusInv, OwnerInv
  <2>2. owner' = p /\ p # None
    BY <1>25, ProcAssumption DEF NewMQTT
  <2>3. pc'[p] = "online"
    BY <1>25, <1>0 DEF NewMQTT, Goes, TypeOK
  <2> QED BY <1>0, <2>1, <2>2, <2>3 DEF StatusInv, OwnerInv, OnlineInv, GoodbyeInv, OfflineWhenGone, Announced
<1>31. ASSUME NEW p \in Proc, NewMQTTCancelled(p) \/ NewMQTTCut(p) PROVE StatusInv'
  <2>1. \A q \in Proc : conn'[q] # "up"
    BY <1>31, <1>0 DEF NewMQTTCancelled, NewMQTTCut, TakesOver, StatusInv, OwnerInv
  <2>2. owner' # None \/ status' = "offline"
    BY <1>31, ProcAssumption DEF NewMQTTCancelled, NewMQTTCut, Publishes
  <2> QED BY <1>0, <2>1, <2>2 DEF StatusInv, OwnerInv, OnlineInv, GoodbyeInv, OfflineWhenGone
<1>26. ASSUME NEW p \in Proc, StatusOnline(p) PROVE StatusInv'
  <2>1. owner = p /\ p # None /\ \A q \in Proc : conn[q] = "up" => q = p
    BY <1>26, ProcAssumption DEF StatusOnline, StatusInv, OwnerInv
  <2>2. pc'[p] = "dial" /\ status' = "online"
    BY <1>26, <1>0 DEF StatusOnline, Goes, TypeOK, Publishes
  <2> QED BY <1>26, <1>0, <2>1, <2>2 DEF StatusInv, OwnerInv, OnlineInv, GoodbyeInv, OfflineWhenGone, StatusOnline
<1>27. ASSUME NEW p \in Proc, StatusOffline(p) PROVE StatusInv'
  <2>1. \A q \in Proc : pc'[q] = IF q = p THEN "bye" ELSE pc[q]
    BY <1>27, <1>0 DEF StatusOffline, Goes, TypeOK
  <2>2. CASE conn[p] = "up"
    <3>1. owner = p /\ \A q \in Proc : conn[q] = "up" => q = p
      BY <2>2 DEF StatusInv, OwnerInv
    <3>2. status' = "offline"
      BY <1>27, <2>2 DEF StatusOffline, Publishes
    <3> QED BY <1>27, <1>0, <2>1, <3>1, <3>2 DEF StatusInv, OwnerInv, OnlineInv, GoodbyeInv, OfflineWhenGone, StatusOffline, Announced
  <2>3. CASE conn[p] # "up"
    BY <1>27, <1>0, <2>1, <2>3 DEF StatusInv, OwnerInv, OnlineInv, GoodbyeInv, OfflineWhenGone, StatusOffline, Announced
  <2> QED BY <2>2, <2>3
<1>28. ASSUME NEW p \in Proc, StatusOfflineLate(p) PROVE StatusInv'
  <2>1. \A q \in Proc : pc'[q] = IF q = p THEN "bye" ELSE pc[q]
    BY <1>28, <1>0 DEF StatusOfflineLate, Goes, TypeOK
  <2>2. discarded' = TRUE
    BY <1>28 DEF StatusOfflineLate
  <2> QED BY <1>28, <1>0, <2>1, <2>2 DEF StatusInv, OwnerInv, OnlineInv, GoodbyeInv, OfflineWhenGone, StatusOfflineLate, Announced
<1>29. ASSUME NEW p \in Proc, Close(p) PROVE StatusInv'
  <2>1. CASE conn[p] = "up"
    <3>1. \A q \in Proc : conn[q] = "up" => q = p
      BY <2>1 DEF StatusInv, OwnerInv
    <3>2. \A q \in Proc : conn'[q] # "up"
      BY <1>29, <1>0, <2>1, <3>1 DEF Close, TypeOK
    <3>3. UNCHANGED <<status, discarded>> /\ (status = "online" => discarded)
      BY <1>29, <2>1 DEF Close, StatusInv, GoodbyeInv
    <3> QED BY <1>0, <3>2, <3>3 DEF StatusInv, OwnerInv, OnlineInv, GoodbyeInv, OfflineWhenGone
  <2>2. CASE conn[p] # "up"
    BY <1>29, <1>0, <2>2, StatusHangs DEF Close
  <2> QED BY <2>1, <2>2
<1>30. CASE UNCHANGED vars
  BY <1>30, <1>0, StatusQuiet DEF vars, process
<1> QED
  BY <1>1, <1>2, <1>3, <1>4, <1>5, <1>6, <1>7, <1>8, <1>9, <1>10, <1>11,
     <1>12, <1>13, <1>14, <1>15, <1>16, <1>17, <1>18, <1>19, <1>20, <1>21,
     <1>22, <1>23, <1>24, <1>25, <1>26, <1>27, <1>28, <1>29, <1>30, <1>31
  DEF Next, ProcNext, AttachNext

\* The status topic says online while nobody is connected only if the will was
\* discarded with an offline status that the broker had not taken: for any number
\* of processes that fail on their way up, lose their connection or are killed
\* (main.go:211-230, mqtt.go:67-96).
THEOREM OfflineIsRight == Spec => []OfflineWhenGone
<1>1. StatusInv => OfflineWhenGone
  BY DEF StatusInv
<1> QED BY <1>1, StatusInit, StatusNext, PTL DEF Spec

\* A daemon that runs on a connection that works is said to be online: whatever
\* other processes took the connection before, their wills and goodbyes come
\* before its own status (main.go:218-222).
THEOREM StatusIsRight == Spec => []OnlineWhileRunning
<1>1. StatusInv => OnlineWhileRunning
  BY DEF StatusInv, OnlineInv, OnlineWhileRunning, Announced
<1> QED BY <1>1, StatusInit, StatusNext, PTL DEF Spec

------------------------------------------------------------------------------
(* The socket files                                                        *)

MainSteps == {"dial", "ping", "daemon", "run", "stop", "close"}

LEMMA FileInit == Init => FileInv
<1> SUFFICES ASSUME Init PROVE FileInv
  OBVIOUS
<1>1. \A f \in File : file[f] \notin Proc
  BY ProcAssumption DEF Init
<1> QED BY <1>1, TypeInit, FileNames DEF FileInv, MainHeld, AttachHeld

\* A step that takes no file and does not leave the steps in which one is held.
LEMMA FileQuiet ==
  ASSUME FileInv, TypeOK',
         \A f \in File : file'[f] \in Proc => file'[f] = file[f],
         \A q \in Proc : pc[q] \in MainSteps => pc'[q] \in MainSteps,
         \A q \in Proc : \A r \in Radio :
            pc[q] \in {"run", "stop"} /\ attach[q][r] \in {"ping", "on"}
            => pc'[q] \in {"run", "stop"} /\ attach'[q][r] = attach[q][r]
  PROVE  FileInv'
<1>1. MainHeld'
  BY FileNames DEF FileInv, MainHeld, MainSteps
<1>2. ASSUME NEW q \in Proc, NEW r \in Radio, file'[<<"wp-attach", r>>] = q
      PROVE  pc'[q] \in {"run", "stop"} /\ attach'[q][r] \in {"ping", "on"}
  <2>1. file[<<"wp-attach", r>>] = q
    BY <1>2, FileNames
  <2>2. pc[q] \in {"run", "stop"} /\ attach[q][r] \in {"ping", "on"}
    BY <2>1 DEF FileInv, AttachHeld
  <2> QED BY <2>2
<1> QED BY <1>1, <1>2 DEF FileInv, AttachHeld

\* A step of one process, from a step of run to another.
LEMMA FileGoes ==
  ASSUME FileInv, TypeOK', NEW p \in Proc, NEW s, Goes(p, s),
         pc[p] \in MainSteps => s \in MainSteps,
         pc[p] \in {"run", "stop"} => s \in {"run", "stop"},
         UNCHANGED <<attach, file>>
  PROVE  FileInv'
<1>1. \A q \in Proc : pc'[q] = IF q = p THEN s ELSE pc[q]
  BY DEF FileInv, TypeOK, Goes
<1> QED BY <1>1, FileQuiet

\* A step of one process after which it holds nothing.
LEMMA FileLoses ==
  ASSUME FileInv, TypeOK', NEW p \in Proc,
         \A f \in File : file'[f] # p /\ (file'[f] \in Proc => file'[f] = file[f]),
         \A q \in Proc \ {p} : pc'[q] = pc[q] /\ attach'[q] = attach[q]
  PROVE  FileInv'
<1>1. MainHeld'
  BY FileNames DEF FileInv, MainHeld
<1>2. ASSUME NEW q \in Proc, NEW r \in Radio, file'[<<"wp-attach", r>>] = q
      PROVE  pc'[q] \in {"run", "stop"} /\ attach'[q][r] \in {"ping", "on"}
  <2>1. file[<<"wp-attach", r>>] = q /\ q # p
    BY <1>2, FileNames
  <2>2. pc[q] \in {"run", "stop"} /\ attach[q][r] \in {"ping", "on"}
    BY <2>1 DEF FileInv, AttachHeld
  <2> QED BY <2>1, <2>2
<1> QED BY <1>1, <1>2 DEF FileInv, AttachHeld

\* Outside the steps in which they may, nobody holds a file.
LEMMA HoldsNothing ==
  ASSUME FileInv, NEW p \in Proc, pc[p] \notin MainSteps
  PROVE  \A f \in File : file[f] # p
  BY DEF FileInv, MainHeld, AttachHeld, MainSteps, File

LEMMA FileNext == FileInv /\ [Next]_vars => FileInv'
<1> SUFFICES ASSUME FileInv, [Next]_vars PROVE FileInv'
  OBVIOUS
<1>0. TypeOK /\ TypeOK'
  BY TypeNext DEF FileInv
<1>1. ASSUME NEW p \in Proc, NewDaemon(p) PROVE FileInv'
  BY <1>1, <1>0, FileGoes DEF NewDaemon, MainSteps
<1>2. ASSUME NEW p \in Proc, NewDaemonFails(p) PROVE FileInv'
  BY <1>2, <1>0, FileGoes DEF NewDaemonFails, MainSteps
<1>3. ASSUME NEW p \in Proc, RunEnds(p) PROVE FileInv'
  BY <1>3, <1>0, FileGoes DEF RunEnds, MainSteps
<1>4. ASSUME NEW p \in Proc, StatusOnline(p) PROVE FileInv'
  BY <1>4, <1>0, FileGoes DEF StatusOnline, MainSteps
<1>5. ASSUME NEW p \in Proc, NewClientPings(p) PROVE FileInv'
  BY <1>5, <1>0, FileGoes DEF NewClientPings, MainSteps
<1>6. ASSUME NEW p \in Proc, Start(p) PROVE FileInv'
  BY <1>6, <1>0, FileGoes DEF Start, Alive, MainSteps
<1>7. ASSUME NEW p \in Proc, StatusOffline(p) PROVE FileInv'
  BY <1>7, <1>0, FileGoes DEF StatusOffline, Alive, MainSteps
<1>8. ASSUME NEW p \in Proc, StatusOfflineLate(p) PROVE FileInv'
  BY <1>8, <1>0, FileGoes DEF StatusOfflineLate, Alive, MainSteps
<1>9. ASSUME NEW p \in Proc, NewMQTT(p) PROVE FileInv'
  BY <1>9, <1>0, FileGoes DEF NewMQTT, Alive, MainSteps
<1>10. ASSUME NEW p \in Proc, Signal(p) PROVE FileInv'
  BY <1>10, <1>0, FileQuiet DEF Signal, process
<1>11. ASSUME NEW p \in Proc, Cut(p) PROVE FileInv'
  BY <1>11, <1>0, FileQuiet DEF Cut, process
<1>12. ASSUME NEW p \in Proc, ClientNotices(p) PROVE FileInv'
  BY <1>12, <1>0, FileQuiet DEF ClientNotices, process
<1>13. ASSUME NEW r \in Radio, HostapdStarts(r) PROVE FileInv'
  BY <1>13, <1>0, FileQuiet DEF HostapdStarts, process
<1>14. ASSUME NEW r \in Radio, HostapdEnds(r) PROVE FileInv'
  BY <1>14, <1>0, FileQuiet DEF HostapdEnds, process
<1>15. ASSUME BrokerNotices PROVE FileInv'
  BY <1>15, <1>0, FileQuiet DEF BrokerNotices, process
<1>16. ASSUME Tidy PROVE FileInv'
  <2>1. \A f \in File : file'[f] \in Proc => file'[f] = file[f]
    BY <1>16, ProcAssumption DEF Tidy
  <2> QED BY <1>16, <1>0, <2>1, FileQuiet DEF Tidy, process
<1>17. ASSUME NEW p \in Proc, NewMQTTFails(p) PROVE FileInv'
  <2>1. \A q \in Proc \ {p} : pc'[q] = pc[q] /\ attach'[q] = attach[q]
    BY <1>17, <1>0 DEF NewMQTTFails, Exits, Gone, Goes, TypeOK
  <2>2. pc[p] \notin MainSteps
    BY <1>17 DEF NewMQTTFails, MainSteps
  <2> QED BY <1>17, <1>0, <2>1, <2>2, HoldsNothing, FileLoses DEF NewMQTTFails
<1>31. ASSUME NEW p \in Proc, NewMQTTCancelled(p) \/ NewMQTTCut(p) PROVE FileInv'
  <2>1. \A q \in Proc \ {p} : pc'[q] = pc[q] /\ attach'[q] = attach[q]
    BY <1>31, <1>0 DEF NewMQTTCancelled, NewMQTTCut, Gone, Goes, TypeOK
  <2>2. pc[p] \notin MainSteps
    BY <1>31 DEF NewMQTTCancelled, NewMQTTCut, MainSteps
  <2> QED BY <1>31, <1>0, <2>1, <2>2, HoldsNothing, FileLoses DEF NewMQTTCancelled, NewMQTTCut
<1>18. ASSUME NEW p \in Proc, StatusOnlineFails(p) PROVE FileInv'
  <2>1. \A q \in Proc \ {p} : pc'[q] = pc[q] /\ attach'[q] = attach[q]
    BY <1>18, <1>0 DEF StatusOnlineFails, Exits, Gone, Goes, TypeOK
  <2>2. pc[p] \notin MainSteps
    BY <1>18 DEF StatusOnlineFails, MainSteps
  <2> QED BY <1>18, <1>0, <2>1, <2>2, HoldsNothing, FileLoses DEF StatusOnlineFails
<1>19. ASSUME NEW p \in Proc, Close(p) PROVE FileInv'
  <2>1. \A q \in Proc \ {p} : pc'[q] = pc[q] /\ attach'[q] = attach[q]
    BY <1>19, <1>0 DEF Close, Gone, Goes, TypeOK
  <2>2. pc[p] \notin MainSteps
    BY <1>19 DEF Close, MainSteps
  <2> QED BY <1>19, <1>0, <2>1, <2>2, HoldsNothing, FileLoses DEF Close
<1>20. ASSUME NEW p \in Proc, ClientsClosed(p) PROVE FileInv'
  <2>1. \A f \in File : file[f] # p
    BY <1>20, <1>0 DEF ClientsClosed, Held, FileInv, AttachHeld, File
  <2> QED BY <1>20, <1>0, <2>1, FileLoses DEF ClientsClosed, Goes, TypeOK
<1>21. ASSUME NEW p \in Proc, Waited(p) PROVE FileInv'
  <2>1. \A r \in Radio : file[<<"wp-attach", r>>] # p
    BY <1>21, <1>0 DEF Waited, FileInv, AttachHeld
  <2>2. \A q \in Proc : pc'[q] = IF q = p THEN "close" ELSE pc[q]
    BY <1>21, <1>0 DEF Waited, Goes, TypeOK
  <2> QED BY <1>21, <1>0, <2>1, <2>2 DEF Waited, FileInv, MainHeld, AttachHeld
<1>22. ASSUME NEW p \in Proc, Crash(p) PROVE FileInv'
  <2>1. \A q \in Proc \ {p} : pc'[q] = pc[q] /\ attach'[q] = attach[q]
    BY <1>22, <1>0 DEF Crash, Gone, Goes, TypeOK
  <2>2. \A f \in File : file'[f] = IF file[f] = p THEN Crashed ELSE file[f]
    BY <1>22 DEF Crash
  <2>3. \A f \in File : file'[f] # p /\ (file'[f] \in Proc => file'[f] = file[f])
    BY <2>2, ProcAssumption
  <2> QED BY <1>0, <2>1, <2>3, FileLoses
<1>23. ASSUME NEW p \in Proc, NewClientDials(p) PROVE FileInv'
  <2>1. radio[p] \in Radio
    BY <1>0 DEF TypeOK
  <2> DEFINE g == <<"wp", radio[p]>>
  <2>2. \A f \in File : file'[f] = file[f] \/ (f = g /\ file'[f] \in {p, Refused})
    BY <1>23, <1>0, <2>1, FileNames DEF NewClientDials, Binds, TypeOK
  <2>3. pc[p] = "dial" /\ \A q \in Proc : pc'[q] = IF q = p THEN IF file'[g] = p THEN "ping" ELSE "close"
                                                          ELSE pc[q]
    BY <1>23, <1>0 DEF NewClientDials, Goes, TypeOK
  <2>4. \A r \in Radio : <<"wp-attach", r>> # g
    OBVIOUS
  <2> HIDE DEF g
  <2>5. MainHeld'
    BY <2>2, <2>3, FileNames, ProcAssumption DEF FileInv, MainHeld
  <2>6. ASSUME NEW q \in Proc, NEW r \in Radio, file'[<<"wp-attach", r>>] = q
        PROVE  pc'[q] \in {"run", "stop"} /\ attach'[q][r] \in {"ping", "on"}
    <3>1. file[<<"wp-attach", r>>] = q
      BY <2>2, <2>4, <2>6, FileNames
    <3>2. pc[q] \in {"run", "stop"} /\ attach[q][r] \in {"ping", "on"}
      BY <3>1 DEF FileInv, AttachHeld
    <3>3. attach' = attach
      BY <1>23 DEF NewClientDials
    <3> QED BY <2>3, <3>2, <3>3
  <2> QED BY <1>0, <2>5, <2>6 DEF FileInv, AttachHeld
<1>24. ASSUME NEW p \in Proc, NewClientPingFails(p) PROVE FileInv'
  <2>1. \A f \in File : file'[f] = file[f] \/ file'[f] = None
    BY <1>24, <1>0 DEF NewClientPingFails, Closes, TypeOK
  <2>2. \A f \in File : file'[f] \in Proc => file'[f] = file[f]
    BY <2>1, ProcAssumption
  <2>3. pc[p] = "ping" /\ \A q \in Proc : pc'[q] = IF q = p THEN "close" ELSE pc[q]
    BY <1>24, <1>0 DEF NewClientPingFails, Goes, TypeOK
  <2> QED BY <1>24, <1>0, <2>2, <2>3, FileQuiet DEF NewClientPingFails, MainSteps
<1>25. ASSUME NEW p \in Proc, ClientClose(p) PROVE FileInv'
  <2>1. \A f \in File : file'[f] = file[f] \/ file'[f] = None
    BY <1>25, <1>0 DEF ClientClose, Closes, TypeOK
  <2>2. \A f \in File : file'[f] \in Proc => file'[f] = file[f]
    BY <2>1, ProcAssumption
  <2> QED BY <1>25, <1>0, <2>2, FileQuiet DEF ClientClose, process
<1>26. ASSUME NEW p \in Proc, NEW r \in Radio, AttachDials(p, r) PROVE FileInv'
  <2> DEFINE g == <<"wp-attach", r>>
  <2>1. \A f \in File : file'[f] = file[f] \/ (f = g /\ file'[f] \in {p, Refused})
    BY <1>26, <1>0, FileNames DEF AttachDials, Binds, TypeOK
  <2>2. pc[p] \in {"run", "stop"} /\ pc'[p] \in {"run", "stop"}
    BY <1>26, <1>0 DEF AttachDials, AttachFails, Goes, Running, TypeOK
  <2>3. \A q \in Proc \ {p} : pc'[q] = pc[q] /\ attach'[q] = attach[q]
    BY <1>26, <1>0 DEF AttachDials, AttachFails, AttachGoes, Goes, TypeOK
  <2>4. \A s \in Radio : attach'[p][s] = IF s = r THEN IF file'[g] = p THEN "ping" ELSE "done"
                                                 ELSE attach[p][s]
    BY <1>26, <1>0 DEF AttachDials, AttachFails, AttachGoes, TypeOK
  <2>5. \A s \in Radio : (<<"wp-attach", s>> = g <=> s = r) /\ <<"wp", s>> # g
    OBVIOUS
  <2> HIDE DEF g
  <2>6. attach[p][r] = "dial"
    BY <1>26 DEF AttachDials
  <2>7. MainHeld'
    BY <2>1, <2>2, <2>3, <2>5, FileNames DEF FileInv, MainHeld
  <2>8. \A q \in Proc, s \in Radio : file'[<<"wp-attach", s>>] = q => pc'[q] \in {"run", "stop"} /\ attach'[q][s] \in {"ping", "on"}
    <3> SUFFICES ASSUME NEW q \in Proc, NEW s \in Radio, file'[<<"wp-attach", s>>] = q
                 PROVE  pc'[q] \in {"run", "stop"} /\ attach'[q][s] \in {"ping", "on"}
      OBVIOUS
    <3>1. CASE s = r
      <4>1. file[<<"wp-attach", s>>] = q \/ q = p
        BY <2>1, <2>5, <3>1, FileNames, ProcAssumption
      <4>2. CASE q = p
        BY <2>2, <2>4, <2>5, <3>1, <4>2
      <4>3. CASE q # p
        <5>1. pc[q] \in {"run", "stop"} /\ attach[q][s] \in {"ping", "on"}
          BY <4>1, <4>3 DEF FileInv, AttachHeld
        <5> QED BY <2>3, <4>3, <5>1
      <4> QED BY <4>2, <4>3
    <3>2. CASE s # r
      <4>1. file[<<"wp-attach", s>>] = q
        BY <2>1, <2>5, <3>2, FileNames
      <4> QED BY <2>2, <2>3, <2>4, <3>2, <4>1 DEF FileInv, AttachHeld
    <3> QED BY <3>1, <3>2
  <2> QED BY <1>0, <2>7, <2>8 DEF FileInv, AttachHeld
<1>27. ASSUME NEW p \in Proc, NEW r \in Radio, Attached(p, r) PROVE FileInv'
  <2>1. \A q \in Proc : \A s \in Radio : attach'[q][s] = IF q = p /\ s = r THEN "on" ELSE attach[q][s]
    BY <1>27, <1>0 DEF Attached, AttachGoes, TypeOK
  <2> QED BY <1>27, <1>0, <2>1 DEF Attached, FileInv, MainHeld, AttachHeld
<1>28. ASSUME NEW p \in Proc, NEW r \in Radio, AttachErr(p, r) PROVE FileInv'
  <2> DEFINE g == <<"wp-attach", r>>
  <2>1. \A f \in File : file'[f] = IF f = g THEN None ELSE file[f]
    BY <1>28, <1>0, FileNames DEF AttachErr, Closes, TypeOK
  <2>2. pc[p] \in {"run", "stop"} /\ \A q \in Proc : pc'[q] = pc[q] \/ (q = p /\ pc'[q] = "stop")
    BY <1>28, <1>0 DEF AttachErr, AttachFails, Goes, Running, TypeOK
  <2>3. \A q \in Proc : \A s \in Radio : attach'[q][s] = IF q = p /\ s = r THEN "done" ELSE attach[q][s]
    BY <1>28, <1>0 DEF AttachErr, AttachFails, AttachGoes, TypeOK
  <2>4. \A s \in Radio : (<<"wp-attach", s>> = g <=> s = r) /\ <<"wp", s>> # g
    OBVIOUS
  <2> HIDE DEF g
  <2>5. MainHeld'
    BY <2>1, <2>2, <2>4, FileNames, ProcAssumption DEF FileInv, MainHeld
  <2>6. ASSUME NEW q \in Proc, NEW s \in Radio, file'[<<"wp-attach", s>>] = q
        PROVE  pc'[q] \in {"run", "stop"} /\ attach'[q][s] \in {"ping", "on"}
    <3>1. file[<<"wp-attach", s>>] = q /\ s # r
      BY <2>1, <2>4, <2>6, FileNames, ProcAssumption
    <3>2. pc[q] \in {"run", "stop"} /\ attach[q][s] \in {"ping", "on"}
      BY <3>1 DEF FileInv, AttachHeld
    <3> QED BY <2>2, <2>3, <3>1, <3>2
  <2> QED BY <1>0, <2>5, <2>6 DEF FileInv, AttachHeld
<1>29. ASSUME NEW p \in Proc, NEW r \in Radio, Detached(p, r) PROVE FileInv'
  <2> DEFINE g == <<"wp-attach", r>>
  <2>1. \A f \in File : file'[f] = IF f = g THEN None ELSE file[f]
    BY <1>29, <1>0, FileNames DEF Detached, Closes, TypeOK
  <2>2. pc[p] \in {"run", "stop"} /\ \A q \in Proc : pc'[q] = pc[q] \/ (q = p /\ pc'[q] = "stop")
    BY <1>29, <1>0 DEF Detached, Goes, Running, TypeOK
  <2>3. \A q \in Proc : \A s \in Radio : attach'[q][s] = IF q = p /\ s = r THEN "done" ELSE attach[q][s]
    BY <1>29, <1>0 DEF Detached, AttachGoes, TypeOK
  <2>4. \A s \in Radio : (<<"wp-attach", s>> = g <=> s = r) /\ <<"wp", s>> # g
    OBVIOUS
  <2> HIDE DEF g
  <2>5. MainHeld'
    BY <2>1, <2>2, <2>4, FileNames, ProcAssumption DEF FileInv, MainHeld
  <2>6. ASSUME NEW q \in Proc, NEW s \in Radio, file'[<<"wp-attach", s>>] = q
        PROVE  pc'[q] \in {"run", "stop"} /\ attach'[q][s] \in {"ping", "on"}
    <3>1. file[<<"wp-attach", s>>] = q /\ s # r
      BY <2>1, <2>4, <2>6, FileNames, ProcAssumption
    <3>2. pc[q] \in {"run", "stop"} /\ attach[q][s] \in {"ping", "on"}
      BY <3>1 DEF FileInv, AttachHeld
    <3> QED BY <2>2, <2>3, <3>1, <3>2
  <2> QED BY <1>0, <2>5, <2>6 DEF FileInv, AttachHeld
<1>30. CASE UNCHANGED vars
  BY <1>30, <1>0, FileQuiet DEF vars, process
<1> QED
  BY <1>1, <1>2, <1>3, <1>4, <1>5, <1>6, <1>7, <1>8, <1>9, <1>10, <1>11,
     <1>12, <1>13, <1>14, <1>15, <1>16, <1>17, <1>18, <1>19, <1>20, <1>21,
     <1>22, <1>23, <1>24, <1>25, <1>26, <1>27, <1>28, <1>29, <1>30, <1>31
  DEF Next, ProcNext, AttachNext

\* Every way out of run, but for a kill and a refused connect, removes the socket
\* files that the process has made: for any number of processes and radios, and
\* whatever happens to hostapd meanwhile.
THEOREM FilesAreClosed == Spec => []FilesAreHeld
<1>1. FileInv => FilesAreHeld
  BY DEF FileInv, MainHeld, AttachHeld, FilesAreHeld, Alive, File
<1> QED BY <1>1, FileInit, FileNext, PTL DEF Spec
=============================================================================
