------------------------- MODULE MqttPipelineProofs -------------------------
(***************************************************************************)
(* Configurations are handled in the order they were sent in, each once,   *)
(* and acknowledged only then, for any number of configurations, publishes *)
(* and identifiers.                                                        *)
(***************************************************************************)
EXTENDS MqttPipeline, SequenceTheorems, TLAPS

\* The handler waits for at most the publish that it has just sent.
WaitInv == router.id # None => router.pc = "wait"

TypeInv == TypeOK /\ WaitInv

\* How many configurations have come as far as the router, and so on backwards:
\* each goroutine holds at most one, and the router drops them once it has no
\* route.
Carries(p) == p # None /\ p.type = "publish"
ToRouter     == Len(handled) + (IF router.pc # "idle" THEN 1 ELSE 0)
ToDispatcher == ToRouter + dropped + (IF dispatcher # None THEN 1 ELSE 0)
ToForwarder  == ToDispatcher + (IF Carries(forwarder) THEN 1 ELSE 0)
ToIncoming   == ToForwarder + (IF Carries(incoming) THEN 1 ELSE 0)

\* Those that are still on the wire are the rest, in order.
InboxInv ==
    /\ \A i \in DOMAIN inbox : inbox[i].type = "publish" => inbox[i].id \in (ToIncoming + 1)..sent
    /\ \A i, j \in DOMAIN inbox :
          i < j /\ inbox[i].type = "publish" /\ inbox[j].type = "publish" => inbox[i].id < inbox[j].id
    /\ \A n \in (ToIncoming + 1)..sent :
          \E i \in DOMAIN inbox : inbox[i].type = "publish" /\ inbox[i].id = n

\* What each goroutine holds is the next one after those before it.
HeldInv ==
    /\ \A i \in DOMAIN handled : handled[i] = i
    /\ router.pc # "idle" => router.config = ToRouter
    /\ dispatcher # None => dispatcher.id = ToDispatcher
    /\ Carries(forwarder) => forwarder.id = ToForwarder
    /\ Carries(incoming) => incoming.id = ToIncoming
    /\ ToIncoming <= sent
    /\ acked \subseteq 1..Len(handled)

\* There is one subscription: the route that is gone does not come back.
RouteInv ==
    /\ dropped > 0 => ~listening
    /\ listening \/ sent > 0 => sub # "start"

PipelineInv == TypeInv /\ HeldInv /\ InboxInv /\ RouteInv

------------------------------------------------------------------------------
(* Packets                                                                 *)

LEMMA EndOfAppend ==
  ASSUME NEW S, NEW s \in Seq(S), NEW e \in S
  PROVE  /\ Append(s, e) \in Seq(S)
         /\ Len(Append(s, e)) = Len(s) + 1
         /\ DOMAIN Append(s, e) = 1..(Len(s) + 1)
         /\ \A i \in 1..Len(s) : Append(s, e)[i] = s[i]
         /\ Append(s, e)[Len(s) + 1] = e
  OBVIOUS

LEMMA RestOfTail ==
  ASSUME NEW S, NEW s \in Seq(S), s # <<>>
  PROVE  /\ Head(s) = s[1] /\ 1 \in DOMAIN s /\ s[1] \in S
         /\ Tail(s) \in Seq(S)
         /\ DOMAIN Tail(s) = 1..(Len(s) - 1)
         /\ \A i \in DOMAIN Tail(s) : i + 1 \in DOMAIN s /\ Tail(s)[i] = s[i + 1]
  OBVIOUS

LEMMA PacketTyped ==
  ASSUME NEW type \in Type, NEW qos \in 0..2, NEW id \in Id \union Configs \union {None}
  PROVE  /\ P(type, qos, id) \in Packet
         /\ P(type, qos, id).type = type /\ P(type, qos, id).id = id
  BY DEF P, Packet

\* What a client may send unasked.
Requests == {"publish", "subscribe", "unsubscribe"}

\* The broker never answers with a configuration or with a client's request.
LEMMA ReplyTyped ==
  ASSUME NEW p \in Packet
  PROVE  \/ Reply(p) = <<>>
         \/ \E q \in Packet : Reply(p) = <<q>> /\ q.type \notin Requests
<1>1. p.id \in Id \union Configs \union {None}
  BY DEF Packet
<1>2. ASSUME NEW type \in Type \ Requests, NEW id \in Id \union Configs \union {None},
             Reply(p) = <<P(type, 0, id)>>
      PROVE  \E q \in Packet : Reply(p) = <<q>> /\ q.type \notin Requests
  BY <1>2, PacketTyped
<1>3. CASE p.type = "publish"
  <2>1. PICK type \in {"pubrec", "puback"} : Reply(p) = <<P(type, 0, p.id)>>
    BY <1>3 DEF Reply
  <2> QED BY <1>1, <1>2, <2>1 DEF Type, Requests
<1>4. CASE p.type = "pubrel"
  <2>1. Reply(p) = <<P("pubcomp", 0, p.id)>>
    BY <1>4 DEF Reply
  <2> QED BY <1>1, <1>2, <2>1 DEF Type, Requests
<1>5. CASE p.type = "pubrec"
  <2>1. Reply(p) = <<P("pubrel", 0, p.id)>>
    BY <1>5 DEF Reply
  <2> QED BY <1>1, <1>2, <2>1 DEF Type, Requests
<1>6. CASE p.type = "subscribe"
  <2>1. Reply(p) = <<P("suback", 0, None)>>
    BY <1>6 DEF Reply
  <2> QED BY <1>2, <2>1 DEF Type, Requests
<1>7. CASE p.type = "unsubscribe"
  <2>1. Reply(p) = <<P("unsuback", 0, None)>>
    BY <1>7 DEF Reply
  <2> QED BY <1>2, <2>1 DEF Type, Requests
<1>8. CASE p.type \notin {"publish", "pubrel", "pubrec", "subscribe", "unsubscribe"}
  BY <1>8 DEF Reply
<1> QED BY <1>3, <1>4, <1>5, <1>6, <1>7, <1>8

\* What a client's packet adds to the wire.
Extends ==
    /\ inbox' \in Seq(Packet)
    /\ DOMAIN inbox \subseteq DOMAIN inbox'
    /\ \A i \in DOMAIN inbox : inbox'[i] = inbox[i]
    /\ \A i \in DOMAIN inbox' : i \in DOMAIN inbox \/ inbox'[i].type \notin Requests

LEMMA SendsExtends ==
  ASSUME TypeOK, NEW p \in Packet, Sends(p)
  PROVE  /\ Extends /\ listening' \in BOOLEAN /\ sent' = sent
         /\ acked' = IF p.type = "pubrec" THEN acked \union {p.id} ELSE acked
<1>1. inbox \in Seq(Packet) /\ inbox' = inbox \o Reply(p)
  BY DEF TypeOK, Sends
<1>2. CASE Reply(p) = <<>>
  <2>1. inbox' = inbox
    BY <1>1, <1>2
  <2> QED BY <1>1, <2>1 DEF Extends, Sends
<1>3. ASSUME NEW q \in Packet, Reply(p) = <<q>>, q.type \notin Requests
      PROVE  Extends
  <2>1. inbox' = Append(inbox, q)
    BY <1>1, <1>3
  <2>2. /\ inbox' \in Seq(Packet) /\ DOMAIN inbox' = 1..(Len(inbox) + 1) /\ Len(inbox) \in Nat
        /\ \A i \in 1..Len(inbox) : inbox'[i] = inbox[i]
        /\ inbox'[Len(inbox) + 1] = q /\ DOMAIN inbox = 1..Len(inbox)
    BY <1>1, <2>1, EndOfAppend
  <2> QED BY <1>3, <2>2 DEF Extends
<1> QED BY <1>2, <1>3, ReplyTyped DEF Sends

------------------------------------------------------------------------------
(* Where the configurations are                                            *)

LEMMA PipelineInit == Init => PipelineInv
<1> SUFFICES ASSUME Init PROVE PipelineInv
  OBVIOUS
<1>1. TypeInv
  <2>1. router \in [pc : RouterStep, config : Configs \union {None}, left : 0..MaxPublish,
                    id : Id \union {None}]
    BY PipelineAssumption DEF Init, Idle, RouterStep
  <2>2. token \in [Id -> TokenState] /\ \A i \in Id : token[i] # "pending"
    BY DEF Init, TokenState
  <2>3. sub \in SubStep /\ sent \in 0..MaxConfigs /\ handled \in Seq(Configs) /\ inbox \in Seq(Packet)
    BY PipelineAssumption DEF Init, SubStep
  <2>4. WaitInv
    BY DEF Init, WaitInv, Idle
  <2>5. acked \subseteq Configs /\ timeouts \in SUBSET [who : {"router", "event", "sub"}, backlog : BOOLEAN]
    BY DEF Init
  <2>6. \A held \in {incoming, forwarder, dispatcher} : held = None
    BY DEF Init
  <2>7. dispatcher = None /\ dropped \in Nat /\ event = None /\ errs \in 0..1
    BY DEF Init
  <2>8. done \in BOOLEAN /\ listening \in BOOLEAN
    BY ZenonT(30) DEF Init
  <2> QED BY <2>1, <2>2, <2>3, <2>4, <2>5, <2>6, <2>7, <2>8 DEF TypeInv, TypeOK
<1>2. ToIncoming = 0 /\ sent = 0 /\ handled = <<>> /\ acked = {} /\ inbox = <<>> /\ router.pc = "idle"
  BY DEF Init, Idle, ToIncoming, ToForwarder, ToDispatcher, ToRouter, Carries
<1>3. HeldInv
  BY <1>2 DEF HeldInv, Init, Carries
<1>4. InboxInv
  BY <1>2 DEF InboxInv
<1>5. RouteInv
  BY DEF Init, RouteInv
<1> QED BY <1>1, <1>3, <1>4, <1>5 DEF PipelineInv

\* As many as have come to a goroutine have been sent.
LEMMA Positions ==
  ASSUME PipelineInv
  PROVE  /\ Len(handled) \in Nat /\ sent \in Nat /\ sent <= MaxConfigs
         /\ dropped \in Nat /\ ToRouter \in Nat /\ ToDispatcher \in Nat /\ ToForwarder \in Nat /\ ToIncoming \in Nat
         /\ Len(handled) <= ToRouter /\ ToRouter <= ToDispatcher
         /\ ToDispatcher <= ToForwarder /\ ToForwarder <= ToIncoming /\ ToIncoming <= sent
         /\ router.pc # "idle" => router.config \in Configs /\ ToRouter = Len(handled) + 1
         /\ dispatcher # None => dispatcher.id \in Configs
<1>1. /\ Len(handled) \in Nat /\ sent \in Nat /\ sent <= MaxConfigs /\ MaxConfigs \in Nat
      /\ dropped \in Nat
  BY PipelineAssumption DEF PipelineInv, TypeInv, TypeOK
<1>2. ToRouter \in Nat /\ Len(handled) <= ToRouter
      /\ (router.pc # "idle" => ToRouter = Len(handled) + 1)
  BY <1>1 DEF ToRouter
<1>3. ToDispatcher \in Nat /\ ToRouter <= ToDispatcher /\ (dispatcher # None => ToDispatcher > 0)
  BY <1>1, <1>2 DEF ToDispatcher
<1>4. ToForwarder \in Nat /\ ToDispatcher <= ToForwarder
  BY <1>3 DEF ToForwarder
<1>5. ToIncoming \in Nat /\ ToForwarder <= ToIncoming
  BY <1>4 DEF ToIncoming
<1>6. ToIncoming <= sent
  BY DEF PipelineInv, HeldInv
<1>7. ToRouter <= MaxConfigs /\ ToDispatcher <= MaxConfigs
  BY <1>1, <1>2, <1>3, <1>4, <1>5, <1>6
<1>8. router.pc # "idle" => router.config \in Configs
  BY <1>1, <1>2, <1>7 DEF PipelineInv, HeldInv, Configs
<1>9. dispatcher # None => dispatcher.id \in Configs
  BY <1>1, <1>3, <1>7 DEF PipelineInv, HeldInv, Configs
<1> QED BY <1>1, <1>2, <1>3, <1>4, <1>5, <1>6, <1>8, <1>9

\* Nothing on the wire changes that carries a configuration.
LEMMA InboxKept ==
  ASSUME InboxInv, Extends \/ inbox' = inbox, ToIncoming' = ToIncoming, sent' = sent
  PROVE  InboxInv'
<1>1. CASE inbox' = inbox
  BY <1>1 DEF InboxInv
<1>2. CASE Extends
  <2> DEFINE n == ToIncoming
  <2>1. ASSUME NEW i \in DOMAIN inbox', inbox'[i].type = "publish"
        PROVE  i \in DOMAIN inbox /\ inbox'[i] = inbox[i]
    BY <1>2, <2>1 DEF Extends, Requests
  <2>2. ASSUME NEW i \in DOMAIN inbox', inbox'[i].type = "publish"
        PROVE  inbox'[i].id \in (ToIncoming' + 1)..sent'
    BY <2>1, <2>2 DEF InboxInv
  <2>3. ASSUME NEW i \in DOMAIN inbox', NEW j \in DOMAIN inbox', i < j,
               inbox'[i].type = "publish", inbox'[j].type = "publish"
        PROVE  inbox'[i].id < inbox'[j].id
    BY <2>1, <2>3 DEF InboxInv
  <2>4. ASSUME NEW k \in (ToIncoming' + 1)..sent'
        PROVE  \E i \in DOMAIN inbox' : inbox'[i].type = "publish" /\ inbox'[i].id = k
    <3>1. PICK i \in DOMAIN inbox : inbox[i].type = "publish" /\ inbox[i].id = k
      BY <2>4 DEF InboxInv
    <3> QED BY <1>2, <3>1 DEF Extends
  <2> QED BY <2>2, <2>3, <2>4 DEF InboxInv
<1> QED BY <1>1, <1>2

\* The wires as a packet is read: what is left, and which configuration was next.
LEMMA InboxRead ==
  ASSUME PipelineInv, inbox # <<>>, inbox' = Tail(inbox), sent' = sent,
         ToIncoming' = ToIncoming + (IF Head(inbox).type = "publish" THEN 1 ELSE 0)
  PROVE  /\ InboxInv'
         /\ Head(inbox).type = "publish" => Head(inbox).id = ToIncoming + 1 /\ ToIncoming + 1 <= sent
<1>1. /\ ToIncoming \in Nat /\ sent \in Nat /\ InboxInv /\ inbox \in Seq(Packet)
  BY Positions DEF PipelineInv, TypeInv, TypeOK
<1>2. /\ Head(inbox) = inbox[1] /\ 1 \in DOMAIN inbox /\ DOMAIN inbox = 1..Len(inbox)
      /\ Len(inbox) \in Nat /\ DOMAIN inbox' = 1..(Len(inbox) - 1)
      /\ \A i \in DOMAIN inbox' : i + 1 \in DOMAIN inbox /\ inbox'[i] = inbox[i + 1]
  BY <1>1, RestOfTail
<1>3. ASSUME NEW i \in DOMAIN inbox, i # 1
      PROVE  i - 1 \in DOMAIN inbox' /\ inbox'[i - 1] = inbox[i] /\ 1 < i
  BY <1>2, <1>3
<1>4. ASSUME Head(inbox).type = "publish"
      PROVE  Head(inbox).id = ToIncoming + 1 /\ ToIncoming + 1 <= sent
  <2>1. inbox[1].id \in (ToIncoming + 1)..sent
    BY <1>2, <1>4 DEF PipelineInv, InboxInv
  <2>2. ToIncoming + 1 \in (ToIncoming + 1)..sent
    BY <1>1, <2>1
  <2>3. PICK i \in DOMAIN inbox : inbox[i].type = "publish" /\ inbox[i].id = ToIncoming + 1
    BY <1>1, <2>2 DEF InboxInv
  <2>4. i # 1 => inbox[1].id < ToIncoming + 1
    BY SMTT(30), <1>1, <1>2, <1>3, <1>4, <2>3 DEF InboxInv
  <2> QED BY <1>1, <1>2, <2>1, <2>3, <2>4
<1>5. ASSUME NEW i \in DOMAIN inbox', inbox'[i].type = "publish"
      PROVE  inbox'[i].id \in (ToIncoming' + 1)..sent'
  <2>1. /\ i + 1 \in DOMAIN inbox /\ inbox'[i] = inbox[i + 1] /\ 1 < i + 1
        /\ inbox[i + 1].id \in (ToIncoming + 1)..sent
    BY <1>1, <1>2, <1>5 DEF InboxInv
  <2>2. CASE Head(inbox).type = "publish"
    <3>1. inbox[1].id < inbox[i + 1].id
      BY <1>1, <1>2, <1>5, <2>1, <2>2 DEF InboxInv
    <3> QED BY <1>1, <1>2, <1>4, <2>1, <2>2, <3>1
  <2>3. CASE Head(inbox).type # "publish"
    BY <1>1, <2>1, <2>3
  <2> QED BY <2>2, <2>3
<1>6. ASSUME NEW i \in DOMAIN inbox', NEW j \in DOMAIN inbox', i < j,
             inbox'[i].type = "publish", inbox'[j].type = "publish"
      PROVE  inbox'[i].id < inbox'[j].id
  <2>1. i + 1 < j + 1
    BY <1>2, <1>6
  <2> QED BY SMTT(30), <1>1, <1>2, <1>6, <2>1 DEF InboxInv
<1>7. ASSUME NEW n \in (ToIncoming' + 1)..sent'
      PROVE  \E i \in DOMAIN inbox' : inbox'[i].type = "publish" /\ inbox'[i].id = n
  <2>1. n \in (ToIncoming + 1)..sent /\ (Head(inbox).type = "publish" => n # ToIncoming + 1)
    BY <1>1, <1>7
  <2>2. PICK i \in DOMAIN inbox : inbox[i].type = "publish" /\ inbox[i].id = n
    BY <1>1, <2>1 DEF InboxInv
  <2>3. i # 1
    BY <1>2, <1>4, <2>1, <2>2
  <2> QED BY <1>3, <2>2, <2>3
<1> QED BY <1>4, <1>5, <1>6, <1>7 DEF InboxInv

------------------------------------------------------------------------------
(* Types                                                                   *)

LEMMA CompletesTyped ==
  ASSUME TypeInv, NEW p \in Packet, Completes(p)
  PROVE  /\ token' \in [Id -> TokenState] /\ sub' \in SubStep
         /\ router' \in [pc : RouterStep, config : Configs \union {None}, left : 0..MaxPublish,
                         id : Id \union {None}]
         /\ event' \in Id \union {None}
         /\ \A i \in Id : token'[i] = "pending" => i \in {router'.id, event'}
         /\ WaitInv'
         /\ (router'.pc # "idle" <=> router.pc # "idle") /\ router'.config = router.config
<1>1. /\ router \in [pc : RouterStep, config : Configs \union {None}, left : 0..MaxPublish,
                     id : Id \union {None}]
      /\ token \in [Id -> TokenState] /\ event \in Id \union {None} /\ sub \in SubStep
      /\ \A i \in Id : token[i] = "pending" => i \in {router.id, event}
      /\ router.id # None => router.pc = "wait"
  BY DEF TypeInv, TypeOK, WaitInv
<1>2. token' \in [Id -> TokenState] /\ sub' \in SubStep /\ event' \in Id \union {None}
  BY <1>1 DEF Completes, TokenState, SubStep
<1>3. CASE router.id # None /\ router.id = p.id
  <2>1. router' = [router EXCEPT !.pc = "callback", !.id = None] /\ p.id \in Id
    BY <1>1, <1>3, PipelineAssumption DEF Completes
  <2>2. \A i \in Id : token'[i] = "pending" => i # p.id /\ token[i] = "pending"
    BY <1>1, <2>1 DEF Completes
  <2>3. \A i \in Id : token'[i] = "pending" => i = event'
    BY <1>1, <1>3, <2>2 DEF Completes
  <2>4. /\ router' \in [pc : RouterStep, config : Configs \union {None}, left : 0..MaxPublish,
                        id : Id \union {None}]
        /\ router'.pc = "callback" /\ router'.id = None /\ router'.config = router.config
    BY <1>1, <2>1 DEF RouterStep
  <2> QED BY <1>1, <1>2, <1>3, <2>3, <2>4 DEF WaitInv
<1>4. CASE ~(router.id # None /\ router.id = p.id)
  <2>1. router' = router
    BY <1>4 DEF Completes
  <2>2. ASSUME NEW i \in Id, token'[i] = "pending" PROVE i \in {router'.id, event'}
    <3>1. token[i] = "pending" /\ i # p.id
      BY <1>1, <2>2 DEF Completes
    <3> QED BY <1>1, <2>1, <3>1 DEF Completes
  <2> QED BY <1>1, <1>2, <2>1, <2>2 DEF WaitInv
<1> QED BY <1>3, <1>4

\* The token that a publish takes is a free one.
LEMMA NextIdFree ==
  ASSUME FreeIds # {}
  PROVE  NextId \in Id
  BY DEF NextId, FreeIds

\* What sends leaves the rest of the types to the other variables.
LEMMA SendsTyped ==
  ASSUME TypeInv, NEW p \in Packet, Sends(p), p.type = "pubrec" => p.id \in Configs
  PROVE  inbox' \in Seq(Packet) /\ listening' \in BOOLEAN /\ sent' = sent /\ acked' \subseteq Configs
<1>1. acked \subseteq Configs
  BY DEF TypeInv, TypeOK
<1> QED BY <1>1, SendsExtends DEF TypeInv, Extends

LEMMA TypeNext == PipelineInv /\ [Next]_vars => TypeInv'
<1> SUFFICES ASSUME PipelineInv, [Next]_vars PROVE TypeInv'
  OBVIOUS
<1> DEFINE Routers == [pc : RouterStep, config : Configs \union {None}, left : 0..MaxPublish,
                       id : Id \union {None}]
<1>1. TypeInv /\ TypeOK /\ WaitInv
  BY DEF PipelineInv, TypeInv
<1>2. /\ inbox \in Seq(Packet)
      /\ \A held \in {incoming, forwarder, dispatcher} : held \in Packet \union {None}
      /\ dispatcher # None => dispatcher.type = "publish"
      /\ dropped \in Nat
      /\ router \in Routers /\ event \in Id \union {None} /\ token \in [Id -> TokenState]
      /\ \A i \in Id : token[i] = "pending" => i \in {router.id, event}
      /\ sub \in SubStep /\ errs \in 0..1 /\ done \in BOOLEAN
      /\ sent \in 0..MaxConfigs /\ listening \in BOOLEAN
      /\ handled \in Seq(Configs) /\ acked \subseteq Configs
      /\ timeouts \in SUBSET [who : {"router", "event", "sub"}, backlog : BOOLEAN]
      /\ router.id # None => router.pc = "wait"
  BY <1>1 DEF TypeOK, WaitInv
<1>3. CASE BrokerConfigures
  <2>1. sent + 1 \in Configs /\ sent + 1 \in 0..MaxConfigs
    BY <1>2, <1>3, PipelineAssumption DEF BrokerConfigures, Configs
  <2>2. P("publish", 2, sent + 1) \in Packet
    BY <2>1, PacketTyped DEF Type
  <2>3. inbox' \in Seq(Packet) /\ sent' \in 0..MaxConfigs
    BY <1>2, <1>3, <2>1, <2>2, EndOfAppend DEF BrokerConfigures
  <2> QED BY <1>2, <1>3, <2>3 DEF BrokerConfigures, TypeInv, TypeOK, WaitInv, reading, consumer
<1>4. CASE IncomingReads
  <2>1. Head(inbox) \in Packet /\ inbox' \in Seq(Packet)
    BY <1>2, <1>4, RestOfTail DEF IncomingReads
  <2>2. CASE Head(inbox).type \in Completing
    BY <1>1, <1>2, <1>4, <2>1, <2>2, CompletesTyped DEF IncomingReads, TypeInv, TypeOK, broker
  <2>3. CASE Head(inbox).type \notin Completing
    BY <1>2, <1>4, <2>1, <2>3 DEF IncomingReads, TypeInv, TypeOK, WaitInv, broker
  <2> QED BY <2>2, <2>3
<1>5. CASE IncomingHandsOver
  BY <1>2, <1>5 DEF IncomingHandsOver, TypeInv, TypeOK, WaitInv, consumer, broker
<1>6. CASE ForwarderWrites
  <2> DEFINE type == IF forwarder.type = "pubrec" THEN "pubrel" ELSE "pubcomp"
  <2>1. forwarder.id \in Id \union Configs \union {None} /\ type \in Type \ {"pubrec"}
    BY <1>2, <1>6 DEF ForwarderWrites, Packet, Type
  <2>2. P(type, 0, forwarder.id) \in Packet /\ P(type, 0, forwarder.id).type # "pubrec"
    BY <2>1, PacketTyped
  <2>3. Sends(P(type, 0, forwarder.id))
    BY <1>6 DEF ForwarderWrites
  <2>4. inbox' \in Seq(Packet) /\ listening' \in BOOLEAN /\ sent' = sent /\ acked' \subseteq Configs
    BY <1>1, <2>2, <2>3, SendsTyped
  <2> QED BY <1>2, <1>6, <2>4 DEF ForwarderWrites, TypeInv, TypeOK, WaitInv, consumer
<1>7. CASE ForwarderHandsOver
  BY <1>2, <1>7 DEF ForwarderHandsOver, TypeInv, TypeOK, WaitInv, consumer, broker
<1>8. CASE RouterTakes
  <2>1. dispatcher.id \in Configs
    BY <1>8, Positions DEF RouterTakes
  <2>2. router' = [pc |-> "decode", config |-> dispatcher.id, left |-> 0, id |-> None]
    BY <1>8 DEF RouterTakes, Idle
  <2>3. router' \in Routers /\ router'.id = None
    BY <2>1, <2>2, PipelineAssumption DEF RouterStep
  <2>4. router.id = None
    BY <1>2, <1>8 DEF RouterTakes
  <2> QED BY <1>2, <1>8, <2>3, <2>4 DEF RouterTakes, TypeInv, TypeOK, WaitInv, broker
<1>23. CASE RouterDrops
  <2>1. dropped' \in Nat /\ dispatcher' = None
    BY <1>2, <1>23 DEF RouterDrops
  <2> QED BY <1>2, <1>23, <2>1 DEF RouterDrops, TypeInv, TypeOK, WaitInv, consumer, broker
<1>9. CASE Decode
  <2>1. router' \in Routers /\ router'.id = None /\ router.id = None
    BY <1>2, <1>9 DEF Decode, RouterGoes, RouterStep
  <2>2. UNCHANGED <<inbox, reading, event, token, sub, errs, done, broker, handled, timeouts>>
    BY <1>9 DEF Decode, RouterGoes, SendsNothing
  <2> QED BY <1>2, <2>1, <2>2 DEF TypeInv, TypeOK, WaitInv, reading, broker
<1>10. ASSUME NEW q \in 1..2, Sends(P("publish", q, NextId)), FreeIds # {}
       PROVE  inbox' \in Seq(Packet) /\ listening' \in BOOLEAN /\ sent' = sent /\ acked' \subseteq Configs
  <2>1. P("publish", q, NextId) \in Packet /\ P("publish", q, NextId).type # "pubrec"
    BY <1>10, NextIdFree, PacketTyped DEF Type
  <2> QED BY <1>1, <1>10, <2>1, SendsTyped
<1>11. CASE CallbackPublishes
  <2>1. NextId \in Id /\ inbox' \in Seq(Packet) /\ listening' \in BOOLEAN /\ sent' = sent /\ acked' \subseteq Configs
    BY <1>10, <1>11, NextIdFree DEF CallbackPublishes
  <2>2. router.pc = "callback" /\ router.left > 0 /\ router.id = None
    BY <1>2, <1>11 DEF CallbackPublishes
  <2>3. router' \in Routers /\ router'.id = NextId /\ router'.pc = "wait"
    <3>1. router' = [router EXCEPT !.pc = "wait", !.left = @ - 1, !.id = NextId]
      BY <1>11 DEF CallbackPublishes, RouterGoes
    <3>2. router.left - 1 \in 0..MaxPublish
      BY <1>2, <2>2, PipelineAssumption
    <3> QED BY <1>2, <2>1, <3>1, <3>2 DEF RouterStep
  <2>4. token' \in [Id -> TokenState] /\ \A i \in Id : token'[i] = "pending" => i \in {router'.id, event}
    <3>1. token' = [token EXCEPT ![NextId] = "pending"]
      BY <1>11 DEF CallbackPublishes
    <3>2. ASSUME NEW i \in Id, token'[i] = "pending" PROVE i = NextId \/ i = event
      BY <1>2, <2>2, <3>1, <3>2, PipelineAssumption
    <3> QED BY <1>2, <2>1, <2>3, <3>1, <3>2 DEF TokenState
  <2> QED BY <1>2, <1>11, <2>1, <2>3, <2>4
          DEF CallbackPublishes, RouterGoes, TypeInv, TypeOK, WaitInv, reading
<1>12. CASE CallbackReturns \/ OnError
  <2>1. router' \in Routers /\ router'.id = None /\ router.id = None /\ errs' \in 0..1
    BY <1>2, <1>12 DEF CallbackReturns, OnError, RouterGoes, RouterStep
  <2> QED BY <1>2, <1>12, <2>1
          DEF CallbackReturns, OnError, RouterGoes, SendsNothing, TypeInv, TypeOK, WaitInv, reading, broker
<1>13. CASE Ack
  <2>1. router.config \in Configs
    BY <1>13, Positions DEF Ack
  <2>2. /\ P("pubrec", 0, router.config) \in Packet
        /\ P("pubrec", 0, router.config).id \in Configs
    BY <2>1, PacketTyped DEF Type
  <2>3. inbox' \in Seq(Packet) /\ listening' \in BOOLEAN /\ sent' = sent /\ acked' \subseteq Configs
    BY <1>1, <1>13, <2>2, SendsTyped DEF Ack
  <2>4. handled' \in Seq(Configs)
    BY <1>2, <1>13, <2>1, EndOfAppend DEF Ack
  <2>5. router' \in Routers /\ router'.id = None /\ router.id = None
    BY <1>2, <1>13, PipelineAssumption DEF Ack, RouterGoes, Idle, RouterStep
  <2> QED BY <1>2, <1>13, <2>3, <2>4, <2>5 DEF Ack, RouterGoes, TypeInv, TypeOK, WaitInv, reading
<1>14. CASE EventPublishes
  <2>1. NextId \in Id /\ inbox' \in Seq(Packet) /\ listening' \in BOOLEAN /\ sent' = sent /\ acked' \subseteq Configs
    BY <1>10, <1>14, NextIdFree DEF EventPublishes
  <2>2. event = None /\ event' = NextId
    BY <1>14 DEF EventPublishes
  <2>3. token' \in [Id -> TokenState] /\ \A i \in Id : token'[i] = "pending" => i \in {router.id, event'}
    BY <1>2, <1>14, <2>1, <2>2, PipelineAssumption DEF EventPublishes, TokenState
  <2> QED BY <1>2, <1>14, <2>1, <2>2, <2>3 DEF EventPublishes, TypeInv, TypeOK, WaitInv, reading
<1>15. ASSUME NEW type \in {"subscribe", "unsubscribe"}, Sends(P(type, 0, None))
       PROVE  inbox' \in Seq(Packet) /\ listening' \in BOOLEAN /\ sent' = sent /\ acked' \subseteq Configs
  <2>1. P(type, 0, None) \in Packet /\ P(type, 0, None).type # "pubrec"
    BY PacketTyped DEF Type
  <2> QED BY <1>1, <1>15, <2>1, SendsTyped
<1>16. CASE Subscribe \/ SubscribeEnds
  <2>1. inbox' \in Seq(Packet) /\ listening' \in BOOLEAN /\ sent' = sent /\ acked' \subseteq Configs
    BY <1>15, <1>16 DEF Subscribe, SubscribeEnds
  <2>2. sub' \in SubStep /\ errs' \in 0..1
    BY <1>2, <1>16 DEF Subscribe, SubscribeEnds, SubGoes, SubStep
  <2> QED BY <1>2, <1>16, <2>1, <2>2
          DEF Subscribe, SubscribeEnds, SubGoes, TypeInv, TypeOK, WaitInv, reading
<1>17. CASE Cancel
  BY <1>2, <1>17 DEF Cancel, TypeInv, TypeOK, WaitInv, reading, broker
<1>18. ASSUME NEW who \in {"router", "event", "sub"}, GivesUp(who)
       PROVE  /\ timeouts' \in SUBSET [who : {"router", "event", "sub"}, backlog : BOOLEAN]
              /\ UNCHANGED <<inbox, reading, broker, handled>>
  <2>1. Backlog \in BOOLEAN
    BY DEF Backlog
  <2> QED BY <1>2, <1>18, <2>1 DEF GivesUp
<1>19. CASE CallbackTimeout
  <2>1. /\ token' = [token EXCEPT ![router.id] = "orphan"]
        /\ router' = [router EXCEPT !.pc = "report", !.id = None]
        /\ UNCHANGED <<event, sub, errs, done>>
    BY <1>19 DEF CallbackTimeout
  <2>2. router' \in Routers /\ router'.id = None
    BY <1>2, <2>1 DEF RouterStep
  <2>3. token' \in [Id -> TokenState] /\ \A i \in Id : token'[i] = "pending" => i = event
    BY <1>2, <2>1 DEF TokenState
  <2>4. /\ timeouts' \in SUBSET [who : {"router", "event", "sub"}, backlog : BOOLEAN]
        /\ UNCHANGED <<inbox, reading, broker, handled>>
    BY <1>18, <1>19 DEF CallbackTimeout
  <2> QED BY <1>2, <2>1, <2>2, <2>3, <2>4 DEF TypeInv, TypeOK, WaitInv, reading, broker
<1>20. CASE EventTimeout
  <2>1. token' = [token EXCEPT ![event] = "orphan"] /\ event' = None /\ done' = TRUE
        /\ UNCHANGED <<router, sub, errs>>
    BY <1>20 DEF EventTimeout
  <2>2. token' \in [Id -> TokenState] /\ \A i \in Id : token'[i] = "pending" => i = router.id
    BY <1>2, <2>1 DEF TokenState
  <2>3. /\ timeouts' \in SUBSET [who : {"router", "event", "sub"}, backlog : BOOLEAN]
        /\ UNCHANGED <<inbox, reading, broker, handled>>
    BY <1>18, <1>20 DEF EventTimeout
  <2> QED BY <1>2, <2>1, <2>2, <2>3 DEF TypeInv, TypeOK, WaitInv, reading, broker
<1>21. CASE SubTimeout
  <2>1. sub' = "returned" /\ done' = TRUE /\ UNCHANGED <<router, event, token, errs>>
    BY <1>21 DEF SubTimeout
  <2>2. /\ timeouts' \in SUBSET [who : {"router", "event", "sub"}, backlog : BOOLEAN]
        /\ UNCHANGED <<inbox, reading, broker, handled>>
    BY <1>18, <1>21 DEF SubTimeout
  <2> QED BY <1>2, <2>1, <2>2 DEF TypeInv, TypeOK, WaitInv, reading, broker, SubStep
<1>22. CASE UNCHANGED vars
  BY <1>2, <1>22 DEF vars, TypeInv, TypeOK, WaitInv, reading, consumer, broker
<1> QED
  BY <1>3, <1>4, <1>5, <1>6, <1>7, <1>8, <1>9, <1>11, <1>12, <1>13, <1>14, <1>16, <1>17, <1>19,
     <1>20, <1>21, <1>22, <1>23
  DEF Next, Incoming, Forwarder, Router

------------------------------------------------------------------------------
(* The order of the configurations                                         *)

\* What does not move a configuration.
LEMMA HeldStill ==
  ASSUME PipelineInv, UNCHANGED <<handled, incoming, forwarder, dispatcher, dropped, sent, acked>>,
         router'.pc # "idle" <=> router.pc # "idle", router'.config = router.config,
         Extends \/ inbox' = inbox
  PROVE  HeldInv' /\ InboxInv'
<1>1. /\ ToRouter' = ToRouter /\ ToDispatcher' = ToDispatcher
      /\ ToForwarder' = ToForwarder /\ ToIncoming' = ToIncoming
  BY DEF ToRouter, ToDispatcher, ToForwarder, ToIncoming, Carries
<1>2. HeldInv'
  BY <1>1 DEF PipelineInv, HeldInv, Carries
<1> QED BY <1>1, <1>2, InboxKept DEF PipelineInv

\* A configuration that is handed over has come no further back.
LEMMA OrderNext == PipelineInv /\ [Next]_vars => HeldInv' /\ InboxInv'
<1> SUFFICES ASSUME PipelineInv, [Next]_vars PROVE HeldInv' /\ InboxInv'
  OBVIOUS
<1>1. TypeInv /\ TypeOK /\ HeldInv /\ InboxInv /\ RouteInv
  BY DEF PipelineInv, TypeInv
<1>2. /\ Len(handled) \in Nat /\ sent \in Nat
      /\ ToRouter \in Nat /\ ToDispatcher \in Nat /\ ToForwarder \in Nat /\ ToIncoming \in Nat
      /\ ToIncoming <= sent /\ dropped \in Nat
  BY Positions
<1>3. /\ inbox \in Seq(Packet) /\ handled \in Seq(Configs)
      /\ incoming \in Packet \union {None} /\ forwarder \in Packet \union {None}
      /\ dispatcher \in Packet \union {None} /\ acked \subseteq 1..Len(handled)
  BY <1>1 DEF TypeOK, HeldInv
<1>4. CASE BrokerConfigures
  <2>1. /\ sent' = sent + 1 /\ inbox' = Append(inbox, P("publish", 2, sent + 1))
        /\ UNCHANGED <<reading, consumer, acked, handled>>
    BY <1>4 DEF BrokerConfigures
  <2>2. P("publish", 2, sent + 1).type = "publish" /\ P("publish", 2, sent + 1).id = sent + 1
        /\ P("publish", 2, sent + 1) \in Packet
    <3>1. sent + 1 \in Configs
      BY <1>2, <1>4, PipelineAssumption DEF BrokerConfigures, Configs
    <3> QED BY <3>1, PacketTyped DEF Type
  <2>3. /\ ToRouter' = ToRouter /\ ToDispatcher' = ToDispatcher
        /\ ToForwarder' = ToForwarder /\ ToIncoming' = ToIncoming
    BY <2>1 DEF ToRouter, ToDispatcher, ToForwarder, ToIncoming, Carries, reading, consumer
  <2>4. HeldInv'
    BY <1>1, <1>2, <2>1, <2>3 DEF HeldInv, Carries, reading, consumer
  <2>5. /\ DOMAIN inbox' = 1..(Len(inbox) + 1) /\ Len(inbox) \in Nat /\ DOMAIN inbox = 1..Len(inbox)
        /\ \A i \in 1..Len(inbox) : inbox'[i] = inbox[i]
        /\ inbox'[Len(inbox) + 1].type = "publish" /\ inbox'[Len(inbox) + 1].id = sent + 1
    BY <1>3, <2>1, <2>2, EndOfAppend
  <2>6. ASSUME NEW i \in DOMAIN inbox', inbox'[i].type = "publish"
        PROVE  inbox'[i].id \in (ToIncoming' + 1)..sent'
    BY <1>1, <1>2, <2>1, <2>3, <2>5, <2>6 DEF InboxInv
  <2>7. ASSUME NEW i \in DOMAIN inbox', NEW j \in DOMAIN inbox', i < j,
               inbox'[i].type = "publish", inbox'[j].type = "publish"
        PROVE  inbox'[i].id < inbox'[j].id
    <3>1. i \in DOMAIN inbox /\ inbox'[i] = inbox[i]
      BY <2>5, <2>7
    <3>2. CASE j \in DOMAIN inbox
      BY <1>1, <2>5, <2>7, <3>1, <3>2 DEF InboxInv
    <3>3. CASE j = Len(inbox) + 1
      BY <1>1, <1>2, <2>5, <2>7, <3>1, <3>3 DEF InboxInv
    <3> QED BY <2>5, <3>2, <3>3
  <2>8. ASSUME NEW n \in (ToIncoming' + 1)..sent'
        PROVE  \E i \in DOMAIN inbox' : inbox'[i].type = "publish" /\ inbox'[i].id = n
    <3>1. CASE n = sent + 1
      <4>1. Len(inbox) + 1 \in DOMAIN inbox'
        BY <2>5
      <4> QED BY <2>5, <3>1, <4>1
    <3>2. CASE n # sent + 1
      <4>1. n \in (ToIncoming + 1)..sent
        BY <1>2, <2>1, <2>3, <2>8, <3>2
      <4> QED BY <1>1, <2>5, <4>1 DEF InboxInv
    <3> QED BY <3>1, <3>2
  <2> QED BY <2>4, <2>6, <2>7, <2>8 DEF InboxInv
<1>5. CASE IncomingReads
  <2>1. Head(inbox) \in Packet /\ inbox # <<>> /\ inbox' = Tail(inbox) /\ incoming = None
        /\ UNCHANGED <<forwarder, dispatcher, dropped, sent, acked, handled>>
    BY <1>3, <1>5, RestOfTail DEF IncomingReads, broker
  <2>2. CASE Head(inbox).type \in Completing
    <3>1. /\ router'.pc # "idle" <=> router.pc # "idle"
          /\ router'.config = router.config /\ incoming' = incoming
          /\ Head(inbox).type # "publish"
      BY <1>1, <1>5, <2>1, <2>2, CompletesTyped DEF IncomingReads, Completing
    <3>2. /\ ToRouter' = ToRouter /\ ToDispatcher' = ToDispatcher
          /\ ToForwarder' = ToForwarder /\ ToIncoming' = ToIncoming
      BY <2>1, <3>1 DEF ToRouter, ToDispatcher, ToForwarder, ToIncoming, Carries
    <3>3. InboxInv'
      BY <1>2, <2>1, <3>1, <3>2, InboxRead
    <3> QED BY <1>1, <2>1, <3>1, <3>2, <3>3 DEF HeldInv, Carries
  <2>3. CASE Head(inbox).type \notin Completing
    <3>1. incoming' = Head(inbox) /\ router' = router /\ incoming' # None
      BY <1>5, <2>1, <2>3, NoPacketAssumption DEF IncomingReads
    <3>2. /\ ToRouter' = ToRouter /\ ToDispatcher' = ToDispatcher /\ ToForwarder' = ToForwarder
      BY <2>1, <3>1 DEF ToRouter, ToDispatcher, ToForwarder, Carries
    <3>3. ToIncoming' = ToIncoming + (IF Head(inbox).type = "publish" THEN 1 ELSE 0)
      BY <1>2, <2>1, <3>1, <3>2 DEF ToIncoming, Carries
    <3>4. /\ InboxInv'
          /\ Head(inbox).type = "publish" => Head(inbox).id = ToIncoming + 1 /\ ToIncoming + 1 <= sent
      BY <2>1, <3>3, InboxRead
    <3>5. ToIncoming' <= sent' /\ (Carries(incoming)' => incoming'.id = ToIncoming')
      BY <1>2, <2>1, <3>1, <3>3, <3>4 DEF Carries
    <3> QED BY <1>1, <2>1, <3>1, <3>2, <3>4, <3>5 DEF HeldInv, Carries
  <2> QED BY <2>2, <2>3
<1>6. CASE IncomingHandsOver
  <2>1. /\ incoming # None /\ forwarder = None /\ forwarder' = incoming /\ incoming' = None
        /\ UNCHANGED <<inbox, dispatcher, dropped, router, sent, acked, handled>>
    BY <1>6 DEF IncomingHandsOver, consumer, broker
  <2>2. ToRouter' = ToRouter /\ ToDispatcher' = ToDispatcher
    BY <2>1 DEF ToRouter, ToDispatcher
  <2>3. ToForwarder' = ToIncoming /\ ToIncoming' = ToIncoming
    BY <1>2, <2>1, <2>2 DEF ToForwarder, ToIncoming, Carries
  <2>4. HeldInv'
    BY <1>1, <2>1, <2>2, <2>3 DEF HeldInv, Carries
  <2> QED BY <1>1, <2>1, <2>3, <2>4, InboxKept
<1>7. CASE ForwarderHandsOver
  <2>1. /\ forwarder # None /\ forwarder.type = "publish" /\ dispatcher = None
        /\ dispatcher' = forwarder /\ forwarder' = None
        /\ UNCHANGED <<inbox, incoming, dropped, router, sent, acked, handled>>
    BY <1>7 DEF ForwarderHandsOver, consumer, broker
  <2>2. ToRouter' = ToRouter
    BY <2>1 DEF ToRouter
  <2>3. ToDispatcher' = ToForwarder /\ ToForwarder' = ToForwarder
    BY <1>2, <2>1, <2>2 DEF ToDispatcher, ToForwarder, Carries
  <2>4. ToIncoming' = ToIncoming
    BY <2>1, <2>3 DEF ToIncoming, Carries
  <2>5. HeldInv'
    BY <1>1, <2>1, <2>2, <2>3, <2>4 DEF HeldInv, Carries
  <2> QED BY <1>1, <2>1, <2>4, <2>5, InboxKept
<1>8. CASE RouterTakes
  <2>1. /\ dispatcher # None /\ router.pc = "idle" /\ dispatcher' = None
        /\ router'.pc = "decode" /\ router'.config = dispatcher.id
        /\ UNCHANGED <<inbox, incoming, forwarder, dropped, sent, acked, handled>>
    BY <1>8 DEF RouterTakes, Idle, broker
  <2>2. ToRouter' = ToDispatcher /\ ToDispatcher' = ToDispatcher
    <3>1. dropped = 0
      BY <1>1, <1>2, <1>8 DEF RouterTakes, RouteInv
    <3> QED BY <1>2, <2>1, <3>1 DEF ToRouter, ToDispatcher
  <2>3. ToForwarder' = ToForwarder /\ ToIncoming' = ToIncoming
    BY <2>1, <2>2 DEF ToForwarder, ToIncoming, Carries
  <2>4. HeldInv'
    BY <1>1, <2>1, <2>2, <2>3 DEF HeldInv, Carries
  <2> QED BY <1>1, <2>1, <2>3, <2>4, InboxKept
<1>19. CASE RouterDrops
  <2>1. /\ dispatcher # None /\ dispatcher' = None /\ dropped' = dropped + 1
        /\ UNCHANGED <<inbox, incoming, forwarder, router, sent, acked, handled>>
    BY <1>19 DEF RouterDrops, consumer, broker
  <2>2. ToRouter' = ToRouter
    BY <2>1 DEF ToRouter
  <2>3. ToDispatcher' = ToDispatcher
    BY <1>2, <2>1, <2>2 DEF ToDispatcher
  <2>4. ToForwarder' = ToForwarder /\ ToIncoming' = ToIncoming
    BY <2>1, <2>3 DEF ToForwarder, ToIncoming, Carries
  <2>5. HeldInv'
    BY <1>1, <2>1, <2>2, <2>4 DEF HeldInv, Carries
  <2> QED BY <1>1, <2>1, <2>4, <2>5, InboxKept
<1>9. CASE ForwarderWrites
  <2> DEFINE type == IF forwarder.type = "pubrec" THEN "pubrel" ELSE "pubcomp"
  <2>1. forwarder \in Packet /\ forwarder.id \in Id \union Configs \union {None}
        /\ forwarder.type # "publish"
    BY <1>3, <1>9 DEF ForwarderWrites, Packet
  <2>2. P(type, 0, forwarder.id) \in Packet /\ P(type, 0, forwarder.id).type # "pubrec"
    BY <2>1, PacketTyped DEF Type
  <2>3. Sends(P(type, 0, forwarder.id)) /\ forwarder' = None
        /\ UNCHANGED <<incoming, dispatcher, dropped, router, handled>>
    BY <1>9 DEF ForwarderWrites, consumer
  <2>4. Extends /\ sent' = sent /\ acked' = acked
    BY <1>1, <2>2, <2>3, SendsExtends
  <2>5. /\ ToRouter' = ToRouter /\ ToDispatcher' = ToDispatcher
        /\ ToForwarder' = ToForwarder /\ ToIncoming' = ToIncoming
    BY <2>1, <2>3 DEF ToRouter, ToDispatcher, ToForwarder, ToIncoming, Carries
  <2>6. HeldInv'
    BY <1>1, <2>1, <2>3, <2>4, <2>5 DEF HeldInv, Carries
  <2> QED BY <1>1, <2>4, <2>5, <2>6, InboxKept
<1>10. CASE Ack
  <2>1. /\ router.pc # "idle" /\ router.config \in Configs /\ router.config = ToRouter
        /\ ToRouter = Len(handled) + 1
    BY <1>1, <1>10, Positions DEF Ack, HeldInv
  <2>2. /\ P("pubrec", 0, router.config) \in Packet /\ P("pubrec", 0, router.config).type = "pubrec"
        /\ P("pubrec", 0, router.config).id = router.config
    BY <2>1, PacketTyped DEF Type
  <2>3. /\ Sends(P("pubrec", 0, router.config)) /\ handled' = Append(handled, router.config)
        /\ router'.pc = "idle" /\ UNCHANGED <<incoming, forwarder, dispatcher, dropped>>
    BY <1>10 DEF Ack, RouterGoes, Idle, reading
  <2>4. Extends /\ sent' = sent /\ acked' = acked \union {router.config}
    BY <1>1, <2>2, <2>3, SendsExtends
  <2>5. /\ Len(handled') = Len(handled) + 1 /\ DOMAIN handled' = 1..(Len(handled) + 1)
        /\ \A i \in 1..Len(handled) : handled'[i] = handled[i]
        /\ handled'[Len(handled) + 1] = router.config /\ DOMAIN handled = 1..Len(handled)
    BY <1>3, <2>1, <2>3, EndOfAppend
  <2>6. ToRouter' = ToRouter
    BY <1>2, <2>1, <2>3, <2>5 DEF ToRouter
  <2>7. ToDispatcher' = ToDispatcher /\ ToForwarder' = ToForwarder /\ ToIncoming' = ToIncoming
    BY <2>3, <2>6 DEF ToDispatcher, ToForwarder, ToIncoming, Carries
  <2>8. \A i \in DOMAIN handled' : handled'[i] = i
    BY <1>1, <1>2, <2>1, <2>5 DEF HeldInv
  <2>9. acked' \subseteq 1..Len(handled')
    BY <1>2, <1>3, <2>1, <2>4, <2>5
  <2>10. HeldInv'
    BY <1>1, <2>3, <2>4, <2>6, <2>7, <2>8, <2>9 DEF HeldInv, Carries
  <2> QED BY <1>1, <2>4, <2>7, <2>10, InboxKept
<1>11. CASE Decode \/ CallbackReturns \/ OnError
  <2>1. /\ router'.pc # "idle" <=> router.pc # "idle"
        /\ router'.config = router.config
    BY <1>1, <1>11 DEF Decode, CallbackReturns, OnError, RouterGoes, TypeOK
  <2>2. UNCHANGED <<handled, incoming, forwarder, dispatcher, dropped, sent, acked, inbox>>
    BY <1>11 DEF Decode, CallbackReturns, OnError, RouterGoes, SendsNothing, reading, broker
  <2> QED BY <2>1, <2>2, HeldStill
<1>12. ASSUME NEW q \in 1..2, Sends(P("publish", q, NextId)), FreeIds # {}
       PROVE  Extends /\ sent' = sent /\ acked' = acked
  <2>1. P("publish", q, NextId) \in Packet /\ P("publish", q, NextId).type # "pubrec"
    BY <1>12, NextIdFree, PacketTyped DEF Type
  <2> QED BY <1>1, <1>12, <2>1, SendsExtends
<1>13. CASE CallbackPublishes
  <2>1. Extends /\ sent' = sent /\ acked' = acked
    BY <1>12, <1>13 DEF CallbackPublishes
  <2>2. /\ router'.pc # "idle" <=> router.pc # "idle"
        /\ router'.config = router.config
    BY <1>1, <1>13 DEF CallbackPublishes, RouterGoes, TypeOK
  <2>3. UNCHANGED <<handled, incoming, forwarder, dispatcher, dropped>>
    BY <1>13 DEF CallbackPublishes, RouterGoes, reading
  <2> QED BY <2>1, <2>2, <2>3, HeldStill
<1>14. CASE EventPublishes
  <2>1. Extends /\ sent' = sent /\ acked' = acked
    BY <1>12, <1>14 DEF EventPublishes
  <2>2. UNCHANGED <<handled, incoming, forwarder, dispatcher, dropped, router>>
    BY <1>14 DEF EventPublishes, reading
  <2> QED BY <2>1, <2>2, HeldStill
<1>15. ASSUME NEW type \in {"subscribe", "unsubscribe"}, Sends(P(type, 0, None))
       PROVE  Extends /\ sent' = sent /\ acked' = acked
  <2>1. P(type, 0, None) \in Packet /\ P(type, 0, None).type # "pubrec"
    BY PacketTyped DEF Type
  <2> QED BY <1>1, <1>15, <2>1, SendsExtends
<1>16. CASE Subscribe \/ SubscribeEnds
  <2>1. Extends /\ sent' = sent /\ acked' = acked
    BY <1>15, <1>16 DEF Subscribe, SubscribeEnds
  <2>2. UNCHANGED <<handled, incoming, forwarder, dispatcher, dropped, router>>
    BY <1>16 DEF Subscribe, SubscribeEnds, SubGoes, reading
  <2> QED BY <2>1, <2>2, HeldStill
<1>17. CASE CallbackTimeout
  <2>1. /\ router'.pc # "idle" <=> router.pc # "idle"
        /\ router'.config = router.config
    BY <1>1, <1>17 DEF CallbackTimeout, TypeOK
  <2>2. UNCHANGED <<handled, incoming, forwarder, dispatcher, dropped, sent, acked, inbox>>
    BY <1>17 DEF CallbackTimeout, GivesUp, reading, broker
  <2> QED BY <2>1, <2>2, HeldStill
<1>18. CASE EventTimeout \/ SubTimeout \/ Cancel \/ UNCHANGED vars
  <2>1. UNCHANGED <<handled, incoming, forwarder, dispatcher, dropped, sent, acked, inbox, router>>
    BY <1>18 DEF EventTimeout, SubTimeout, Cancel, GivesUp, vars, reading, broker, consumer
  <2> QED BY <2>1, HeldStill
<1> QED
  BY <1>4, <1>5, <1>6, <1>7, <1>8, <1>9, <1>10, <1>11, <1>13, <1>14, <1>16, <1>17, <1>18,
     <1>19
  DEF Next, Incoming, Forwarder, Router

\* SubscribeConfig subscribes once, before anything can be dropped.
LEMMA RouteNext == PipelineInv /\ [Next]_vars => RouteInv'
<1> SUFFICES ASSUME PipelineInv, [Next]_vars PROVE RouteInv'
  OBVIOUS
<1>1. /\ RouteInv /\ dropped \in Nat /\ sent \in Nat
      /\ dropped > 0 \/ dispatcher # None => sent > 0
  <2>1. /\ dropped \in Nat /\ sent \in Nat /\ ToRouter \in Nat /\ ToDispatcher \in Nat
        /\ ToDispatcher <= sent
    BY Positions
  <2>2. dropped > 0 \/ dispatcher # None => ToDispatcher > 0
    BY <2>1 DEF ToDispatcher
  <2> QED BY <2>1, <2>2 DEF PipelineInv
<1>2. ASSUME NEW type \in Type \ {"subscribe"}, NEW q, NEW i, Sends(P(type, q, i))
      PROVE  (listening' => listening) /\ sent' = sent
  <2>1. P(type, q, i).type # "subscribe"
    BY <1>2 DEF P
  <2> QED BY <1>2, <2>1 DEF Sends
<1>3. CASE /\ listening' => listening
           /\ sent' = sent
           /\ UNCHANGED dropped
           /\ sub = "start" <=> sub' = "start"
  BY <1>1, <1>3 DEF RouteInv
<1>4. CASE BrokerConfigures
  BY <1>1, <1>4 DEF BrokerConfigures, RouteInv, reading, consumer
<1>5. CASE IncomingReads
  <2>1. sub = "start" <=> sub' = "start"
    BY <1>5 DEF IncomingReads, Completes
  <2> QED BY <1>3, <1>5, <2>1 DEF IncomingReads, broker
<1>6. CASE IncomingHandsOver \/ ForwarderHandsOver \/ RouterTakes
  BY <1>3, <1>6 DEF IncomingHandsOver, ForwarderHandsOver, RouterTakes, consumer, broker
<1>7. CASE ForwarderWrites
  <2>1. PICK type \in {"pubrel", "pubcomp"} : Sends(P(type, 0, forwarder.id))
    BY <1>7 DEF ForwarderWrites
  <2>2. (listening' => listening) /\ sent' = sent
    BY <1>2, <2>1 DEF Type
  <2> QED BY <1>3, <1>7, <2>2 DEF ForwarderWrites, consumer
<1>8. CASE RouterDrops
  BY <1>1, <1>8 DEF RouterDrops, RouteInv, consumer, broker
<1>9. CASE Decode \/ CallbackReturns \/ OnError
  BY <1>3, <1>9 DEF Decode, CallbackReturns, OnError, RouterGoes, SendsNothing, reading, broker
<1>10. CASE CallbackPublishes \/ EventPublishes
  <2>1. PICK q \in 1..2 : Sends(P("publish", q, NextId))
    BY <1>10 DEF CallbackPublishes, EventPublishes
  <2>2. (listening' => listening) /\ sent' = sent
    BY <1>2, <2>1 DEF Type
  <2> QED BY <1>3, <1>10, <2>2 DEF CallbackPublishes, EventPublishes, RouterGoes, reading
<1>11. CASE Ack
  <2>1. (listening' => listening) /\ sent' = sent
    BY <1>2, <1>11 DEF Ack, Type
  <2> QED BY <1>3, <1>11, <2>1 DEF Ack, RouterGoes, reading
<1>12. CASE Subscribe
  <2>1. sent = 0 /\ ~(dropped > 0)
    BY <1>1, <1>12 DEF Subscribe, RouteInv
  <2>2. UNCHANGED <<sent, dropped>> /\ sub' = "subscribe"
    BY <1>12 DEF Subscribe, SubGoes, Sends, reading
  <2> QED BY <2>1, <2>2 DEF RouteInv
<1>13. CASE SubscribeEnds
  <2>1. (listening' => listening) /\ sent' = sent
    BY <1>2, <1>13 DEF SubscribeEnds, Type
  <2> QED BY <1>3, <1>13, <2>1 DEF SubscribeEnds, SubGoes, reading
<1>14. CASE CallbackTimeout \/ EventTimeout \/ SubTimeout \/ Cancel \/ UNCHANGED vars
  BY <1>3, <1>14 DEF CallbackTimeout, EventTimeout, SubTimeout, Cancel, GivesUp, vars, reading,
                     consumer, broker
<1> QED
  BY <1>4, <1>5, <1>6, <1>7, <1>8, <1>9, <1>10, <1>11, <1>12, <1>13, <1>14
  DEF Next, Incoming, Forwarder, Router

------------------------------------------------------------------------------
(* The invariant                                                           *)

LEMMA PipelineInvHolds == Spec => []PipelineInv
<1>1. PipelineInv /\ [Next]_vars => PipelineInv'
  BY TypeNext, OrderNext, RouteNext DEF PipelineInv
<1> QED BY PipelineInit, <1>1, PTL DEF Spec

\* Every goroutine of paho, the handler and the broker hold what they should; a
\* token is waited for by the one that published.
THEOREM PipelineTyped == Spec => []TypeOK
<1>1. PipelineInv => TypeOK
  BY DEF PipelineInv, TypeInv
<1> QED BY PipelineInvHolds, <1>1, PTL

\* The handler sees every configuration in the order they were sent in and once,
\* and the broker is told only then (mqtt.go:264-265).
THEOREM ConfigsInOrder == Spec => []HandledInOrder
<1>1. PipelineInv => HandledInOrder
  <2> SUFFICES ASSUME PipelineInv PROVE HandledInOrder
    OBVIOUS
  <2>1. /\ \A i \in DOMAIN handled : handled[i] = i
        /\ acked \subseteq 1..Len(handled)
    BY DEF PipelineInv, HeldInv
  <2>2. DOMAIN handled = 1..Len(handled)
    BY DEF PipelineInv, TypeInv, TypeOK
  <2>3. \A n \in acked : n \in DOMAIN handled /\ handled[n] = n
    BY <2>1, <2>2
  <2> QED BY <2>1, <2>3 DEF HandledInOrder
<1> QED BY PipelineInvHolds, <1>1, PTL

------------------------------------------------------------------------------
(* Timeouts                                                                *)

\* An answer of the broker to the publish with this identifier.
IsAnswer(p, i) == p # None /\ p.id = i /\ p.type \in {"puback", "pubrec", "pubcomp"}

\* It is on the wire, or held by one of the goroutines that receive.
Answered(i) ==
    \/ IsAnswer(incoming, i) \/ IsAnswer(forwarder, i)
    \/ \E k \in DOMAIN inbox : IsAnswer(inbox[k], i)

\* A packet of this type is on the wire.
Comes(type) == \E k \in DOMAIN inbox : inbox[k].type = type

\* The goroutines that receive hold a message or a step of its handshake.
WayInv ==
    /\ \A k \in DOMAIN inbox : inbox[k].type \notin {"subscribe", "unsubscribe"}
    /\ incoming # None => incoming.type \in {"publish", "pubrec", "pubrel"}
    /\ forwarder # None => forwarder.type \in {"publish", "pubrec", "pubrel"}

\* Whoever waits for the broker waits for a packet that is on its way.
AnswerInv ==
    /\ router.pc = "wait" => router.id # None
    /\ \A i \in Id : i \in {router.id, event} => Answered(i)
    /\ sub = "subscribe" => Comes("suback")
    /\ sub = "unsubscribe" => Comes("unsuback")

\* What a packet of the client asks for is on the wire.
LEMMA ReplyComes ==
  ASSUME TypeOK, NEW p \in Packet, NEW q \in Packet, Sends(p), Reply(p) = <<q>>
  PROVE  \E k \in DOMAIN inbox' : inbox'[k] = q
<1>1. inbox \in Seq(Packet) /\ inbox' = Append(inbox, q)
  BY DEF TypeOK, Sends
<1>2. Len(inbox) + 1 \in DOMAIN inbox' /\ inbox'[Len(inbox) + 1] = q
  BY <1>1, EndOfAppend
<1> QED BY <1>2

LEMMA PublishIsAnswered ==
  ASSUME TypeOK, NEW q \in 1..2, NEW i \in Id, Sends(P("publish", q, i))
  PROVE  Answered(i)' /\ Extends
<1>1. P("publish", q, i) \in Packet
  BY PacketTyped DEF Type
<1>2. PICK type \in {"puback", "pubrec"} : Reply(P("publish", q, i)) = <<P(type, 0, i)>>
  BY DEF Reply, P
<1>3. /\ P(type, 0, i) \in Packet /\ P(type, 0, i).type = type /\ P(type, 0, i).id = i
  BY PacketTyped DEF Type
<1>4. PICK k \in DOMAIN inbox' : inbox'[k] = P(type, 0, i)
  BY <1>1, <1>2, <1>3, ReplyComes
<1>5. IsAnswer(inbox'[k], i)
  BY <1>3, <1>4, NoPacketAssumption DEF IsAnswer
<1> QED BY <1>1, <1>4, <1>5, SendsExtends DEF Answered

\* What the client sends, and the broker's next configuration, take nothing away.
LEMMA StillComes ==
  ASSUME Extends \/ inbox' = inbox
  PROVE  /\ \A i \in Id : (\E k \in DOMAIN inbox : IsAnswer(inbox[k], i))
                              => \E k \in DOMAIN inbox' : IsAnswer(inbox'[k], i)
         /\ \A type \in Type : Comes(type) => Comes(type)'
  BY DEF Extends, Comes

\* Nobody waits anew unless the answer comes, and no answer is taken away.
LEMMA AnswersKept ==
  ASSUME AnswerInv, Extends \/ inbox' = inbox, UNCHANGED <<incoming, forwarder>>,
         router'.pc = "wait" => router'.id # None,
         \A i \in Id : i \in {router'.id, event'} => i \in {router.id, event} \/ Answered(i)',
         sub' = "subscribe" => sub = "subscribe" \/ Comes("suback")',
         sub' = "unsubscribe" => sub = "unsubscribe" \/ Comes("unsuback")'
  PROVE  AnswerInv'
<1>1. \A i \in Id : Answered(i) => Answered(i)'
  BY StillComes DEF Answered
<1>2. (Comes("suback") => Comes("suback")') /\ (Comes("unsuback") => Comes("unsuback")')
  BY StillComes DEF Type
<1> QED BY <1>1, <1>2 DEF AnswerInv

LEMMA WayKept ==
  ASSUME WayInv, Extends \/ inbox' = inbox, UNCHANGED <<incoming, forwarder>>
  PROVE  WayInv'
  BY DEF WayInv, Extends, Requests

LEMMA AnswerInit == Init => WayInv /\ AnswerInv
  BY PipelineAssumption DEF Init, Idle, WayInv, AnswerInv

\* A packet that is read: an acknowledgement wakes whoever waits for it, any
\* other is held.
LEMMA ReadKeepsAnswers ==
  ASSUME PipelineInv, WayInv, AnswerInv, IncomingReads
  PROVE  WayInv' /\ AnswerInv'
<1>1. /\ inbox \in Seq(Packet) /\ inbox # <<>> /\ inbox' = Tail(inbox) /\ incoming = None
      /\ UNCHANGED forwarder
      /\ router.id # None => router.pc = "wait"
      /\ router \in [pc : RouterStep, config : Configs \union {None}, left : 0..MaxPublish,
                     id : Id \union {None}]
  BY DEF PipelineInv, TypeInv, TypeOK, WaitInv, IncomingReads
<1>2. /\ Head(inbox) = inbox[1] /\ 1 \in DOMAIN inbox /\ inbox[1] \in Packet
      /\ DOMAIN inbox = 1..Len(inbox) /\ Len(inbox) \in Nat /\ DOMAIN inbox' = 1..(Len(inbox) - 1)
      /\ \A i \in DOMAIN inbox' : i + 1 \in DOMAIN inbox /\ inbox'[i] = inbox[i + 1]
  BY <1>1, RestOfTail
<1>3. ASSUME NEW k \in DOMAIN inbox, k # 1
      PROVE  \E j \in DOMAIN inbox' : inbox'[j] = inbox[k]
  <2>1. k - 1 \in DOMAIN inbox' /\ inbox'[k - 1] = inbox[k]
    BY <1>2, <1>3
  <2> QED BY <2>1
<1>4. Head(inbox).type \in {"publish", "pubrec", "pubrel"} \union Completing
  BY <1>2 DEF WayInv, Packet, Type, Completing
<1>5. WayInv'
  <2>1. \A k \in DOMAIN inbox' : inbox'[k].type \notin {"subscribe", "unsubscribe"}
    BY <1>2 DEF WayInv
  <2>2. incoming' # None => incoming'.type \in {"publish", "pubrec", "pubrel"}
    BY <1>1, <1>4 DEF IncomingReads
  <2> QED BY <1>1, <2>1, <2>2 DEF WayInv
<1>6. CASE Head(inbox).type \in Completing
  <2>1. Completes(Head(inbox)) /\ incoming' = incoming
    BY <1>6 DEF IncomingReads
  <2>2. ASSUME NEW i \in Id, i \in {router'.id, event'} PROVE Answered(i)'
    <3>1. i \in {router.id, event} /\ Head(inbox).id # i
      <4>1. CASE router.id # None /\ router.id = Head(inbox).id
        <5>1. router' = [router EXCEPT !.pc = "callback", !.id = None]
          BY <2>1, <4>1 DEF Completes
        <5>2. router'.id = None
          BY <1>1, <5>1
        <5>3. i = event'
          BY <2>2, <5>2, PipelineAssumption
        <5> QED BY <2>1, <5>3, PipelineAssumption DEF Completes
      <4>2. CASE ~(router.id # None /\ router.id = Head(inbox).id)
        <5>1. router' = router
          BY <2>1, <4>2 DEF Completes
        <5>2. i = router.id \/ (i = event' /\ event' = event /\ event # Head(inbox).id)
          BY <2>1, <2>2, <5>1, PipelineAssumption DEF Completes
        <5> QED BY <4>2, <5>2, PipelineAssumption
      <4> QED BY <4>1, <4>2
    <3>2. Answered(i)
      BY <3>1 DEF AnswerInv
    <3>3. ASSUME NEW k \in DOMAIN inbox, IsAnswer(inbox[k], i)
          PROVE  \E j \in DOMAIN inbox' : IsAnswer(inbox'[j], i)
      <4>1. k # 1
        BY <1>2, <3>1, <3>3 DEF IsAnswer
      <4> QED BY <1>3, <3>3, <4>1
    <3> QED BY <1>1, <2>1, <3>2, <3>3 DEF Answered
  <2>3. router'.pc = "wait" => router'.id # None
    <3>1. CASE router.id # None /\ router.id = Head(inbox).id
      BY <1>1, <2>1, <3>1 DEF Completes
    <3>2. CASE ~(router.id # None /\ router.id = Head(inbox).id)
      BY <2>1, <3>2 DEF Completes, AnswerInv
    <3> QED BY <3>1, <3>2
  <2>4. ASSUME sub' = "subscribe" PROVE Comes("suback")'
    <3>1. sub = "subscribe" /\ Head(inbox).type # "suback"
      BY <2>1, <2>4 DEF Completes
    <3>2. PICK k \in DOMAIN inbox : inbox[k].type = "suback"
      BY <3>1 DEF AnswerInv, Comes
    <3>3. k # 1
      BY <1>2, <3>1, <3>2
    <3> QED BY <1>3, <3>2, <3>3 DEF Comes
  <2>5. ASSUME sub' = "unsubscribe" PROVE Comes("unsuback")'
    <3>1. sub = "unsubscribe" /\ Head(inbox).type # "unsuback"
      BY <2>1, <2>5 DEF Completes
    <3>2. PICK k \in DOMAIN inbox : inbox[k].type = "unsuback"
      BY <3>1 DEF AnswerInv, Comes
    <3>3. k # 1
      BY <1>2, <3>1, <3>2
    <3> QED BY <1>3, <3>2, <3>3 DEF Comes
  <2> QED BY <1>5, <2>2, <2>3, <2>4, <2>5 DEF AnswerInv
<1>7. CASE Head(inbox).type \notin Completing
  <2>1. incoming' = inbox[1] /\ UNCHANGED <<router, event, sub>>
    BY <1>2, <1>7 DEF IncomingReads
  <2>2. ASSUME NEW i \in Id, Answered(i) PROVE Answered(i)'
    BY <1>1, <1>3, <2>1, <2>2 DEF Answered, IsAnswer
  <2>3. ASSUME NEW type \in Completing, Comes(type) PROVE Comes(type)'
    <3>1. PICK k \in DOMAIN inbox : inbox[k].type = type
      BY <2>3 DEF Comes
    <3>2. k # 1
      BY <1>2, <1>7, <3>1
    <3> QED BY <1>3, <3>1, <3>2 DEF Comes
  <2> QED BY <1>5, <2>1, <2>2, <2>3 DEF AnswerInv, Completing
<1> QED BY <1>6, <1>7

\* Every answer stays on its way until it is read by incoming, and whoever sends
\* a request has put its answer on the way.
LEMMA AnswerNext == PipelineInv /\ WayInv /\ AnswerInv /\ [Next]_vars => WayInv' /\ AnswerInv'
<1> SUFFICES ASSUME PipelineInv, WayInv, AnswerInv, [Next]_vars PROVE WayInv' /\ AnswerInv'
  OBVIOUS
<1>1. /\ TypeInv /\ TypeOK
      /\ inbox \in Seq(Packet) /\ incoming \in Packet \union {None} /\ forwarder \in Packet \union {None}
      /\ router \in [pc : RouterStep, config : Configs \union {None}, left : 0..MaxPublish,
                     id : Id \union {None}]
      /\ router.id # None => router.pc = "wait"
  BY DEF PipelineInv, TypeInv, TypeOK, WaitInv
<1>2. CASE BrokerConfigures
  <2>1. sent + 1 \in Configs
    BY <1>1, <1>2, PipelineAssumption DEF BrokerConfigures, Configs, TypeOK
  <2>2. /\ P("publish", 2, sent + 1) \in Packet /\ P("publish", 2, sent + 1).type = "publish"
        /\ inbox' = Append(inbox, P("publish", 2, sent + 1))
    BY <1>2, <2>1, PacketTyped DEF BrokerConfigures, Type
  <2>3. /\ DOMAIN inbox = 1..Len(inbox) /\ DOMAIN inbox' = 1..(Len(inbox) + 1) /\ Len(inbox) \in Nat
        /\ \A k \in DOMAIN inbox : inbox'[k] = inbox[k]
        /\ inbox'[Len(inbox) + 1].type = "publish"
    BY <1>1, <2>2, EndOfAppend
  <2>4. /\ \A k \in DOMAIN inbox : k \in DOMAIN inbox' /\ inbox'[k] = inbox[k]
        /\ \A k \in DOMAIN inbox' : k \in DOMAIN inbox \/ inbox'[k].type = "publish"
    BY <2>3
  <2>5. UNCHANGED <<incoming, forwarder, router, event, sub>>
    BY <1>2 DEF BrokerConfigures, reading, consumer
  <2>6. WayInv'
    BY <2>4, <2>5 DEF WayInv
  <2> QED BY <2>4, <2>5, <2>6 DEF AnswerInv, Answered, Comes
<1>3. CASE IncomingReads
  BY <1>3, ReadKeepsAnswers
<1>4. CASE IncomingHandsOver
  BY <1>4 DEF IncomingHandsOver, WayInv, AnswerInv, Answered, IsAnswer, Comes, consumer
<1>5. CASE ForwarderWrites
  <2> DEFINE type == IF forwarder.type = "pubrec" THEN "pubrel" ELSE "pubcomp"
             p    == P(type, 0, forwarder.id)
  <2>1. /\ Sends(p) /\ forwarder # None /\ forwarder.type \in {"pubrec", "pubrel"} /\ forwarder' = None
        /\ UNCHANGED <<incoming, router, event, sub>>
    BY <1>5 DEF ForwarderWrites, consumer
  <2>2. forwarder.id \in Id \union Configs \union {None} /\ type \in Type
    BY <1>1, <2>1 DEF Packet, Type
  <2>3. p \in Packet /\ p.type = type /\ p.id = forwarder.id
    BY <2>2, PacketTyped
  <2> HIDE DEF p
  <2>4. Extends
    BY <1>1, <2>1, <2>3, SendsExtends
  <2>5. ASSUME NEW i \in Id, Answered(i) PROVE Answered(i)'
    <3>1. CASE IsAnswer(forwarder, i)
      <4>1. type = "pubrel" /\ forwarder.id = i
        BY <2>1, <3>1 DEF IsAnswer
      <4>2. Reply(p) = <<P("pubcomp", 0, i)>>
        BY <2>3, <4>1 DEF Reply
      <4>3. /\ P("pubcomp", 0, i) \in Packet /\ P("pubcomp", 0, i).type = "pubcomp"
            /\ P("pubcomp", 0, i).id = i
        BY PacketTyped DEF Type
      <4>4. PICK k \in DOMAIN inbox' : inbox'[k] = P("pubcomp", 0, i)
        BY <1>1, <2>1, <2>3, <4>2, <4>3, ReplyComes
      <4>5. IsAnswer(inbox'[k], i)
        BY <4>3, <4>4, NoPacketAssumption DEF IsAnswer
      <4> QED BY <4>5 DEF Answered
    <3>2. CASE ~IsAnswer(forwarder, i)
      BY <2>1, <2>4, <2>5, <3>2, StillComes DEF Answered
    <3> QED BY <3>1, <3>2
  <2>6. (Comes("suback") => Comes("suback")') /\ (Comes("unsuback") => Comes("unsuback")')
    BY <2>4, StillComes DEF Type
  <2>7. WayInv'
    BY <2>1, <2>4 DEF WayInv, Extends, Requests
  <2> QED BY <2>1, <2>5, <2>6, <2>7 DEF AnswerInv
<1>6. CASE ForwarderHandsOver
  BY <1>6 DEF ForwarderHandsOver, WayInv, AnswerInv, Answered, IsAnswer, Comes, consumer
<1>7. CASE RouterTakes \/ RouterDrops \/ Decode \/ CallbackReturns \/ OnError
  <2>1. /\ UNCHANGED <<inbox, incoming, forwarder, event, sub>>
        /\ router'.pc # "wait" /\ router'.id = None
    BY <1>1, <1>7 DEF RouterTakes, RouterDrops, Decode, CallbackReturns, OnError, RouterGoes,
                      SendsNothing, Idle, reading, consumer
  <2> QED BY <2>1, AnswersKept, WayKept, PipelineAssumption
<1>8. CASE CallbackPublishes
  <2>1. PICK q \in 1..2 : Sends(P("publish", q, NextId))
    BY <1>8 DEF CallbackPublishes
  <2>2. PICK n \in Id : n = NextId
    BY <1>8, NextIdFree DEF CallbackPublishes
  <2>3. Answered(n)' /\ Extends
    BY <1>1, <2>1, <2>2, PublishIsAnswered
  <2>4. UNCHANGED <<incoming, forwarder, event, sub>> /\ router'.id = n
    BY <1>1, <1>8, <2>2 DEF CallbackPublishes, RouterGoes, reading
  <2> QED BY <2>2, <2>3, <2>4, AnswersKept, WayKept, PipelineAssumption
<1>9. CASE Ack
  <2>1. router.config \in Configs /\ Sends(P("pubrec", 0, router.config))
    BY <1>9, Positions DEF Ack
  <2>2. Extends
    BY <1>1, <2>1, PacketTyped, SendsExtends DEF Type
  <2>3. UNCHANGED <<incoming, forwarder, event, sub>> /\ router'.pc # "wait" /\ router'.id = None
    BY <1>9 DEF Ack, RouterGoes, Idle, reading
  <2> QED BY <2>2, <2>3, AnswersKept, WayKept, PipelineAssumption
<1>10. CASE EventPublishes
  <2>1. PICK q \in 1..2 : Sends(P("publish", q, NextId))
    BY <1>10 DEF EventPublishes
  <2>2. PICK n \in Id : n = NextId
    BY <1>10, NextIdFree DEF EventPublishes
  <2>3. Answered(n)' /\ Extends
    BY <1>1, <2>1, <2>2, PublishIsAnswered
  <2>4. UNCHANGED <<incoming, forwarder, router, sub>> /\ event' = n
    BY <1>10, <2>2 DEF EventPublishes, reading
  <2> QED BY <2>3, <2>4, AnswersKept, WayKept DEF AnswerInv
<1>11. CASE Subscribe \/ SubscribeEnds
  <2>1. PICK type \in {"subscribe", "unsubscribe"} :
          /\ Sends(P(type, 0, None)) /\ sub' = type
          /\ UNCHANGED <<incoming, forwarder, router, event>>
    BY <1>11 DEF Subscribe, SubscribeEnds, SubGoes, reading
  <2> DEFINE answer == IF type = "subscribe" THEN "suback" ELSE "unsuback"
  <2>2. /\ P(type, 0, None) \in Packet /\ P(type, 0, None).type = type
        /\ P(answer, 0, None) \in Packet /\ P(answer, 0, None).type = answer
    BY PacketTyped DEF Type
  <2>3. Reply(P(type, 0, None)) = <<P(answer, 0, None)>>
    BY <2>2 DEF Reply
  <2>4. Extends /\ Comes(answer)'
    BY <1>1, <2>1, <2>2, <2>3, ReplyComes, SendsExtends DEF Comes
  <2> QED BY <2>1, <2>4, AnswersKept, WayKept DEF AnswerInv
<1>12. CASE CallbackTimeout
  <2>1. UNCHANGED <<inbox, incoming, forwarder, event, sub>> /\ router'.pc = "report" /\ router'.id = None
    BY <1>1, <1>12 DEF CallbackTimeout, GivesUp, reading
  <2> QED BY <2>1, AnswersKept, WayKept, PipelineAssumption
<1>13. CASE EventTimeout
  <2>1. UNCHANGED <<inbox, incoming, forwarder, router, sub>> /\ event' = None
    BY <1>13 DEF EventTimeout, GivesUp, reading
  <2> QED BY <2>1, AnswersKept, WayKept, PipelineAssumption DEF AnswerInv
<1>14. CASE SubTimeout
  <2>1. UNCHANGED <<inbox, incoming, forwarder, router, event>> /\ sub' = "returned"
    BY <1>14 DEF SubTimeout, GivesUp, reading
  <2> QED BY <2>1, AnswersKept, WayKept DEF AnswerInv
<1>15. CASE Cancel \/ UNCHANGED vars
  <2>1. UNCHANGED <<inbox, incoming, forwarder, router, event, sub>>
    BY <1>15 DEF Cancel, vars, reading, consumer
  <2> QED BY <2>1, AnswersKept, WayKept DEF AnswerInv
<1> QED
  BY <1>2, <1>3, <1>4, <1>5, <1>6, <1>7, <1>8, <1>9, <1>10, <1>11, <1>12, <1>13, <1>14, <1>15
  DEF Next, Incoming, Forwarder, Router

\* Somebody waits for an answer and nobody can move: the answer is behind a
\* message that waits for another, and that one for the handler.
LEMMA StuckIsBacklog ==
  ASSUME PipelineInv, WayInv, AnswerInv, Stuck,
         router.pc = "wait" \/ event # None \/ sub \in {"subscribe", "unsubscribe"}
  PROVE  Backlog
<1>1. /\ router.id \in Id \union {None} /\ event \in Id \union {None}
      /\ inbox \in Seq(Packet)
  BY DEF PipelineInv, TypeInv, TypeOK
<1>2. forwarder # None => forwarder.type = "publish"
  BY DEF Stuck, ForwarderIsHeld, WayInv
<1>3. incoming # None \/ inbox # <<>>
  <2>1. CASE router.pc = "wait" \/ event # None
    <3>1. PICK i \in Id : i \in {router.id, event}
      BY <1>1, <2>1 DEF AnswerInv
    <3>2. Answered(i)
      BY <3>1 DEF AnswerInv
    <3>3. ~IsAnswer(forwarder, i)
      BY <1>2 DEF IsAnswer
    <3> QED BY <1>1, <3>2, <3>3 DEF Answered, IsAnswer
  <2>2. CASE sub \in {"subscribe", "unsubscribe"}
    BY <1>1, <2>2 DEF AnswerInv, Comes
  <2> QED BY <2>1, <2>2
<1>4. forwarder # None
  BY <1>3 DEF Stuck, IncomingWaits
<1>5. dispatcher # None /\ router.pc # "idle"
  BY <1>2, <1>4 DEF Stuck, ForwarderIsHeld, RouterWaits
<1> QED BY <1>2, <1>4, <1>5 DEF Backlog

\* A publish, SUBSCRIBE or UNSUBSCRIBE times out only while the handler is at work
\* on one configuration and two more wait for it, for any number of
\* configurations, publishes and identifiers: nothing else keeps an answer of the
\* broker from being read (mqtt.go:264-276, 296-307).
THEOREM TimeoutsNeedBacklog == Spec => []TimeoutNeedsBacklog
<1> DEFINE IInv == PipelineInv /\ WayInv /\ AnswerInv /\ TimeoutNeedsBacklog
<1>1. Init => IInv
  BY PipelineInit, AnswerInit DEF Init, TimeoutNeedsBacklog
<1>2. ASSUME IInv, [Next]_vars PROVE TimeoutNeedsBacklog'
  <2>1. CASE UNCHANGED timeouts
    BY <1>2, <2>1 DEF TimeoutNeedsBacklog
  <2>2. CASE CallbackTimeout \/ EventTimeout \/ SubTimeout
    <3>1. Backlog
      BY <1>2, <2>2, StuckIsBacklog DEF CallbackTimeout, EventTimeout, SubTimeout, GivesUp
    <3>2. PICK who : timeouts' = timeouts \union {[who |-> who, backlog |-> Backlog]}
      BY <2>2 DEF CallbackTimeout, EventTimeout, SubTimeout, GivesUp
    <3> QED BY <1>2, <3>1, <3>2 DEF TimeoutNeedsBacklog
  <2>3. CASE ~(CallbackTimeout \/ EventTimeout \/ SubTimeout)
    <3>1. UNCHANGED timeouts
      BY <1>2, <2>3 DEF Next, vars, BrokerConfigures, Incoming, IncomingReads, IncomingHandsOver,
         Forwarder, ForwarderWrites, ForwarderHandsOver, Router, RouterTakes, RouterDrops, Decode,
         RouterGoes,          CallbackPublishes, CallbackReturns, OnError, Ack, Subscribe, SubscribeEnds, SubGoes,
         EventPublishes, Cancel
    <3> QED BY <2>1, <3>1
  <2> QED BY <2>2, <2>3
<1>3. IInv /\ [Next]_vars => IInv'
  BY <1>2, TypeNext, OrderNext, RouteNext, AnswerNext DEF PipelineInv
<1>4. IInv => TimeoutNeedsBacklog
  OBVIOUS
<1> QED BY <1>1, <1>3, <1>4, PTL DEF Spec
==============================================================================
