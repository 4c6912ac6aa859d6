---------------------------- MODULE MqttPipeline ----------------------------
(***************************************************************************)
(* internal/hass/mqtt.go over the vendored paho client, which is run with  *)
(* its default of ordered handlers: SubscribeConfig, its callback, which   *)
(* publishes and waits from inside paho's message handler, and another     *)
(* goroutine that publishes.                                               *)
(*                                                                         *)
(* What is received passes three goroutines that hand over one packet at a *)
(* time and hold it while the next one is busy: incoming (which completes  *)
(* PUBACK, PUBCOMP, SUBACK and UNSUBACK itself), forwarder (which writes   *)
(* the answer to a PUBREC or a PUBREL) and dispatcher; then the router     *)
(* runs the handler.  What is sent never waits for any of them: the broker *)
(* has it at once, and its answer is behind what it sent before.           *)
(***************************************************************************)
EXTENDS Naturals, Sequences

CONSTANTS Id,          \* message identifiers of the client
          MaxConfigs,  \* configuration messages the broker may send
          MaxPublish,  \* publishes of one run of the callback
          None         \* no packet, no identifier

ASSUME PipelineAssumption == MaxConfigs \in Nat /\ MaxPublish \in Nat /\ None \notin Id

VARIABLES
  inbox,      \* Seq(Packet): from the broker, on the wire
  incoming,   \* the packet that startIncomingComms holds, or None
  forwarder,  \* the packet that the goroutine of startComms holds, or None
  dispatcher, \* the PUBLISH that the goroutine of startCommsWorkers holds, or None
  dropped,    \* history: how many PUBLISHes found no route
  router,     \* the handler: [pc, config, left, id]
  event,      \* the other goroutine: the identifier it waits for, or None
  token,      \* [Id -> TokenState]
  sub,        \* how far SubscribeConfig is
  errs,       \* its channel: 0 or 1 error
  done,       \* the context is cancelled
  sent,       \* configuration messages sent by the broker
  listening,  \* the broker has the subscription, and paho the route to the handler
  handled,    \* configurations whose handler has returned, in order
  acked,      \* SUBSET of configurations that the broker knows are received
  timeouts    \* history: who gave up waiting, and what was in the way

reading  == <<incoming, forwarder, dispatcher, dropped>>
consumer == <<router, event, token, sub, errs, done>>
broker   == <<sent, listening, acked>>
vars == <<inbox, reading, consumer, broker, handled, timeouts>>

Configs == 1..MaxConfigs
Type == {"publish", "pubrec", "pubrel", "pubcomp", "puback",
         "subscribe", "suback", "unsubscribe", "unsuback"}
Packet == [type : Type, qos : 0..2, id : Id \union Configs \union {None}]
ASSUME NoPacketAssumption == None \notin Packet
TokenState == {"free", "pending", "orphan"}
RouterStep == {"idle", "decode", "callback", "wait", "report", "ack"}
SubStep == {"start", "subscribe", "serve", "unsubscribe", "returned"}

TypeOK ==
    /\ inbox \in Seq(Packet)
    /\ \A held \in {incoming, forwarder, dispatcher} : held \in Packet \union {None}
    /\ dispatcher # None => dispatcher.type = "publish"
    /\ dropped \in Nat
    /\ router \in [pc : RouterStep, config : Configs \union {None}, left : 0..MaxPublish,
                   id : Id \union {None}]
    /\ event \in Id \union {None}
    /\ token \in [Id -> TokenState]
    /\ \A i \in Id : token[i] = "pending" => i \in {router.id, event}
    /\ sub \in SubStep /\ errs \in 0..1 /\ done \in BOOLEAN
    /\ sent \in 0..MaxConfigs /\ listening \in BOOLEAN
    /\ handled \in Seq(Configs) /\ acked \subseteq Configs
    /\ timeouts \in SUBSET [who : {"router", "event", "sub"}, backlog : BOOLEAN]

Idle == [pc |-> "idle", config |-> None, left |-> 0, id |-> None]

Init ==
    /\ inbox = <<>>
    /\ incoming = None /\ forwarder = None /\ dispatcher = None /\ dropped = 0
    /\ router = Idle /\ event = None
    /\ token = [i \in Id |-> "free"]
    /\ sub = "start" /\ errs = 0 /\ done = FALSE
    /\ sent = 0 /\ listening = FALSE
    /\ handled = <<>> /\ acked = {} /\ timeouts = {}

P(type, qos, id) == [type |-> type, qos |-> qos, id |-> id]

------------------------------------------------------------------------------
(* The broker answers every packet, and sends the configurations.          *)

Reply(p) ==
    CASE p.type = "publish" -> <<P(IF p.qos = 2 THEN "pubrec" ELSE "puback", 0, p.id)>>
      [] p.type = "pubrel" -> <<P("pubcomp", 0, p.id)>>
      [] p.type = "pubrec" -> <<P("pubrel", 0, p.id)>>
      [] p.type = "subscribe" -> <<P("suback", 0, None)>>
      [] p.type = "unsubscribe" -> <<P("unsuback", 0, None)>>
      [] OTHER -> <<>>

Sends(p) ==
    /\ inbox' = inbox \o Reply(p)
    /\ listening' = ((listening \/ p.type = "subscribe") /\ p.type # "unsubscribe")
    /\ acked' = IF p.type = "pubrec" THEN acked \union {p.id} ELSE acked
    /\ UNCHANGED sent

SendsNothing == UNCHANGED <<inbox, broker>>

BrokerConfigures ==
    /\ listening /\ sent < MaxConfigs
    /\ sent' = sent + 1
    /\ inbox' = Append(inbox, P("publish", 2, sent'))
    /\ UNCHANGED <<reading, consumer, listening, acked, handled, timeouts>>

------------------------------------------------------------------------------
(* paho: the goroutines that receive.                                      *)

Completing == {"puback", "pubcomp", "suback", "unsuback"}

\* flowComplete of the token with this identifier.  An identifier that nobody
\* waits for any more is free again, too.
Completes(p) ==
    /\ token' = IF p.id \in Id THEN [token EXCEPT ![p.id] = "free"] ELSE token
    /\ sub' = CASE p.type = "suback" /\ sub = "subscribe" -> "serve"
                [] p.type = "unsuback" /\ sub = "unsubscribe" -> "returned"
                [] OTHER -> sub
    /\ router' = IF router.id # None /\ router.id = p.id
                   THEN [router EXCEPT !.pc = "callback", !.id = None] ELSE router
    /\ event' = IF event = p.id THEN None ELSE event

\* Faulty IncomingReads: an acknowledgement goes the way of the messages.
IncomingPassesOn ==
    /\ incoming = None /\ inbox # <<>>
    /\ inbox' = Tail(inbox)
    /\ incoming' = Head(inbox)
    /\ UNCHANGED <<forwarder, dispatcher, dropped, consumer, broker, handled, timeouts>>

\* startIncomingComms reads a packet.
IncomingReads ==
    /\ incoming = None /\ inbox # <<>>
    /\ inbox' = Tail(inbox)
    /\ IF Head(inbox).type \in Completing
         THEN Completes(Head(inbox)) /\ UNCHANGED incoming
         ELSE incoming' = Head(inbox) /\ UNCHANGED <<router, event, token, sub>>
    /\ UNCHANGED <<forwarder, dispatcher, dropped, errs, done, broker, handled, timeouts>>

IncomingHandsOver ==
    /\ incoming # None /\ forwarder = None
    /\ forwarder' = incoming /\ incoming' = None
    /\ UNCHANGED <<inbox, dispatcher, dropped, consumer, broker, handled, timeouts>>

\* PUBREC is answered with PUBREL, PUBREL with PUBCOMP.
ForwarderWrites ==
    /\ forwarder # None /\ forwarder.type \in {"pubrec", "pubrel"}
    /\ Sends(P(IF forwarder.type = "pubrec" THEN "pubrel" ELSE "pubcomp", 0, forwarder.id))
    /\ forwarder' = None
    /\ UNCHANGED <<incoming, dispatcher, dropped, consumer, handled, timeouts>>

ForwarderHandsOver ==
    /\ forwarder # None /\ forwarder.type = "publish" /\ dispatcher = None
    /\ dispatcher' = forwarder /\ forwarder' = None
    /\ UNCHANGED <<inbox, incoming, dropped, consumer, broker, handled, timeouts>>

\* Faulty RouterTakes: the message is acknowledged before its handler runs.
RouterAcksFirst ==
    /\ dispatcher # None /\ router.pc = "idle" /\ listening
    /\ router' = [Idle EXCEPT !.pc = "decode", !.config = dispatcher.id]
    /\ dispatcher' = None
    /\ Sends(P("pubrec", 0, dispatcher.id))
    /\ UNCHANGED <<incoming, forwarder, dropped, event, token, sub, errs, done, handled, timeouts>>

RouterTakes ==
    /\ dispatcher # None /\ router.pc = "idle" /\ listening
    /\ router' = [Idle EXCEPT !.pc = "decode", !.config = dispatcher.id]
    /\ dispatcher' = None
    /\ UNCHANGED <<inbox, incoming, forwarder, dropped, event, token, sub, errs, done,
                   broker, handled, timeouts>>

\* Unsubscribe has deleted the route: the message is neither handled nor
\* acknowledged.
RouterDrops ==
    /\ dispatcher # None /\ router.pc = "idle" /\ ~listening
    /\ dispatcher' = None
    /\ dropped' = dropped + 1
    /\ UNCHANGED <<inbox, incoming, forwarder, consumer, broker, handled, timeouts>>

------------------------------------------------------------------------------
(* SubscribeConfig's handler.                                              *)

RouterGoes(r) ==
    /\ router' = r
    /\ UNCHANGED <<reading, event, sub, done, timeouts>>

\* A configuration that does not decode is an error; else the callback runs,
\* which publishes what has changed.
Decode ==
    /\ router.pc = "decode"
    /\ \/ RouterGoes([router EXCEPT !.pc = "report"])
       \/ \E n \in 0..MaxPublish :
             RouterGoes([router EXCEPT !.pc = "callback", !.left = n])
    /\ SendsNothing
    /\ UNCHANGED <<token, errs, handled>>

\* A publish takes any free identifier: there are always some (65535 in paho).
FreeIds == {i \in Id : token[i] = "free"}
NextId == CHOOSE i \in FreeIds : TRUE

\* The next publish of the callback: a state or a discovery message (QoS 2) or
\* attributes (QoS 1).
CallbackPublishes ==
    /\ router.pc = "callback" /\ router.left > 0
    /\ FreeIds # {}
    /\ \E q \in 1..2 : Sends(P("publish", q, NextId))
    /\ token' = [token EXCEPT ![NextId] = "pending"]
    /\ RouterGoes([router EXCEPT !.pc = "wait", !.left = @ - 1, !.id = NextId])
    /\ UNCHANGED <<errs, handled>>

CallbackReturns ==
    /\ router.pc = "callback" /\ router.left = 0
    /\ RouterGoes([router EXCEPT !.pc = "ack"])
    /\ SendsNothing
    /\ UNCHANGED <<token, errs, handled>>

\* Faulty OnError: it waits for room only.
OnErrorBlocks ==
    /\ router.pc = "report"
    /\ errs = 0 /\ errs' = 1
    /\ RouterGoes([router EXCEPT !.pc = "ack"])
    /\ SendsNothing
    /\ UNCHANGED <<token, handled>>

\* onError: errs has room for one error; the next ones wait until SubscribeConfig
\* has taken it, or the context is cancelled.
OnError ==
    /\ router.pc = "report"
    /\ \/ errs = 0 /\ errs' = 1
       \/ done /\ UNCHANGED errs
    /\ RouterGoes([router EXCEPT !.pc = "ack"])
    /\ SendsNothing
    /\ UNCHANGED <<token, handled>>

\* The deferred Ack, after whatever the handler did.
Ack ==
    /\ router.pc = "ack"
    /\ Sends(P("pubrec", 0, router.config))
    /\ handled' = Append(handled, router.config)
    /\ RouterGoes(Idle)
    /\ UNCHANGED <<token, errs>>

------------------------------------------------------------------------------
(* The goroutine that publishes on an event; its error cancels the context. *)

EventPublishes ==
    /\ event = None /\ ~done
    /\ FreeIds # {}
    /\ \E q \in 1..2 : Sends(P("publish", q, NextId))
    /\ token' = [token EXCEPT ![NextId] = "pending"]
    /\ event' = NextId
    /\ UNCHANGED <<reading, router, sub, errs, done, handled, timeouts>>

------------------------------------------------------------------------------
(* SubscribeConfig.                                                        *)

SubGoes(step) ==
    /\ sub' = step
    /\ UNCHANGED <<reading, router, event, token, handled, timeouts>>

Subscribe ==
    /\ sub = "start"
    /\ Sends(P("subscribe", 0, None))
    /\ SubGoes("subscribe")
    /\ UNCHANGED <<errs, done>>

\* Faulty SubscribeEnds: it waits for an error only.
SubscribeEndsOnError ==
    /\ sub = "serve"
    /\ errs = 1 /\ errs' = 0
    /\ Sends(P("unsubscribe", 0, None))
    /\ SubGoes("unsubscribe")
    /\ UNCHANGED done

\* The select: the context, or an error of the handler.  paho's Unsubscribe
\* deletes the route as it hands UNSUBSCRIBE over.
SubscribeEnds ==
    /\ sub = "serve"
    /\ \/ done /\ UNCHANGED errs
       \/ errs = 1 /\ errs' = 0
    /\ Sends(P("unsubscribe", 0, None))
    /\ SubGoes("unsubscribe")
    /\ UNCHANGED done

\* main's signal, or the error of another goroutine; SubscribeConfig's own
\* return ends the rest of the daemon as well.
Cancel ==
    /\ ~done
    /\ done' = TRUE
    /\ UNCHANGED <<inbox, reading, router, event, token, sub, errs, broker, handled, timeouts>>

------------------------------------------------------------------------------
(* tokenWait gives up after a second.  That is long for the goroutines and *)
(* the broker: it happens only when none of them can move.                 *)

Incoming == IncomingReads \/ IncomingHandsOver
Forwarder == ForwarderWrites \/ ForwarderHandsOver
Router ==
    \/ RouterTakes \/ RouterDrops \/ Decode \/ CallbackPublishes \/ CallbackReturns \/ OnError
    \/ Ack

IncomingWaits == IF incoming = None THEN inbox = <<>> ELSE forwarder # None

ForwarderIsHeld == forwarder # None =>
    /\ forwarder.type \notin {"pubrec", "pubrel"}
    /\ forwarder.type = "publish" => dispatcher # None

RouterWaits ==
    \/ router.pc = "idle" /\ dispatcher = None
    \/ router.pc = "callback" /\ router.left > 0 /\ FreeIds = {}
    \/ router.pc = "wait"
    \/ router.pc = "report" /\ errs = 1 /\ ~done

SubWaits == sub # "start" /\ (sub = "serve" => ~done /\ errs = 0)

Stuck == IncomingWaits /\ ForwarderIsHeld /\ RouterWaits /\ SubWaits

\* The handler has one configuration, and two more wait for it.
Backlog ==
    /\ router.pc # "idle" /\ dispatcher # None
    /\ forwarder # None /\ forwarder.type = "publish"

GivesUp(who) ==
    /\ Stuck
    /\ timeouts' = timeouts \union {[who |-> who, backlog |-> Backlog]}
    /\ UNCHANGED <<inbox, reading, broker, handled>>

\* Faulty CallbackTimeout: the token is still waited for.
CallbackTimeoutForgets ==
    /\ router.pc = "wait"
    /\ GivesUp("router")
    /\ router' = [router EXCEPT !.pc = "report", !.id = None]
    /\ UNCHANGED <<event, token, sub, errs, done>>

CallbackTimeout ==
    /\ router.pc = "wait"
    /\ GivesUp("router")
    /\ token' = [token EXCEPT ![router.id] = "orphan"]
    /\ router' = [router EXCEPT !.pc = "report", !.id = None]
    /\ UNCHANGED <<event, sub, errs, done>>

EventTimeout ==
    /\ event # None
    /\ GivesUp("event")
    /\ token' = [token EXCEPT ![event] = "orphan"]
    /\ event' = None /\ done' = TRUE
    /\ UNCHANGED <<router, sub, errs>>

\* Waiting for SUBACK: an error; for UNSUBACK: it was the best effort.
SubTimeout ==
    /\ sub \in {"subscribe", "unsubscribe"}
    /\ GivesUp("sub")
    /\ sub' = "returned" /\ done' = TRUE
    /\ UNCHANGED <<router, event, token, errs>>

------------------------------------------------------------------------------
Next ==
    \/ BrokerConfigures \/ Incoming \/ Forwarder \/ Router \/ CallbackTimeout
    \/ Subscribe \/ SubscribeEnds \/ SubTimeout
    \/ EventPublishes \/ EventTimeout \/ Cancel

\* Every goroutine that can move does, and a timer fires.  SubscribeConfig's
\* return cancels the context, when nothing else has.
Fairness ==
    /\ WF_vars(Incoming) /\ WF_vars(Forwarder) /\ WF_vars(Router \/ CallbackTimeout)
    /\ WF_vars(Subscribe \/ SubscribeEnds \/ SubTimeout) /\ WF_vars(EventTimeout)
    /\ WF_vars(Cancel /\ sub = "returned")

Spec == Init /\ [][Next]_vars /\ Fairness

------------------------------------------------------------------------------
(* What the pipeline promises.                                             *)

\* Nothing that is published times out unless the handler is at work on one
\* configuration and two more wait for it: those two, and nothing else, keep the
\* PUBREC from being answered (mqtt.go:264-276, 296-307).
TimeoutNeedsBacklog == \A t \in timeouts : t.backlog

\* The broker is told that a configuration is received only after its handler has
\* returned, and the handler sees them in the order they were sent in, each
\* once: a later configuration is never overridden by an earlier one
\* (mqtt.go:264-265).
HandledInOrder ==
    /\ \A i \in DOMAIN handled : handled[i] = i
    /\ acked \subseteq {handled[i] : i \in DOMAIN handled}

\* paho's rule for handlers (client.go:811-813 of the vendored client): the
\* callback never has to give up on a publish although the broker answers.
HandlerNeverStuck == \A t \in timeouts : t.who # "router"

\* Once SubscribeConfig has been called, an error or the end of the context makes
\* it return, although the answer to UNSUBSCRIBE may be behind the very messages
\* that wait for the handler (mqtt.go:282-293).
SubscribeConfigReturns == (done \/ errs = 1) ~> sub = "returned"

\* The handler always comes to an end: it waits neither for an acknowledgement
\* that cannot come nor for room for an error that nobody takes (mqtt.go:255-276).
HandlerEnds == router.pc # "idle" ~> router.pc = "idle"
==============================================================================
