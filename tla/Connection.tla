----------------------------- MODULE Connection -----------------------------
(***************************************************************************)
(* The AWS thread of the board and its connection (awsiot.cpp, network.cpp, *)
(* AWSIoTClient of aws_client.cpp), composed with the MQTT client it uses   *)
(* (MqttClient). The thread connects, subscribes, and then turns for ever:  *)
(* publish what waits, stream what is recorded, yield to what arrives. It   *)
(* notices a lost connection when a publish or a yield fails, and then      *)
(* connects again from where it is: in the loop, or in a callback that the  *)
(* client is calling.                                                      *)
(*                                                                         *)
(* Wi-Fi, the socket and the broker are external. What waits to be          *)
(* published is one flag here; ShadowQueue has the queue, RecordRing the    *)
(* stream.                                                                 *)
(***************************************************************************)
EXTENDS MqttClient, Sequences

CONSTANTS
  MaxFaults,   \* bound: things that go wrong
  MaxMessages, \* bound: messages of the app to the board
  MaxSections, \* bound: messages a recording is streamed in
  MaxWire      \* bound: packets on their way to the board

ASSUME BoundAssumption ==
  {MaxFaults, MaxMessages, MaxSections} \subseteq Nat /\ MaxWire \in Nat \ {0}

VARIABLES
  pc,                \* where the AWS thread is, see Places
  caller,            \* where awsiot_connect_thread returns to
  retry,             \* its local variable
  subscribing,       \* the subscription it is at
  client,            \* client # NULL
  mqtt_obj,          \* client->mqtt_obj # NULL
  session, timers,   \* the fields of the client object (ping_sent is static)
  network,           \* _network # NULL
  network_interface, \* network_interface # NULL
  shadow_status,     \* updates wait
  sound,             \* messages a recording is still to be streamed in
  wifi,              \* external: get_connection_status() = NSAPI_STATUS_GLOBAL_UP
  socket,            \* external: "none", "open", "silent" (half open, or closed by the
                     \* broker: reads time out, writes are swallowed), "broken", "garbled"
  wire,              \* external: packets on their way to the board
  subs,              \* external: what the broker has subscribed the board to
  unheard,           \* history: a wish of the app has not reached hw_aws_sync
  messages, faults,
  causes             \* history: what went wrong, see Causes

thread == <<pc, caller, retry, subscribing>>
objects == <<client, mqtt_obj, session, timers, network, network_interface>>
work == <<shadow_status, sound>>
peer == <<socket, wire, subs>>
history == <<messages, faults, causes>>
vars == <<thread, objects, work, wifi, peer, unheard, history>>

Places == {"main", "connect", "tls", "connack", "refused", "subscribe", "suback", "get", "loop", "stream",
           "yield", "callback", "subcallback", "under", "offline", "ended", "crashed"}
\* What has gone wrong: Wi-Fi is down; no connection is made; the connection is lost; an
\* answer comes too late; a packet comes in part, or is too long; a wish comes while the
\* board is not subscribed; a publish fails in a callback; or in a stream, without Wi-Fi.
Causes == {"offline", "refused", "lost", "late", "short", "overflow", "early", "callback", "stream"}
Subscriptions == <<"get", "update", "productmetadata", "transcript">>
Sockets == {"none", "open", "silent", "broken", "garbled"}
Packets == [type : PacketTypes, topic : Topics \cup {NoTopic}]

TypeOK ==
  /\ pc \in Places /\ caller \in {"start", "loop", "stream", "under"}
  /\ retry \in BOOLEAN /\ subscribing \in 1 .. 4
  /\ client \in BOOLEAN /\ mqtt_obj \in BOOLEAN
  /\ session \in Sessions /\ timers \in Timers
  /\ network \in BOOLEAN /\ network_interface \in BOOLEAN
  /\ shadow_status \in BOOLEAN /\ sound \in 0 .. MaxSections
  /\ wifi \in BOOLEAN /\ socket \in Sockets
  /\ wire \in Seq(Packets) /\ Len(wire) <= MaxWire
  /\ subs \subseteq Topics /\ unheard \in BOOLEAN
  /\ messages \in 0 .. MaxMessages /\ faults \in 0 .. MaxFaults
  /\ causes \subseteq Causes

Init ==
  /\ pc = "main" /\ caller = "start" /\ retry = FALSE /\ subscribing = 1
  /\ client = FALSE /\ mqtt_obj = FALSE
  /\ session = NewSession
  /\ timers = Timer(0, 0, 0)
  /\ network = FALSE /\ network_interface = TRUE
  /\ shadow_status = FALSE /\ sound = 0
  /\ wifi = FALSE /\ socket = "none" /\ wire = <<>> /\ subs = {}
  /\ unheard = FALSE
  /\ messages = 0 /\ faults = 0 /\ causes = {}

----------------------------------------------------------------------------
(* The broker, and what can go wrong *)

Packet(type, topic) == [type |-> type, topic |-> topic]

\* Something goes wrong, once more.
Fault(cause) == faults < MaxFaults /\ faults' = faults + 1 /\ causes' = causes \cup {cause}

\* The broker hears what is sent on an open socket, and answers.
Answered(packet) == IF socket = "open" THEN Append(wire, packet) ELSE wire
Room == Len(wire) < MaxWire

\* sendPacket: a write to a silent socket succeeds, too.
Writable == socket # "broken"

\* The app wants something changed, or wants to be paired. It reaches the board if the
\* broker has the board subscribed and the socket carries it.
AppSends(topic) ==
  /\ messages < MaxMessages
  /\ messages' = messages + 1
  /\ topic \in {"update", "productmetadata"}
  /\ LET heard == topic \in subs /\ socket = "open"
     IN  /\ heard => Room
         /\ wire' = IF heard THEN Append(wire, Packet("PUBLISH", topic)) ELSE wire
         /\ causes' = IF heard \/ topic # "update" THEN causes ELSE causes \cup {"early"}
  /\ unheard' = (unheard \/ topic = "update")
  /\ UNCHANGED <<thread, objects, work, wifi, socket, subs, faults>>

\* The connection breaks, or the broker goes silent.
SocketFails(state) ==
  /\ socket \in {"open", "garbled"}
  /\ Fault("lost")
  /\ state \in {"silent", "broken"}
  /\ socket' = state
  /\ wire' = <<>> /\ subs' = {}
  /\ UNCHANGED <<thread, objects, work, wifi, unheard, messages>>

WifiFails ==
  /\ wifi
  /\ Fault("offline")
  /\ wifi' = FALSE
  /\ socket' = IF socket = "none" THEN "none" ELSE "broken"
  /\ wire' = <<>> /\ subs' = {}
  /\ UNCHANGED <<thread, objects, work, unheard, messages>>

WifiReturns ==
  /\ ~wifi /\ pc # "main"
  /\ wifi' = TRUE
  /\ UNCHANGED <<thread, objects, work, peer, unheard, history>>

\* A button is pressed; a message has been recorded (main loop).
Press ==
  /\ ~shadow_status
  /\ shadow_status' = TRUE
  /\ UNCHANGED <<thread, objects, sound, wifi, peer, unheard, history>>

Record ==
  /\ sound = 0
  /\ sound' \in 1 .. MaxSections
  /\ UNCHANGED <<thread, objects, shadow_status, wifi, peer, unheard, history>>

----------------------------------------------------------------------------
(* awsiot_connect_thread *)

\* main: network_connect tries three times, and gives network_interface up; then the
\* thread is started.
Main ==
  /\ pc = "main"
  /\ \/ /\ wifi' = TRUE /\ network_interface' = TRUE
        /\ pc' = "connect" /\ network' = TRUE
        /\ UNCHANGED <<faults, causes>>
     \/ /\ Fault("offline")
        /\ wifi' = FALSE /\ network_interface' = FALSE
        /\ pc' = "offline" /\ network' = FALSE
  /\ UNCHANGED <<caller, retry, subscribing, client, mqtt_obj, session, timers, work, peer, unheard, messages>>

\* Called with NULL: it waits for its own parameter, whatever network_connect does.
WaitForNetwork ==
  /\ pc = "offline"
  /\ network_interface
  /\ \/ wifi' = TRUE /\ UNCHANGED network_interface
     \/ wifi' = FALSE /\ network_interface' = FALSE
  /\ UNCHANGED <<thread, client, mqtt_obj, session, timers, network, work, peer, unheard, history>>

\* A slip of Reconnect: the network is dropped while Wi-Fi is up.
ReconnectDrops(from, wasUp) ==
  /\ pc' = "offline" /\ network' = FALSE
  /\ caller' = from /\ retry' = TRUE /\ subscribing' = 2

\* What a caller that has found the connection lost does before it calls again: unless
\* Wi-Fi is up, it drops the network it would pass on. A retry subscribes from the second
\* topic on.
Reconnect(from, wasUp) ==
  /\ pc' = IF wasUp THEN "connect" ELSE "offline"
  /\ network' = wasUp
  /\ caller' = from /\ retry' = TRUE /\ subscribing' = 2

\* A client there is is disconnected and deleted; if its session cannot be ended
\* (AWSIoTClient::disconnect) its MQTT client and socket are leaked. Then a new one.
Connect ==
  /\ pc = "connect"
  /\ wifi' \in (IF client /\ ~wifi THEN BOOLEAN ELSE {wifi})
  /\ retry' = (retry \/ client)
  /\ client' = TRUE /\ mqtt_obj' = FALSE
  /\ network' = TRUE
  /\ socket' = "none" /\ wire' = <<>> /\ subs' = {}
  /\ pc' = "tls"
  /\ UNCHANGED <<caller, subscribing, session, timers, network_interface, work, unheard, history>>

\* The TLS connection, a new MQTT client, and its CONNECT.
Tls ==
  /\ pc = "tls"
  /\ \/ /\ wifi
        /\ socket' = "open"
        /\ mqtt_obj' = TRUE /\ session' = NewSession
        /\ timers' = Timer(0, 0, timers.ping_sent)
        /\ wire' = <<Packet("CONNACK", NoTopic)>>
        /\ pc' = "connack"
        /\ UNCHANGED <<faults, causes>>
     \/ /\ IF wifi THEN Fault("refused") ELSE UNCHANGED <<faults, causes>>
        /\ pc' = "refused"
        /\ UNCHANGED <<mqtt_obj, session, timers, socket, wire>>
  /\ UNCHANGED <<caller, retry, subscribing, client, network, network_interface, work, wifi, subs, unheard,
                 messages>>

----------------------------------------------------------------------------
(* Reading: one cycle of the MQTT client *)

\* What readPacket may find: on a garbled stream, what is left of a broken packet.
Found ==
  CASE socket = "broken" -> {"error"}
    [] socket = "garbled" -> Reads \ {"PUBLISH"}
    [] wire = <<>> -> {"none"}
    [] OTHER -> {Head(wire).type}

\* A packet may be too long, or come in part, or, while somebody waits, too late.
ReadFault(packet) ==
  /\ socket = "open" /\ wire # <<>>
  /\ packet \in {"overflow", "short"} \cup (IF pc \in {"connack", "suback"} THEN {"none"} ELSE {})
  /\ Fault(IF packet = "none" THEN "late" ELSE packet)

Cycle(packet) == cycle(session, timers, packet, Writable)
Result(packet) == Cycle(packet).result

\* The cycle, but for the session: what follows from the result is its caller's.
Read(packet) ==
  /\ \/ packet \in Found /\ UNCHANGED <<faults, causes>>
     \/ ReadFault(packet)
  /\ LET rest == IF wire = <<>> \/ packet = "none" THEN wire ELSE Tail(wire)
     IN  wire' = IF Cycle(packet).pings /\ socket = "open"
                 THEN Append(rest, Packet("PINGRESP", NoTopic)) ELSE rest
  /\ Len(wire') <= MaxWire
  /\ timers' = Cycle(packet).timers
  /\ socket' = IF packet \in {"short", "overflow"} THEN "garbled" ELSE socket
  /\ UNCHANGED subs

\* A slip of Delivered: while the board subscribes, what comes in is dropped.
DeliveredLater(packet) ==
  IF packet = "PUBLISH" /\ pc = "yield" /\ Head(wire).topic \in Handled(session) THEN Head(wire).topic
  ELSE NoTopic

\* A message is delivered if its topic has a handler.
Delivered(packet) ==
  IF packet = "PUBLISH" /\ Head(wire).topic \in Handled(session) THEN Head(wire).topic ELSE NoTopic

\* The callbacks of /get/accepted and /update/accepted: hw_aws_sync applies the message,
\* and may have something to report.
Apply(topic) ==
  /\ unheard' = (unheard /\ (topic # "update" \/ \E i \in 2 .. Len(wire) : wire[i].topic = "update"))
  /\ shadow_status' \in (IF topic \in {"get", "update"} THEN {shadow_status, TRUE} ELSE {shadow_status})
  /\ UNCHANGED sound

----------------------------------------------------------------------------
(* awsiot_connect_thread: the MQTT session and the subscriptions *)

\* mqtt_obj->connect waits for the CONNACK until something fails or nothing comes.
Connack(packet) ==
  /\ pc = "connack"
  /\ Read(packet)
  /\ session' = IF Result(packet) = "CONNACK"
                THEN Session(TRUE, Cycle(packet).session.messageHandlers, FALSE)
                ELSE Cycle(packet).session
  /\ pc' = CASE Result(packet) = "CONNACK" -> "subscribe"
             [] Result(packet) \in {"none", "failure"} -> "refused"
             [] OTHER -> "connack"
  /\ UNCHANGED <<caller, retry, subscribing, client, mqtt_obj, network, network_interface, work, wifi,
                 unheard, messages>>

\* client->connect has failed: no client is left, and the caller goes on.
Refused ==
  /\ pc = "refused"
  /\ client' = FALSE /\ mqtt_obj' = FALSE
  /\ socket' = "none" /\ wire' = <<>> /\ subs' = {}
  /\ pc' = IF caller = "start" THEN "ended" ELSE caller
  /\ causes' = causes \cup {"refused"}
  /\ UNCHANGED <<caller, retry, subscribing, session, timers, network, network_interface, work, wifi,
                 unheard, messages, faults>>

\* The next subscription; after the last, the loop, or the caller of a retry. That a
\* subscription has failed is told to nobody.
NextSubscription ==
  /\ subscribing' = IF subscribing < 4 THEN subscribing + 1 ELSE subscribing
  /\ pc' = CASE subscribing < 4 -> "subscribe"
             [] subscribing = 4 /\ retry -> caller
             [] OTHER -> "get"

\* The topic of the last subscription is a local array: a retry returns, and what is left
\* there is undefined.
Kept(s) == IF subscribing = 4 /\ retry THEN {s, Forget(s, "transcript")} ELSE {s}

\* mqtt_obj->subscribe up to its SUBSCRIBE.
Subscribe ==
  /\ pc = "subscribe"
  /\ IF session.isconnected /\ Writable
     THEN /\ pc' = "suback" /\ UNCHANGED <<subscribing, session>>
          /\ Room
          /\ wire' = Answered(Packet("SUBACK", NoTopic))
          /\ subs' = IF socket = "open" THEN subs \cup {Subscriptions[subscribing]} ELSE subs
          /\ timers' = Sent(timers)
     ELSE /\ NextSubscription
          /\ session' = closeSession(session)
          /\ UNCHANGED <<wire, subs, timers>>
  /\ UNCHANGED <<caller, retry, client, mqtt_obj, network, network_interface, work, wifi, socket,
                 unheard, history>>

\* ... and from there. Any SUBACK will do; messages are delivered meanwhile.
Suback(packet) ==
  /\ pc = "suback"
  /\ Read(packet)
  /\ Apply(Delivered(packet))
  /\ LET after == Cycle(packet).session
     IN  CASE Result(packet) = "SUBACK" ->
                /\ session' \in Kept(setMessageHandler(after, Subscriptions[subscribing]))
                /\ NextSubscription
           [] Result(packet) \in {"none", "failure"} ->
                /\ session' = closeSession(after)
                /\ NextSubscription
           [] OTHER ->
                /\ session' = after
                /\ pc' = IF Delivered(packet) = "productmetadata" THEN "subcallback" ELSE "suback"
                /\ UNCHANGED subscribing
  /\ UNCHANGED <<caller, retry, client, mqtt_obj, network, network_interface, wifi, messages>>

----------------------------------------------------------------------------
(* Publishing *)

\* AWSIoTClient::publish at QoS 0.
Publishable == mqtt_obj /\ session.isconnected /\ Writable
Publish(topic) ==
  /\ session' = IF mqtt_obj /\ session.isconnected /\ ~Writable THEN closeSession(session) ELSE session
  /\ timers' = IF Publishable THEN Sent(timers) ELSE timers
  /\ wire' = IF Publishable /\ topic \in subs THEN Answered(Packet("PUBLISH", topic)) ELSE wire
  /\ Publishable /\ topic \in subs => Room
  /\ UNCHANGED <<mqtt_obj, socket, subs>>

\* awsiot_publish. Without a client it reports success; when it fails it connects again
\* before it reports the failure, and the caller then goes on at "to". _network is not
\* checked.
awsiot_publish(topic, to, after) ==
  IF ~client
  THEN pc' = to /\ UNCHANGED <<caller, retry, subscribing, network, session, timers, mqtt_obj, peer>>
  ELSE /\ Publish(topic)
       /\ CASE Publishable -> pc' = to /\ UNCHANGED <<caller, retry, subscribing, network>>
            [] ~Publishable /\ ~network -> pc' = "crashed" /\ UNCHANGED <<caller, retry, subscribing, network>>
            [] OTHER -> Reconnect(after, wifi)

\* awsiot_shadow_cycle begins by asking for the document.
Get ==
  /\ pc = "get"
  /\ awsiot_publish("get", "loop", "loop")
  /\ UNCHANGED <<client, network_interface, work, wifi, unheard, history>>

\* A slip of PublishShadow: the updates are cleared whatever the result.
PublishShadowForgets ==
  /\ pc = "loop"
  /\ IF shadow_status
     THEN awsiot_publish("status", "stream", "stream") /\ shadow_status' = FALSE
     ELSE /\ pc' = "stream"
          /\ UNCHANGED <<caller, retry, subscribing, network, session, timers, mqtt_obj, shadow_status, peer>>
  /\ UNCHANGED <<client, network_interface, sound, wifi, unheard, history>>

\* The waiting updates. They are cleared if awsiot_publish says so.
PublishShadow ==
  /\ pc = "loop"
  /\ IF shadow_status
     THEN /\ awsiot_publish("status", "stream", "stream")
          /\ shadow_status' = (client /\ ~Publishable)
     ELSE /\ pc' = "stream"
          /\ UNCHANGED <<caller, retry, subscribing, network, session, timers, mqtt_obj, shadow_status, peer>>
  /\ UNCHANGED <<client, network_interface, sound, wifi, unheard, history>>

\* One message of the stream, awsiot_publish_stream: a client is not asked for. Its result
\* is not looked at; when it fails and Wi-Fi is down, it forgets the network.
PublishStream ==
  /\ pc = "stream"
  /\ IF sound = 0
     THEN /\ pc' = "yield"
          /\ UNCHANGED <<session, timers, mqtt_obj, network, sound, peer, causes>>
     ELSE /\ sound' = sound - 1
          /\ Publish("stream")
          /\ network' = (network /\ (Publishable \/ wifi))
          /\ pc' \in CASE ~client -> {"crashed", "stream"}
                       [] client /\ ~Publishable /\ ~network -> {"crashed"}
                       [] OTHER -> {"stream"}
          /\ causes' = IF network' = network THEN causes ELSE causes \cup {"stream"}
  /\ UNCHANGED <<caller, retry, subscribing, client, network_interface, shadow_status, wifi, unheard,
                 messages, faults>>

\* The callback of mailbox/productmetadata answers a request to pair with a publish of its
\* own, from inside the yield, or from inside a subscription.
Callback ==
  /\ pc \in {"callback", "subcallback"}
  /\ awsiot_publish("metadata", IF pc = "callback" THEN "yield" ELSE "suback", "under")
  /\ causes' = IF client /\ ~Publishable THEN causes \cup {"callback"} ELSE causes
  /\ UNCHANGED <<client, network_interface, work, wifi, unheard, messages, faults>>

\* Back from there in a client that has been deleted meanwhile: it may crash, or get by.
Under ==
  /\ pc = "under"
  /\ pc' \in {"crashed", "loop"}
  /\ UNCHANGED <<caller, retry, subscribing, objects, work, wifi, peer, unheard, history>>

----------------------------------------------------------------------------
(* Yielding *)

\* The connection is found lost: the loop connects again, if it still knows the network.
YieldFails ==
  IF network THEN Reconnect("loop", wifi)
  ELSE pc' = "crashed" /\ UNCHANGED <<caller, retry, subscribing, network>>

\* Without an MQTT client; without a client at all that is undefined.
YieldDisconnected ==
  /\ pc = "yield" /\ ~mqtt_obj
  /\ \/ ~client /\ pc' = "crashed" /\ UNCHANGED <<caller, retry, subscribing, network>>
     \/ YieldFails
  /\ UNCHANGED <<client, mqtt_obj, session, timers, network_interface, work, wifi, peer, unheard, history>>

\* One cycle; the yield goes on until its time is over or a cycle fails. Then the MQTT
\* client is deleted.
Yield(packet) ==
  /\ pc = "yield" /\ mqtt_obj
  /\ Read(packet)
  /\ Apply(Delivered(packet))
  /\ session' = Cycle(packet).session
  /\ mqtt_obj' = (Result(packet) # "failure")
  /\ CASE Result(packet) = "failure" -> YieldFails
       [] Delivered(packet) = "productmetadata" ->
            pc' = "callback" /\ UNCHANGED <<caller, retry, subscribing, network>>
       [] OTHER -> /\ pc' \in (IF packet = "none" THEN {"loop"} ELSE {"loop", "yield"})
                   /\ UNCHANGED <<caller, retry, subscribing, network>>
  /\ UNCHANGED <<client, network_interface, wifi, messages>>

Thread ==
  \/ Main \/ WaitForNetwork \/ Connect \/ Tls \/ Refused \/ Subscribe
  \/ Get \/ PublishShadow \/ PublishStream \/ Callback \/ Under \/ YieldDisconnected
  \/ \E packet \in Reads : Connack(packet) \/ Suback(packet) \/ Yield(packet)

Environment ==
  \/ Press \/ Record \/ WifiFails \/ WifiReturns
  \/ \E topic \in Topics : AppSends(topic)
  \/ \E state \in Sockets : SocketFails(state)

Next == Thread \/ Environment
Spec == Init /\ [][Next]_vars

\* The thread runs.
FairSpec == Spec /\ WF_vars(Thread)

----------------------------------------------------------------------------
(* What the connection is for *)

Live ==
  /\ client /\ mqtt_obj /\ session.isconnected /\ socket = "open"
  /\ {"update", "productmetadata"} \subseteq Handled(session) \cap subs

\* The thread hangs only if Wi-Fi was down when it was to connect. It crashes only after a
\* reconnection was refused (the client it yields to is gone), a publish failed inside a
\* callback (the client that called is gone) or a stream failed without Wi-Fi (_network is
\* gone). Losing the connection, silently or in the middle of a packet, does neither.
StopsOnlyFor ==
  /\ pc = "offline" => "offline" \in causes
  /\ pc = "crashed" => causes \cap {"refused", "callback", "stream"} # {}

\* While the socket carries what is sent, the board in its loop has a session and hears
\* its topics, unless an answer came too late: then a session that subscribe has closed
\* stays in use, pings and all, and nobody is told. After a reconnection it may be deaf to
\* transcripts.
DeafOnlyFor ==
  pc = "loop" /\ client /\ mqtt_obj /\ socket = "open" /\ "late" \notin causes =>
    /\ Live
    /\ ~retry => "transcript" \in Handled(session) \cap subs

\* What the app wants, the board applies, also when it asks while the board subscribes,
\* unless something has gone wrong in between: the document is not asked for again.
UnheardOnlyFor ==
  pc = "loop" /\ unheard /\ Packet("PUBLISH", "update") \notin {wire[i] : i \in 1 .. Len(wire)}
     => causes # {}

\* The waiting updates are cleared only when they have been written to an open socket in a
\* session, unless the socket is known to fail silently or no client was left to publish.
ClearedWhenSent ==
  [][shadow_status /\ ~shadow_status' =>
       \/ socket = "open" /\ session.isconnected /\ Publishable
       \/ causes \cap {"lost", "offline", "refused", "short", "overflow"} # {}]_vars

\* A lost connection is always replaced, by keep-alive if by nothing else: if that is all
\* that goes wrong the board ends up with a live session. If packets are late, too long or
\* cut short as well, it needs something to publish now and then to get there. (That is, if
\* nobody keeps it streaming for ever, and what is left of a broken packet does not keep
\* looking like packets.)
Recovers ==
  /\ []<>(pc # "stream") /\ []<>(session.isconnected => socket # "garbled")
  /\ \/ [](causes \subseteq {"lost", "early"})
     \/ [](causes \subseteq {"lost", "early", "late", "short", "overflow"}) /\ []<>shadow_status
  => <>[]Live
=============================================================================
