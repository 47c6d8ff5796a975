-------------------------- MODULE Connection_proofs --------------------------
(***************************************************************************)
(* Theorems about Connection for any keep-alive interval, any number of     *)
(* faults, messages and sections, and any room on the wire.                 *)
(***************************************************************************)
EXTENDS Connection, TLAPS

----------------------------------------------------------------------------
(* Why the thread stops *)

\* Each thing the thread can stop for has its cause on record: Wi-Fi down, no network to
\* connect over, no client left, a callback whose client is deleted.
StopInv ==
  /\ ~wifi /\ pc # "main" => "offline" \in causes
  /\ pc = "offline" => "offline" \in causes
  /\ ~network => pc \in {"main", "offline"} \/ "stream" \in causes
  /\ ~client => pc \in {"main", "connect", "offline"} \/ "refused" \in causes
  /\ caller \in {"start", "loop", "stream", "under"}
  /\ pc = "under" \/ caller = "under" => "callback" \in causes
  /\ pc = "crashed" => causes \cap {"refused", "callback", "stream"} # {}

LEMMA InitStop == Init => StopInv
  BY DEF Init, StopInv

LEMMA StopStep == StopInv /\ [Next]_vars => StopInv'
<1> SUFFICES ASSUME StopInv, [Next]_vars PROVE StopInv'
  OBVIOUS
<1> USE DEF StopInv
<1>1. CASE Main
  BY <1>1 DEF Main, Fault, work, peer
<1>2. CASE WaitForNetwork
  BY <1>2 DEF WaitForNetwork, thread, work, peer, history
<1>3. CASE Connect
  BY <1>3 DEF Connect, work, history
<1>4. CASE Tls
  BY <1>4 DEF Tls, Fault, work
<1>5. CASE Refused
  BY <1>5 DEF Refused, work
<1>6. CASE Subscribe
  BY <1>6 DEF Subscribe, NextSubscription, work, history
<1>7. CASE Get
  BY <1>7 DEF Get, awsiot_publish, Reconnect, work, history
<1>8. CASE PublishShadow
  BY <1>8 DEF PublishShadow, awsiot_publish, Reconnect, history
<1>9. CASE PublishStream
  BY <1>9 DEF PublishStream
<1>10. CASE Callback
  BY <1>10 DEF Callback, awsiot_publish, Reconnect, work
<1>11. CASE Under
  BY <1>11 DEF Under, objects, work, peer, history
<1>12. CASE YieldDisconnected
  BY <1>12 DEF YieldDisconnected, YieldFails, Reconnect, work, peer, history
<1>13. ASSUME NEW packet \in Reads, Connack(packet) PROVE StopInv'
  BY <1>13 DEF Connack, Read, ReadFault, Fault, work
<1>14. ASSUME NEW packet \in Reads, Suback(packet) PROVE StopInv'
  BY <1>14 DEF Suback, Read, ReadFault, Fault, NextSubscription
<1>15. ASSUME NEW packet \in Reads, Yield(packet) PROVE StopInv'
  BY <1>15 DEF Yield, Read, ReadFault, Fault, YieldFails, Reconnect
<1>16. CASE Press \/ Record \/ WifiReturns
  BY <1>16 DEF Press, Record, WifiReturns, thread, objects, peer, history
<1>17. CASE WifiFails
  BY <1>17 DEF WifiFails, Fault, thread, objects
<1>18. ASSUME NEW topic \in Topics, AppSends(topic) PROVE StopInv'
  BY <1>18 DEF AppSends, thread, objects
<1>19. ASSUME NEW state \in Sockets, SocketFails(state) PROVE StopInv'
  BY <1>19 DEF SocketFails, Fault, thread, objects
<1>20. CASE UNCHANGED vars
  BY <1>20 DEF vars, thread, objects, history
<1> QED
  BY <1>1, <1>2, <1>3, <1>4, <1>5, <1>6, <1>7, <1>8, <1>9, <1>10, <1>11, <1>12, <1>13, <1>14,
     <1>15, <1>16, <1>17, <1>18, <1>19, <1>20 DEF Next, Thread, Environment

\* The thread hangs only after Wi-Fi was down when it had to connect, and crashes only after
\* a reconnection was refused, a publish failed inside a callback, or a stream failed without
\* Wi-Fi (awsiot_connect_thread, awsiot_publish, awsiot_publish_stream).
THEOREM StopsOnlyForCauses == Spec => []StopsOnlyFor
<1>1. StopInv => StopsOnlyFor
  BY DEF StopInv, StopsOnlyFor
<1> QED
  BY <1>1, InitStop, StopStep, PTL DEF Spec

----------------------------------------------------------------------------
(* The MQTT client: what its operators return *)

LEMMA SessionTypes ==
  ASSUME NEW c \in BOOLEAN, NEW h \in [Slots -> Topics \cup {NoTopic, Garbage}], NEW o \in BOOLEAN
  PROVE  Session(c, h, o) \in Sessions
  BY DEF Session, Sessions

\* The fields of a session.
LEMMA SessionFields ==
  ASSUME NEW s \in Sessions
  PROVE  /\ s.isconnected \in BOOLEAN /\ s.ping_outstanding \in BOOLEAN
         /\ s.messageHandlers \in [Slots -> Topics \cup {NoTopic, Garbage}]
  BY DEF Sessions

LEMMA TimerTypes ==
  ASSUME NEW a \in 0 .. KeepAlive, NEW b \in 0 .. KeepAlive, NEW c \in 0 .. KeepAlive
  PROVE  Timer(a, b, c) \in Timers
  BY DEF Timer, Timers

LEMMA NewSessionType == NoHandlers \in [Slots -> Topics \cup {NoTopic, Garbage}] /\ NewSession \in Sessions
<1>1. NoHandlers \in [Slots -> Topics \cup {NoTopic, Garbage}]
  BY DEF NoHandlers
<1> QED
  BY <1>1, SessionTypes DEF NewSession

LEMMA SentType == \A t \in Timers : Sent(t) \in Timers
  BY KeepAliveAssumption DEF Sent, Timers, Timer

LEMMA PassedType == \A t \in Timers : Passed(t) \in Timers
  BY KeepAliveAssumption DEF Passed, Older, Timers, Timer

\* The timers and the session after a packet has been looked at, before keepalive.
Timed(t, packet) ==
  CASE packet \in PacketTypes -> Timer(t.last_sent, 0, t.ping_sent)
    [] packet = "none" -> Passed(t)
    [] OTHER -> t
Pinged(s, packet) == IF packet = "PINGRESP" THEN Session(s.isconnected, s.messageHandlers, FALSE) ELSE s

LEMMA TimedType == ASSUME NEW t \in Timers, NEW packet PROVE Timed(t, packet) \in Timers
  BY PassedType, KeepAliveAssumption DEF Timed, Timers, Timer

LEMMA PingedType == ASSUME NEW s \in Sessions, NEW packet PROVE Pinged(s, packet) \in Sessions
  BY SessionFields, SessionTypes DEF Pinged

\* ... after keepalive: a ping is sent when one is due. Else, a session is closed.
SessionKept(s, t) == IF PingDue(s, t) THEN Session(s.isconnected, s.messageHandlers, TRUE) ELSE s
TimersKept(s, t) == IF PingDue(s, t) THEN Timer(0, t.last_received, 0) ELSE t
ClosedBy(s) == IF s.isconnected THEN NewSession ELSE s

\* A cycle whose result is the type of a packet, or none: it keeps the session but for the
\* ping. Any other result closes a session.
CycleGood(s, t, packet, writable) ==
  packet \in PacketTypes \cup {"none"} /\ ~KeepAliveFails(Pinged(s, packet), Timed(t, packet), writable)

LEMMA GoodCycle ==
  ASSUME NEW s, NEW t, NEW packet, NEW w, CycleGood(s, t, packet, w)
  PROVE  cycle(s, t, packet, w) =
           [session |-> SessionKept(Pinged(s, packet), Timed(t, packet)),
            timers |-> TimersKept(Pinged(s, packet), Timed(t, packet)),
            pings |-> PingDue(Pinged(s, packet), Timed(t, packet)),
            result |-> packet]
<1>1. packet \notin {"error", "overflow", "short"}
  BY DEF CycleGood, PacketTypes
<1> QED
  BY <1>1 DEF cycle, CycleGood, Pinged, Timed, SessionKept, TimersKept

LEMMA BadCycle ==
  ASSUME NEW s, NEW t, NEW packet \in Reads, NEW w, ~CycleGood(s, t, packet, w)
  PROVE  cycle(s, t, packet, w) =
           [session |-> ClosedBy(Pinged(s, packet)), timers |-> Timed(t, packet), pings |-> FALSE,
            result |-> IF packet = "short" THEN "other" ELSE "failure"]
<1>1. packet \in {"error", "overflow", "short"} \/ packet \in PacketTypes \cup {"none"}
  BY DEF Reads
<1>2. CASE packet \in {"error", "overflow", "short"}
  <2>1. packet \notin PacketTypes \cup {"none"}
    BY <1>2 DEF PacketTypes
  <2> QED
    BY <1>2, <2>1 DEF cycle, Pinged, Timed, ClosedBy, closeSession
<1>3. CASE packet \in PacketTypes \cup {"none"}
  <2>1. packet \notin {"error", "overflow", "short"}
    BY <1>3 DEF PacketTypes
  <2> QED
    BY <1>3, <2>1 DEF cycle, CycleGood, Pinged, Timed, ClosedBy, closeSession
<1> QED
  BY <1>1, <1>2, <1>3

LEMMA CycleTypes ==
  ASSUME NEW s \in Sessions, NEW t \in Timers, NEW packet \in Reads, NEW w
  PROVE  /\ cycle(s, t, packet, w).session \in Sessions
         /\ cycle(s, t, packet, w).timers \in Timers
<1> DEFINE s1 == Pinged(s, packet)
           t1 == Timed(t, packet)
<1>1. s1 \in Sessions /\ t1 \in Timers /\ NewSession \in Sessions
  BY PingedType, TimedType, NewSessionType
<1>2. SessionKept(s1, t1) \in Sessions /\ ClosedBy(s1) \in Sessions
  BY <1>1, SessionFields, SessionTypes DEF SessionKept, ClosedBy
<1>3. TimersKept(s1, t1) \in Timers
  BY <1>1, KeepAliveAssumption DEF Timers, Timer, TimersKept
<1>4. CASE CycleGood(s, t, packet, w)
  BY <1>1, <1>2, <1>3, <1>4, GoodCycle
<1>5. CASE ~CycleGood(s, t, packet, w)
  BY <1>1, <1>2, <1>5, BadCycle
<1> QED
  BY <1>4, <1>5

LEMMA ForgetType == ASSUME NEW s \in Sessions, NEW topic PROVE Forget(s, topic) \in Sessions
<1>1. [i \in Slots |-> IF s.messageHandlers[i] = topic THEN Garbage ELSE s.messageHandlers[i]]
        \in [Slots -> Topics \cup {NoTopic, Garbage}]
  BY SessionFields
<1> QED
  BY <1>1, SessionFields, SessionTypes DEF Forget

LEMMA SetHandlerType ==
  ASSUME NEW s \in Sessions, NEW topic \in Topics PROVE setMessageHandler(s, topic) \in Sessions
<1>1. [s.messageHandlers EXCEPT ![FirstEmpty(s)] = topic] \in [Slots -> Topics \cup {NoTopic, Garbage}]
  BY SessionFields
<1> QED
  BY <1>1, SessionFields, SessionTypes DEF setMessageHandler

----------------------------------------------------------------------------
(* Types *)

\* The part of the type invariant that is about the thread. The first call of
\* awsiot_connect_thread is never a retry; a retry begins with the second topic.
ThreadOK ==
  /\ pc \in Places /\ caller \in {"start", "loop", "stream", "under"}
  /\ subscribing \in 1 .. 4
  /\ caller = "start" => ~retry
  /\ caller = "start" /\ pc \in {"main", "connect"} => ~client
  /\ pc \in {"main", "connect", "tls", "connack"} => subscribing \in {1, 2}

\* The part that is about flags.
FlagsOK ==
  /\ retry \in BOOLEAN /\ client \in BOOLEAN /\ mqtt_obj \in BOOLEAN
  /\ network \in BOOLEAN /\ network_interface \in BOOLEAN /\ wifi \in BOOLEAN
  /\ shadow_status \in BOOLEAN /\ unheard \in BOOLEAN

\* The part that is about the client object.
SessionOK == session \in Sessions /\ timers \in Timers

\* The part that is about the socket and the broker.
WireOK ==
  /\ socket \in Sockets
  /\ wire \in Seq(Packets) /\ Len(wire) <= MaxWire
  /\ subs \subseteq Topics

\* The part that is about what is counted.
CountsOK ==
  /\ sound \in 0 .. MaxSections /\ messages \in 0 .. MaxMessages /\ faults \in 0 .. MaxFaults
  /\ causes \subseteq Causes

LEMMA InitTypes == Init => ThreadOK /\ FlagsOK /\ SessionOK /\ WireOK /\ CountsOK
<1> SUFFICES ASSUME Init PROVE ThreadOK /\ FlagsOK /\ SessionOK /\ WireOK /\ CountsOK
  OBVIOUS
<1>1. ThreadOK
  BY DEF Init, ThreadOK, Places
<1>2. SessionOK
  BY NewSessionType, TimerTypes, KeepAliveAssumption DEF Init, SessionOK
<1>3. WireOK
  BY BoundAssumption DEF Init, WireOK, Sockets
<1>4. CountsOK
  BY BoundAssumption DEF Init, CountsOK
<1>5. FlagsOK
  BY Zenon DEF Init, FlagsOK
<1> QED
  BY <1>1, <1>2, <1>3, <1>4, <1>5

LEMMA ThreadStep == ThreadOK /\ [Next]_vars => ThreadOK'
<1> SUFFICES ASSUME ThreadOK, [Next]_vars PROVE ThreadOK'
  OBVIOUS
<1> USE DEF ThreadOK
<1>1. CASE Main
  BY <1>1 DEF Main, Places
<1>2. CASE WaitForNetwork
  BY <1>2 DEF WaitForNetwork, thread
<1>3. CASE Connect
  BY <1>3 DEF Connect, Places
<1>4. CASE Tls
  BY <1>4 DEF Tls, Places
<1>5. CASE Refused
  BY <1>5 DEF Refused, Places
<1>6. CASE Subscribe
  BY <1>6 DEF Subscribe, NextSubscription, Places
<1>7. CASE Get
  BY <1>7 DEF Get, awsiot_publish, Publish, Reconnect, Places
<1>8. CASE PublishShadow
  BY <1>8 DEF PublishShadow, awsiot_publish, Publish, Reconnect, Places
<1>9. CASE PublishStream
  BY <1>9 DEF PublishStream, Publish, Places
<1>10. CASE Callback
  BY <1>10 DEF Callback, awsiot_publish, Publish, Reconnect, Places
<1>11. CASE Under
  BY <1>11 DEF Under, objects, Places
<1>12. CASE YieldDisconnected
  BY <1>12 DEF YieldDisconnected, YieldFails, Reconnect, Places
<1>13. ASSUME NEW packet \in Reads, Connack(packet) PROVE ThreadOK'
  BY <1>13 DEF Connack, Places
<1>14. ASSUME NEW packet \in Reads, Suback(packet) PROVE ThreadOK'
  BY <1>14 DEF Suback, NextSubscription, Places
<1>15. ASSUME NEW packet \in Reads, Yield(packet) PROVE ThreadOK'
  BY <1>15 DEF Yield, YieldFails, Reconnect, Places
<1>16. CASE Press \/ Record \/ WifiReturns \/ WifiFails
  BY <1>16 DEF Press, Record, WifiReturns, WifiFails, thread, objects
<1>17. ASSUME NEW topic \in Topics, AppSends(topic) PROVE ThreadOK'
  BY <1>17 DEF AppSends, thread, objects
<1>18. ASSUME NEW state \in Sockets, SocketFails(state) PROVE ThreadOK'
  BY <1>18 DEF SocketFails, thread, objects
<1>19. CASE UNCHANGED vars
  BY <1>19 DEF vars, thread, objects
<1> QED
  BY <1>1, <1>2, <1>3, <1>4, <1>5, <1>6, <1>7, <1>8, <1>9, <1>10, <1>11, <1>12, <1>13, <1>14,
     <1>15, <1>16, <1>17, <1>18, <1>19 DEF Next, Thread, Environment

LEMMA FlagsStep == FlagsOK /\ [Next]_vars => FlagsOK'
<1> SUFFICES ASSUME FlagsOK, [Next]_vars PROVE FlagsOK'
  OBVIOUS
<1> USE DEF FlagsOK
<1>0. ASSUME NEW topic, NEW to, NEW after, awsiot_publish(topic, to, after),
             UNCHANGED <<client, network_interface, wifi, unheard>>, shadow_status' \in BOOLEAN
      PROVE FlagsOK'
  <2>1. retry' \in BOOLEAN
    BY <1>0, Zenon DEF awsiot_publish, Reconnect
  <2>2. mqtt_obj' \in BOOLEAN
    BY <1>0, Zenon DEF awsiot_publish, Publish
  <2>3. network' \in BOOLEAN
    BY <1>0, Zenon DEF awsiot_publish, Reconnect
  <2> QED
    BY <1>0, <2>1, <2>2, <2>3, Zenon
<1>1. CASE Main
  BY <1>1, Zenon DEF Main, work
<1>2. CASE WaitForNetwork
  BY <1>2, Zenon DEF WaitForNetwork, thread, work
<1>3. CASE Connect
  BY <1>3, Zenon DEF Connect, work
<1>4. CASE Tls
  BY <1>4, Zenon DEF Tls, work
<1>5. CASE Refused
  BY <1>5, Zenon DEF Refused, work
<1>6. CASE Subscribe
  BY <1>6, Zenon DEF Subscribe, work
<1>7. CASE Get \/ Callback
  BY <1>0, <1>7, Zenon DEF Get, Callback, work
<1>8. CASE PublishShadow
  <2>1. CASE shadow_status
    <3>1. shadow_status' \in BOOLEAN
      BY <1>8, <2>1, Zenon DEF PublishShadow
    <3> QED
      BY <1>0, <1>8, <2>1, <3>1, Zenon DEF PublishShadow
  <2>2. CASE ~shadow_status
    BY <1>8, <2>2, Zenon DEF PublishShadow
  <2> QED
    BY <2>1, <2>2
<1>9. CASE PublishStream
  <2>1. mqtt_obj' = mqtt_obj
    BY <1>9, Zenon DEF PublishStream, Publish
  <2>2. network' \in BOOLEAN
    BY <1>9, Zenon DEF PublishStream
  <2> QED
    BY <1>9, <2>1, <2>2, Zenon DEF PublishStream
<1>10. CASE Under
  BY <1>10, Zenon DEF Under, objects, work
<1>11. CASE YieldDisconnected
  BY <1>11, Zenon DEF YieldDisconnected, YieldFails, Reconnect, work
<1>12. ASSUME NEW packet \in Reads, Connack(packet) PROVE FlagsOK'
  BY <1>12, Zenon DEF Connack, work
<1>13. ASSUME NEW topic, Apply(topic) PROVE shadow_status' \in BOOLEAN /\ unheard' \in BOOLEAN
  <2>1. shadow_status' \in {shadow_status, TRUE}
    BY <1>13 DEF Apply
  <2>2. unheard' \in BOOLEAN
    BY <1>13, Zenon DEF Apply
  <2> QED
    BY <2>1, <2>2, Zenon
<1>14. ASSUME NEW packet \in Reads, Suback(packet) PROVE FlagsOK'
  BY <1>13, <1>14, Zenon DEF Suback
<1>15. ASSUME NEW packet \in Reads, Yield(packet) PROVE FlagsOK'
  <2>1. network' \in BOOLEAN
    BY <1>15, Zenon DEF Yield, YieldFails, Reconnect
  <2>2. retry' \in BOOLEAN
    BY <1>15, Zenon DEF Yield, YieldFails, Reconnect
  <2>3. mqtt_obj' \in BOOLEAN
    BY <1>15, Zenon DEF Yield
  <2> QED
    BY <1>13, <1>15, <2>1, <2>2, <2>3, Zenon DEF Yield
<1>16. CASE Press \/ Record \/ WifiReturns \/ WifiFails
  BY <1>16, Zenon DEF Press, Record, WifiReturns, WifiFails, thread, objects, work
<1>17. ASSUME NEW topic \in Topics, AppSends(topic) PROVE FlagsOK'
  BY <1>17, Zenon DEF AppSends, thread, objects, work
<1>18. ASSUME NEW state \in Sockets, SocketFails(state) PROVE FlagsOK'
  BY <1>18, Zenon DEF SocketFails, thread, objects, work
<1>19. CASE UNCHANGED vars
  BY <1>19, Zenon DEF vars, thread, objects, work
<1> QED
  BY <1>1, <1>2, <1>3, <1>4, <1>5, <1>6, <1>7, <1>8, <1>9, <1>10, <1>11, <1>12, <1>14, <1>15, <1>16,
     <1>17, <1>18, <1>19 DEF Next, Thread, Environment

LEMMA SessionStep == ThreadOK /\ SessionOK /\ [Next]_vars => SessionOK'
<1> SUFFICES ASSUME ThreadOK, SessionOK, [Next]_vars PROVE SessionOK'
  OBVIOUS
<1> USE DEF SessionOK
<1>1. ASSUME NEW packet \in Reads
      PROVE  Cycle(packet).session \in Sessions /\ Cycle(packet).timers \in Timers
  BY CycleTypes DEF Cycle
<1>2. \A n \in 0 .. KeepAlive : Timer(0, 0, n) \in Timers
  BY TimerTypes, KeepAliveAssumption
<1>3. timers.ping_sent \in 0 .. KeepAlive
  BY DEF Timers
<1>4. NewSession \in Sessions /\ Sent(timers) \in Timers
  BY NewSessionType, SentType
<1>5. \A s \in Sessions : closeSession(s) \in Sessions
  BY <1>4 DEF closeSession
<1>6. ASSUME NEW topic, Publish(topic) PROVE SessionOK'
  BY <1>4, <1>5, <1>6 DEF Publish
<1>7. ASSUME NEW topic, NEW to, NEW after, awsiot_publish(topic, to, after) PROVE SessionOK'
  <2>1. CASE ~client
    BY <1>7, <2>1 DEF awsiot_publish
  <2>2. CASE client
    BY <1>6, <1>7, <2>2 DEF awsiot_publish
  <2> QED
    BY <2>1, <2>2
<1>8. CASE Main \/ WaitForNetwork \/ Connect \/ Refused
  BY <1>8 DEF Main, WaitForNetwork, Connect, Refused
<1>9. CASE Tls
  BY <1>2, <1>3, <1>4, <1>9 DEF Tls
<1>10. CASE Subscribe
  BY <1>4, <1>5, <1>10 DEF Subscribe
<1>11. CASE Get \/ Callback
  BY <1>7, <1>11 DEF Get, Callback
<1>12. CASE PublishShadow
  BY <1>7, <1>12 DEF PublishShadow
<1>13. CASE PublishStream
  BY <1>6, <1>13 DEF PublishStream
<1>14. CASE Under \/ YieldDisconnected
  BY <1>14 DEF Under, YieldDisconnected, objects
<1>15. ASSUME NEW packet \in Reads, Connack(packet) PROVE SessionOK'
  <2>1. Session(TRUE, Cycle(packet).session.messageHandlers, FALSE) \in Sessions
    BY <1>1, SessionFields, SessionTypes
  <2> QED
    BY <1>1, <1>15, <2>1 DEF Connack, Read
<1>16. ASSUME NEW packet \in Reads, Suback(packet) PROVE SessionOK'
  <2>1. timers' \in Timers
    BY <1>1, <1>16 DEF Suback, Read
  <2>2. Subscriptions[subscribing] \in Topics
    BY DEF ThreadOK, Subscriptions, Topics
  <2>3. setMessageHandler(Cycle(packet).session, Subscriptions[subscribing]) \in Sessions
    BY <1>1, <2>2, SetHandlerType
  <2>4. \A s \in Sessions : Kept(s) \subseteq Sessions
    BY ForgetType DEF Kept
  <2>5. session' \in Sessions
    BY <1>1, <1>5, <1>16, <2>3, <2>4 DEF Suback
  <2> QED
    BY <2>1, <2>5
<1>17. ASSUME NEW packet \in Reads, Yield(packet) PROVE SessionOK'
  BY <1>1, <1>17 DEF Yield, Read
<1>18. CASE Press \/ Record \/ WifiReturns \/ WifiFails
  BY <1>18 DEF Press, Record, WifiReturns, WifiFails, objects
<1>19. ASSUME NEW topic \in Topics, AppSends(topic) PROVE SessionOK'
  BY <1>19 DEF AppSends, objects
<1>20. ASSUME NEW state \in Sockets, SocketFails(state) PROVE SessionOK'
  BY <1>20 DEF SocketFails, objects
<1>21. CASE UNCHANGED vars
  BY <1>21 DEF vars, objects
<1> QED
  BY <1>8, <1>9, <1>10, <1>11, <1>12, <1>13, <1>14, <1>15, <1>16, <1>17, <1>18, <1>19, <1>20,
     <1>21 DEF Next, Thread, Environment

LEMMA PacketTyped ==
  ASSUME NEW type \in PacketTypes, NEW topic \in Topics \cup {NoTopic}
  PROVE  Packet(type, topic) \in Packets
  BY DEF Packet, Packets

\* What is on the wire after a read: with the packet read or not, with a PINGRESP or not.
LEMMA WireRead ==
  ASSUME WireOK, NEW packet, Read(packet)
  PROVE  wire' \in Seq(Packets) /\ Len(wire') <= MaxWire
<1> DEFINE rest == IF wire = <<>> \/ packet = "none" THEN wire ELSE Tail(wire)
<1>1. rest \in Seq(Packets)
  BY DEF WireOK
<1>2. Packet("PINGRESP", NoTopic) \in Packets
  BY PacketTyped DEF PacketTypes
<1>3. Append(rest, Packet("PINGRESP", NoTopic)) \in Seq(Packets)
  BY <1>1, <1>2
<1> QED
  BY <1>1, <1>3 DEF Read

LEMMA WirePublish ==
  ASSUME WireOK, NEW topic, Publish(topic)
  PROVE  wire' \in Seq(Packets) /\ Len(wire') <= MaxWire
<1>1. CASE Publishable /\ topic \in subs
  <2>1. Packet("PUBLISH", topic) \in Packets
    BY <1>1, PacketTyped DEF PacketTypes, WireOK
  <2>2. Append(wire, Packet("PUBLISH", topic)) \in Seq(Packets)
    BY <2>1 DEF WireOK
  <2>3. Room /\ wire' = Answered(Packet("PUBLISH", topic))
    BY <1>1 DEF Publish
  <2> QED
    BY <2>2, <2>3, BoundAssumption DEF Answered, WireOK, Room
<1>2. CASE ~(Publishable /\ topic \in subs)
  BY <1>2 DEF Publish, WireOK
<1> QED
  BY <1>1, <1>2

LEMMA WireStep == ThreadOK /\ WireOK /\ [Next]_vars => WireOK'
<1> SUFFICES ASSUME ThreadOK, WireOK, [Next]_vars PROVE WireOK'
  OBVIOUS
<1>0. <<>> \in Seq(Packets) /\ Len(<<>>) <= MaxWire /\ {} \subseteq Topics
  BY BoundAssumption
<1>1. ASSUME NEW topic, NEW to, NEW after, awsiot_publish(topic, to, after) PROVE WireOK'
  <2>1. CASE client
    BY <1>1, <2>1, WirePublish DEF awsiot_publish, WireOK, Publish
  <2>2. CASE ~client
    BY <1>1, <2>2 DEF awsiot_publish, WireOK, peer
  <2> QED
    BY <2>1, <2>2
<1>2. CASE Main \/ WaitForNetwork \/ Under \/ YieldDisconnected
  BY <1>2 DEF Main, WaitForNetwork, Under, YieldDisconnected, peer, WireOK
<1>3. CASE Connect \/ Refused
  BY <1>0, <1>3 DEF Connect, Refused, WireOK, Sockets
<1>4. CASE Tls
  <2>1. CASE wire' = <<Packet("CONNACK", NoTopic)>>
    <3>1. wire' \in Seq(Packets) /\ Len(wire') = 1
      BY <2>1, PacketTyped DEF PacketTypes
    <3> QED
      BY <1>4, <3>1, BoundAssumption DEF Tls, WireOK, Sockets
  <2>2. CASE wire' = wire
    BY <1>4, <2>2 DEF Tls, WireOK, Sockets
  <2> QED
    BY <1>4, <2>1, <2>2 DEF Tls
<1>5. CASE Subscribe
  <2>1. CASE pc' = "suback" /\ Room /\ wire' = Answered(Packet("SUBACK", NoTopic))
    <3>1. Append(wire, Packet("SUBACK", NoTopic)) \in Seq(Packets)
      BY PacketTyped DEF PacketTypes, WireOK
    <3>2. wire' \in Seq(Packets) /\ Len(wire') <= MaxWire
      BY <2>1, <3>1, BoundAssumption DEF Answered, WireOK, Room
    <3>3. Subscriptions[subscribing] \in Topics
      BY DEF ThreadOK, Subscriptions, Topics
    <3> QED
      BY <1>5, <3>2, <3>3 DEF Subscribe, WireOK
  <2>2. CASE UNCHANGED <<wire, subs>>
    BY <1>5, <2>2 DEF Subscribe, WireOK
  <2> QED
    BY <1>5, <2>1, <2>2 DEF Subscribe
<1>6. CASE Get \/ Callback
  BY <1>1, <1>6 DEF Get, Callback
<1>7. CASE PublishShadow
  BY <1>1, <1>7 DEF PublishShadow, peer, WireOK
<1>8. CASE PublishStream
  <2>1. CASE sound = 0
    BY <1>8, <2>1 DEF PublishStream, peer, WireOK
  <2>2. CASE sound # 0
    BY <1>8, <2>2, WirePublish DEF PublishStream, Publish, WireOK
  <2> QED
    BY <2>1, <2>2
<1>9. ASSUME NEW packet \in Reads, Connack(packet) \/ Suback(packet) \/ Yield(packet) PROVE WireOK'
  <2>1. Read(packet)
    BY <1>9 DEF Connack, Suback, Yield
  <2> QED
    BY <2>1, WireRead DEF Read, WireOK, Sockets
<1>10. CASE Press \/ Record \/ WifiReturns
  BY <1>10 DEF Press, Record, WifiReturns, peer, WireOK
<1>11. CASE WifiFails
  BY <1>0, <1>11 DEF WifiFails, WireOK, Sockets
<1>12. ASSUME NEW topic \in Topics, AppSends(topic) PROVE WireOK'
  <2>1. Append(wire, Packet("PUBLISH", topic)) \in Seq(Packets)
    BY PacketTyped DEF PacketTypes, WireOK
  <2> QED
    BY <1>12, <2>1, BoundAssumption DEF AppSends, Room, WireOK
<1>13. ASSUME NEW state \in Sockets, SocketFails(state) PROVE WireOK'
  BY <1>0, <1>13 DEF SocketFails, WireOK
<1>14. CASE UNCHANGED vars
  BY <1>14 DEF vars, peer, WireOK
<1> QED
  BY <1>2, <1>3, <1>4, <1>5, <1>6, <1>7, <1>8, <1>9, <1>10, <1>11, <1>12, <1>13, <1>14
     DEF Next, Thread, Environment

LEMMA CountsStep == CountsOK /\ [Next]_vars => CountsOK'
<1> SUFFICES ASSUME CountsOK, [Next]_vars PROVE CountsOK'
  OBVIOUS
<1> USE BoundAssumption DEF CountsOK
<1>1. ASSUME NEW cause \in Causes, Fault(cause) PROVE faults' \in 0 .. MaxFaults /\ causes' \subseteq Causes
  BY <1>1 DEF Fault
<1>2. {"offline", "refused", "lost", "late", "short", "overflow", "early", "callback", "stream"}
        \subseteq Causes
  BY DEF Causes
<1>3. CASE Main \/ Tls \/ Refused
  BY <1>1, <1>2, <1>3 DEF Main, Tls, Refused, work
<1>4. CASE WaitForNetwork \/ Connect \/ Subscribe \/ Get \/ PublishShadow \/ Under \/ YieldDisconnected
  BY <1>4 DEF WaitForNetwork, Connect, Subscribe, Get, PublishShadow, Under, YieldDisconnected, work, history
<1>5. CASE PublishStream
  BY <1>2, <1>5 DEF PublishStream
<1>6. CASE Callback
  BY <1>2, <1>6 DEF Callback, work
<1>7. ASSUME NEW packet \in Reads, Read(packet) PROVE faults' \in 0 .. MaxFaults /\ causes' \subseteq Causes
  BY <1>1, <1>2, <1>7 DEF Read, ReadFault
<1>8. ASSUME NEW packet \in Reads, Connack(packet) \/ Suback(packet) \/ Yield(packet) PROVE CountsOK'
  BY <1>7, <1>8 DEF Connack, Suback, Yield, Apply, work
<1>9. CASE Press \/ Record \/ WifiReturns
  BY <1>9 DEF Press, Record, WifiReturns, work, history
<1>10. CASE WifiFails
  BY <1>1, <1>2, <1>10 DEF WifiFails, work
<1>11. ASSUME NEW topic \in Topics, AppSends(topic) PROVE CountsOK'
  BY <1>2, <1>11 DEF AppSends, work
<1>12. ASSUME NEW state \in Sockets, SocketFails(state) PROVE CountsOK'
  BY <1>1, <1>2, <1>12 DEF SocketFails, work
<1>13. CASE UNCHANGED vars
  BY <1>13 DEF vars, work, history
<1> QED
  BY <1>3, <1>4, <1>5, <1>6, <1>8, <1>9, <1>10, <1>11, <1>12, <1>13 DEF Next, Thread, Environment

\* Every variable keeps its type: in particular a retry never returns to the start, the
\* message handlers stay within their slots, and the timers within the keep-alive interval.
THEOREM TypeCorrect == Spec => []TypeOK
<1> DEFINE Types == ThreadOK /\ FlagsOK /\ SessionOK /\ WireOK /\ CountsOK
<1>1. Types /\ [Next]_vars => Types'
  BY ThreadStep, FlagsStep, SessionStep, WireStep, CountsStep
<1>2. Types => TypeOK
  BY DEF TypeOK, ThreadOK, FlagsOK, SessionOK, WireOK, CountsOK
<1> QED
  BY <1>1, <1>2, InitTypes, PTL DEF Spec

----------------------------------------------------------------------------
(* What clears the waiting updates *)

\* A socket that does not carry what is sent has its cause on record; an MQTT client has a
\* socket.
SocketInv ==
  /\ socket = "silent" => "lost" \in causes
  /\ socket = "broken" => causes \cap {"lost", "offline"} # {}
  /\ socket = "garbled" => causes \cap {"short", "overflow"} # {}
  /\ mqtt_obj => socket # "none"

LEMMA InitSocket == Init => SocketInv
  BY DEF Init, SocketInv

LEMMA HeadType == ASSUME WireOK, wire # <<>> PROVE Head(wire).type \in PacketTypes
<1>1. Head(wire) \in Packets
  BY DEF WireOK
<1> QED
  BY <1>1 DEF Packets

\* A read leaves the stream in pieces only when it finds a packet in pieces.
LEMMA SocketRead ==
  ASSUME SocketInv, WireOK, NEW packet, Read(packet)
  PROVE  /\ causes \subseteq causes'
         /\ socket' = "garbled" => causes' \cap {"short", "overflow"} # {}
         /\ socket' # "garbled" => socket' = socket
<1>1. causes \subseteq causes'
  BY DEF Read, ReadFault, Fault
<1>2. CASE packet \in {"short", "overflow"}
  <2>1. CASE ReadFault(packet)
    BY <1>2, <2>1 DEF Read, ReadFault, Fault
  <2>2. CASE packet \in Found
    <3>1. CASE socket = "garbled"
      BY <1>1, <1>2, <3>1 DEF SocketInv, Read
    <3>2. CASE socket # "garbled"
      <4>1. wire # <<>> => Head(wire).type \in PacketTypes
        BY HeadType
      <4> QED
        BY <1>2, <2>2, <3>2, <4>1 DEF Found, PacketTypes
    <3> QED
      BY <3>1, <3>2
  <2> QED
    BY <2>1, <2>2 DEF Read
<1>3. CASE packet \notin {"short", "overflow"}
  BY <1>1, <1>3 DEF Read, SocketInv
<1> QED
  BY <1>1, <1>2, <1>3 DEF Read

LEMMA SocketStep == SocketInv /\ WireOK /\ [Next]_vars => SocketInv'
<1> SUFFICES ASSUME SocketInv, WireOK, [Next]_vars PROVE SocketInv'
  OBVIOUS
<1>1. CASE Main
  BY <1>1 DEF Main, Fault, peer, SocketInv
<1>2. CASE WaitForNetwork \/ Under \/ YieldDisconnected
  BY <1>2 DEF WaitForNetwork, Under, YieldDisconnected, objects, peer, history, SocketInv
<1>3. CASE Connect \/ Refused
  BY <1>3 DEF Connect, Refused, SocketInv
<1>4. CASE Tls
  BY <1>4 DEF Tls, Fault, SocketInv
<1>5. CASE Subscribe
  BY <1>5 DEF Subscribe, history, SocketInv
<1>6. ASSUME NEW topic, NEW to, NEW after, awsiot_publish(topic, to, after)
      PROVE  UNCHANGED <<mqtt_obj, socket>>
  BY <1>6 DEF awsiot_publish, Publish, peer
<1>7. CASE Get \/ Callback
  BY <1>6, <1>7 DEF Get, Callback, history, SocketInv
<1>8. CASE PublishShadow
  BY <1>6, <1>8 DEF PublishShadow, peer, history, SocketInv
<1>9. CASE PublishStream
  BY <1>9 DEF PublishStream, Publish, peer, SocketInv
<1>10. ASSUME NEW packet \in Reads, Connack(packet) \/ Suback(packet) \/ Yield(packet) PROVE SocketInv'
  <2>1. Read(packet)
    BY <1>10 DEF Connack, Suback, Yield
  <2>2. mqtt_obj' => mqtt_obj \/ socket' # "none"
    BY <1>10 DEF Connack, Suback, Yield
  <2> QED
    BY <2>1, <2>2, SocketRead DEF SocketInv
<1>11. CASE Press \/ Record \/ WifiReturns
  BY <1>11 DEF Press, Record, WifiReturns, objects, peer, history, SocketInv
<1>12. CASE WifiFails
  BY <1>12 DEF WifiFails, Fault, objects, SocketInv
<1>13. ASSUME NEW topic \in Topics, AppSends(topic) PROVE SocketInv'
  BY <1>13 DEF AppSends, objects, SocketInv
<1>14. ASSUME NEW state \in Sockets, SocketFails(state) PROVE SocketInv'
  BY <1>14 DEF SocketFails, Fault, objects, SocketInv
<1>15. CASE UNCHANGED vars
  BY <1>15 DEF vars, objects, peer, history, SocketInv
<1> QED
  BY <1>1, <1>2, <1>3, <1>4, <1>5, <1>7, <1>8, <1>9, <1>10, <1>11, <1>12, <1>13, <1>14, <1>15
     DEF Next, Thread, Environment

\* One step that clears the updates is a publish that has written them, or one without a
\* client.
LEMMA ClearedStep ==
  ASSUME StopInv, SocketInv, WireOK, [Next]_vars, shadow_status, ~shadow_status'
  PROVE  \/ socket = "open" /\ session.isconnected /\ Publishable
         \/ causes \cap {"lost", "offline", "refused", "short", "overflow"} # {}
<1>1. PublishShadow
  BY DEF Next, Thread, Environment, Main, WaitForNetwork, Connect, Tls, Refused, Subscribe, Get,
         PublishStream, Callback, Under, YieldDisconnected, Connack, Suback, Yield, Apply, Press,
         Record, WifiFails, WifiReturns, AppSends, SocketFails, vars, work
<1>2. pc = "loop" /\ (~client \/ Publishable)
  BY <1>1 DEF PublishShadow
<1>3. CASE ~client
  BY <1>2, <1>3 DEF StopInv
<1>4. CASE Publishable
  BY <1>4 DEF Publishable, Writable, SocketInv, WireOK, Sockets
<1> QED
  BY <1>2, <1>3, <1>4

\* The updates that wait are cleared only when they have been written to an open socket in a
\* session, unless the socket fails silently or no client was left (awsiot_publish reports
\* success without one).
THEOREM ClearedOnlyWhenSent == Spec => ClearedWhenSent
<1>1. StopInv /\ SocketInv /\ WireOK /\ [Next]_vars =>
        [shadow_status /\ ~shadow_status' =>
           \/ socket = "open" /\ session.isconnected /\ Publishable
           \/ causes \cap {"lost", "offline", "refused", "short", "overflow"} # {}]_vars
  BY ClearedStep
<1>2. Init => StopInv /\ SocketInv /\ ThreadOK /\ WireOK
  BY InitStop, InitSocket, InitTypes
<1>3. StopInv /\ SocketInv /\ ThreadOK /\ WireOK /\ [Next]_vars
        => (StopInv /\ SocketInv /\ ThreadOK /\ WireOK)'
  BY StopStep, SocketStep, ThreadStep, WireStep
<1> QED
  BY <1>1, <1>2, <1>3, PTL DEF Spec, ClearedWhenSent

----------------------------------------------------------------------------
(* Sessions and handlers *)

\* A good cycle changes a session only in what is said of pings.
LEMMA GoodCycleKeeps ==
  ASSUME NEW s \in Sessions, NEW t, NEW packet, NEW w, CycleGood(s, t, packet, w)
  PROVE  /\ cycle(s, t, packet, w).result = packet
         /\ cycle(s, t, packet, w).session.isconnected = s.isconnected
         /\ cycle(s, t, packet, w).session.messageHandlers = s.messageHandlers
<1>1. /\ SessionKept(Pinged(s, packet), Timed(t, packet)).isconnected = s.isconnected
      /\ SessionKept(Pinged(s, packet), Timed(t, packet)).messageHandlers = s.messageHandlers
  BY DEF SessionKept, Pinged, Session
<1> QED
  BY <1>1, GoodCycle

\* While nothing has been sent for no time, and no ping is out, a packet does not make
\* keepalive send or close anything.
LEMMA FreshCycle ==
  ASSUME NEW s \in Sessions, NEW t \in Timers, NEW packet \in PacketTypes, NEW w,
         ~s.ping_outstanding, t.last_sent = 0
  PROVE  cycle(s, t, packet, w) = [session |-> Pinged(s, packet), timers |-> Timer(0, 0, t.ping_sent),
                                   pings |-> FALSE, result |-> packet]
<1>1. Timed(t, packet) = Timer(0, 0, t.ping_sent)
  BY DEF Timed, PacketTypes
<1>2. ~Pinged(s, packet).ping_outstanding
  BY DEF Pinged, Session
<1>3. Timed(t, packet).last_sent = 0 /\ Timed(t, packet).last_received = 0
  BY <1>1 DEF Timer
<1>4. ~PingDue(Pinged(s, packet), Timed(t, packet))
  BY <1>3, KeepAliveAssumption DEF PingDue, Expired
<1>5. CycleGood(s, t, packet, w)
  BY <1>2, <1>4 DEF CycleGood, KeepAliveFails
<1>6. /\ SessionKept(Pinged(s, packet), Timed(t, packet)) = Pinged(s, packet)
      /\ TimersKept(Pinged(s, packet), Timed(t, packet)) = Timed(t, packet)
  BY <1>4 DEF SessionKept, TimersKept
<1>7. PingDue(Pinged(s, packet), Timed(t, packet)) = FALSE
  BY <1>4, Zenon DEF PingDue
<1> QED
  BY <1>1, <1>5, <1>6, <1>7, GoodCycle

\* With one of the first four slots empty, a topic finds a slot that is not behind it; the
\* other topics keep theirs.
LEMMA SetHandler ==
  ASSUME NEW s \in Sessions, NEW topic \in Topics, NEW k \in 1 .. 4, s.messageHandlers[k] = NoTopic
  PROVE  LET r == setMessageHandler(s, topic)
         IN  /\ r.isconnected = s.isconnected /\ r.ping_outstanding = s.ping_outstanding
             /\ Handled(s) \cup {topic} \subseteq Handled(r)
             /\ \A i \in Slots : i > k => r.messageHandlers[i] = s.messageHandlers[i]
<1> DEFINE r == setMessageHandler(s, topic)
           m == FirstEmpty(s)
           h == [s.messageHandlers EXCEPT ![m] = topic]
<1>1. CASE topic \in Handled(s)
  BY <1>1 DEF setMessageHandler
<1>2. CASE topic \notin Handled(s)
  <2>1. k \in Empty(s) /\ Empty(s) \subseteq Slots
    BY HandlersAssumption DEF Empty, Slots
  <2>2. \E i \in Empty(s) : \A j \in Empty(s) : i <= j
    <3>1. \A j \in Empty(s) : j \in Nat /\ j >= 1
      BY <2>1, HandlersAssumption DEF Slots
    <3>2. CASE 1 \in Empty(s)
      BY <3>1, <3>2
    <3>3. CASE 1 \notin Empty(s) /\ 2 \in Empty(s)
      BY <3>1, <3>3
    <3>4. CASE {1, 2} \cap Empty(s) = {} /\ 3 \in Empty(s)
      BY <3>1, <3>4
    <3>5. CASE {1, 2, 3} \cap Empty(s) = {}
      BY <2>1, <3>1, <3>5
    <3> QED
      BY <3>2, <3>3, <3>4, <3>5
  <2>3. m \in Empty(s) /\ m <= k
    BY <2>1, <2>2 DEF FirstEmpty
  <2>4. m \in Slots /\ s.messageHandlers[m] = NoTopic
    BY <2>3 DEF Empty
  <2>5. h \in [Slots -> Topics \cup {NoTopic, Garbage}]
    BY SessionFields
  <2>6. h[m] = topic /\ \A i \in Slots : i # m => h[i] = s.messageHandlers[i]
    BY <2>4, SessionFields
  <2>7. r = Session(s.isconnected, h, s.ping_outstanding)
    BY <1>2, <2>1 DEF setMessageHandler
  <2>8. r.isconnected = s.isconnected /\ r.ping_outstanding = s.ping_outstanding /\ r.messageHandlers = h
    BY <2>7 DEF Session
  <2>9. topic \notin {NoTopic, Garbage}
    BY DEF Topics, NoTopic, Garbage
  <2>10. topic \in Handled(r)
    BY <2>4, <2>6, <2>8, <2>9 DEF Handled
  <2>11. ASSUME NEW other \in Handled(s) PROVE other \in Handled(r)
    <3>1. PICK i \in Slots : s.messageHandlers[i] = other
      BY DEF Handled
    <3>2. other \notin {NoTopic, Garbage}
      BY DEF Handled
    <3>3. h[i] = other
      BY <2>4, <2>6, <3>1, <3>2
    <3> QED
      BY <2>8, <3>2, <3>3 DEF Handled
  <2>12. \A i \in Slots : i > k => r.messageHandlers[i] = s.messageHandlers[i]
    BY <2>3, <2>4, <2>6, <2>8, HandlersAssumption DEF Slots
  <2> QED
    BY <2>8, <2>10, <2>11, <2>12
<1> QED
  BY <1>1, <1>2

\* When the string of a topic is gone, the other topics are still handled.
LEMMA ForgetKeeps ==
  ASSUME NEW s \in Sessions, NEW topic
  PROVE  /\ Forget(s, topic).isconnected = s.isconnected
         /\ Handled(s) \ {topic} \subseteq Handled(Forget(s, topic))
<1> DEFINE h == [i \in Slots |-> IF s.messageHandlers[i] = topic THEN Garbage ELSE s.messageHandlers[i]]
<1>1. Forget(s, topic).isconnected = s.isconnected /\ Forget(s, topic).messageHandlers = h
  BY DEF Forget, Session
<1>2. ASSUME NEW other \in Handled(s) \ {topic} PROVE other \in Handled(Forget(s, topic))
  <2>1. PICK i \in Slots : s.messageHandlers[i] = other
    BY DEF Handled
  <2>2. h[i] = other
    BY <2>1
  <2> QED
    BY <1>1, <2>2 DEF Handled
<1> QED
  BY <1>1, <1>2

----------------------------------------------------------------------------
(* What a session in use hears *)

InSession == client /\ mqtt_obj /\ socket = "open" /\ "late" \notin causes
Hears == Handled(session) \cap subs
Carries(type) == \E i \in 1 .. Len(wire) : wire[i].type = type

\* Nothing has been sent for no time, and no ping is out.
Fresh == ~session.ping_outstanding /\ timers.last_sent = 0

\* While the board waits for the CONNACK no topic has a handler.
AtConnack == pc = "connack" => Fresh /\ session.messageHandlers = NoHandlers

\* While it subscribes, the topics it has been through are heard and the slots from the
\* present one on are empty.
AtSubscribe ==
  pc \in {"subscribe", "suback", "subcallback"} =>
    /\ session.isconnected /\ Fresh
    /\ \A i \in Slots : i >= subscribing => session.messageHandlers[i] = NoTopic
    /\ \A j \in 2 .. subscribing - 1 : Subscriptions[j] \in Hears

\* While it waits for a SUBACK there is one, and the broker sends the topic.
AtSuback ==
  pc \in {"suback", "subcallback"} => Subscriptions[subscribing] \in subs /\ Carries("SUBACK")

\* While it turns, all is heard; after a retry, all but the transcripts.
AtTurn ==
  pc \in {"get", "loop", "stream", "yield", "callback", "under"} =>
    /\ session.isconnected /\ {"update", "productmetadata"} \subseteq Hears
    /\ ~retry => "transcript" \in Hears

DeafInv ==
  /\ pc = "tls" => ~mqtt_obj
  /\ InSession => AtConnack /\ AtSubscribe /\ AtSuback /\ AtTurn

LEMMA InitDeaf == Init => DeafInv
  BY DEF Init, DeafInv, InSession

\* A packet that is put on the wire leaves the others there.
LEMMA AppendCarries ==
  ASSUME WireOK, NEW packet \in Packets, NEW type
  PROVE  LET w == Append(wire, packet)
         IN  /\ Carries(type) => \E i \in 1 .. Len(w) : w[i].type = type
             /\ \E i \in 1 .. Len(w) : w[i].type = packet.type
<1> DEFINE w == Append(wire, packet)
<1>1. /\ Len(w) = Len(wire) + 1 /\ Len(wire) \in Nat
      /\ w[Len(w)] = packet
      /\ \A i \in 1 .. Len(wire) : w[i] = wire[i]
  BY DEF WireOK
<1>2. \E i \in 1 .. Len(w) : w[i].type = packet.type
  BY <1>1
<1>3. ASSUME Carries(type) PROVE \E i \in 1 .. Len(w) : w[i].type = type
  <2>1. PICK i \in 1 .. Len(wire) : wire[i].type = type
    BY <1>3 DEF Carries
  <2> QED
    BY <1>1, <2>1
<1> QED
  BY <1>2, <1>3

\* On an open socket that stays open, with no answer late, a read finds the first packet on
\* the wire.
LEMMA OpenRead ==
  ASSUME WireOK, NEW packet, Read(packet), socket = "open", socket' = "open", "late" \notin causes'
  PROVE  packet = IF wire = <<>> THEN "none" ELSE Head(wire).type
<1>1. packet \notin {"short", "overflow"}
  BY DEF Read
<1>2. ~ReadFault(packet)
  BY <1>1 DEF ReadFault, Fault
<1> QED
  BY <1>2 DEF Read, Found

\* Of a read packet of another type, or of none, a packet of some type is left.
LEMMA ReadCarries ==
  ASSUME WireOK, NEW packet, Read(packet), NEW type, Carries(type),
         packet = "none" \/ packet = Head(wire).type, packet # type
  PROVE  Carries(type)'
<1> DEFINE rest == IF wire = <<>> \/ packet = "none" THEN wire ELSE Tail(wire)
<1>1. PICK i \in 1 .. Len(wire) : wire[i].type = type
  BY DEF Carries
<1>2. rest \in Seq(Packets)
  BY DEF WireOK
<1>3. \E j \in 1 .. Len(rest) : rest[j].type = type
  <2>1. CASE packet = "none"
    BY <1>1, <2>1
  <2>2. CASE packet # "none"
    <3>1. wire # <<>> /\ packet = Head(wire).type
      BY <1>1, <2>2 DEF WireOK
    <3>2. i # 1
      BY <1>1, <3>1 DEF WireOK
    <3>3. i - 1 \in 1 .. Len(Tail(wire)) /\ Tail(wire)[i - 1] = wire[i]
      BY <1>1, <3>1, <3>2 DEF WireOK
    <3> QED
      BY <1>1, <2>2, <3>1, <3>3
  <2> QED
    BY <2>1, <2>2
<1>4. CASE wire' = rest
  BY <1>3, <1>4 DEF Carries
<1>5. CASE wire' = Append(rest, Packet("PINGRESP", NoTopic))
  <2>1. PICK j \in 1 .. Len(rest) : rest[j].type = type
    BY <1>3
  <2>2. Packet("PINGRESP", NoTopic) \in Packets
    BY PacketTyped DEF PacketTypes
  <2>3. wire'[j] = rest[j] /\ Len(wire') = Len(rest) + 1
    BY <1>2, <1>5, <2>1, <2>2
  <2>4. j \in 1 .. Len(wire')
    BY <1>2, <2>1, <2>3
  <2> QED
    BY <2>1, <2>3, <2>4 DEF Carries
<1> QED
  BY <1>4, <1>5 DEF Read

\* A publish in a session on an open socket succeeds.
LEMMA PublishInSession ==
  ASSUME SessionOK, WireOK, InSession, session.isconnected, NEW topic, Publish(topic)
  PROVE  /\ Publishable
         /\ UNCHANGED <<session, mqtt_obj, socket, subs>>
         /\ Fresh => Fresh'
         /\ Carries("SUBACK") => Carries("SUBACK")'
<1>1. Publishable
  BY DEF InSession, Publishable, Writable
<1>2. session' = session /\ timers' = Sent(timers) /\ UNCHANGED <<mqtt_obj, socket, subs>>
  BY <1>1 DEF Publish, Publishable
<1>3. Fresh => Fresh'
  BY <1>2 DEF Fresh, Sent, Timer
<1>4. ASSUME Carries("SUBACK") PROVE Carries("SUBACK")'
  <2>1. CASE topic \in subs
    <3>1. wire' = Append(wire, Packet("PUBLISH", topic))
      BY <1>1, <2>1 DEF Publish, Answered, InSession
    <3>2. Packet("PUBLISH", topic) \in Packets
      BY <2>1, PacketTyped DEF PacketTypes, WireOK
    <3> QED
      BY <1>4, <3>1, <3>2, AppendCarries DEF Carries
  <2>2. CASE topic \notin subs
    BY <1>4, <2>2 DEF Publish, Carries
  <2> QED
    BY <2>1, <2>2
<1> QED
  BY <1>1, <1>2, <1>3, <1>4

\* A step that leaves the client and the wire alone.
LEMMA DeafFrame ==
  ASSUME DeafInv, causes \subseteq causes',
         UNCHANGED <<pc, retry, subscribing, client, mqtt_obj, session, timers, socket, wire, subs>>
  PROVE  DeafInv'
<1>1. InSession' => InSession
  BY DEF InSession
<1>2. Hears' = Hears /\ (Fresh' <=> Fresh) /\ (Carries("SUBACK") => Carries("SUBACK")')
  BY DEF Hears, Handled, Fresh, Carries
<1>3. AtConnack => AtConnack'
  BY <1>2 DEF AtConnack
<1>4. AtSubscribe => AtSubscribe'
  BY <1>2 DEF AtSubscribe
<1>5. AtSuback => AtSuback'
  BY <1>2 DEF AtSuback
<1>6. AtTurn => AtTurn'
  BY <1>2 DEF AtTurn
<1> QED
  BY <1>1, <1>3, <1>4, <1>5, <1>6 DEF DeafInv

\* A step into another place of the loop, the callback or a crash.
LEMMA DeafTurn ==
  ASSUME DeafInv, causes \subseteq causes',
         pc \in {"get", "loop", "stream", "yield", "callback", "under"},
         UNCHANGED <<client, subs>>, socket' = "open" => socket = "open",
         InSession' => /\ mqtt_obj /\ UNCHANGED retry
                       /\ session'.isconnected /\ session'.messageHandlers = session.messageHandlers,
         pc' \notin {"tls", "connack", "subscribe", "suback", "subcallback"}
  PROVE  DeafInv'
<1> SUFFICES ASSUME InSession' PROVE AtTurn'
  BY DEF DeafInv, AtConnack, AtSubscribe, AtSuback
<1>1. InSession
  BY DEF InSession
<1>2. Hears' = Hears
  BY DEF Hears, Handled
<1> QED
  BY <1>1, <1>2 DEF DeafInv, AtTurn

\* A publish of awsiot_publish from the loop or from a callback of it.
LEMMA DeafPublish ==
  ASSUME DeafInv, SessionOK, WireOK, NEW topic, NEW to, NEW after, awsiot_publish(topic, to, after),
         client' = client, causes \subseteq causes',
         pc \in {"get", "loop", "stream", "yield", "callback", "under"},
         to \in {"loop", "stream", "yield"}
  PROVE  DeafInv'
<1>1. InSession => session.isconnected
  BY DEF DeafInv, AtTurn
<1>2. CASE InSession
  <2>1. Publish(topic)
    BY <1>2 DEF awsiot_publish, InSession
  <2>2. Publishable /\ UNCHANGED <<session, mqtt_obj, socket, subs>>
    BY <1>1, <1>2, <2>1, PublishInSession
  <2>3. pc' = to /\ UNCHANGED retry
    BY <1>2, <2>2 DEF awsiot_publish, InSession
  <2> QED
    BY <1>1, <1>2, <2>2, <2>3, DeafTurn DEF InSession, DeafInv, AtTurn
<1>3. CASE ~InSession
  <2>1. UNCHANGED <<mqtt_obj, socket>>
    BY DEF awsiot_publish, Publish, peer
  <2>2. pc' # "tls"
    BY DEF awsiot_publish, Reconnect
  <2> QED
    BY <1>3, <2>1, <2>2 DEF DeafInv, InSession
<1> QED
  BY <1>2, <1>3

LEMMA DeafStream == ASSUME DeafInv, SessionOK, WireOK, PublishStream PROVE DeafInv'
<1>1. pc = "stream" /\ UNCHANGED <<client, retry, mqtt_obj, socket, subs>> /\ causes \subseteq causes'
  BY DEF PublishStream, Publish, peer
<1>2. pc' \in {"yield", "stream", "crashed"}
  BY DEF PublishStream
<1>3. InSession => session.isconnected
  BY <1>1 DEF DeafInv, AtTurn
<1>4. InSession' => InSession
  BY <1>1 DEF InSession
<1>5. ASSUME InSession PROVE session' = session
  <2>1. CASE sound = 0
    BY <2>1 DEF PublishStream
  <2>2. CASE sound # 0
    <3>1. Publish("stream")
      BY <2>2 DEF PublishStream
    <3> QED
      BY <1>3, <1>5, <3>1, PublishInSession
  <2> QED
    BY <2>1, <2>2
<1> QED
  BY <1>1, <1>2, <1>3, <1>4, <1>5, DeafTurn DEF InSession

\* In a subscription the callback goes back to it.
LEMMA DeafCallback == ASSUME DeafInv, SessionOK, WireOK, Callback PROVE DeafInv'
<1>1. client' = client /\ causes \subseteq causes'
  BY DEF Callback
<1>2. CASE pc = "callback"
  BY <1>1, <1>2, DeafPublish DEF Callback
<1>3. CASE pc = "subcallback" /\ InSession
  <2>1. session.isconnected /\ Fresh /\ Carries("SUBACK")
    BY <1>3 DEF DeafInv, AtSubscribe, AtSuback
  <2>2. awsiot_publish("metadata", "suback", "under")
    BY <1>3 DEF Callback
  <2>3. Publish("metadata")
    BY <1>3, <2>2 DEF awsiot_publish, InSession
  <2>4. Publishable /\ UNCHANGED <<session, mqtt_obj, socket, subs>> /\ Fresh' /\ Carries("SUBACK")'
    BY <1>3, <2>1, <2>3, PublishInSession
  <2>5. pc' = "suback" /\ UNCHANGED <<subscribing, retry>>
    BY <1>3, <2>2, <2>4 DEF awsiot_publish, InSession
  <2>6. Hears' = Hears
    BY <2>4 DEF Hears, Handled
  <2>7. AtSubscribe'
    BY <1>3, <2>4, <2>5, <2>6 DEF DeafInv, AtSubscribe
  <2>8. AtSuback'
    BY <1>3, <2>4, <2>5 DEF DeafInv, AtSuback
  <2> QED
    BY <2>5, <2>7, <2>8 DEF DeafInv, AtConnack, AtTurn
<1>4. CASE pc = "subcallback" /\ ~InSession
  <2>1. UNCHANGED <<mqtt_obj, socket>> /\ pc' # "tls"
    BY <1>4 DEF Callback, awsiot_publish, Publish, Reconnect, peer
  <2> QED
    BY <1>1, <1>4, <2>1 DEF DeafInv, InSession
<1> QED
  BY <1>2, <1>3, <1>4 DEF Callback

\* FreshCycle, of the client object.
LEMMA FreshRead ==
  ASSUME SessionOK, Fresh, NEW packet \in PacketTypes
  PROVE  /\ Result(packet) = packet
         /\ Cycle(packet).session.isconnected = session.isconnected
         /\ Cycle(packet).session.messageHandlers = session.messageHandlers
         /\ ~Cycle(packet).session.ping_outstanding
         /\ Cycle(packet).timers.last_sent = 0
<1>1. session \in Sessions /\ timers \in Timers /\ ~session.ping_outstanding /\ timers.last_sent = 0
  BY DEF SessionOK, Fresh
<1>2. Cycle(packet) = [session |-> Pinged(session, packet), timers |-> Timer(0, 0, timers.ping_sent),
                       pings |-> FALSE, result |-> packet]
  BY <1>1, FreshCycle DEF Cycle
<1>3. /\ Pinged(session, packet).isconnected = session.isconnected
      /\ Pinged(session, packet).messageHandlers = session.messageHandlers
      /\ ~Pinged(session, packet).ping_outstanding
  BY <1>1 DEF Pinged, Session
<1> QED
  BY <1>2, <1>3 DEF Result, Timer

LEMMA DeafConnack ==
  ASSUME DeafInv, ThreadOK, SessionOK, WireOK, NEW packet \in Reads, Connack(packet)
  PROVE  DeafInv'
<1>1. /\ pc = "connack" /\ pc' \in {"subscribe", "refused", "connack"}
      /\ UNCHANGED <<client, mqtt_obj>> /\ Read(packet) /\ causes \subseteq causes'
  BY DEF Connack, Read, ReadFault, Fault
<1> SUFFICES ASSUME InSession' PROVE AtConnack' /\ AtSubscribe'
  BY <1>1 DEF DeafInv, AtSuback, AtTurn
<1>2. socket = "open"
  BY <1>1 DEF InSession, Read
<1>3. InSession
  BY <1>1, <1>2 DEF InSession
<1>4. Fresh /\ session.messageHandlers = NoHandlers
  BY <1>1, <1>3 DEF DeafInv, AtConnack
<1>5. CASE packet = "none"
  <2>1. Result(packet) \in {"none", "failure"}
    BY <1>5, GoodCycle, BadCycle DEF Result, Cycle
  <2> QED
    BY <2>1 DEF Connack, AtConnack, AtSubscribe
<1>6. CASE packet # "none"
  <2>1. packet \in PacketTypes
    BY <1>1, <1>2, <1>6, OpenRead, HeadType DEF InSession
  <2>2. /\ Result(packet) = packet
        /\ Cycle(packet).session.messageHandlers = NoHandlers
        /\ ~Cycle(packet).session.ping_outstanding
        /\ timers'.last_sent = 0
    BY <1>1, <1>4, <2>1, FreshRead DEF Read
  <2>3. CASE packet = "CONNACK"
    <3>1. session' = Session(TRUE, NoHandlers, FALSE) /\ pc' = "subscribe"
      BY <2>2, <2>3 DEF Connack
    <3>2. session'.isconnected /\ session'.messageHandlers = NoHandlers /\ ~session'.ping_outstanding
      BY <3>1 DEF Session
    <3>3. \A i \in Slots : session'.messageHandlers[i] = NoTopic
      BY <3>2 DEF NoHandlers
    <3>4. \A j \in 2 .. subscribing' - 1 : FALSE
      <4>1. subscribing' = 1 \/ subscribing' = 2
        BY <1>1 DEF Connack, ThreadOK
      <4>2. CASE subscribing' = 1
        BY <4>2
      <4>3. CASE subscribing' = 2
        BY <4>3
      <4> QED
        BY <4>1, <4>2, <4>3
    <3>5. Fresh'
      BY <2>2, <3>2 DEF Fresh
    <3>6. AtSubscribe'
      BY <3>2, <3>3, <3>4, <3>5 DEF AtSubscribe
    <3> QED
      BY <3>1, <3>6 DEF AtConnack
  <2>4. CASE packet # "CONNACK"
    <3>1. session' = Cycle(packet).session /\ pc' = "connack"
      BY <2>1, <2>2, <2>4 DEF Connack, PacketTypes
    <3> QED
      BY <2>2, <3>1 DEF AtConnack, AtSubscribe, Fresh
  <2> QED
    BY <2>3, <2>4
<1> QED
  BY <1>5, <1>6

LEMMA DeafSubscribe == ASSUME DeafInv, ThreadOK, SessionOK, WireOK, Subscribe PROVE DeafInv'
<1>1. pc = "subscribe" /\ UNCHANGED <<client, mqtt_obj, socket, causes, retry>>
  BY DEF Subscribe, history
<1>2. pc' # "tls"
  BY DEF Subscribe, NextSubscription, ThreadOK
<1> SUFFICES ASSUME InSession' PROVE AtConnack' /\ AtSubscribe' /\ AtSuback' /\ AtTurn'
  BY <1>2 DEF DeafInv
<1>3. InSession
  BY <1>1 DEF InSession
<1>4. session.isconnected /\ Fresh
  BY <1>1, <1>3 DEF DeafInv, AtSubscribe
<1>5. /\ pc' = "suback" /\ UNCHANGED <<subscribing, session>> /\ timers' = Sent(timers)
      /\ wire' = Append(wire, Packet("SUBACK", NoTopic))
      /\ subs' = subs \cup {Subscriptions[subscribing]}
  BY <1>3, <1>4 DEF Subscribe, Writable, Answered, InSession
<1>6. Fresh'
  BY <1>4, <1>5 DEF Fresh, Sent, Timer
<1>7. Carries("SUBACK")'
  <2>1. Packet("SUBACK", NoTopic) \in Packets
    BY PacketTyped DEF PacketTypes
  <2>2. Packet("SUBACK", NoTopic).type = "SUBACK"
    BY DEF Packet
  <2> QED
    BY <1>5, <2>1, <2>2, AppendCarries DEF Carries
<1>8. Hears \subseteq Hears'
  BY <1>5 DEF Hears, Handled
<1>9. AtSubscribe'
  BY <1>1, <1>3, <1>5, <1>6, <1>8 DEF DeafInv, AtSubscribe
<1>10. AtSuback'
  BY <1>5, <1>7 DEF AtSuback
<1> QED
  BY <1>5, <1>9, <1>10 DEF AtConnack, AtTurn

\* The SUBACK is read: the topic gets its handler.
LEMMA DeafSubscribed ==
  ASSUME DeafInv, ThreadOK, SessionOK, InSession, pc = "suback", NEW after \in Sessions,
         after.isconnected, after.messageHandlers = session.messageHandlers, ~after.ping_outstanding,
         timers'.last_sent = 0, UNCHANGED <<retry, caller, subs>>,
         session' \in Kept(setMessageHandler(after, Subscriptions[subscribing])), NextSubscription
  PROVE  AtConnack' /\ AtSubscribe' /\ AtSuback' /\ AtTurn'
<1> DEFINE k == subscribing
           topic == Subscriptions[k]
           r == setMessageHandler(after, topic)
<1>1. k \in 1 .. 4 /\ topic \in Topics
  BY DEF ThreadOK, Subscriptions, Topics
<1>2. /\ \A i \in Slots : i >= k => after.messageHandlers[i] = NoTopic
      /\ \A j \in 2 .. k - 1 : Subscriptions[j] \in Hears
      /\ topic \in subs
  BY DEF DeafInv, AtSubscribe, AtSuback
<1>3. k \in Slots /\ after.messageHandlers[k] = NoTopic
  BY <1>1, <1>2, HandlersAssumption DEF Slots
<1>4. /\ r.isconnected /\ ~r.ping_outstanding
      /\ Handled(after) \cup {topic} \subseteq Handled(r)
      /\ \A i \in Slots : i > k => r.messageHandlers[i] = NoTopic
  <2>1. /\ r.isconnected = after.isconnected /\ r.ping_outstanding = after.ping_outstanding
        /\ Handled(after) \cup {topic} \subseteq Handled(r)
        /\ \A i \in Slots : i > k => r.messageHandlers[i] = after.messageHandlers[i]
    BY <1>1, <1>3, SetHandler
  <2>2. \A i \in Slots : i > k => after.messageHandlers[i] = NoTopic
    BY <1>1, <1>2, HandlersAssumption DEF Slots
  <2> QED
    BY <2>1, <2>2
<1>5. Handled(after) = Handled(session)
  BY DEF Handled
<1>6. \A j \in 2 .. k : Subscriptions[j] \in Handled(r) \cap subs
  <2>1. ASSUME NEW j \in 2 .. k PROVE Subscriptions[j] \in Handled(r) \cap subs
    <3>1. j = k \/ j \in 2 .. k - 1
      BY <1>1
    <3>2. CASE j = k
      BY <1>2, <1>4, <3>2
    <3>3. CASE j \in 2 .. k - 1
      BY <1>2, <1>4, <1>5, <3>3 DEF Hears
    <3> QED
      BY <3>1, <3>2, <3>3
  <2> QED
    BY <2>1
<1>7. CASE k < 4
  <2>1. session' = r /\ pc' = "subscribe" /\ subscribing' = k + 1
    BY <1>1, <1>7 DEF Kept, NextSubscription
  <2>2. Fresh'
    BY <1>4, <2>1 DEF Fresh
  <2>3. \A j \in 2 .. subscribing' - 1 : Subscriptions[j] \in Hears'
    BY <1>1, <1>6, <2>1 DEF Hears, Handled
  <2>4. \A i \in Slots : i >= subscribing' => session'.messageHandlers[i] = NoTopic
    BY <1>1, <1>4, <2>1, HandlersAssumption DEF Slots
  <2>5. AtSubscribe'
    BY <1>4, <2>1, <2>2, <2>3, <2>4 DEF AtSubscribe
  <2> QED
    BY <2>1, <2>5 DEF AtConnack, AtSuback, AtTurn
<1>8. CASE k = 4
  <2>1. {"update", "productmetadata", "transcript"} \subseteq Handled(r) \cap subs
    <3>1. 2 \in 2 .. k /\ 3 \in 2 .. k /\ 4 \in 2 .. k
      BY <1>8
    <3> QED
      BY <1>6, <3>1 DEF Subscriptions
  <2>2. pc' = IF retry THEN caller ELSE "get"
    BY <1>8 DEF NextSubscription
  <2>3. pc' \notin {"connack", "subscribe", "suback", "subcallback"}
    BY <2>2 DEF ThreadOK
  <2>4. session'.isconnected /\ {"update", "productmetadata"} \subseteq Hears'
    <3>1. r \in Sessions
      BY <1>1, SetHandlerType
    <3>2. CASE session' = r
      BY <1>4, <2>1, <3>2 DEF Hears, Handled
    <3>3. CASE session' = Forget(r, "transcript")
      <4>1. session'.isconnected = r.isconnected /\ Handled(r) \ {"transcript"} \subseteq Handled(session')
        BY <3>1, <3>3, ForgetKeeps
      <4>2. Hears' = Handled(session') \cap subs
        BY DEF Hears, Handled
      <4> QED
        BY <1>4, <2>1, <4>1, <4>2
    <3> QED
      BY <3>2, <3>3 DEF Kept
  <2>5. ~retry' => "transcript" \in Hears'
    BY <1>8, <2>1 DEF Kept, Hears, Handled
  <2>6. AtTurn'
    BY <2>4, <2>5 DEF AtTurn
  <2> QED
    BY <2>3, <2>6 DEF AtConnack, AtSubscribe, AtSuback
<1> QED
  BY <1>1, <1>7, <1>8

LEMMA DeafSuback ==
  ASSUME DeafInv, ThreadOK, SessionOK, WireOK, NEW packet \in Reads, Suback(packet)
  PROVE  DeafInv'
<1>1. /\ pc = "suback" /\ Read(packet)
      /\ UNCHANGED <<client, mqtt_obj, retry, caller, subs>> /\ causes \subseteq causes'
  BY DEF Suback, Read, ReadFault, Fault
<1>2. pc' # "tls"
  BY <1>1 DEF Suback, NextSubscription, ThreadOK
<1> SUFFICES ASSUME InSession' PROVE AtConnack' /\ AtSubscribe' /\ AtSuback' /\ AtTurn'
  BY <1>2 DEF DeafInv
<1>3. socket = "open" /\ InSession
  BY <1>1 DEF InSession, Read
<1>4. session.isconnected /\ Fresh /\ Carries("SUBACK")
  BY <1>1, <1>3 DEF DeafInv, AtSubscribe, AtSuback
<1>5. wire # <<>>
  BY <1>4 DEF Carries
<1>6. packet = Head(wire).type /\ packet \in PacketTypes
  BY <1>1, <1>3, <1>5, OpenRead, HeadType DEF InSession
<1> DEFINE after == Cycle(packet).session
<1>7. /\ Result(packet) = packet
      /\ after.isconnected /\ after.messageHandlers = session.messageHandlers /\ ~after.ping_outstanding
      /\ timers'.last_sent = 0
  BY <1>1, <1>4, <1>6, FreshRead DEF Read
<1>8. CASE packet = "SUBACK"
  <2>1. session' \in Kept(setMessageHandler(after, Subscriptions[subscribing])) /\ NextSubscription
    BY <1>7, <1>8 DEF Suback
  <2>2. after \in Sessions
    BY CycleTypes DEF Cycle, SessionOK
  <2> HIDE DEF after
  <2> QED
    BY <1>1, <1>3, <1>7, <2>1, <2>2, DeafSubscribed
<1>9. CASE packet # "SUBACK"
  <2>1. session' = after /\ pc' \in {"suback", "subcallback"} /\ UNCHANGED subscribing
    BY <1>6, <1>7, <1>9 DEF Suback, PacketTypes
  <2>2. Carries("SUBACK")'
    BY <1>1, <1>4, <1>6, <1>9, ReadCarries
  <2>3. Fresh'
    BY <1>7, <2>1 DEF Fresh
  <2>4. Hears' = Hears
    BY <1>1, <1>7, <2>1 DEF Hears, Handled
  <2>5. AtSubscribe'
    BY <1>1, <1>3, <1>7, <2>1, <2>3, <2>4 DEF DeafInv, AtSubscribe
  <2>6. AtSuback'
    BY <1>1, <1>3, <2>1, <2>2 DEF DeafInv, AtSuback
  <2> QED
    BY <2>1, <2>5, <2>6 DEF AtConnack, AtTurn
<1> QED
  BY <1>8, <1>9

LEMMA DeafYield ==
  ASSUME DeafInv, SessionOK, WireOK, NEW packet \in Reads, Yield(packet) PROVE DeafInv'
<1>1. /\ pc = "yield" /\ mqtt_obj /\ Read(packet)
      /\ UNCHANGED <<client, subs>> /\ causes \subseteq causes' /\ socket' \in {socket, "garbled"}
  BY DEF Yield, Read, ReadFault, Fault
<1>2. pc' \in {"connect", "offline", "crashed", "callback", "loop", "yield"}
  BY DEF Yield, YieldFails, Reconnect
<1>3. ASSUME InSession'
      PROVE  /\ UNCHANGED retry
             /\ session'.isconnected /\ session'.messageHandlers = session.messageHandlers
  <2>1. Result(packet) # "failure"
    BY <1>3 DEF Yield, InSession
  <2>2. packet # "short"
    BY <1>1, <1>3 DEF InSession, Read
  <2>3. CycleGood(session, timers, packet, Writable)
    BY <2>1, <2>2, BadCycle DEF Result, Cycle
  <2>4. /\ Cycle(packet).session.isconnected = session.isconnected
        /\ Cycle(packet).session.messageHandlers = session.messageHandlers
    BY <2>3, GoodCycleKeeps DEF Cycle, SessionOK
  <2>5. session.isconnected
    BY <1>1, <1>3 DEF InSession, DeafInv, AtTurn
  <2> QED
    BY <2>1, <2>4, <2>5 DEF Yield
<1> QED
  BY <1>1, <1>2, <1>3, DeafTurn

LEMMA DeafTls == ASSUME DeafInv, Tls PROVE DeafInv'
<1>1. CASE pc' = "connack" /\ session' = NewSession /\ timers' = Timer(0, 0, timers.ping_sent)
  <2>1. Fresh' /\ session'.messageHandlers = NoHandlers
    BY <1>1 DEF Fresh, NewSession, Session, Timer
  <2> QED
    BY <1>1, <2>1 DEF DeafInv, AtConnack, AtSubscribe, AtSuback, AtTurn
<1>2. CASE pc' = "refused"
  BY <1>2 DEF DeafInv, AtConnack, AtSubscribe, AtSuback, AtTurn
<1> QED
  BY <1>1, <1>2 DEF Tls

LEMMA DeafApp == ASSUME DeafInv, WireOK, NEW topic \in Topics, AppSends(topic) PROVE DeafInv'
<1>1. UNCHANGED <<pc, retry, subscribing, client, mqtt_obj, session, timers, socket, subs>>
  BY DEF AppSends, thread, objects
<1>2. causes \subseteq causes'
  BY DEF AppSends
<1>3. CASE wire' = wire
  BY <1>1, <1>2, <1>3, DeafFrame
<1>4. CASE wire' = Append(wire, Packet("PUBLISH", topic))
  <2>1. Packet("PUBLISH", topic) \in Packets
    BY PacketTyped DEF PacketTypes
  <2>2. Carries("SUBACK") => Carries("SUBACK")'
    BY <1>4, <2>1, AppendCarries DEF Carries
  <2>3. Hears' = Hears /\ (Fresh' <=> Fresh) /\ (InSession' => InSession)
    BY <1>1, <1>2 DEF Hears, Handled, Fresh, InSession
  <2>4. (AtConnack => AtConnack') /\ (AtSubscribe => AtSubscribe')
    BY <1>1, <2>3 DEF AtConnack, AtSubscribe
  <2>5. (AtSuback => AtSuback') /\ (AtTurn => AtTurn')
    BY <1>1, <2>2, <2>3 DEF AtSuback, AtTurn
  <2> QED
    BY <1>1, <2>3, <2>4, <2>5 DEF DeafInv
<1> QED
  BY <1>3, <1>4 DEF AppSends

LEMMA DeafStep == DeafInv /\ ThreadOK /\ SessionOK /\ WireOK /\ [Next]_vars => DeafInv'
<1> SUFFICES ASSUME DeafInv, ThreadOK, SessionOK, WireOK, [Next]_vars PROVE DeafInv'
  OBVIOUS
<1>1. ASSUME pc' \in {"connect", "offline"} PROVE DeafInv'
  BY <1>1 DEF DeafInv, AtConnack, AtSubscribe, AtSuback, AtTurn
<1>2. CASE Main \/ WaitForNetwork
  BY <1>1, <1>2 DEF Main, WaitForNetwork, thread
<1>3. CASE Connect
  BY <1>3 DEF Connect, DeafInv, InSession
<1>4. CASE Refused
  <2>1. pc' # "tls" /\ ~client'
    BY <1>4 DEF Refused, ThreadOK
  <2> QED
    BY <2>1 DEF DeafInv, InSession
<1>5. CASE Get
  BY <1>5, DeafPublish DEF Get, history
<1>6. CASE PublishShadow
  <2>1. CASE shadow_status
    BY <1>6, <2>1, DeafPublish DEF PublishShadow, history
  <2>2. CASE ~shadow_status
    BY <1>6, <2>2, DeafTurn DEF PublishShadow, history, peer, InSession, DeafInv, AtTurn
  <2> QED
    BY <2>1, <2>2
<1>7. CASE Under
  BY <1>7, DeafTurn DEF Under, objects, peer, history, InSession, DeafInv, AtTurn
<1>8. CASE YieldDisconnected
  <2>1. ~mqtt_obj' /\ pc' # "tls"
    BY <1>8 DEF YieldDisconnected, YieldFails, Reconnect
  <2> QED
    BY <2>1 DEF DeafInv, InSession
<1>9. CASE Press \/ Record \/ WifiReturns
  BY <1>9, DeafFrame DEF Press, Record, WifiReturns, thread, objects, peer, history
<1>10. CASE WifiFails \/ \E state \in Sockets : SocketFails(state)
  <2>1. socket' # "open" /\ UNCHANGED <<pc, mqtt_obj>>
    BY <1>10 DEF WifiFails, SocketFails, thread, objects
  <2> QED
    BY <2>1 DEF DeafInv, InSession
<1>11. CASE UNCHANGED vars
  BY <1>11, DeafFrame DEF vars, thread, objects, peer, history
<1> QED
  BY <1>2, <1>3, <1>4, <1>5, <1>6, <1>7, <1>8, <1>9, <1>10, <1>11, DeafTls, DeafApp, DeafSubscribe,
     DeafStream, DeafCallback, DeafConnack, DeafSuback, DeafYield DEF Next, Thread, Environment

\* While the socket carries what is sent and no answer came too late, a board in its loop has a
\* session, hears what the app wants and who wants to pair, and, as long as it has never had to
\* connect again, the transcripts: however the socket failed before, and wherever a callback
\* of a subscription was called (awsiot_connect_thread).
THEOREM DeafOnlyWhenLate == Spec => []DeafOnlyFor
<1> DEFINE IInv == DeafInv /\ ThreadOK /\ SessionOK /\ WireOK
<1>1. Init => IInv
  BY InitDeaf, InitTypes
<1>2. IInv /\ [Next]_vars => IInv'
  BY DeafStep, ThreadStep, SessionStep, WireStep
<1>3. IInv => DeafOnlyFor
  BY DEF DeafInv, AtTurn, InSession, Hears, DeafOnlyFor, Live
<1> QED
  BY <1>1, <1>2, <1>3, PTL DEF Spec

----------------------------------------------------------------------------
(* What the app wants, while nothing has gone wrong *)

Wished == \E i \in 1 .. Len(wire) : wire[i].topic = "update"

\* What is on the wire for a topic is a message.
Published == \A i \in 1 .. Len(wire) : wire[i].topic # NoTopic => wire[i].type = "PUBLISH"

\* The first connection is still in use.
Unharmed ==
  /\ pc \notin {"offline", "refused", "ended", "crashed", "under"} /\ caller = "start"
  /\ pc \notin {"main", "connect", "tls"} => client /\ mqtt_obj /\ network /\ socket = "open"

\* A wish that has not been heard is on the wire, and the broker sends it.
OnTheWay ==
  /\ unheard => Wished
  /\ Wished => "update" \in subs

\* Every wish on the wire comes behind a SUBACK.
AckFirst ==
  \A i \in 1 .. Len(wire) : wire[i].topic = "update" => \E j \in 1 .. i - 1 : wire[j].type = "SUBACK"

\* The broker sends wishes from the second subscription on; the board gets to know of it
\* before the first of them.
Announced ==
  /\ pc \in {"main", "connect", "tls", "connack"} => subs = {}
  /\ pc \in {"main", "connect", "tls"} => wire = <<>>
  /\ pc = "connack" => wire = <<Packet("CONNACK", NoTopic)>>
  /\ pc \in {"subscribe", "suback", "subcallback"} /\ subscribing = 1 => "update" \notin subs
  /\ pc = "subscribe" /\ subscribing = 2 => "update" \notin subs
  /\ pc \in {"suback", "subcallback"} /\ subscribing = 2 => AckFirst

\* A ping that is out is being answered, and has been out for no time.
PingAnswered == session.ping_outstanding => Carries("PINGRESP") /\ timers.ping_sent = 0

UnheardInv == causes = {} => Published /\ Unharmed /\ OnTheWay /\ Announced /\ PingAnswered

LEMMA InitUnheard == Init => UnheardInv
<1> SUFFICES ASSUME Init PROVE UnheardInv
  OBVIOUS
<1>1. ~session.ping_outstanding
  BY DEF Init, NewSession, Session
<1>2. Len(wire) = 0
  BY DEF Init
<1> QED
  BY <1>1, <1>2 DEF Init, UnheardInv, Published, Unharmed, OnTheWay, Wished, Announced, PingAnswered

\* One more packet on the wire.
LEMMA AppendedWire ==
  ASSUME WireOK, NEW packet \in Packets, wire' = Append(wire, packet)
  PROVE  /\ \A i \in 1 .. Len(wire) : i \in 1 .. Len(wire') /\ wire'[i] = wire[i]
         /\ \A i \in 1 .. Len(wire') :
              i \in 1 .. Len(wire) \/ (i = Len(wire) + 1 /\ wire'[i] = packet)
         /\ Len(wire) + 1 \in 1 .. Len(wire') /\ wire'[Len(wire) + 1] = packet
<1>1. /\ Len(wire') = Len(wire) + 1 /\ Len(wire) \in Nat
      /\ \A i \in 1 .. Len(wire) : wire'[i] = wire[i]
      /\ wire'[Len(wire) + 1] = packet
  BY DEF WireOK
<1>2. ASSUME NEW i \in 1 .. Len(wire) PROVE i \in 1 .. Len(wire') /\ wire'[i] = wire[i]
  BY <1>1
<1>3. ASSUME NEW i \in 1 .. Len(wire')
      PROVE  i \in 1 .. Len(wire) \/ (i = Len(wire) + 1 /\ wire'[i] = packet)
  <2>1. i \in 1 .. Len(wire) \/ i = Len(wire) + 1
    BY <1>1
  <2> QED
    BY <1>1, <2>1
<1>4. Len(wire) + 1 \in 1 .. Len(wire')
  BY <1>1
<1> QED
  BY <1>1, <1>2, <1>3, <1>4

\* A read takes the first packet, if there is one, and may add a PINGRESP.
LEMMA WireAfterRead ==
  ASSUME WireOK, NEW packet, Read(packet), packet = IF wire = <<>> THEN "none" ELSE Head(wire).type
  PROVE  /\ \A i \in 2 .. Len(wire) : i - 1 \in 1 .. Len(wire') /\ wire'[i - 1] = wire[i]
         /\ \A i \in 1 .. Len(wire') : \/ i + 1 \in 2 .. Len(wire) /\ wire'[i] = wire[i + 1]
                                       \/ wire'[i] = Packet("PINGRESP", NoTopic)
<1> DEFINE rest == IF wire = <<>> THEN wire ELSE Tail(wire)
<1>1. rest = IF wire = <<>> \/ packet = "none" THEN wire ELSE Tail(wire)
  <2>1. wire # <<>> => packet # "none"
    BY HeadType DEF PacketTypes
  <2> QED
    BY <2>1
<1>2. rest \in Seq(Packets)
  BY DEF WireOK
<1>3. /\ \A i \in 2 .. Len(wire) : i - 1 \in 1 .. Len(rest) /\ rest[i - 1] = wire[i]
      /\ \A i \in 1 .. Len(rest) : i + 1 \in 2 .. Len(wire) /\ rest[i] = wire[i + 1]
  <2>1. CASE wire = <<>>
    BY <2>1
  <2>2. CASE wire # <<>>
    BY <2>2 DEF WireOK
  <2> QED
    BY <2>1, <2>2
<1>4. CASE wire' = rest
  BY <1>3, <1>4
<1>5. CASE wire' = Append(rest, Packet("PINGRESP", NoTopic))
  <2>1. Packet("PINGRESP", NoTopic) \in Packets
    BY PacketTyped DEF PacketTypes
  <2> HIDE DEF rest
  <2>2. /\ Len(wire') = Len(rest) + 1 /\ Len(rest) \in Nat
        /\ \A i \in 1 .. Len(rest) : wire'[i] = rest[i]
        /\ wire'[Len(rest) + 1] = Packet("PINGRESP", NoTopic)
    BY <1>2, <1>5, <2>1
  <2>3. \A i \in 2 .. Len(wire) : i - 1 \in 1 .. Len(wire') /\ wire'[i - 1] = wire[i]
    BY <1>3, <2>2
  <2>4. ASSUME NEW i \in 1 .. Len(wire')
        PROVE  \/ i + 1 \in 2 .. Len(wire) /\ wire'[i] = wire[i + 1]
               \/ wire'[i] = Packet("PINGRESP", NoTopic)
    <3>1. i \in 1 .. Len(rest) \/ i = Len(rest) + 1
      BY <2>2
    <3> QED
      BY <1>3, <2>2, <3>1
  <2> QED
    BY <2>3, <2>4
<1> QED
  BY <1>1, <1>4, <1>5 DEF Read

\* While nothing goes wrong a read finds the first packet on an open socket.
LEMMA FlawlessRead ==
  ASSUME WireOK, NEW packet, Read(packet), socket = "open", causes' = {}
  PROVE  packet = (IF wire = <<>> THEN "none" ELSE Head(wire).type) /\ socket' = "open"
<1>1. packet \in Found
  BY DEF Read, ReadFault, Fault
<1>2. packet = IF wire = <<>> THEN "none" ELSE Head(wire).type
  BY <1>1 DEF Found
<1>3. packet \notin {"short", "overflow"}
  BY <1>2, HeadType DEF PacketTypes
<1> QED
  BY <1>2, <1>3 DEF Read

\* A packet that is not a wish is put on the wire.
LEMMA UnheardAppend ==
  ASSUME Published, WireOK, NEW type \in PacketTypes, NEW topic \in (Topics \cup {NoTopic}) \ {"update"},
         wire' = Append(wire, Packet(type, topic)), topic # NoTopic => type = "PUBLISH"
  PROVE  /\ Published' /\ (Wished' <=> Wished)
         /\ Carries("PINGRESP") => Carries("PINGRESP")'
         /\ AckFirst => AckFirst'
<1> DEFINE p == Packet(type, topic)
<1>1. p \in Packets /\ p.type = type /\ p.topic = topic
  BY PacketTyped DEF Packet
<1> HIDE DEF p
<1>2. /\ \A i \in 1 .. Len(wire) : i \in 1 .. Len(wire') /\ wire'[i] = wire[i]
      /\ \A i \in 1 .. Len(wire') : i \in 1 .. Len(wire) \/ (i = Len(wire) + 1 /\ wire'[i] = p)
  BY <1>1, AppendedWire DEF p
<1>3. Published'
  BY <1>1, <1>2 DEF Published
<1>4. Wished' <=> Wished
  BY <1>1, <1>2 DEF Wished
<1>5. Carries("PINGRESP") => Carries("PINGRESP")'
  BY <1>2 DEF Carries
<1>6. ASSUME AckFirst, NEW i \in 1 .. Len(wire'), wire'[i].topic = "update"
      PROVE  \E j \in 1 .. i - 1 : wire'[j].type = "SUBACK"
  <2>1. i \in 1 .. Len(wire) /\ wire[i].topic = "update"
    BY <1>1, <1>2, <1>6
  <2>2. PICK j \in 1 .. i - 1 : wire[j].type = "SUBACK"
    BY <1>6, <2>1 DEF AckFirst
  <2>3. j \in 1 .. Len(wire)
    BY <2>1, <2>2 DEF WireOK
  <2> QED
    BY <1>2, <2>2, <2>3
<1>7. AckFirst => AckFirst'
  BY <1>6 DEF AckFirst
<1> QED
  BY <1>3, <1>4, <1>5, <1>7

\* A publish of the board in a session: it goes on at "to".
LEMMA UnheardPublish ==
  ASSUME UnheardInv, SessionOK, WireOK, InSession, session.isconnected, causes = {},
         NEW topic \in {"get", "status", "stream", "metadata"}, Publish(topic),
         UNCHANGED <<client, caller, subscribing, network, unheard, causes>>,
         \/ pc' \in {"loop", "stream", "yield"} /\ pc \notin {"main", "connect", "tls"}
         \/ pc = "subcallback" /\ pc' = "suback"
  PROVE  UnheardInv'
<1>1. UNCHANGED <<session, mqtt_obj, socket, subs>> /\ timers' = Sent(timers)
  BY PublishInSession DEF Publish
<1>2. CASE topic \in subs
  <2>1. topic \in (Topics \cup {NoTopic}) \ {"update"}
    BY <1>2 DEF WireOK
  <2>2. wire' = Append(wire, Packet("PUBLISH", topic))
    BY <1>2, PublishInSession DEF Publish, Answered, InSession
  <2>3. "PUBLISH" \in PacketTypes
    BY DEF PacketTypes
  <2>4. /\ Published' /\ (Wished' <=> Wished)
        /\ Carries("PINGRESP") => Carries("PINGRESP")'
        /\ AckFirst => AckFirst'
    BY <2>1, <2>2, <2>3, UnheardAppend DEF UnheardInv
  <2>5. timers'.ping_sent = timers.ping_sent
    BY <1>1 DEF Sent, Timer
  <2>6. PingAnswered => PingAnswered'
    BY <1>1, <2>4, <2>5 DEF PingAnswered
  <2> QED
    BY <1>1, <2>4, <2>6 DEF UnheardInv, Unharmed, OnTheWay, Announced, AckFirst
<1>3. CASE topic \notin subs
  <2>1. wire' = wire
    BY <1>3 DEF Publish
  <2>2. timers'.ping_sent = timers.ping_sent
    BY <1>1 DEF Sent, Timer
  <2>3. PingAnswered => PingAnswered'
    BY <1>1, <2>1, <2>2 DEF PingAnswered, Carries
  <2>4. Published' /\ (Wished' <=> Wished)
    BY <2>1 DEF UnheardInv, Published, Wished
  <2> QED
    BY <1>1, <2>1, <2>3, <2>4 DEF UnheardInv, Unharmed, OnTheWay, Announced, AckFirst
<1> QED
  BY <1>2, <1>3

\* A read with its callback, by a board that handles wishes when one comes.
LEMMA UnheardRead ==
  ASSUME Published, WireOK, OnTheWay, NEW packet, Read(packet),
         packet = IF wire = <<>> THEN "none" ELSE Head(wire).type,
         Apply(Delivered(packet)),
         wire # <<>> /\ Head(wire).topic = "update" => "update" \in Handled(session)
  PROVE  Published' /\ OnTheWay'
<1>1. /\ \A i \in 2 .. Len(wire) : i - 1 \in 1 .. Len(wire') /\ wire'[i - 1] = wire[i]
      /\ \A i \in 1 .. Len(wire') : \/ i + 1 \in 2 .. Len(wire) /\ wire'[i] = wire[i + 1]
                                    \/ wire'[i] = Packet("PINGRESP", NoTopic)
  BY WireAfterRead
<1>2. Packet("PINGRESP", NoTopic).topic = NoTopic /\ NoTopic # "update"
  BY DEF Packet, NoTopic
<1>3. 2 .. Len(wire) \subseteq 1 .. Len(wire)
  BY DEF WireOK
<1>4. Published'
  BY <1>1, <1>2, <1>3 DEF Published
<1>5. Wished' => Wished
  BY <1>1, <1>2, <1>3 DEF Wished
<1>6. ASSUME unheard', ~Wished' PROVE FALSE
  <2>1. unheard
    BY <1>6 DEF Apply
  <2>2. ~\E i \in 2 .. Len(wire) : wire[i].topic = "update"
    BY <1>1, <1>6 DEF Wished
  <2>3. PICK i \in 1 .. Len(wire) : wire[i].topic = "update"
    BY <2>1 DEF OnTheWay, Wished
  <2>4. i = 1 /\ wire # <<>> /\ Head(wire) = wire[1]
    BY <2>2, <2>3 DEF WireOK
  <2>5. Head(wire).topic = "update" /\ Head(wire).type = "PUBLISH"
    BY <2>3, <2>4 DEF Published, NoTopic
  <2>6. Delivered(packet) = "update"
    BY <2>4, <2>5 DEF Delivered
  <2> QED
    BY <1>6, <2>2, <2>6 DEF Apply
<1>7. subs' = subs
  BY DEF Read
<1> QED
  BY <1>4, <1>5, <1>6, <1>7 DEF OnTheWay

LEMMA UnheardSuback ==
  ASSUME UnheardInv, DeafInv, ThreadOK, SessionOK, WireOK, NEW packet \in Reads, Suback(packet),
         causes' = {}
  PROVE  UnheardInv'
<1>1. /\ pc = "suback" /\ Read(packet) /\ Apply(Delivered(packet))
      /\ UNCHANGED <<client, mqtt_obj, network, retry, caller, subs>> /\ causes = {}
  BY DEF Suback, Read, ReadFault, Fault
<1>2. Published /\ Unharmed /\ OnTheWay /\ Announced /\ socket = "open" /\ ~retry
  BY <1>1 DEF UnheardInv, Unharmed, ThreadOK
<1>3. InSession
  BY <1>1, <1>2 DEF Unharmed, InSession
<1>4. session.isconnected /\ Fresh /\ Carries("SUBACK")
  BY <1>1, <1>3 DEF DeafInv, AtSubscribe, AtSuback
<1>5. wire # <<>>
  BY <1>4 DEF Carries
<1>6. packet = Head(wire).type /\ packet \in PacketTypes /\ socket' = "open"
  BY <1>1, <1>2, <1>5, FlawlessRead, HeadType
<1>7. Result(packet) = packet /\ ~Cycle(packet).session.ping_outstanding
  BY <1>4, <1>6, FreshRead
<1>8. /\ \A i \in 2 .. Len(wire) : i - 1 \in 1 .. Len(wire') /\ wire'[i - 1] = wire[i]
      /\ \A i \in 1 .. Len(wire') : \/ i + 1 \in 2 .. Len(wire) /\ wire'[i] = wire[i + 1]
                                    \/ wire'[i] = Packet("PINGRESP", NoTopic)
  BY <1>1, <1>5, <1>6, WireAfterRead
<1>9. 1 \in 1 .. Len(wire) /\ wire[1] = Head(wire)
  BY <1>5 DEF WireOK
<1>10. ASSUME Head(wire).topic = "update" PROVE "update" \in Handled(session)
  <2>1. Wished
    BY <1>9, <1>10 DEF Wished
  <2>2. subscribing # 1
    BY <1>1, <1>2, <2>1 DEF OnTheWay, Announced
  <2>3. subscribing # 2
    <3>1. \A j \in 1 .. 1 - 1 : FALSE
      OBVIOUS
    <3> QED
      BY <1>1, <1>2, <1>9, <1>10, <3>1 DEF Announced, AckFirst
  <2>4. 2 \in 2 .. subscribing - 1
    BY <2>2, <2>3 DEF ThreadOK
  <2>5. Subscriptions[2] \in Hears
    BY <1>1, <1>3, <2>4 DEF DeafInv, AtSubscribe
  <2> QED
    BY <2>5 DEF Subscriptions, Hears
<1>11. Published' /\ OnTheWay'
  BY <1>1, <1>2, <1>5, <1>6, <1>10, UnheardRead
<1>12. CASE packet = "SUBACK"
  <2>1. session' \in Kept(setMessageHandler(Cycle(packet).session, Subscriptions[subscribing])) /\ NextSubscription
    BY <1>7, <1>12 DEF Suback
  <2>2. session' = setMessageHandler(Cycle(packet).session, Subscriptions[subscribing])
    BY <1>2, <2>1 DEF Kept
  <2>3. ~session'.ping_outstanding
    BY <1>7, <2>2 DEF setMessageHandler, Session
  <2>4. \/ pc' = "subscribe" /\ subscribing' = subscribing + 1
        \/ pc' = "get"
    BY <1>2, <2>1 DEF NextSubscription, ThreadOK
  <2>5. subscribing = 1 => "update" \notin subs
    BY <1>1, <1>2 DEF Announced
  <2>6. Unharmed'
    BY <1>1, <1>2, <1>6, <2>4 DEF Unharmed
  <2>7. Announced'
    BY <1>1, <2>4, <2>5 DEF Announced, ThreadOK
  <2>8. PingAnswered'
    BY <2>3 DEF PingAnswered
  <2> QED
    BY <1>11, <2>6, <2>7, <2>8 DEF UnheardInv
<1>13. CASE packet # "SUBACK"
  <2>1. session' = Cycle(packet).session /\ pc' \in {"suback", "subcallback"} /\ UNCHANGED subscribing
    BY <1>6, <1>7, <1>13 DEF Suback, PacketTypes
  <2>2. ASSUME subscribing = 2, NEW i \in 1 .. Len(wire'), wire'[i].topic = "update"
        PROVE  \E j \in 1 .. i - 1 : wire'[j].type = "SUBACK"
    <3>1. Packet("PINGRESP", NoTopic).topic = NoTopic /\ NoTopic # "update"
      BY DEF Packet, NoTopic
    <3>2. i + 1 \in 2 .. Len(wire) /\ wire'[i] = wire[i + 1]
      BY <1>8, <2>2, <3>1
    <3>3. PICK j \in 1 .. (i + 1) - 1 : wire[j].type = "SUBACK"
      <4>1. i + 1 \in 1 .. Len(wire)
        BY <3>2 DEF WireOK
      <4> QED
        BY <1>1, <1>2, <2>2, <3>2, <4>1 DEF Announced, AckFirst
    <3>4. j # 1
      BY <1>6, <1>9, <1>13, <3>3
    <3>5. j \in 2 .. Len(wire) /\ j - 1 \in 1 .. i - 1
      BY <3>2, <3>3, <3>4 DEF WireOK
    <3>6. wire'[j - 1] = wire[j]
      BY <1>8, <3>5
    <3> QED
      BY <3>3, <3>5, <3>6
  <2>3. Announced'
    BY <1>1, <1>2, <2>1, <2>2 DEF Announced, AckFirst
  <2>4. Unharmed'
    BY <1>1, <1>2, <1>6, <2>1 DEF Unharmed
  <2>5. PingAnswered'
    BY <1>7, <2>1 DEF PingAnswered
  <2> QED
    BY <1>11, <2>3, <2>4, <2>5 DEF UnheardInv
<1> QED
  BY <1>12, <1>13

LEMMA UnheardYield ==
  ASSUME UnheardInv, DeafInv, ThreadOK, SessionOK, WireOK, NEW packet \in Reads, Yield(packet),
         causes' = {}
  PROVE  UnheardInv'
<1>1. /\ pc = "yield" /\ Read(packet) /\ Apply(Delivered(packet))
      /\ UNCHANGED <<client, subs>> /\ causes = {}
  BY DEF Yield, Read, ReadFault, Fault
<1>2. Published /\ Unharmed /\ OnTheWay /\ PingAnswered /\ socket = "open"
  BY <1>1 DEF UnheardInv, Unharmed
<1>3. InSession /\ "update" \in Handled(session)
  BY <1>1, <1>2 DEF Unharmed, InSession, DeafInv, AtTurn, Hears
<1>4. packet = (IF wire = <<>> THEN "none" ELSE Head(wire).type) /\ socket' = "open"
  BY <1>1, <1>2, FlawlessRead
<1>5. packet \in PacketTypes \cup {"none"}
  BY <1>4, HeadType
<1> DEFINE s1 == Pinged(session, packet)
           t1 == Timed(timers, packet)
<1>6. s1.ping_outstanding => session.ping_outstanding /\ packet \notin {"PINGRESP", "none"} /\ t1.ping_sent = 0
  <2> SUFFICES ASSUME s1.ping_outstanding
               PROVE session.ping_outstanding /\ packet \notin {"PINGRESP", "none"} /\ t1.ping_sent = 0
    OBVIOUS
  <2>1. packet # "PINGRESP" /\ session.ping_outstanding
    BY DEF Pinged, Session
  <2>2. Carries("PINGRESP") /\ timers.ping_sent = 0
    BY <1>2, <2>1 DEF PingAnswered
  <2>3. wire # <<>>
    BY <2>2 DEF Carries
  <2>4. packet \in PacketTypes /\ packet # "none"
    BY <1>4, <2>3, HeadType DEF PacketTypes
  <2> QED
    BY <2>1, <2>2, <2>4 DEF Timed, Timer
<1>7. CycleGood(session, timers, packet, Writable)
  <2>1. ~KeepAliveFails(s1, t1, Writable)
    BY <1>2, <1>6, KeepAliveAssumption DEF KeepAliveFails, Expired, Writable
  <2> QED
    BY <1>5, <2>1 DEF CycleGood
<1>8. Cycle(packet) = [session |-> SessionKept(s1, t1), timers |-> TimersKept(s1, t1),
                       pings |-> PingDue(s1, t1), result |-> packet]
  BY <1>7, GoodCycle DEF Cycle
<1>9. Result(packet) = packet /\ packet # "failure"
  BY <1>5, <1>8 DEF Result, PacketTypes
<1>10. /\ mqtt_obj' /\ pc' \in {"callback", "loop", "yield"}
       /\ UNCHANGED <<caller, retry, subscribing, network>>
       /\ session' = SessionKept(s1, t1) /\ timers' = TimersKept(s1, t1)
  <2>1. Cycle(packet).session = SessionKept(s1, t1) /\ Cycle(packet).timers = TimersKept(s1, t1)
    BY <1>8
  <2> HIDE DEF s1, t1
  <2>2. session' = SessionKept(s1, t1) /\ timers' = TimersKept(s1, t1)
    BY <1>1, <2>1 DEF Yield, Read
  <2>3. mqtt_obj' /\ pc' \in {"callback", "loop", "yield"} /\ UNCHANGED <<caller, retry, subscribing, network>>
    BY <1>9 DEF Yield
  <2> QED
    BY <2>2, <2>3
<1>11. Published' /\ OnTheWay'
  BY <1>1, <1>2, <1>3, <1>4, UnheardRead
<1>12. Unharmed'
  BY <1>1, <1>2, <1>4, <1>10 DEF Unharmed
<1>13. PingAnswered'
  <2>1. CASE PingDue(s1, t1)
    <3>1. timers'.ping_sent = 0
      BY <1>10, <2>1 DEF TimersKept, Timer
    <3>2. Cycle(packet).pings
      BY <1>8, <2>1
    <3> DEFINE rest == IF wire = <<>> \/ packet = "none" THEN wire ELSE Tail(wire)
    <3>3. wire' = Append(rest, Packet("PINGRESP", NoTopic)) /\ rest \in Seq(Packets)
      BY <1>1, <1>2, <3>2 DEF Read, WireOK
    <3> HIDE DEF rest
    <3>4. Packet("PINGRESP", NoTopic) \in Packets /\ Packet("PINGRESP", NoTopic).type = "PINGRESP"
      BY PacketTyped DEF PacketTypes, Packet
    <3>5. Len(wire') = Len(rest) + 1 /\ Len(rest) \in Nat /\ wire'[Len(rest) + 1] = Packet("PINGRESP", NoTopic)
      BY <3>3, <3>4
    <3>6. Len(rest) + 1 \in 1 .. Len(wire')
      BY <3>5
    <3> QED
      BY <3>1, <3>4, <3>5, <3>6 DEF PingAnswered, Carries
  <2>2. CASE ~PingDue(s1, t1)
    <3>1. session' = s1 /\ timers' = t1
      BY <1>10, <2>2 DEF SessionKept, TimersKept
    <3>2. s1.ping_outstanding => Carries("PINGRESP")'
      BY <1>1, <1>2, <1>4, <1>6, ReadCarries DEF PingAnswered
    <3> QED
      BY <1>6, <3>1, <3>2 DEF PingAnswered
  <2> QED
    BY <2>1, <2>2
<1>14. Announced'
  BY <1>10 DEF Announced
<1> QED
  BY <1>11, <1>12, <1>13, <1>14 DEF UnheardInv

LEMMA UnheardConnack ==
  ASSUME UnheardInv, DeafInv, ThreadOK, SessionOK, WireOK, NEW packet \in Reads, Connack(packet),
         causes' = {}
  PROVE  UnheardInv'
<1>1. /\ pc = "connack" /\ Read(packet) /\ causes = {}
      /\ UNCHANGED <<client, mqtt_obj, network, caller, subscribing, unheard, subs>>
  BY DEF Connack, Read, ReadFault, Fault
<1>2. Published /\ Unharmed /\ OnTheWay /\ Announced /\ socket = "open"
  BY <1>1 DEF UnheardInv, Unharmed
<1>3. wire = <<Packet("CONNACK", NoTopic)>> /\ subs = {}
  BY <1>1, <1>2 DEF Announced
<1>4. packet = "CONNACK" /\ socket' = "open"
  <2>1. wire # <<>> /\ Head(wire).type = "CONNACK"
    BY <1>3 DEF Packet
  <2> QED
    BY <1>1, <1>2, <2>1, FlawlessRead
<1>5. Fresh
  BY <1>1, <1>2 DEF Unharmed, InSession, DeafInv, AtConnack
<1>6. Result(packet) = "CONNACK"
  BY <1>4, <1>5, FreshRead DEF PacketTypes
<1>7. pc' = "subscribe" /\ ~session'.ping_outstanding
  BY <1>6 DEF Connack, Session
<1>8. /\ \A i \in 1 .. Len(wire') : \/ i + 1 \in 2 .. Len(wire) /\ wire'[i] = wire[i + 1]
                                    \/ wire'[i] = Packet("PINGRESP", NoTopic)
  <2>1. packet = IF wire = <<>> THEN "none" ELSE Head(wire).type
    BY <1>1, <1>2, FlawlessRead
  <2> QED
    BY <1>1, <2>1, WireAfterRead
<1>9. ~\E i \in 2 .. Len(wire) : TRUE
  BY <1>3
<1>10. \A i \in 1 .. Len(wire') : wire'[i].topic = NoTopic
  <2>1. Packet("PINGRESP", NoTopic).topic = NoTopic
    BY DEF Packet
  <2> QED
    BY <1>8, <1>9, <2>1
<1>11. ~Wished /\ ~Wished'
  <2>1. NoTopic # "update"
    BY DEF NoTopic
  <2>2. ~Wished'
    BY <1>10, <2>1 DEF Wished
  <2>3. ~Wished
    BY <1>2, <1>3 DEF OnTheWay
  <2> QED
    BY <2>2, <2>3
<1>12. Unharmed'
  BY <1>1, <1>2, <1>4, <1>7 DEF Unharmed
<1>13. OnTheWay' /\ Published'
  BY <1>1, <1>2, <1>10, <1>11 DEF OnTheWay, Published
<1>14. Announced' /\ PingAnswered'
  BY <1>1, <1>3, <1>7 DEF Announced, PingAnswered
<1> QED
  BY <1>12, <1>13, <1>14 DEF UnheardInv

LEMMA UnheardSubscribe ==
  ASSUME UnheardInv, DeafInv, ThreadOK, SessionOK, WireOK, Subscribe, causes' = {}
  PROVE  UnheardInv'
<1>1. /\ pc = "subscribe" /\ causes = {}
      /\ UNCHANGED <<client, mqtt_obj, network, caller, socket, unheard>>
  BY DEF Subscribe, history
<1>2. Published /\ Unharmed /\ OnTheWay /\ Announced /\ PingAnswered
  BY <1>1 DEF UnheardInv
<1>3. InSession /\ session.isconnected
  BY <1>1, <1>2 DEF Unharmed, InSession, DeafInv, AtSubscribe
<1>4. /\ pc' = "suback" /\ UNCHANGED <<subscribing, session>> /\ timers' = Sent(timers)
      /\ wire' = Append(wire, Packet("SUBACK", NoTopic))
      /\ subs' = subs \cup {Subscriptions[subscribing]}
  BY <1>3 DEF Subscribe, Writable, Answered, InSession
<1>5. Published' /\ (Wished' <=> Wished) /\ (Carries("PINGRESP") => Carries("PINGRESP")')
  <2>1. "SUBACK" \in PacketTypes /\ NoTopic \in (Topics \cup {NoTopic}) \ {"update"}
    BY DEF PacketTypes, NoTopic
  <2> QED
    BY <1>2, <1>4, <2>1, UnheardAppend
<1>6. Unharmed' /\ OnTheWay'
  BY <1>1, <1>2, <1>4, <1>5 DEF Unharmed, OnTheWay
<1>7. PingAnswered'
  <2>1. timers'.ping_sent = timers.ping_sent
    BY <1>4 DEF Sent, Timer
  <2> QED
    BY <1>2, <1>4, <1>5, <2>1 DEF PingAnswered
<1>8. Announced'
  <2>1. subscribing = 1 => "update" \notin subs'
    BY <1>1, <1>2, <1>4 DEF Announced, Subscriptions
  <2>2. subscribing = 2 => ~Wished'
    BY <1>1, <1>2, <1>5 DEF Announced, OnTheWay
  <2> QED
    BY <1>4, <2>1, <2>2 DEF Announced, AckFirst, Wished
<1> QED
  BY <1>5, <1>6, <1>7, <1>8 DEF UnheardInv

LEMMA UnheardConnect ==
  ASSUME UnheardInv, StopInv, Main \/ Connect \/ Tls, causes' = {}
  PROVE  UnheardInv'
<1>1. causes = {} /\ pc \in {"main", "connect", "tls"} /\ UNCHANGED <<caller, unheard>>
  BY DEF Main, Connect, Tls, Fault, history
<1>2. Published /\ Unharmed /\ OnTheWay /\ wire = <<>> /\ subs = {} /\ PingAnswered
  BY <1>1 DEF UnheardInv, Announced
<1>3. ~unheard /\ ~session.ping_outstanding
  BY <1>2 DEF OnTheWay, PingAnswered, Carries
<1>4. CASE Main \/ Connect
  <2>1. /\ pc' \in {"connect", "tls"} /\ wire' = <<>> /\ subs' = {} /\ session' = session
    BY <1>2, <1>4, <1>1 DEF Main, Connect, Fault, peer
  <2>2. Published' /\ ~Wished'
    BY <2>1 DEF Published, Wished
  <2> QED
    BY <1>1, <1>2, <1>3, <2>1, <2>2 DEF UnheardInv, Unharmed, OnTheWay, Announced, PingAnswered
<1>5. CASE Tls
  <2>1. wifi /\ client /\ network
    BY <1>1, <1>5 DEF StopInv, Tls
  <2>2. /\ socket' = "open" /\ mqtt_obj' /\ session' = NewSession /\ pc' = "connack"
        /\ wire' = <<Packet("CONNACK", NoTopic)>> /\ UNCHANGED <<client, network, subs>>
    BY <1>1, <1>5, <2>1 DEF Tls, Fault
  <2>3. \A i \in 1 .. Len(wire') : wire'[i].topic = NoTopic
    BY <2>2 DEF Packet
  <2>4. Published' /\ ~Wished'
    BY <2>3 DEF Published, Wished, NoTopic
  <2>5. ~session'.ping_outstanding
    BY <2>2 DEF NewSession, Session
  <2> QED
    BY <1>1, <1>2, <1>3, <2>1, <2>2, <2>4, <2>5
       DEF UnheardInv, Unharmed, OnTheWay, Announced, PingAnswered
<1> QED
  BY <1>4, <1>5

LEMMA UnheardApp ==
  ASSUME UnheardInv, DeafInv, WireOK, NEW topic \in Topics, AppSends(topic), causes' = {}
  PROVE  UnheardInv'
<1>1. /\ causes = {}
      /\ UNCHANGED <<pc, caller, subscribing, client, mqtt_obj, network, session, timers, socket, subs>>
  BY DEF AppSends, thread, objects
<1>2. Published /\ Unharmed /\ OnTheWay /\ Announced /\ PingAnswered
  BY <1>1 DEF UnheardInv
<1>3. CASE ~(topic \in subs /\ socket = "open")
  <2>1. wire' = wire /\ topic # "update"
    BY <1>3 DEF AppSends
  <2>2. unheard' => unheard
    BY <2>1 DEF AppSends
  <2> QED
    BY <1>1, <1>2, <2>1, <2>2 DEF UnheardInv, Published, Unharmed, OnTheWay, Wished, Announced,
                                  AckFirst, PingAnswered, Carries
<1>4. CASE topic \in subs /\ socket = "open"
  <2>1. wire' = Append(wire, Packet("PUBLISH", topic)) /\ unheard' = (unheard \/ topic = "update")
    BY <1>4 DEF AppSends
  <2>2. pc \notin {"main", "connect", "tls", "connack"}
    BY <1>2, <1>4 DEF Announced
  <2>3. CASE topic # "update"
    <3>1. "PUBLISH" \in PacketTypes /\ topic \in (Topics \cup {NoTopic}) \ {"update"}
      BY <2>3 DEF PacketTypes
    <3>2. /\ Published' /\ (Wished' <=> Wished)
          /\ Carries("PINGRESP") => Carries("PINGRESP")'
          /\ AckFirst => AckFirst'
      BY <1>2, <2>1, <3>1, UnheardAppend
    <3> QED
      BY <1>1, <1>2, <2>1, <2>2, <2>3, <3>2 DEF UnheardInv, Unharmed, OnTheWay, Announced, PingAnswered
  <2>4. CASE topic = "update"
    <3> DEFINE p == Packet("PUBLISH", topic)
    <3>1. p \in Packets /\ p.type = "PUBLISH" /\ p.topic = "update"
      BY <2>4, PacketTyped DEF PacketTypes, Packet
    <3> HIDE DEF p
    <3>2. /\ \A i \in 1 .. Len(wire) : i \in 1 .. Len(wire') /\ wire'[i] = wire[i]
          /\ \A i \in 1 .. Len(wire') : i \in 1 .. Len(wire) \/ (i = Len(wire) + 1 /\ wire'[i] = p)
          /\ Len(wire) + 1 \in 1 .. Len(wire') /\ wire'[Len(wire) + 1] = p
      BY <2>1, <3>1, AppendedWire DEF p
    <3>3. Published' /\ Wished' /\ PingAnswered'
      <4>1. Published'
        BY <1>2, <3>1, <3>2 DEF Published
      <4>2. Wished'
        BY <3>1, <3>2 DEF Wished
      <4>3. Carries("PINGRESP") => Carries("PINGRESP")'
        BY <3>2 DEF Carries
      <4> QED
        BY <1>1, <1>2, <4>1, <4>2, <4>3 DEF PingAnswered
    <3>4. pc \in {"suback", "subcallback"} => Carries("SUBACK")
      BY <1>1, <1>2, <2>2 DEF Unharmed, InSession, DeafInv, AtSuback
    <3>5. ASSUME pc \in {"suback", "subcallback"}, subscribing = 2, NEW i \in 1 .. Len(wire'),
                 wire'[i].topic = "update"
          PROVE  \E j \in 1 .. i - 1 : wire'[j].type = "SUBACK"
      <4>1. CASE i \in 1 .. Len(wire)
        <5>1. wire[i].topic = "update"
          BY <3>2, <3>5, <4>1
        <5>2. PICK j \in 1 .. i - 1 : wire[j].type = "SUBACK"
          BY <1>2, <3>5, <4>1, <5>1 DEF Announced, AckFirst
        <5>3. j \in 1 .. Len(wire)
          BY <4>1, <5>2 DEF WireOK
        <5> QED
          BY <3>2, <5>2, <5>3
      <4>2. CASE i = Len(wire) + 1
        <5>1. PICK j \in 1 .. Len(wire) : wire[j].type = "SUBACK"
          BY <3>4, <3>5 DEF Carries
        <5>2. j \in 1 .. i - 1
          BY <4>2, <5>1 DEF WireOK
        <5> QED
          BY <3>2, <5>1, <5>2
      <4> QED
        BY <3>2, <4>1, <4>2
    <3>6. Announced'
      BY <1>1, <1>2, <1>4, <2>2, <2>4, <3>5 DEF Announced, AckFirst
    <3> QED
      BY <1>1, <1>2, <1>4, <2>4, <3>3, <3>6 DEF UnheardInv, Unharmed, OnTheWay
  <2> QED
    BY <2>3, <2>4
<1> QED
  BY <1>3, <1>4

\* A step that leaves the first connection and the wire alone; the place in the loop may change.
LEMMA UnheardFrame ==
  ASSUME UnheardInv, causes \subseteq causes',
         UNCHANGED <<caller, client, mqtt_obj, network, session, timers, socket, wire, subs, unheard>>,
         \/ UNCHANGED <<pc, subscribing>>
         \/ pc' \in {"loop", "stream", "yield"} /\ pc \notin {"main", "connect", "tls"}
  PROVE  UnheardInv'
<1> SUFFICES ASSUME causes' = {} PROVE (Published /\ Unharmed /\ OnTheWay /\ Announced /\ PingAnswered)'
  BY DEF UnheardInv
<1>1. Published /\ Unharmed /\ OnTheWay /\ Announced /\ PingAnswered
  BY DEF UnheardInv
<1>2. Published' /\ (Wished' <=> Wished)
  BY <1>1 DEF Published, Wished
<1>3. PingAnswered'
  BY <1>1 DEF PingAnswered, Carries
<1>4. Announced'
  BY <1>1 DEF Announced, AckFirst
<1>5. Unharmed'
  BY <1>1 DEF Unharmed
<1> QED
  BY <1>1, <1>2, <1>3, <1>4, <1>5 DEF OnTheWay

LEMMA UnheardStep ==
  UnheardInv /\ StopInv /\ DeafInv /\ ThreadOK /\ SessionOK /\ WireOK /\ [Next]_vars => UnheardInv'
<1> SUFFICES ASSUME UnheardInv, StopInv, DeafInv, ThreadOK, SessionOK, WireOK, [Next]_vars,
                    causes' = {}
             PROVE  UnheardInv'
  BY DEF UnheardInv
<1>1. ASSUME causes = {}, pc \in {"get", "loop", "stream", "yield", "callback", "subcallback"}
      PROVE  InSession /\ session.isconnected /\ client /\ mqtt_obj
  BY <1>1 DEF UnheardInv, Unharmed, InSession, DeafInv, AtTurn, AtSubscribe
<1>2. ASSUME NEW topic \in {"get", "status", "metadata"}, NEW to \in {"loop", "stream", "yield", "suback"},
             NEW after, awsiot_publish(topic, to, after), UNCHANGED <<client, unheard, causes>>,
             \/ to # "suback" /\ pc \in {"get", "loop", "callback"}
             \/ to = "suback" /\ pc = "subcallback"
      PROVE  UnheardInv'
  <2>1. InSession /\ session.isconnected /\ client
    BY <1>1, <1>2
  <2>2. Publish(topic)
    BY <1>2, <2>1 DEF awsiot_publish
  <2>3. Publishable
    BY <2>1, <2>2, PublishInSession
  <2>4. pc' = to /\ UNCHANGED <<caller, subscribing, network>>
    BY <1>2, <2>1, <2>3 DEF awsiot_publish
  <2> QED
    BY <1>2, <2>1, <2>2, <2>4, UnheardPublish
<1>3. CASE WaitForNetwork \/ Refused \/ Under
  BY <1>3 DEF WaitForNetwork, Refused, Under, UnheardInv, Unharmed, history
<1>4. CASE Get
  BY <1>2, <1>4 DEF Get, history
<1>5. CASE PublishShadow
  <2>1. CASE shadow_status
    BY <1>2, <1>5, <2>1 DEF PublishShadow, history
  <2>2. CASE ~shadow_status
    BY <1>5, <2>2, UnheardFrame DEF PublishShadow, history, peer
  <2> QED
    BY <2>1, <2>2
<1>6. CASE PublishStream
  <2>0. pc = "stream" /\ causes = {} /\ UNCHANGED <<client, caller, subscribing, unheard>>
    BY <1>6 DEF PublishStream
  <2>1. CASE sound = 0
    BY <1>6, <2>0, <2>1, UnheardFrame DEF PublishStream, peer
  <2>2. CASE sound # 0
    <3>1. InSession /\ session.isconnected /\ client
      BY <1>1, <2>0
    <3>2. Publish("stream")
      BY <1>6, <2>2 DEF PublishStream
    <3>3. Publishable
      BY <3>1, <3>2, PublishInSession
    <3>4. pc' = "stream"
      BY <1>6, <2>2, <3>1, <3>3 DEF PublishStream
    <3>5. network /\ network'
      <4>1. network
        BY <2>0 DEF UnheardInv, Unharmed
      <4> QED
        BY <1>6, <2>2, <3>3, <4>1 DEF PublishStream
    <3>6. network' = network
      BY <1>6, <2>2, <3>3, <3>5 DEF PublishStream
    <3> QED
      BY <2>0, <3>1, <3>2, <3>4, <3>6, UnheardPublish
  <2> QED
    BY <2>1, <2>2
<1>7. CASE Callback
  <2>1. causes = {} /\ UNCHANGED <<client, unheard>>
    BY <1>7 DEF Callback
  <2>2. awsiot_publish("metadata", IF pc = "callback" THEN "yield" ELSE "suback", "under")
    BY <1>7 DEF Callback
  <2>3. CASE pc = "callback"
    BY <1>2, <2>1, <2>2, <2>3
  <2>4. CASE pc = "subcallback"
    BY <1>2, <2>1, <2>2, <2>4
  <2> QED
    BY <1>7, <2>3, <2>4 DEF Callback
<1>8. CASE YieldDisconnected
  <2>1. causes = {} /\ pc = "yield" /\ ~mqtt_obj
    BY <1>8 DEF YieldDisconnected, history
  <2> QED
    BY <1>1, <2>1
<1>9. CASE Press \/ Record \/ WifiReturns \/ UNCHANGED vars
  BY <1>9, UnheardFrame DEF Press, Record, WifiReturns, vars, thread, objects, peer, history
<1>10. CASE WifiFails \/ \E state \in Sockets : SocketFails(state)
  BY <1>10 DEF WifiFails, SocketFails, Fault
<1> QED
  BY <1>3, <1>4, <1>5, <1>6, <1>7, <1>8, <1>9, <1>10, UnheardConnect, UnheardConnack, UnheardSubscribe,
     UnheardSuback, UnheardYield, UnheardApp DEF Next, Thread, Environment

\* What the app wants reaches the board, also when it asks while the board subscribes, as long
\* as nothing has gone wrong: a wish that has not been heard is still on its way (the callbacks
\* of /update/accepted, called from yield and from subscribe).
THEOREM WishesHeard == Spec => []UnheardOnlyFor
<1> DEFINE IInv == UnheardInv /\ StopInv /\ DeafInv /\ ThreadOK /\ SessionOK /\ WireOK
<1>1. Init => IInv
  BY InitUnheard, InitStop, InitDeaf, InitTypes
<1>2. IInv /\ [Next]_vars => IInv'
  BY UnheardStep, StopStep, DeafStep, ThreadStep, SessionStep, WireStep
<1>3. ASSUME UnheardInv, WireOK, unheard, causes = {}
      PROVE  Packet("PUBLISH", "update") \in {wire[i] : i \in 1 .. Len(wire)}
  <2>1. PICK i \in 1 .. Len(wire) : wire[i].topic = "update"
    BY <1>3 DEF UnheardInv, OnTheWay, Wished
  <2>2. wire[i] \in Packets /\ wire[i].type = "PUBLISH"
    BY <1>3, <2>1 DEF UnheardInv, Published, NoTopic, WireOK
  <2>3. wire[i] = Packet("PUBLISH", "update")
    BY <2>1, <2>2 DEF Packets, Packet
  <2> QED
    BY <2>3
<1>4. IInv => UnheardOnlyFor
  BY <1>3 DEF UnheardOnlyFor
<1> QED
  BY <1>1, <1>2, <1>4, PTL DEF Spec
=============================================================================
