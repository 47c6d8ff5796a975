----------------------------- MODULE MqttClient -----------------------------
(***************************************************************************)
(* The MQTT client the board uses (aws-iot/MQTT/MQTT/MQTTClient.h, the Paho *)
(* client for embedded C++), as operators on the state of one client        *)
(* object: its session, its message handlers and its keep-alive timers. One *)
(* request is in process at a time; what a request may find on the socket   *)
(* is the argument "packet".                                                *)
(*                                                                         *)
(* Messages are published and delivered at QoS 0, as the board asks.        *)
(***************************************************************************)
EXTENDS Integers

CONSTANTS
  KeepAlive,          \* the keep-alive interval in reads that time out
  MaxMessageHandlers  \* MAX_MESSAGE_HANDLERS, 5

ASSUME KeepAliveAssumption == KeepAlive \in Nat \ {0}
\* A slot for each of the four topics: the code has five.
ASSUME HandlersAssumption == MaxMessageHandlers \in Nat /\ MaxMessageHandlers >= 4

Topics == {"get", "update", "productmetadata", "transcript"}
NoTopic == "-"
\* setMessageHandler keeps a pointer to the topic: what is read there when the string is gone.
Garbage == "?"
Slots == 1 .. MaxMessageHandlers

\* readPacket: the type of what was read; nothing within the timeout; an error of the
\* socket; a packet too long for readbuf; or a packet of which the rest did not come in
\* time: the result is then that of the first read, 1, the type of a CONNECT.
PacketTypes == {"CONNACK", "SUBACK", "PUBLISH", "PINGRESP"}
Reads == PacketTypes \cup {"none", "error", "overflow", "short"}

\* The fields of a client object. Timers count reads that have timed out.
Sessions == [isconnected : BOOLEAN, messageHandlers : [Slots -> Topics \cup {NoTopic, Garbage}],
             ping_outstanding : BOOLEAN]
Session(connected, handlers, outstanding) ==
  [isconnected |-> connected, messageHandlers |-> handlers, ping_outstanding |-> outstanding]
Timers == [last_sent : 0 .. KeepAlive, last_received : 0 .. KeepAlive, ping_sent : 0 .. KeepAlive]
Timer(sent, received, ping) == [last_sent |-> sent, last_received |-> received, ping_sent |-> ping]

Expired(n) == n >= KeepAlive

Older(n) == IF n < KeepAlive THEN n + 1 ELSE n

Sent(t) == Timer(0, t.last_received, t.ping_sent)

Passed(t) == Timer(Older(t.last_sent), Older(t.last_received), Older(t.ping_sent))

\* The constructor, cleanSession and closeSession (cleansession is set).
NoHandlers == [i \in Slots |-> NoTopic]
NewSession == Session(FALSE, NoHandlers, FALSE)
closeSession(s) == NewSession

Handled(s) == {s.messageHandlers[i] : i \in Slots} \ {NoTopic, Garbage}

Empty(s) == {i \in Slots : s.messageHandlers[i] = NoTopic}
FirstEmpty(s) == CHOOSE i \in Empty(s) : \A j \in Empty(s) : i <= j

\* A slip of setMessageHandler: the first slot is used for any topic.
SetFirstHandler(s, topic) ==
  Session(s.isconnected, [s.messageHandlers EXCEPT ![1] = topic], s.ping_outstanding)

\* setMessageHandler with a handler: the slot of the topic, or the first empty one.
setMessageHandler(s, topic) ==
  IF topic \in Handled(s) \/ Empty(s) = {} THEN s
  ELSE Session(s.isconnected, [s.messageHandlers EXCEPT ![FirstEmpty(s)] = topic], s.ping_outstanding)

\* The string of a topic goes out of scope.
Forget(s, topic) ==
  Session(s.isconnected,
          [i \in Slots |-> IF s.messageHandlers[i] = topic THEN Garbage ELSE s.messageHandlers[i]],
          s.ping_outstanding)

\* keepalive: whether a ping is sent, and whether it fails. writable: sendPacket succeeds.
PingDue(s, t) == ~s.ping_outstanding /\ (Expired(t.last_sent) \/ Expired(t.last_received))

\* A slip of KeepAliveFails: that a ping has not been answered is not noticed.
KeepAliveHopes(s, t, writable) == PingDue(s, t) /\ ~writable

KeepAliveFails(s, t, writable) ==
  \/ s.ping_outstanding /\ Expired(t.ping_sent)
  \/ PingDue(s, t) /\ ~writable

\* cycle: read a packet, deal with it, keep alive. A result of the default case, good or
\* bad, closes the session; only a negative one is told to the caller as a failure. The
\* callback of a PUBLISH is the caller's.
cycle(s, t, packet, writable) ==
  LET t1 == CASE packet \in PacketTypes -> Timer(t.last_sent, 0, t.ping_sent)
              [] packet = "none" -> Passed(t)
              [] OTHER -> t
      s1 == IF packet = "PINGRESP" THEN Session(s.isconnected, s.messageHandlers, FALSE) ELSE s
      pings == PingDue(s1, t1)
      closed == IF s1.isconnected THEN closeSession(s1) ELSE s1
  IN  CASE packet \in {"error", "overflow", "short"} ->
             [session |-> closed, timers |-> t1, pings |-> FALSE,
              result |-> IF packet = "short" THEN "other" ELSE "failure"]
        [] packet \in PacketTypes \cup {"none"} /\ KeepAliveFails(s1, t1, writable) ->
             [session |-> closed, timers |-> t1, pings |-> FALSE, result |-> "failure"]
        [] OTHER ->
             [session |-> IF pings THEN Session(s1.isconnected, s1.messageHandlers, TRUE) ELSE s1,
              timers |-> IF pings THEN Timer(0, t1.last_received, 0) ELSE t1,
              pings |-> pings, result |-> packet]
=============================================================================
