--------------------------- MODULE Pairing_proofs ---------------------------
(***************************************************************************)
(* Theorems about Pairing for any apps and any bounds: types, the owner of  *)
(* a quiet board, who is accepted, and who is asked.                        *)
(***************************************************************************)
EXTENDS Pairing, TLAPS

\* What holds of one app and its inbox whatever has happened: an app that is off has nothing
\* on its screen and no subscription; only a UUID the app has made is ever asked with.
Answered(s) == \E i \in DOMAIN s : s[i].topic = "metadata"
Asking(p, s) == p.dialog \in {"dsn", "code"} \/ "metadata" \in p.subs \/ Answered(s)

PhoneOK(p, s) ==
  /\ ~p.on => p.subs = {} /\ ~p.sleeping /\ p.dialog = "none"
  /\ p.sleeping => p.dialog = "ok"
  /\ Asking(p, s) => p.uuid >= 1

PhonesOK == \A a \in Apps : PhoneOK(phone[a], toApp[a])

\* The last document in the inbox says h; no document is there.
Told(s, h) ==
  \E i \in DOMAIN s : /\ s[i].topic # "metadata" /\ s[i].hash = h
                      /\ \A j \in DOMAIN s : j > i => s[j].topic = "metadata"
NoneLeft(s) == \A i \in DOMAIN s : s[i].topic = "metadata"

\* An app that listens and is not asleep will read the hash of the document, or there is no
\* message of one left and the document has no hash or the passcode of the app.
OwnerOK(p, s, h) ==
  p.on /\ "get" \in p.subs /\ ~p.sleeping
    => Told(s, h) \/ (NoneLeft(s) /\ h \in {NoOne, p.passcode})

OwnerInv == \A a \in Apps \ missed : OwnerOK(phone[a], toApp[a], hash)

\* A request of the app is on its way to the board.
IsRequest(m, a) == m.requests = "ios_pairing" /\ m.ours /\ m.uuid.app = a
IsConfirm(m, a) == m.requests = "ios_paired" /\ m.uuid.app = a
Asked(q, a) == \E i \in DOMAIN q : IsRequest(q[i], a)

\* An app that is on knows the shadow, is about to, asks its user, or its request is on its
\* way or answered.
PromptOK(p, s, asked) ==
  p.on => \/ "get" \in p.subs \/ p.sleeping \/ p.dialog \in {"dsn", "code"}
          \/ "metadata" \in p.subs /\ p.dialog = "none" /\ (asked \/ Answered(s))

PromptInv == \A a \in Apps \ unprompted : PromptOK(phone[a], toApp[a], Asked(toBoard, a))

\* One request at most was answered, nothing failed, nobody erred, and no hash is stored: what
\* the facts below need.
Plain == codes <= 1 /\ faults = 0 /\ mistakes = 0 /\ hash = NoOne

\* The request of the app is in front of its confirmation.
Pending(q, a) ==
  \E i \in DOMAIN q : IsRequest(q[i], a) /\ \A j \in DOMAIN q : j < i => ~IsConfirm(q[j], a)
Confirming(q, a) == \E i \in DOMAIN q : IsConfirm(q[i], a)

\* An app that got beyond the number has that of the board, and only then codes and messages.
FirstPhone(p, c) ==
  /\ p.dsn \in {"none", "ours"}
  /\ p.dialog = "dsn" => p.dsn = "none"
  /\ p.dialog = "code" => p.dsn = "ours" /\ p.auth >= 1 /\ p.auth <= c
  /\ "metadata" \in p.subs => p.dsn = "ours"
  /\ p.saved.things => p.dsn = "ours" /\ c >= 1
  /\ ~p.on => p.dsn = "none"

\* What is in its inbox: codes of this board, and documents without a hash.
FirstInbox(p, s, c) ==
  \A i \in DOMAIN s : IF s[i].topic = "metadata"
                      THEN p.dsn = "ours" /\ s[i].code >= 1 /\ s[i].code <= c
                      ELSE s[i].hash = NoOne

\* What is on its way to the board was sent by an app with the UUID it still has.
FirstMessage(m, ph, c) ==
  /\ m.ours
  /\ m.uuid.n = ph[m.uuid.app].uuid
  /\ ph[m.uuid.app].dsn = "ours"
  /\ m.requests = "ios_paired" => m.hash # NoOne /\ c >= 1

FirstBoard(q, ph, c) == \A i \in DOMAIN q : FirstMessage(q[i], ph, c)

\* The app whose request was served, or one whose request comes before its confirmation.
Served(a) == codes = 1 /\ uuid = Made(a, phone[a].uuid)

\* Who knows the board has been served or will be; who was accepted confirms, or the update
\* with the hash waits.
FirstFacts ==
  /\ \A a \in Apps : FirstPhone(phone[a], codes) /\ FirstInbox(phone[a], toApp[a], codes)
  /\ FirstBoard(toBoard, phone, codes)
  /\ \A a \in Apps : phone[a].dsn = "ours" => Served(a) \/ Pending(toBoard, a)
  /\ \A a \in Apps : phone[a].saved.things => waiting # NoOne \/ Confirming(toBoard, a)

FirstInv == Plain => FirstFacts

----------------------------------------------------------------------------
(* Queues                                                                   *)

\* What Append adds and Tail leaves, place by place.
LEMMA AppendPlaces ==
  ASSUME NEW S, NEW s \in Seq(S), NEW m \in S
  PROVE  /\ Append(s, m) \in Seq(S)
         /\ Len(Append(s, m)) = Len(s) + 1 /\ Len(s) \in Nat
         /\ DOMAIN s = 1 .. Len(s)
         /\ DOMAIN Append(s, m) = 1 .. Len(s) + 1
         /\ \A i \in 1 .. Len(s) : Append(s, m)[i] = s[i]
         /\ Append(s, m)[Len(s) + 1] = m
  OBVIOUS

LEMMA TailPlaces ==
  ASSUME NEW S, NEW s \in Seq(S), s # <<>>
  PROVE  /\ Tail(s) \in Seq(S) /\ Head(s) \in S /\ Head(s) = s[1]
         /\ Len(s) \in Nat \ {0} /\ Len(Tail(s)) = Len(s) - 1
         /\ DOMAIN s = 1 .. Len(s)
         /\ DOMAIN Tail(s) = 1 .. Len(s) - 1
         /\ \A i \in 1 .. Len(s) - 1 : Tail(s)[i] = s[i + 1]
  OBVIOUS

\* A document at the end of an inbox is the last one.
LEMMA ToldLast ==
  ASSUME NEW S, NEW s \in Seq(S), NEW m \in S, m.topic # "metadata"
  PROVE  Told(Append(s, m), m.hash)
<1>1. /\ DOMAIN Append(s, m) = 1 .. Len(s) + 1 /\ Len(s) \in Nat
      /\ Append(s, m)[Len(s) + 1] = m
  BY AppendPlaces
<1> QED
  BY <1>1 DEF Told

\* The answer to a request leaves the documents of an inbox as they are.
LEMMA MetadataLast ==
  ASSUME NEW S, NEW s \in Seq(S), NEW m \in S, m.topic = "metadata", NEW h
  PROVE  /\ Told(s, h) => Told(Append(s, m), h)
         /\ NoneLeft(s) => NoneLeft(Append(s, m))
<1>1. /\ DOMAIN s = 1 .. Len(s) /\ Len(s) \in Nat
      /\ DOMAIN Append(s, m) = 1 .. Len(s) + 1
      /\ \A i \in 1 .. Len(s) : Append(s, m)[i] = s[i]
      /\ Append(s, m)[Len(s) + 1] = m
  BY AppendPlaces
<1>2. ASSUME Told(s, h) PROVE Told(Append(s, m), h)
  <2>1. PICK i \in 1 .. Len(s) :
          /\ s[i].topic # "metadata" /\ s[i].hash = h
          /\ \A j \in 1 .. Len(s) : j > i => s[j].topic = "metadata"
    BY <1>1, <1>2 DEF Told
  <2>2. Append(s, m)[i] = s[i] /\ i \in DOMAIN Append(s, m)
    BY <1>1
  <2>3. \A j \in DOMAIN Append(s, m) : j > i => Append(s, m)[j].topic = "metadata"
    <3> SUFFICES ASSUME NEW j \in 1 .. Len(s) + 1, j > i
                 PROVE  Append(s, m)[j].topic = "metadata"
      BY <1>1
    <3>1. CASE j = Len(s) + 1
      BY <1>1, <3>1
    <3>2. CASE j # Len(s) + 1
      BY <1>1, <2>1, <3>2
    <3> QED
      BY <3>1, <3>2
  <2> QED
    BY <2>1, <2>2, <2>3 DEF Told
<1>3. ASSUME NoneLeft(s) PROVE NoneLeft(Append(s, m))
  <2> SUFFICES ASSUME NEW j \in 1 .. Len(s) + 1
               PROVE  Append(s, m)[j].topic = "metadata"
    BY <1>1 DEF NoneLeft
  <2>1. CASE j = Len(s) + 1
    BY <1>1, <2>1
  <2>2. CASE j # Len(s) + 1
    BY <1>1, <1>3, <2>2 DEF NoneLeft
  <2> QED
    BY <2>1, <2>2
<1> QED
  BY <1>2, <1>3

\* Taking the first message of an inbox.
LEMMA InboxTaken ==
  ASSUME NEW S, NEW s \in Seq(S), s # <<>>, NEW h
  PROVE  /\ NoneLeft(s) => NoneLeft(Tail(s)) /\ Head(s).topic = "metadata"
         /\ Told(s, h) => \/ Told(Tail(s), h)
                          \/ NoneLeft(Tail(s)) /\ Head(s).hash = h /\ Head(s).topic # "metadata"
         /\ Answered(s) => Answered(Tail(s)) \/ Head(s).topic = "metadata"
<1>1. /\ Head(s) = s[1] /\ Len(s) \in Nat \ {0}
      /\ DOMAIN s = 1 .. Len(s) /\ DOMAIN Tail(s) = 1 .. Len(s) - 1
      /\ \A i \in 1 .. Len(s) - 1 : Tail(s)[i] = s[i + 1]
  BY TailPlaces
<1>2. ASSUME NoneLeft(s) PROVE NoneLeft(Tail(s)) /\ Head(s).topic = "metadata"
  BY <1>1, <1>2 DEF NoneLeft
<1>3. ASSUME Told(s, h)
      PROVE  \/ Told(Tail(s), h)
             \/ NoneLeft(Tail(s)) /\ Head(s).hash = h /\ Head(s).topic # "metadata"
  <2>1. PICK i \in 1 .. Len(s) :
          /\ s[i].topic # "metadata" /\ s[i].hash = h
          /\ \A j \in 1 .. Len(s) : j > i => s[j].topic = "metadata"
    BY <1>1, <1>3 DEF Told
  <2>2. CASE i = 1
    <3>1. NoneLeft(Tail(s))
      BY <1>1, <2>1, <2>2 DEF NoneLeft
    <3> QED
      BY <1>1, <2>1, <2>2, <3>1
  <2>3. CASE i # 1
    <3>1. PICK k \in 1 .. Len(s) - 1 : k = i - 1
      BY <1>1, <2>3
    <3>2. Tail(s)[k] = s[i]
      BY <1>1, <3>1
    <3>3. \A j \in 1 .. Len(s) - 1 : j > k => Tail(s)[j].topic = "metadata"
      BY <1>1, <2>1, <3>1
    <3> QED
      BY <1>1, <2>1, <3>2, <3>3 DEF Told
  <2> QED
    BY <2>2, <2>3
<1>4. ASSUME Answered(s) PROVE Answered(Tail(s)) \/ Head(s).topic = "metadata"
  <2>1. PICK i \in 1 .. Len(s) : s[i].topic = "metadata"
    BY <1>1, <1>4 DEF Answered
  <2>2. CASE i = 1
    BY <1>1, <2>1, <2>2
  <2>3. CASE i # 1
    <3>1. PICK k \in 1 .. Len(s) - 1 : k = i - 1
      BY <1>1, <2>3
    <3>2. Tail(s)[k] = s[i]
      BY <1>1, <3>1
    <3> QED
      BY <1>1, <2>1, <3>2 DEF Answered
  <2> QED
    BY <2>2, <2>3
<1> QED
  BY <1>2, <1>3, <1>4

LEMMA InboxGrows ==
  ASSUME NEW S, NEW s \in Seq(S), NEW m \in S
  PROVE  /\ Answered(s) => Answered(Append(s, m))
         /\ m.topic = "metadata" => Answered(Append(s, m))
<1>1. /\ DOMAIN s = 1 .. Len(s) /\ Len(s) \in Nat
      /\ DOMAIN Append(s, m) = 1 .. Len(s) + 1
      /\ \A i \in 1 .. Len(s) : Append(s, m)[i] = s[i]
      /\ Append(s, m)[Len(s) + 1] = m
  BY AppendPlaces
<1>2. ASSUME Answered(s) PROVE Answered(Append(s, m))
  <2>1. PICK i \in 1 .. Len(s) : s[i].topic = "metadata"
    BY <1>1, <1>2 DEF Answered
  <2>2. i \in 1 .. Len(s) + 1 /\ Append(s, m)[i].topic = "metadata"
    BY <1>1, <2>1
  <2> QED
    BY <1>1, <2>2 DEF Answered
<1>3. ASSUME m.topic = "metadata" PROVE Answered(Append(s, m))
  <2>1. Len(s) + 1 \in 1 .. Len(s) + 1
    BY <1>1
  <2> QED
    BY <1>1, <1>3, <2>1 DEF Answered
<1> QED
  BY <1>2, <1>3

\* What the apps have sent, when one more message is sent.
LEMMA QueueGrows ==
  ASSUME NEW S, NEW q \in Seq(S), NEW m \in S, NEW a
  PROVE  /\ Asked(q, a) => Asked(Append(q, m), a)
         /\ IsRequest(m, a) => Asked(Append(q, m), a)
         /\ Pending(q, a) => Pending(Append(q, m), a)
         /\ IsRequest(m, a) /\ ~Confirming(q, a) => Pending(Append(q, m), a)
         /\ Confirming(q, a) => Confirming(Append(q, m), a)
         /\ IsConfirm(m, a) => Confirming(Append(q, m), a)
<1>1. /\ DOMAIN q = 1 .. Len(q) /\ Len(q) \in Nat
      /\ DOMAIN Append(q, m) = 1 .. Len(q) + 1
      /\ \A i \in 1 .. Len(q) : Append(q, m)[i] = q[i]
      /\ Append(q, m)[Len(q) + 1] = m
      /\ Len(q) + 1 \in 1 .. Len(q) + 1
  BY AppendPlaces
<1>2. ASSUME Asked(q, a) PROVE Asked(Append(q, m), a)
  <2>1. PICK i \in 1 .. Len(q) : IsRequest(q[i], a)
    BY <1>1, <1>2 DEF Asked
  <2>2. i \in 1 .. Len(q) + 1 /\ Append(q, m)[i] = q[i]
    BY <1>1
  <2> QED
    BY <1>1, <2>1, <2>2 DEF Asked
<1>3. ASSUME Pending(q, a) PROVE Pending(Append(q, m), a)
  <2>1. PICK i \in 1 .. Len(q) :
          IsRequest(q[i], a) /\ \A j \in 1 .. Len(q) : j < i => ~IsConfirm(q[j], a)
    BY <1>1, <1>3 DEF Pending
  <2>2. i \in 1 .. Len(q) + 1 /\ Append(q, m)[i] = q[i]
    BY <1>1
  <2>3. ASSUME NEW j \in 1 .. Len(q) + 1, j < i PROVE ~IsConfirm(Append(q, m)[j], a)
    <3>1. j \in 1 .. Len(q) /\ Append(q, m)[j] = q[j]
      BY <1>1, <2>3
    <3> QED
      BY <2>1, <2>3, <3>1
  <2> QED
    BY <1>1, <2>1, <2>2, <2>3 DEF Pending
<1>4. ASSUME IsRequest(m, a), ~Confirming(q, a) PROVE Pending(Append(q, m), a)
  <2>1. ASSUME NEW j \in 1 .. Len(q) + 1, j < Len(q) + 1 PROVE ~IsConfirm(Append(q, m)[j], a)
    <3>1. j \in 1 .. Len(q) /\ Append(q, m)[j] = q[j]
      BY <1>1, <2>1
    <3> QED
      BY <1>1, <1>4, <3>1 DEF Confirming
  <2> QED
    BY <1>1, <1>4, <2>1 DEF Pending
<1>5. ASSUME Confirming(q, a) PROVE Confirming(Append(q, m), a)
  <2>1. PICK i \in 1 .. Len(q) : IsConfirm(q[i], a)
    BY <1>1, <1>5 DEF Confirming
  <2>2. i \in 1 .. Len(q) + 1 /\ Append(q, m)[i] = q[i]
    BY <1>1
  <2> QED
    BY <1>1, <2>1, <2>2 DEF Confirming
<1>6. IsRequest(m, a) => Asked(Append(q, m), a)
  BY <1>1 DEF Asked
<1>7. IsConfirm(m, a) => Confirming(Append(q, m), a)
  BY <1>1 DEF Confirming
<1> QED
  BY <1>2, <1>3, <1>4, <1>5, <1>6, <1>7

\* ... and when the board takes the first.
LEMMA QueueTaken ==
  ASSUME NEW S, NEW q \in Seq(S), q # <<>>, NEW a
  PROVE  /\ Asked(q, a) => IsRequest(Head(q), a) \/ Asked(Tail(q), a)
         /\ Pending(q, a) => IsRequest(Head(q), a) \/ Pending(Tail(q), a)
         /\ Pending(q, a) => ~IsConfirm(Head(q), a)
         /\ Confirming(q, a) => IsConfirm(Head(q), a) \/ Confirming(Tail(q), a)
<1>1. /\ Head(q) = q[1] /\ Len(q) \in Nat \ {0}
      /\ DOMAIN q = 1 .. Len(q) /\ DOMAIN Tail(q) = 1 .. Len(q) - 1
      /\ \A i \in 1 .. Len(q) - 1 : Tail(q)[i] = q[i + 1]
  BY TailPlaces
<1>2. ASSUME Asked(q, a) PROVE IsRequest(Head(q), a) \/ Asked(Tail(q), a)
  <2>1. PICK i \in 1 .. Len(q) : IsRequest(q[i], a)
    BY <1>1, <1>2 DEF Asked
  <2>2. CASE i = 1
    BY <1>1, <2>1, <2>2
  <2>3. CASE i # 1
    <3>1. PICK k \in 1 .. Len(q) - 1 : k = i - 1
      BY <1>1, <2>3
    <3>2. Tail(q)[k] = q[i]
      BY <1>1, <3>1
    <3> QED
      BY <1>1, <2>1, <3>2 DEF Asked
  <2> QED
    BY <2>2, <2>3
<1>3. ASSUME Confirming(q, a) PROVE IsConfirm(Head(q), a) \/ Confirming(Tail(q), a)
  <2>1. PICK i \in 1 .. Len(q) : IsConfirm(q[i], a)
    BY <1>1, <1>3 DEF Confirming
  <2>2. CASE i = 1
    BY <1>1, <2>1, <2>2
  <2>3. CASE i # 1
    <3>1. PICK k \in 1 .. Len(q) - 1 : k = i - 1
      BY <1>1, <2>3
    <3>2. Tail(q)[k] = q[i]
      BY <1>1, <3>1
    <3> QED
      BY <1>1, <2>1, <3>2 DEF Confirming
  <2> QED
    BY <2>2, <2>3
<1>4. ASSUME Pending(q, a)
      PROVE  (IsRequest(Head(q), a) \/ Pending(Tail(q), a)) /\ ~IsConfirm(Head(q), a)
  <2>1. PICK i \in 1 .. Len(q) :
          IsRequest(q[i], a) /\ \A j \in 1 .. Len(q) : j < i => ~IsConfirm(q[j], a)
    BY <1>1, <1>4 DEF Pending
  <2>2. CASE i = 1
    BY <1>1, <2>1, <2>2 DEF IsRequest, IsConfirm
  <2>3. CASE i # 1
    <3>1. PICK k \in 1 .. Len(q) - 1 : k = i - 1
      BY <1>1, <2>3
    <3>2. Tail(q)[k] = q[i] /\ ~IsConfirm(q[1], a)
      BY <1>1, <2>1, <2>3, <3>1
    <3>3. ASSUME NEW j \in 1 .. Len(q) - 1, j < k PROVE ~IsConfirm(Tail(q)[j], a)
      BY <1>1, <2>1, <3>1, <3>3
    <3> QED
      BY <1>1, <2>1, <3>2, <3>3 DEF Pending
  <2> QED
    BY <2>2, <2>3
<1> QED
  BY <1>2, <1>3, <1>4

----------------------------------------------------------------------------
(* Phones                                                                   *)

\* The fields that the dialogs and aws_iot_disconnected leave alone.
SameBody(q, p) ==
  /\ q.on = p.on /\ q.dsn = p.dsn /\ q.sleeping = p.sleeping
  /\ q.things = p.things /\ q.passcode = p.passcode /\ q.saved = p.saved /\ q.got = p.got

LEMMA SomeUuids ==
  /\ MaxUuids \in Nat /\ MaxCodes \in Nat /\ MaxPasscodes \in Nat
  /\ MaxTrouble \in Nat /\ MaxInFlight \in Nat
  BY BoundAssumption DEF MaxUuids

\* What a prompt changes.
LEMMA PromptedFields ==
  ASSUME NEW p \in PhoneType, NEW d \in {"dsn", "code"}
  PROVE  /\ Prompted(p, d) \in PhoneType /\ SameBody(Prompted(p, d), p)
         /\ Prompted(p, d).uuid = p.uuid /\ Prompted(p, d).auth = p.auth
         /\ Prompted(p, d).subs = p.subs
         /\ p.dialog = "none" => Prompted(p, d).dialog = d
         /\ p.dialog # "none" => Prompted(p, d).dialog = p.dialog
<1>1. CASE p.dialog = "none"
  BY <1>1 DEF Prompted, PhoneType, SameBody
<1>2. CASE p.dialog # "none"
  BY <1>2 DEF Prompted, PhoneType, SameBody
<1> QED
  BY <1>1, <1>2

\* What aws_iot_pairing changes.
LEMMA PairingFields ==
  ASSUME NEW p \in PhoneType, p.uuid < MaxUuids
  PROVE  /\ aws_iot_pairing(p) \in PhoneType /\ SameBody(aws_iot_pairing(p), p)
         /\ aws_iot_pairing(p).uuid = p.uuid + 1 /\ aws_iot_pairing(p).auth = p.auth
         /\ aws_iot_pairing(p).subs = p.subs
         /\ p.dialog = "none" => aws_iot_pairing(p).dialog = "dsn"
         /\ p.dialog # "none" => aws_iot_pairing(p).dialog = p.dialog
<1>1. PICK q : q = [p EXCEPT !.uuid = p.uuid + 1]
  OBVIOUS
<1>2. p.uuid + 1 \in 0 .. MaxUuids
  BY SomeUuids DEF PhoneType
<1>3. /\ q \in PhoneType /\ SameBody(q, p)
      /\ q.uuid = p.uuid + 1 /\ q.auth = p.auth /\ q.subs = p.subs /\ q.dialog = p.dialog
  BY <1>1, <1>2 DEF PhoneType, SameBody
<1>4. aws_iot_pairing(p) = Prompted(q, "dsn")
  BY <1>1 DEF aws_iot_pairing
<1>5. /\ Prompted(q, "dsn") \in PhoneType /\ SameBody(Prompted(q, "dsn"), q)
      /\ Prompted(q, "dsn").uuid = q.uuid /\ Prompted(q, "dsn").auth = q.auth
      /\ Prompted(q, "dsn").subs = q.subs
      /\ q.dialog = "none" => Prompted(q, "dsn").dialog = "dsn"
      /\ q.dialog # "none" => Prompted(q, "dsn").dialog = q.dialog
  BY <1>3, PromptedFields
<1> QED
  BY <1>3, <1>4, <1>5 DEF SameBody

\* What aws_iot_disconnected changes.
LEMMA DisconnectedFields ==
  ASSUME NEW p \in PhoneType
  PROVE  /\ aws_iot_disconnected(p) \in PhoneType /\ SameBody(aws_iot_disconnected(p), p)
         /\ aws_iot_disconnected(p).uuid = p.uuid /\ aws_iot_disconnected(p).auth = p.auth
         /\ aws_iot_disconnected(p).dialog = p.dialog
         /\ aws_iot_disconnected(p).subs = p.subs \ {"metadata", "transcript", "get"}
<1>1. p.subs \ {"metadata", "transcript", "get"} \in SUBSET Topics
  BY DEF PhoneType
<1> QED
  BY <1>1 DEF aws_iot_disconnected, PhoneType, SameBody

LEMMA MessageTypes ==
  ASSUME NEW m \in Metadata \cup Documents
  PROVE  /\ m.topic = "metadata" => m \in Metadata /\ m.code \in 1 .. MaxCodes
         /\ m.topic # "metadata" => m \in Documents /\ m.hash \in Hashes
  BY DEF Metadata, Documents

LEMMA DocumentType ==
  ASSUME NEW t \in {"get", "update"}, NEW h \in Hashes
  PROVE  /\ Document(t, h) \in Documents
         /\ Document(t, h).topic = t /\ Document(t, h).topic # "metadata"
         /\ Document(t, h).hash = h
  BY DEF Document, Documents

----------------------------------------------------------------------------
(* What the operations do to the phones                                     *)

\* The app has answered, or been told, something: its phone is new and the others are not.
Turned(a, q) ==
  /\ q \in PhoneType
  /\ phone' = [phone EXCEPT ![a] = q]
  /\ phone' \in [Apps -> PhoneType]
  /\ phone'[a] = q
  /\ \A b \in Apps : b # a => phone'[b] = phone[b]

LEMMA TurnedIf ==
  ASSUME TypeOK, NEW a \in Apps, NEW q \in PhoneType, phone' = [phone EXCEPT ![a] = q]
  PROVE  Turned(a, q)
  BY DEF TypeOK, Turned

\* A document for all who listen to the topic.
Spread(topic, h) ==
  /\ toApp' = [b \in Apps |-> toApp'[b]]
  /\ \A b \in Apps :
       \/ /\ topic \in phone'[b].subs
          /\ toApp'[b] = Append(toApp[b], Document(topic, h)) /\ Room(toApp[b])
       \/ topic \notin phone'[b].subs /\ toApp'[b] = toApp[b]

\* aws_iot_subscribe for a phone that is otherwise p.
Subscribed(a, p, q) ==
  /\ Turned(a, q)
  /\ SameBody(q, p) /\ q.uuid = p.uuid /\ q.auth = p.auth /\ q.dialog = p.dialog
  /\ q.subs = p.subs \cup {"get", "transcript"}
  /\ Spread("get", hash)
  /\ missed' = missed \ {b \in Apps : "get" \in phone'[b].subs}

LEMMA SubscribeStep ==
  ASSUME TypeOK, NEW a \in Apps, NEW p \in PhoneType, aws_iot_subscribe(a, p)
  PROVE  \E q \in PhoneType : Subscribed(a, p, q)
<1>1. PICK q : q = [p EXCEPT !.subs = p.subs \cup {"get", "transcript"}]
  OBVIOUS
<1>2. p.subs \cup {"get", "transcript"} \in SUBSET Topics
  BY DEF PhoneType, Topics
<1>3. /\ q \in PhoneType /\ SameBody(q, p)
      /\ q.uuid = p.uuid /\ q.auth = p.auth /\ q.dialog = p.dialog
      /\ q.subs = p.subs \cup {"get", "transcript"}
  BY <1>1, <1>2 DEF PhoneType, SameBody
<1>4. /\ phone' = [phone EXCEPT ![a] = q]
      /\ Broadcast("get", Document("get", hash), phone')
      /\ missed' = missed \ {b \in Apps : "get" \in phone'[b].subs}
  BY <1>1 DEF aws_iot_subscribe
<1>5. Turned(a, q)
  BY <1>3, <1>4, TurnedIf
<1>6. Spread("get", hash)
  BY <1>4 DEF Broadcast, Spread
<1> QED
  BY <1>3, <1>4, <1>5, <1>6 DEF Subscribed

\* aws_iot_connected: a phone that was off, with what it has saved.
Connected(p, q) ==
  /\ ~p.on /\ q.on
  /\ q.dsn = p.dsn /\ q.sleeping = p.sleeping /\ q.saved = p.saved /\ q.auth = p.auth
  /\ q.things = p.saved.things /\ q.passcode = p.saved.passcode
  /\ q.uuid \in {p.uuid, p.uuid + 1}
  /\ p.dialog = "none" => \/ q.dialog = "none" /\ q.things
                          \/ q.dialog = "dsn" /\ q.uuid = p.uuid + 1

LEMMA ConnectStep ==
  ASSUME TypeOK, NEW a \in Apps, Connect(a)
  PROVE  /\ \E q \in PhoneType :
              /\ Turned(a, q) /\ Connected(phone[a], q)
              /\ \/ /\ q.things /\ q.subs = phone[a].subs \cup {"get", "transcript"}
                    /\ Spread("get", hash)
                    /\ missed' = missed \ {b \in Apps : "get" \in phone'[b].subs}
                 \/ ~q.things /\ q.subs = phone[a].subs /\ UNCHANGED <<toApp, missed>>
         /\ UNCHANGED <<passcodes, board, hash, toBoard, mistakes, faults, unprompted>>
<1>1. PICK p \in PhoneType : p = phone[a]
  BY DEF TypeOK
<1>2. PICK q : q = [p EXCEPT !.on = TRUE, !.things = p.saved.things, !.passcode = p.saved.passcode]
  OBVIOUS
<1>3. /\ q \in PhoneType /\ q.on
      /\ q.dsn = p.dsn /\ q.sleeping = p.sleeping /\ q.saved = p.saved /\ q.auth = p.auth
      /\ q.things = p.saved.things /\ q.passcode = p.saved.passcode
      /\ q.uuid = p.uuid /\ q.dialog = p.dialog /\ q.subs = p.subs
  BY <1>2 DEF PhoneType
<1>4. PICK r : r = IF p.saved.things /\ p.saved.passcode # NoOne THEN q ELSE aws_iot_pairing(q)
  OBVIOUS
<1>5. /\ ~p.on /\ p.uuid < MaxUuids
      /\ IF r.things THEN aws_iot_subscribe(a, r)
         ELSE phone' = [phone EXCEPT ![a] = r] /\ UNCHANGED <<toApp, missed>>
      /\ UNCHANGED <<passcodes, board, hash, toBoard, mistakes, faults, unprompted>>
  BY <1>1, <1>2, <1>4 DEF Connect
<1>6. r \in PhoneType /\ Connected(p, r) /\ r.subs = p.subs
  <2>1. CASE p.saved.things /\ p.saved.passcode # NoOne
    BY <1>3, <1>4, <1>5, <2>1 DEF Connected
  <2>2. CASE ~(p.saved.things /\ p.saved.passcode # NoOne)
    <3>1. r = aws_iot_pairing(q)
      BY <1>4, <2>2
    <3>2. q.uuid < MaxUuids
      BY <1>3, <1>5
    <3>3. /\ r \in PhoneType /\ SameBody(r, q)
          /\ r.uuid = q.uuid + 1 /\ r.auth = q.auth /\ r.subs = q.subs
          /\ q.dialog = "none" => r.dialog = "dsn"
      BY <1>3, <3>1, <3>2, PairingFields
    <3> QED
      BY <1>3, <1>5, <3>3 DEF SameBody, Connected
  <2> QED
    BY <2>1, <2>2
<1>7. CASE r.things
  <2>1. PICK t \in PhoneType : Subscribed(a, r, t)
    BY <1>5, <1>6, <1>7, SubscribeStep
  <2>2. t.things /\ Connected(p, t) /\ t.subs = p.subs \cup {"get", "transcript"}
    BY <1>6, <1>7, <2>1 DEF Subscribed, SameBody, Connected
  <2> QED
    BY <1>1, <1>5, <2>1, <2>2 DEF Subscribed
<1>8. CASE ~r.things
  <2>1. Turned(a, r)
    BY <1>5, <1>6, <1>8, TurnedIf
  <2> QED
    BY <1>1, <1>5, <1>6, <1>8, <2>1
<1> QED
  BY <1>7, <1>8

LEMMA EnterDsnStep ==
  ASSUME TypeOK, PhonesOK, NEW a \in Apps, NEW dsn \in {"ours", "other"}, EnterDsn(a, dsn)
  PROVE  /\ \E q \in PhoneType :
              /\ Turned(a, q)
              /\ q.on = phone[a].on /\ q.uuid = phone[a].uuid /\ q.auth = phone[a].auth
              /\ q.sleeping = phone[a].sleeping /\ q.things = phone[a].things
              /\ q.passcode = phone[a].passcode /\ q.saved = phone[a].saved
              /\ q.dialog = "none" /\ q.dsn = dsn
              /\ q.subs = phone[a].subs \cup {"metadata"}
         /\ phone[a].dialog = "dsn"
         /\ \E m \in Requests :
              /\ toBoard' = Append(toBoard, m) /\ Room(toBoard)
              /\ m.requests = "ios_pairing" /\ m.uuid = Made(a, phone[a].uuid)
              /\ dsn = "ours" => m.ours
         /\ dsn = "other" => mistakes + faults < MaxTrouble /\ mistakes' = mistakes + 1
                               /\ unprompted' = unprompted \cup {a}
         /\ dsn = "ours" => mistakes' = mistakes /\ unprompted' = unprompted \ {a}
         /\ UNCHANGED <<passcodes, board, hash, toApp, faults, missed>>
<1>1. PICK p \in PhoneType : p = phone[a]
  BY DEF TypeOK
<1>2. PICK q : q = [p EXCEPT !.dialog = "none", !.dsn = dsn, !.subs = p.subs \cup {"metadata"}]
  OBVIOUS
<1>3. p.subs \cup {"metadata"} \in SUBSET Topics
  BY DEF PhoneType, Topics
<1>4. /\ q \in PhoneType
      /\ q.on = p.on /\ q.uuid = p.uuid /\ q.auth = p.auth
      /\ q.sleeping = p.sleeping /\ q.things = p.things
      /\ q.passcode = p.passcode /\ q.saved = p.saved
      /\ q.dialog = "none" /\ q.dsn = dsn /\ q.subs = p.subs \cup {"metadata"}
  BY <1>2, <1>3 DEF PhoneType
<1>5. Turned(a, q) /\ p.dialog = "dsn"
  BY <1>1, <1>2, <1>4, TurnedIf DEF EnterDsn
<1>6. PICK m : m = [requests |-> "ios_pairing", ours |-> dsn = "ours", uuid |-> Made(a,
                    p.uuid), hash |-> NoOne]
  OBVIOUS
<1>7. toBoard' = Append(toBoard, m) /\ Room(toBoard)
  BY <1>1, <1>6 DEF EnterDsn, Send
<1>8. p.uuid \in 1 .. MaxUuids
  BY <1>1, <1>5 DEF PhonesOK, PhoneOK, Asking, PhoneType
<1>9. m \in Requests
  <2>1. Made(a, p.uuid) \in Uuids
    BY <1>8 DEF Made, Uuids
  <2>2. (dsn = "ours") \in BOOLEAN /\ NoOne \in Hashes
    BY Zenon DEF Hashes
  <2> QED
    BY <1>6, <2>1, <2>2 DEF Requests
<1>10. m.requests = "ios_pairing" /\ m.uuid = Made(a, p.uuid) /\ (dsn = "ours" => m.ours)
  BY <1>6
<1>11. /\ dsn = "other" => mistakes + faults < MaxTrouble /\ mistakes' = mistakes + 1
                            /\ unprompted' = unprompted \cup {a}
       /\ dsn = "ours" => mistakes' = mistakes /\ unprompted' = unprompted \ {a}
       /\ UNCHANGED <<passcodes, board, hash, toApp, faults, missed>>
  BY DEF EnterDsn, Untroubled
<1> QED
  BY <1>1, <1>4, <1>5, <1>7, <1>9, <1>10, <1>11

\* Only the alert on the screen changes.
Shows(p, q, dialog) ==
  /\ SameBody(q, p) /\ q.uuid = p.uuid /\ q.auth = p.auth /\ q.subs = p.subs
  /\ q.dialog = dialog

LEMMA ShowsStep ==
  ASSUME TypeOK, NEW a \in Apps, NEW d \in {"none", "dsn"},
         phone' = [phone EXCEPT ![a].dialog = d]
  PROVE  \E q \in PhoneType : Turned(a, q) /\ Shows(phone[a], q, d)
<1>1. PICK p \in PhoneType : p = phone[a]
  BY DEF TypeOK
<1>2. PICK q : q = [p EXCEPT !.dialog = d]
  OBVIOUS
<1>3. q \in PhoneType /\ Shows(p, q, d)
  BY <1>2 DEF PhoneType, Shows, SameBody
<1>4. phone' = [phone EXCEPT ![a] = q]
  BY <1>1, <1>2 DEF TypeOK
<1> QED
  BY <1>1, <1>3, <1>4, TurnedIf

LEMMA EnterCodeStep ==
  ASSUME TypeOK, PhonesOK, NEW a \in Apps, EnterCode(a)
  PROVE  /\ phone[a].dialog = "code"
         /\ \/ /\ phone[a].auth = codes /\ passcodes' = passcodes + 1 /\ passcodes < MaxPasscodes
               /\ \E q \in PhoneType :
                    /\ Turned(a, q)
                    /\ q.on = phone[a].on /\ q.uuid = phone[a].uuid /\ q.dsn = phone[a].dsn
                    /\ q.auth = phone[a].auth /\ q.subs = phone[a].subs
                    /\ q.dialog = "ok" /\ q.sleeping /\ q.saved.things
               /\ \E m \in Requests :
                    /\ toBoard' = Append(toBoard, m) /\ Room(toBoard)
                    /\ m.requests = "ios_paired" /\ m.uuid = Made(a, phone[a].uuid)
                    /\ phone[a].dsn = "ours" => m.ours
                    /\ m.hash # NoOne
            \/ /\ phone[a].auth # codes
               /\ \E q \in PhoneType : Turned(a, q) /\ Shows(phone[a], q, "dsn")
               /\ UNCHANGED <<passcodes, toBoard>>
         /\ UNCHANGED <<board, hash, toApp, history>>
<1>1. PICK p \in PhoneType : p = phone[a]
  BY DEF TypeOK
<1>2. PICK n : n = passcodes + 1
  OBVIOUS
<1>3. PICK h : h = Made(a, n)
  OBVIOUS
<1>4. p.dialog = "code" /\ UNCHANGED <<board, hash, toApp, history>>
  BY <1>1 DEF EnterCode
<1>5. CASE p.auth = codes
  <2>1. PICK s : s = [things |-> TRUE, passcode |-> h]
    OBVIOUS
  <2>2. PICK q : q = [p EXCEPT !.dialog = "ok", !.sleeping = TRUE, !.things = TRUE,
                      !.passcode = h, !.saved = s]
    OBVIOUS
  <2>3. PICK m : m = [requests |-> "ios_paired", ours |-> p.dsn = "ours", uuid |-> Made(a,
                      p.uuid), hash |-> h]
    OBVIOUS
  <2>4. /\ passcodes < MaxPasscodes /\ passcodes' = n
        /\ phone' = [phone EXCEPT ![a] = q]
        /\ Room(toBoard) /\ toBoard' = Append(toBoard, m)
    BY <1>1, <1>2, <1>3, <1>5, <2>1, <2>2, <2>3 DEF EnterCode, Send
  <2>5. n \in 1 .. MaxPasscodes
    BY <1>2, <2>4, SomeUuids DEF TypeOK
  <2>6. h \in Hashes /\ h # NoOne
    BY <1>3, <2>5 DEF Made, Hashes, NoOne
  <2>7. /\ q \in PhoneType
        /\ q.on = p.on /\ q.uuid = p.uuid /\ q.dsn = p.dsn /\ q.auth = p.auth /\ q.subs = p.subs
        /\ q.dialog = "ok" /\ q.sleeping /\ q.saved.things
    BY <2>1, <2>2, <2>6 DEF PhoneType
  <2>8. Turned(a, q)
    BY <2>4, <2>7, TurnedIf
  <2>9. m \in Requests
    <3>1. p.uuid \in 1 .. MaxUuids
      BY <1>1, <1>4 DEF PhonesOK, PhoneOK, Asking, PhoneType
    <3>2. Made(a, p.uuid) \in Uuids
      BY <3>1 DEF Made, Uuids
    <3>3. (p.dsn = "ours") \in BOOLEAN
      BY Zenon
    <3> QED
      BY <2>3, <2>6, <3>2, <3>3 DEF Requests
  <2>10. /\ m.requests = "ios_paired" /\ m.uuid = Made(a, p.uuid)
         /\ p.dsn = "ours" => m.ours
         /\ m.hash # NoOne
    BY <2>3, <2>6
  <2> QED
    BY <1>1, <1>2, <1>4, <1>5, <2>4, <2>7, <2>8, <2>9, <2>10
<1>6. CASE p.auth # codes
  <2>1. phone' = [phone EXCEPT ![a].dialog = "dsn"] /\ UNCHANGED <<passcodes, toBoard>>
    BY <1>1, <1>6 DEF EnterCode
  <2>2. \E q \in PhoneType : Turned(a, q) /\ Shows(phone[a], q, "dsn")
    BY <2>1, ShowsStep
  <2> QED
    BY <1>1, <1>4, <1>6, <2>1, <2>2
<1> QED
  BY <1>5, <1>6

LEMMA PassedStep ==
  ASSUME TypeOK, NEW a \in Apps, Passed(a)
  PROVE  /\ phone[a].sleeping
         /\ \E q \in PhoneType :
              /\ Turned(a, q)
              /\ q.on = phone[a].on /\ q.dsn = phone[a].dsn /\ q.saved = phone[a].saved
              /\ q.passcode = phone[a].passcode
              /\ q.uuid = phone[a].uuid /\ q.auth = phone[a].auth /\ q.dialog = phone[a].dialog
              /\ ~q.sleeping
              /\ q.subs = phone[a].subs \cup {"get", "transcript"}
         /\ Spread("get", hash)
         /\ missed' = missed \ {b \in Apps : "get" \in phone'[b].subs}
         /\ UNCHANGED <<passcodes, board, hash, toBoard, mistakes, faults, unprompted>>
<1>1. PICK p \in PhoneType : p = phone[a]
  BY DEF TypeOK
<1>2. PICK r : r = [p EXCEPT !.sleeping = FALSE]
  OBVIOUS
<1>3. /\ r \in PhoneType
      /\ r.on = p.on /\ r.dsn = p.dsn /\ r.saved = p.saved /\ r.passcode = p.passcode
      /\ r.uuid = p.uuid /\ r.auth = p.auth /\ r.dialog = p.dialog /\ r.subs = p.subs
      /\ r.sleeping = FALSE
  BY <1>2 DEF PhoneType
<1>4. /\ p.sleeping /\ aws_iot_subscribe(a, r)
      /\ UNCHANGED <<passcodes, board, hash, toBoard, mistakes, faults, unprompted>>
  BY <1>1, <1>2 DEF Passed
<1>5. PICK q \in PhoneType : Subscribed(a, r, q)
  BY <1>3, <1>4, SubscribeStep
<1> QED
  BY <1>1, <1>3, <1>4, <1>5 DEF Subscribed, SameBody

\* messageblock of aws_iot_productmetadata.
LEMMA ReceiveMetadataStep ==
  ASSUME TypeOK, NEW a \in Apps, ReceiveMetadata(a)
  PROVE  /\ phone[a].on /\ toApp[a] # <<>> /\ Head(toApp[a]).topic = "metadata"
         /\ toApp' = [toApp EXCEPT ![a] = Tail(toApp[a])]
         /\ \E q \in PhoneType :
              /\ Turned(a, q) /\ SameBody(q, phone[a])
              /\ q.uuid = phone[a].uuid /\ q.subs = phone[a].subs
              /\ phone[a].dialog # "none" => q.dialog = phone[a].dialog
              /\ phone[a].dialog = "none" => q.dialog \in {"dsn", "code"}
              /\ \/ q.auth = Head(toApp[a]).code
                    /\ (phone[a].dialog = "none" => q.dialog = "code")
                 \/ phone[a].dsn # "ours" /\ q.auth = phone[a].auth
         /\ phone[a].dialog = "none" => unprompted' = unprompted
         /\ phone[a].dialog # "none" => unprompted' = unprompted \cup {a}
         /\ UNCHANGED <<passcodes, board, hash, toBoard, mistakes, faults, missed>>
<1>1. PICK p \in PhoneType : p = phone[a]
  BY DEF TypeOK
<1>2. PICK m : m = Head(toApp[a])
  OBVIOUS
<1>3. /\ p.on /\ toApp[a] # <<>> /\ m.topic = "metadata"
      /\ toApp' = [toApp EXCEPT ![a] = Tail(toApp[a])]
      /\ unprompted' = Unprompted(p, a)
      /\ UNCHANGED <<passcodes, board, hash, toBoard, mistakes, faults, missed>>
  BY <1>1, <1>2 DEF ReceiveMetadata
<1>4. m \in Metadata \cup Documents
  BY <1>2, <1>3, TailPlaces DEF TypeOK
<1>5. m.code \in 0 .. MaxCodes
  BY <1>3, <1>4, MessageTypes, SomeUuids
<1>6. PICK r : r = [p EXCEPT !.auth = m.code]
  OBVIOUS
<1>7. /\ r \in PhoneType /\ SameBody(r, p) /\ r.uuid = p.uuid /\ r.subs = p.subs
      /\ r.dialog = p.dialog /\ r.auth = m.code
  BY <1>5, <1>6 DEF PhoneType, SameBody
<1>8. PICK q : q = IF m.uuid = Made(a, p.uuid) /\ p.dsn # "ours" THEN Prompted(p, "dsn")
                   ELSE Prompted(r, "code")
  OBVIOUS
<1>9. phone' = [phone EXCEPT ![a] = q]
  BY <1>1, <1>2, <1>6, <1>8 DEF ReceiveMetadata
<1>10. /\ q \in PhoneType /\ SameBody(q, p)
       /\ q.uuid = p.uuid /\ q.subs = p.subs
       /\ p.dialog # "none" => q.dialog = p.dialog
       /\ p.dialog = "none" => q.dialog \in {"dsn", "code"}
       /\ \/ q.auth = m.code /\ (p.dialog = "none" => q.dialog = "code")
          \/ p.dsn # "ours" /\ q.auth = p.auth
  <2>1. CASE m.uuid = Made(a, p.uuid) /\ p.dsn # "ours"
    BY <1>8, <2>1, PromptedFields
  <2>2. CASE ~(m.uuid = Made(a, p.uuid) /\ p.dsn # "ours")
    <3>1. q = Prompted(r, "code")
      BY <1>8, <2>2
    <3>2. /\ q \in PhoneType /\ SameBody(q, r)
          /\ q.uuid = r.uuid /\ q.auth = r.auth /\ q.subs = r.subs
          /\ r.dialog = "none" => q.dialog = "code"
          /\ r.dialog # "none" => q.dialog = r.dialog
      BY <1>7, <3>1, PromptedFields
    <3> QED
      BY <1>7, <3>2 DEF SameBody
  <2> QED
    BY <2>1, <2>2
<1>11. Turned(a, q)
  BY <1>9, <1>10, TurnedIf
<1> QED
  BY <1>1, <1>2, <1>3, <1>10, <1>11 DEF Unprompted

\* messageblock of aws_iot_subscribe: what update_item found, or not.
LEMMA ReceiveDocumentStep ==
  ASSUME TypeOK, NEW a \in Apps, ReceiveDocument(a)
  PROVE  /\ phone[a].on /\ toApp[a] # <<>> /\ Head(toApp[a]).topic # "metadata"
         /\ toApp' = [toApp EXCEPT ![a] = Tail(toApp[a])]
         /\ \E q \in PhoneType :
              /\ Turned(a, q)
              /\ q.on = phone[a].on /\ q.dsn = phone[a].dsn /\ q.sleeping = phone[a].sleeping
              /\ q.things = phone[a].things /\ q.passcode = phone[a].passcode
              /\ q.saved = phone[a].saved /\ q.auth = phone[a].auth
              /\ \/ /\ Mismatch(phone[a], Head(toApp[a]))
                    /\ q.uuid = phone[a].uuid + 1 /\ "get" \notin q.subs
                    /\ "metadata" \notin q.subs
                    /\ phone[a].dialog = "none" => q.dialog = "dsn" /\ unprompted' = unprompted
                    /\ phone[a].dialog # "none" =>
                         q.dialog = phone[a].dialog /\ unprompted' = unprompted \cup {a}
                 \/ /\ ~Mismatch(phone[a], Head(toApp[a]))
                    /\ q.uuid = phone[a].uuid /\ q.dialog = phone[a].dialog
                    /\ unprompted' = unprompted
                    /\ "get" \in phone[a].subs <=> "get" \in q.subs
                    /\ "metadata" \in phone[a].subs <=> "metadata" \in q.subs
         /\ UNCHANGED <<passcodes, board, hash, toBoard, mistakes, faults, missed>>
<1>1. PICK p \in PhoneType : p = phone[a]
  BY DEF TypeOK
<1>2. PICK m : m = Head(toApp[a])
  OBVIOUS
<1>3. PICK r : r = IF Mismatch(p, m) THEN aws_iot_pairing(aws_iot_disconnected(p)) ELSE p
  OBVIOUS
<1>4. PICK more : more = (IF p.got THEN {} ELSE {"update"})
  OBVIOUS
<1>5. PICK q : q = [r EXCEPT !.got = TRUE, !.subs = r.subs \cup more]
  OBVIOUS
<1>6. /\ p.on /\ toApp[a] # <<>> /\ m.topic # "metadata" /\ p.uuid < MaxUuids
      /\ unprompted' = IF Mismatch(p, m) THEN Unprompted(p, a) ELSE unprompted
      /\ toApp' = [toApp EXCEPT ![a] = Tail(toApp[a])]
      /\ UNCHANGED <<passcodes, board, hash, toBoard, mistakes, faults, missed>>
  BY <1>1, <1>2 DEF ReceiveDocument
<1>7. phone' = [phone EXCEPT ![a] = q]
  BY <1>1, <1>2, <1>3, <1>4, <1>5 DEF ReceiveDocument
<1>8. ASSUME r \in PhoneType
      PROVE  /\ q \in PhoneType
             /\ q.on = r.on /\ q.dsn = r.dsn /\ q.sleeping = r.sleeping /\ q.things = r.things
             /\ q.passcode = r.passcode /\ q.saved = r.saved /\ q.auth = r.auth
             /\ q.uuid = r.uuid /\ q.dialog = r.dialog
             /\ "get" \in r.subs <=> "get" \in q.subs
             /\ "metadata" \in r.subs <=> "metadata" \in q.subs
  <2>1. r.subs \cup more \in SUBSET Topics
    BY <1>4, <1>8 DEF PhoneType, Topics
  <2>2. /\ q \in PhoneType
        /\ q.on = r.on /\ q.dsn = r.dsn /\ q.sleeping = r.sleeping /\ q.things = r.things
        /\ q.passcode = r.passcode /\ q.saved = r.saved /\ q.auth = r.auth
        /\ q.uuid = r.uuid /\ q.dialog = r.dialog /\ q.subs = r.subs \cup more
    BY <1>5, <1>8, <2>1 DEF PhoneType
  <2> QED
    BY <1>4, <2>2
<1>9. CASE Mismatch(p, m)
  <2>1. PICK d : d = aws_iot_disconnected(p)
    OBVIOUS
  <2>2. /\ d \in PhoneType /\ SameBody(d, p)
        /\ d.uuid = p.uuid /\ d.auth = p.auth /\ d.dialog = p.dialog
        /\ d.subs = p.subs \ {"metadata", "transcript", "get"}
    BY <2>1, DisconnectedFields
  <2>3. r = aws_iot_pairing(d) /\ d.uuid < MaxUuids
    BY <1>3, <1>6, <1>9, <2>1, <2>2
  <2>4. /\ r \in PhoneType /\ SameBody(r, d)
        /\ r.uuid = d.uuid + 1 /\ r.auth = d.auth /\ r.subs = d.subs
        /\ d.dialog = "none" => r.dialog = "dsn"
        /\ d.dialog # "none" => r.dialog = d.dialog
    BY <2>2, <2>3, PairingFields
  <2>5. Turned(a, q)
    BY <1>7, <1>8, <2>4, TurnedIf
  <2>6. /\ q.on = p.on /\ q.dsn = p.dsn /\ q.sleeping = p.sleeping
        /\ q.things = p.things /\ q.passcode = p.passcode
        /\ q.saved = p.saved /\ q.auth = p.auth
        /\ q.uuid = p.uuid + 1 /\ "get" \notin q.subs /\ "metadata" \notin q.subs
        /\ p.dialog = "none" => q.dialog = "dsn"
        /\ p.dialog # "none" => q.dialog = p.dialog
    BY <1>8, <2>2, <2>4 DEF SameBody
  <2>7. /\ p.dialog = "none" => unprompted' = unprompted
        /\ p.dialog # "none" => unprompted' = unprompted \cup {a}
    BY <1>6, <1>9 DEF Unprompted
  <2> QED
    BY <1>1, <1>2, <1>6, <1>8, <1>9, <2>4, <2>5, <2>6, <2>7
<1>10. CASE ~Mismatch(p, m)
  <2>1. r = p
    BY <1>3, <1>10
  <2>2. Turned(a, q)
    BY <1>7, <1>8, <2>1, TurnedIf
  <2>3. unprompted' = unprompted
    BY <1>6, <1>10
  <2> QED
    BY <1>1, <1>2, <1>6, <1>8, <1>10, <2>1, <2>2, <2>3
<1> QED
  BY <1>9, <1>10

LEMMA KillStep ==
  ASSUME TypeOK, NEW a \in Apps, Kill(a)
  PROVE  /\ \E q \in PhoneType :
              /\ Turned(a, q)
              /\ ~q.on /\ q.subs = {} /\ ~q.sleeping /\ q.dialog = "none"
              /\ q.uuid = phone[a].uuid
         /\ faults' = faults + 1 /\ mistakes + faults < MaxTrouble
         /\ toApp' = [toApp EXCEPT ![a] = <<>>]
         /\ missed' = missed \ {a} /\ unprompted' = unprompted \ {a}
         /\ UNCHANGED <<passcodes, board, hash, toBoard, mistakes>>
<1>1. PICK p \in PhoneType : p = phone[a]
  BY DEF TypeOK
<1>2. PICK r : r = Started(p.saved)
  OBVIOUS
<1>3. PICK q : q = [r EXCEPT !.uuid = p.uuid]
  OBVIOUS
<1>4. p.saved \in [things : BOOLEAN, passcode : Hashes] /\ NoOne \in Hashes
  BY DEF PhoneType, Hashes
<1>5. /\ r \in PhoneType
      /\ r.on = FALSE /\ r.subs = {} /\ r.sleeping = FALSE /\ r.dialog = "none"
  BY <1>2, <1>4, SomeUuids DEF Started, PhoneType
<1>6. /\ q \in PhoneType
      /\ ~q.on /\ q.subs = {} /\ ~q.sleeping /\ q.dialog = "none" /\ q.uuid = p.uuid
  BY <1>3, <1>5 DEF PhoneType
<1>7. phone' = [phone EXCEPT ![a] = q]
  BY <1>1, <1>2, <1>3 DEF Kill, TypeOK
<1>8. Turned(a, q)
  BY <1>6, <1>7, TurnedIf
<1>9. /\ faults' = faults + 1 /\ mistakes + faults < MaxTrouble
      /\ toApp' = [toApp EXCEPT ![a] = <<>>]
      /\ missed' = missed \ {a} /\ unprompted' = unprompted \ {a}
      /\ UNCHANGED <<passcodes, board, hash, toBoard, mistakes>>
  BY DEF Kill, Untroubled
<1> QED
  BY <1>1, <1>6, <1>8, <1>9

LEMMA ReconnectStep ==
  ASSUME TypeOK, NEW a \in Apps, Reconnect(a)
  PROVE  /\ phone[a].on
         /\ \E q \in PhoneType :
              /\ Turned(a, q) /\ SameBody(q, phone[a])
              /\ q.uuid = phone[a].uuid /\ q.auth = phone[a].auth
              /\ q.dialog = phone[a].dialog
              /\ "get" \notin q.subs /\ "metadata" \notin q.subs
         /\ faults' = faults + 1 /\ mistakes + faults < MaxTrouble
         /\ toApp' = [toApp EXCEPT ![a] = <<>>]
         /\ missed' = missed \cup {a} /\ unprompted' = unprompted \cup {a}
         /\ UNCHANGED <<passcodes, board, hash, toBoard, mistakes>>
<1>1. PICK p \in PhoneType : p = phone[a]
  BY DEF TypeOK
<1>2. PICK q : q = aws_iot_disconnected(p)
  OBVIOUS
<1>3. /\ q \in PhoneType /\ SameBody(q, p)
      /\ q.uuid = p.uuid /\ q.auth = p.auth /\ q.dialog = p.dialog
      /\ q.subs = p.subs \ {"metadata", "transcript", "get"}
  BY <1>2, DisconnectedFields
<1>4. phone' = [phone EXCEPT ![a] = q]
  BY <1>1, <1>2 DEF Reconnect, TypeOK
<1>5. Turned(a, q)
  BY <1>3, <1>4, TurnedIf
<1>6. /\ faults' = faults + 1 /\ mistakes + faults < MaxTrouble
      /\ toApp' = [toApp EXCEPT ![a] = <<>>]
      /\ missed' = missed \cup {a} /\ unprompted' = unprompted \cup {a}
      /\ UNCHANGED <<passcodes, board, hash, toBoard, mistakes>>
  BY DEF Reconnect, Untroubled
<1> QED
  BY <1>1, <1>3, <1>5, <1>6 DEF Reconnect

\* The board takes a request: the answer goes to all who listen, or to nobody.
LEMMA RequestStep ==
  ASSUME TypeOK, Request
  PROVE  /\ toBoard # <<>> /\ Head(toBoard) \in Requests
         /\ Head(toBoard).requests = "ios_pairing" /\ toBoard' = Tail(toBoard)
         /\ \/ /\ Head(toBoard).ours
               /\ codes < MaxCodes /\ codes' = codes + 1 /\ uuid' = Head(toBoard).uuid
               /\ \E m \in Metadata :
                    /\ m.topic = "metadata" /\ m.code = codes + 1
                    /\ \A b \in Apps :
                         \/ "metadata" \in phone[b].subs /\ toApp'[b] = Append(toApp[b], m)
                                                         /\ Room(toApp[b])
                         \/ "metadata" \notin phone[b].subs /\ toApp'[b] = toApp[b]
               /\ toApp' = [b \in Apps |-> toApp'[b]]
            \/ ~Head(toBoard).ours /\ UNCHANGED <<uuid, codes, toApp>>
         /\ UNCHANGED <<passcodes, waiting, hash, phone, history>>
<1>1. PICK r : r = Head(toBoard)
  OBVIOUS
<1>2. /\ toBoard # <<>> /\ r.requests = "ios_pairing" /\ toBoard' = Tail(toBoard)
      /\ UNCHANGED <<passcodes, waiting, hash, phone, history>>
  BY <1>1 DEF Request
<1>3. r \in Requests
  BY <1>1, <1>2, TailPlaces DEF TypeOK
<1>4. CASE r.ours
  <2>1. PICK m : m = [topic |-> "metadata", uuid |-> r.uuid, code |-> codes + 1, hash |-> NoOne]
    OBVIOUS
  <2>2. /\ codes < MaxCodes /\ codes' = codes + 1 /\ uuid' = r.uuid
        /\ Broadcast("metadata", m, phone)
    BY <1>1, <1>4, <2>1 DEF Request
  <2>3. codes + 1 \in 1 .. MaxCodes
    BY <2>2, SomeUuids DEF TypeOK
  <2>4. m \in Metadata
    BY <1>3, <2>1, <2>3 DEF Metadata, Requests
  <2>5. m.topic = "metadata" /\ m.code = codes + 1
    BY <2>1
  <2>6. /\ toApp' = [b \in Apps |-> toApp'[b]]
        /\ \A b \in Apps : \/ "metadata" \in phone[b].subs /\ toApp'[b] = Append(toApp[b], m)
                                                           /\ Room(toApp[b])
                           \/ "metadata" \notin phone[b].subs /\ toApp'[b] = toApp[b]
    BY <2>2 DEF Broadcast
  <2> QED
    BY <1>1, <1>2, <1>3, <1>4, <2>2, <2>4, <2>5, <2>6
<1>5. CASE ~r.ours
  BY <1>1, <1>2, <1>3, <1>5 DEF Request
<1> QED
  BY <1>4, <1>5

LEMMA PublishStep ==
  ASSUME TypeOK, Publish
  PROVE  /\ waiting # NoOne /\ hash' = waiting /\ waiting' = NoOne /\ phone' = phone
         /\ Spread("update", hash')
         /\ missed' = missed \cup {a \in Apps : phone[a].on /\ "update" \notin phone[a].subs}
         /\ UNCHANGED <<passcodes, uuid, codes, toBoard, mistakes, faults, unprompted>>
  BY DEF Publish, Broadcast, Spread

----------------------------------------------------------------------------
(* Types                                                                    *)

Messages == Metadata \cup Documents

BoardTypes ==
  /\ uuid \in Uuids \cup {NoOne} /\ waiting \in Hashes /\ codes \in 0 .. MaxCodes
  /\ hash \in Hashes
  /\ toBoard \in Seq(Requests) /\ Len(toBoard) <= MaxInFlight
InboxTypes ==
  /\ toApp \in [Apps -> Seq(Messages)]
  /\ \A a \in Apps : Len(toApp[a]) <= MaxInFlight
CountTypes ==
  /\ passcodes \in 0 .. MaxPasscodes
  /\ mistakes \in 0 .. MaxTrouble /\ faults \in 0 .. MaxTrouble
  /\ missed \subseteq Apps /\ unprompted \subseteq Apps

LEMMA TypeParts ==
  TypeOK <=> /\ BoardTypes /\ InboxTypes /\ CountTypes
             /\ early \subseteq Apps /\ phone \in [Apps -> PhoneType]
  BY DEF TypeOK, BoardTypes, InboxTypes, CountTypes, Messages

\* A message is sent only where there is room.
LEMMA QueueBounded ==
  ASSUME NEW S, NEW q \in Seq(S), NEW m \in S, Room(q)
  PROVE  Append(q, m) \in Seq(S) /\ Len(Append(q, m)) <= MaxInFlight
  BY AppendPlaces, SomeUuids DEF Room

LEMMA QueueShorter ==
  ASSUME NEW S, NEW q \in Seq(S), q # <<>>, Len(q) <= MaxInFlight
  PROVE  Tail(q) \in Seq(S) /\ Len(Tail(q)) <= MaxInFlight
  BY TailPlaces, SomeUuids

LEMMA BoardTypesStep ==
  ASSUME TypeOK, PhonesOK, Next
  PROVE  BoardTypes'
<1> USE DEF board
<1>0. BoardTypes
  BY TypeParts
<1>1. ASSUME NEW a \in Apps, NEW dsn \in {"ours", "other"}, EnterDsn(a, dsn) PROVE BoardTypes'
  <2>1. PICK m \in Requests : toBoard' = Append(toBoard, m) /\ Room(toBoard)
    BY <1>1, EnterDsnStep
  <2>2. UNCHANGED <<board, hash>>
    BY <1>1 DEF EnterDsn
  <2> QED
    BY <1>0, <2>1, <2>2, QueueBounded DEF BoardTypes
<1>2. ASSUME NEW a \in Apps, EnterCode(a) PROVE BoardTypes'
  <2>1. UNCHANGED <<board, hash>>
    BY <1>2 DEF EnterCode
  <2>2. CASE UNCHANGED toBoard
    BY <1>0, <2>1, <2>2 DEF BoardTypes
  <2>3. CASE \E m \in Requests : toBoard' = Append(toBoard, m) /\ Room(toBoard)
    BY <1>0, <2>1, <2>3, QueueBounded DEF BoardTypes
  <2> QED
    BY <1>2, <2>2, <2>3, EnterCodeStep
<1>3. CASE Request
  <2>1. /\ toBoard # <<>> /\ Head(toBoard) \in Requests /\ toBoard' = Tail(toBoard)
        /\ UNCHANGED <<waiting, hash>>
    BY <1>3, RequestStep
  <2>2. codes' \in 0 .. MaxCodes /\ uuid' \in Uuids \cup {NoOne}
    <3>1. CASE codes < MaxCodes /\ codes' = codes + 1 /\ uuid' = Head(toBoard).uuid
      BY <1>0, <2>1, <3>1, SomeUuids DEF BoardTypes, Requests
    <3>2. CASE UNCHANGED <<uuid, codes>>
      BY <1>0, <3>2 DEF BoardTypes
    <3> QED
      BY <1>3, <3>1, <3>2, RequestStep
  <2> QED
    BY <1>0, <2>1, <2>2, QueueShorter DEF BoardTypes
<1>4. CASE Confirm
  <2>1. Head(toBoard) \in Requests
    BY <1>0, <1>4, TailPlaces DEF Confirm, BoardTypes
  <2>2. waiting' \in Hashes
    BY <1>0, <1>4, <2>1 DEF Confirm, BoardTypes, Requests
  <2> QED
    BY <1>0, <1>4, <2>2, QueueShorter DEF Confirm, BoardTypes
<1>5. CASE Publish
  BY <1>0, <1>5 DEF Publish, BoardTypes, Hashes
<1>6. CASE Restart
  BY <1>0, <1>6, SomeUuids DEF Restart, BoardTypes, Hashes
<1>7. ASSUME NEW a \in Apps,
             \/ Connect(a) \/ EnterWrongCode(a) \/ Passed(a) \/ Accepted(a)
             \/ ReceiveMetadata(a) \/ ReceiveDocument(a) \/ Kill(a) \/ Reconnect(a)
      PROVE  BoardTypes'
  <2>1. UNCHANGED <<board, hash, toBoard>>
    BY <1>7 DEF Connect, EnterWrongCode, Passed, Accepted, ReceiveMetadata, ReceiveDocument,
                Kill, Reconnect, broker
  <2> QED
    BY <1>0, <2>1 DEF BoardTypes
<1> QED
  BY <1>1, <1>2, <1>3, <1>4, <1>5, <1>6, <1>7 DEF Next

LEMMA SpreadTypes ==
  ASSUME TypeOK, NEW t \in {"get", "update"}, NEW h \in Hashes, Spread(t, h)
  PROVE  InboxTypes'
<1>0. InboxTypes
  BY TypeParts
<1>1. Document(t, h) \in Messages
  BY DocumentType DEF Messages
<1>2. ASSUME NEW b \in Apps PROVE toApp'[b] \in Seq(Messages) /\ Len(toApp'[b]) <= MaxInFlight
  <2>1. toApp[b] \in Seq(Messages) /\ Len(toApp[b]) <= MaxInFlight
    BY <1>0 DEF InboxTypes
  <2>2. \/ toApp'[b] = Append(toApp[b], Document(t, h)) /\ Room(toApp[b])
        \/ toApp'[b] = toApp[b]
    BY DEF Spread
  <2> QED
    BY <1>1, <2>1, <2>2, QueueBounded
<1>3. toApp' = [b \in Apps |-> toApp'[b]]
  BY DEF Spread
<1> QED
  BY <1>2, <1>3 DEF InboxTypes

LEMMA InboxTypesStep ==
  ASSUME TypeOK, PhonesOK, Next
  PROVE  InboxTypes'
<1>0. InboxTypes /\ hash \in Hashes
  BY TypeParts DEF BoardTypes
<1>1. ASSUME Spread("get", hash) \/ UNCHANGED toApp PROVE InboxTypes'
  BY <1>0, <1>1, SpreadTypes DEF InboxTypes
<1>2. ASSUME NEW a \in Apps, Connect(a) \/ Passed(a) PROVE InboxTypes'
  BY <1>1, <1>2, ConnectStep, PassedStep
<1>3. ASSUME NEW a \in Apps, ReceiveMetadata(a) \/ ReceiveDocument(a) PROVE InboxTypes'
  <2>1. toApp[a] # <<>> /\ toApp' = [toApp EXCEPT ![a] = Tail(toApp[a])]
    BY <1>3, ReceiveMetadataStep, ReceiveDocumentStep
  <2>2. toApp[a] \in Seq(Messages) /\ Len(toApp[a]) <= MaxInFlight
    BY <1>0 DEF InboxTypes
  <2>3. Tail(toApp[a]) \in Seq(Messages) /\ Len(Tail(toApp[a])) <= MaxInFlight
    BY <2>1, <2>2, QueueShorter
  <2> QED
    BY <1>0, <2>1, <2>3 DEF InboxTypes
<1>4. ASSUME NEW a \in Apps, Kill(a) \/ Reconnect(a) PROVE InboxTypes'
  <2>1. toApp' = [toApp EXCEPT ![a] = <<>>]
    BY <1>4, KillStep, ReconnectStep
  <2>2. <<>> \in Seq(Messages) /\ Len(<<>>) <= MaxInFlight
    BY SomeUuids
  <2> QED
    BY <1>0, <2>1, <2>2 DEF InboxTypes
<1>5. CASE Request
  <2>1. CASE UNCHANGED toApp
    BY <1>1, <2>1
  <2>2. ASSUME NEW m \in Metadata,
               \A b \in Apps : \/ toApp'[b] = Append(toApp[b], m) /\ Room(toApp[b])
                               \/ toApp'[b] = toApp[b],
               toApp' = [b \in Apps |-> toApp'[b]]
        PROVE  InboxTypes'
    <3>1. ASSUME NEW b \in Apps PROVE toApp'[b] \in Seq(Messages) /\ Len(toApp'[b]) <= MaxInFlight
      <4>1. toApp[b] \in Seq(Messages) /\ Len(toApp[b]) <= MaxInFlight /\ m \in Messages
        BY <1>0 DEF InboxTypes, Messages
      <4> QED
        BY <2>2, <4>1, QueueBounded
    <3> QED
      BY <2>2, <3>1 DEF InboxTypes
  <2> QED
    BY <1>5, <2>1, <2>2, RequestStep
<1>6. CASE Publish
  <2>1. Spread("update", waiting) /\ waiting \in Hashes
    BY <1>6, PublishStep DEF TypeOK
  <2> QED
    BY <2>1, SpreadTypes
<1>7. ASSUME NEW a \in Apps,
             \/ EnterDsn(a, "ours") \/ EnterDsn(a, "other")
             \/ EnterCode(a) \/ EnterWrongCode(a) \/ Accepted(a)
      PROVE  InboxTypes'
  BY <1>1, <1>7 DEF EnterDsn, EnterCode, EnterWrongCode, Accepted, broker
<1>8. CASE Confirm \/ Restart
  BY <1>1, <1>8 DEF Confirm, Restart
<1> QED
  BY <1>2, <1>3, <1>4, <1>5, <1>6, <1>7, <1>8 DEF Next

\* How many have erred and failed stays in its bound, and who is listed is an app.
LEMMA CountTypesStep ==
  ASSUME TypeOK, PhonesOK, Next
  PROVE  CountTypes'
<1>0. CountTypes
  BY TypeParts
<1>1. ASSUME mistakes + faults < MaxTrouble
      PROVE  mistakes + 1 \in 0 .. MaxTrouble /\ faults + 1 \in 0 .. MaxTrouble
  BY <1>0, <1>1, SomeUuids DEF CountTypes
<1>2. ASSUME NEW a \in Apps, Connect(a) \/ Passed(a) PROVE CountTypes'
  BY <1>0, <1>2, ConnectStep, PassedStep DEF CountTypes
<1>3. ASSUME NEW a \in Apps, EnterDsn(a, "ours") PROVE CountTypes'
  BY <1>0, <1>3, EnterDsnStep DEF CountTypes
<1>4. ASSUME NEW a \in Apps, EnterDsn(a, "other") PROVE CountTypes'
  BY <1>0, <1>1, <1>4, EnterDsnStep DEF CountTypes
<1>5. ASSUME NEW a \in Apps, EnterCode(a) PROVE CountTypes'
  <2>1. passcodes' \in 0 .. MaxPasscodes
    BY <1>0, <1>5, EnterCodeStep, SomeUuids DEF CountTypes
  <2> QED
    BY <1>0, <1>5, <2>1 DEF EnterCode, CountTypes, history
<1>6. ASSUME NEW a \in Apps, EnterWrongCode(a) PROVE CountTypes'
  BY <1>0, <1>1, <1>6 DEF EnterWrongCode, Untroubled, CountTypes
<1>7. ASSUME NEW a \in Apps, ReceiveMetadata(a) PROVE CountTypes'
  BY <1>0, <1>7, ReceiveMetadataStep DEF CountTypes
<1>8. ASSUME NEW a \in Apps, ReceiveDocument(a) PROVE CountTypes'
  BY <1>0, <1>8, ReceiveDocumentStep DEF CountTypes
<1>9. ASSUME NEW a \in Apps, Kill(a) PROVE CountTypes'
  BY <1>0, <1>1, <1>9, KillStep DEF CountTypes
<1>10. ASSUME NEW a \in Apps, Reconnect(a) PROVE CountTypes'
  BY <1>0, <1>1, <1>10, ReconnectStep DEF CountTypes
<1>11. CASE Restart
  <2>1. {toBoard[i].uuid.app : i \in DOMAIN toBoard} \subseteq Apps
    <3> SUFFICES ASSUME NEW i \in DOMAIN toBoard PROVE toBoard[i].uuid.app \in Apps
      OBVIOUS
    <3>1. toBoard[i] \in Requests
      BY DEF TypeOK
    <3> QED
      BY <3>1 DEF Requests, Uuids
  <2> QED
    BY <1>0, <1>1, <1>11, <2>1 DEF Restart, Untroubled, CountTypes
<1>12. CASE Publish
  BY <1>0, <1>12, PublishStep DEF CountTypes
<1>13. (\E a \in Apps : Accepted(a)) \/ Request \/ Confirm => CountTypes'
  BY <1>0 DEF Accepted, Request, Confirm, CountTypes, history
<1> QED
  BY <1>2, <1>3, <1>4, <1>5, <1>6, <1>7, <1>8, <1>9, <1>10, <1>11, <1>12, <1>13 DEF Next

LEMMA EarlyStep ==
  ASSUME TypeOK, Next
  PROVE  early' \subseteq Apps
<1>0. early \subseteq Apps
  BY DEF TypeOK
<1>1. ASSUME NEW a \in Apps, Passed(a) PROVE early' \subseteq Apps
  BY <1>0, <1>1 DEF Passed
<1>2. ASSUME NEW a \in Apps,
             \/ Connect(a) \/ EnterDsn(a, "ours") \/ EnterDsn(a, "other")
             \/ EnterCode(a) \/ EnterWrongCode(a) \/ Accepted(a)
             \/ ReceiveMetadata(a) \/ ReceiveDocument(a) \/ Kill(a) \/ Reconnect(a)
      PROVE  early' = early
  BY <1>2 DEF Connect, EnterDsn, EnterCode, EnterWrongCode, Accepted, ReceiveMetadata,
              ReceiveDocument, Kill, Reconnect, history
<1>3. Request \/ Confirm \/ Publish \/ Restart => early' = early
  BY DEF Request, Confirm, Publish, Restart, history
<1> QED BY <1>0, <1>1, <1>2, <1>3 DEF Next

LEMMA PhoneTypesStep ==
  ASSUME TypeOK, PhonesOK, Next
  PROVE  phone' \in [Apps -> PhoneType]
<1>0. ASSUME NEW a \in Apps, NEW q, Turned(a, q) PROVE phone' \in [Apps -> PhoneType]
  BY <1>0 DEF Turned
<1>1. ASSUME NEW a \in Apps, Connect(a) PROVE phone' \in [Apps -> PhoneType]
  BY <1>0, <1>1, ConnectStep
<1>2. ASSUME NEW a \in Apps, NEW dsn \in {"ours", "other"}, EnterDsn(a, dsn)
      PROVE  phone' \in [Apps -> PhoneType]
  BY <1>0, <1>2, EnterDsnStep
<1>3. ASSUME NEW a \in Apps, EnterCode(a) PROVE phone' \in [Apps -> PhoneType]
  BY <1>0, <1>3, EnterCodeStep
<1>4. ASSUME NEW a \in Apps, EnterWrongCode(a) \/ Accepted(a) PROVE phone' \in [Apps -> PhoneType]
  <2>1. PICK d \in {"none", "dsn"} : phone' = [phone EXCEPT ![a].dialog = d]
    BY <1>4 DEF EnterWrongCode, Accepted
  <2> QED
    BY <1>0, <2>1, ShowsStep
<1>5. ASSUME NEW a \in Apps, Passed(a) PROVE phone' \in [Apps -> PhoneType]
  BY <1>0, <1>5, PassedStep
<1>6. ASSUME NEW a \in Apps, ReceiveMetadata(a) PROVE phone' \in [Apps -> PhoneType]
  BY <1>0, <1>6, ReceiveMetadataStep
<1>7. ASSUME NEW a \in Apps, ReceiveDocument(a) PROVE phone' \in [Apps -> PhoneType]
  BY <1>0, <1>7, ReceiveDocumentStep
<1>8. ASSUME NEW a \in Apps, Kill(a) PROVE phone' \in [Apps -> PhoneType]
  BY <1>0, <1>8, KillStep
<1>9. ASSUME NEW a \in Apps, Reconnect(a) PROVE phone' \in [Apps -> PhoneType]
  BY <1>0, <1>9, ReconnectStep
<1>10. Request \/ Confirm \/ Publish \/ Restart => phone' \in [Apps -> PhoneType]
  BY DEF Request, Confirm, Publish, Restart, TypeOK
<1> QED
  BY <1>1, <1>2, <1>3, <1>4, <1>5, <1>6, <1>7, <1>8, <1>9, <1>10 DEF Next

LEMMA TypesStep ==
  ASSUME TypeOK, PhonesOK, Next
  PROVE  TypeOK'
  BY BoardTypesStep, InboxTypesStep, CountTypesStep, EarlyStep, PhoneTypesStep
     DEF TypeOK, BoardTypes, InboxTypes, CountTypes, Messages

\* One phone after another: who did not act has the phone it had.
LEMMA PhonesOthers ==
  ASSUME PhonesOK, NEW a \in Apps, NEW q, Turned(a, q), PhoneOK(q, toApp'[a]),
         \A b \in Apps : b # a => (Answered(toApp'[b]) => Answered(toApp[b]))
  PROVE  PhonesOK'
<1> SUFFICES ASSUME NEW b \in Apps PROVE PhoneOK(phone'[b], toApp'[b])
  BY DEF PhonesOK
<1>1. CASE b = a
  BY <1>1 DEF Turned
<1>2. CASE b # a
  BY <1>2 DEF Turned, PhonesOK, PhoneOK, Asking
<1> QED
  BY <1>1, <1>2

\* A document is not the answer to a request.
LEMMA AnsweredByMetadata ==
  ASSUME NEW S, NEW s \in Seq(S), NEW m \in S, m.topic # "metadata", Answered(Append(s, m))
  PROVE  Answered(s)
<1>1. /\ DOMAIN s = 1 .. Len(s) /\ Len(s) \in Nat
      /\ DOMAIN Append(s, m) = 1 .. Len(s) + 1
      /\ \A i \in 1 .. Len(s) : Append(s, m)[i] = s[i]
      /\ Append(s, m)[Len(s) + 1] = m
  BY AppendPlaces
<1>2. PICK i \in 1 .. Len(s) + 1 : Append(s, m)[i].topic = "metadata"
  BY <1>1 DEF Answered
<1>3. i # Len(s) + 1
  BY <1>1, <1>2
<1>4. i \in 1 .. Len(s) /\ s[i].topic = "metadata"
  BY <1>1, <1>2, <1>3
<1> QED
  BY <1>1, <1>4 DEF Answered

LEMMA AnsweredShrinks ==
  ASSUME NEW S, NEW s \in Seq(S), s # <<>>, Answered(Tail(s))
  PROVE  Answered(s)
<1>1. /\ Len(s) \in Nat \ {0}
      /\ DOMAIN s = 1 .. Len(s) /\ DOMAIN Tail(s) = 1 .. Len(s) - 1
      /\ \A i \in 1 .. Len(s) - 1 : Tail(s)[i] = s[i + 1]
  BY TailPlaces
<1>2. PICK i \in 1 .. Len(s) - 1 : Tail(s)[i].topic = "metadata"
  BY <1>1 DEF Answered
<1>3. PICK k \in 1 .. Len(s) : k = i + 1
  BY <1>1
<1> QED
  BY <1>1, <1>2, <1>3 DEF Answered

\* Documents do not make an app ask.
LEMMA SpreadAnswered ==
  ASSUME TypeOK, NEW t \in {"get", "update"}, NEW h \in Hashes, Spread(t, h),
         NEW b \in Apps, Answered(toApp'[b])
  PROVE  Answered(toApp[b])
<1>1. toApp[b] \in Seq(Messages) /\ Document(t, h) \in Messages
  BY DocumentType DEF TypeOK, Messages
<1>2. Document(t, h).topic # "metadata"
  BY DocumentType
<1>3. toApp'[b] = toApp[b] \/ toApp'[b] = Append(toApp[b], Document(t, h))
  BY DEF Spread
<1> QED
  BY <1>1, <1>2, <1>3, AnsweredByMetadata

LEMMA PhonesStep ==
  ASSUME TypeOK, PhonesOK, Next
  PROVE  PhonesOK'
<1>0. \A b \in Apps : phone[b] \in PhoneType /\ phone[b].uuid \in Nat /\ phone[b].uuid + 1 >= 1
  BY DEF TypeOK, PhoneType
<1>u. \A b \in Apps : PhoneOK(phone[b], toApp[b])
  BY DEF PhonesOK
<1>h. hash \in Hashes /\ waiting \in Hashes
  BY DEF TypeOK
<1>1. ASSUME NEW a \in Apps, Connect(a) PROVE PhonesOK'
  <2>1. PICK q \in PhoneType : /\ Turned(a, q) /\ Connected(phone[a], q)
                               /\ Spread("get", hash) \/ UNCHANGED toApp
                               /\ \/ q.subs = phone[a].subs
                                  \/ q.subs = phone[a].subs \cup {"get", "transcript"}
    BY <1>1, ConnectStep
  <2>2. \A b \in Apps : Answered(toApp'[b]) => Answered(toApp[b])
    BY <1>h, <2>1, SpreadAnswered
  <2>3. PhoneOK(q, toApp'[a])
    <3>1. phone[a].dialog = "none" /\ ~phone[a].sleeping
      BY <1>u, <2>1 DEF PhoneOK, Connected
    <3>2. q.on /\ ~q.sleeping
      BY <2>1, <3>1 DEF Connected
    <3>3. CASE q.uuid = phone[a].uuid + 1
      BY <1>0, <3>2, <3>3 DEF PhoneOK
    <3>4. CASE q.uuid = phone[a].uuid /\ q.uuid # phone[a].uuid + 1
      <4>1. q.dialog = "none" /\ q.things
        BY <2>1, <3>1, <3>4 DEF Connected
      <4>2. "metadata" \notin q.subs
        BY <1>u, <2>1 DEF PhoneOK, Connected
      <4> QED
        BY <1>u, <2>2, <3>2, <3>4, <4>1, <4>2 DEF PhoneOK, Asking
    <3> QED
      BY <2>1, <3>3, <3>4 DEF Connected
  <2> QED
    BY <2>1, <2>2, <2>3, PhonesOthers
<1>2. ASSUME NEW a \in Apps, NEW dsn \in {"ours", "other"}, EnterDsn(a, dsn) PROVE PhonesOK'
  <2>1. PICK q \in PhoneType : /\ Turned(a, q) /\ q.on = phone[a].on /\ q.uuid = phone[a].uuid
                               /\ q.sleeping = phone[a].sleeping /\ q.dialog = "none"
    BY <1>2, EnterDsnStep
  <2>2. phone[a].dialog = "dsn" /\ toApp' = toApp
    BY <1>2, EnterDsnStep
  <2>3. PhoneOK(q, toApp'[a])
    BY <1>u, <2>1, <2>2 DEF PhoneOK, Asking
  <2> QED
    BY <2>1, <2>2, <2>3, PhonesOthers
<1>3. ASSUME NEW a \in Apps, EnterCode(a) PROVE PhonesOK'
  <2>1. phone[a].dialog = "code" /\ toApp' = toApp
    BY <1>3, EnterCodeStep
  <2>2. PICK q \in PhoneType : /\ Turned(a, q) /\ q.on = phone[a].on /\ q.uuid = phone[a].uuid
                               /\ \/ q.dialog = "ok"
                                  \/ q.dialog = "dsn" /\ q.sleeping = phone[a].sleeping
    BY <1>3, EnterCodeStep DEF Shows, SameBody
  <2>3. PhoneOK(q, toApp'[a])
    BY <1>u, <2>1, <2>2 DEF PhoneOK, Asking
  <2> QED
    BY <2>1, <2>2, <2>3, PhonesOthers
<1>4. ASSUME NEW a \in Apps, EnterWrongCode(a) \/ Accepted(a) PROVE PhonesOK'
  <2>1. PICK d \in {"none", "dsn"} :
          /\ phone' = [phone EXCEPT ![a].dialog = d] /\ toApp' = toApp
          /\ phone[a].dialog \in {"ok", "code"} /\ (phone[a].sleeping => d = "dsn")
          /\ phone[a].dialog = "ok" => d = "none" /\ ~phone[a].sleeping
    BY <1>4 DEF EnterWrongCode, Accepted, broker
  <2>2. PICK q \in PhoneType : Turned(a, q) /\ Shows(phone[a], q, d)
    BY <2>1, ShowsStep
  <2>3. PhoneOK(q, toApp'[a])
    BY <1>u, <2>1, <2>2 DEF PhoneOK, Asking, Shows, SameBody
  <2> QED
    BY <2>1, <2>2, <2>3, PhonesOthers
<1>5. ASSUME NEW a \in Apps, Passed(a) PROVE PhonesOK'
  <2>1. PICK q \in PhoneType :
          /\ Turned(a, q) /\ q.on = phone[a].on /\ q.uuid = phone[a].uuid
          /\ q.dialog = phone[a].dialog /\ ~q.sleeping
          /\ q.subs = phone[a].subs \cup {"get", "transcript"}
    BY <1>5, PassedStep
  <2>2. phone[a].sleeping /\ Spread("get", hash)
    BY <1>5, PassedStep
  <2>3. \A b \in Apps : Answered(toApp'[b]) => Answered(toApp[b])
    BY <1>h, <2>2, SpreadAnswered
  <2>4. PhoneOK(q, toApp'[a])
    BY <1>u, <2>1, <2>2, <2>3 DEF PhoneOK, Asking
  <2> QED
    BY <2>1, <2>3, <2>4, PhonesOthers
<1>6. ASSUME NEW a \in Apps, ReceiveMetadata(a) PROVE PhonesOK'
  <2>1. PICK q \in PhoneType :
          /\ Turned(a, q) /\ SameBody(q, phone[a])
          /\ q.uuid = phone[a].uuid
          /\ phone[a].dialog # "none" => q.dialog = phone[a].dialog
    BY <1>6, ReceiveMetadataStep
  <2>2. /\ phone[a].on /\ toApp[a] # <<>> /\ Head(toApp[a]).topic = "metadata"
        /\ toApp' = [toApp EXCEPT ![a] = Tail(toApp[a])]
    BY <1>6, ReceiveMetadataStep
  <2>3. toApp[a] \in Seq(Messages) /\ toApp \in [Apps -> Seq(Messages)]
    BY DEF TypeOK, Messages
  <2>4. Answered(toApp[a])
    BY <2>2, <2>3, TailPlaces DEF Answered
  <2>5. PhoneOK(q, toApp'[a])
    BY <1>u, <2>1, <2>2, <2>4 DEF PhoneOK, Asking, SameBody
  <2>6. \A b \in Apps : b # a => toApp'[b] = toApp[b]
    BY <2>2, <2>3
  <2> QED
    BY <2>1, <2>5, <2>6, PhonesOthers
<1>7. ASSUME NEW a \in Apps, ReceiveDocument(a) PROVE PhonesOK'
  <2>1. PICK q \in PhoneType :
          /\ Turned(a, q)
          /\ q.on = phone[a].on /\ q.sleeping = phone[a].sleeping
          /\ \/ /\ q.uuid = phone[a].uuid + 1
                /\ phone[a].dialog # "none" => q.dialog = phone[a].dialog
             \/ /\ q.uuid = phone[a].uuid /\ q.dialog = phone[a].dialog
                /\ "metadata" \in phone[a].subs <=> "metadata" \in q.subs
    BY <1>7, ReceiveDocumentStep
  <2>2. /\ phone[a].on /\ toApp[a] # <<>>
        /\ toApp' = [toApp EXCEPT ![a] = Tail(toApp[a])]
    BY <1>7, ReceiveDocumentStep
  <2>3. toApp[a] \in Seq(Messages) /\ toApp \in [Apps -> Seq(Messages)]
    BY DEF TypeOK, Messages
  <2>4. Answered(Tail(toApp[a])) => Answered(toApp[a])
    BY <2>2, <2>3, AnsweredShrinks
  <2>5. toApp'[a] = Tail(toApp[a]) /\ \A b \in Apps : b # a => toApp'[b] = toApp[b]
    BY <2>2, <2>3
  <2>6. PhoneOK(q, toApp'[a])
    <3>1. q.on /\ (q.sleeping => q.dialog = "ok")
      BY <1>u, <2>1, <2>2 DEF PhoneOK
    <3>2. CASE q.uuid = phone[a].uuid + 1
      BY <1>0, <3>1, <3>2 DEF PhoneOK
    <3>3. CASE q.uuid = phone[a].uuid /\ q.uuid # phone[a].uuid + 1
      BY <1>u, <2>1, <2>4, <2>5, <3>1, <3>3 DEF PhoneOK, Asking
    <3> QED
      BY <2>1, <3>2, <3>3
  <2> QED
    BY <2>1, <2>5, <2>6, PhonesOthers
<1>8. ASSUME NEW a \in Apps, Kill(a) \/ Reconnect(a) PROVE PhonesOK'
  <2>1. toApp' = [toApp EXCEPT ![a] = <<>>]
    BY <1>8, KillStep, ReconnectStep
  <2>2. toApp'[a] = <<>> /\ \A b \in Apps : b # a => toApp'[b] = toApp[b]
    BY <2>1 DEF TypeOK
  <2>3. ~Answered(<<>>)
    BY DEF Answered
  <2>4. PICK q \in PhoneType : Turned(a, q) /\ PhoneOK(q, <<>>)
    <3>1. CASE Kill(a)
      BY <2>3, <3>1, KillStep DEF PhoneOK, Asking
    <3>2. CASE Reconnect(a)
      BY <1>u, <2>3, <3>2, ReconnectStep DEF PhoneOK, Asking, SameBody
    <3> QED
      BY <1>8, <3>1, <3>2
  <2> QED
    BY <2>2, <2>4, PhonesOthers
<1>9. CASE Request
  <2>0. phone' = phone
    BY <1>9, RequestStep
  <2>1. ASSUME NEW b \in Apps PROVE PhoneOK(phone'[b], toApp'[b])
    <3>1. toApp'[b] = toApp[b] \/ "metadata" \in phone[b].subs
      BY <1>9, RequestStep
    <3> QED
      BY <1>u, <2>0, <3>1 DEF PhoneOK, Asking
  <2> QED
    BY <2>1 DEF PhonesOK
<1>10. CASE Publish
  <2>1. phone' = phone /\ Spread("update", waiting)
    BY <1>10, PublishStep
  <2>2. \A b \in Apps : Answered(toApp'[b]) => Answered(toApp[b])
    BY <1>h, <2>1, SpreadAnswered
  <2> QED
    BY <1>u, <2>1, <2>2 DEF PhonesOK, PhoneOK, Asking
<1>11. Confirm \/ Restart => PhonesOK'
  BY <1>u DEF Confirm, Restart, PhonesOK
<1> QED
  BY <1>1, <1>2, <1>3, <1>4, <1>5, <1>6, <1>7, <1>8, <1>9, <1>10, <1>11 DEF Next

LEMMA InitTypes == Init => TypeOK /\ PhonesOK
<1> SUFFICES ASSUME Init PROVE TypeOK /\ PhonesOK
  OBVIOUS
<1>1. PICK s : s = [things |-> FALSE, passcode |-> NoOne]
  OBVIOUS
<1>2. PICK p : p = Started(s)
  OBVIOUS
<1>3. phone = [a \in Apps |-> p] /\ toApp = [a \in Apps |-> <<>>]
  BY <1>1, <1>2 DEF Init
<1>4. NoOne \in Hashes /\ Stranger \in Hashes
  BY DEF Hashes
<1>5. s \in [things : BOOLEAN, passcode : Hashes]
  BY <1>1, <1>4
<1>6. p \in PhoneType /\ p.subs = {} /\ ~p.sleeping /\ p.dialog = "none"
  BY <1>2, <1>4, <1>5, SomeUuids DEF Started, PhoneType
<1>7. PhonesOK
  <2> SUFFICES ASSUME NEW a \in Apps PROVE PhoneOK(phone[a], toApp[a])
    BY DEF PhonesOK
  <2>1. phone[a] = p /\ toApp[a] = <<>> /\ ~Answered(<<>>)
    BY <1>3 DEF Answered
  <2> QED
    BY <1>6, <2>1 DEF PhoneOK, Asking
<1>8. BoardTypes
  BY <1>4, SomeUuids DEF Init, BoardTypes
<1>9. InboxTypes
  BY <1>3, SomeUuids DEF InboxTypes
<1>10. CountTypes
  BY SomeUuids DEF Init, CountTypes
<1>11. phone \in [Apps -> PhoneType]
  BY <1>3, <1>6
<1>12. early \subseteq Apps
  BY DEF Init
<1> QED
  BY <1>7, <1>8, <1>9, <1>10, <1>11, <1>12, TypeParts

LEMMA TypesInvariant == Spec => [](TypeOK /\ PhonesOK)
<1>1. TypeOK /\ PhonesOK /\ [Next]_vars => TypeOK' /\ PhonesOK'
  <2> SUFFICES ASSUME TypeOK, PhonesOK, [Next]_vars PROVE TypeOK' /\ PhonesOK'
    OBVIOUS
  <2>1. CASE Next
    BY <2>1, TypesStep, PhonesStep
  <2>2. CASE UNCHANGED vars
    BY <2>2 DEF vars, board, broker, history, TypeOK, PhonesOK
  <2> QED
    BY <2>1, <2>2
<1> QED
  BY <1>1, InitTypes, PTL DEF Spec

\* Neither the board nor an app leaves its types: the dialogs, the codes, the passcodes and
\* what is sent, for any apps, requests, mistakes and restarts (AWSIOT.swift 310-443,
\* awsiot.cpp 120-248).
THEOREM TypeCorrect == Spec => []TypeOK
  BY TypesInvariant, PTL

----------------------------------------------------------------------------
(* The owner of a quiet board                                               *)

\* Whoever listens has been told.
LEMMA SpreadTold ==
  ASSUME TypeOK, NEW t \in {"get", "update"}, NEW h \in Hashes, Spread(t, h),
         NEW b \in Apps
  PROVE  IF t \in phone'[b].subs THEN Told(toApp'[b], h) ELSE toApp'[b] = toApp[b]
<1>1. toApp[b] \in Seq(Messages) /\ Document(t, h) \in Messages
  BY DocumentType DEF TypeOK, Messages
<1>2. Document(t, h).topic # "metadata" /\ Document(t, h).hash = h
  BY DocumentType
<1>3. CASE t \in phone'[b].subs
  <2>1. toApp'[b] = Append(toApp[b], Document(t, h))
    BY <1>3 DEF Spread
  <2> QED
    BY <1>1, <1>2, <1>3, <2>1, ToldLast
<1>4. CASE t \notin phone'[b].subs
  BY <1>4 DEF Spread
<1> QED
  BY <1>3, <1>4

\* Only one app has acted, and what the others have been told is the same.
LEMMA OwnerOthers ==
  ASSUME OwnerInv, NEW a \in Apps, NEW q, Turned(a, q), hash' = hash,
         \A b \in Apps : b # a => toApp'[b] = toApp[b] /\ (b \notin missed' => b \notin missed),
         a \notin missed' => OwnerOK(q, toApp'[a], hash)
  PROVE  OwnerInv'
<1> SUFFICES ASSUME NEW b \in Apps, b \notin missed'
             PROVE  OwnerOK(phone'[b], toApp'[b], hash')
  BY DEF OwnerInv
<1>1. CASE b = a
  BY <1>1 DEF Turned
<1>2. CASE b # a
  BY <1>2 DEF Turned, OwnerInv
<1> QED
  BY <1>1, <1>2

\* After aws_iot_subscribe those who listen to the answer to /get have been told.
LEMMA OwnerSubscribed ==
  ASSUME TypeOK, OwnerInv, Spread("get", hash), hash' = hash
  PROVE  OwnerInv'
<1> SUFFICES ASSUME NEW b \in Apps
             PROVE  OwnerOK(phone'[b], toApp'[b], hash')
  BY DEF OwnerInv
<1>1. hash \in Hashes
  BY DEF TypeOK
<1>2. "get" \in phone'[b].subs => Told(toApp'[b], hash)
  BY <1>1, SpreadTold
<1> QED
  BY <1>2 DEF OwnerOK

LEMMA OwnerStep ==
  ASSUME TypeOK, PhonesOK, OwnerInv, Next
  PROVE  OwnerInv'
<1>o. \A b \in Apps : b \notin missed => OwnerOK(phone[b], toApp[b], hash)
  BY DEF OwnerInv
<1>t. toApp \in [Apps -> Seq(Messages)] /\ hash \in Hashes /\ waiting \in Hashes
  BY DEF TypeOK, Messages
<1>1. ASSUME NEW a \in Apps, Connect(a) PROVE OwnerInv'
  <2>1. hash' = hash
    BY <1>1 DEF Connect
  <2>2. CASE Spread("get", hash)
    BY <2>1, <2>2, OwnerSubscribed
  <2>3. CASE ~Spread("get", hash)
    <3>1. PICK q \in PhoneType : /\ Turned(a, q) /\ Connected(phone[a], q)
                                 /\ q.subs = phone[a].subs /\ UNCHANGED <<toApp, missed>>
      BY <1>1, <2>3, ConnectStep
    <3>2. "get" \notin q.subs
      BY <3>1 DEF PhonesOK, PhoneOK, Connected
    <3>3. OwnerOK(q, toApp'[a], hash)
      BY <3>2 DEF OwnerOK
    <3> QED
      BY <2>1, <3>1, <3>3, OwnerOthers
  <2> QED
    BY <2>2, <2>3
<1>2. ASSUME NEW a \in Apps, NEW dsn \in {"ours", "other"}, EnterDsn(a, dsn) PROVE OwnerInv'
  <2>1. PICK q \in PhoneType :
          /\ Turned(a, q) /\ q.on = phone[a].on /\ q.sleeping = phone[a].sleeping
          /\ q.passcode = phone[a].passcode /\ q.subs = phone[a].subs \cup {"metadata"}
    BY <1>2, EnterDsnStep
  <2>2. UNCHANGED <<hash, toApp, missed>>
    BY <1>2 DEF EnterDsn
  <2>3. a \notin missed' => OwnerOK(q, toApp'[a], hash)
    BY <1>o, <2>1, <2>2 DEF OwnerOK
  <2> QED
    BY <2>1, <2>2, <2>3, OwnerOthers
<1>3. ASSUME NEW a \in Apps, EnterCode(a) PROVE OwnerInv'
  <2>1. UNCHANGED <<hash, toApp, missed>>
    BY <1>3 DEF EnterCode, history
  <2>2. PICK q \in PhoneType :
          Turned(a, q) /\ (q.sleeping \/ Shows(phone[a], q, "dsn"))
    BY <1>3, EnterCodeStep
  <2>3. a \notin missed' => OwnerOK(q, toApp'[a], hash)
    BY <1>o, <2>1, <2>2 DEF OwnerOK, Shows, SameBody
  <2> QED
    BY <2>1, <2>2, <2>3, OwnerOthers
<1>4. ASSUME NEW a \in Apps, EnterWrongCode(a) \/ Accepted(a) PROVE OwnerInv'
  <2>1. PICK d \in {"none", "dsn"} :
          phone' = [phone EXCEPT ![a].dialog = d] /\ UNCHANGED <<hash, toApp, missed>>
    BY <1>4 DEF EnterWrongCode, Accepted, broker, history
  <2>2. PICK q \in PhoneType : Turned(a, q) /\ Shows(phone[a], q, d)
    BY <2>1, ShowsStep
  <2>3. a \notin missed' => OwnerOK(q, toApp'[a], hash)
    BY <1>o, <2>1, <2>2 DEF OwnerOK, Shows, SameBody
  <2> QED
    BY <2>1, <2>2, <2>3, OwnerOthers
<1>5. ASSUME NEW a \in Apps, Passed(a) PROVE OwnerInv'
  BY <1>5, PassedStep, OwnerSubscribed
<1>6. ASSUME NEW a \in Apps, ReceiveMetadata(a) PROVE OwnerInv'
  <2>1. PICK q \in PhoneType :
          Turned(a, q) /\ SameBody(q, phone[a]) /\ q.subs = phone[a].subs
    BY <1>6, ReceiveMetadataStep
  <2>2. /\ toApp[a] # <<>> /\ Head(toApp[a]).topic = "metadata"
        /\ toApp' = [toApp EXCEPT ![a] = Tail(toApp[a])]
        /\ UNCHANGED <<hash, missed>>
    BY <1>6, ReceiveMetadataStep
  <2>3. toApp'[a] = Tail(toApp[a]) /\ \A b \in Apps : b # a => toApp'[b] = toApp[b]
    BY <1>t, <2>2
  <2>4. /\ NoneLeft(toApp[a]) => NoneLeft(Tail(toApp[a]))
        /\ Told(toApp[a], hash) => Told(Tail(toApp[a]), hash)
    BY <1>t, <2>2, InboxTaken
  <2>5. a \notin missed' => OwnerOK(q, toApp'[a], hash)
    BY <1>o, <2>1, <2>2, <2>3, <2>4 DEF OwnerOK, SameBody
  <2> QED
    BY <2>1, <2>2, <2>3, <2>5, OwnerOthers
<1>7. ASSUME NEW a \in Apps, ReceiveDocument(a) PROVE OwnerInv'
  <2>1. PICK q \in PhoneType :
          /\ Turned(a, q) /\ q.on = phone[a].on /\ q.sleeping = phone[a].sleeping
          /\ q.passcode = phone[a].passcode
          /\ \/ Mismatch(phone[a], Head(toApp[a])) /\ "get" \notin q.subs
             \/ /\ ~Mismatch(phone[a], Head(toApp[a]))
                /\ "get" \in phone[a].subs <=> "get" \in q.subs
    BY <1>7, ReceiveDocumentStep
  <2>2. /\ toApp[a] # <<>> /\ Head(toApp[a]).topic # "metadata"
        /\ toApp' = [toApp EXCEPT ![a] = Tail(toApp[a])]
        /\ UNCHANGED <<hash, missed>>
    BY <1>7, ReceiveDocumentStep
  <2>3. toApp'[a] = Tail(toApp[a]) /\ \A b \in Apps : b # a => toApp'[b] = toApp[b]
    BY <1>t, <2>2
  <2>4. /\ ~NoneLeft(toApp[a])
        /\ Told(toApp[a], hash) => \/ Told(Tail(toApp[a]), hash)
                                   \/ NoneLeft(Tail(toApp[a])) /\ Head(toApp[a]).hash = hash
    BY <1>t, <2>2, InboxTaken
  <2>5. a \notin missed' => OwnerOK(q, toApp'[a], hash)
    BY <1>o, <2>1, <2>2, <2>3, <2>4 DEF OwnerOK, Mismatch
  <2> QED
    BY <2>1, <2>2, <2>3, <2>5, OwnerOthers
<1>8. ASSUME NEW a \in Apps, Kill(a) \/ Reconnect(a) PROVE OwnerInv'
  <2>1. toApp' = [toApp EXCEPT ![a] = <<>>] /\ hash' = hash
        /\ missed' \in {missed \ {a}, missed \cup {a}}
    BY <1>8, KillStep, ReconnectStep
  <2>2. PICK q \in PhoneType : Turned(a, q) /\ (~q.on \/ "get" \notin q.subs)
    BY <1>8, KillStep, ReconnectStep
  <2>3. OwnerOK(q, toApp'[a], hash)
    BY <2>2 DEF OwnerOK
  <2>4. \A b \in Apps : b # a => toApp'[b] = toApp[b] /\ (b \notin missed' => b \notin missed)
    BY <1>t, <2>1
  <2> QED
    BY <2>1, <2>2, <2>3, <2>4, OwnerOthers
<1>9. CASE Request
  <2>0. UNCHANGED <<phone, hash, missed>>
    BY <1>9 DEF Request, history
  <2>1. ASSUME NEW b \in Apps, b \notin missed PROVE OwnerOK(phone[b], toApp'[b], hash)
    <3>1. CASE toApp'[b] = toApp[b]
      BY <1>o, <2>1, <3>1
    <3>2. ASSUME NEW m \in Metadata, m.topic = "metadata", toApp'[b] = Append(toApp[b], m)
          PROVE  OwnerOK(phone[b], toApp'[b], hash)
      <4>1. m \in Messages /\ toApp[b] \in Seq(Messages)
        BY <1>t DEF Messages
      <4>2. /\ NoneLeft(toApp[b]) => NoneLeft(toApp'[b])
            /\ Told(toApp[b], hash) => Told(toApp'[b], hash)
        BY <3>2, <4>1, MetadataLast
      <4> QED
        BY <1>o, <2>1, <4>2 DEF OwnerOK
    <3> QED
      BY <1>9, <3>1, <3>2, RequestStep
  <2> QED
    BY <2>0, <2>1 DEF OwnerInv
<1>10. CASE Publish
  <2>1. /\ phone' = phone /\ hash' = waiting /\ Spread("update", waiting)
        /\ missed' = missed \cup {a \in Apps : phone[a].on /\ "update" \notin phone[a].subs}
    BY <1>10, PublishStep
  <2>2. ASSUME NEW b \in Apps, b \notin missed' PROVE OwnerOK(phone'[b], toApp'[b], hash')
    <3>1. ~phone[b].on \/ "update" \in phone[b].subs
      BY <2>1, <2>2
    <3>2. "update" \in phone'[b].subs => Told(toApp'[b], waiting)
      BY <1>t, <2>1, SpreadTold
    <3> QED
      BY <2>1, <3>1, <3>2 DEF OwnerOK
  <2> QED
    BY <2>2 DEF OwnerInv
<1>11. Confirm \/ Restart => OwnerInv'
  BY <1>o DEF Confirm, Restart, OwnerInv, history
<1> QED
  BY <1>1, <1>2, <1>3, <1>4, <1>5, <1>6, <1>7, <1>8, <1>9, <1>10, <1>11 DEF Next

LEMMA OwnerNext == TypeOK /\ PhonesOK /\ OwnerInv /\ [Next]_vars => OwnerInv'
<1>1. UNCHANGED vars /\ OwnerInv => OwnerInv'
  BY DEF vars, broker, history, OwnerInv
<1> QED
  BY <1>1, OwnerStep

LEMMA OwnerInit == Init => OwnerInv
<1> SUFFICES ASSUME Init, NEW a \in Apps PROVE ~phone[a].on
  BY DEF OwnerInv, OwnerOK
<1> QED
  BY DEF Init, Started

LEMMA OwnerImplies == OwnerInv => QuietOwner
<1> SUFFICES ASSUME OwnerInv, Quiet, NEW a \in Apps, Trusts(a), a \notin missed
             PROVE  hash \in {NoOne, phone[a].passcode}
  BY DEF QuietOwner
<1>1. ~Told(<<>>, hash)
  BY DEF Told
<1> QED
  BY <1>1 DEF OwnerInv, OwnerOK, Trusts, Quiet

\* One phone at a time: whatever was asked, mistyped, lost or restarted, when nothing is on
\* its way an app that takes itself for paired has the passcode of the document, if that has
\* a hash (AWSIOT.swift 92-97, awsiot.cpp 217-240).
THEOREM QuietOwnerAlways == Spec => []QuietOwner
  BY TypesInvariant, OwnerInit, OwnerNext, OwnerImplies, PTL DEF Spec

----------------------------------------------------------------------------
(* Who is asked                                                             *)

\* Only one app has acted; what the others have asked, or been answered, is still there.
LEMMA PromptOthers ==
  ASSUME PromptInv, NEW a \in Apps, NEW q, Turned(a, q),
         \A b \in Apps : b # a =>
            /\ Answered(toApp[b]) => Answered(toApp'[b])
            /\ Asked(toBoard, b) => Asked(toBoard', b)
            /\ b \notin unprompted' => b \notin unprompted,
         a \notin unprompted' => PromptOK(q, toApp'[a], Asked(toBoard', a))
  PROVE  PromptInv'
<1> SUFFICES ASSUME NEW b \in Apps, b \notin unprompted'
             PROVE  PromptOK(phone'[b], toApp'[b], Asked(toBoard', b))
  BY DEF PromptInv
<1>1. CASE b = a
  BY <1>1 DEF Turned
<1>2. CASE b # a
  BY <1>2 DEF Turned, PromptInv, PromptOK
<1> QED
  BY <1>1, <1>2

LEMMA SpreadKeeps ==
  ASSUME TypeOK, NEW t \in {"get", "update"}, NEW h \in Hashes, Spread(t, h),
         NEW b \in Apps, Answered(toApp[b])
  PROVE  Answered(toApp'[b])
<1>1. toApp[b] \in Seq(Messages) /\ Document(t, h) \in Messages
  BY DocumentType DEF TypeOK, Messages
<1>2. toApp'[b] = toApp[b] \/ toApp'[b] = Append(toApp[b], Document(t, h))
  BY DEF Spread
<1> QED
  BY <1>1, <1>2, InboxGrows

LEMMA PromptStep ==
  ASSUME TypeOK, PhonesOK, PromptInv, Next
  PROVE  PromptInv'
<1>o. \A b \in Apps : b \notin unprompted => PromptOK(phone[b], toApp[b], Asked(toBoard, b))
  BY DEF PromptInv
<1>t. /\ toApp \in [Apps -> Seq(Messages)] /\ toBoard \in Seq(Requests)
      /\ hash \in Hashes /\ waiting \in Hashes
  BY DEF TypeOK, Messages
<1>u. \A b \in Apps : PhoneOK(phone[b], toApp[b])
  BY DEF PhonesOK
<1>1. ASSUME NEW a \in Apps, Connect(a) PROVE PromptInv'
  <2>1. PICK q \in PhoneType :
          /\ Turned(a, q) /\ Connected(phone[a], q)
          /\ \/ q.things /\ q.subs = phone[a].subs \cup {"get", "transcript"} /\ Spread("get", hash)
             \/ ~q.things /\ UNCHANGED toApp
    BY <1>1, ConnectStep
  <2>2. UNCHANGED <<toBoard, unprompted>>
    BY <1>1 DEF Connect
  <2>3. \A b \in Apps : Answered(toApp[b]) => Answered(toApp'[b])
    BY <1>t, <2>1, SpreadKeeps
  <2>4. phone[a].dialog = "none"
    BY <1>u, <2>1 DEF PhoneOK, Connected
  <2>5. PromptOK(q, toApp'[a], Asked(toBoard', a))
    BY <2>1, <2>4 DEF PromptOK, Connected
  <2> QED
    BY <2>1, <2>2, <2>3, <2>5, PromptOthers
<1>2. ASSUME NEW a \in Apps, NEW dsn \in {"ours", "other"}, EnterDsn(a, dsn) PROVE PromptInv'
  <2>1. PICK q \in PhoneType :
          Turned(a, q) /\ q.dialog = "none" /\ q.subs = phone[a].subs \cup {"metadata"}
    BY <1>2, EnterDsnStep
  <2>2. PICK m \in Requests :
          /\ toBoard' = Append(toBoard, m)
          /\ m.requests = "ios_pairing" /\ m.uuid = Made(a, phone[a].uuid)
          /\ dsn = "ours" => m.ours
    BY <1>2, EnterDsnStep
  <2>3. /\ toApp' = toApp
        /\ \/ dsn = "ours" /\ unprompted' = unprompted \ {a}
           \/ unprompted' = unprompted \cup {a}
    BY <1>2, EnterDsnStep
  <2>4. \A b \in Apps : Asked(toBoard, b) => Asked(toBoard', b)
    BY <1>t, <2>2, QueueGrows
  <2>5. dsn = "ours" => Asked(toBoard', a)
    BY <1>t, <2>2, QueueGrows DEF IsRequest, Made
  <2>6. a \notin unprompted' => PromptOK(q, toApp'[a], Asked(toBoard', a))
    BY <2>1, <2>3, <2>5 DEF PromptOK
  <2>7. \A b \in Apps : b # a /\ b \notin unprompted' => b \notin unprompted
    BY <2>3
  <2> QED
    BY <2>1, <2>3, <2>4, <2>6, <2>7, PromptOthers
<1>3. ASSUME NEW a \in Apps, EnterCode(a) PROVE PromptInv'
  <2>1. UNCHANGED <<toApp, unprompted>>
    BY <1>3 DEF EnterCode, history
  <2>2. PICK q \in PhoneType : Turned(a, q) /\ (q.sleeping \/ q.dialog = "dsn")
    BY <1>3, EnterCodeStep DEF Shows
  <2>3. \A b \in Apps : Asked(toBoard, b) => Asked(toBoard', b)
    <3>1. CASE toBoard' = toBoard
      BY <3>1
    <3>2. ASSUME NEW m \in Requests, toBoard' = Append(toBoard, m)
          PROVE  \A b \in Apps : Asked(toBoard, b) => Asked(toBoard', b)
      BY <1>t, <3>2, QueueGrows
    <3> QED
      BY <1>3, <3>1, <3>2, EnterCodeStep
  <2>4. PromptOK(q, toApp'[a], Asked(toBoard', a))
    BY <2>2 DEF PromptOK
  <2> QED
    BY <2>1, <2>2, <2>3, <2>4, PromptOthers
<1>4. ASSUME NEW a \in Apps, EnterWrongCode(a) PROVE PromptInv'
  <2>1. phone' = [phone EXCEPT ![a].dialog = "dsn"] /\ UNCHANGED <<toApp, toBoard, unprompted>>
    BY <1>4 DEF EnterWrongCode, broker
  <2>2. PICK q \in PhoneType : Turned(a, q) /\ Shows(phone[a], q, "dsn")
    BY <2>1, ShowsStep
  <2>3. PromptOK(q, toApp'[a], Asked(toBoard', a))
    BY <2>2 DEF PromptOK, Shows
  <2> QED
    BY <2>1, <2>2, <2>3, PromptOthers
<1>5. ASSUME NEW a \in Apps, Accepted(a) PROVE PromptInv'
  <2>1. /\ phone[a].dialog = "ok" /\ ~phone[a].sleeping
        /\ phone' = [phone EXCEPT ![a].dialog = "none"]
        /\ UNCHANGED <<toApp, toBoard, unprompted>>
    BY <1>5 DEF Accepted, broker, history
  <2>2. PICK q \in PhoneType : Turned(a, q) /\ Shows(phone[a], q, "none")
    BY <2>1, ShowsStep
  <2>3. a \notin unprompted' => PromptOK(q, toApp'[a], Asked(toBoard', a))
    BY <1>o, <2>1, <2>2 DEF PromptOK, Shows, SameBody
  <2> QED
    BY <2>1, <2>2, <2>3, PromptOthers
<1>6. ASSUME NEW a \in Apps, Passed(a) PROVE PromptInv'
  <2>1. PICK q \in PhoneType :
          Turned(a, q) /\ q.subs = phone[a].subs \cup {"get", "transcript"}
    BY <1>6, PassedStep
  <2>2. Spread("get", hash) /\ UNCHANGED <<toBoard, unprompted>>
    BY <1>6, PassedStep
  <2>3. \A b \in Apps : Answered(toApp[b]) => Answered(toApp'[b])
    BY <1>t, <2>2, SpreadKeeps
  <2>4. PromptOK(q, toApp'[a], Asked(toBoard', a))
    BY <2>1 DEF PromptOK
  <2> QED
    BY <2>1, <2>2, <2>3, <2>4, PromptOthers
<1>7. ASSUME NEW a \in Apps, ReceiveMetadata(a) PROVE PromptInv'
  <2>1. PICK q \in PhoneType :
          /\ Turned(a, q) /\ SameBody(q, phone[a])
          /\ phone[a].dialog = "none" => q.dialog \in {"dsn", "code"}
    BY <1>7, ReceiveMetadataStep
  <2>2. /\ toApp' = [toApp EXCEPT ![a] = Tail(toApp[a])] /\ toBoard' = toBoard
        /\ \/ phone[a].dialog = "none" /\ unprompted' = unprompted
           \/ phone[a].dialog # "none" /\ unprompted' = unprompted \cup {a}
    BY <1>7, ReceiveMetadataStep
  <2>3. \A b \in Apps : b # a => toApp'[b] = toApp[b]
                                 /\ (b \notin unprompted' => b \notin unprompted)
    BY <1>t, <2>2
  <2>4. a \notin unprompted' => PromptOK(q, toApp'[a], Asked(toBoard', a))
    BY <2>1, <2>2 DEF PromptOK
  <2> QED
    BY <2>1, <2>2, <2>3, <2>4, PromptOthers
<1>8. ASSUME NEW a \in Apps, ReceiveDocument(a) PROVE PromptInv'
  <2>1. PICK q \in PhoneType :
          /\ Turned(a, q) /\ q.on = phone[a].on /\ q.sleeping = phone[a].sleeping
          /\ \/ phone[a].dialog = "none" /\ q.dialog = "dsn" /\ unprompted' = unprompted
             \/ unprompted' = unprompted \cup {a}
             \/ /\ q.dialog = phone[a].dialog /\ unprompted' = unprompted
                /\ "get" \in phone[a].subs <=> "get" \in q.subs
                /\ "metadata" \in phone[a].subs <=> "metadata" \in q.subs
    BY <1>8, ReceiveDocumentStep
  <2>2. /\ toApp[a] # <<>> /\ Head(toApp[a]).topic # "metadata"
        /\ toApp' = [toApp EXCEPT ![a] = Tail(toApp[a])] /\ toBoard' = toBoard
    BY <1>8, ReceiveDocumentStep
  <2>3. toApp'[a] = Tail(toApp[a]) /\ \A b \in Apps : b # a => toApp'[b] = toApp[b]
    BY <1>t, <2>2
  <2>4. Answered(toApp[a]) => Answered(Tail(toApp[a]))
    BY <1>t, <2>2, InboxTaken
  <2>5. a \notin unprompted' => PromptOK(q, toApp'[a], Asked(toBoard', a))
    BY <1>o, <2>1, <2>2, <2>3, <2>4 DEF PromptOK
  <2>6. \A b \in Apps : b \notin unprompted' => b \notin unprompted
    BY <2>1
  <2> QED
    BY <2>1, <2>2, <2>3, <2>5, <2>6, PromptOthers
<1>9. ASSUME NEW a \in Apps, Kill(a) \/ Reconnect(a) PROVE PromptInv'
  <2>1. toApp' = [toApp EXCEPT ![a] = <<>>] /\ toBoard' = toBoard
    BY <1>9, KillStep, ReconnectStep
  <2>2. PICK q \in PhoneType :
          /\ Turned(a, q)
          /\ \/ ~q.on /\ unprompted' = unprompted \ {a}
             \/ unprompted' = unprompted \cup {a}
    BY <1>9, KillStep, ReconnectStep
  <2>3. a \notin unprompted' => PromptOK(q, toApp'[a], Asked(toBoard', a))
    BY <2>2 DEF PromptOK
  <2>4. \A b \in Apps : b # a => toApp'[b] = toApp[b]
                                 /\ (b \notin unprompted' => b \notin unprompted)
    BY <1>t, <2>1, <2>2
  <2> QED
    BY <2>1, <2>2, <2>3, <2>4, PromptOthers
<1>10. CASE Request
  <2>0. /\ toBoard # <<>> /\ toBoard' = Tail(toBoard)
        /\ UNCHANGED <<phone, unprompted>>
    BY <1>10 DEF Request, history
  <2>1. ASSUME NEW b \in Apps, b \notin unprompted
        PROVE  PromptOK(phone[b], toApp'[b], Asked(toBoard', b))
    <3>1. Asked(toBoard, b) => Asked(toBoard', b) \/ IsRequest(Head(toBoard), b)
      BY <1>t, <2>0, QueueTaken
    <3>2. CASE ~Head(toBoard).ours
      <4>1. toApp' = toApp
        BY <1>10, <3>2, RequestStep
      <4> QED
        BY <1>o, <2>1, <3>1, <3>2, <4>1 DEF PromptOK, IsRequest
    <3>3. CASE Head(toBoard).ours
      <4>1. PICK m \in Metadata :
              /\ m.topic = "metadata"
              /\ \/ "metadata" \in phone[b].subs /\ toApp'[b] = Append(toApp[b], m)
                 \/ "metadata" \notin phone[b].subs /\ toApp'[b] = toApp[b]
        BY <1>10, <3>3, RequestStep
      <4>2. m \in Messages /\ toApp[b] \in Seq(Messages)
        BY <1>t DEF Messages
      <4>3. "metadata" \in phone[b].subs => Answered(toApp'[b])
        BY <4>1, <4>2, InboxGrows
      <4> QED
        BY <1>o, <2>1, <4>3 DEF PromptOK
    <3> QED
      BY <3>2, <3>3
  <2> QED
    BY <2>0, <2>1 DEF PromptInv
<1>11. CASE Confirm
  <2>0. /\ toBoard # <<>> /\ toBoard' = Tail(toBoard) /\ Head(toBoard).requests = "ios_paired"
        /\ UNCHANGED <<phone, toApp, unprompted>>
    BY <1>11 DEF Confirm, history
  <2>1. \A b \in Apps : Asked(toBoard, b) => Asked(toBoard', b)
    BY <1>t, <2>0, QueueTaken DEF IsRequest
  <2> QED
    BY <1>o, <2>0, <2>1 DEF PromptInv, PromptOK
<1>12. CASE Publish
  <2>1. UNCHANGED <<phone, toBoard, unprompted>> /\ Spread("update", waiting)
    BY <1>12, PublishStep
  <2>2. \A b \in Apps : Answered(toApp[b]) => Answered(toApp'[b])
    BY <1>t, <2>1, SpreadKeeps
  <2> QED
    BY <1>o, <2>1, <2>2 DEF PromptInv, PromptOK
<1>13. CASE Restart
  <2>1. /\ unprompted' = unprompted \cup {toBoard[i].uuid.app : i \in DOMAIN toBoard}
        /\ UNCHANGED <<phone, toApp>>
    BY <1>13 DEF Restart
  <2>2. ASSUME NEW b \in Apps, b \notin unprompted' PROVE b \notin unprompted /\ ~Asked(toBoard, b)
    BY <2>1, <2>2 DEF Asked, IsRequest
  <2> QED
    BY <1>o, <2>1, <2>2 DEF PromptInv, PromptOK
<1> QED
  BY <1>1, <1>2, <1>3, <1>4, <1>5, <1>6, <1>7, <1>8, <1>9, <1>10, <1>11, <1>12, <1>13 DEF Next

LEMMA PromptNext == TypeOK /\ PhonesOK /\ PromptInv /\ [Next]_vars => PromptInv'
<1>1. UNCHANGED vars /\ PromptInv => PromptInv'
  BY DEF vars, broker, history, PromptInv
<1> QED
  BY <1>1, PromptStep

LEMMA PromptInit == Init => PromptInv
<1> SUFFICES ASSUME Init, NEW a \in Apps PROVE ~phone[a].on
  BY DEF PromptInv, PromptOK
<1> QED
  BY DEF Init, Started

LEMMA PromptImplies == PromptInv => Prompts
<1> SUFFICES ASSUME PromptInv, Quiet, NEW a \in Apps,
                    phone[a].on, ~Trusts(a), a \notin unprompted
             PROVE  phone[a].dialog \in {"dsn", "code"}
  BY DEF Prompts
<1>1. ~Answered(<<>>) /\ ~Asked(<<>>, a)
  BY DEF Answered, Asked
<1> QED
  BY <1>1 DEF PromptInv, PromptOK, Trusts, Quiet

\* When nothing is on its way, an app that is on and has not subscribed to the shadow has a
\* question on its screen, unless it asked while another alert was up, asked another board,
\* or lost a message (ViewController.swift 55-134, AWSIOT.swift 310-397).
THEOREM PromptsAlways == Spec => []Prompts
  BY TypesInvariant, PromptInit, PromptNext, PromptImplies, PTL DEF Spec

----------------------------------------------------------------------------
(* Who is accepted                                                          *)

LEMMA FirstInboxGrows ==
  ASSUME NEW S, NEW s \in Seq(S), NEW m \in S, NEW p, NEW c, FirstInbox(p, s, c),
         IF m.topic = "metadata" THEN p.dsn = "ours" /\ m.code >= 1 /\ m.code <= c
         ELSE m.hash = NoOne
  PROVE  FirstInbox(p, Append(s, m), c)
<1>1. /\ DOMAIN s = 1 .. Len(s) /\ Len(s) \in Nat
      /\ DOMAIN Append(s, m) = 1 .. Len(s) + 1
      /\ \A i \in 1 .. Len(s) : Append(s, m)[i] = s[i]
      /\ Append(s, m)[Len(s) + 1] = m
  BY AppendPlaces
<1> SUFFICES ASSUME NEW i \in 1 .. Len(s) + 1
             PROVE  IF Append(s, m)[i].topic = "metadata"
                    THEN p.dsn = "ours" /\ Append(s, m)[i].code >= 1 /\ Append(s, m)[i].code <= c
                    ELSE Append(s, m)[i].hash = NoOne
  BY <1>1 DEF FirstInbox
<1>2. CASE i = Len(s) + 1
  BY <1>1, <1>2
<1>3. CASE i # Len(s) + 1
  <2>1. i \in DOMAIN s /\ Append(s, m)[i] = s[i]
    BY <1>1, <1>3
  <2> QED
    BY <2>1 DEF FirstInbox
<1> QED
  BY <1>2, <1>3

LEMMA FirstInboxTaken ==
  ASSUME NEW S, NEW s \in Seq(S), s # <<>>, NEW p, NEW c, FirstInbox(p, s, c)
  PROVE  /\ FirstInbox(p, Tail(s), c)
         /\ IF Head(s).topic = "metadata"
            THEN p.dsn = "ours" /\ Head(s).code >= 1 /\ Head(s).code <= c
            ELSE Head(s).hash = NoOne
<1>1. /\ Head(s) = s[1] /\ Len(s) \in Nat \ {0}
      /\ DOMAIN s = 1 .. Len(s) /\ DOMAIN Tail(s) = 1 .. Len(s) - 1
      /\ \A i \in 1 .. Len(s) - 1 : Tail(s)[i] = s[i + 1]
  BY TailPlaces
<1>2. 1 \in DOMAIN s
  BY <1>1
<1>3. ASSUME NEW i \in 1 .. Len(s) - 1 PROVE i + 1 \in DOMAIN s /\ Tail(s)[i] = s[i + 1]
  BY <1>1
<1> QED
  BY <1>1, <1>2, <1>3 DEF FirstInbox

LEMMA FirstBoardGrows ==
  ASSUME NEW S, NEW q \in Seq(S), NEW m \in S, NEW ph, NEW c,
         FirstBoard(q, ph, c), FirstMessage(m, ph, c)
  PROVE  FirstBoard(Append(q, m), ph, c)
<1>1. /\ DOMAIN q = 1 .. Len(q) /\ Len(q) \in Nat
      /\ DOMAIN Append(q, m) = 1 .. Len(q) + 1
      /\ \A i \in 1 .. Len(q) : Append(q, m)[i] = q[i]
      /\ Append(q, m)[Len(q) + 1] = m
  BY AppendPlaces
<1> SUFFICES ASSUME NEW i \in 1 .. Len(q) + 1 PROVE FirstMessage(Append(q, m)[i], ph, c)
  BY <1>1 DEF FirstBoard
<1>2. CASE i = Len(q) + 1
  BY <1>1, <1>2
<1>3. CASE i # Len(q) + 1
  BY <1>1, <1>3 DEF FirstBoard
<1> QED
  BY <1>2, <1>3

LEMMA FirstBoardTaken ==
  ASSUME NEW S, NEW q \in Seq(S), q # <<>>, NEW ph, NEW c, FirstBoard(q, ph, c)
  PROVE  FirstBoard(Tail(q), ph, c) /\ FirstMessage(Head(q), ph, c)
<1>1. /\ Head(q) = q[1] /\ Len(q) \in Nat \ {0}
      /\ DOMAIN q = 1 .. Len(q) /\ DOMAIN Tail(q) = 1 .. Len(q) - 1
      /\ \A i \in 1 .. Len(q) - 1 : Tail(q)[i] = q[i + 1]
  BY TailPlaces
<1>2. 1 \in DOMAIN q
  BY <1>1
<1>3. ASSUME NEW i \in 1 .. Len(q) - 1 PROVE i + 1 \in DOMAIN q /\ Tail(q)[i] = q[i + 1]
  BY <1>1
<1> QED
  BY <1>1, <1>2, <1>3 DEF FirstBoard

\* A document without a hash for all who listen.
LEMMA FirstSpread ==
  ASSUME TypeOK, FirstFacts, NEW t \in {"get", "update"}, Spread(t, NoOne), NEW b \in Apps
  PROVE  FirstInbox(phone[b], toApp'[b], codes)
<1>1. toApp[b] \in Seq(Messages) /\ NoOne \in Hashes
  BY DEF TypeOK, Messages, Hashes
<1>2. /\ Document(t, NoOne) \in Messages /\ Document(t, NoOne).topic # "metadata"
      /\ Document(t, NoOne).hash = NoOne
  BY <1>1, DocumentType DEF Messages
<1>3. toApp'[b] = toApp[b] \/ toApp'[b] = Append(toApp[b], Document(t, NoOne))
  BY DEF Spread
<1>4. FirstInbox(phone[b], toApp[b], codes)
  BY DEF FirstFacts
<1> QED
  BY <1>1, <1>2, <1>3, <1>4, FirstInboxGrows

\* An app has acted and sent nothing, and its serial number and UUID are what they were.
LEMMA FirstOthers ==
  ASSUME TypeOK, FirstFacts, NEW a \in Apps, NEW q \in PhoneType, Turned(a, q),
         UNCHANGED <<board, toBoard>>,
         q.dsn = phone[a].dsn, q.uuid = phone[a].uuid \/ q.dsn = "none",
         q.saved = phone[a].saved,
         FirstPhone(q, codes),
         \A b \in Apps : FirstInbox(phone[b], toApp'[b], codes)
  PROVE  FirstFacts'
<1>0. \A b \in Apps : phone'[b].dsn = phone[b].dsn /\ phone'[b].saved = phone[b].saved
  BY DEF Turned
<1>1. \A b \in Apps : phone[b].dsn = "ours" => phone'[b].uuid = phone[b].uuid
  BY DEF Turned
<1>2. UNCHANGED <<uuid, waiting, codes, toBoard>>
  BY DEF board
<1>3. ASSUME NEW b \in Apps
     PROVE  FirstPhone(phone'[b], codes') /\ FirstInbox(phone'[b], toApp'[b], codes')
  <2>1. FirstPhone(phone'[b], codes)
    BY DEF Turned, FirstFacts
  <2>2. FirstInbox(phone'[b], toApp'[b], codes)
    BY <1>0 DEF FirstInbox
  <2> QED
    BY <1>2, <2>1, <2>2
<1>4. FirstBoard(toBoard', phone', codes')
  <2> SUFFICES ASSUME NEW i \in DOMAIN toBoard PROVE FirstMessage(toBoard[i], phone', codes)
    BY <1>2 DEF FirstBoard
  <2>1. FirstMessage(toBoard[i], phone, codes)
    BY DEF FirstFacts, FirstBoard
  <2>2. toBoard[i].uuid.app \in Apps
    <3>1. toBoard[i] \in Requests
      BY DEF TypeOK
    <3> QED
      BY <3>1 DEF Requests, Uuids
  <2> QED
    BY <1>0, <1>1, <2>1, <2>2 DEF FirstMessage
<1>5. \A b \in Apps : phone'[b].dsn = "ours" => Served(b)' \/ Pending(toBoard', b)
  BY <1>0, <1>1, <1>2 DEF FirstFacts, Served
<1>6. \A b \in Apps : phone'[b].saved.things => waiting' # NoOne \/ Confirming(toBoard', b)
  BY <1>0, <1>2 DEF FirstFacts
<1> QED
  BY <1>3, <1>4, <1>5, <1>6 DEF FirstFacts

\* Nobody errs, nothing fails and the document keeps having no hash: what can happen then.
LEMMA PlainStep ==
  ASSUME TypeOK, PhonesOK, Next, Plain'
  PROVE  /\ Plain
         /\ \/ \E a \in Apps :
                 \/ Connect(a) \/ EnterDsn(a, "ours") \/ EnterCode(a) \/ Passed(a) \/ Accepted(a)
                 \/ ReceiveMetadata(a) \/ ReceiveDocument(a)
            \/ Request \/ Confirm
<1>t. codes \in Nat /\ faults \in Nat /\ mistakes \in Nat
  BY SomeUuids DEF TypeOK
<1>p. codes' <= 1 /\ faults' = 0 /\ mistakes' = 0 /\ hash' = NoOne
  BY DEF Plain
<1>1. ASSUME NEW a \in Apps, Kill(a) \/ Reconnect(a) \/ EnterWrongCode(a) \/ EnterDsn(a, "other")
      PROVE  FALSE
  <2>1. faults' = faults + 1 \/ mistakes' = mistakes + 1
    BY <1>1 DEF Kill, Reconnect, EnterWrongCode, EnterDsn
  <2> QED
    BY <1>t, <1>p, <2>1
<1>2. ~Restart
  BY <1>t, <1>p DEF Restart
<1>3. ~Publish
  BY <1>p DEF Publish
<1>4. ASSUME NEW a \in Apps,
             \/ Connect(a) \/ EnterDsn(a, "ours") \/ EnterCode(a) \/ Passed(a) \/ Accepted(a)
             \/ ReceiveMetadata(a) \/ ReceiveDocument(a)
      PROVE  UNCHANGED <<codes, faults, mistakes, hash>>
  BY <1>4 DEF Connect, EnterDsn, EnterCode, Passed, Accepted, ReceiveMetadata, ReceiveDocument,
              board, broker, history
<1>5. CASE Request
  <2>1. UNCHANGED <<faults, mistakes, hash>> /\ codes' \in {codes, codes + 1}
    BY <1>5 DEF Request, history
  <2> QED
    BY <1>5, <1>t, <1>p, <2>1 DEF Plain
<1>6. CASE Confirm
  BY <1>6, <1>p DEF Confirm, history, Plain
<1> QED
  BY <1>1, <1>2, <1>3, <1>4, <1>5, <1>6, <1>p DEF Next, Plain

LEMMA FirstConnect ==
  ASSUME TypeOK, PhonesOK, FirstFacts, Plain, NEW a \in Apps, Connect(a)
  PROVE  FirstFacts'
<1>1. PICK q \in PhoneType :
        /\ Turned(a, q) /\ Connected(phone[a], q)
        /\ \/ q.subs = phone[a].subs \cup {"get", "transcript"} /\ Spread("get", hash)
           \/ q.subs = phone[a].subs /\ UNCHANGED toApp
  BY ConnectStep
<1>2. UNCHANGED <<board, toBoard>> /\ hash = NoOne
  BY DEF Connect, Plain
<1>3. \A b \in Apps : FirstInbox(phone[b], toApp'[b], codes)
  BY <1>1, <1>2, FirstSpread DEF FirstFacts
<1>4. FirstPhone(phone[a], codes) /\ phone[a].subs = {} /\ phone[a].dialog = "none"
  BY <1>1 DEF FirstFacts, PhonesOK, PhoneOK, Connected
<1>5. FirstPhone(q, codes) /\ q.dsn = "none" /\ phone[a].dsn = "none" /\ q.saved = phone[a].saved
  BY <1>1, <1>4 DEF FirstPhone, Connected
<1> QED
  BY <1>1, <1>2, <1>3, <1>5, FirstOthers

LEMMA FirstPassed ==
  ASSUME TypeOK, PhonesOK, FirstFacts, Plain, NEW a \in Apps, Passed(a)
  PROVE  FirstFacts'
<1>1. PICK q \in PhoneType :
        /\ Turned(a, q)
        /\ q.on = phone[a].on /\ q.dsn = phone[a].dsn /\ q.saved = phone[a].saved
        /\ q.uuid = phone[a].uuid /\ q.auth = phone[a].auth /\ q.dialog = phone[a].dialog
        /\ q.subs = phone[a].subs \cup {"get", "transcript"}
  BY PassedStep
<1>2. Spread("get", NoOne) /\ UNCHANGED <<board, toBoard>>
  BY PassedStep DEF Plain
<1>3. \A b \in Apps : FirstInbox(phone[b], toApp'[b], codes)
  BY <1>2, FirstSpread
<1>4. FirstPhone(q, codes)
  <2>1. FirstPhone(phone[a], codes)
    BY DEF FirstFacts
  <2> QED
    BY <1>1, <2>1 DEF FirstPhone
<1> QED
  BY <1>1, <1>2, <1>3, <1>4, FirstOthers

LEMMA FirstAccepted ==
  ASSUME TypeOK, PhonesOK, FirstFacts, Plain, NEW a \in Apps, Accepted(a)
  PROVE  FirstFacts'
<1>1. /\ phone' = [phone EXCEPT ![a].dialog = "none"]
      /\ UNCHANGED <<board, toBoard, toApp>>
  BY DEF Accepted, broker
<1>2. PICK q \in PhoneType : Turned(a, q) /\ Shows(phone[a], q, "none")
  BY <1>1, ShowsStep
<1>3. FirstPhone(q, codes) /\ \A b \in Apps : FirstInbox(phone[b], toApp'[b], codes)
  <2>1. \A b \in Apps : FirstPhone(phone[b], codes) /\ FirstInbox(phone[b], toApp[b], codes)
    BY DEF FirstFacts
  <2> QED
    BY <1>1, <1>2, <2>1 DEF FirstPhone, Shows, SameBody
<1> QED
  BY <1>1, <1>2, <1>3, FirstOthers DEF Shows, SameBody

LEMMA FirstReceived ==
  ASSUME TypeOK, PhonesOK, FirstFacts, Plain, NEW a \in Apps,
         ReceiveMetadata(a) \/ ReceiveDocument(a)
  PROVE  FirstFacts'
<1>1. /\ toApp[a] # <<>> /\ toApp' = [toApp EXCEPT ![a] = Tail(toApp[a])]
      /\ UNCHANGED <<board, toBoard>>
  BY ReceiveMetadataStep, ReceiveDocumentStep
<1>2. toApp \in [Apps -> Seq(Messages)]
  BY DEF TypeOK, Messages
<1>3. toApp'[a] = Tail(toApp[a]) /\ \A b \in Apps : b # a => toApp'[b] = toApp[b]
  BY <1>1, <1>2
<1>4. \A b \in Apps : FirstPhone(phone[b], codes) /\ FirstInbox(phone[b], toApp[b], codes)
  BY DEF FirstFacts
<1>5. /\ FirstInbox(phone[a], toApp'[a], codes)
      /\ IF Head(toApp[a]).topic = "metadata"
         THEN /\ phone[a].dsn = "ours"
              /\ Head(toApp[a]).code >= 1 /\ Head(toApp[a]).code <= codes
         ELSE Head(toApp[a]).hash = NoOne
  BY <1>1, <1>2, <1>3, <1>4, FirstInboxTaken
<1>6. \A b \in Apps : FirstInbox(phone[b], toApp'[b], codes)
  BY <1>3, <1>4, <1>5
<1>7. CASE ReceiveMetadata(a)
  <2>1. PICK q \in PhoneType :
          /\ Turned(a, q) /\ SameBody(q, phone[a])
          /\ q.uuid = phone[a].uuid /\ q.subs = phone[a].subs
          /\ phone[a].dialog # "none" => q.dialog = phone[a].dialog
          /\ \/ q.auth = Head(toApp[a]).code
                /\ (phone[a].dialog = "none" => q.dialog = "code")
             \/ phone[a].dsn # "ours"
    BY <1>7, ReceiveMetadataStep
  <2>2. Head(toApp[a]).topic = "metadata"
    BY <1>7, ReceiveMetadataStep
  <2>3. FirstPhone(q, codes)
    BY <1>4, <1>5, <2>1, <2>2 DEF FirstPhone, SameBody
  <2> QED
    BY <1>1, <1>6, <2>1, <2>3, FirstOthers DEF SameBody
<1>8. CASE ReceiveDocument(a)
  <2>1. Head(toApp[a]).topic # "metadata"
    BY <1>8, ReceiveDocumentStep
  <2>2. ~Mismatch(phone[a], Head(toApp[a]))
    BY <1>5, <2>1 DEF Mismatch
  <2>3. PICK q \in PhoneType :
          /\ Turned(a, q)
          /\ q.on = phone[a].on /\ q.dsn = phone[a].dsn /\ q.saved = phone[a].saved
          /\ q.auth = phone[a].auth /\ q.uuid = phone[a].uuid /\ q.dialog = phone[a].dialog
          /\ "metadata" \in phone[a].subs <=> "metadata" \in q.subs
    BY <1>8, <2>2, ReceiveDocumentStep
  <2>4. FirstPhone(q, codes)
    BY <1>4, <2>3 DEF FirstPhone
  <2> QED
    BY <1>1, <1>6, <2>3, <2>4, FirstOthers
<1> QED
  BY <1>7, <1>8

LEMMA FirstAsked ==
  ASSUME TypeOK, PhonesOK, FirstFacts, Plain, NEW a \in Apps, EnterDsn(a, "ours")
  PROVE  FirstFacts'
<1>1. PICK q \in PhoneType :
        /\ Turned(a, q)
        /\ q.on = phone[a].on /\ q.uuid = phone[a].uuid /\ q.auth = phone[a].auth
        /\ q.saved = phone[a].saved
        /\ q.dialog = "none" /\ q.dsn = "ours"
        /\ q.subs = phone[a].subs \cup {"metadata"}
  BY EnterDsnStep
<1>2. PICK m \in Requests :
        /\ toBoard' = Append(toBoard, m)
        /\ m.requests = "ios_pairing" /\ m.uuid = Made(a, phone[a].uuid) /\ m.ours
  BY EnterDsnStep
<1>3. UNCHANGED <<uuid, waiting, codes, toApp>> /\ phone[a].dialog = "dsn"
  BY EnterDsnStep DEF board
<1>4. toBoard \in Seq(Requests)
  BY DEF TypeOK
<1>5. FirstPhone(phone[a], codes) /\ phone[a].dsn = "none" /\ phone[a].on
  BY <1>3 DEF FirstFacts, FirstPhone, PhonesOK, PhoneOK
<1>6. \A i \in DOMAIN toBoard : toBoard[i].uuid.app # a /\ toBoard[i].uuid.app \in Apps
  <2> SUFFICES ASSUME NEW i \in DOMAIN toBoard
               PROVE  toBoard[i].uuid.app # a /\ toBoard[i].uuid.app \in Apps
    OBVIOUS
  <2>1. toBoard[i] \in Requests
    BY <1>4
  <2>2. toBoard[i].uuid.app \in Apps
    BY <2>1 DEF Requests, Uuids
  <2> QED
    BY <1>5, <2>2 DEF FirstFacts, FirstBoard, FirstMessage
<1>7. ASSUME NEW b \in Apps
     PROVE  FirstPhone(phone'[b], codes') /\ FirstInbox(phone'[b], toApp'[b], codes')
  <2>1. FirstPhone(phone[b], codes) /\ FirstInbox(phone[b], toApp[b], codes)
    BY DEF FirstFacts
  <2>2. CASE b = a
    <3>1. FirstPhone(q, codes)
      BY <1>1, <1>5 DEF FirstPhone
    <3>2. FirstInbox(q, toApp[a], codes)
      BY <1>1, <2>1, <2>2 DEF FirstInbox
    <3> QED
      BY <1>1, <1>3, <2>2, <3>1, <3>2 DEF Turned
  <2>3. CASE b # a
    BY <1>1, <1>3, <2>1, <2>3 DEF Turned
  <2> QED
    BY <2>2, <2>3
<1>8. FirstBoard(toBoard', phone', codes')
  <2>1. FirstBoard(toBoard, phone', codes)
    BY <1>1, <1>6 DEF FirstFacts, FirstBoard, FirstMessage, Turned
  <2>2. FirstMessage(m, phone', codes)
    BY <1>1, <1>2 DEF FirstMessage, Turned, Made
  <2> QED
    BY <1>2, <1>3, <1>4, <2>1, <2>2, FirstBoardGrows
<1>9. ASSUME NEW b \in Apps, phone'[b].dsn = "ours" PROVE Served(b)' \/ Pending(toBoard', b)
  <2>1. CASE b = a
    <3>1. ~Confirming(toBoard, a)
      BY <1>6 DEF Confirming, IsConfirm
    <3>2. IsRequest(m, a)
      BY <1>2 DEF IsRequest, Made
    <3> QED
      BY <1>2, <1>4, <2>1, <3>1, <3>2, QueueGrows
  <2>2. CASE b # a
    <3>1. phone'[b] = phone[b]
      BY <1>1, <2>2 DEF Turned
    <3>2. Served(b) \/ Pending(toBoard, b)
      BY <1>9, <3>1 DEF FirstFacts
    <3>3. Pending(toBoard, b) => Pending(toBoard', b)
      BY <1>2, <1>4, QueueGrows
    <3> QED
      BY <1>3, <3>1, <3>2, <3>3 DEF Served
  <2> QED
    BY <2>1, <2>2
<1>10. ASSUME NEW b \in Apps, phone'[b].saved.things
       PROVE  waiting' # NoOne \/ Confirming(toBoard', b)
  <2>1. phone[b].saved.things
    BY <1>1, <1>10 DEF Turned
  <2>2. waiting # NoOne \/ Confirming(toBoard, b)
    BY <2>1 DEF FirstFacts
  <2> QED
    BY <1>2, <1>3, <1>4, <2>2, QueueGrows
<1> QED
  BY <1>7, <1>8, <1>9, <1>10 DEF FirstFacts

LEMMA FirstEntered ==
  ASSUME TypeOK, PhonesOK, FirstFacts, Plain, NEW a \in Apps, EnterCode(a)
  PROVE  FirstFacts'
<1>1. FirstPhone(phone[a], codes) /\ phone[a].dialog = "code"
  BY EnterCodeStep DEF FirstFacts
<1>2. phone[a].auth = codes /\ codes >= 1 /\ phone[a].dsn = "ours"
  <2>1. PICK n : n = phone[a].auth
    OBVIOUS
  <2>2. n \in Nat /\ codes \in Nat
    BY <2>1, SomeUuids DEF TypeOK, PhoneType
  <2> QED
    BY <1>1, <2>1, <2>2 DEF FirstPhone, Plain
<1>3. PICK q \in PhoneType :
        /\ Turned(a, q)
        /\ q.on = phone[a].on /\ q.uuid = phone[a].uuid /\ q.dsn = phone[a].dsn
        /\ q.auth = phone[a].auth /\ q.subs = phone[a].subs
        /\ q.dialog = "ok" /\ q.saved.things
  BY <1>2, EnterCodeStep
<1>4. PICK m \in Requests :
        /\ toBoard' = Append(toBoard, m)
        /\ m.requests = "ios_paired" /\ m.uuid = Made(a, phone[a].uuid) /\ m.ours
        /\ m.hash # NoOne
  BY <1>2, EnterCodeStep
<1>5. UNCHANGED <<uuid, waiting, codes, toApp>>
  BY EnterCodeStep DEF board
<1>6. toBoard \in Seq(Requests)
  BY DEF TypeOK
<1>7. \A b \in Apps : phone'[b].dsn = phone[b].dsn /\ phone'[b].uuid = phone[b].uuid
  BY <1>3 DEF Turned
<1>8. ASSUME NEW b \in Apps
     PROVE  FirstPhone(phone'[b], codes') /\ FirstInbox(phone'[b], toApp'[b], codes')
  <2>1. FirstPhone(phone[b], codes) /\ FirstInbox(phone[b], toApp[b], codes)
    BY DEF FirstFacts
  <2>2. FirstPhone(q, codes)
    BY <1>1, <1>2, <1>3 DEF FirstPhone
  <2>3. FirstPhone(phone'[b], codes)
    BY <1>3, <2>1, <2>2 DEF Turned
  <2>4. FirstInbox(phone'[b], toApp[b], codes)
    BY <1>7, <2>1 DEF FirstInbox
  <2> QED
    BY <1>5, <2>3, <2>4
<1>9. FirstBoard(toBoard', phone', codes')
  <2>1. \A i \in DOMAIN toBoard : toBoard[i].uuid.app \in Apps
    <3> SUFFICES ASSUME NEW i \in DOMAIN toBoard PROVE toBoard[i].uuid.app \in Apps
      OBVIOUS
    <3>1. toBoard[i] \in Requests
      BY <1>6
    <3> QED
      BY <3>1 DEF Requests, Uuids
  <2>2. FirstBoard(toBoard, phone', codes)
    BY <1>7, <2>1 DEF FirstFacts, FirstBoard, FirstMessage
  <2>3. FirstMessage(m, phone', codes)
    BY <1>2, <1>4, <1>7 DEF FirstMessage, Made
  <2> QED
    BY <1>4, <1>5, <1>6, <2>2, <2>3, FirstBoardGrows
<1>10. ASSUME NEW b \in Apps, phone'[b].dsn = "ours" PROVE Served(b)' \/ Pending(toBoard', b)
  <2>1. Served(b) \/ Pending(toBoard, b)
    BY <1>7, <1>10 DEF FirstFacts
  <2>2. Pending(toBoard, b) => Pending(toBoard', b)
    BY <1>4, <1>6, QueueGrows
  <2> QED
    BY <1>5, <1>7, <2>1, <2>2 DEF Served
<1>11. ASSUME NEW b \in Apps, phone'[b].saved.things
       PROVE  waiting' # NoOne \/ Confirming(toBoard', b)
  <2>1. CASE b = a
    BY <1>4, <1>6, <2>1, QueueGrows DEF IsConfirm, Made
  <2>2. CASE b # a
    <3>1. waiting # NoOne \/ Confirming(toBoard, b)
      BY <1>3, <1>11, <2>2 DEF FirstFacts, Turned
    <3> QED
      BY <1>4, <1>5, <1>6, <3>1, QueueGrows
  <2> QED
    BY <2>1, <2>2
<1> QED
  BY <1>8, <1>9, <1>10, <1>11 DEF FirstFacts

LEMMA FirstServed ==
  ASSUME TypeOK, PhonesOK, FirstFacts, Plain, Plain', Request
  PROVE  FirstFacts'
<1>1. /\ toBoard # <<>> /\ Head(toBoard) \in Requests
      /\ Head(toBoard).requests = "ios_pairing" /\ toBoard' = Tail(toBoard)
      /\ UNCHANGED <<waiting, phone>>
  BY RequestStep
<1>2. /\ toBoard \in Seq(Requests) /\ toApp \in [Apps -> Seq(Messages)]
      /\ codes \in Nat
  BY SomeUuids DEF TypeOK, Messages
<1>3. FirstMessage(Head(toBoard), phone, codes) /\ FirstBoard(Tail(toBoard), phone, codes)
  BY <1>1, <1>2, FirstBoardTaken DEF FirstFacts
<1>4. PICK m \in Metadata :
        /\ m.topic = "metadata" /\ m.code = codes + 1
        /\ \A b \in Apps : \/ "metadata" \in phone[b].subs /\ toApp'[b] = Append(toApp[b], m)
                           \/ "metadata" \notin phone[b].subs /\ toApp'[b] = toApp[b]
  BY <1>3, RequestStep DEF FirstMessage
<1>5. codes' = codes + 1 /\ uuid' = Head(toBoard).uuid
  BY <1>3, RequestStep DEF FirstMessage
<1>6. codes = 0 /\ codes' = 1
  BY <1>2, <1>5 DEF Plain
<1>7. ASSUME NEW b \in Apps PROVE FirstPhone(phone[b], 1) /\ FirstInbox(phone[b], toApp'[b], 1)
  <2>1. FirstPhone(phone[b], 0) /\ FirstInbox(phone[b], toApp[b], 0)
    BY <1>6 DEF FirstFacts
  <2>2. phone[b].auth \in Nat
    BY SomeUuids DEF TypeOK, PhoneType
  <2>3. FirstPhone(phone[b], 1)
    BY <2>1, <2>2 DEF FirstPhone
  <2>4. FirstInbox(phone[b], toApp[b], 1)
    <3> SUFFICES ASSUME NEW i \in DOMAIN toApp[b]
                 PROVE  IF toApp[b][i].topic = "metadata"
                        THEN /\ phone[b].dsn = "ours"
                             /\ toApp[b][i].code >= 1 /\ toApp[b][i].code <= 1
                        ELSE toApp[b][i].hash = NoOne
      BY DEF FirstInbox
    <3>1. toApp[b][i] \in Messages
      BY <1>2
    <3>2. toApp[b][i].topic = "metadata" => toApp[b][i].code \in Nat
      BY <3>1, MessageTypes, SomeUuids DEF Messages
    <3> QED
      BY <2>1, <3>2 DEF FirstInbox
  <2>5. CASE toApp'[b] = toApp[b]
    BY <2>3, <2>4, <2>5
  <2>6. CASE "metadata" \in phone[b].subs /\ toApp'[b] = Append(toApp[b], m)
    <3>1. phone[b].dsn = "ours"
      BY <2>1, <2>6 DEF FirstPhone
    <3>2. m \in Messages /\ toApp[b] \in Seq(Messages)
      BY <1>2 DEF Messages
    <3>3. FirstInbox(phone[b], Append(toApp[b], m), 1)
      BY <1>4, <1>6, <2>4, <3>1, <3>2, FirstInboxGrows
    <3> QED
      BY <2>3, <2>6, <3>3
  <2> QED
    BY <1>4, <2>5, <2>6
<1>8. FirstBoard(toBoard', phone', codes')
  <2> SUFFICES ASSUME NEW i \in DOMAIN Tail(toBoard)
               PROVE  FirstMessage(Tail(toBoard)[i], phone, 1)
    BY <1>1, <1>6 DEF FirstBoard
  <2>1. FirstMessage(Tail(toBoard)[i], phone, 0)
    BY <1>3, <1>6 DEF FirstBoard
  <2> QED
    BY <2>1 DEF FirstMessage
<1>9. ASSUME NEW b \in Apps, phone[b].dsn = "ours" PROVE Served(b)' \/ Pending(toBoard', b)
  <2>1. Pending(toBoard, b)
    BY <1>6, <1>9 DEF FirstFacts, Served
  <2>2. Pending(Tail(toBoard), b) \/ IsRequest(Head(toBoard), b)
    BY <1>1, <1>2, <2>1, QueueTaken
  <2>3. CASE IsRequest(Head(toBoard), b)
    <3>1. Head(toBoard).uuid \in Uuids /\ Head(toBoard).uuid.app = b
      BY <1>1, <2>3 DEF Requests, IsRequest
    <3>2. Head(toBoard).uuid.n = phone[b].uuid
      BY <1>3, <3>1 DEF FirstMessage
    <3>3. Head(toBoard).uuid = Made(b, phone[b].uuid)
      BY <3>1, <3>2 DEF Uuids, Made
    <3> QED
      BY <1>1, <1>5, <1>6, <3>3 DEF Served
  <2> QED
    BY <1>1, <2>2, <2>3
<1>10. \A b \in Apps : ~phone[b].saved.things
  BY <1>6 DEF FirstFacts, FirstPhone
<1> QED
  BY <1>1, <1>6, <1>7, <1>8, <1>9, <1>10 DEF FirstFacts

LEMMA FirstConfirmed ==
  ASSUME TypeOK, PhonesOK, FirstFacts, Plain, Confirm
  PROVE  FirstFacts'
<1>1. /\ toBoard # <<>> /\ Head(toBoard).requests = "ios_paired" /\ toBoard' = Tail(toBoard)
      /\ waiting' = IF Taken(Head(toBoard)) THEN Head(toBoard).hash ELSE waiting
      /\ UNCHANGED <<uuid, codes, toApp, phone>>
  BY DEF Confirm
<1>2. toBoard \in Seq(Requests) /\ Head(toBoard) \in Requests
  BY <1>1, TailPlaces DEF TypeOK
<1>3. FirstMessage(Head(toBoard), phone, codes) /\ FirstBoard(Tail(toBoard), phone, codes)
  BY <1>1, <1>2, FirstBoardTaken DEF FirstFacts
<1>4. \A b \in Apps : Pending(toBoard, b) => Pending(toBoard', b) /\ ~IsConfirm(Head(toBoard), b)
  BY <1>1, <1>2, QueueTaken DEF IsRequest
<1>5. ASSUME NEW b \in Apps, phone[b].saved.things
      PROVE  waiting' # NoOne \/ Confirming(toBoard', b)
  <2>1. CASE waiting # NoOne
    BY <1>1, <1>3, <2>1 DEF FirstMessage
  <2>2. CASE Confirming(Tail(toBoard), b)
    BY <1>1, <2>2
  <2>3. CASE IsConfirm(Head(toBoard), b)
    <3>1. Head(toBoard).uuid \in Uuids /\ Head(toBoard).uuid.app = b
      BY <1>2, <2>3 DEF Requests, IsConfirm
    <3>2. phone[b].dsn = "ours" /\ Head(toBoard).uuid.n = phone[b].uuid
      BY <1>3, <3>1 DEF FirstMessage
    <3>3. Served(b)
      BY <1>4, <2>3, <3>2 DEF FirstFacts
    <3>4. Head(toBoard).uuid = uuid
      BY <3>1, <3>2, <3>3 DEF Uuids, Made, Served
    <3>5. Taken(Head(toBoard)) /\ Head(toBoard).hash # NoOne
      BY <1>1, <1>3, <3>4 DEF Taken, FirstMessage
    <3> QED
      BY <1>1, <3>5
  <2>4. waiting # NoOne \/ Confirming(toBoard, b)
    BY <1>5 DEF FirstFacts
  <2> QED
    BY <1>1, <1>2, <2>1, <2>2, <2>3, <2>4, QueueTaken
<1>6. \A b \in Apps : phone'[b].dsn = "ours" => Served(b)' \/ Pending(toBoard', b)
  BY <1>1, <1>4 DEF FirstFacts, Served
<1> QED
  BY <1>1, <1>3, <1>5, <1>6 DEF FirstFacts

LEMMA FirstNext == TypeOK /\ PhonesOK /\ FirstInv /\ [Next]_vars => FirstInv'
<1> SUFFICES ASSUME TypeOK, PhonesOK, FirstInv, [Next]_vars, Plain' PROVE FirstFacts'
  BY DEF FirstInv
<1>1. CASE Next
  <2>1. Plain /\ FirstFacts
    BY <1>1, PlainStep DEF FirstInv
  <2> QED
    BY <1>1, <2>1, PlainStep, FirstConnect, FirstPassed, FirstAccepted, FirstReceived,
       FirstAsked, FirstEntered, FirstServed, FirstConfirmed
<1>2. CASE UNCHANGED vars
  BY <1>2 DEF vars, board, broker, history, FirstInv, FirstFacts, Plain, Served
<1> QED
  BY <1>1, <1>2

LEMMA FirstInit == Init => FirstInv
<1> SUFFICES ASSUME Init PROVE FirstFacts
  BY DEF FirstInv
<1>1. \A a \in Apps : /\ phone[a].dsn = "none" /\ phone[a].dialog = "none" /\ phone[a].subs = {}
                      /\ phone[a].saved.things = FALSE
                      /\ toApp[a] = <<>>
  BY DEF Init, Started
<1>2. toBoard = <<>> /\ DOMAIN <<>> = {}
  BY DEF Init
<1> QED
  BY <1>1, <1>2 DEF FirstFacts, FirstPhone, FirstInbox, FirstBoard

LEMMA FirstImplies == TypeOK /\ FirstInv => FirstComeServed
<1> SUFFICES ASSUME TypeOK, FirstInv, Quiet, hash = NoOne, NEW a \in Apps, phone[a].saved.things,
                    codes <= 1, faults = 0, mistakes = 0
             PROVE  FALSE
  BY SomeUuids DEF FirstComeServed, TypeOK
<1>1. ~Confirming(<<>>, a)
  BY DEF Confirming
<1> QED
  BY <1>1 DEF FirstInv, Plain, FirstFacts, Quiet

\* "Accepted" means accepted: as long as the board has answered one request, nobody erred and
\* nothing failed, an app that was told so finds a hash in the document once nothing is on
\* its way (AWSIOT.swift 320-340, awsiot.cpp 217-240).
THEOREM FirstComeServedAlways == Spec => []FirstComeServed
  BY TypesInvariant, FirstInit, FirstNext, FirstImplies, PTL DEF Spec
=============================================================================
