------------------------------ MODULE Pairing ------------------------------
(***************************************************************************)
(* How an iOS app is paired with the board (AWSIOT.swift, ViewController    *)
(* .swift and awsiot_subscribe_productmetadata_callback of awsiot.cpp).     *)
(* The user gives the serial number of the board; the app asks, under a     *)
(* fresh UUID; the board shows a code and tells every app that listens the  *)
(* hash of the code. The user types the code, the app makes a passcode and  *)
(* sends its hash; the board, if the UUID is that of the last request,      *)
(* reports the hash in the shadow. From then on an app whose passcode does  *)
(* not have the hash of the document has to pair again.                     *)
(*                                                                         *)
(* A code, a UUID and a passcode are random: here each is new, the n-th of  *)
(* its owner. The broker is external: a document, and what is on its way    *)
(* to each side, in order.                                                  *)
(***************************************************************************)
EXTENDS Integers, Sequences

CONSTANTS
  Apps,
  MaxCodes,     \* bound: requests the board answers
  MaxPasscodes, \* bound: passcodes made
  MaxTrouble,   \* bound: mistakes and faults together
  MaxInFlight   \* bound: messages on their way to each side

ASSUME BoundAssumption ==
  {MaxCodes, MaxPasscodes, MaxTrouble, MaxInFlight} \subseteq Nat

VARIABLES
  uuid,       \* board: of the last request
  waiting,    \* board: the hash awsiot_update has queued
  codes,      \* board: codes made so far
  hash,       \* external: the hash of the document
  toBoard,    \* external: mailbox/productmetadata
  toApp,      \* external: mailbox/productmetadata/get, /get/accepted, /update/accepted
  phone,      \* the apps, see PhoneType
  passcodes,  \* passcodes made so far
  mistakes,   \* history: wrong serial numbers and codes
  faults,     \* history: restarts of the board, kills and lost connections of the apps
  missed,     \* history: apps a hash did not reach
  unprompted, \* history: apps with a prompt that was not shown because another was, a
              \* serial number nobody answers, or a message that was lost
  early       \* history: apps that asked for the document while it had an older hash and the
              \* board had not published theirs

board == <<uuid, waiting, codes>>
broker == <<hash, toBoard, toApp>>
history == <<mistakes, faults, missed, unprompted, early>>
vars == <<board, broker, phone, passcodes, history>>

\* What an app makes, the n-th of its kind; nobody's, somebody else's.
NoOne == [app |-> "-", n |-> 0]
Stranger == [app |-> "?", n |-> 1]
Made(a, n) == [app |-> a, n |-> n]

MaxUuids == MaxPasscodes + MaxCodes + MaxTrouble + 2
Uuids == [app : Apps, n : 1 .. MaxUuids]
Hashes == [app : Apps, n : 1 .. MaxPasscodes] \cup {NoOne, Stranger}

Requests == [requests : {"ios_pairing", "ios_paired"}, ours : BOOLEAN, uuid : Uuids, hash : Hashes]
Metadata == [topic : {"metadata"}, uuid : Uuids, code : 1 .. MaxCodes, hash : {NoOne}]
Documents == [topic : {"get", "update"}, uuid : {NoOne}, code : {0}, hash : Hashes]

Topics == {"metadata", "transcript", "get", "update"}
PhoneType ==
  [on : BOOLEAN,                               \* aws_iot_isConnected
   uuid : 0 .. MaxUuids,
   dsn : {"none", "ours", "other"},
   auth : 0 .. MaxCodes,                       \* auth_HASH
   dialog : {"none", "dsn", "code", "ok"},     \* the alert on the screen
   sleeping : BOOLEAN,                         \* inside aws_iot_pairing_passed
   things : BOOLEAN, passcode : Hashes,        \* myThings, paired_passcode
   saved : [things : BOOLEAN, passcode : Hashes],   \* UserDefaults
   subs : SUBSET Topics,
   got : BOOLEAN]                              \* get_finished

TypeOK ==
  /\ uuid \in Uuids \cup {NoOne} /\ waiting \in Hashes /\ codes \in 0 .. MaxCodes
  /\ hash \in Hashes
  /\ toBoard \in Seq(Requests) /\ Len(toBoard) <= MaxInFlight
  /\ toApp \in [Apps -> Seq(Metadata \cup Documents)]
  /\ \A a \in Apps : Len(toApp[a]) <= MaxInFlight
  /\ phone \in [Apps -> PhoneType] /\ passcodes \in 0 .. MaxPasscodes
  /\ mistakes \in 0 .. MaxTrouble /\ faults \in 0 .. MaxTrouble
  /\ missed \subseteq Apps /\ unprompted \subseteq Apps /\ early \subseteq Apps

Started(saved) ==
  [on |-> FALSE, uuid |-> 0, dsn |-> "none", auth |-> 0, dialog |-> "none", sleeping |-> FALSE,
   things |-> FALSE, passcode |-> NoOne, saved |-> saved, subs |-> {}, got |-> FALSE]

\* Nobody, or somebody whose phone is not here, has paired before.
Init ==
  /\ uuid = NoOne /\ waiting = NoOne /\ codes = 0
  /\ hash \in {NoOne, Stranger}
  /\ toBoard = <<>> /\ toApp = [a \in Apps |-> <<>>]
  /\ phone = [a \in Apps |-> Started([things |-> FALSE, passcode |-> NoOne])]
  /\ passcodes = 0
  /\ mistakes = 0 /\ faults = 0 /\ missed = {} /\ unprompted = {} /\ early = {}

----------------------------------------------------------------------------
(* Helpers of the app *)

Room(q) == Len(q) < MaxInFlight
Untroubled == mistakes + faults < MaxTrouble

\* A slip of Prompted: the second dialog is never shown.
PromptedOnce(p, dialog) == IF p.dsn = "none" THEN [p EXCEPT !.dialog = dialog] ELSE p

\* UIKit shows one alert of a view controller at a time; a second one is dropped.
Prompted(p, dialog) == IF p.dialog = "none" THEN [p EXCEPT !.dialog = dialog] ELSE p

Unprompted(p, a) == IF p.dialog = "none" THEN unprompted ELSE unprompted \cup {a}

\* A slip of aws_iot_pairing: the user is not asked.
PairingSilent(p) == [p EXCEPT !.uuid = @ + 1]

\* aws_iot_pairing: a new UUID, and the user is asked for the serial number.
aws_iot_pairing(p) == Prompted([p EXCEPT !.uuid = @ + 1], "dsn")

\* aws_iot_disconnected keeps the subscription to /update/accepted.
aws_iot_disconnected(p) == [p EXCEPT !.subs = @ \ {"metadata", "transcript", "get"}]

\* A slip of Mismatch: only the answer to /get is checked.
MismatchAtGet(p, m) == m.topic = "get" /\ m.hash # NoOne /\ p.passcode # m.hash

\* The check of update_item. A document, or an update, without a hash is not checked.
Mismatch(p, m) == m.hash # NoOne /\ p.passcode # m.hash

\* What the broker sends to all who have subscribed.
Broadcast(topic, m, ph) ==
  /\ \A b \in Apps : topic \in ph[b].subs => Room(toApp[b])
  /\ toApp' = [b \in Apps |-> IF topic \in ph[b].subs THEN Append(toApp[b], m) ELSE toApp[b]]

Document(topic, h) == [topic |-> topic, uuid |-> NoOne, code |-> 0, hash |-> h]

\* aws_iot_subscribe: subscribe to the answer, ask for the document, subscribe to
\* /transcript/get. The answer goes to everybody who listens.
aws_iot_subscribe(a, p) ==
  LET ph == [phone EXCEPT ![a] = [p EXCEPT !.subs = @ \cup {"get", "transcript"}]]
  IN  /\ phone' = ph
      /\ Broadcast("get", Document("get", hash), ph)
      /\ missed' = missed \ {b \in Apps : "get" \in ph[b].subs}

Send(m) == Room(toBoard) /\ toBoard' = Append(toBoard, m)

----------------------------------------------------------------------------
(* The app *)

\* aws_iot_connected, the first time.
Connect(a) ==
  LET p == phone[a]
      q == [p EXCEPT !.on = TRUE, !.things = p.saved.things, !.passcode = p.saved.passcode]
      r == IF p.saved.things /\ p.saved.passcode # NoOne THEN q ELSE aws_iot_pairing(q)
  IN  /\ ~p.on
      /\ p.uuid < MaxUuids
      /\ IF r.things THEN aws_iot_subscribe(a, r)
         ELSE /\ phone' = [phone EXCEPT ![a] = r]
              /\ UNCHANGED <<toApp, missed>>
      /\ UNCHANGED <<passcodes, board, hash, toBoard, mistakes, faults, unprompted, early>>

\* "Next" in display_dsn_dialog, then aws_iot_productmetadata. Nobody answers to the
\* serial number of another board.
EnterDsn(a, dsn) ==
  LET p == phone[a]
  IN  /\ p.dialog = "dsn"
      /\ dsn = "other" => Untroubled
      /\ phone' = [phone EXCEPT ![a] =
                     [p EXCEPT !.dialog = "none", !.dsn = dsn, !.subs = @ \cup {"metadata"}]]
      /\ Send([requests |-> "ios_pairing", ours |-> dsn = "ours", uuid |-> Made(a, p.uuid), hash |-> NoOne])
      /\ mistakes' = IF dsn = "other" THEN mistakes + 1 ELSE mistakes
      /\ unprompted' = IF dsn = "other" THEN unprompted \cup {a} ELSE unprompted \ {a}
      /\ UNCHANGED <<passcodes, board, hash, toApp, faults, missed, early>>

\* "OK" in display_pairing_dialog: the user types what the board shows, which may be newer
\* than what the app has been told. If it is right, aws_iot_pairing_passed up to its sleep;
\* if not, the serial number is asked for again.
EnterCode(a) ==
  LET p == phone[a]
      h == Made(a, passcodes + 1)
  IN  /\ p.dialog = "code"
      /\ IF p.auth = codes
         THEN /\ passcodes < MaxPasscodes
              /\ passcodes' = passcodes + 1
              /\ phone' = [phone EXCEPT ![a] =
                [p EXCEPT !.dialog = "ok", !.sleeping = TRUE, !.things = TRUE, !.passcode = h,
                          !.saved = [things |-> TRUE, passcode |-> h]]]
              /\ Send([requests |-> "ios_paired", ours |-> p.dsn = "ours", uuid |-> Made(a, p.uuid), hash |-> h])
         ELSE /\ phone' = [phone EXCEPT ![a].dialog = "dsn"]
              /\ UNCHANGED <<passcodes, toBoard>>
      /\ UNCHANGED <<board, hash, toApp, history>>

\* ... or mistypes it.
EnterWrongCode(a) ==
  /\ phone[a].dialog = "code"
  /\ Untroubled
  /\ mistakes' = mistakes + 1
  /\ phone' = [phone EXCEPT ![a].dialog = "dsn"]
  /\ UNCHANGED <<passcodes, board, broker, faults, missed, unprompted, early>>

\* The second half of aws_iot_pairing_passed, after a second.
Passed(a) ==
  /\ phone[a].sleeping
  /\ aws_iot_subscribe(a, [phone[a] EXCEPT !.sleeping = FALSE])
  /\ early' = IF hash # NoOne /\ (waiting # NoOne \/ toBoard # <<>>) THEN early \cup {a} ELSE early
  /\ UNCHANGED <<passcodes, board, hash, toBoard, mistakes, faults, unprompted>>

\* The alert "Accepted" is closed.
Accepted(a) ==
  /\ phone[a].dialog = "ok" /\ ~phone[a].sleeping
  /\ phone' = [phone EXCEPT ![a].dialog = "none"]
  /\ UNCHANGED <<passcodes, board, broker, history>>

\* messageblock of aws_iot_productmetadata. The answer to another app is taken, too.
ReceiveMetadata(a) ==
  LET p == phone[a]
      m == Head(toApp[a])
      mine == m.uuid = Made(a, p.uuid)
  IN  /\ p.on /\ toApp[a] # <<>> /\ m.topic = "metadata"
      /\ phone' = [phone EXCEPT ![a] = IF mine /\ p.dsn # "ours" THEN Prompted(p, "dsn")
                                       ELSE Prompted([p EXCEPT !.auth = m.code], "code")]
      /\ unprompted' = Unprompted(p, a)
      /\ toApp' = [toApp EXCEPT ![a] = Tail(@)]
      /\ UNCHANGED <<passcodes, board, hash, toBoard, mistakes, faults, missed, early>>

\* messageblock of aws_iot_subscribe: update_item, and after the first message
\* /update/accepted is subscribed to.
ReceiveDocument(a) ==
  LET p == phone[a]
      m == Head(toApp[a])
      q == IF Mismatch(p, m) THEN aws_iot_pairing(aws_iot_disconnected(p)) ELSE p
  IN  /\ p.on /\ toApp[a] # <<>> /\ m.topic # "metadata"
      /\ p.uuid < MaxUuids
      /\ phone' = [phone EXCEPT ![a] = [q EXCEPT !.got = TRUE, !.subs = @ \cup (IF p.got THEN {} ELSE {"update"})]]
      /\ unprompted' = IF Mismatch(p, m) THEN Unprompted(p, a) ELSE unprompted
      /\ toApp' = [toApp EXCEPT ![a] = Tail(@)]
      /\ UNCHANGED <<passcodes, board, hash, toBoard, mistakes, faults, missed, early>>

\* The app is killed: what it saved stays.
Kill(a) ==
  /\ phone[a].on
  /\ Untroubled
  /\ faults' = faults + 1
  /\ phone' = [phone EXCEPT ![a] = [Started(@.saved) EXCEPT !.uuid = phone[a].uuid]]
  /\ toApp' = [toApp EXCEPT ![a] = <<>>]
  /\ missed' = missed \ {a} /\ unprompted' = unprompted \ {a}
  /\ UNCHANGED <<passcodes, board, hash, toBoard, mistakes, early>>

\* The connection of the app is lost and made again: mqttEventCallback ends in
\* aws_iot_disconnected and then in the early return of aws_iot_connected.
Reconnect(a) ==
  /\ phone[a].on
  /\ Untroubled
  /\ faults' = faults + 1
  /\ phone' = [phone EXCEPT ![a] = aws_iot_disconnected(@)]
  /\ toApp' = [toApp EXCEPT ![a] = <<>>]
  /\ missed' = missed \cup {a} /\ unprompted' = unprompted \cup {a}
  /\ UNCHANGED <<passcodes, board, hash, toBoard, mistakes, early>>

----------------------------------------------------------------------------
(* The board *)

\* awsiot_subscribe_productmetadata_callback with "ios_pairing": the last to ask is
\* the one that may confirm.
Request ==
  LET m == Head(toBoard)
  IN  /\ toBoard # <<>> /\ m.requests = "ios_pairing"
      /\ toBoard' = Tail(toBoard)
      /\ IF m.ours
         THEN /\ codes < MaxCodes
              /\ codes' = codes + 1
              /\ uuid' = m.uuid
              /\ Broadcast("metadata", [topic |-> "metadata", uuid |-> m.uuid, code |-> codes', hash |-> NoOne],
                           phone)
         ELSE UNCHANGED <<uuid, codes, toApp>>
      /\ UNCHANGED <<passcodes, waiting, hash, phone, history>>

\* A slip of Taken: the comparison is the wrong way round.
TakenSwapped(m) == m.ours /\ m.uuid # uuid

\* ... with "ios_paired": anybody else is ignored, and not told so.
Taken(m) == m.ours /\ m.uuid = uuid

Confirm ==
  LET m == Head(toBoard)
  IN  /\ toBoard # <<>> /\ m.requests = "ios_paired"
      /\ toBoard' = Tail(toBoard)
      /\ waiting' = IF Taken(m) THEN m.hash ELSE waiting
      /\ UNCHANGED <<passcodes, uuid, codes, hash, toApp, phone, history>>

\* awsiot_shadow_cycle publishes what awsiot_update has queued.
Publish ==
  /\ waiting # NoOne
  /\ hash' = waiting
  /\ waiting' = NoOne
  /\ Broadcast("update", Document("update", waiting), phone)
  /\ missed' = missed \cup {a \in Apps : phone[a].on /\ "update" \notin phone[a].subs}
  /\ UNCHANGED <<passcodes, uuid, codes, toBoard, phone, mistakes, faults, unprompted, early>>

\* The board restarts: uuid and what waits are gone, and so is what was on its way.
Restart ==
  /\ Untroubled
  /\ faults' = faults + 1
  /\ uuid' = NoOne /\ waiting' = NoOne
  /\ toBoard' = <<>>
  /\ unprompted' = unprompted \cup {toBoard[i].uuid.app : i \in DOMAIN toBoard}
  /\ UNCHANGED <<passcodes, codes, hash, toApp, phone, mistakes, missed, early>>

Next ==
  \/ \E a \in Apps :
       \/ Connect(a) \/ EnterDsn(a, "ours") \/ EnterDsn(a, "other")
       \/ EnterCode(a) \/ EnterWrongCode(a) \/ Passed(a) \/ Accepted(a)
       \/ ReceiveMetadata(a) \/ ReceiveDocument(a) \/ Kill(a) \/ Reconnect(a)
  \/ Request \/ Confirm \/ Publish \/ Restart

Spec == Init /\ [][Next]_vars

\* The threads run, messages arrive, and the user answers what is asked, in the end
\* without a mistake.
FairSpec ==
  /\ Spec
  /\ \A a \in Apps :
       /\ WF_vars(EnterDsn(a, "ours")) /\ WF_vars(EnterCode(a)) /\ WF_vars(Accepted(a))
       /\ WF_vars(Passed(a)) /\ WF_vars(ReceiveMetadata(a)) /\ WF_vars(ReceiveDocument(a))
  /\ WF_vars(Request) /\ WF_vars(Confirm) /\ WF_vars(Publish)

----------------------------------------------------------------------------
(* Properties *)

Quiet ==
  /\ waiting = NoOne /\ toBoard = <<>>
  /\ \A a \in Apps : toApp[a] = <<>> /\ ~phone[a].sleeping

\* The app has subscribed to the shadow, and nothing has told it that it is not paired.
Trusts(a) == phone[a].on /\ "get" \in phone[a].subs

\* What pairing is for: one phone at a time. When nothing is on its way, an app that
\* takes itself for paired has the passcode of the document, if that has a hash at all. Two
\* apps may be in the middle of pairing, and one may have been paired all along: the one
\* that loses hears of it, unless the hash was published between the answer to its /get
\* and its subscription to /update/accepted.
QuietOwner ==
  Quiet => \A a \in Apps : Trusts(a) /\ a \notin missed => hash \in {NoOne, phone[a].passcode}

\* "Accepted" means accepted as long as the board answers one request only and nobody
\* errs: the document gets a hash. (The board says nothing of a confirmation it ignores,
\* and an app that asked another board takes the answer to somebody else.)
FirstComeServed ==
  Quiet /\ hash = NoOne /\ (\E a \in Apps : phone[a].saved.things)
    => codes > 1 \/ faults > 0 \/ mistakes > 0

\* An app that is not paired asks its user for the next step, unless it asked while
\* another alert was up, asked another board, or lost a message.
Prompts ==
  Quiet => \A a \in Apps : phone[a].on /\ ~Trusts(a) /\ phone[a].passcode # hash /\ a \notin unprompted
                             => phone[a].dialog \in {"dsn", "code"}

\* A user alone with the board, answering what is asked, gets paired with it, unless the
\* app asked for the document too early: a second after its confirmation it finds an older
\* hash there, takes itself for unpaired, and pairs anew with another passcode, each time,
\* maybe for ever.
Alone(a) == phone[a].on /\ faults = 0 /\ \A b \in Apps \ {a} : ~phone[b].on
LoneAppPairs ==
  \A a \in Apps : <>[](Alone(a) /\ phone[a].dsn # "other" /\ a \notin early)
                    => <>[](hash = phone[a].passcode /\ hash = phone[a].saved.passcode /\ hash # NoOne)
=============================================================================
