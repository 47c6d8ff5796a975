----------------------------- MODULE ShadowSync -----------------------------
(***************************************************************************)
(* Buttons and slider in three places: on the board (hw.cpp), in the        *)
(* document of the AWS IoT shadow, and in the iOS app (AWSIOT.swift). The   *)
(* board reports each change and applies what comes back on                 *)
(* /update/accepted: the app's desired values, and its own reports. The app *)
(* mirrors what is reported and, every two seconds, asks for what its       *)
(* switches show and the mirror does not.                                   *)
(*                                                                         *)
(* How a report waits for its publish is the subject of ShadowQueue: here   *)
(* shadow_status is the set of values that wait. The broker is external: a  *)
(* document, and what is on its way to each side, in order. The connection  *)
(* is not lost.                                                             *)
(***************************************************************************)
EXTENDS Integers, Sequences

CONSTANTS
  Buttons, Sliders,  \* the keys hw_aws_sync knows, in the order of a map: buttons first
  KeyOrder,          \* all keys, in the order of update_item
  Resend,            \* resend of AWSIOT.swift, 5
  MaxChanges,        \* bound: changes made by people in a behaviour
  MaxInFlight        \* bound: messages on their way to each side, and messages with blocks
                     \* in the app's main queue when the next one is taken

ASSUME KeysAssumption ==
  /\ Buttons \cap Sliders = {}
  /\ "-" \notin Buttons \cup Sliders
  /\ KeyOrder \in Seq(Buttons \cup Sliders)
  /\ Buttons \cup Sliders = {KeyOrder[i] : i \in DOMAIN KeyOrder}
ASSUME ResendAssumption == Resend \in Nat \ {0}
ASSUME BoundAssumption == MaxChanges \in Nat /\ MaxInFlight \in Nat

VARIABLES
  hw,              \* hw_button, hw_slider
  hw_aws_publish,  \* the board has been told of the document
  shadow_status,   \* values waiting to be reported
  main,            \* what the main loop has set and not yet passed to awsiot_update
  cb,              \* the message the AWS thread is working on
  started,         \* awsiot_shadow_cycle has asked for the document
  reported,        \* external: the document
  toDevice, toApp, \* external: accepted messages on their way
  app,             \* "off"; "getting" until the first message; "got" (get_finished);
                   \* "on" when the timer of run_loop has been started
  json, ui,        \* the mirror (json_button_0, ...) and the switches of the app
  tasks,           \* blocks of DispatchQueue.main: for each message the switches still to
                   \* be set, and the block that starts the timer
  sendJSON, numofsend,
  changes,         \* history: changes made by people
  chosen,          \* history: values somebody chose, and those of the first document
  spoilt,          \* history: keys whose last change the board was not made to report
  calm             \* history: the last change was made when all was settled and the app was
                   \* heard, and it has not asked for what it was about to take back

device == <<hw, hw_aws_publish, shadow_status, main, cb, started>>
broker == <<reported, toDevice, toApp>>
phone == <<app, json, ui, tasks, sendJSON, numofsend>>
history == <<changes, chosen, spoilt, calm>>
vars == <<device, broker, phone, history>>

Keys == Buttons \cup Sliders
Values == {0, 1}
Docs == UNION {[K -> Values] : K \in SUBSET Keys}
Empty == [c \in {} |-> 0]
With(f, g) == [c \in DOMAIN f \cup DOMAIN g |-> IF c \in DOMAIN g THEN g[c] ELSE f[c]]
Only(c, v) == [k \in {c} |-> v]

Messages == [part : {"reported", "desired"}, vals : Docs]

\* A call of hw_set_button or hw_set_slider between its assignment and its report.
Report(c, v) == [key |-> c, value |-> v]
NoReport == [key |-> "-", value |-> 0]
Reports == [key : Keys, value : Values] \cup {NoReport}

\* The loop of hw_aws_sync: the keys still to come, exit, a call under way.
Loop(v, t, e, r) == [busy |-> TRUE, vals |-> v, todo |-> t, exit |-> e, report |-> r]
NoMessage == [busy |-> FALSE, vals |-> Empty, todo |-> {}, exit |-> FALSE, report |-> NoReport]

DeviceOK ==
  /\ hw \in [Keys -> Values] /\ hw_aws_publish \in BOOLEAN
  /\ shadow_status \in Docs
  /\ main \in Reports
  /\ cb \in [busy : BOOLEAN, vals : Docs, todo : SUBSET Keys, exit : BOOLEAN, report : Reports]
  /\ cb.todo \subseteq DOMAIN cb.vals
  /\ started \in BOOLEAN

BrokerOK ==
  /\ reported \in [Keys -> Values]
  /\ toDevice \in Seq(Messages) /\ toApp \in Seq(Messages)
  /\ Len(toDevice) <= MaxInFlight /\ Len(toApp) <= MaxInFlight

PhoneOK ==
  /\ app \in {"off", "getting", "got", "on"}
  /\ json \in [Keys -> Values] /\ ui \in [Keys -> Values]
  /\ tasks \in Seq(Docs)
  /\ sendJSON \in Docs /\ numofsend \in 0 .. Resend + 1

HistoryOK ==
  /\ changes \in 0 .. MaxChanges
  /\ chosen \subseteq [key : Keys, value : Values]
  /\ spoilt \subseteq Keys /\ calm \in BOOLEAN

TypeOK == DeviceOK /\ BrokerOK /\ PhoneOK /\ HistoryOK

\* The board and the app start from zero, the document from what it was left with.
Init ==
  /\ hw = [c \in Keys |-> 0] /\ hw_aws_publish = FALSE
  /\ shadow_status = Empty /\ main = NoReport /\ cb = NoMessage
  /\ started = FALSE
  /\ reported \in [Keys -> Values]
  /\ toDevice = <<>> /\ toApp = <<>>
  /\ app = "off"
  /\ json = [c \in Keys |-> 0] /\ ui = [c \in Keys |-> 0]
  /\ tasks = <<>> /\ sendJSON = Empty /\ numofsend = 0
  /\ changes = 0
  /\ chosen = {Report(c, reported[c]) : c \in Keys}
  /\ spoilt = {} /\ calm = TRUE

----------------------------------------------------------------------------
(* When nothing is on its way *)

DeviceQuiet ==
  /\ started /\ hw_aws_publish
  /\ shadow_status = Empty /\ main = NoReport /\ ~cb.busy /\ toDevice = <<>>

AppQuiet == app \in {"off", "on"} /\ toApp = <<>> /\ tasks = <<>>

DeviceAgrees(c) == hw[c] = reported[c]
AppAgrees(c) == app = "on" => json[c] = reported[c] /\ ui[c] = reported[c]

Settled ==
  /\ DeviceQuiet /\ AppQuiet
  /\ \A c \in Keys : AppAgrees(c) /\ (c \in spoilt \/ DeviceAgrees(c))

\* A person changes a key. Afterwards only a change made in peace is vouched for.
Changed(c, v, inPeace) ==
  /\ changes < MaxChanges
  /\ changes' = changes + 1
  /\ chosen' = chosen \cup {Report(c, v)}
  /\ calm' = inPeace

----------------------------------------------------------------------------
(* The board, main loop *)

\* A touch: the first half of hw_set_button, hw_set_slider.
Touch(c, v) ==
  /\ main = NoReport
  /\ hw[c] # v
  /\ Changed(c, v, Settled)
  /\ hw' = [hw EXCEPT ![c] = v]
  /\ main' = Report(c, v)
  /\ spoilt' = spoilt \ {c}
  /\ UNCHANGED <<hw_aws_publish, shadow_status, cb, started, broker, phone>>

\* hw_sendAWSCommand, which is silent until the board has been told of the document.
\* If that is just happening and c has been dealt with, nobody will come back to c.
TouchReport ==
  /\ main # NoReport
  /\ shadow_status' = IF hw_aws_publish
                      THEN With(shadow_status, Only(main.key, main.value)) ELSE shadow_status
  /\ spoilt' = IF ~hw_aws_publish /\ cb.busy /\ main.key \notin cb.todo
                  /\ hw[main.key] = main.value
               THEN spoilt \cup {main.key} ELSE spoilt
  /\ main' = NoReport
  /\ UNCHANGED <<hw, hw_aws_publish, cb, started, broker, phone, changes, chosen, calm>>

----------------------------------------------------------------------------
(* The board, AWS thread *)

Room(q, n) == Len(q) + n <= MaxInFlight

\* The broker answers a /get to whoever has subscribed, not only to who asked.
Answer(toBoth) ==
  /\ Room(toDevice, 1) /\ Room(toApp, 1)
  /\ toDevice' = Append(toDevice, [part |-> "reported", vals |-> reported])
  /\ toApp' = IF toBoth THEN Append(toApp, [part |-> "reported", vals |-> reported]) ELSE toApp
  /\ UNCHANGED reported

\* awsiot_shadow_cycle asks for the document.
Get ==
  /\ ~started
  /\ started' = TRUE
  /\ Answer(app # "off")
  /\ UNCHANGED <<hw, hw_aws_publish, shadow_status, main, cb, phone, history>>

\* ... publishes what waits. The broker accepts it, and everybody hears of it, the
\* app once it has subscribed to /update/accepted (get_finished).
Publish ==
  /\ started /\ ~cb.busy
  /\ shadow_status # Empty
  /\ Room(toDevice, 1) /\ Room(toApp, 1)
  /\ reported' = With(reported, shadow_status)
  /\ toDevice' = Append(toDevice, [part |-> "reported", vals |-> shadow_status])
  /\ toApp' = IF app \in {"got", "on"} THEN Append(toApp, [part |-> "reported", vals |-> shadow_status])
              ELSE toApp
  /\ shadow_status' = Empty
  /\ UNCHANGED <<hw, hw_aws_publish, main, cb, started, phone, history>>

\* A message arrives while the AWS thread yields: awsiot_subscribe_get_callback or
\* awsiot_subscribe_update_callback, which look for reported and for desired.
Receive ==
  /\ started /\ ~cb.busy
  /\ toDevice # <<>>
  /\ LET vals == Head(toDevice).vals IN cb' = Loop(vals, DOMAIN vals, FALSE, NoReport)
  /\ toDevice' = Tail(toDevice)
  /\ UNCHANGED <<hw, hw_aws_publish, shadow_status, main, started, reported, toApp, phone, history>>

\* A slip of SyncKey: what comes back is not applied.
SyncKeyIgnored(c) ==
  /\ cb.busy /\ cb.report = NoReport
  /\ c \in cb.todo
  /\ cb' = Loop(cb.vals, cb.todo \ {c}, cb.exit, NoReport)
  /\ UNCHANGED <<hw, hw_aws_publish, shadow_status, main, started, broker, phone, history>>

\* One turn of the loop of hw_aws_sync. After a button exit stays set, and a slider is
\* passed over.
SyncKey(c) ==
  /\ cb.busy /\ cb.report = NoReport
  /\ c \in cb.todo
  /\ c \in Sliders => cb.todo \cap Buttons = {}
  /\ LET v == cb.vals[c]
         heard == c \in Buttons \/ ~cb.exit
     IN  /\ hw' = IF heard THEN [hw EXCEPT ![c] = v] ELSE hw
         /\ cb' = Loop(cb.vals, cb.todo \ {c}, cb.exit \/ c \in Buttons,
                       IF heard /\ hw[c] # v THEN Report(c, v) ELSE NoReport)
         /\ spoilt' = IF hw[c] = v THEN spoilt
                      ELSE IF heard THEN spoilt \ {c} ELSE spoilt \cup {c}
  /\ UNCHANGED <<hw_aws_publish, shadow_status, main, started, broker, phone,
                 changes, chosen, calm>>

SyncReport ==
  /\ cb.report # NoReport
  /\ shadow_status' = IF hw_aws_publish
                      THEN With(shadow_status, Only(cb.report.key, cb.report.value))
                      ELSE shadow_status
  /\ cb' = Loop(cb.vals, cb.todo, cb.exit, NoReport)
  /\ UNCHANGED <<hw, hw_aws_publish, main, started, broker, phone, history>>

SyncEnd ==
  /\ cb.busy /\ cb.todo = {} /\ cb.report = NoReport
  /\ hw_aws_publish' = TRUE
  /\ cb' = NoMessage
  /\ UNCHANGED <<hw, shadow_status, main, started, broker, phone, history>>

----------------------------------------------------------------------------
(* The app *)

\* aws_iot_subscribe: subscribe to the answers, ask.
AppStart ==
  /\ app = "off"
  /\ app' = "getting"
  /\ calm' = (calm /\ DeviceQuiet)
  /\ IF started THEN Answer(TRUE)
     ELSE /\ Room(toApp, 1)
          /\ toApp' = Append(toApp, [part |-> "reported", vals |-> reported])
          /\ UNCHANGED <<reported, toDevice>>
  /\ UNCHANGED <<device, json, ui, tasks, sendJSON, numofsend, changes, chosen, spoilt>>

\* The blocks update_item sends to the main queue set one switch each, in KeyOrder. Here
\* they are the values of the message they still have to set; none are left to the timer.
Timer == Empty

First(c, block) ==
  \E i \in DOMAIN KeyOrder : /\ KeyOrder[i] = c /\ c \in DOMAIN block
                            /\ \A j \in 1 .. i - 1 : KeyOrder[j] \notin DOMAIN block

\* A slip of UpdateItem: the switches are set and the mirror is not.
UpdateItemSwitchesOnly ==
  /\ toApp # <<>>
  /\ Len(tasks) < MaxInFlight
  /\ tasks' = tasks \o <<Head(toApp).vals>> \o IF app = "getting" THEN <<Timer>> ELSE <<>>
  /\ toApp' = Tail(toApp)
  /\ app' = IF app = "getting" THEN "got" ELSE app
  /\ UNCHANGED <<device, reported, toDevice, json, ui, sendJSON, numofsend, history>>

\* A slip of UpdateItem: the timer is started before the switches are set.
UpdateItemTimerFirst ==
  /\ toApp # <<>>
  /\ Len(tasks) < MaxInFlight
  /\ LET vals == Head(toApp).vals IN
       /\ json' = With(json, vals)
       /\ tasks' = tasks \o (IF app = "getting" THEN <<Timer>> ELSE <<>>) \o <<vals>>
  /\ toApp' = Tail(toApp)
  /\ app' = IF app = "getting" THEN "got" ELSE app
  /\ UNCHANGED <<device, reported, toDevice, ui, sendJSON, numofsend, history>>

\* messageblock and update_item: the mirror at once, the switches later. The first
\* message also subscribes to updates and, behind its blocks, starts the timer.
UpdateItem ==
  /\ toApp # <<>>
  /\ Len(tasks) < MaxInFlight
  /\ LET vals == Head(toApp).vals IN
       /\ json' = With(json, vals)
       /\ tasks' = tasks \o <<vals>> \o IF app = "getting" THEN <<Timer>> ELSE <<>>
  /\ toApp' = Tail(toApp)
  /\ app' = IF app = "getting" THEN "got" ELSE app
  /\ UNCHANGED <<device, reported, toDevice, ui, sendJSON, numofsend, history>>

StartTimer ==
  /\ tasks # <<>> /\ Head(tasks) = Timer
  /\ app' = "on"
  /\ tasks' = Tail(tasks)
  /\ UNCHANGED <<device, broker, json, ui, sendJSON, numofsend, history>>

SetSwitch(c) ==
  /\ tasks # <<>> /\ First(c, Head(tasks))
  /\ LET rest == [k \in DOMAIN Head(tasks) \ {c} |-> Head(tasks)[k]] IN
       /\ ui' = [ui EXCEPT ![c] = Head(tasks)[c]]
       /\ tasks' = (IF DOMAIN rest = {} THEN <<>> ELSE <<rest>>) \o Tail(tasks)
  /\ UNCHANGED <<device, broker, app, json, sendJSON, numofsend, history>>

\* This message has been sent as often as it ever will: a number above Resend never
\* divides it, and only another message resets the count.
GivenUp(message) == message = sendJSON /\ numofsend >= Resend

\* The user moves a switch. No code runs: the actions of ViewController.swift are
\* bound to an event that a UISwitch does not send. A board that is already where the
\* app wants a slider that was passed over reports nothing, and the app hears nothing.
Toggle(c, v) ==
  /\ ui[c] # v
  /\ Changed(c, v, Settled /\ app = "on" /\ c \notin spoilt /\ ~GivenUp(Only(c, v)))
  /\ ui' = [ui EXCEPT ![c] = v]
  /\ UNCHANGED <<device, broker, app, json, tasks, sendJSON, numofsend, spoilt>>

Wanted == {c \in Keys : json[c] # ui[c]}
Desired == [c \in Wanted |-> ui[c]]

\* The same message as the last time is sent again only now and then. A number
\* above Resend never divides it, so the count stops there.
RunLoop ==
  /\ app = "on"
  /\ Wanted # {}
  /\ LET n == IF numofsend > Resend THEN numofsend ELSE numofsend + 1
         again == Desired = sendJSON
         sends == again => Resend % n = 0
     IN  /\ numofsend' = IF again THEN n ELSE 0
         /\ sendJSON' = Desired
         /\ sends => Room(toDevice, 1)
         /\ toDevice' = IF sends /\ started
                        THEN Append(toDevice, [part |-> "desired", vals |-> Desired])
                        ELSE toDevice
         /\ calm' = (calm /\ tasks = <<>> /\ started)
  /\ UNCHANGED <<device, reported, toApp, app, json, ui, tasks, changes, chosen, spoilt>>

----------------------------------------------------------------------------
Device == TouchReport \/ Get \/ Publish \/ Receive \/ (\E c \in Keys : SyncKey(c))
          \/ SyncReport \/ SyncEnd

Next ==
  \/ \E c \in Keys, v \in Values : Touch(c, v) \/ Toggle(c, v)
  \/ Device
  \/ AppStart \/ UpdateItem \/ StartTimer \/ (\E c \in Keys : SetSwitch(c)) \/ RunLoop

Spec == Init /\ [][Next]_vars

\* The main loop and the AWS thread both go on; the broker delivers; the main queue
\* and the timer of the app run. Nobody has to touch anything or start the app.
FairSpec ==
  /\ Spec
  /\ WF_vars(TouchReport) /\ WF_vars(Get) /\ WF_vars(Publish) /\ WF_vars(Receive)
  /\ WF_vars(\E c \in Keys : SyncKey(c)) /\ WF_vars(SyncReport) /\ WF_vars(SyncEnd)
  /\ WF_vars(UpdateItem) /\ WF_vars(StartTimer) /\ WF_vars(\E c \in Keys : SetSwitch(c))
  /\ WF_vars(RunLoop)

----------------------------------------------------------------------------
(* Properties *)

\* Nothing the board or the app started with is ever taken for a choice: the document
\* shows only values somebody chose, or that it had (hw_aws_publish, hw.cpp 339; the
\* timer started after the first message, AWSIOT.swift 277-289), however changes,
\* echoes, answers and resends cross.
OnlyChosen == \A c \in Keys : Report(c, reported[c]) \in chosen

\* When nothing is on its way, the board shows what the document says, whoever wrote
\* last and however its own reports came back to it: except a slider that was passed
\* over because the message also had a button, and a key touched while the first
\* document was being applied (hw.cpp 434-480).
QuietDeviceAgrees == DeviceQuiet => \A c \in Keys \ spoilt : DeviceAgrees(c)

\* A change that was made in peace, on the board or in the app, reaches the other side
\* and both stay with it, although every report comes back to the board. Changes that
\* cross may chase each other for ever, the app may ask for what its switches are about
\* to leave, may have given up, and hears nothing of a slider that was passed over:
\* calm leaves these out.
Settles == <>[](calm => Settled)
=============================================================================
