------------------------- MODULE ShadowSync_proofs -------------------------
(***************************************************************************)
(* What is proved of ShadowSync, for every set of buttons and sliders, every *)
(* number of changes and of messages on their way: TypeOK, that the document *)
(* shows only values somebody chose, and that a quiet board shows what the   *)
(* document says.                                                           *)
(***************************************************************************)
EXTENDS ShadowSync, SequenceTheorems, TLAPS

Indices(q) == 1 .. Len(q)

----------------------------------------------------------------------------
(* Documents and sequences                                                  *)

\* What it is to be a document: values of some of the keys.
LEMMA DocFacts ==
  ASSUME NEW f \in Docs
  PROVE  /\ DOMAIN f \subseteq Keys
         /\ f = [c \in DOMAIN f |-> f[c]]
         /\ \A c \in DOMAIN f : f[c] \in Values
BY DEF Docs

LEMMA DocIntro ==
  ASSUME NEW K \in SUBSET Keys, NEW f \in [K -> Values]
  PROVE  f \in Docs
BY DEF Docs

LEMMA FullDoc ==
  ASSUME NEW f \in [Keys -> Values]
  PROVE  f \in Docs /\ DOMAIN f = Keys
BY DocIntro

LEMMA EmptyDoc == Empty \in Docs /\ DOMAIN Empty = {}
<1>1. Empty \in [{} -> Values]
  BY DEF Empty, Values
<1>2. DOMAIN Empty = {}
  BY DEF Empty
<1> QED BY <1>1, <1>2, DocIntro

\* One document written over another.
LEMMA WithDoc ==
  ASSUME NEW f \in Docs, NEW g \in Docs
  PROVE  /\ With(f, g) \in Docs
         /\ DOMAIN With(f, g) = DOMAIN f \cup DOMAIN g
         /\ \A c \in DOMAIN g : With(f, g)[c] = g[c]
         /\ \A c \in DOMAIN f \ DOMAIN g : With(f, g)[c] = f[c]
<1> DEFINE K == DOMAIN f \cup DOMAIN g
<1>1. K \in SUBSET Keys
  BY DocFacts
<1>2. \A c \in K : (IF c \in DOMAIN g THEN g[c] ELSE f[c]) \in Values
  BY DocFacts
<1>3. With(f, g) \in [K -> Values]
  BY <1>2 DEF With
<1>4. With(f, g) \in Docs
  BY <1>1, <1>3, DocIntro
<1> QED BY <1>4 DEF With

LEMMA WithFull ==
  ASSUME NEW f \in [Keys -> Values], NEW g \in Docs
  PROVE  With(f, g) \in [Keys -> Values]
<1>1. DOMAIN g \subseteq Keys /\ \A c \in DOMAIN g : g[c] \in Values
  BY DocFacts
<1>2. DOMAIN f \cup DOMAIN g = Keys
  BY <1>1
<1> QED BY <1>1, <1>2 DEF With

LEMMA OnlyDoc ==
  ASSUME NEW c \in Keys, NEW v \in Values
  PROVE  Only(c, v) \in Docs /\ DOMAIN Only(c, v) = {c} /\ Only(c, v)[c] = v
<1>1. Only(c, v) \in [{c} -> Values]
  BY DEF Only
<1>2. DOMAIN Only(c, v) = {c} /\ Only(c, v)[c] = v
  BY DEF Only
<1> QED BY <1>1, <1>2, DocIntro

LEMMA ReportFacts ==
  ASSUME NEW r \in Reports, r # NoReport
  PROVE  r.key \in Keys /\ r.value \in Values /\ r = Report(r.key, r.value)
BY DEF Reports, Report

LEMMA ReportType ==
  ASSUME NEW c \in Keys, NEW v \in Values
  PROVE  /\ Report(c, v) \in Reports /\ Report(c, v) # NoReport
         /\ Report(c, v) \in [key : Keys, value : Values]
         /\ Report(c, v).key = c /\ Report(c, v).value = v
BY KeysAssumption DEF Reports, Report, NoReport, Keys

LEMMA NoReportFacts == NoReport \in Reports /\ NoReport.key \notin Keys
BY KeysAssumption DEF Reports, NoReport, Keys

LEMMA Appended ==
  ASSUME NEW S, NEW q \in Seq(S), NEW m \in S
  PROVE  /\ Append(q, m) \in Seq(S)
         /\ Len(Append(q, m)) = Len(q) + 1
         /\ Append(q, m)[Len(q) + 1] = m
         /\ \A i \in Indices(q) : Append(q, m)[i] = q[i]
BY DEF Indices

LEMMA Beheaded ==
  ASSUME NEW S, NEW q \in Seq(S), q # <<>>
  PROVE  /\ Head(q) = q[1] /\ Head(q) \in S /\ 1 \in Indices(q)
         /\ Tail(q) \in Seq(S)
         /\ Len(Tail(q)) = Len(q) - 1
         /\ \A i \in Indices(Tail(q)) : Tail(q)[i] = q[i + 1] /\ i + 1 \in Indices(q)
BY DEF Indices

----------------------------------------------------------------------------
(* Types                                                                    *)

LEMMA TypeInit == Init => TypeOK
<1> SUFFICES ASSUME Init PROVE TypeOK
  OBVIOUS
<1>1. DeviceOK
  BY EmptyDoc, NoReportFacts DEF Init, DeviceOK, NoMessage, Values
<1>2. BrokerOK
  BY BoundAssumption DEF Init, BrokerOK
<1>3. PhoneOK
  BY EmptyDoc, ResendAssumption DEF Init, PhoneOK, Values
<1>4. HistoryOK
  BY ReportType, BoundAssumption DEF Init, HistoryOK
<1> QED BY <1>1, <1>2, <1>3, <1>4 DEF TypeOK

LEMMA ChangedType ==
  ASSUME HistoryOK, NEW c \in Keys, NEW v \in Values, NEW p \in BOOLEAN, Changed(c, v, p)
  PROVE  /\ changes' \in 0 .. MaxChanges
         /\ chosen' \subseteq [key : Keys, value : Values]
         /\ calm' \in BOOLEAN
BY ReportType, BoundAssumption DEF Changed, HistoryOK

LEMMA LoopType ==
  ASSUME NEW f \in Docs, NEW t \in SUBSET Keys, NEW e \in BOOLEAN, NEW r \in Reports
  PROVE  Loop(f, t, e, r) \in
           [busy : BOOLEAN, vals : Docs, todo : SUBSET Keys, exit : BOOLEAN, report : Reports]
BY DEF Loop

LEMMA TouchType ==
  ASSUME TypeOK, NEW c \in Keys, NEW v \in Values, Touch(c, v) PROVE TypeOK'
<1> USE DEF TypeOK
<1>1. Settled \in BOOLEAN
  BY DEF Settled, DeviceQuiet
<1>2. HistoryOK'
  BY <1>1, ChangedType DEF Touch, HistoryOK
<1>3. DeviceOK'
  BY ReportType DEF Touch, DeviceOK
<1>4. BrokerOK' /\ PhoneOK'
  BY DEF Touch, broker, phone, BrokerOK, PhoneOK
<1> QED BY <1>2, <1>3, <1>4

LEMMA ToggleType ==
  ASSUME TypeOK, NEW c \in Keys, NEW v \in Values, Toggle(c, v) PROVE TypeOK'
<1> USE DEF TypeOK
<1> DEFINE peace == Settled /\ app = "on" /\ c \notin spoilt /\ ~GivenUp(Only(c, v))
<1>1. peace \in BOOLEAN /\ Changed(c, v, peace)
  BY DEF Toggle
<1>2. HistoryOK'
  BY <1>1, ChangedType DEF Toggle, HistoryOK
<1>3. PhoneOK'
  BY DEF Toggle, PhoneOK
<1>4. DeviceOK' /\ BrokerOK'
  BY DEF Toggle, device, broker, DeviceOK, BrokerOK
<1> QED BY <1>2, <1>3, <1>4

LEMMA TouchReportType == ASSUME TypeOK, TouchReport PROVE TypeOK'
<1> USE DEF TypeOK
<1>1. main.key \in Keys /\ main.value \in Values
  BY ReportFacts DEF TouchReport, DeviceOK
<1>2. With(shadow_status, Only(main.key, main.value)) \in Docs
  BY <1>1, OnlyDoc, WithDoc DEF DeviceOK
<1>3. DeviceOK'
  BY <1>2, NoReportFacts DEF TouchReport, DeviceOK
<1>4. HistoryOK'
  BY <1>1 DEF TouchReport, HistoryOK
<1>5. BrokerOK' /\ PhoneOK'
  BY DEF TouchReport, broker, phone, BrokerOK, PhoneOK
<1> QED BY <1>3, <1>4, <1>5

\* A message of the document, with the room there is.
LEMMA AnswerType ==
  ASSUME BrokerOK, NEW both \in BOOLEAN, Answer(both) PROVE BrokerOK'
<1> DEFINE m == [part |-> "reported", vals |-> reported]
<1>1. m \in Messages
  BY FullDoc DEF BrokerOK, Messages
<1>2. /\ Len(toDevice) + 1 <= MaxInFlight /\ toDevice' = Append(toDevice, m)
      /\ Len(toApp) + 1 <= MaxInFlight /\ toApp' = IF both THEN Append(toApp, m) ELSE toApp
      /\ reported' = reported
  BY DEF Answer, Room
<1> HIDE DEF m
<1> QED BY <1>1, <1>2, Appended DEF BrokerOK

LEMMA GetType == ASSUME TypeOK, Get PROVE TypeOK'
<1>1. BrokerOK'
  BY AnswerType DEF TypeOK, Get
<1>2. DeviceOK' /\ PhoneOK' /\ HistoryOK'
  BY DEF TypeOK, Get, phone, history, DeviceOK, PhoneOK, HistoryOK
<1> QED BY <1>1, <1>2 DEF TypeOK

LEMMA PublishType == ASSUME TypeOK, Publish PROVE TypeOK'
<1> DEFINE m == [part |-> "reported", vals |-> shadow_status]
<1>1. m \in Messages
  BY DEF TypeOK, DeviceOK, Messages
<1>2. /\ Len(toDevice) + 1 <= MaxInFlight /\ toDevice' = Append(toDevice, m)
      /\ Len(toApp) + 1 <= MaxInFlight
      /\ toApp' = Append(toApp, m) \/ toApp' = toApp
      /\ reported' = With(reported, shadow_status)
  BY DEF Publish, Room
<1>3. reported' \in [Keys -> Values]
  BY <1>2, WithFull DEF TypeOK, DeviceOK, BrokerOK
<1>4. BrokerOK'
  <2> HIDE DEF m
  <2>1. Append(toDevice, m) \in Seq(Messages) /\ Len(Append(toDevice, m)) = Len(toDevice) + 1
    BY <1>1, Appended DEF TypeOK, BrokerOK
  <2>2. Append(toApp, m) \in Seq(Messages) /\ Len(Append(toApp, m)) = Len(toApp) + 1
    BY <1>1, Appended DEF TypeOK, BrokerOK
  <2> QED BY <1>2, <1>3, <2>1, <2>2 DEF TypeOK, BrokerOK
<1>5. DeviceOK'
  BY EmptyDoc DEF TypeOK, Publish, DeviceOK
<1>6. PhoneOK' /\ HistoryOK'
  BY DEF TypeOK, Publish, phone, history, PhoneOK, HistoryOK
<1> QED BY <1>4, <1>5, <1>6 DEF TypeOK

LEMMA ReceiveType == ASSUME TypeOK, Receive PROVE TypeOK'
<1> DEFINE vals == Head(toDevice).vals
<1>1. /\ vals \in Docs /\ DOMAIN vals \in SUBSET Keys
      /\ Tail(toDevice) \in Seq(Messages) /\ Len(Tail(toDevice)) = Len(toDevice) - 1
  <2>1. toDevice \in Seq(Messages) /\ toDevice # <<>>
    BY DEF TypeOK, BrokerOK, Receive
  <2>2. /\ Head(toDevice) \in Messages
        /\ Tail(toDevice) \in Seq(Messages) /\ Len(Tail(toDevice)) = Len(toDevice) - 1
    BY <2>1, Beheaded
  <2>3. vals \in Docs
    BY <2>2 DEF Messages
  <2> QED BY <2>2, <2>3, DocFacts
<1>2. Loop(vals, DOMAIN vals, FALSE, NoReport) \in
        [busy : BOOLEAN, vals : Docs, todo : SUBSET Keys, exit : BOOLEAN, report : Reports]
  <2> HIDE DEF vals
  <2> QED BY <1>1, LoopType, NoReportFacts
<1>3. DeviceOK'
  <2>1. cb' = Loop(vals, DOMAIN vals, FALSE, NoReport)
    BY DEF Receive
  <2>2. cb'.todo \subseteq DOMAIN cb'.vals
    BY <2>1 DEF Loop
  <2> HIDE DEF vals
  <2> QED BY <1>2, <2>1, <2>2 DEF TypeOK, Receive, DeviceOK
<1>4. BrokerOK'
  BY <1>1, BoundAssumption DEF TypeOK, Receive, BrokerOK
<1>5. PhoneOK' /\ HistoryOK'
  BY DEF TypeOK, Receive, phone, history, PhoneOK, HistoryOK
<1> QED BY <1>3, <1>4, <1>5 DEF TypeOK

LEMMA SyncKeyType ==
  ASSUME TypeOK, NEW c \in Keys, SyncKey(c) PROVE TypeOK'
<1> DEFINE v == cb.vals[c]
           heard == c \in Buttons \/ ~cb.exit
           r == IF heard /\ hw[c] # v THEN Report(c, v) ELSE NoReport
           e == cb.exit \/ c \in Buttons
<1>1. v \in Values
  BY DocFacts DEF TypeOK, DeviceOK, SyncKey
<1>2. r \in Reports
  BY <1>1, ReportType, NoReportFacts
<1>3. e \in BOOLEAN
  OBVIOUS
<1>4. /\ cb' = Loop(cb.vals, cb.todo \ {c}, e, r)
      /\ hw' = IF heard THEN [hw EXCEPT ![c] = v] ELSE hw
      /\ spoilt' = spoilt \/ spoilt' = spoilt \ {c} \/ spoilt' = spoilt \cup {c}
      /\ UNCHANGED <<hw_aws_publish, shadow_status, main, started, changes, chosen, calm>>
  BY DEF SyncKey
<1>5. BrokerOK' /\ PhoneOK'
  BY DEF SyncKey, TypeOK, broker, phone, BrokerOK, PhoneOK
<1> HIDE DEF v, r, e
<1>6. Loop(cb.vals, cb.todo \ {c}, e, r) \in
        [busy : BOOLEAN, vals : Docs, todo : SUBSET Keys, exit : BOOLEAN, report : Reports]
  BY <1>2, <1>3, LoopType DEF TypeOK, DeviceOK
<1>7. cb'.todo \subseteq DOMAIN cb'.vals
  BY <1>4 DEF TypeOK, DeviceOK, Loop
<1>8. DeviceOK'
  BY <1>1, <1>4, <1>6, <1>7 DEF TypeOK, DeviceOK
<1>9. HistoryOK'
  BY <1>4 DEF TypeOK, HistoryOK
<1> QED BY <1>5, <1>8, <1>9 DEF TypeOK

LEMMA SyncReportType == ASSUME TypeOK, SyncReport PROVE TypeOK'
<1>1. cb.report.key \in Keys /\ cb.report.value \in Values
  BY ReportFacts DEF TypeOK, SyncReport, DeviceOK
<1>2. With(shadow_status, Only(cb.report.key, cb.report.value)) \in Docs
  BY <1>1, OnlyDoc, WithDoc DEF TypeOK, DeviceOK
<1>3. shadow_status' \in Docs
  BY <1>2 DEF TypeOK, SyncReport, DeviceOK
<1>4. Loop(cb.vals, cb.todo, cb.exit, NoReport) \in
        [busy : BOOLEAN, vals : Docs, todo : SUBSET Keys, exit : BOOLEAN, report : Reports]
  BY LoopType, NoReportFacts DEF TypeOK, DeviceOK
<1>5. cb'.todo \subseteq DOMAIN cb'.vals
  BY DEF TypeOK, SyncReport, DeviceOK, Loop
<1>6. DeviceOK'
  BY <1>3, <1>4, <1>5 DEF TypeOK, SyncReport, DeviceOK
<1>7. BrokerOK' /\ PhoneOK' /\ HistoryOK'
  BY DEF TypeOK, SyncReport, broker, phone, history, BrokerOK, PhoneOK, HistoryOK
<1> QED BY <1>6, <1>7 DEF TypeOK

LEMMA SyncEndType == ASSUME TypeOK, SyncEnd PROVE TypeOK'
<1>1. DeviceOK'
  BY EmptyDoc, NoReportFacts DEF TypeOK, SyncEnd, DeviceOK, NoMessage
<1>2. BrokerOK' /\ PhoneOK' /\ HistoryOK'
  BY DEF TypeOK, SyncEnd, broker, phone, history, BrokerOK, PhoneOK, HistoryOK
<1> QED BY <1>1, <1>2 DEF TypeOK

LEMMA AppStartType == ASSUME TypeOK, AppStart PROVE TypeOK'
<1> DEFINE m == [part |-> "reported", vals |-> reported]
<1>1. m \in Messages
  BY FullDoc DEF TypeOK, BrokerOK, Messages
<1>2. \/ Answer(TRUE)
      \/ /\ Len(toApp) + 1 <= MaxInFlight /\ toApp' = Append(toApp, m)
         /\ UNCHANGED <<reported, toDevice>>
  BY DEF AppStart, Room
<1>3. BrokerOK'
  <2> HIDE DEF m
  <2>1. Append(toApp, m) \in Seq(Messages) /\ Len(Append(toApp, m)) = Len(toApp) + 1
    BY <1>1, Appended DEF TypeOK, BrokerOK
  <2>2. CASE Answer(TRUE)
    BY <2>2, AnswerType DEF TypeOK
  <2> QED BY <1>2, <2>1, <2>2 DEF TypeOK, BrokerOK
<1>4. PhoneOK'
  BY DEF TypeOK, AppStart, PhoneOK
<1>5. DeviceOK'
  BY DEF TypeOK, AppStart, device, DeviceOK
<1>6. HistoryOK'
  BY DEF TypeOK, AppStart, HistoryOK, DeviceQuiet
<1> QED BY <1>3, <1>4, <1>5, <1>6 DEF TypeOK

LEMMA UpdateItemType == ASSUME TypeOK, UpdateItem PROVE TypeOK'
<1> DEFINE vals == Head(toApp).vals
<1>1. /\ vals \in Docs
      /\ Tail(toApp) \in Seq(Messages) /\ Len(Tail(toApp)) = Len(toApp) - 1
  <2>1. toApp \in Seq(Messages) /\ toApp # <<>>
    BY DEF TypeOK, BrokerOK, UpdateItem
  <2>2. /\ Head(toApp) \in Messages
        /\ Tail(toApp) \in Seq(Messages) /\ Len(Tail(toApp)) = Len(toApp) - 1
    BY <2>1, Beheaded
  <2> QED BY <2>2 DEF Messages
<1>2. With(json, vals) \in [Keys -> Values]
  BY <1>1, WithFull DEF TypeOK, PhoneOK
<1>3. tasks' = tasks \o <<vals>> \o <<Timer>> \/ tasks' = tasks \o <<vals>> \o <<>>
  BY DEF UpdateItem
<1>4. tasks' \in Seq(Docs)
  <2>1. tasks \in Seq(Docs) /\ Timer \in Docs
    BY EmptyDoc DEF TypeOK, PhoneOK, Timer
  <2> HIDE DEF vals
  <2>2. <<vals>> \in Seq(Docs) /\ <<Timer>> \in Seq(Docs) /\ <<>> \in Seq(Docs)
    BY <1>1, <2>1
  <2>3. tasks \o <<vals>> \in Seq(Docs)
    BY <2>1, <2>2, ConcatProperties
  <2> QED BY <1>3, <2>2, <2>3, ConcatProperties
<1>5. PhoneOK'
  BY <1>2, <1>4 DEF TypeOK, UpdateItem, PhoneOK
<1>6. BrokerOK'
  <2> HIDE DEF vals
  <2>1. toApp' = Tail(toApp) /\ UNCHANGED <<reported, toDevice>>
    BY DEF UpdateItem
  <2> QED BY <1>1, <2>1, BoundAssumption DEF TypeOK, BrokerOK
<1>7. DeviceOK' /\ HistoryOK'
  BY DEF TypeOK, UpdateItem, device, history, DeviceOK, HistoryOK
<1> QED BY <1>5, <1>6, <1>7 DEF TypeOK

LEMMA StartTimerType == ASSUME TypeOK, StartTimer PROVE TypeOK'
<1>1. PhoneOK'
  BY Beheaded DEF TypeOK, StartTimer, PhoneOK
<1>2. DeviceOK' /\ BrokerOK' /\ HistoryOK'
  BY DEF TypeOK, StartTimer, device, broker, history, DeviceOK, BrokerOK, HistoryOK
<1> QED BY <1>1, <1>2 DEF TypeOK

LEMMA SetSwitchType ==
  ASSUME TypeOK, NEW c \in Keys, SetSwitch(c) PROVE TypeOK'
<1> DEFINE head == Head(tasks)
           rest == [k \in DOMAIN head \ {c} |-> head[k]]
<1>1. head \in Docs /\ Tail(tasks) \in Seq(Docs) /\ c \in DOMAIN head
  BY Beheaded DEF TypeOK, SetSwitch, PhoneOK, First
<1>2. head[c] \in Values /\ rest \in Docs
  <2>1. /\ DOMAIN head \ {c} \in SUBSET Keys
        /\ \A k \in DOMAIN head \ {c} : head[k] \in Values
        /\ head[c] \in Values
    BY <1>1, DocFacts
  <2>2. rest \in [DOMAIN head \ {c} -> Values]
    BY <2>1
  <2> QED BY <2>1, <2>2, DocIntro
<1>3. /\ ui' = [ui EXCEPT ![c] = head[c]]
      /\ tasks' = <<>> \o Tail(tasks) \/ tasks' = <<rest>> \o Tail(tasks)
  BY DEF SetSwitch
<1>4. ui' \in [Keys -> Values] /\ tasks' \in Seq(Docs)
  <2> HIDE DEF head, rest
  <2>1. <<>> \in Seq(Docs) /\ <<rest>> \in Seq(Docs)
    BY <1>2
  <2>2. tasks' \in Seq(Docs)
    BY <1>1, <1>3, <2>1, ConcatProperties
  <2> QED BY <1>2, <1>3, <2>2 DEF TypeOK, PhoneOK
<1>5. PhoneOK'
  BY <1>4 DEF TypeOK, SetSwitch, PhoneOK
<1>6. DeviceOK' /\ BrokerOK' /\ HistoryOK'
  BY DEF TypeOK, SetSwitch, device, broker, history, DeviceOK, BrokerOK, HistoryOK
<1> QED BY <1>5, <1>6 DEF TypeOK

\* What the app asks for is a document.
LEMMA DesiredDoc ==
  ASSUME PhoneOK
  PROVE  /\ Desired \in Docs /\ DOMAIN Desired = Wanted /\ Wanted \subseteq Keys
         /\ \A c \in Wanted : Desired[c] = ui[c]
<1>1. Wanted \subseteq Keys
  BY DEF Wanted
<1>2. Desired \in [Wanted -> Values]
  BY <1>1 DEF Desired, PhoneOK
<1> QED BY <1>1, <1>2, DocIntro DEF Desired

LEMMA RunLoopType == ASSUME TypeOK, RunLoop PROVE TypeOK'
<1> DEFINE m == [part |-> "desired", vals |-> Desired]
<1>1. m \in Messages
  BY DesiredDoc DEF TypeOK, Messages
<1>2. /\ numofsend' = 0 \/ numofsend' = numofsend \/ (numofsend <= Resend /\ numofsend' = numofsend + 1)
      /\ sendJSON' = Desired
  BY ResendAssumption DEF TypeOK, PhoneOK, RunLoop
<1>3. \/ Len(toDevice) + 1 <= MaxInFlight /\ toDevice' = Append(toDevice, m)
      \/ toDevice' = toDevice
  BY DEF RunLoop, Room
<1>4. PhoneOK'
  BY <1>2, DesiredDoc, ResendAssumption DEF TypeOK, RunLoop, PhoneOK
<1>5. BrokerOK'
  <2>1. UNCHANGED <<reported, toApp>>
    BY DEF RunLoop
  <2> HIDE DEF m
  <2> QED BY <1>1, <1>3, <2>1, Appended DEF TypeOK, BrokerOK
<1>6. DeviceOK'
  BY DEF TypeOK, RunLoop, device, DeviceOK
<1>7. HistoryOK'
  BY DEF TypeOK, RunLoop, HistoryOK
<1> QED BY <1>4, <1>5, <1>6, <1>7 DEF TypeOK

LEMMA TypeStep == TypeOK /\ [Next]_vars => TypeOK'
<1> SUFFICES ASSUME TypeOK, [Next]_vars PROVE TypeOK'
  OBVIOUS
<1>1. CASE UNCHANGED vars
  BY <1>1 DEF vars, device, broker, phone, history, TypeOK, DeviceOK, BrokerOK, PhoneOK, HistoryOK
<1>2. CASE Next
  BY <1>2, TouchType, ToggleType, TouchReportType, GetType, PublishType, ReceiveType,
     SyncKeyType, SyncReportType, SyncEndType, AppStartType, UpdateItemType, StartTimerType,
     SetSwitchType, RunLoopType DEF Next, Device
<1> QED BY <1>1, <1>2

\* Every variable keeps its type, what is on its way its bound, and the loop of hw_aws_sync
\* asks only for keys of its message (hw.cpp 433-480; AWSIOT.swift 84-246).
THEOREM TypeCorrect == Spec => []TypeOK
BY TypeInit, TypeStep, PTL DEF Spec

----------------------------------------------------------------------------
(* A quiet board agrees with the document                                   *)

\* A message under way, or the rest of the one being worked on, that will set key c to
\* what the document says.
Echo(c) ==
  \/ \E i \in Indices(toDevice) : /\ c \in DOMAIN toDevice[i].vals
                                  /\ toDevice[i].vals[c] = reported[c]
  \/ cb.busy /\ c \in cb.todo /\ cb.vals[c] = reported[c]

\* A report of key c that will be put among those that wait.
Told(c) ==
  \/ main.key = c /\ main.value = hw[c]
  \/ hw_aws_publish /\ cb.report.key = c

\* The board and the document agree on c, or something is on its way that makes them.
Accounted(c) ==
  \/ c \in spoilt
  \/ DeviceAgrees(c)
  \/ Told(c)
  \/ c \in DOMAIN shadow_status
  \/ Echo(c)

\* Before the board has been told of the document, the first message is the document.
FirstIsDocument ==
  /\ ~started => toDevice = <<>> /\ ~cb.busy /\ ~hw_aws_publish
  /\ ~hw_aws_publish => shadow_status = Empty
  /\ started /\ ~hw_aws_publish /\ cb.busy => cb.vals = reported
  /\ started /\ ~hw_aws_publish /\ ~cb.busy => toDevice # <<>> /\ toDevice[1].vals = reported

IdleLoop == ~cb.busy => cb.report = NoReport /\ cb.todo = {}

AgreeInv ==
  /\ FirstIsDocument /\ IdleLoop
  /\ started => \A c \in Keys : Accounted(c)

LEMMA AgreeInit == Init => AgreeInv
BY DEF Init, AgreeInv, FirstIsDocument, IdleLoop, NoMessage

\* What the broker and the AWS thread may leave alone.
LEMMA AccountedFrame ==
  ASSUME UNCHANGED <<hw, main, cb, hw_aws_publish, shadow_status, reported, toDevice, spoilt>>
  PROVE  \A c \in Keys : Accounted(c) => Accounted(c)'
BY DEF Accounted, DeviceAgrees, Told, Echo, Indices

LEMMA AgreeFrame ==
  ASSUME AgreeInv, UNCHANGED device, UNCHANGED <<reported, toDevice, spoilt>>
  PROVE  AgreeInv'
<1>1. FirstIsDocument' /\ IdleLoop' /\ started' = started
  BY DEF AgreeInv, FirstIsDocument, IdleLoop, device
<1>2. \A c \in Keys : Accounted(c) => Accounted(c)'
  BY AccountedFrame DEF device
<1> QED BY <1>1, <1>2 DEF AgreeInv

LEMMA TouchAgrees ==
  ASSUME TypeOK, AgreeInv, NEW c \in Keys, NEW v \in Values, Touch(c, v) PROVE AgreeInv'
<1>1. FirstIsDocument' /\ IdleLoop' /\ started' = started
  BY DEF AgreeInv, FirstIsDocument, IdleLoop, Touch, broker
<1>2. ASSUME NEW k \in Keys, Accounted(k) PROVE Accounted(k)'
  <2>1. /\ main = NoReport /\ main' = Report(c, v) /\ hw' = [hw EXCEPT ![c] = v]
        /\ spoilt' = spoilt \ {c}
        /\ UNCHANGED <<cb, hw_aws_publish, shadow_status, reported, toDevice>>
    BY DEF Touch, broker
  <2>2. hw'[c] = v /\ main'.key = c /\ main'.value = v
    BY <2>1, ReportType DEF TypeOK, DeviceOK
  <2>3. CASE k = c
    BY <2>2, <2>3 DEF Accounted, Told
  <2>4. CASE k # c
    <3>1. hw'[k] = hw[k] /\ main.key # k /\ (k \in spoilt' <=> k \in spoilt)
      BY <2>1, <2>4, NoReportFacts DEF TypeOK, DeviceOK
    <3> QED BY <1>2, <2>1, <3>1 DEF Accounted, DeviceAgrees, Told, Echo, Indices
  <2> QED BY <2>3, <2>4
<1> QED BY <1>1, <1>2 DEF AgreeInv

LEMMA TouchReportAgrees == ASSUME TypeOK, AgreeInv, TouchReport PROVE AgreeInv'
<1> DEFINE c == main.key
<1>1. c \in Keys /\ main.value \in Values
  BY ReportFacts DEF TypeOK, DeviceOK, TouchReport
<1>2. /\ main' = NoReport
      /\ UNCHANGED <<hw, hw_aws_publish, cb, started, reported, toDevice>>
  BY DEF TouchReport, broker
<1>3. CASE hw_aws_publish
  <2>1. /\ DOMAIN shadow_status' = DOMAIN shadow_status \cup {c}
    <3>1. Only(c, main.value) \in Docs /\ DOMAIN Only(c, main.value) = {c}
      BY <1>1, OnlyDoc
    <3>2. shadow_status' = With(shadow_status, Only(c, main.value)) /\ shadow_status \in Docs
      BY <1>3 DEF TouchReport, TypeOK, DeviceOK
    <3> HIDE DEF c
    <3> QED BY <3>1, <3>2, WithDoc
  <2>2. spoilt' = spoilt
    BY <1>3 DEF TouchReport
  <2>3. FirstIsDocument' /\ IdleLoop'
    BY <1>2, <1>3 DEF AgreeInv, FirstIsDocument, IdleLoop
  <2>4. ASSUME NEW k \in Keys, Accounted(k) PROVE Accounted(k)'
    BY <1>2, <2>1, <2>2, <2>4 DEF Accounted, DeviceAgrees, Told, Echo, Indices
  <2> QED BY <1>2, <2>3, <2>4 DEF AgreeInv
<1>4. CASE ~hw_aws_publish
  <2>1. /\ shadow_status' = shadow_status
        /\ spoilt' = IF cb.busy /\ c \notin cb.todo /\ hw[c] = main.value
                     THEN spoilt \cup {c} ELSE spoilt
    BY <1>4 DEF TouchReport
  <2>2. FirstIsDocument' /\ IdleLoop'
    BY <1>2, <2>1 DEF AgreeInv, FirstIsDocument, IdleLoop
  <2>3. ASSUME started, NEW k \in Keys, Accounted(k) PROVE Accounted(k)'
    <3>1. CASE ~(main.key = k /\ main.value = hw[k])
      BY <1>2, <2>1, <2>3, <3>1 DEF Accounted, DeviceAgrees, Told, Echo, Indices
    <3>2. CASE main.key = k /\ main.value = hw[k]
      <4>1. CASE cb.busy
        <5>1. cb.vals = reported
          BY <1>4, <2>3, <4>1 DEF AgreeInv, FirstIsDocument
        <5>2. CASE k \in cb.todo
          BY <1>2, <4>1, <5>1, <5>2 DEF Accounted, Echo
        <5>3. CASE k \notin cb.todo
          BY <2>1, <3>2, <4>1, <5>3 DEF Accounted
        <5> QED BY <5>2, <5>3
      <4>2. CASE ~cb.busy
        <5>1. toDevice # <<>> /\ toDevice[1].vals = reported
          BY <1>4, <2>3, <4>2 DEF AgreeInv, FirstIsDocument
        <5>2. 1 \in Indices(toDevice) /\ k \in DOMAIN reported
          BY <5>1, Beheaded DEF TypeOK, BrokerOK
        <5> QED BY <1>2, <5>1, <5>2 DEF Accounted, Echo
      <4> QED BY <4>1, <4>2
    <3> QED BY <3>1, <3>2
  <2> QED BY <1>2, <2>2, <2>3 DEF AgreeInv
<1> QED BY <1>3, <1>4

\* Another message for the board takes nothing away.
LEMMA MoreMessages ==
  ASSUME TypeOK, AgreeInv, started, started', NEW m \in Messages,
         toDevice' = Append(toDevice, m) \/ toDevice' = toDevice,
         UNCHANGED <<device, reported, spoilt>>
  PROVE  AgreeInv'
<1>1. CASE toDevice' = toDevice
  BY <1>1, AgreeFrame
<1>2. CASE toDevice' = Append(toDevice, m)
  <2>1. /\ Len(toDevice') = Len(toDevice) + 1
        /\ \A i \in Indices(toDevice) : toDevice'[i] = toDevice[i] /\ i \in Indices(toDevice')
        /\ toDevice # <<>> => toDevice'[1] = toDevice[1]
        /\ toDevice' # <<>>
    BY <1>2, Appended DEF TypeOK, BrokerOK, Indices
  <2>2. UNCHANGED <<hw, hw_aws_publish, shadow_status, main, cb, started, reported, spoilt>>
    BY DEF device
  <2>3. FirstIsDocument' /\ IdleLoop'
    BY <2>1, <2>2 DEF AgreeInv, FirstIsDocument, IdleLoop
  <2>4. ASSUME NEW k \in Keys, Accounted(k) PROVE Accounted(k)'
    BY <2>1, <2>2, <2>4 DEF Accounted, DeviceAgrees, Told, Echo
  <2> QED BY <2>2, <2>3, <2>4 DEF AgreeInv
<1> QED BY <1>1, <1>2

LEMMA GetAgrees == ASSUME TypeOK, AgreeInv, Get PROVE AgreeInv'
<1> DEFINE m == [part |-> "reported", vals |-> reported]
<1>1. /\ toDevice = <<>> /\ ~cb.busy /\ ~hw_aws_publish /\ shadow_status = Empty
      /\ cb.report = NoReport /\ cb.todo = {}
  BY DEF Get, AgreeInv, FirstIsDocument, IdleLoop
<1>2. /\ started' = TRUE /\ toDevice' = Append(toDevice, m) /\ m.vals = reported
      /\ UNCHANGED <<hw, hw_aws_publish, shadow_status, main, cb, reported, spoilt>>
  BY DEF Get, Answer, history
<1>3. m \in Messages
  BY FullDoc DEF TypeOK, BrokerOK, Messages
<1> HIDE DEF m
<1>4. 1 \in Indices(toDevice') /\ toDevice'[1].vals = reported /\ toDevice' # <<>>
  BY <1>1, <1>2, <1>3, Appended DEF TypeOK, BrokerOK, Indices
<1>5. FirstIsDocument' /\ IdleLoop'
  BY <1>1, <1>2, <1>4 DEF FirstIsDocument, IdleLoop
<1>6. ASSUME NEW k \in Keys PROVE Accounted(k)'
  BY <1>2, <1>4 DEF Accounted, Echo, TypeOK, BrokerOK
<1> QED BY <1>5, <1>6 DEF AgreeInv

LEMMA PublishAgrees == ASSUME TypeOK, AgreeInv, Publish PROVE AgreeInv'
<1> DEFINE m == [part |-> "reported", vals |-> shadow_status]
<1>1. /\ started /\ ~cb.busy /\ shadow_status # Empty /\ hw_aws_publish
      /\ cb.report = NoReport /\ cb.todo = {}
  BY DEF Publish, AgreeInv, FirstIsDocument, IdleLoop
<1>2. /\ toDevice' = Append(toDevice, m) /\ m.vals = shadow_status
      /\ reported' = With(reported, shadow_status) /\ shadow_status' = Empty
      /\ UNCHANGED <<hw, hw_aws_publish, main, cb, started, spoilt>>
  BY DEF Publish, history
<1>3. m \in Messages /\ shadow_status \in Docs
  BY DEF TypeOK, DeviceOK, Messages
<1> HIDE DEF m
<1>4. /\ Len(toDevice) + 1 \in Indices(toDevice') /\ toDevice'[Len(toDevice) + 1].vals = shadow_status
      /\ \A i \in Indices(toDevice) : toDevice'[i] = toDevice[i] /\ i \in Indices(toDevice')
  BY <1>2, <1>3, Appended DEF TypeOK, BrokerOK, Indices
<1>5. /\ \A k \in DOMAIN shadow_status : reported'[k] = shadow_status[k]
      /\ \A k \in Keys \ DOMAIN shadow_status : reported'[k] = reported[k]
  <2>1. reported \in Docs /\ DOMAIN reported = Keys
    BY FullDoc DEF TypeOK, BrokerOK
  <2>2. \A k \in DOMAIN shadow_status : k \in Keys
    BY <1>3, DocFacts
  <2> QED BY <1>2, <1>3, <2>1, <2>2, WithDoc
<1>6. FirstIsDocument' /\ IdleLoop'
  BY <1>1, <1>2 DEF FirstIsDocument, IdleLoop
<1>7. ASSUME NEW k \in Keys, Accounted(k) PROVE Accounted(k)'
  <2>1. CASE k \in DOMAIN shadow_status
    BY <1>4, <1>5, <2>1 DEF Accounted, Echo
  <2>2. CASE k \notin DOMAIN shadow_status
    BY <1>2, <1>4, <1>5, <1>7, <2>2 DEF Accounted, DeviceAgrees, Told, Echo
  <2> QED BY <2>1, <2>2
<1> QED BY <1>1, <1>2, <1>6, <1>7 DEF AgreeInv

LEMMA ReceiveAgrees == ASSUME TypeOK, AgreeInv, Receive PROVE AgreeInv'
<1> DEFINE vals == Head(toDevice).vals
<1>1. started /\ ~cb.busy /\ toDevice # <<>> /\ cb.report = NoReport /\ cb.todo = {}
  BY DEF Receive, AgreeInv, IdleLoop
<1>2. /\ cb' = Loop(vals, DOMAIN vals, FALSE, NoReport) /\ toDevice' = Tail(toDevice)
      /\ UNCHANGED <<hw, hw_aws_publish, shadow_status, main, started, reported, spoilt>>
  BY DEF Receive, history
<1>3. cb'.busy /\ cb'.vals = vals /\ cb'.todo = DOMAIN vals /\ cb'.report = NoReport
  BY <1>2 DEF Loop
<1>4. /\ vals = toDevice[1].vals
      /\ \A i \in Indices(toDevice) :
            i = 1 \/ (i - 1 \in Indices(toDevice') /\ toDevice'[i - 1] = toDevice[i])
  BY <1>1, <1>2, Beheaded DEF TypeOK, BrokerOK, Indices
<1> HIDE DEF vals
<1>5. FirstIsDocument' /\ IdleLoop'
  BY <1>1, <1>2, <1>3, <1>4 DEF AgreeInv, FirstIsDocument, IdleLoop
<1>6. ASSUME NEW k \in Keys, Accounted(k) PROVE Accounted(k)'
  <2>1. CASE Echo(k)
    BY <1>1, <1>2, <1>3, <1>4, <2>1 DEF Accounted, Echo
  <2>2. CASE ~Echo(k)
    BY <1>1, <1>2, <1>3, <1>6, <2>2, NoReportFacts DEF Accounted, DeviceAgrees, Told
  <2> QED BY <2>1, <2>2
<1> QED BY <1>1, <1>2, <1>5, <1>6 DEF AgreeInv

LEMMA SyncKeyAgrees ==
  ASSUME TypeOK, AgreeInv, NEW c \in Keys, SyncKey(c) PROVE AgreeInv'
<1> DEFINE v == cb.vals[c]
           heard == c \in Buttons \/ ~cb.exit
           r == IF heard /\ hw[c] # v THEN Report(c, v) ELSE NoReport
<1>1. cb.busy /\ cb.report = NoReport /\ c \in cb.todo
  BY DEF SyncKey
<1>2. /\ cb' = Loop(cb.vals, cb.todo \ {c}, cb.exit \/ c \in Buttons, r)
      /\ hw' = IF heard THEN [hw EXCEPT ![c] = v] ELSE hw
      /\ spoilt' = IF hw[c] = v THEN spoilt
                   ELSE IF heard THEN spoilt \ {c} ELSE spoilt \cup {c}
      /\ UNCHANGED <<hw_aws_publish, shadow_status, main, started, reported, toDevice>>
  BY DEF SyncKey, broker
<1>3. v \in Values /\ (r = NoReport \/ r.key = c)
  BY DocFacts, ReportType DEF TypeOK, DeviceOK, SyncKey
<1>4. /\ cb'.busy /\ cb'.vals = cb.vals /\ cb'.todo = cb.todo \ {c} /\ cb'.report = r
  BY <1>1, <1>2 DEF Loop
<1>5. FirstIsDocument' /\ IdleLoop'
  BY <1>1, <1>2, <1>4 DEF AgreeInv, FirstIsDocument, IdleLoop
<1>6. ASSUME started, NEW k \in Keys, Accounted(k) PROVE Accounted(k)'
  <2>1. CASE k # c
    <3>1. hw'[k] = hw[k] /\ (k \in spoilt' <=> k \in spoilt) /\ (k \in cb'.todo <=> k \in cb.todo)
      BY <1>2, <1>4, <2>1 DEF TypeOK, DeviceOK
    <3> HIDE DEF r
    <3> QED BY <1>1, <1>2, <1>4, <1>6, <2>1, <3>1, NoReportFacts
            DEF Accounted, DeviceAgrees, Told, Echo, Indices
  <2>2. CASE k = c /\ hw[c] = v
    <3>1. hw'[c] = hw[c] /\ spoilt' = spoilt
      BY <1>2, <2>2 DEF TypeOK, DeviceOK
    <3>2. CASE v = reported[c]
      BY <1>2, <2>2, <3>1, <3>2 DEF Accounted, DeviceAgrees
    <3>3. CASE v # reported[c]
      <4> HIDE DEF r
      <4> QED BY <1>1, <1>2, <1>4, <1>6, <2>2, <3>1, <3>3, NoReportFacts
            DEF Accounted, DeviceAgrees, Told, Echo, Indices
    <3> QED BY <3>2, <3>3
  <2>3. CASE k = c /\ hw[c] # v /\ heard
    <3>1. hw'[c] = v /\ r.key = c
      BY <1>2, <1>3, <2>3, ReportType DEF TypeOK, DeviceOK
    <3>2. CASE hw_aws_publish
      BY <1>2, <1>4, <2>3, <3>1, <3>2 DEF Accounted, Told
    <3>3. CASE ~hw_aws_publish
      BY <1>1, <1>2, <1>6, <2>3, <3>1, <3>3 DEF Accounted, DeviceAgrees, AgreeInv, FirstIsDocument
    <3> QED BY <3>2, <3>3
  <2>4. CASE k = c /\ hw[c] # v /\ ~heard
    BY <1>2, <2>4 DEF Accounted
  <2> QED BY <2>1, <2>2, <2>3, <2>4
<1> QED BY <1>2, <1>5, <1>6 DEF AgreeInv

LEMMA SyncReportAgrees == ASSUME TypeOK, AgreeInv, SyncReport PROVE AgreeInv'
<1> DEFINE c == cb.report.key
<1>1. c \in Keys /\ cb.report.value \in Values /\ cb.busy
  BY ReportFacts DEF TypeOK, DeviceOK, SyncReport, AgreeInv, IdleLoop
<1>2. /\ cb' = Loop(cb.vals, cb.todo, cb.exit, NoReport)
      /\ UNCHANGED <<hw, hw_aws_publish, main, started, reported, toDevice, spoilt>>
  BY DEF SyncReport, broker, history
<1>3. cb'.busy /\ cb'.vals = cb.vals /\ cb'.todo = cb.todo /\ cb'.report = NoReport
  BY <1>2 DEF Loop
<1>4. /\ hw_aws_publish => DOMAIN shadow_status' = DOMAIN shadow_status \cup {c}
      /\ ~hw_aws_publish => shadow_status' = shadow_status
  <2>1. Only(c, cb.report.value) \in Docs /\ DOMAIN Only(c, cb.report.value) = {c}
    BY <1>1, OnlyDoc
  <2>2. /\ shadow_status \in Docs
        /\ shadow_status' = IF hw_aws_publish
                            THEN With(shadow_status, Only(c, cb.report.value)) ELSE shadow_status
    BY DEF SyncReport, TypeOK, DeviceOK
  <2> HIDE DEF c
  <2> QED BY <2>1, <2>2, WithDoc
<1>5. FirstIsDocument' /\ IdleLoop'
  BY <1>1, <1>2, <1>3, <1>4 DEF AgreeInv, FirstIsDocument, IdleLoop
<1>6. ASSUME NEW k \in Keys, Accounted(k) PROVE Accounted(k)'
  BY <1>1, <1>2, <1>3, <1>4, <1>6 DEF Accounted, DeviceAgrees, Told, Echo, Indices
<1> QED BY <1>2, <1>5, <1>6 DEF AgreeInv

LEMMA SyncEndAgrees == ASSUME TypeOK, AgreeInv, SyncEnd PROVE AgreeInv'
<1>1. cb.busy /\ cb.todo = {} /\ cb.report = NoReport
  BY DEF SyncEnd
<1>2. /\ ~cb'.busy /\ cb'.todo = {} /\ cb'.report = NoReport /\ hw_aws_publish'
      /\ UNCHANGED <<hw, shadow_status, main, started, reported, toDevice, spoilt>>
  BY DEF SyncEnd, NoMessage, broker, history
<1>3. FirstIsDocument' /\ IdleLoop'
  BY <1>1, <1>2 DEF AgreeInv, FirstIsDocument, IdleLoop
<1>4. ASSUME NEW k \in Keys, Accounted(k) PROVE Accounted(k)'
  BY <1>1, <1>2, <1>4, NoReportFacts DEF Accounted, DeviceAgrees, Told, Echo, Indices
<1> QED BY <1>2, <1>3, <1>4 DEF AgreeInv

LEMMA AppStartAgrees == ASSUME TypeOK, AgreeInv, AppStart PROVE AgreeInv'
<1> DEFINE m == [part |-> "reported", vals |-> reported]
<1>1. m \in Messages
  BY FullDoc DEF TypeOK, BrokerOK, Messages
<1>2. /\ IF started THEN toDevice' = Append(toDevice, m) ELSE toDevice' = toDevice
      /\ UNCHANGED <<device, reported, spoilt>>
  BY DEF AppStart, Answer
<1> HIDE DEF m
<1>3. CASE started
  BY <1>1, <1>2, <1>3, MoreMessages DEF device
<1>4. CASE ~started
  BY <1>2, <1>4, AgreeFrame
<1> QED BY <1>3, <1>4

LEMMA RunLoopAgrees == ASSUME TypeOK, AgreeInv, RunLoop PROVE AgreeInv'
<1> DEFINE m == [part |-> "desired", vals |-> Desired]
<1>1. m \in Messages
  BY DesiredDoc DEF TypeOK, Messages
<1>2. /\ toDevice' = toDevice \/ (started /\ toDevice' = Append(toDevice, m))
      /\ UNCHANGED <<device, reported, spoilt>>
  BY DEF RunLoop
<1> HIDE DEF m
<1>3. CASE started
  BY <1>1, <1>2, <1>3, MoreMessages DEF device
<1>4. CASE ~started
  BY <1>2, <1>4, AgreeFrame
<1> QED BY <1>3, <1>4

LEMMA AgreeStep == TypeOK /\ AgreeInv /\ [Next]_vars => AgreeInv'
<1> SUFFICES ASSUME TypeOK, AgreeInv, [Next]_vars PROVE AgreeInv'
  OBVIOUS
<1>1. CASE UNCHANGED vars
  BY <1>1, AgreeFrame DEF vars, broker, history
<1>2. CASE \E c \in Keys, v \in Values : Touch(c, v)
  BY <1>2, TouchAgrees
<1>3. CASE \E c \in Keys, v \in Values : Toggle(c, v)
  BY <1>3, AgreeFrame DEF Toggle, broker
<1>4. CASE Device
  BY <1>4, TouchReportAgrees, GetAgrees, PublishAgrees, ReceiveAgrees, SyncKeyAgrees,
     SyncReportAgrees, SyncEndAgrees DEF Device
<1>5. CASE AppStart \/ RunLoop
  BY <1>5, AppStartAgrees, RunLoopAgrees
<1>6. CASE UpdateItem
  BY <1>6, AgreeFrame DEF UpdateItem, history
<1>7. CASE StartTimer \/ \E c \in Keys : SetSwitch(c)
  BY <1>7, AgreeFrame DEF StartTimer, SetSwitch, broker, history
<1> QED BY <1>1, <1>2, <1>3, <1>4, <1>5, <1>6, <1>7 DEF Next

LEMMA AgreeThen == TypeOK /\ AgreeInv => QuietDeviceAgrees
<1> SUFFICES ASSUME TypeOK, AgreeInv, DeviceQuiet, NEW c \in Keys \ spoilt
             PROVE  DeviceAgrees(c)
  BY DEF QuietDeviceAgrees
<1>1. /\ started /\ shadow_status = Empty /\ main = NoReport /\ ~cb.busy /\ toDevice = <<>>
      /\ cb.report = NoReport
  BY DEF DeviceQuiet, AgreeInv, IdleLoop
<1>2. ~Told(c)
  BY <1>1, NoReportFacts DEF Told
<1>3. ~Echo(c)
  BY <1>1 DEF Echo, Indices
<1>4. c \notin DOMAIN shadow_status
  BY <1>1, EmptyDoc
<1> QED BY <1>1, <1>2, <1>3, <1>4 DEF AgreeInv, Accounted

\* When nothing is on its way, the board shows what the document says, except for the keys
\* in spoilt (hw.cpp 336-480). AgreeInv says why: for every key on which the two differ, a
\* report waits or an echo is under way, also before the board knows of the document.
THEOREM QuietBoardAgrees == Spec => []QuietDeviceAgrees
BY TypeInit, TypeStep, AgreeInit, AgreeStep, AgreeThen, PTL DEF Spec

----------------------------------------------------------------------------
(* The document shows only what somebody chose                              *)

ChosenIn(S, vals) == \A c \in DOMAIN vals : Report(c, vals[c]) \in S
ReportChosen(S, r) == r # NoReport => r \in S

\* Every value on its way to the document, or to a switch, has been chosen.
DeviceChosen ==
  /\ ChosenIn(chosen, shadow_status) /\ ChosenIn(chosen, cb.vals)
  /\ ReportChosen(chosen, main) /\ ReportChosen(chosen, cb.report)

BrokerChosen ==
  /\ ChosenIn(chosen, reported)
  /\ \A i \in Indices(toDevice) : ChosenIn(chosen, toDevice[i].vals)
  /\ \A i \in Indices(toApp) : ChosenIn(chosen, toApp[i].vals)

TasksChosen == \A i \in Indices(tasks) : ChosenIn(chosen, tasks[i])

SwitchChosen(c) == Report(c, ui[c]) \in chosen

\* A block for c stands before position t of the main queue.
BlockBefore(t, c) == \E i \in 1 .. t - 1 : c \in DOMAIN tasks[i]

\* The first message the app gets is a full document, and the timer comes behind a block
\* for every switch that shows what nobody chose.
TimerBehind ==
  /\ app = "off" => toApp = <<>>
  /\ app \in {"off", "getting"} => tasks = <<>>
  /\ app = "getting" => \A i \in Indices(toApp) : DOMAIN toApp[i].vals = Keys
  /\ \A i \in Indices(toApp) : DOMAIN toApp[i].vals = {} => Keys = {}
  /\ app = "got" =>
       \A t \in Indices(tasks), c \in Keys :
          DOMAIN tasks[t] = {} => SwitchChosen(c) \/ BlockBefore(t, c)
  /\ app = "on" => \A c \in Keys : SwitchChosen(c)

ChosenInv == DeviceChosen /\ BrokerChosen /\ TasksChosen /\ TimerBehind

LEMMA NothingThere == Indices(<<>>) = {}
BY DEF Indices

LEMMA EmptyChosen == ASSUME NEW S PROVE ChosenIn(S, Empty)
BY EmptyDoc DEF ChosenIn

LEMMA WithChosen ==
  ASSUME NEW S, NEW f \in Docs, NEW g \in Docs, ChosenIn(S, f), ChosenIn(S, g)
  PROVE  ChosenIn(S, With(f, g))
<1> SUFFICES ASSUME NEW c \in DOMAIN With(f, g) PROVE Report(c, With(f, g)[c]) \in S
  BY DEF ChosenIn
<1>1. CASE c \in DOMAIN g
  BY <1>1, WithDoc DEF ChosenIn
<1>2. CASE c \notin DOMAIN g
  <2>1. c \in DOMAIN f \ DOMAIN g
    BY <1>2, WithDoc
  <2>2. With(f, g)[c] = f[c]
    BY <2>1, WithDoc
  <2> QED BY <2>1, <2>2 DEF ChosenIn
<1> QED BY <1>1, <1>2

LEMMA OnlyIsChosen ==
  ASSUME NEW S, NEW r \in Reports, r # NoReport, r \in S
  PROVE  Only(r.key, r.value) \in Docs /\ ChosenIn(S, Only(r.key, r.value))
<1>1. r.key \in Keys /\ r.value \in Values /\ r = Report(r.key, r.value)
  BY ReportFacts
<1>2. /\ Only(r.key, r.value) \in Docs /\ DOMAIN Only(r.key, r.value) = {r.key}
      /\ Only(r.key, r.value)[r.key] = r.value
  BY <1>1, OnlyDoc
<1> QED BY <1>1, <1>2 DEF ChosenIn

LEMMA ChosenInit == Init => ChosenInv
<1> SUFFICES ASSUME Init PROVE ChosenInv
  OBVIOUS
<1>1. ChosenIn(chosen, reported)
  BY DEF Init, ChosenIn
<1>2. DeviceChosen
  BY EmptyChosen DEF Init, DeviceChosen, NoMessage, ReportChosen
<1>3. BrokerChosen /\ TasksChosen
  BY <1>1, NothingThere DEF Init, BrokerChosen, TasksChosen
<1>4. TimerBehind
  BY NothingThere DEF Init, TimerBehind
<1> QED BY <1>2, <1>3, <1>4 DEF ChosenInv

\* What was chosen stays chosen.
LEMMA ChosenGrows == [Next]_vars => chosen \subseteq chosen'
BY DEF Next, vars, history, Device, Touch, Toggle, Changed, TouchReport, Get, Publish, Receive,
       SyncKey, SyncReport, SyncEnd, AppStart, UpdateItem, StartTimer, SetSwitch, RunLoop

LEMMA ChosenMore ==
  ASSUME NEW S, NEW T, S \subseteq T
  PROVE  /\ \A f : ChosenIn(S, f) => ChosenIn(T, f)
         /\ \A r : ReportChosen(S, r) => ReportChosen(T, r)
BY DEF ChosenIn, ReportChosen

LEMMA DeviceChosenFrame ==
  ASSUME DeviceChosen, chosen \subseteq chosen', UNCHANGED device
  PROVE  DeviceChosen'
BY ChosenMore DEF DeviceChosen, device

LEMMA BrokerChosenFrame ==
  ASSUME BrokerChosen, chosen \subseteq chosen', UNCHANGED broker
  PROVE  BrokerChosen'
BY ChosenMore DEF BrokerChosen, broker

LEMMA PhoneChosenFrame ==
  ASSUME TasksChosen, TimerBehind, chosen \subseteq chosen', UNCHANGED <<app, ui, tasks, toApp>>
  PROVE  TasksChosen' /\ TimerBehind'
<1>1. TasksChosen'
  BY ChosenMore DEF TasksChosen
<1>2. \A c : (SwitchChosen(c) => SwitchChosen(c)')
  BY DEF SwitchChosen
<1>3. \A t, c : (BlockBefore(t, c) => BlockBefore(t, c)')
  BY DEF BlockBefore
<1>4. TimerBehind'
  BY <1>2, <1>3 DEF TimerBehind
<1> QED BY <1>1, <1>4

LEMMA TouchChosen ==
  ASSUME TypeOK, ChosenInv, chosen \subseteq chosen',
         NEW c \in Keys, NEW v \in Values, Touch(c, v)
  PROVE  ChosenInv'
<1>1. /\ main' = Report(c, v) /\ Report(c, v) \in chosen'
      /\ UNCHANGED <<shadow_status, cb, broker, app, ui, tasks, toApp>>
  BY DEF Touch, Changed, phone, broker
<1>2. DeviceChosen'
  BY <1>1, ChosenMore DEF ChosenInv, DeviceChosen, ReportChosen
<1> QED BY <1>1, <1>2, BrokerChosenFrame, PhoneChosenFrame DEF ChosenInv

LEMMA ToggleChosen ==
  ASSUME TypeOK, ChosenInv, chosen \subseteq chosen',
         NEW c \in Keys, NEW v \in Values, Toggle(c, v)
  PROVE  ChosenInv'
<1>1. /\ ui' = [ui EXCEPT ![c] = v] /\ Report(c, v) \in chosen'
      /\ UNCHANGED <<device, broker, app, tasks, toApp>>
  BY DEF Toggle, Changed, broker
<1>2. \A k \in Keys : (SwitchChosen(k) => SwitchChosen(k)')
  BY <1>1 DEF SwitchChosen, TypeOK, PhoneOK
<1>3. \A t, k : (BlockBefore(t, k) => BlockBefore(t, k)')
  BY <1>1 DEF BlockBefore
<1>4. TimerBehind'
  BY <1>1, <1>2, <1>3 DEF ChosenInv, TimerBehind
<1>5. TasksChosen'
  BY <1>1, ChosenMore DEF ChosenInv, TasksChosen
<1> QED BY <1>1, <1>4, <1>5, DeviceChosenFrame, BrokerChosenFrame DEF ChosenInv

LEMMA TouchReportChosen ==
  ASSUME TypeOK, ChosenInv, chosen \subseteq chosen', TouchReport PROVE ChosenInv'
<1>1. /\ main # NoReport /\ main' = NoReport
      /\ shadow_status' = shadow_status
         \/ shadow_status' = With(shadow_status, Only(main.key, main.value))
      /\ UNCHANGED <<cb, broker, app, ui, tasks, toApp>>
  BY DEF TouchReport, broker, phone
<1>2. Only(main.key, main.value) \in Docs /\ ChosenIn(chosen', Only(main.key, main.value))
  BY <1>1, OnlyIsChosen DEF TypeOK, DeviceOK, ChosenInv, DeviceChosen, ReportChosen
<1>3. ChosenIn(chosen', shadow_status')
  BY <1>1, <1>2, WithChosen, ChosenMore DEF TypeOK, DeviceOK, ChosenInv, DeviceChosen
<1>4. DeviceChosen'
  BY <1>1, <1>3, ChosenMore DEF ChosenInv, DeviceChosen, ReportChosen
<1> QED BY <1>1, <1>4, BrokerChosenFrame, PhoneChosenFrame DEF ChosenInv

\* Messages sent to both sides.
LEMMA SendChosen ==
  ASSUME TypeOK, BrokerChosen, chosen \subseteq chosen', ChosenIn(chosen', reported'),
         NEW m \in Messages, ChosenIn(chosen', m.vals),
         toDevice' = toDevice \/ toDevice' = Append(toDevice, m),
         toApp' = toApp \/ toApp' = Append(toApp, m)
  PROVE  BrokerChosen'
<1>1. ASSUME NEW i \in Indices(toDevice') PROVE ChosenIn(chosen', toDevice'[i].vals)
  <2>1. CASE toDevice' = toDevice
    BY <1>1, <2>1, ChosenMore DEF BrokerChosen
  <2>2. CASE toDevice' = Append(toDevice, m)
    <3>1. CASE i = Len(toDevice) + 1
      BY <2>2, <3>1, Appended DEF TypeOK, BrokerOK
    <3>2. CASE i # Len(toDevice) + 1
      <4>1. i \in Indices(toDevice) /\ toDevice'[i] = toDevice[i]
        BY <1>1, <2>2, <3>2, Appended DEF TypeOK, BrokerOK, Indices
      <4> QED BY <4>1, ChosenMore DEF BrokerChosen
    <3> QED BY <3>1, <3>2
  <2> QED BY <2>1, <2>2
<1>2. ASSUME NEW i \in Indices(toApp') PROVE ChosenIn(chosen', toApp'[i].vals)
  <2>1. CASE toApp' = toApp
    BY <1>2, <2>1, ChosenMore DEF BrokerChosen
  <2>2. CASE toApp' = Append(toApp, m)
    <3>1. CASE i = Len(toApp) + 1
      BY <2>2, <3>1, Appended DEF TypeOK, BrokerOK
    <3>2. CASE i # Len(toApp) + 1
      <4>1. i \in Indices(toApp) /\ toApp'[i] = toApp[i]
        BY <1>2, <2>2, <3>2, Appended DEF TypeOK, BrokerOK, Indices
      <4> QED BY <4>1, ChosenMore DEF BrokerChosen
    <3> QED BY <3>1, <3>2
  <2> QED BY <2>1, <2>2
<1> QED BY <1>1, <1>2 DEF BrokerChosen

\* Another message for the app, which has asked for it: the document, if it still gets that.
LEMMA AppHears ==
  ASSUME TypeOK, TasksChosen, TimerBehind, chosen \subseteq chosen',
         NEW m \in Messages, m.vals # Empty \/ Keys = {},
         app' = app \/ (app = "off" /\ app' = "getting"), UNCHANGED <<ui, tasks>>,
         toApp' = toApp \/ (app' # "off" /\ toApp' = Append(toApp, m)),
         app' = "getting" => DOMAIN m.vals = Keys
  PROVE  TasksChosen' /\ TimerBehind'
<1>1. TasksChosen'
  BY ChosenMore DEF TasksChosen
<1>2. \A c : (SwitchChosen(c) => SwitchChosen(c)')
  BY DEF SwitchChosen
<1>3. \A t, c : (BlockBefore(t, c) => BlockBefore(t, c)')
  BY DEF BlockBefore
<1>4. DOMAIN m.vals = {} => Keys = {}
  BY DocFacts DEF Messages, Empty
<1>5. ASSUME NEW i \in Indices(toApp')
      PROVE  /\ app' = "getting" => DOMAIN toApp'[i].vals = Keys
             /\ DOMAIN toApp'[i].vals = {} => Keys = {}
  <2>1. CASE toApp' = toApp
    BY <1>5, <2>1, NothingThere DEF TimerBehind
  <2>2. CASE toApp' = Append(toApp, m)
    <3>1. CASE i = Len(toApp) + 1
      BY <1>4, <2>2, <3>1, Appended DEF TypeOK, BrokerOK
    <3>2. CASE i # Len(toApp) + 1
      <4>1. i \in Indices(toApp) /\ toApp'[i] = toApp[i]
        BY <1>5, <2>2, <3>2, Appended DEF TypeOK, BrokerOK, Indices
      <4> QED BY <4>1, NothingThere DEF TimerBehind
    <3> QED BY <3>1, <3>2
  <2> QED BY <2>1, <2>2
<1>6. TimerBehind'
  BY <1>2, <1>3, <1>5 DEF TimerBehind
<1> QED BY <1>1, <1>6

LEMMA GetChosen ==
  ASSUME TypeOK, ChosenInv, chosen \subseteq chosen', Get PROVE ChosenInv'
<1> DEFINE m == [part |-> "reported", vals |-> reported]
<1>1. m \in Messages /\ m.vals = reported /\ DOMAIN m.vals = Keys
  BY FullDoc DEF TypeOK, BrokerOK, Messages
<1>2. /\ toDevice' = Append(toDevice, m) /\ reported' = reported
      /\ toApp' = toApp \/ (app # "off" /\ toApp' = Append(toApp, m))
      /\ UNCHANGED <<shadow_status, main, cb, app, ui, tasks>>
  BY DEF Get, Answer, phone
<1>3. ChosenIn(chosen', reported)
  BY ChosenMore DEF ChosenInv, BrokerChosen
<1> HIDE DEF m
<1>4. m.vals # Empty \/ Keys = {}
  BY <1>1, EmptyDoc
<1>5. BrokerChosen'
  BY <1>1, <1>2, <1>3, SendChosen DEF ChosenInv
<1>6. TasksChosen' /\ TimerBehind'
  BY <1>1, <1>2, <1>4, AppHears DEF ChosenInv
<1>7. DeviceChosen'
  BY <1>2, ChosenMore DEF ChosenInv, DeviceChosen
<1> QED BY <1>5, <1>6, <1>7 DEF ChosenInv

LEMMA PublishChosen ==
  ASSUME TypeOK, ChosenInv, chosen \subseteq chosen', Publish PROVE ChosenInv'
<1> DEFINE m == [part |-> "reported", vals |-> shadow_status]
<1>1. m \in Messages /\ m.vals = shadow_status /\ shadow_status # Empty
  BY DEF TypeOK, DeviceOK, Messages, Publish
<1>2. /\ toDevice' = Append(toDevice, m) /\ reported' = With(reported, shadow_status)
      /\ toApp' = toApp \/ (app \in {"got", "on"} /\ toApp' = Append(toApp, m))
      /\ shadow_status' = Empty
      /\ UNCHANGED <<main, cb, app, ui, tasks>>
  BY DEF Publish, phone
<1>3. ChosenIn(chosen', shadow_status) /\ ChosenIn(chosen', reported)
  BY ChosenMore DEF ChosenInv, BrokerChosen, DeviceChosen
<1>4. ChosenIn(chosen', reported')
  BY <1>2, <1>3, FullDoc, WithChosen DEF TypeOK, DeviceOK, BrokerOK
<1> HIDE DEF m
<1>5. BrokerChosen'
  BY <1>1, <1>2, <1>3, <1>4, SendChosen DEF ChosenInv
<1>6. TasksChosen' /\ TimerBehind'
  <2>1. CASE toApp' = toApp
    BY <1>2, <2>1, PhoneChosenFrame DEF ChosenInv
  <2>2. CASE app \in {"got", "on"} /\ toApp' = Append(toApp, m)
    BY <1>1, <1>2, <2>2, AppHears DEF ChosenInv
  <2> QED BY <1>2, <2>1, <2>2
<1>7. DeviceChosen'
  BY <1>2, ChosenMore, EmptyChosen DEF ChosenInv, DeviceChosen
<1> QED BY <1>5, <1>6, <1>7 DEF ChosenInv

LEMMA ReceiveChosen ==
  ASSUME TypeOK, ChosenInv, chosen \subseteq chosen', Receive PROVE ChosenInv'
<1> DEFINE vals == Head(toDevice).vals
<1>1. /\ cb' = Loop(vals, DOMAIN vals, FALSE, NoReport) /\ toDevice' = Tail(toDevice)
      /\ toDevice # <<>>
      /\ UNCHANGED <<shadow_status, main, reported, toApp, app, ui, tasks>>
  BY DEF Receive, phone
<1>2. cb'.vals = vals /\ cb'.report = NoReport
  BY <1>1 DEF Loop
<1>3. /\ vals = toDevice[1].vals /\ 1 \in Indices(toDevice)
      /\ \A i \in Indices(toDevice') : toDevice'[i] = toDevice[i + 1] /\ i + 1 \in Indices(toDevice)
  BY <1>1, Beheaded DEF TypeOK, BrokerOK
<1> HIDE DEF vals
<1>4. DeviceChosen'
  BY <1>1, <1>2, <1>3, ChosenMore DEF ChosenInv, DeviceChosen, BrokerChosen, ReportChosen
<1>5. BrokerChosen'
  BY <1>1, <1>3, ChosenMore DEF ChosenInv, BrokerChosen
<1> QED BY <1>1, <1>4, <1>5, PhoneChosenFrame DEF ChosenInv

LEMMA SyncKeyChosen ==
  ASSUME TypeOK, ChosenInv, chosen \subseteq chosen', NEW c \in Keys, SyncKey(c) PROVE ChosenInv'
<1> DEFINE heard == c \in Buttons \/ ~cb.exit
           r == IF heard /\ hw[c] # cb.vals[c] THEN Report(c, cb.vals[c]) ELSE NoReport
<1>1. /\ cb' = Loop(cb.vals, cb.todo \ {c}, cb.exit \/ c \in Buttons, r)
      /\ c \in cb.todo
      /\ UNCHANGED <<shadow_status, main, broker, app, ui, tasks, toApp>>
  BY DEF SyncKey, phone, broker
<1>2. c \in DOMAIN cb.vals
  BY <1>1 DEF TypeOK, DeviceOK
<1>3. ReportChosen(chosen', r)
  BY <1>2 DEF ChosenInv, DeviceChosen, ChosenIn, ReportChosen
<1> HIDE DEF r
<1>4. cb'.vals = cb.vals /\ cb'.report = r
  BY <1>1 DEF Loop
<1>5. DeviceChosen'
  BY <1>1, <1>3, <1>4, ChosenMore DEF ChosenInv, DeviceChosen
<1> QED BY <1>1, <1>5, BrokerChosenFrame, PhoneChosenFrame DEF ChosenInv

LEMMA SyncReportChosen ==
  ASSUME TypeOK, ChosenInv, chosen \subseteq chosen', SyncReport PROVE ChosenInv'
<1> DEFINE r == cb.report
<1>1. /\ r # NoReport /\ cb' = Loop(cb.vals, cb.todo, cb.exit, NoReport)
      /\ shadow_status' = shadow_status
         \/ shadow_status' = With(shadow_status, Only(r.key, r.value))
      /\ UNCHANGED <<main, broker, app, ui, tasks, toApp>>
  BY DEF SyncReport, broker, phone
<1>2. r \in Reports /\ r \in chosen'
  BY <1>1 DEF TypeOK, DeviceOK, ChosenInv, DeviceChosen, ReportChosen
<1> HIDE DEF r
<1>3. Only(r.key, r.value) \in Docs /\ ChosenIn(chosen', Only(r.key, r.value))
  BY <1>1, <1>2, OnlyIsChosen
<1>4. ChosenIn(chosen', shadow_status')
  BY <1>1, <1>3, WithChosen, ChosenMore DEF TypeOK, DeviceOK, ChosenInv, DeviceChosen
<1>5. cb'.vals = cb.vals /\ cb'.report = NoReport
  BY <1>1 DEF Loop
<1>6. DeviceChosen'
  BY <1>1, <1>4, <1>5, ChosenMore DEF ChosenInv, DeviceChosen, ReportChosen
<1> QED BY <1>1, <1>6, BrokerChosenFrame, PhoneChosenFrame DEF ChosenInv

LEMMA SyncEndChosen ==
  ASSUME TypeOK, ChosenInv, chosen \subseteq chosen', SyncEnd PROVE ChosenInv'
<1>1. /\ cb'.vals = Empty /\ cb'.report = NoReport
      /\ UNCHANGED <<shadow_status, main, broker, app, ui, tasks, toApp>>
  BY DEF SyncEnd, NoMessage, broker, phone
<1>2. DeviceChosen'
  BY <1>1, ChosenMore, EmptyChosen DEF ChosenInv, DeviceChosen, ReportChosen
<1> QED BY <1>1, <1>2, BrokerChosenFrame, PhoneChosenFrame DEF ChosenInv

LEMMA AppStartChosen ==
  ASSUME TypeOK, ChosenInv, chosen \subseteq chosen', AppStart PROVE ChosenInv'
<1> DEFINE m == [part |-> "reported", vals |-> reported]
<1>1. m \in Messages /\ m.vals = reported /\ DOMAIN m.vals = Keys
  BY FullDoc DEF TypeOK, BrokerOK, Messages
<1>2. /\ toDevice' = toDevice \/ toDevice' = Append(toDevice, m)
      /\ reported' = reported /\ toApp' = Append(toApp, m)
      /\ app = "off" /\ app' = "getting"
      /\ UNCHANGED <<device, ui, tasks>>
  BY DEF AppStart, Answer
<1>3. ChosenIn(chosen', reported)
  BY ChosenMore DEF ChosenInv, BrokerChosen
<1> HIDE DEF m
<1>4. m.vals # Empty \/ Keys = {}
  BY <1>1, EmptyDoc
<1>5. BrokerChosen'
  BY <1>1, <1>2, <1>3, SendChosen DEF ChosenInv
<1>6. TasksChosen' /\ TimerBehind'
  BY <1>1, <1>2, <1>4, AppHears DEF ChosenInv
<1> QED BY <1>2, <1>5, <1>6, DeviceChosenFrame DEF ChosenInv

LEMMA RunLoopChosen ==
  ASSUME TypeOK, ChosenInv, chosen \subseteq chosen', RunLoop PROVE ChosenInv'
<1> DEFINE m == [part |-> "desired", vals |-> Desired]
<1>1. m \in Messages /\ m.vals = Desired
  BY DesiredDoc DEF TypeOK, Messages
<1>2. /\ toDevice' = toDevice \/ toDevice' = Append(toDevice, m)
      /\ app = "on"
      /\ UNCHANGED <<device, reported, app, ui, tasks, toApp>>
  BY DEF RunLoop
<1>3. ChosenIn(chosen', Desired)
  BY <1>2, DesiredDoc DEF TypeOK, ChosenInv, TimerBehind, SwitchChosen, ChosenIn
<1>4. ChosenIn(chosen', reported')
  BY <1>2, ChosenMore DEF ChosenInv, BrokerChosen
<1> HIDE DEF m
<1>5. BrokerChosen'
  BY <1>1, <1>2, <1>3, <1>4, SendChosen DEF ChosenInv
<1> QED BY <1>2, <1>5, DeviceChosenFrame, PhoneChosenFrame DEF ChosenInv

LEMMA UpdateItemChosen ==
  ASSUME TypeOK, ChosenInv, chosen \subseteq chosen', UpdateItem PROVE ChosenInv'
<1> DEFINE vals == Head(toApp).vals
           r == tasks \o <<vals>>
<1>1. /\ toApp # <<>> /\ toApp' = Tail(toApp)
      /\ tasks' = r \o IF app = "getting" THEN <<Timer>> ELSE <<>>
      /\ app' = IF app = "getting" THEN "got" ELSE app
      /\ UNCHANGED <<device, reported, toDevice, ui>>
  BY DEF UpdateItem
<1>2. /\ vals = toApp[1].vals /\ 1 \in Indices(toApp) /\ toApp[1] \in Messages
      /\ \A i \in Indices(toApp') : toApp'[i] = toApp[i + 1] /\ i + 1 \in Indices(toApp)
  BY <1>1, Beheaded DEF TypeOK, BrokerOK
<1>3. vals \in Docs /\ tasks \in Seq(Docs) /\ Timer \in Docs /\ DOMAIN Timer = {}
  BY <1>2, EmptyDoc DEF Messages, TypeOK, PhoneOK, Timer
<1>4. ChosenIn(chosen', vals) /\ ChosenIn(chosen', Timer)
  BY <1>2, ChosenMore, EmptyChosen DEF ChosenInv, BrokerChosen, Timer
<1>5. app # "off" /\ (app = "getting" => DOMAIN vals = Keys) /\ (DOMAIN vals = {} => Keys = {})
  BY <1>1, <1>2, NothingThere DEF ChosenInv, TimerBehind
<1> HIDE DEF vals
<1>6. /\ r \in Seq(Docs) /\ Len(r) = Len(tasks) + 1 /\ r[Len(tasks) + 1] = vals
      /\ \A i \in Indices(tasks) : r[i] = tasks[i]
  <2> DEFINE one == <<vals>>
  <2>1. r = tasks \o one /\ one \in Seq(Docs) /\ Len(one) = 1 /\ one[1] = vals
    BY <1>3
  <2> HIDE DEF r, one
  <2>2. r \in Seq(Docs)
    BY <1>3, <2>1, ConcatProperties
  <2>3. /\ Len(tasks \o one) = Len(tasks) + Len(one)
        /\ \A i \in 1 .. Len(tasks) + Len(one) :
              (tasks \o one)[i] = IF i <= Len(tasks) THEN tasks[i] ELSE one[i - Len(tasks)]
    <3>1. tasks \in Seq(Docs) /\ one \in Seq(Docs)
      BY <1>3, <2>1
    <3> QED BY <3>1, ConcatProperties
  <2>4. Len(tasks) \in Nat
    BY <1>3
  <2> QED BY <2>1, <2>2, <2>3, <2>4 DEF Indices
<1>7. \A i \in Indices(r) : ChosenIn(chosen', r[i])
  <2> SUFFICES ASSUME NEW i \in Indices(r) PROVE ChosenIn(chosen', r[i])
    OBVIOUS
  <2>1. CASE i = Len(tasks) + 1
    BY <1>4, <1>6, <2>1
  <2>2. CASE i # Len(tasks) + 1
    <3>1. i \in Indices(tasks)
      BY <1>3, <1>6, <2>2 DEF Indices
    <3> QED BY <1>6, <3>1, ChosenMore DEF ChosenInv, TasksChosen
  <2> QED BY <2>1, <2>2
<1>8. DeviceChosen'
  BY <1>1, DeviceChosenFrame DEF ChosenInv
<1>9. BrokerChosen'
  BY <1>1, <1>2, ChosenMore DEF ChosenInv, BrokerChosen
<1>10. \A c : (SwitchChosen(c) => SwitchChosen(c)')
  BY <1>1 DEF SwitchChosen
<1> HIDE DEF r
<1>11. CASE app = "getting"
  <2>1. /\ Len(tasks') = Len(r) + 1 /\ tasks'[Len(r) + 1] = Timer
        /\ \A i \in Indices(r) : tasks'[i] = r[i]
    <3>1. tasks' = r \o <<Timer>> /\ r \in Seq(Docs)
      BY <1>1, <1>6, <1>11
    <3> DEFINE one == <<Timer>>
    <3>2. tasks' = r \o one /\ one \in Seq(Docs) /\ Len(one) = 1 /\ one[1] = Timer
      BY <1>3, <3>1
    <3> HIDE DEF one
    <3> QED BY <1>3, <3>1, <3>2, ConcatProperties DEF Indices
  <2>2. TasksChosen'
    <3> SUFFICES ASSUME NEW i \in Indices(tasks') PROVE ChosenIn(chosen', tasks'[i])
      BY DEF TasksChosen
    <3>1. CASE i = Len(r) + 1
      BY <1>4, <2>1, <3>1
    <3>2. CASE i # Len(r) + 1
      <4>1. i \in Indices(r)
        BY <1>6, <2>1, <3>2 DEF Indices
      <4> QED BY <1>7, <2>1, <4>1
    <3> QED BY <3>1, <3>2
  <2>3. tasks = <<>> /\ Len(r) = 1 /\ app' = "got" /\ DOMAIN vals = Keys
    BY <1>1, <1>5, <1>6, <1>11 DEF ChosenInv, TimerBehind
  <2>4. tasks'[1] = vals
    BY <1>6, <2>1, <2>3 DEF Indices
  <2>5. ASSUME NEW t \in Indices(tasks'), NEW c \in Keys, DOMAIN tasks'[t] = {}
        PROVE  BlockBefore(t, c)'
    <3>1. t # 1
      BY <2>3, <2>4, <2>5
    <3>2. t = 2
      BY <2>1, <2>3, <3>1 DEF Indices
    <3> QED BY <2>3, <2>4, <3>2 DEF BlockBefore
  <2>6. TimerBehind'
    BY <1>1, <1>2, <2>3, <2>5 DEF ChosenInv, TimerBehind
  <2> QED BY <1>8, <1>9, <2>2, <2>6 DEF ChosenInv
<1>12. CASE app # "getting"
  <2>1. tasks' = r /\ app' = app
    BY <1>1, <1>6, <1>12, ConcatEmptySeq
  <2>2. TasksChosen'
    BY <1>7, <2>1 DEF TasksChosen
  <2>3. ASSUME app = "got", NEW t \in Indices(tasks'), NEW c \in Keys, DOMAIN tasks'[t] = {}
        PROVE  SwitchChosen(c)' \/ BlockBefore(t, c)'
    <3>1. t # Len(tasks) + 1
      BY <1>5, <1>6, <2>1, <2>3
    <3>2. t \in Indices(tasks) /\ tasks'[t] = tasks[t]
      BY <1>3, <1>6, <2>1, <2>3, <3>1 DEF Indices
    <3>3. SwitchChosen(c) \/ BlockBefore(t, c)
      BY <2>3, <3>2 DEF ChosenInv, TimerBehind
    <3>4. ASSUME NEW i \in 1 .. t - 1 PROVE tasks'[i] = tasks[i]
      BY <1>3, <1>6, <2>1, <3>2 DEF Indices
    <3> QED BY <1>10, <3>3, <3>4 DEF BlockBefore
  <2>4. TimerBehind'
    BY <1>1, <1>2, <1>5, <1>10, <1>12, <2>1, <2>3 DEF ChosenInv, TimerBehind
  <2> QED BY <1>8, <1>9, <2>2, <2>4 DEF ChosenInv
<1> QED BY <1>11, <1>12

LEMMA StartTimerChosen ==
  ASSUME TypeOK, ChosenInv, chosen \subseteq chosen', StartTimer PROVE ChosenInv'
<1>1. /\ tasks # <<>> /\ Head(tasks) = Timer /\ tasks' = Tail(tasks) /\ app' = "on"
      /\ UNCHANGED <<device, broker, ui, toApp>>
  BY DEF StartTimer, broker
<1>2. /\ tasks[1] = Timer /\ 1 \in Indices(tasks) /\ DOMAIN Timer = {}
      /\ \A i \in Indices(tasks') : tasks'[i] = tasks[i + 1] /\ i + 1 \in Indices(tasks)
  BY <1>1, Beheaded, EmptyDoc DEF TypeOK, PhoneOK, Timer
<1>3. TasksChosen'
  BY <1>2, ChosenMore DEF ChosenInv, TasksChosen
<1>4. \A c : ~BlockBefore(1, c)
  BY DEF BlockBefore
<1>5. app \in {"got", "on"}
  BY <1>1 DEF ChosenInv, TimerBehind, TypeOK, PhoneOK
<1>6. \A c \in Keys : SwitchChosen(c)
  BY <1>2, <1>4, <1>5 DEF ChosenInv, TimerBehind
<1>7. \A c \in Keys : SwitchChosen(c)'
  BY <1>1, <1>6 DEF SwitchChosen
<1>8. TimerBehind'
  BY <1>1, <1>7 DEF ChosenInv, TimerBehind
<1> QED BY <1>1, <1>3, <1>8, DeviceChosenFrame, BrokerChosenFrame DEF ChosenInv

LEMMA SetSwitchChosen ==
  ASSUME TypeOK, ChosenInv, chosen \subseteq chosen', NEW c \in Keys, SetSwitch(c)
  PROVE  ChosenInv'
<1> DEFINE head == Head(tasks)
           rest == [k \in DOMAIN head \ {c} |-> head[k]]
<1>1. /\ tasks # <<>> /\ c \in DOMAIN head
      /\ ui' = [ui EXCEPT ![c] = head[c]]
      /\ tasks' = (IF DOMAIN rest = {} THEN <<>> ELSE <<rest>>) \o Tail(tasks)
      /\ UNCHANGED <<device, broker, app, toApp>>
  BY DEF SetSwitch, First, broker
<1>2. /\ head = tasks[1] /\ 1 \in Indices(tasks) /\ head \in Docs
      /\ Tail(tasks) \in Seq(Docs) /\ Len(Tail(tasks)) = Len(tasks) - 1
      /\ \A i \in Indices(Tail(tasks)) : Tail(tasks)[i] = tasks[i + 1] /\ i + 1 \in Indices(tasks)
  BY <1>1, Beheaded DEF TypeOK, PhoneOK
<1>3. ChosenIn(chosen', head)
  BY <1>2, ChosenMore DEF ChosenInv, TasksChosen
<1>4. DOMAIN rest = DOMAIN head \ {c} /\ ChosenIn(chosen', rest)
  BY <1>3 DEF ChosenIn
<1>5. rest \in Docs
  <2>1. DOMAIN head \ {c} \in SUBSET Keys /\ \A k \in DOMAIN head \ {c} : head[k] \in Values
    BY <1>2, DocFacts
  <2>2. rest \in [DOMAIN head \ {c} -> Values]
    BY <2>1
  <2> QED BY <2>1, <2>2, DocIntro
<1>6. ASSUME NEW k \in Keys
      PROVE  (k = c \/ SwitchChosen(k)) => SwitchChosen(k)'
  <2>1. ui'[k] = IF k = c THEN head[c] ELSE ui[k]
    BY <1>1 DEF TypeOK, PhoneOK
  <2>2. Report(c, head[c]) \in chosen'
    BY <1>1, <1>3 DEF ChosenIn
  <2> HIDE DEF head
  <2> QED BY <2>1, <2>2 DEF SwitchChosen
<1>7. DeviceChosen' /\ BrokerChosen'
  BY <1>1, DeviceChosenFrame, BrokerChosenFrame DEF ChosenInv
<1>8. app \in {"got", "on"}
  BY <1>1 DEF ChosenInv, TimerBehind, TypeOK, PhoneOK
<1>9. app = "on" => \A k \in Keys : SwitchChosen(k)'
  BY <1>6 DEF ChosenInv, TimerBehind
<1> HIDE DEF head, rest
<1>10. ASSUME app = "got", NEW t \in Indices(tasks), NEW k \in Keys, DOMAIN tasks[t] = {}
       PROVE  /\ 2 <= t
              /\ \/ SwitchChosen(k)' \/ k \in DOMAIN rest
                 \/ \E i \in 2 .. t - 1 : k \in DOMAIN tasks[i]
  <2>1. t # 1
    BY <1>1, <1>2, <1>10
  <2>2. SwitchChosen(k) \/ BlockBefore(t, k)
    BY <1>10 DEF ChosenInv, TimerBehind
  <2>3. CASE SwitchChosen(k)
    BY <1>6, <2>1, <2>3 DEF Indices
  <2>4. CASE BlockBefore(t, k)
    <3>1. PICK i \in 1 .. t - 1 : k \in DOMAIN tasks[i]
      BY <2>4 DEF BlockBefore
    <3>2. CASE i = 1
      BY <1>2, <1>4, <1>6, <2>1, <3>1, <3>2 DEF Indices
    <3>3. CASE i # 1
      BY <2>1, <3>1, <3>3 DEF Indices
    <3> QED BY <3>2, <3>3
  <2> QED BY <2>2, <2>3, <2>4
<1>11. CASE DOMAIN rest = {}
  <2>1. tasks' = Tail(tasks)
    BY <1>1, <1>2, <1>11, ConcatEmptySeq
  <2>2. TasksChosen'
    BY <1>2, <2>1, ChosenMore DEF ChosenInv, TasksChosen
  <2>3. ASSUME app = "got", NEW t \in Indices(tasks'), NEW k \in Keys, DOMAIN tasks'[t] = {}
        PROVE  SwitchChosen(k)' \/ BlockBefore(t, k)'
    <3>1. t + 1 \in Indices(tasks) /\ DOMAIN tasks[t + 1] = {}
      BY <1>2, <2>1, <2>3
    <3>2. SwitchChosen(k)' \/ \E i \in 2 .. t : k \in DOMAIN tasks[i]
      <4>1. (t + 1) - 1 = t
        BY <2>3 DEF Indices
      <4> QED BY <1>10, <1>11, <2>3, <3>1, <4>1
    <3>3. ASSUME NEW i \in 2 .. t, k \in DOMAIN tasks[i] PROVE BlockBefore(t, k)'
      <4>1. i - 1 \in Indices(Tail(tasks)) /\ i - 1 \in 1 .. t - 1 /\ (i - 1) + 1 = i
        BY <1>2, <2>1, <2>3, <3>3 DEF Indices
      <4>2. tasks'[i - 1] = tasks[i]
        BY <1>2, <2>1, <4>1
      <4> QED BY <3>3, <4>1, <4>2 DEF BlockBefore
    <3> QED BY <3>2, <3>3
  <2>4. TimerBehind'
    BY <1>1, <1>8, <1>9, <2>3 DEF ChosenInv, TimerBehind
  <2> QED BY <1>7, <2>2, <2>4 DEF ChosenInv
<1>12. CASE DOMAIN rest # {}
  <2>1. /\ Len(tasks') = Len(tasks) /\ tasks'[1] = rest
        /\ \A i \in Indices(tasks) : i # 1 => tasks'[i] = tasks[i]
    <3>1. tasks' = <<rest>> \o Tail(tasks) /\ <<rest>> \in Seq(Docs) /\ Len(<<rest>>) = 1
      BY <1>1, <1>5, <1>12
    <3>2. /\ Len(tasks') = 1 + Len(Tail(tasks)) /\ tasks'[1] = rest
          /\ \A i \in 1 .. 1 + Len(Tail(tasks)) : i # 1 => tasks'[i] = Tail(tasks)[i - 1]
      BY <1>2, <3>1, ConcatProperties
    <3>3. ASSUME NEW i \in Indices(tasks), i # 1 PROVE tasks'[i] = tasks[i]
      <4>1. i \in 1 .. 1 + Len(Tail(tasks)) /\ i - 1 \in Indices(Tail(tasks)) /\ (i - 1) + 1 = i
        BY <1>2, <3>3 DEF Indices
      <4> QED BY <1>2, <3>2, <3>3, <4>1
    <3>4. Len(tasks') = Len(tasks)
      BY <1>2, <3>2 DEF TypeOK, PhoneOK
    <3> QED BY <3>2, <3>3, <3>4
  <2>2. Indices(tasks') = Indices(tasks)
    BY <2>1 DEF Indices
  <2>3. TasksChosen'
    <3> SUFFICES ASSUME NEW i \in Indices(tasks) PROVE ChosenIn(chosen', tasks'[i])
      BY <2>2 DEF TasksChosen
    <3>1. CASE i = 1
      BY <1>4, <2>1, <3>1
    <3>2. CASE i # 1
      BY <2>1, <3>2, ChosenMore DEF ChosenInv, TasksChosen
    <3> QED BY <3>1, <3>2
  <2>4. ASSUME app = "got", NEW t \in Indices(tasks'), NEW k \in Keys, DOMAIN tasks'[t] = {}
        PROVE  SwitchChosen(k)' \/ BlockBefore(t, k)'
    <3>1. t \in Indices(tasks) /\ t # 1 /\ DOMAIN tasks[t] = {}
      BY <1>12, <2>1, <2>2, <2>4
    <3>2. \/ SwitchChosen(k)' \/ k \in DOMAIN rest
          \/ \E i \in 2 .. t - 1 : k \in DOMAIN tasks[i]
      BY <1>10, <2>4, <3>1
    <3>3. ASSUME k \in DOMAIN rest PROVE BlockBefore(t, k)'
      <4>1. 1 \in 1 .. t - 1
        BY <3>1 DEF Indices
      <4> QED BY <2>1, <3>3, <4>1 DEF BlockBefore
    <3>4. ASSUME NEW i \in 2 .. t - 1, k \in DOMAIN tasks[i] PROVE BlockBefore(t, k)'
      <4>1. i \in Indices(tasks) /\ i # 1 /\ i \in 1 .. t - 1
        BY <3>1, <3>4 DEF Indices
      <4> QED BY <2>1, <3>4, <4>1 DEF BlockBefore
    <3> QED BY <3>2, <3>3, <3>4
  <2>5. TimerBehind'
    BY <1>1, <1>8, <1>9, <2>4 DEF ChosenInv, TimerBehind
  <2> QED BY <1>7, <2>3, <2>5 DEF ChosenInv
<1> QED BY <1>11, <1>12

LEMMA ChosenStep == TypeOK /\ ChosenInv /\ [Next]_vars => ChosenInv'
<1> SUFFICES ASSUME TypeOK, ChosenInv, [Next]_vars PROVE ChosenInv'
  OBVIOUS
<1>1. chosen \subseteq chosen'
  BY ChosenGrows
<1>2. CASE UNCHANGED vars
  BY <1>1, <1>2, DeviceChosenFrame, BrokerChosenFrame, PhoneChosenFrame
     DEF ChosenInv, vars, broker, phone
<1>3. CASE Next
  BY <1>1, <1>3, TouchChosen, ToggleChosen, TouchReportChosen, GetChosen, PublishChosen,
     ReceiveChosen, SyncKeyChosen, SyncReportChosen, SyncEndChosen, AppStartChosen,
     UpdateItemChosen, StartTimerChosen, SetSwitchChosen, RunLoopChosen DEF Next, Device
<1> QED BY <1>2, <1>3

LEMMA ChosenThen == TypeOK /\ ChosenInv => OnlyChosen
BY FullDoc DEF TypeOK, BrokerOK, ChosenInv, BrokerChosen, ChosenIn, OnlyChosen

\* The document shows only values somebody chose, or that it had (hw.cpp 336-352;
\* AWSIOT.swift 272-292). ChosenInv says why: whatever is on its way was chosen, and until
\* the timer starts, a switch that shows what nobody chose has its block in front of it.
THEOREM DocumentChosen == Spec => []OnlyChosen
BY TypeInit, TypeStep, ChosenInit, ChosenStep, ChosenThen, PTL DEF Spec

=============================================================================
