-------------------------- MODULE MainLoop_proofs --------------------------
(***************************************************************************)
(* Theorems about the main loop: for any pads, any order of the scan and    *)
(* any number of touches, that a button is flipped by taps only (MainLoop); *)
(* and for every ring and every set of takes, that what sound_update does   *)
(* follows the buttons (SoundControl).                                      *)
(***************************************************************************)
EXTENDS MainLoop, SoundControl, TLAPS

----------------------------------------------------------------------------
(* Types *)

\* A remainder is below its divisor.
LEMMA RemainderRange ==
  ASSUME NEW n \in Nat, NEW d \in Nat \ {0}
  PROVE  n % d \in 0 .. d - 1
  OBVIOUS

\* The part of the type invariant that holds booleans.
TouchesOK ==
  /\ finger \in Touches /\ raw \in Touches
  /\ prevBtnStatus \in Touched

\* The part that holds numbers and positions.
NumbersOK ==
  /\ scanned \in -1 .. Len(Widgets) - 1
  /\ capsense_sem \in Nat
  /\ count \in 0 .. SensorReadMs - 1
  /\ credit \in [Pads -> Int]

\* The part that holds places, positions of the slider and flags.
PlacesOK ==
  /\ pc \in {"scan", "acquire", "process", "before", "lit", "after", "rest"}
  /\ prevSliderPos \in Positions /\ hw_slider \in Positions
  /\ hw_with_mail \in BOOLEAN /\ hw_aws_publish \in BOOLEAN /\ mail \in BOOLEAN

\* There is at least one widget to scan.
LEMMA SomeWidget == Len(Widgets) \in Nat /\ Len(Widgets) >= 1
  BY WidgetsAssumption

LEMMA InitTypes == Init => TypeOK
<1> SUFFICES ASSUME Init PROVE TypeOK
  OBVIOUS
<1>1. NoFinger \in Touches /\ Untouched \in Touched
  BY DEF NoFinger, Untouched, Touches, Touched
<1>2. TouchesOK
  BY <1>1 DEF Init, TouchesOK
<1>3. NumbersOK
  BY SomeWidget, TimeAssumption DEF Init, NumbersOK
<1>4. PlacesOK
  BY WidgetsAssumption DEF Init, PlacesOK
<1> QED
  BY <1>2, <1>3, <1>4 DEF TypeOK, TouchesOK, NumbersOK, PlacesOK

\* What fingers, scanner and main loop do to who is touched.
LEMMA TouchesStep == TouchesOK /\ [Next]_vars => TouchesOK'
<1> SUFFICES ASSUME TouchesOK, [Next]_vars PROVE TouchesOK'
  OBVIOUS
<1>0. NoFinger \in Touches /\ Untouched \in Touched
  BY DEF NoFinger, Untouched, Touches, Touched
<1>1. ASSUME NEW p \in Pads, TouchPad(p) PROVE TouchesOK'
  <2>1. [finger.pad EXCEPT ![p] = ~finger.pad[p]] \in Touched
    BY Zenon DEF TouchesOK, Touches, Touched
  <2> QED
    BY <1>1, <2>1 DEF TouchPad, TouchesOK, Touches, scanner, pads
<1>2. ASSUME NEW x \in Positions \cup {Nowhere}, TouchSlider(x) PROVE TouchesOK'
  BY <1>2 DEF TouchSlider, TouchesOK, Touches, scanner, pads
<1>3. CASE Scan
  <2> DEFINE w == Widgets[scanned + 1]
  <2>1. CASE w = Slider
    BY <1>3, <2>1 DEF Scan, TouchesOK, Touches, world, pads
  <2>2. CASE w # Slider
    <3>1. [raw.pad EXCEPT ![w] = finger.pad[w]] \in Touched
      <4>1. finger.pad \in Touched /\ raw.pad \in Touched
        BY DEF TouchesOK, Touches
      <4>2. CASE w \in Pads
        BY <4>1, <4>2 DEF Touched
      <4>3. CASE w \notin Pads
        BY <4>1, <4>3 DEF Touched
      <4> QED
        BY <4>2, <4>3
    <3> QED
      BY <1>3, <2>2, <3>1 DEF Scan, TouchesOK, Touches, world, pads
  <2> QED
    BY <2>1, <2>2
<1>4. CASE ProcessTouchStatus
  BY <1>4 DEF ProcessTouchStatus, TouchesOK, Touches, world, scanner
<1>5. CASE Restart
  BY <1>0, <1>5 DEF Restart, TouchesOK, world
<1>6. CASE Weather \/ \E x \in Positions : CloudSlider(x)
  BY <1>6 DEF Weather, CloudSlider, Outside, TouchesOK, scanner
<1>7. CASE Told \/ StartScan \/ Acquire \/ ReadBefore \/ ReadLit \/ CheckWithMail \/ Rest
  BY <1>7 DEF Told, StartScan, Acquire, ReadBefore, ReadLit, CheckWithMail, Rest, TouchesOK,
              world, scanner, pads
<1>8. CASE UNCHANGED vars
  BY <1>8 DEF vars, TouchesOK, world, scanner, pads
<1> QED
  BY <1>1, <1>2, <1>3, <1>4, <1>5, <1>6, <1>7, <1>8 DEF Next, Main

\* What the scanner and the main loop do to counts.
LEMMA NumbersStep == NumbersOK /\ [Next]_vars => NumbersOK'
<1> SUFFICES ASSUME NumbersOK, [Next]_vars PROVE NumbersOK'
  OBVIOUS
<1>1. ASSUME NEW p \in Pads, TouchPad(p) PROVE NumbersOK'
  BY <1>1 DEF TouchPad, NumbersOK, scanner
<1>2. CASE Scan
  BY <1>2, SomeWidget DEF Scan, NumbersOK
<1>3. CASE StartScan
  BY <1>3, SomeWidget DEF StartScan, NextScan, NumbersOK
<1>4. CASE Acquire
  BY <1>4 DEF Acquire, NumbersOK, scanner
<1>5. CASE ProcessTouchStatus
  BY <1>5 DEF ProcessTouchStatus, NumbersOK, scanner
<1>6. CASE Rest
  <2>1. count + LoopMs \in Nat
    BY TimeAssumption DEF NumbersOK
  <2>2. (count + LoopMs) % SensorReadMs \in 0 .. SensorReadMs - 1
    BY <2>1, RemainderRange, TimeAssumption
  <2> QED
    BY <1>6, <2>2 DEF Rest, NumbersOK, scanner
<1>7. CASE Restart
  BY <1>7, SomeWidget, TimeAssumption DEF Restart, NumbersOK
<1>8. CASE Weather \/ \E x \in Positions : CloudSlider(x)
  BY <1>8 DEF Weather, CloudSlider, Outside, NumbersOK, scanner
<1>9. CASE Told \/ ReadBefore \/ ReadLit \/ CheckWithMail \/ UNCHANGED vars
             \/ \E x \in Positions \cup {Nowhere} : TouchSlider(x)
  BY <1>9 DEF Told, ReadBefore, ReadLit, CheckWithMail, TouchSlider, vars, NumbersOK, scanner
<1> QED
  BY <1>1, <1>2, <1>3, <1>4, <1>5, <1>6, <1>7, <1>8, <1>9 DEF Next, Main

\* What the main loop and the app do to the slider, and who reports what.
LEMMA PlacesStep == TouchesOK /\ PlacesOK /\ [Next]_vars => PlacesOK'
<1> SUFFICES ASSUME TouchesOK, PlacesOK, [Next]_vars PROVE PlacesOK'
  OBVIOUS
<1>1. CASE ProcessTouchStatus
  <2>1. raw.slider \in Positions \cup {Nowhere}
    BY DEF TouchesOK, Touches
  <2> QED
    BY <1>1, <2>1 DEF ProcessTouchStatus, PlacesOK, sensor
<1>2. CASE CheckWithMail
  <2>1. hw_with_mail' \in BOOLEAN
    BY <1>2 DEF CheckWithMail
  <2>2. mail' \in BOOLEAN
    <3>1. CASE hw_with_mail' # hw_with_mail /\ hw_aws_publish
      BY <1>2, <2>1, <3>1, Zenon DEF CheckWithMail
    <3>2. CASE hw_with_mail' = hw_with_mail \/ ~hw_aws_publish
      BY <1>2, <3>2, Zenon DEF CheckWithMail, PlacesOK
    <3> QED
      BY <3>1, <3>2
  <2> QED
    BY <1>2, <2>1, <2>2 DEF CheckWithMail, PlacesOK, pads
<1>3. CASE Restart
  BY <1>3, WidgetsAssumption DEF Restart, PlacesOK
<1>4. CASE \E x \in Positions : CloudSlider(x)
  BY <1>4 DEF CloudSlider, Outside, PlacesOK, sensor
<1>5. CASE StartScan \/ Acquire \/ ReadBefore \/ ReadLit \/ Rest
  BY <1>5 DEF StartScan, Acquire, ReadBefore, ReadLit, Rest, PlacesOK, pads, sensor
<1>6. CASE Told \/ Scan \/ Weather \/ UNCHANGED vars
  BY <1>6 DEF Told, Scan, Weather, Outside, vars, PlacesOK, pads, sensor
<1>7. CASE \/ \E p \in Pads : TouchPad(p)
           \/ \E x \in Positions \cup {Nowhere} : TouchSlider(x)
  BY <1>7 DEF TouchPad, TouchSlider, PlacesOK, pads, sensor
<1> QED
  BY <1>1, <1>2, <1>3, <1>4, <1>5, <1>6, <1>7 DEF Next, Main

LEMMA TypesStep == TypeOK /\ [Next]_vars => TypeOK'
<1>1. TypeOK <=> TouchesOK /\ NumbersOK /\ PlacesOK
  BY DEF TypeOK, TouchesOK, NumbersOK, PlacesOK
<1>2. TypeOK' <=> TouchesOK' /\ NumbersOK' /\ PlacesOK'
  BY DEF TypeOK, TouchesOK, NumbersOK, PlacesOK
<1> QED
  BY <1>1, <1>2, TouchesStep, NumbersStep, PlacesStep

\* What the scanner stores, the semaphore, the slider and the flags keep their types
\* (capsense.cpp 73-77, hw.cpp 26-29).
THEOREM TypeCorrect == Spec => []TypeOK
  BY InitTypes, TypesStep, PTL DEF Spec

----------------------------------------------------------------------------
(* Flips are taps *)

\* A tap is owed for a pad the main loop will find released: it was touched at the last
\* look or is stored as touched, and no finger is on it any more; or it is stored as
\* released already.
Owed(p) ==
  \/ prevBtnStatus[p] /\ ~raw.pad[p]
  \/ (prevBtnStatus[p] \/ raw.pad[p]) /\ ~finger.pad[p]

\* Such a pad has been tapped once more than its button was flipped.
TapInv == \A p \in Pads : credit[p] >= 0 /\ (Owed(p) => credit[p] >= 1)

LEMMA InitTaps == Init => TapInv
<1> SUFFICES ASSUME Init, NEW p \in Pads
             PROVE  credit[p] >= 0 /\ ~Owed(p)
  BY DEF TapInv
<1>1. credit[p] = 0
  BY DEF Init
<1>2. prevBtnStatus[p] = FALSE /\ raw.pad[p] = FALSE
  BY DEF Init, NoFinger, Untouched
<1> QED
  BY <1>1, <1>2 DEF Owed

\* One step, for one pad: the finger, the scanner, the main loop.
LEMMA TapsStep == TypeOK /\ TapInv /\ [Next]_vars => TapInv'
<1> SUFFICES ASSUME TypeOK, TapInv, [Next]_vars,
                    NEW p \in Pads
             PROVE  credit'[p] >= 0 /\ (Owed(p)' => credit'[p] >= 1)
  BY DEF TapInv
<1>a. credit \in [Pads -> Int] /\ credit[p] \in Int
  BY DEF TypeOK
<1>b. finger.pad \in Touched /\ raw.pad \in Touched /\ prevBtnStatus \in Touched
  BY DEF TypeOK, Touches
<1>c. credit[p] >= 0 /\ (Owed(p) => credit[p] >= 1)
  BY DEF TapInv
<1>1. ASSUME NEW q \in Pads, TouchPad(q)
      PROVE  credit'[p] >= 0 /\ (Owed(p)' => credit'[p] >= 1)
  <2>1. CASE q = p /\ finger.pad[p]
    BY <1>1, <1>a, <1>c, <2>1 DEF TouchPad
  <2>2. CASE q = p /\ ~finger.pad[p]
    <3>1. credit'[p] = credit[p] /\ finger'.pad[p]
      BY <1>1, <1>a, <1>b, <2>2 DEF TouchPad, Touched
    <3>2. raw' = raw /\ prevBtnStatus' = prevBtnStatus
      BY <1>1 DEF TouchPad, scanner, pads
    <3> QED
      BY <1>c, <3>1, <3>2 DEF Owed
  <2>3. CASE q # p
    <3>1. credit'[p] = credit[p] /\ finger'.pad[p] = finger.pad[p]
      BY <1>1, <1>a, <1>b, <2>3 DEF TouchPad, Touched
    <3>2. raw' = raw /\ prevBtnStatus' = prevBtnStatus
      BY <1>1 DEF TouchPad, scanner, pads
    <3> QED
      BY <1>c, <3>1, <3>2 DEF Owed
  <2> QED
    BY <2>1, <2>2, <2>3
<1>2. CASE Scan
  <2>1. credit' = credit /\ finger' = finger /\ prevBtnStatus' = prevBtnStatus
    BY <1>2 DEF Scan, world, pads
  <2>2. raw'.pad[p] \in {raw.pad[p], finger.pad[p]}
    BY <1>2, <1>b DEF Scan, Touched
  <2> QED
    BY <1>c, <2>1, <2>2 DEF Owed
<1>3. CASE ProcessTouchStatus
  <2>1. finger' = finger /\ raw' = raw /\ prevBtnStatus' = raw.pad
    BY <1>3 DEF ProcessTouchStatus, world, scanner
  <2>2. CASE Released(p)
    <3>1. credit'[p] = credit[p] - 1 /\ credit[p] >= 1 /\ ~raw.pad[p]
      BY <1>3, <1>c, <2>2 DEF ProcessTouchStatus, Released, Owed
    <3> QED
      BY <1>a, <2>1, <3>1 DEF Owed
  <2>3. CASE ~Released(p)
    <3>1. credit'[p] = credit[p]
      BY <1>3, <2>3 DEF ProcessTouchStatus
    <3> QED
      BY <1>c, <2>1, <3>1 DEF Owed
  <2> QED
    BY <2>2, <2>3
<1>4. CASE Restart
  BY <1>4 DEF Restart, Owed, NoFinger, Untouched
<1>5. CASE \E x \in Positions \cup {Nowhere} : TouchSlider(x)
  <2>1. /\ credit' = credit /\ raw' = raw /\ prevBtnStatus' = prevBtnStatus
        /\ finger'.pad = finger.pad
    BY <1>5 DEF TouchSlider, scanner, pads
  <2> QED
    BY <1>c, <2>1 DEF Owed
<1>6. CASE Weather \/ Told \/ (\E x \in Positions : CloudSlider(x)) \/ StartScan \/ Acquire
             \/ ReadBefore \/ ReadLit \/ CheckWithMail \/ Rest \/ UNCHANGED vars
  <2>1. /\ credit' = credit /\ raw' = raw /\ prevBtnStatus' = prevBtnStatus
        /\ finger' = finger
    BY <1>6 DEF Weather, Told, CloudSlider, Outside, StartScan, Acquire, ReadBefore, ReadLit,
                CheckWithMail, Rest, vars, world, scanner, pads
  <2> QED
    BY <1>c, <2>1 DEF Owed
<1> QED
  BY <1>1, <1>2, <1>3, <1>4, <1>5, <1>6 DEF Next, Main

\* A button is flipped for a tap and at most once for each, for any pads, scanned in any
\* order, though they are read while the next scan stores (capsense.cpp 163-176, 230).
THEOREM FlipsAreTapsAlways == Spec => []FlipsAreTaps
<1>1. Init => TypeOK /\ TapInv
  BY InitTypes, InitTaps
<1>2. TypeOK /\ TapInv /\ [Next]_vars => TypeOK' /\ TapInv'
  BY TypesStep, TapsStep
<1>3. TapInv => FlipsAreTaps
  BY DEF TapInv, FlipsAreTaps
<1> QED
  BY <1>1, <1>2, <1>3, PTL DEF Spec

----------------------------------------------------------------------------
(* Who records and who plays                                                *)

\* What is known at each place of a pass that no flag change has disturbed. A call of
\* hw_set_button is over before the pass goes on.
PassInv ==
  /\ sound_pc = "start_playback" => play_button /\ ~sound_play
  /\ sound_pc = "stop_playback" => ~play_button /\ sound_play
  /\ sound_pc \in {"last_play", "rec", "start_record"} => (sound_play <=> play_button)
  /\ sound_pc = "start_record" => rec_button /\ ~sound_rec /\ ~play_button
  /\ sound_pc \in {"stop_record", "stopped_record"} => ~rec_button /\ sound_rec
  /\ sound_pc = "last_rec" => (sound_rec <=> rec_button)
  /\ ~Idle("main")
       => sound_pc \in {"top", "play_off_0", "rec_off_1", "stopped_record", "called_stop"}
  /\ ~Idle("main") /\ sound_pc = "stopped_record"
       => call["main"].id = 1 /\ ~call["main"].onoff

\* RememberedIsRunning with the equalities of Booleans written as equivalences.
Remembered ==
  /\ sound_pc \notin {"start_playback", "stop_playback", "last_play"}
       => (last_play_button <=> sound_play)
  /\ sound_pc \notin {"start_record", "stop_record", "stopped_record", "last_rec"}
       => (last_rec_button <=> sound_rec)

\* What the calls of hw_set_button hold.
CallOK ==
  /\ hw_button \in [Buttons -> BOOLEAN]
  /\ call \in [Threads -> [id : Buttons, onoff : BOOLEAN, at : {"none", "assign", "sound"}]]
  /\ crossed \in BOOLEAN

\* The flags are Booleans.
FlagsOK ==
  /\ play_button \in BOOLEAN /\ rec_button \in BOOLEAN
  /\ last_play_button \in BOOLEAN /\ last_rec_button \in BOOLEAN
  /\ sound_play \in BOOLEAN /\ sound_rec \in BOOLEAN
  /\ raced \in BOOLEAN

ControlInv == CallOK /\ FlagsOK /\ (~raced => Remembered /\ PassInv)

\* The inductive invariant says what RememberedIsRunning says.
LEMMA ControlInvImplies ==
  ASSUME ControlInv
  PROVE  RememberedIsRunning
<1>1. ASSUME NEW a \in BOOLEAN, NEW b \in BOOLEAN, a <=> b PROVE a = b
  BY <1>1, Zenon
<1>2. (last_play_button <=> sound_play) => last_play_button = sound_play
  BY <1>1 DEF ControlInv, FlagsOK
<1>3. (last_rec_button <=> sound_rec) => last_rec_button = sound_rec
  BY <1>1 DEF ControlInv, FlagsOK
<1> QED
  BY <1>2, <1>3 DEF ControlInv, Remembered, RememberedIsRunning

LEMMA InitControl ==
  ASSUME SoundInit
  PROVE  ControlInv
<1>1. CallOK
  BY DEF SoundInit, CallOK, NoCall, Buttons
<1>2. FlagsOK
  BY DEF SoundInit, FlagsOK
<1>3. Remembered /\ PassInv
  BY DEF SoundInit, Remembered, PassInv, Idle, NoCall, Threads
<1> QED BY <1>1, <1>2, <1>3 DEF ControlInv

\* hw_set_button begins or returns at once.
LEMMA SetButtonTypes ==
  ASSUME CallOK, NEW t \in Threads, NEW id \in Buttons, NEW onoff \in BOOLEAN,
         SetButton(t, id, onoff), UNCHANGED hw_button
  PROVE  CallOK'
<1>1. CASE hw_button[id] = onoff
  BY <1>1 DEF SetButton, CallOK
<1>2. CASE hw_button[id] # onoff
  <2>1. [id |-> id, onoff |-> onoff, at |-> "assign"]
          \in [id : Buttons, onoff : BOOLEAN, at : {"none", "assign", "sound"}]
    OBVIOUS
  <2>2. call' \in [Threads -> [id : Buttons, onoff : BOOLEAN, at : {"none", "assign", "sound"}]]
    BY <1>2, <2>1 DEF SetButton, CallOK
  <2>3. crossed' \in BOOLEAN
    BY <1>2, Zenon DEF SetButton
  <2> QED BY <2>2, <2>3 DEF CallOK
<1> QED BY <1>1, <1>2

\* The calls keep their types.
LEMMA CallStep ==
  ASSUME CallOK, [SoundNext]_soundVars
  PROVE  CallOK'
<1>1. CASE UNCHANGED <<hw_button, call, crossed>>
  BY <1>1 DEF CallOK
<1>2. ASSUME NEW id \in Buttons, SetButton("main", id, FALSE), UNCHANGED hw_button
      PROVE  CallOK'
  <2>1. FALSE \in BOOLEAN /\ "main" \in Threads
    BY DEF Threads
  <2> QED BY <1>2, <2>1, SetButtonTypes
<1>3. ASSUME NEW id \in Buttons, TouchButton(id) \/ CloudButton(id) PROVE CallOK'
  <2>1. (~hw_button[id]) \in BOOLEAN
    BY Zenon
  <2> QED BY <1>3, <2>1, SetButtonTypes DEF TouchButton, CloudButton, Threads
<1>4. ASSUME NEW t \in Threads, AssignButton(t) PROVE CallOK'
  BY <1>4 DEF AssignButton, CallOK
<1>5. ASSUME NEW t \in Threads, SoundButton(t) PROVE CallOK'
  BY <1>5 DEF SoundButton, CallOK, NoCall, Buttons
<1>6. CASE SoundMain
  <2> DEFINE Off == \E id \in Buttons : SetButton("main", id, FALSE) /\ UNCHANGED hw_button
  <2>1. CASE PlayStep
    <3>1. Off \/ UNCHANGED <<hw_button, call, crossed>>
      BY <2>1 DEF PlayStep, PlayCheck, PlayOff, SwitchOff, StartPlayback, StopPlayback,
         LastPlay, Buttons, buttons
    <3> QED BY <3>1, <1>1, <1>2
  <2>2. CASE RecStep
    <3>1. Off \/ UNCHANGED <<hw_button, call, crossed>>
      BY <2>2 DEF RecStep, RecCheck, RecOff, SwitchOff, StartRecord, StopRecord,
         StoppedRecord, LastRec, Buttons, buttons
    <3> QED BY <3>1, <1>1, <1>2
  <2>3. CASE StopStep
    <3>1. Off \/ UNCHANGED <<hw_button, call, crossed>>
      BY <2>3 DEF StopStep, CallStop, CalledStop, SwitchOff, Buttons, buttons
    <3> QED BY <3>1, <1>1, <1>2
  <2> QED BY <1>6, <2>1, <2>2, <2>3, <1>4, <1>5 DEF SoundMain, ButtonStep, Threads
<1>7. CASE I2s \/ UNCHANGED soundVars
  BY <1>7, <1>1 DEF I2s, I2sFirstHalf, I2sSecondHalf, buttons, soundVars
<1> QED
  BY <1>3, <1>4, <1>5, <1>6, <1>7 DEF SoundNext, ButtonStep, Touch, Cloud, Threads

\* The flags stay Booleans.
LEMMA FlagsStep ==
  ASSUME CallOK, FlagsOK, [SoundNext]_soundVars
  PROVE  FlagsOK'
<1> USE DEF FlagsOK, buttons, lasts, playback
<1>1. CASE PlayCheck \/ PlayOff
  BY <1>1, Zenon DEF PlayCheck, PlayOff, SwitchOff
<1>2. CASE StopPlayback \/ LastPlay
  BY <1>2, Zenon DEF StopPlayback, LastPlay
<1>3. ASSUME NEW t \in Takes, StartPlayback(t.start, t.end) PROVE FlagsOK'
  BY <1>3, Zenon DEF StartPlayback
<1>4. CASE RecCheck \/ RecOff
  BY <1>4, Zenon DEF RecCheck, RecOff, SwitchOff
<1>5. CASE StartRecord \/ StopRecord \/ StoppedRecord \/ LastRec
  BY <1>5, Zenon DEF StartRecord, StopRecord, StoppedRecord, LastRec, SwitchOff
<1>6. CASE StopStep
  BY <1>6, Zenon DEF StopStep, CallStop, CalledStop, SwitchOff
<1>7. CASE I2s
  BY <1>7, Zenon DEF I2s, I2sFirstHalf, I2sSecondHalf
<1>8. CASE Touch \/ Cloud
  BY <1>8, Zenon DEF Touch, Cloud, TouchButton, CloudButton
<1>9. ASSUME NEW t \in Threads, AssignButton(t) PROVE FlagsOK'
  BY <1>9, Zenon DEF AssignButton
<1>10. ASSUME NEW t \in Threads, SoundButton(t) PROVE FlagsOK'
  <2>1. call[t].onoff \in BOOLEAN
    BY DEF CallOK
  <2> QED BY <1>10, <2>1, Zenon DEF SoundButton
<1>11. CASE UNCHANGED soundVars
  BY <1>11, Zenon DEF soundVars
<1> QED
  BY <1>1, <1>2, <1>3, <1>4, <1>5, <1>6, <1>7, <1>8, <1>9, <1>10, <1>11
  DEF SoundNext, SoundMain, PlayStep, RecStep, ButtonStep, Threads

\* Where hw_set_button on the main loop is after it is called.
LEMMA MainCall ==
  ASSUME CallOK, NEW id \in Buttons, NEW onoff, SetButton("main", id, onoff), Idle("main")
  PROVE  ~Idle("main")' => call'["main"].id = id /\ call'["main"].onoff = onoff
  BY DEF SetButton, Idle, CallOK, Threads

\* Every step of an undisturbed pass keeps what is known.
LEMMA ControlStep ==
  ASSUME ControlInv, [SoundNext]_soundVars, ~raced'
  PROVE  Remembered' /\ PassInv'
<1> USE DEF ControlInv, FlagsOK, Remembered, PassInv, At, Idle, buttons, lasts, playback
<1>1. CASE PlayCheck
  <2>1. CASE play_button = last_play_button
    BY <1>1, <2>1 DEF PlayCheck
  <2>2. CASE play_button # last_play_button /\ rec_button
    BY <1>1, <2>2 DEF PlayCheck, SwitchOff
  <2>3. CASE play_button # last_play_button /\ ~rec_button
    BY <1>1, <2>3 DEF PlayCheck
  <2> QED BY <2>1, <2>2, <2>3
<1>2. CASE PlayOff \/ RecOff \/ CalledStop
  <2>1. sound_pc \in {"play_off_0", "rec_off_1", "called_stop"} /\ sound_pc' = "top"
    BY <1>2 DEF PlayOff, RecOff, CalledStop, SwitchOff
  <2>2. UNCHANGED <<last_play_button, last_rec_button, sound_play, sound_rec, raced>>
    BY <1>2 DEF PlayOff, RecOff, CalledStop, SwitchOff
  <2> QED BY <2>1, <2>2
<1>3. CASE CallStop
  BY <1>3 DEF CallStop, SwitchOff
<1>4. CASE StopPlayback \/ LastPlay
  BY <1>4 DEF StopPlayback, LastPlay
<1>5. ASSUME NEW t \in Takes, StartPlayback(t.start, t.end) PROVE Remembered' /\ PassInv'
  BY <1>5 DEF StartPlayback
<1>6. CASE RecCheck
  BY <1>6 DEF RecCheck, SwitchOff
<1>7. CASE StartRecord \/ StoppedRecord
  BY <1>7 DEF StartRecord, StoppedRecord
<1>8. CASE StopRecord
  <2>1. ~Idle("main")' => call'["main"].id = 1 /\ call'["main"].onoff = FALSE
    BY <1>8, MainCall, 1 \in Buttons DEF StopRecord, SwitchOff, Buttons
  <2> QED BY <1>8, <2>1 DEF StopRecord, SwitchOff
<1>9. CASE LastRec
  BY <1>9 DEF LastRec
<1>10. CASE I2s
  BY <1>10 DEF I2s, I2sFirstHalf, I2sSecondHalf
<1>11. ASSUME NEW id \in Buttons, TouchButton(id) PROVE Remembered' /\ PassInv'
  BY <1>11 DEF TouchButton
<1>12. ASSUME NEW id \in Buttons, CloudButton(id) PROVE Remembered' /\ PassInv'
  <2>1. call'["main"] = call["main"]
    BY <1>12 DEF CloudButton, SetButton, CallOK, Threads
  <2> QED BY <1>12, <2>1 DEF CloudButton
<1>13. ASSUME NEW t \in Threads, AssignButton(t) PROVE Remembered' /\ PassInv'
  <2>1. /\ call'["main"].id = call["main"].id /\ call'["main"].onoff = call["main"].onoff
        /\ call'["main"].at # "none" => call["main"].at # "none"
    BY <1>13 DEF AssignButton, CallOK, Threads
  <2> QED BY <1>13, <2>1 DEF AssignButton
<1>14. CASE SoundButton("main")
  <2>1. call'["main"].at = "none"
    BY <1>14 DEF SoundButton, CallOK, NoCall, Threads
  <2> QED BY <1>14, <2>1 DEF SoundButton
<1>15. CASE SoundButton("aws")
  <2>1. call'["main"] = call["main"]
    BY <1>15 DEF SoundButton, CallOK, Threads
  <2>2. sound_pc = "top"
    BY <1>15 DEF SoundButton
  <2> QED BY <1>15, <2>1, <2>2 DEF SoundButton
<1>16. CASE UNCHANGED soundVars
  BY <1>16 DEF soundVars
<1> QED
  BY <1>1, <1>2, <1>3, <1>4, <1>5, <1>6, <1>7, <1>8, <1>9, <1>10, <1>11, <1>12, <1>13, <1>14,
     <1>15, <1>16
  DEF SoundNext, SoundMain, PlayStep, RecStep, StopStep, ButtonStep, Touch, Cloud, Threads

LEMMA ControlInvariant == SoundSpec => []ControlInv
<1>1. SoundInit => ControlInv
  BY InitControl
<1>2. ControlInv /\ [SoundNext]_soundVars => ControlInv'
  BY CallStep, FlagsStep, ControlStep DEF ControlInv
<1> QED
  BY <1>1, <1>2, PTL DEF SoundSpec

\* Until a flag changes in the middle of a pass, the remembered flags are what the
\* hardware does, even where hw_button and the flag of sound.cpp have come apart.
THEOREM Remembering == SoundSpec => []RememberedIsRunning
<1>1. ControlInv => RememberedIsRunning
  BY ControlInvImplies
<1> QED
  BY <1>1, ControlInvariant, PTL

\* Until a flag changes in the middle of a pass, no recording starts over a playback, even
\* where hw_button and the flag of sound.cpp have come apart.
THEOREM NoRecordOverPlayback == SoundSpec => RecordNeverOverPlayback
<1>1. ControlInv /\ [SoundNext]_soundVars
       => [~sound_rec /\ sound_rec' /\ ~raced => ~sound_play]_soundVars
  <2> SUFFICES ASSUME ControlInv, [SoundNext]_soundVars, ~sound_rec, sound_rec', ~raced
               PROVE  ~sound_play
    OBVIOUS
  <2>1. StartRecord
     BY DEF SoundNext, SoundMain, PlayStep, RecStep, StopStep, ButtonStep, PlayCheck, PlayOff,
            StopPlayback, LastPlay, StartPlayback, RecCheck, RecOff, StopRecord,
            StoppedRecord, LastRec, CallStop, CalledStop, AssignButton, SoundButton, I2s,
            I2sFirstHalf, I2sSecondHalf, Touch, TouchButton, Cloud, CloudButton, soundVars
  <2> QED
    BY <2>1 DEF ControlInv, FlagsOK, PassInv, StartRecord, At
<1> QED
  BY <1>1, ControlInvariant, PTL DEF SoundSpec, RecordNeverOverPlayback

----------------------------------------------------------------------------
(* Types                                                                    *)

\* Where the interrupt is in the ring.
PlaceOK ==
  /\ sound_playingblock \in 0 .. T - 1 \cup {t.start : t \in Takes}
  /\ sound_endblock \in {0} \cup {t.end : t \in Takes}

PassOK ==
  /\ call_stop_play \in BOOLEAN /\ i2s_mask \in BOOLEAN /\ half \in BOOLEAN
  /\ sound_pc \in {"top", "start_playback", "stop_playback", "last_play",
             "rec", "start_record", "stop_record", "stopped_record", "last_rec",
             "call_stop", "called_stop", "play_off_0", "rec_off_1"}

LEMMA PlaceStep ==
  ASSUME PlaceOK, [SoundNext]_soundVars
  PROVE  PlaceOK'
<1>1. CASE UNCHANGED <<sound_playingblock, sound_endblock>>
  BY <1>1 DEF PlaceOK
<1>2. ASSUME NEW t \in Takes, StartPlayback(t.start, t.end) PROVE PlaceOK'
  BY <1>2 DEF StartPlayback, PlaceOK
<1>3. CASE I2sSecondHalf
  <2>1. PICK n : n = sound_playingblock
    OBVIOUS
  <2>2. n \in Nat /\ T \in Nat \ {0}
    BY <2>1, TakesAssumption DEF PlaceOK
  <2>3. /\ sound_playingblock' = IF n + 1 >= T THEN 0 ELSE n + 1
        /\ sound_endblock' = sound_endblock
    BY <1>3, <2>1 DEF I2sSecondHalf
  <2>4. sound_playingblock' \in 0 .. T - 1
    <3>1. CASE n + 1 >= T
      BY <2>2, <2>3, <3>1
    <3>2. CASE ~(n + 1 >= T)
      BY <2>2, <2>3, <3>2
    <3> QED BY <3>1, <3>2
  <2> QED BY <2>3, <2>4 DEF PlaceOK
<1>4. \/ UNCHANGED <<sound_playingblock, sound_endblock>> \/ I2sSecondHalf
      \/ \E t \in Takes : StartPlayback(t.start, t.end)
   BY DEF SoundNext, SoundMain, PlayStep, RecStep, StopStep, ButtonStep, PlayCheck, PlayOff,
          StopPlayback, LastPlay, RecCheck, RecOff, StartRecord, StopRecord, StoppedRecord,
          LastRec, CallStop, CalledStop, AssignButton, SoundButton, I2s, I2sFirstHalf,
          Touch, TouchButton, Cloud, CloudButton, playback, soundVars
<1> QED BY <1>1, <1>2, <1>3, <1>4

LEMMA PassStep ==
  ASSUME FlagsOK, PassOK, [SoundNext]_soundVars
  PROVE  PassOK'
<1> USE DEF PassOK, playback, SwitchOff
<1>1. CASE PlayCheck \/ PlayOff
  BY <1>1 DEF PlayCheck, PlayOff
<1>2. CASE StopPlayback \/ LastPlay
  BY <1>2 DEF StopPlayback, LastPlay
<1>3. ASSUME NEW t \in Takes, StartPlayback(t.start, t.end) PROVE PassOK'
  BY <1>3 DEF StartPlayback
<1>4. CASE RecCheck \/ RecOff
  BY <1>4 DEF RecCheck, RecOff
<1>5. CASE StartRecord \/ StopRecord \/ StoppedRecord \/ LastRec \/ StopStep
  BY <1>5 DEF StartRecord, StopRecord, StoppedRecord, LastRec, StopStep, CallStop, CalledStop
<1>6. CASE I2sFirstHalf
  BY <1>6 DEF I2sFirstHalf
<1>7. CASE I2sSecondHalf
  <2>1. call_stop_play' \in BOOLEAN /\ i2s_mask' \in BOOLEAN /\ half' \in BOOLEAN
    BY <1>7, Zenon DEF I2sSecondHalf
  <2> QED BY <1>7, <2>1 DEF I2sSecondHalf
<1>8. CASE Touch \/ Cloud
  BY <1>8 DEF Touch, TouchButton, Cloud, CloudButton
<1>9. ASSUME NEW t \in Threads, AssignButton(t) \/ SoundButton(t) PROVE PassOK'
  BY <1>9 DEF AssignButton, SoundButton
<1>10. CASE UNCHANGED soundVars
  BY <1>10 DEF soundVars
<1> QED
   BY <1>1, <1>2, <1>3, <1>4, <1>5, <1>6, <1>7, <1>8, <1>9, <1>10
   DEF SoundNext, SoundMain, PlayStep, RecStep, ButtonStep, I2s, Threads

\* The block the interrupt plays is in the recording area or the start of a take that
\* sound_start_playback was given, whatever the buttons do (sound.cpp 787-791); the
\* flags and the place in the pass have their types.
THEOREM SoundTypeCorrect == SoundSpec => []SoundTypeOK
<1> DEFINE IInv == CallOK /\ FlagsOK /\ PlaceOK /\ PassOK
<1>1. SoundInit => IInv
  <2> SUFFICES ASSUME SoundInit PROVE IInv
    OBVIOUS
  <2>1. 0 \in 0 .. T - 1
    BY TakesAssumption
  <2>2. CallOK
    BY InitControl DEF ControlInv
  <2> QED BY <2>1, <2>2 DEF SoundInit, FlagsOK, PlaceOK, PassOK
<1>2. IInv /\ [SoundNext]_soundVars => IInv'
  BY CallStep, FlagsStep, PlaceStep, PassStep
<1>3. IInv => SoundTypeOK
  BY DEF CallOK, FlagsOK, PlaceOK, PassOK, SoundTypeOK
<1> HIDE DEF IInv
<1> QED BY <1>1, <1>2, <1>3, PTL DEF SoundSpec
=============================================================================
