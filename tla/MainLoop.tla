------------------------------ MODULE MainLoop ------------------------------
(***************************************************************************)
(* What the main loop senses: the touch pads (capsense.cpp), which it reads *)
(* in every pass, and the light sensor that looks for mail (hw.cpp), read   *)
(* every SENSOR_READ_MS of its counter (main.cpp).                          *)
(*                                                                         *)
(* Actors: the main loop, the interrupt of the pad scanner, the AWS thread  *)
(* (it moves buttons and slider, and is told of the document), people and   *)
(* daylight, and a reset. The CapSense library is external: a scan visits   *)
(* the widgets in order and the callback releases capsense_sem at its end.  *)
(* What sound_update does in the same pass is in SoundControl, what a report *)
(* goes through on its way to the document in ShadowQueue and ShadowSync.   *)
(***************************************************************************)
EXTENDS Integers, Sequences

CONSTANTS
  Pads,            \* the touch buttons
  Slider, Nowhere, \* the slider widget; no finger, or more than one, on it
  Widgets,         \* pads and slider in the order in which a scan visits them
  Positions,       \* positions of the slider, 0 among them
  LoopMs, SensorReadMs,
  Flash, Shadow,   \* lux: what the LED adds when nothing is in its way, and what a
                   \* cloud takes away
  Threshold, Near, \* 50 and 20 of check_with_mail
  MaxTouches, MaxOutside, MaxResets \* bounds: moves of fingers; changes of letter, daylight
                                    \* and by the app; resets

ASSUME WidgetsAssumption ==
  /\ Slider \notin Pads /\ Nowhere \notin Positions /\ 0 \in Positions
  /\ Widgets \in Seq(Pads \cup {Slider}) /\ Widgets # <<>>
  /\ Pads \cup {Slider} = {Widgets[i] : i \in DOMAIN Widgets}
ASSUME TimeAssumption == LoopMs \in Nat \ {0} /\ SensorReadMs \in Nat \ {0}
ASSUME LightAssumption ==
  /\ Flash \in Nat /\ Shadow \in Nat /\ Threshold \in Nat /\ Near \in Nat \ {0}
  /\ Flash > Threshold
ASSUME BoundAssumption == MaxTouches \in Nat /\ MaxOutside \in Nat /\ MaxResets \in Nat

VARIABLES
  finger,          \* external: who is touched, and where the slider is
  letter, cloudy,  \* external: mail in the box; a cloud before the sun
  raw,             \* the counts the scanner has stored for each widget
  scanned,         \* widgets visited by the scan under way; -1 when the scanner is idle
  capsense_sem,
  pc,              \* the main loop's place in a pass
  count,           \* count % SENSOR_READ_MS
  prevBtnStatus, prevSliderPos,
  hw_slider,
  lux,             \* readings of check_with_mail: before the flash, under it
  hw_with_mail, hw_aws_publish,
  mail,            \* external: "mail" in the document
  credit,          \* history: taps of each pad that have not flipped its button yet
  movedByApp,      \* history: the app was the last to move the slider
  heard,           \* history: the last change of hw_with_mail was reported
  touches, outside, resets  \* history: counts for the bounds

world == <<finger, letter, cloudy>>
scanner == <<raw, scanned>>
pads == <<prevBtnStatus, prevSliderPos, hw_slider>>
sensor == <<lux, hw_with_mail, mail, heard>>
bounds == <<touches, outside, resets>>
vars == <<world, scanner, capsense_sem, pc, count, pads, sensor, hw_aws_publish,
          credit, movedByApp, bounds>>

Touched == [Pads -> BOOLEAN]
Untouched == [p \in Pads |-> FALSE]
NoFinger == [pad |-> Untouched, slider |-> Nowhere]
Touches == [pad : Touched, slider : Positions \cup {Nowhere}]

Init ==
  /\ finger = NoFinger
  /\ letter \in BOOLEAN /\ cloudy = FALSE
  /\ raw = NoFinger /\ scanned = 0
  /\ capsense_sem = 0
  /\ pc = "scan" /\ count = 0
  /\ prevBtnStatus = Untouched /\ prevSliderPos = 0 /\ hw_slider = 0
  /\ lux = <<>> /\ hw_with_mail = FALSE /\ hw_aws_publish = FALSE
  /\ mail \in BOOLEAN
  /\ credit = [p \in Pads |-> 0] /\ movedByApp = FALSE /\ heard = FALSE
  /\ touches = 0 /\ outside = 0 /\ resets = 0

----------------------------------------------------------------------------
(* People, daylight, and the AWS thread *)

TouchPad(p) ==
  /\ touches < MaxTouches
  /\ touches' = touches + 1
  /\ finger' = [pad |-> [finger.pad EXCEPT ![p] = ~finger.pad[p]], slider |-> finger.slider]
  /\ credit' = IF finger.pad[p] THEN [credit EXCEPT ![p] = @ + 1] ELSE credit
  /\ UNCHANGED <<letter, cloudy, scanner, capsense_sem, pc, count, pads, sensor,
                 hw_aws_publish, movedByApp, outside, resets>>

TouchSlider(x) ==
  /\ touches < MaxTouches
  /\ touches' = touches + 1
  /\ finger.slider # x
  /\ finger' = [pad |-> finger.pad, slider |-> x]
  /\ UNCHANGED <<letter, cloudy, scanner, capsense_sem, pc, count, pads, sensor,
                 hw_aws_publish, credit, movedByApp, outside, resets>>

Outside ==
  /\ outside < MaxOutside
  /\ outside' = outside + 1
  /\ UNCHANGED <<finger, scanner, capsense_sem, pc, count, sensor, hw_aws_publish,
                 prevBtnStatus, prevSliderPos, credit, touches, resets>>

\* A letter is put into the box or taken out; a cloud comes or goes.
Weather ==
  /\ Outside
  /\ \/ letter' = ~letter /\ UNCHANGED cloudy
     \/ cloudy' = ~cloudy /\ UNCHANGED letter
  /\ UNCHANGED <<hw_slider, movedByApp>>

\* hw_aws_sync on the AWS thread moves the slider; capsense.cpp does not hear of it.
CloudSlider(x) ==
  /\ Outside
  /\ hw_slider # x
  /\ hw_slider' = x /\ movedByApp' = TRUE
  /\ UNCHANGED <<letter, cloudy>>

\* ... and tells that the document is known.
Told ==
  /\ ~hw_aws_publish
  /\ hw_aws_publish' = TRUE
  /\ UNCHANGED <<world, scanner, capsense_sem, pc, count, pads, sensor, credit,
                 movedByApp, bounds>>

----------------------------------------------------------------------------
(* The pad scanner *)

\* The interrupt stores what a widget senses; at the end of a scan
\* CapSenseEndOfScanCallback.
Scan ==
  /\ scanned >= 0
  /\ LET w == Widgets[scanned + 1] IN
       raw' = IF w = Slider THEN [pad |-> raw.pad, slider |-> finger.slider]
              ELSE [pad |-> [raw.pad EXCEPT ![w] = finger.pad[w]], slider |-> raw.slider]
  /\ IF scanned + 1 < Len(Widgets)
     THEN scanned' = scanned + 1 /\ UNCHANGED capsense_sem
     ELSE scanned' = -1 /\ capsense_sem' = capsense_sem + 1
  /\ UNCHANGED <<world, pc, count, pads, sensor, hw_aws_publish, credit, movedByApp, bounds>>

----------------------------------------------------------------------------
(* The main loop: RunCapSenseScan *)

\* A slip of NextScan: scans are left to the event queue (capsense.cpp 140).
NextScanElsewhere == scanned

\* A scan is started unless one is under way.
NextScan == IF scanned >= 0 THEN scanned ELSE 0

StartScan ==
  /\ pc = "scan"
  /\ scanned' = NextScan
  /\ pc' = "acquire"
  /\ UNCHANGED <<world, raw, capsense_sem, count, pads, sensor, hw_aws_publish, credit,
                 movedByApp, bounds>>

\* The wait for the end of a scan, which may be that of the scan before.
Acquire ==
  /\ pc = "acquire"
  /\ capsense_sem > 0
  /\ capsense_sem' = capsense_sem - 1
  /\ pc' = "process"
  /\ UNCHANGED <<world, scanner, count, pads, sensor, hw_aws_publish, credit, movedByApp, bounds>>

\* A slip of Released: the pad flips its button when it is touched, too.
ReleasedOrTouched(p) == prevBtnStatus[p] # raw.pad[p]

Released(p) == prevBtnStatus[p] /\ ~raw.pad[p]

\* Cy_CapSense_ProcessAllWidgets and ProcessTouchStatus: a pad flips its button when it
\* is released, one finger on the slider moves it when it is not where it last was.
ProcessTouchStatus ==
  /\ pc = "process"
  /\ prevBtnStatus' = raw.pad
  /\ credit' = [p \in Pads |-> IF Released(p) THEN credit[p] - 1 ELSE credit[p]]
  /\ IF raw.slider # Nowhere /\ raw.slider # prevSliderPos
     THEN /\ prevSliderPos' = raw.slider
          /\ hw_slider' = raw.slider
          /\ movedByApp' = FALSE
     ELSE UNCHANGED <<prevSliderPos, hw_slider, movedByApp>>
  /\ pc' = IF count = 0 THEN "before" ELSE "rest"
  /\ UNCHANGED <<world, scanner, capsense_sem, count, sensor, hw_aws_publish, bounds>>

----------------------------------------------------------------------------
(* The main loop: check_with_mail *)

Sun == IF cloudy THEN 0 ELSE Shadow
Unlit == Sun
Lit == Sun + (IF letter THEN 0 ELSE Flash)

ReadBefore ==
  /\ pc = "before"
  /\ lux' = <<Unlit>>
  /\ pc' = "lit"
  /\ UNCHANGED <<world, scanner, capsense_sem, count, pads, hw_with_mail, mail, heard,
                 hw_aws_publish, credit, movedByApp, bounds>>

ReadLit ==
  /\ pc = "lit"
  /\ lux' = Append(lux, Lit)
  /\ pc' = "after"
  /\ UNCHANGED <<world, scanner, capsense_sem, count, pads, hw_with_mail, mail, heard,
                 hw_aws_publish, credit, movedByApp, bounds>>

Abs(n) == IF n < 0 THEN -n ELSE n

\* A slip of FlashSeen: the dark readings have to differ.
FlashSeenDarkDiffer(before, lit, after) ==
  /\ Abs(lit - after) > Threshold
  /\ Abs(lit - before) > Threshold
  /\ Abs(before - after) > Near

\* The flash is seen against both dark readings, which agree with each other.
FlashSeen(before, lit, after) ==
  /\ Abs(lit - after) > Threshold
  /\ Abs(lit - before) > Threshold
  /\ Abs(before - after) < Near

\* The last reading, the verdict, and the report of a change (hw_sendAWSCommand).
CheckWithMail ==
  /\ pc = "after"
  /\ hw_with_mail' = ~FlashSeen(lux[1], lux[2], Unlit)
  /\ lux' = <<>>
  /\ IF hw_with_mail' # hw_with_mail
     THEN /\ heard' = hw_aws_publish
          /\ mail' = IF hw_aws_publish THEN hw_with_mail' ELSE mail
     ELSE UNCHANGED <<heard, mail>>
  /\ pc' = "rest"
  /\ UNCHANGED <<world, scanner, capsense_sem, count, pads, hw_aws_publish, credit,
                 movedByApp, bounds>>

\* The end of a pass.
Rest ==
  /\ pc = "rest"
  /\ count' = (count + LoopMs) % SensorReadMs
  /\ pc' = "scan"
  /\ UNCHANGED <<world, scanner, capsense_sem, pads, sensor, hw_aws_publish, credit,
                 movedByApp, bounds>>

----------------------------------------------------------------------------
\* A reset: the board starts over, with a first scan (capsense_init); what lies on the
\* pads stays there, and so does the document. A tap cut short by it is lost.
Restart ==
  /\ resets < MaxResets
  /\ resets' = resets + 1
  /\ raw' = NoFinger /\ scanned' = 0 /\ capsense_sem' = 0
  /\ pc' = "scan" /\ count' = 0
  /\ prevBtnStatus' = Untouched /\ prevSliderPos' = 0 /\ hw_slider' = 0
  /\ lux' = <<>> /\ hw_with_mail' = FALSE /\ hw_aws_publish' = FALSE
  /\ credit' = [p \in Pads |-> 0] /\ movedByApp' = FALSE /\ heard' = FALSE
  /\ UNCHANGED <<world, mail, touches, outside>>

Main == StartScan \/ Acquire \/ ProcessTouchStatus
        \/ ReadBefore \/ ReadLit \/ CheckWithMail \/ Rest

Next ==
  \/ \E p \in Pads : TouchPad(p)
  \/ \E x \in Positions \cup {Nowhere} : TouchSlider(x)
  \/ Weather \/ (\E x \in Positions : CloudSlider(x)) \/ Told
  \/ Scan \/ Main \/ Restart

Spec == Init /\ [][Next]_vars

\* The main loop and the scanner go on. Nobody has to touch anything, and the board
\* need not ever be told of the document.
FairSpec == Spec /\ WF_vars(Main) /\ WF_vars(Scan)

----------------------------------------------------------------------------
(* Properties *)

TypeOK ==
  /\ finger \in Touches /\ raw \in Touches
  /\ scanned \in -1 .. Len(Widgets) - 1
  /\ capsense_sem \in Nat
  /\ pc \in {"scan", "acquire", "process", "before", "lit", "after", "rest"}
  /\ count \in 0 .. SensorReadMs - 1
  /\ prevBtnStatus \in Touched /\ prevSliderPos \in Positions /\ hw_slider \in Positions
  /\ hw_with_mail \in BOOLEAN /\ hw_aws_publish \in BOOLEAN /\ mail \in BOOLEAN
  /\ credit \in [Pads -> Int]

\* A button is flipped for a tap and at most once for each, although the pads are read
\* while the next scan is storing what they sense (capsense.cpp 163-176, 230).
FlipsAreTaps == \A p \in Pads : credit[p] >= 0

\* Once fingers rest, the board has heard them: the main loop never waits for a scan
\* nobody started, and the scan before the touch is not taken for the last one. A
\* slider the app moved away from under the finger stays away (capsense.cpp 249).
TouchHeard ==
  <>[](/\ prevBtnStatus = finger.pad
       /\ finger.slider # Nowhere => /\ prevSliderPos = finger.slider
                                     /\ hw_slider = finger.slider \/ movedByApp)

\* Once letters and daylight rest, the board knows whether there is mail, whatever a
\* cloud made of the readings, and if it was told of the document when it last changed
\* its mind, so does the document (hw.cpp 294-320). After a reset, or a change before
\* that, the document may be wrong until the next change.
MailTold == <>[](hw_with_mail = letter /\ (heard => mail = letter))
=============================================================================
