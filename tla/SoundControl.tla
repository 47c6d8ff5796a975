--------------------------- MODULE SoundControl ---------------------------
(***************************************************************************)
(* Who records and who plays: sound_update of sound.cpp, run by the main    *)
(* loop, follows the two button flags of sound.cpp; the touch pads, between *)
(* two passes of the main loop, and the AWS thread (a shadow update), at    *)
(* any time, change the buttons; the I2S interrupt plays the blocks and     *)
(* asks for the stop at the end.                                            *)
(*                                                                         *)
(* A button is two variables: hw_button of hw.cpp, and a flag of sound.cpp. *)
(* hw_set_button compares with the first, assigns it, and then the second;  *)
(* it takes no lock, and both threads call it. sound_update reads a flag up *)
(* to three times in a pass. Each of these is a step of its own.            *)
(*                                                                         *)
(* MainLoop is the rest of the same loop; the names here are told apart     *)
(* from those there.                                                        *)
(***************************************************************************)
EXTENDS Integers

CONSTANTS
  T,      \* RECORD_SOUND_TOTAL_BLOCK
  Takes   \* position pairs the ring may hand to sound_start_playback

ASSUME TakesAssumption ==
  T \in Nat \ {0} /\ Takes # {} /\ Takes \subseteq [start : Nat, end : Nat]

VARIABLES
  hw_button,                           \* hw.cpp: the buttons; 0 is play, 1 is record
  play_button, rec_button,             \* sound.cpp: the flags sound_button sets
  call,                                \* where each thread is in hw_set_button
  last_play_button, last_rec_button,   \* the flags as remembered by sound_update
  sound_play, sound_rec,               \* playback and recording are running
  call_stop_play,                      \* the interrupt asks for the stop
  i2s_mask,                            \* the I2S interrupt is not masked
  half,                                \* the next interrupt plays the second half
  sound_playingblock, sound_endblock,
  sound_pc,                            \* the main loop's place in sound_update
  raced,                               \* history: a flag changed in the middle of a pass
  crossed                              \* history: two threads were setting one button

buttons == <<hw_button, play_button, rec_button, call, raced, crossed>>
lasts == <<last_play_button, last_rec_button>>
playback == <<i2s_mask, half, sound_playingblock, sound_endblock>>
soundVars == <<buttons, lasts, sound_play, sound_rec, call_stop_play, playback, sound_pc>>

Buttons == {0, 1}
Threads == {"main", "aws"}
NoCall == [id |-> 0, onoff |-> FALSE, at |-> "none"]

SoundTypeOK ==
  /\ hw_button \in [Buttons -> BOOLEAN]
  /\ play_button \in BOOLEAN /\ rec_button \in BOOLEAN
  /\ call \in [Threads -> [id : Buttons, onoff : BOOLEAN, at : {"none", "assign", "sound"}]]
  /\ last_play_button \in BOOLEAN /\ last_rec_button \in BOOLEAN
  /\ sound_play \in BOOLEAN /\ sound_rec \in BOOLEAN
  /\ call_stop_play \in BOOLEAN
  /\ i2s_mask \in BOOLEAN /\ half \in BOOLEAN
  /\ sound_playingblock \in 0 .. T - 1 \cup {t.start : t \in Takes}
  /\ sound_endblock \in {0} \cup {t.end : t \in Takes}
  /\ sound_pc \in {"top", "start_playback", "stop_playback", "last_play",
             "rec", "start_record", "stop_record", "stopped_record", "last_rec",
             "call_stop", "called_stop", "play_off_0", "rec_off_1"}
  /\ raced \in BOOLEAN /\ crossed \in BOOLEAN

SoundInit ==
  /\ hw_button = [id \in Buttons |-> FALSE]
  /\ play_button = FALSE /\ rec_button = FALSE
  /\ call = [t \in Threads |-> NoCall]
  /\ last_play_button = FALSE /\ last_rec_button = FALSE
  /\ sound_play = FALSE /\ sound_rec = FALSE
  /\ call_stop_play = FALSE
  /\ i2s_mask = FALSE /\ half = FALSE
  /\ sound_playingblock = 0 /\ sound_endblock = 0
  /\ sound_pc = "top" /\ raced = FALSE /\ crossed = FALSE

----------------------------------------------------------------------------
(* The buttons *)

Idle(t) == call[t].at = "none"

\* Somebody else has begun to set the button and is not done.
Crosses(t, id) == \E u \in Threads \ {t} : ~Idle(u) /\ call[u].id = id

\* hw_set_button(id, onoff) on thread t up to its comparison; an equal value returns.
SetButton(t, id, onoff) ==
  IF hw_button[id] = onoff THEN UNCHANGED <<call, crossed>>
  ELSE /\ call' = [call EXCEPT ![t] = [id |-> id, onoff |-> onoff, at |-> "assign"]]
       /\ crossed' = (crossed \/ Crosses(t, id))

\* The assignment; the display is told in between.
AssignButton(t) ==
  /\ call[t].at = "assign"
  /\ hw_button' = [hw_button EXCEPT ![call[t].id] = call[t].onoff]
  /\ call' = [call EXCEPT ![t].at = "sound"]
  /\ UNCHANGED <<play_button, rec_button, raced, crossed, lasts, sound_play, sound_rec,
                 call_stop_play, playback, sound_pc>>

\* A slip of SoundButton: one sound at a time, the other button's flag goes off, too.
SoundButtonAlone(t) ==
  /\ call[t].at = "sound"
  /\ play_button' = (call[t].id = 0 /\ call[t].onoff)
  /\ rec_button' = (call[t].id = 1 /\ call[t].onoff)
  /\ call' = [call EXCEPT ![t] = NoCall]
  /\ raced' = (raced \/ (t = "aws" /\ sound_pc # "top"))
  /\ UNCHANGED <<hw_button, crossed, lasts, sound_play, sound_rec, call_stop_play, playback,
                 sound_pc>>

\* sound_button: the main loop may be anywhere when the AWS thread is here.
SoundButton(t) ==
  /\ call[t].at = "sound"
  /\ \/ call[t].id = 0 /\ play_button' = call[t].onoff /\ UNCHANGED rec_button
     \/ call[t].id = 1 /\ rec_button' = call[t].onoff /\ UNCHANGED play_button
  /\ call' = [call EXCEPT ![t] = NoCall]
  /\ raced' = (raced \/ (t = "aws" /\ sound_pc # "top"))
  /\ UNCHANGED <<hw_button, crossed, lasts, sound_play, sound_rec, call_stop_play, playback,
                 sound_pc>>

\* hw_flipping_button, from RunCapSenseScan, before sound_update is called.
TouchButton(id) ==
  /\ sound_pc = "top" /\ Idle("main")
  /\ SetButton("main", id, ~hw_button[id])
  /\ UNCHANGED <<hw_button, play_button, rec_button, raced, lasts, sound_play, sound_rec,
                 call_stop_play, playback, sound_pc>>

\* hw_aws_sync on the AWS thread sets a button whatever the main loop is doing.
CloudButton(id) ==
  /\ Idle("aws")
  /\ SetButton("aws", id, ~hw_button[id])
  /\ UNCHANGED <<hw_button, play_button, rec_button, raced, lasts, sound_play, sound_rec,
                 call_stop_play, playback, sound_pc>>

----------------------------------------------------------------------------
(* sound_update: the play button *)

\* The main loop is in sound_update, and not in a call of hw_set_button.
At(place) == sound_pc = place /\ Idle("main")

\* hw_set_button(id, false) of sound_update, which then goes on at place.
SwitchOff(id, place) ==
  /\ SetButton("main", id, FALSE)
  /\ sound_pc' = place
  /\ UNCHANGED <<hw_button, play_button, rec_button, raced>>

PlayCheck ==
  /\ At("top")
  /\ \/ /\ play_button = last_play_button
        /\ sound_pc' = "rec"
        /\ UNCHANGED buttons
     \/ /\ play_button # last_play_button
        /\ rec_button
        /\ SwitchOff(1, "play_off_0")
     \/ /\ play_button # last_play_button
        /\ ~rec_button
        /\ sound_pc' = CASE play_button /\ ~sound_play -> "start_playback"
                         [] ~play_button /\ sound_play -> "stop_playback"
                         [] OTHER                      -> "last_play"
        /\ UNCHANGED buttons
  /\ UNCHANGED <<lasts, sound_play, sound_rec, call_stop_play, playback>>

\* The second of the two calls, and the return.
PlayOff ==
  /\ At("play_off_0")
  /\ SwitchOff(0, "top")
  /\ UNCHANGED <<lasts, sound_play, sound_rec, call_stop_play, playback>>

\* sound_start_playback(start, end); half keeps the value the last playback left.
StartPlayback(start, end) ==
  /\ At("start_playback")
  /\ sound_playingblock' = start /\ sound_endblock' = end
  /\ i2s_mask' = TRUE
  /\ sound_play' = TRUE
  /\ sound_pc' = "last_play"
  /\ UNCHANGED <<buttons, lasts, sound_rec, call_stop_play, half>>

\* sound_stop_playback: the interrupt is disabled, the console gets its port back.
StopPlayback ==
  /\ At("stop_playback")
  /\ sound_play' = FALSE
  /\ sound_pc' = "last_play"
  /\ UNCHANGED <<buttons, lasts, sound_rec, call_stop_play, playback>>

\* A slip of LastPlay: the button is not remembered.
LastPlayForgotten ==
  /\ At("last_play")
  /\ sound_pc' = "rec"
  /\ UNCHANGED <<buttons, lasts, sound_play, sound_rec, call_stop_play, playback>>

LastPlay ==
  /\ At("last_play")
  /\ last_play_button' = play_button
  /\ sound_pc' = "rec"
  /\ UNCHANGED <<buttons, last_rec_button, sound_play, sound_rec, call_stop_play, playback>>

----------------------------------------------------------------------------
(* sound_update: the record button *)

\* A slip of RecCheck: the play button is not looked at.
RecCheckAlone ==
  /\ At("rec")
  /\ sound_pc' = CASE rec_button = last_rec_button -> "call_stop"
                   [] rec_button # last_rec_button /\ rec_button /\ ~sound_rec -> "start_record"
                   [] rec_button # last_rec_button /\ ~rec_button /\ sound_rec -> "stop_record"
                   [] OTHER -> "last_rec"
  /\ UNCHANGED <<buttons, lasts, sound_play, sound_rec, call_stop_play, playback>>

RecCheck ==
  /\ At("rec")
  /\ \/ /\ rec_button = last_rec_button
        /\ sound_pc' = "call_stop"
        /\ UNCHANGED buttons
     \/ /\ rec_button # last_rec_button
        /\ play_button
        /\ SwitchOff(0, "rec_off_1")
     \/ /\ rec_button # last_rec_button
        /\ ~play_button
        /\ sound_pc' = CASE rec_button /\ ~sound_rec -> "start_record"
                         [] ~rec_button /\ sound_rec -> "stop_record"
                         [] OTHER                    -> "last_rec"
        /\ UNCHANGED buttons
  /\ UNCHANGED <<lasts, sound_play, sound_rec, call_stop_play, playback>>

\* The second of the two calls, and the return.
RecOff ==
  /\ At("rec_off_1")
  /\ SwitchOff(1, "top")
  /\ UNCHANGED <<lasts, sound_play, sound_rec, call_stop_play, playback>>

StartRecord ==
  /\ At("start_record")
  /\ sound_rec' = TRUE
  /\ sound_pc' = "last_rec"
  /\ UNCHANGED <<buttons, lasts, sound_play, call_stop_play, playback>>

\* sound_stop_record also switches the record button off, before the recording is over.
StopRecord ==
  /\ At("stop_record")
  /\ SwitchOff(1, "stopped_record")
  /\ UNCHANGED <<lasts, sound_play, sound_rec, call_stop_play, playback>>

StoppedRecord ==
  /\ At("stopped_record")
  /\ sound_rec' = FALSE
  /\ sound_pc' = "last_rec"
  /\ UNCHANGED <<buttons, lasts, sound_play, call_stop_play, playback>>

LastRec ==
  /\ At("last_rec")
  /\ last_rec_button' = rec_button
  /\ sound_pc' = "call_stop"
  /\ UNCHANGED <<buttons, last_play_button, sound_play, sound_rec, call_stop_play, playback>>

\* The end of playback: only the button goes off, the next pass stops the sound.
CallStop ==
  /\ At("call_stop")
  /\ \/ /\ call_stop_play /\ sound_play
        /\ SwitchOff(0, "called_stop")
        /\ UNCHANGED call_stop_play
     \/ /\ ~(call_stop_play /\ sound_play)
        /\ call_stop_play' = FALSE
        /\ sound_pc' = "top"
        /\ UNCHANGED buttons
  /\ UNCHANGED <<lasts, sound_play, sound_rec, playback>>

CalledStop ==
  /\ At("called_stop")
  /\ call_stop_play' = FALSE
  /\ sound_pc' = "top"
  /\ UNCHANGED <<buttons, lasts, sound_play, sound_rec, playback>>

----------------------------------------------------------------------------
(* i2s_int *)

\* The first half of a block.
I2sFirstHalf ==
  /\ sound_play /\ i2s_mask /\ ~half
  /\ half' = TRUE
  /\ UNCHANGED <<buttons, lasts, sound_play, sound_rec, call_stop_play,
                 i2s_mask, sound_playingblock, sound_endblock, sound_pc>>

\* A slip of I2sSecondHalf: the first block is passed over at the end of the area.
I2sSecondHalfPast ==
  /\ sound_play /\ i2s_mask /\ half
  /\ sound_playingblock' = IF sound_playingblock + 1 >= T THEN 1 ELSE sound_playingblock + 1
  /\ i2s_mask' = (sound_playingblock' # sound_endblock)
  /\ call_stop_play' = (call_stop_play \/ sound_playingblock' = sound_endblock)
  /\ half' = FALSE
  /\ UNCHANGED <<buttons, lasts, sound_play, sound_rec, sound_endblock, sound_pc>>

\* The second half: on to the next block, or ask for the stop at the end.
I2sSecondHalf ==
  /\ sound_play /\ i2s_mask /\ half
  /\ sound_playingblock' = IF sound_playingblock + 1 >= T THEN 0 ELSE sound_playingblock + 1
  /\ i2s_mask' = (sound_playingblock' # sound_endblock)
  /\ call_stop_play' = (call_stop_play \/ sound_playingblock' = sound_endblock)
  /\ half' = FALSE
  /\ UNCHANGED <<buttons, lasts, sound_play, sound_rec, sound_endblock, sound_pc>>

----------------------------------------------------------------------------
PlayStep == PlayCheck \/ PlayOff \/ StopPlayback \/ LastPlay
            \/ \E t \in Takes : StartPlayback(t.start, t.end)
RecStep == RecCheck \/ RecOff \/ StartRecord \/ StopRecord \/ StoppedRecord \/ LastRec
StopStep == CallStop \/ CalledStop
ButtonStep(t) == AssignButton(t) \/ SoundButton(t)
SoundMain == PlayStep \/ RecStep \/ StopStep \/ ButtonStep("main")
I2s == I2sFirstHalf \/ I2sSecondHalf
Touch == \E id \in Buttons : TouchButton(id)
Cloud == \E id \in Buttons : CloudButton(id)

SoundNext == SoundMain \/ ButtonStep("aws") \/ I2s \/ Touch \/ Cloud

SoundSpec == SoundInit /\ [][SoundNext]_soundVars

\* The main loop never blocks, the AWS thread ends a call it began, and an unmasked
\* interrupt is served.
Fairness == WF_soundVars(SoundMain) /\ WF_soundVars(ButtonStep("aws")) /\ WF_soundVars(I2s)

SoundFairSpec == SoundSpec /\ Fairness

----------------------------------------------------------------------------
(* Properties *)

\* As long as flags change only between passes, what sound_update remembers of the
\* buttons is what the hardware does, however the passes were cut short: the next
\* press is then always compared with the truth.
RememberedIsRunning ==
  ~raced =>
    /\ sound_pc \notin {"start_playback", "stop_playback", "last_play"}
         => last_play_button = sound_play
    /\ sound_pc \notin {"start_record", "stop_record", "stopped_record", "last_rec"}
         => last_rec_button = sound_rec

\* As long as flags change only between passes, a recording never starts over a
\* running playback, which would overwrite sound_buffer under it.
RecordNeverOverPlayback ==
  [][~sound_rec /\ sound_rec' /\ ~raced => ~sound_play]_soundVars

Quiet == <>[][~Touch /\ ~Cloud]_soundVars

\* Once nobody presses any more, playback and recording come to agree with the buttons for
\* good, those of sound.cpp and those of hw.cpp, which the display and the shadow have: unless
\* a flag ever changed in the middle of a pass, or both threads were setting one button.
ButtonsSettle ==
  Quiet => <>[](~raced /\ ~crossed =>
                  /\ sound_play = play_button /\ play_button = hw_button[0]
                  /\ sound_rec = rec_button /\ rec_button = hw_button[1])

\* Once nobody presses any more, playback goes round to the end of its take, inside the
\* ring, and stops interrupting there, wherever it started and whatever the buttons did:
\* the end is compared for equality only (sound.cpp 791), and a take that ends at T or
\* beyond is played for ever. Whether the console comes back then is another matter: a
\* press in the pass after the end leaves sound_play set (sound.cpp 646).
PlaybackEnds == Quiet => <>[](sound_play /\ i2s_mask => sound_endblock >= T)
============================================================================
