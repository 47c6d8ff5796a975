------------------------------ MODULE LcdPool ------------------------------
(***************************************************************************)
(* The display of lcd_ui.cpp. Any thread may show a text: it looks for one  *)
(* of the four buffers of textbuffer that begins with '^', copies the text  *)
(* into it and posts an event to lcd_queue; the LCD thread draws the text   *)
(* and puts the '^' back. A message with a display time posts a second,     *)
(* delayed event with an empty text, which holds a buffer all that time.    *)
(*                                                                         *)
(* The pads and the cloud also set the buttons and the slider, and hw.cpp   *)
(* posts an event for each change; those need no buffer but a place in the  *)
(* same queue. What else hw_set_button and hw_set_slider do is the subject  *)
(* of SoundControl and ShadowQueue.                                         *)
(***************************************************************************)
EXTENDS Integers, Sequences, FiniteSets

CONSTANTS
  SlotCount,    \* buffers, 4 in the code
  QueueMax,     \* events that fit in the memory of lcd_queue, 24 in the code
  TextPlaces,   \* the places lcd_msg and lcd_downside_msg write to
  SliderValues, \* positions the slider is set to
  MaxCalls      \* bound: messages shown and controls set in a behaviour

ASSUME SlotAssumption == SlotCount \in Nat \ {0} /\ QueueMax \in Nat \ {0}
ASSUME CallsAssumption == MaxCalls \in Nat
ASSUME SliderAssumption == SliderValues \subseteq Nat
ASSUME PlaceAssumption ==
  /\ "top" \notin TextPlaces
  /\ \A p \in TextPlaces \cup {"top"} : p # "button" /\ p # "slider"

VARIABLES
  textbuffer,  \* what is in each buffer, Free when it begins with '^'
  ready,       \* the events of lcd_queue whose time has come, in order
  waiting,     \* the events of call_in whose delay is running
  lcd,         \* the buffer whose text the LCD thread has drawn and not yet freed, or 0
  screen,      \* the text at each place
  shown,       \* the button and the slider as they are drawn (lcd_slice_pos)
  hw,          \* hw_button, hw_slider
  at, job,     \* per thread: its place in a call, the text, its place on the screen
  slot,        \* per thread: i of the loop over textbuffer
  count,       \* history: calls so far; a message is known by the number of its call
  raced,       \* history: two threads found the same buffer free
  closing,     \* history: the messages whose empty text has been posted
  leaked,      \* history: buffers filled for an event that could not be posted
  spoilt       \* history: controls that were drawn last by nobody's fault but the order

writer == <<at, job, slot>>
vars == <<textbuffer, ready, waiting, lcd, screen, shown, hw, writer,
          count, raced, closing, leaked, spoilt>>

Threads == {"main", "aws"}
Slots == 1 .. SlotCount
NoJob == [what |-> 0, place |-> "top", timed |-> FALSE]
Places == TextPlaces \cup {"top"}
Controls == {"button", "slider"}

\* Message k is the number k, the empty text that closes it is -k; the marker '^' is 0.
Free == 0
Blank == 0
Texts == (- MaxCalls .. MaxCalls) \ {0}

\* lcd_startup_thread puts the slider at 180; hw_slider begins at 0.
StartPos == 180
NeverDrawn == -250
MIN_SLICE == 5

Values(c) == IF c = "button" THEN {0, 1} ELSE SliderValues

TextEvent(s, x, p) == [kind |-> "text", slot |-> s, what |-> x, place |-> p]
ControlEvent(c, v) == [kind |-> "control", slot |-> 0, what |-> v, place |-> c]
TextEvents == {TextEvent(s, x, p) : s \in Slots, x \in Texts, p \in Places}
ControlEvents == {ControlEvent(c, v) : c \in Controls, v \in {0, 1, StartPos} \cup SliderValues}

\* An event keeps its memory until its function returns.
Pending == Len(ready) + Cardinality(waiting) + (IF lcd = 0 THEN 0 ELSE 1)
Full == Pending >= QueueMax

TypeOK ==
  /\ textbuffer \in [Slots -> Texts \cup {Free}]
  /\ ready \in Seq(TextEvents \cup ControlEvents)
  /\ waiting \subseteq TextEvents
  /\ lcd \in Slots \cup {0}
  /\ Pending <= QueueMax
  /\ screen \in [Places -> Texts \cup {Blank}]
  /\ shown \in [Controls -> {0, 1, StartPos, NeverDrawn} \cup SliderValues]
  /\ hw \in [Controls -> {0, 1} \cup SliderValues]
  /\ at \in [Threads -> {"idle", "scan", "fill", "post", "show", "lost"}]
  /\ job \in [Threads -> [what : Texts \cup {0, 1} \cup SliderValues,
                          place : Places \cup Controls, timed : BOOLEAN]]
  /\ slot \in [Threads -> 1 .. SlotCount + 1]
  /\ count \in 0 .. MaxCalls
  /\ raced \in BOOLEAN /\ closing \subseteq 1 .. MaxCalls
  /\ leaked \subseteq Slots /\ spoilt \subseteq Controls

Init ==
  /\ textbuffer = [s \in Slots |-> Free]
  /\ ready = <<ControlEvent("slider", StartPos)>> /\ waiting = {}
  /\ lcd = 0
  /\ screen = [p \in Places |-> Blank]
  /\ shown = [c \in Controls |-> IF c = "button" THEN 0 ELSE NeverDrawn]
  /\ hw = [c \in Controls |-> 0]
  /\ at = [t \in Threads |-> "idle"]
  /\ job = [t \in Threads |-> NoJob]
  /\ slot = [t \in Threads |-> 1]
  /\ count = 0 /\ raced = FALSE /\ closing = {} /\ leaked = {}
  /\ spoilt = {"slider"}

----------------------------------------------------------------------------
(* Showing a text, on thread t *)

\* lcd_status_msg (only the main loop), lcd_msg, lcd_downside_msg, and with
\* timed the two _delay_close variants, which show the text and then ...
Show(t, p, timed) ==
  /\ at[t] = "idle"
  /\ count < MaxCalls
  /\ p = "top" => t = "main" /\ ~timed
  /\ count' = count + 1
  /\ job' = [job EXCEPT ![t] = [what |-> count', place |-> p, timed |-> timed]]
  /\ slot' = [slot EXCEPT ![t] = 1]
  /\ at' = [at EXCEPT ![t] = "scan"]
  /\ UNCHANGED <<textbuffer, ready, waiting, lcd, screen, shown, hw, raced, closing, leaked, spoilt>>

\* ... show the empty text in the same way, whatever became of the first.
Return(t) ==
  IF job[t].timed /\ job[t].what > 0
  THEN /\ job' = [job EXCEPT ![t] = [what |-> - @.what, place |-> @.place, timed |-> TRUE]]
       /\ slot' = [slot EXCEPT ![t] = 1]
       /\ at' = [at EXCEPT ![t] = "scan"]
  ELSE /\ job' = [job EXCEPT ![t] = NoJob]
       /\ slot' = [slot EXCEPT ![t] = 1]
       /\ at' = [at EXCEPT ![t] = "idle"]

\* A slip of TestSlot: the marker is not looked at.
TestSlotBlindly(t) ==
  /\ at[t] = "scan" /\ slot[t] <= SlotCount
  /\ at' = [at EXCEPT ![t] = "fill"]
  /\ raced' = (raced \/ \E u \in Threads \ {t} : at[u] = "fill" /\ slot[u] = slot[t])
  /\ UNCHANGED <<textbuffer, ready, waiting, lcd, screen, shown, hw, job, slot,
                 count, closing, leaked, spoilt>>

\* One turn of the loop: textbuffer[i][0] == '^'. A buffer that is not there yet
\* is made and found free.
TestSlot(t) ==
  /\ at[t] = "scan" /\ slot[t] <= SlotCount
  /\ \/ /\ textbuffer[slot[t]] = Free
        /\ at' = [at EXCEPT ![t] = "fill"]
        /\ raced' = (raced \/ \E u \in Threads \ {t} : at[u] = "fill" /\ slot[u] = slot[t])
        /\ UNCHANGED slot
     \/ /\ textbuffer[slot[t]] # Free
        /\ slot' = [slot EXCEPT ![t] = @ + 1]
        /\ UNCHANGED <<at, raced>>
  /\ UNCHANGED <<textbuffer, ready, waiting, lcd, screen, shown, hw, job,
                 count, closing, leaked, spoilt>>

\* All are in use: the text is dropped.
Drop(t) ==
  /\ at[t] = "scan" /\ slot[t] > SlotCount
  /\ Return(t)
  /\ UNCHANGED <<textbuffer, ready, waiting, lcd, screen, shown, hw,
                 count, raced, closing, leaked, spoilt>>

\* Or worse: except for the top bar, the function is declared to return an int and
\* has no return here. The compiler may take it that the loop never ends.
RunOn(t) ==
  /\ at[t] = "scan" /\ slot[t] > SlotCount
  /\ job[t].place # "top"
  /\ at' = [at EXCEPT ![t] = "lost"]
  /\ UNCHANGED <<textbuffer, ready, waiting, lcd, screen, shown, hw, job, slot,
                 count, raced, closing, leaked, spoilt>>

\* strcpy
Fill(t) ==
  /\ at[t] = "fill"
  /\ textbuffer' = [textbuffer EXCEPT ![slot[t]] = job[t].what]
  /\ at' = [at EXCEPT ![t] = "post"]
  /\ UNCHANGED <<ready, waiting, lcd, screen, shown, hw, job, slot,
                 count, raced, closing, leaked, spoilt>>

\* lcd_queue.call, or call_in for the empty text of a timed message. The result is
\* passed on to callers that ignore it: the buffer of a refused event stays filled.
Post(t) ==
  LET e == TextEvent(slot[t], job[t].what, job[t].place)
  IN  /\ at[t] = "post"
      /\ ready' = IF ~Full /\ e.what > 0 THEN Append(ready, e) ELSE ready
      /\ waiting' = IF ~Full /\ e.what < 0 THEN waiting \cup {e} ELSE waiting
      /\ closing' = IF ~Full /\ e.what < 0 THEN closing \cup {- e.what} ELSE closing
      /\ leaked' = IF Full THEN leaked \cup {slot[t]} ELSE leaked
      /\ Return(t)
      /\ UNCHANGED <<textbuffer, lcd, screen, shown, hw, count, raced, spoilt>>

----------------------------------------------------------------------------
(* Setting a control, on thread t: hw_set_button and hw_set_slider *)

\* An equal value returns at once. The event follows after the assignment.
SetControl(t, c, v) ==
  /\ at[t] = "idle"
  /\ count < MaxCalls
  /\ hw[c] # v
  /\ count' = count + 1
  /\ hw' = [hw EXCEPT ![c] = v]
  /\ job' = [job EXCEPT ![t] = [what |-> v, place |-> c, timed |-> FALSE]]
  /\ at' = [at EXCEPT ![t] = "show"]
  /\ spoilt' = IF \E u \in Threads \ {t} : at[u] = "show" /\ job[u].place = c
               THEN spoilt \cup {c} ELSE spoilt \ {c}
  /\ UNCHANGED <<textbuffer, ready, waiting, lcd, screen, shown, slot, raced, closing, leaked>>

\* lcd_show_button, lcd_close_button, lcd_show_slice
ShowControl(t) ==
  /\ at[t] = "show"
  /\ ready' = IF Full THEN ready
              ELSE Append(ready, ControlEvent(job[t].place, job[t].what))
  /\ spoilt' = IF Full THEN spoilt \cup {job[t].place} ELSE spoilt
  /\ at' = [at EXCEPT ![t] = "idle"]
  /\ job' = [job EXCEPT ![t] = NoJob]
  /\ UNCHANGED <<textbuffer, waiting, lcd, screen, shown, hw, slot, count, raced, closing, leaked>>

----------------------------------------------------------------------------
(* The LCD thread: lcd_queue.dispatch_forever *)

\* A delay is over. Delays differ from place to place; no order is assumed here.
Due(e) ==
  /\ e \in waiting
  /\ waiting' = waiting \ {e}
  /\ ready' = Append(ready, e)
  /\ UNCHANGED <<textbuffer, lcd, screen, shown, hw, writer, count, raced, closing, leaked, spoilt>>

\* A slip of DrawText: the empty text is put anywhere but where the message was.
DrawTextElsewhere ==
  /\ lcd = 0 /\ ready # <<>> /\ Head(ready).kind = "text"
  /\ screen' = IF Head(ready).what > 0
               THEN [screen EXCEPT ![Head(ready).place] = textbuffer[Head(ready).slot]]
               ELSE [screen EXCEPT !["top"] = textbuffer[Head(ready).slot]]
  /\ lcd' = Head(ready).slot
  /\ ready' = Tail(ready)
  /\ UNCHANGED <<textbuffer, waiting, shown, hw, writer, count, raced, closing, leaked, spoilt>>

\* lcd_draw_text_top_bar_thread, lcd_draw_text_thread, lcd_draw_downside_thread:
\* the text that is in the buffer now.
DrawText ==
  /\ lcd = 0 /\ ready # <<>> /\ Head(ready).kind = "text"
  /\ screen' = [screen EXCEPT ![Head(ready).place] = textbuffer[Head(ready).slot]]
  /\ lcd' = Head(ready).slot
  /\ ready' = Tail(ready)
  /\ UNCHANGED <<textbuffer, waiting, shown, hw, writer, count, raced, closing, leaked, spoilt>>

\* A slip of FreeSlot: the marker is not put back.
FreeNothing ==
  /\ lcd # 0
  /\ lcd' = 0
  /\ UNCHANGED <<textbuffer, ready, waiting, screen, shown, hw, writer,
                 count, raced, closing, leaked, spoilt>>

\* text[0] = '^'
FreeSlot ==
  /\ lcd # 0
  /\ textbuffer' = [textbuffer EXCEPT ![lcd] = Free]
  /\ lcd' = 0
  /\ UNCHANGED <<ready, waiting, screen, shown, hw, writer, count, raced, closing, leaked, spoilt>>

Distance(a, b) == IF a < b THEN b - a ELSE a - b

\* A slip of Drawn: the test of the distance is the wrong way round.
DrawnWhenNear(c, v) ==
  IF c = "slider" /\ Distance(shown[c], v) >= MIN_SLICE THEN shown[c] ELSE v

\* lcd_show_button_thread; lcd_show_slice_thread, which leaves a slider that has
\* hardly moved where it is.
Drawn(c, v) ==
  IF c = "slider" /\ Distance(shown[c], v) < MIN_SLICE THEN shown[c] ELSE v

DrawControl ==
  /\ lcd = 0 /\ ready # <<>> /\ Head(ready).kind = "control"
  /\ LET e == Head(ready)
     IN  shown' = [shown EXCEPT ![e.place] = Drawn(e.place, e.what)]
  /\ ready' = Tail(ready)
  /\ UNCHANGED <<textbuffer, waiting, lcd, screen, hw, writer, count, raced, closing, leaked, spoilt>>

----------------------------------------------------------------------------
Call(t) == TestSlot(t) \/ Drop(t) \/ RunOn(t) \/ Fill(t) \/ Post(t) \/ ShowControl(t)
Dispatch == DrawText \/ FreeSlot \/ DrawControl

Next ==
  \/ \E t \in Threads :
       \/ \E p \in Places, timed \in BOOLEAN : Show(t, p, timed)
       \/ \E c \in Controls : \E v \in Values(c) : SetControl(t, c, v)
       \/ Call(t)
  \/ \E e \in waiting : Due(e)
  \/ Dispatch

Spec == Init /\ [][Next]_vars

\* Every thread gets its time slices, every delay ends.
FairSpec ==
  /\ Spec
  /\ \A t \in Threads : WF_vars(Call(t))
  /\ WF_vars(\E e \in waiting : Due(e))
  /\ WF_vars(Dispatch)

----------------------------------------------------------------------------
(* Properties *)

ReadyTexts == {i \in 1 .. Len(ready) : ready[i].kind = "text"}

\* No event finds another text in its buffer than the one it was posted for, nor a
\* buffer another event or the LCD thread is using: unless two threads found the
\* same buffer free (the test and the strcpy of lines 61-63 are not one step), the
\* text a caller shows is the text that is drawn, however many are on their way
\* (lcd_ui.cpp 54-246).
OwnText ==
  ~raced =>
    /\ \A i \in ReadyTexts : textbuffer[ready[i].slot] = ready[i].what
    /\ \A e \in waiting : textbuffer[e.slot] = e.what
    /\ \A i \in ReadyTexts : ready[i].slot # lcd
    /\ \A e \in waiting : e.slot # lcd

\* Every buffer in use comes free again, also after a race, and also when it was held
\* for a delayed event, so that the pool is whole when the calls (MaxCalls) are over:
\* unless lcd_queue had no memory for its event. That buffer is never drawn, so nobody
\* puts the '^' back (lcd_ui.cpp 43, 160, 183, 212, 238).
SlotsComeBack ==
  <>[](\A s \in Slots : \/ textbuffer[s] = Free \/ s \in leaked
                        \/ \E t \in Threads : at[t] = "lost")

\* Once everything on its way is drawn, the button is drawn as it is and the slider
\* within MIN_SLICE of its place, although small moves are skipped: unless the last
\* changes came from two threads at once, or an event was refused. A later change
\* repairs either (hw.cpp 375-386, 411-413, lcd_ui.cpp 288-341).
ControlShown ==
  \A c \in Controls \ spoilt :
    \/ \E i \in 1 .. Len(ready) : ready[i].kind = "control" /\ ready[i].place = c
    \/ \E t \in Threads : at[t] = "show" /\ job[t].place = c
    \/ IF c = "slider" THEN Distance(shown[c], hw[c]) < MIN_SLICE ELSE shown[c] = hw[c]

\* A message whose empty text has been posted stands only as long as that text is
\* on its way, and (SlotsComeBack) it is not on its way for ever
\* (lcd_msg_delay_close, lcd_ui.h 86-99).
TimedTextGoes ==
  ~raced => \A p \in Places :
    screen[p] \in closing =>
      \/ \E i \in ReadyTexts : ready[i].what = - screen[p] /\ ready[i].place = p
      \/ \E e \in waiting : e.what = - screen[p] /\ e.place = p
============================================================================
