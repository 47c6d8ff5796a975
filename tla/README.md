# A verification project for the voice mailbox

The repository is a mailbox with a voice: a PSoC 6 board (Mbed OS, `src/mbed-os-mailbox/`)
records a message from its microphone into FRAM, plays it, streams it over MQTT to AWS, where
`src/lambda.py` puts the chunks together, has them transcribed and sends the text back to the
board and to an iOS app (`src/ios-mailbox/`). Buttons and a slider on the board and in the app are
kept equal through the AWS IoT device shadow.

This directory holds TLA+ models of that program, the TLC configurations that check them, and
theorems about them with proofs for TLAPS. Paths below are relative to `src/mbed-os-mailbox/`
unless they begin with `src/`.

## 1. Inventory

### Who runs

| actor | code | what it may interrupt |
|---|---|---|
| main loop | `main.cpp` 255-272: touch pads, sensors, `sound_update`, LCD tick | nothing |
| AWS thread | `awsiot.cpp` 56: `awsiot_shadow_cycle` for ever; MQTT callbacks run inside its `yield` | the main loop, at any point (same priority, time slices) |
| LCD thread | `lcd_ui.cpp`: an event queue | as the AWS thread |
| `pdm_int` | `sound.cpp` 711: 128 samples from the microphone | every thread |
| `i2s_int` | `sound.cpp` 775: half a block to the loudspeaker | every thread |
| cloud | `src/lambda.py`, one invocation per batch of Kinesis records | – |
| app | `src/ios-mailbox/`: its own mirror of the shadow | – |

There is no lock around the state of `sound.cpp`; the only semaphore that is shared is
`awsiot_sem`, and one of its two users ignores whether it got it.

### The parts

| part | state | operations | what makes it hard | what makes it correct |
|---|---|---|---|---|
| **sound ring** (`sound.cpp`, `fram.cpp`) | the positions of the take, the pair saved in FRAM, the fill of `sound_buffer`, the stream positions and flag | start, stop, `pdm_int`, restore at start-up, streaming loop of the AWS thread | arithmetic round a ring whose start is pushed; three actors, no lock; power loss | a take offers only its own audio; the stream sends what it announced and ends; a reset finds an intact message |
| **sound control** (`sound.cpp`, `hw.cpp`) | the buttons of `hw.cpp`, the two flags of `sound.cpp`, their remembered values, what runs, the I2S position | `sound_update`, `hw_set_button`, start and stop, `i2s_int` | a button is two variables, set one after the other on two threads without a lock; flags read several times in a pass while others write them; end of playback goes through a flag and a button | what is remembered is true; recording and playback exclude each other; both settle on the buttons |
| **shadow queue** (`awsiot.cpp`) | the string of waiting updates, `awsiot_sem`, the cycle's place, the client | `awsiot_update`, `awsiot_shadow_cycle`, publish, retry | an ignored `try_acquire`, several appends for one update that may fall between those of the other thread or the wrapping, appends while a message is on its way, failures that leave the string wrapped | the semaphore is never lost; nothing goes back; what waits arrives; the cycle turns |
| **clip assembly** (`src/lambda.py`) | key, index and clip in S3, jobs started | `lambda_handler`, record by record | chunks reordered, duplicated, lost; a batch repeated after half of its puts; late chunks | order of speech; one job per clip; a complete take is transcribed, a finished one left alone |
| **connection** (`awsiot.cpp` 316-735, `network.cpp`, `aws_client.cpp`) | `client`, `network`, `_network`, its `mqtt_obj`, what waits | connect and reconnect from four places, subscribe, publish, stream, yield | a loop on an argument that is never set; a client that is NULL; a reconnection in a callback of the client it replaces | a lost connection is replaced; nobody uses a dead client; what waits is cleared when it was sent |
| **MQTT client** (`aws-iot/MQTT/MQTT/MQTTClient.h`, vendored) | session, message handlers, keep-alive timers | one packet per `cycle`, subscribe, publish at QoS 0, `yield` | late answers, packets cut short, a silent peer; handlers that keep a pointer to their topic | a session in use hears its topics |
| **shadow sync** (`hw.cpp`, callbacks of `awsiot.cpp`, `AWSIOT.swift`) | buttons and slider on the board; the mirror and the switches of the app; the gate `hw_aws_publish` | a touch, `hw_aws_sync` on /get and /update, `update_item`, `run_loop` and its resends | the board hears its own reports; `exit` not reset; a mirror set before the switches; resends that stop | the document has only what somebody chose; board, document and app agree in the end |
| **pairing** (`awsiot.cpp` 137-244, `AWSIOT.swift`, `ViewController.swift`) | uuid and code on the board; uuid, passcode, alert and subscriptions of each app; the hash in the document | request, answer, code, confirmation, publish; mismatch | two apps at once, on one topic; alerts that hide each other; a hash published between two subscriptions | one app is paired, and the others hear that they are not |
| **LCD** (`lcd_ui.cpp`, `lcd_ui.h`) | four text buffers, event queue, what is drawn | `lcd_msg` and friends, timed messages, buttons and slider, the LCD thread | test-and-fill by several threads; all buffers in use, queue full; delayed closings | each event draws its own text; every buffer comes back; the controls end as they are |
| **JSON** (`json_aws.cpp`) | a position in a text, a status, the call for a child | `json_parse` | the end of a child is counted, then walked again; characters below the nine; `stoi` | every key is found with its own value, nothing past the end is read |
| **touch pads and light sensor** (`capsense.cpp`, `hw.cpp`, `main.cpp`) | what the scanner stored, `capsense_sem`, the previous touches; `hw_with_mail` | scan, `ProcessTouchStatus`, `check_with_mail` | pads processed while the next scan stores; a verdict from three readings; reports dropped before the first document | a flip is a tap; what rests on the pads is heard; mail is known and told |
| drivers, motion sensor, NTP, start-up | – | I/O | – | – |

Interactions: the touch pads and the shadow callbacks set the buttons that sound control follows;
sound control starts and stops the ring; the ring hands takes to the AWS thread; the AWS thread
publishes chunks and the shadow string on one connection; the rule engine and Kinesis bring chunks
to the lambda; the lambda's text comes back to a callback of the AWS thread and from there to the
LCD. Vendored code (`aws-iot/`, `lpa/`, `CY8CKIT-028-TFT`, emWin) and generated board support are
modelled only where, and as, this code uses them. `network_activity_handler.cpp` is compiled out
(`SUSPEND_NO_NETWORK 0`, `main.cpp` 44).

At this commit a renaming of "steam" to "stream" is half done: `sound.cpp` declares
`sound_stream_start_pos` and uses `sound_steam_start_pos` beside it, and `awsiot.cpp` 368 calls
`sound_num_wait_for_steam`. The models read both spellings as one variable and one function.

## 2. Modules

| module | models | state and actions in the code |
|---|---|---|
| `RecordRing` | sound ring | The variables have the globals' names without `sound_`. `ind` counts reads of 128 samples. `SoundStartRecord` and the two steps of `sound_stop_record` (the power may fail after `fram_write_status`) are the main loop's, `PdmIntBuffer` and `PdmIntStore` the interrupt's; `StreamBegin` is `awsiot_shadow_cycle` 366-387, `StreamTest`, `StreamLoad`, `StreamAdvance` are `sound_stream` cut where another actor's change matters, `StreamPublish` is the rest of the loop. `Restart` loses the RAM and keeps FRAM. |
| `SoundControl` | sound control | `sound_pc` is the place in `sound_update`; every read of a button is a step. `call[t]` is where a thread is in `hw_set_button`: `SetButton` its comparison (371), `AssignButton` its assignment and the display (375-386), `SoundButton` the call of `sound_button` (389), with both threads free to go on in between; the main loop's calls in `sound_update` (`PlayOff`, `RecOff`, `StopRecord`, `CallStop`) go the same way. `Touch` happens between passes (same thread), `Cloud` anywhere (AWS thread). `StartPlayback` may be given any pair of `Takes`. |
| `ShadowQueue` | shadow queue | The string is a sequence of pieces: prefix, suffix, pairs, an update's value being its number, and a pair that is open up to its name. `TryAcquire`, `TestEmpty` (794), `OpenName` (795-798), `CloseValue` (799-801), `Release` are `awsiot_update` on either thread; `WrapPrefix` and `WrapSuffix` the two halves of the wrapping (356, 357); `Check` ... `Yield` the cycle with SHADOW_USE_JSON_MAP off, as compiled. The broker's document is `shadow`. |
| `ClipAssembly` | clip assembly | One action per S3 put, so that a repeated invocation can begin between any two; `Current` is lines 85-110, `Place` and `InsertClip` the search and the slice assignments. Kinesis is `flight` and `batch`. |
| `LcdPool` | LCD | `at` is a thread's place in a call: `scan` in the loop over `textbuffer`, `fill` before the `strcpy`, `post` before `lcd_queue.call`, `show` between the assignment of a control and its event, `lost` after a function ended without its return. `ready` and `waiting` are the events of `lcd_queue`; `DrawText`, `FreeSlot`, `DrawControl` are the LCD thread. |
| `ShadowSync` | shadow sync, board and app | `main` and `cb` hold a call of `hw_set_button` or `hw_set_slider` between its assignment and `awsiot_update`, on the main loop and in a callback; `SyncKey` is one turn of the loop of `hw_aws_sync`. `tasks` is the main queue of the app; its timer is started by a block behind those of the first message. The broker is `reported` and two queues. |
| `Pairing` | pairing, board and apps | `phone[a]` has the globals of `AWSIOT.swift` and the alert on the screen; `Request`, `Confirm`, `Publish` are the board's callback and its next publish; `EnterDsn`, `EnterCode`, `Accepted` the user's answers, `Passed` the end of the sleep in `aws_iot_pairing_passed`, `ReceiveMetadata` and `ReceiveDocument` the app's callbacks. `Kill`, `Reconnect`, `Restart` are the faults. |
| `MqttClient` | MQTT client | Operators on one client object: `session` (connected, ping outstanding, handlers), `timers` in reads that time out, `cycle` on what a read found. No variables of its own. |
| `Connection` | connection, composed with `MqttClient` | `pc` is the place of the AWS thread, `caller` where `awsiot_connect_thread` returns to. `Tls`, `Connack`, `Subscribe`, `Suback` are a connection; `PublishShadow`, `PublishStream`, `Yield` a turn of the loop; `Callback` publishes in a callback, `Under` is the return into the client that the callback replaced. |
| `MainLoop` | touch pads and light sensor | `pc` is the place in a pass. `Scan` is the interrupt, one widget a step, and the callback at the end; `StartScan`, `Acquire`, `ProcessTouchStatus` are `RunCapSenseScan`; `ReadBefore`, `ReadLit`, `CheckWithMail` the three readings; `Rest` the end of a pass. `CloudSlider` and `Told` are the AWS thread. |
| `JsonScan` | JSON | A step is a turn of the `do` loop; `stack` is the calls of `json_parse` with their local variables; one action per value of `status`, `Child` and `Value` for 4. |
| `Transcription` | what the cloud side promises | The abstract specification `ClipAssembly` implements with `heard <- HeardChunks`, `transcribed <- TranscribedTakes`. |
| `WaitingUpdates` | what the board promises about the values it reports | The abstract specification `ShadowQueue` implements with `made <- newest`, `shown <- shadow`: its string, semaphore, wrapping and retries are stutters, and what the broker applies is `ShowAll` or, once disturbed, `ShowSome`; once torn, `ShowAnything`. |
| `MC...` | instances for TLC | values for the constants |
| `..._proofs` | theorems | one module per component; `MainLoop_proofs` also has those of `SoundControl`, the other part of that loop, whose names (`SoundInit`, `SoundNext`, ...) are told apart from those of `MainLoop` for that. `JsonScan` has none. |

Abstractions worth knowing:

- **RecordRing.** Positions are exact, audio is not: a block is fresh or it is not. The part of a
  chunk written past the area is not tracked. Samples left in `sound_buffer` when a recording
  stops (`ind` is not reset) begin the next take's first chunk; `ind` is kept, but freshness is
  per block. `sound_stream_start_pos += S` is one step, although an interrupt of the addition is
  possible. Only a start of recording is bounded (`MaxPos`), never the interrupt.
- **SoundControl.** The volume (top of `sound_update`) and the seconds on the LCD (its end, which
  changes nothing but the display) are left out. `sound_buffer` is not there, only who uses it.
- **ShadowQueue.** The comma, the quotes and the name are one step, the value with its quotes another: wherever something comes
  between the pieces of one step, it comes between two threads that are in the `std::string` at once. That is a data race, undefined in C++; the
  model lets the string be what the two make of it one after the other, or `Broken` (`Outcomes`). Broken it is, too, when a pair is torn by
  the suffix or by the other thread's, or gets a comma too many or too few. The broker refuses a broken document, or takes
  names from it that nobody meant (`Refused`). That the race may also crash the board, by freeing the memory of the string twice, is left out. The first
  `/get` before the loop is left out. `AWSIoTClient` on a null pointer is undefined: the
  model lets it either report no connection or fault.
- **LcdPool.** A text is the number of its call, its closing the negative number. Delays end in any order,
  also in orders the delays of the code exclude. Two threads that both make a missing buffer count as two
  that found it free. `lcd_clear_queue` is not called by anybody and not modelled. Calls are
  bounded (`MaxCalls`), so "comes back" speaks of the time after the last one.
- **ShadowSync.** A slider is a value like a button's, 0 or 1; what differs is that it comes behind the buttons in the
  map. `shadow_status` is the set of values that wait, because how they wait is `ShadowQueue`; a publish
  does not fail and the connection is not lost. The hash in the document belongs to pairing. A person
  moves a switch at any time, also before the app has heard the document.
- **Pairing.** One alert is up at a time, since UIKit drops a second one; `unprompted` records that. Codes,
  UUIDs and passcodes are the n-th of their owner, so that two never collide. After a mismatch `/update/accepted` stays
  subscribed, and a reconnection subscribes to nothing (the early return of `AWSIOT.swift` 399): as in the code. An app
  that asked for another board takes the answer to somebody else's request. The board says nothing of
  a confirmation it ignores. The hash it saves in FRAM is a `std::string` as bytes (`awsiot.cpp` 232), a pointer after a reset,
  and nothing reads it: there is nothing of it in the model.
- **Connection.** What waits is one flag, a recording a count of messages. A refused CONNACK counts as a failed TLS
  connection: both end in `client` = NULL. The broker grants every subscription. A packet cut short reads as type 1 and
  closes the session, which `yield` does not report. After a reconnection the handler for transcripts compares with a dead local
  array (`Garbage`). `yield` on a NULL client is undefined: the model lets it report a lost connection or crash. QoS 1 and 2,
  `unsubscribe` and wildcard topics are not used by the board.
- **MainLoop.** A widget is touched or not, the slider has a position, no finger or several; base lines and debouncing are the
  library's. `count` is kept modulo `SENSOR_READ_MS`. `ProcessTouchStatus` is one step: the scanner may store during it, which is
  as if it had stored before or after, as each widget is looked at once. The light has two sources, the sun behind a
  cloud or not, and the LED behind a letter or not. The line that goes to `log` is left out:
  it is one more update for `ShadowQueue`.
- **JsonScan.** The messages are external: what the shadow service, the app and the lambda write. There is no brace in a
  string inside a child among them: it would be counted (145), and none of the senders writes one. Maps are a set of paths with
  their values; they are never freed in the code.
- **ClipAssembly.** One thing, so one Kinesis shard and one invocation at a time. A lost chunk is
  one that never arrives. The header counts in the length of a clip as in the code:
  `TooLong` and `AllArrived` compare with a length that is not a whole number once it is in.
  Nothing is said about which words are recognised.

## 3. Runs

| run | question | result |
|---|---|---|
| `ring` | Does a take offer only its own blocks, does its stream send at least what it announced and at most one or two more, does it come to rest, is no waiting stream given up with a chunk left, does the saved take survive a reset? | holds |
| `control` | Is what `sound_update` remembers true, does no recording start over a playback, do both settle, does a playback stop at the end of its take? | holds; the first three as long as flags change between passes only, the third unless two threads were setting one button |
| `queue` | Is a token of the semaphore always somewhere, is the first message complete, does the document do what `WaitingUpdates` promises and catch up, does the cycle turn? | holds; the message, the promise and the catching up as long as no appends were torn apart, which takes a `try_acquire` in vain |
| `queue_retry_well_formed` | Is the retried message the document? | violated: it is wrapped twice |
| `clip_faults` | With every fault once: is the index sorted, the speech in order, the job's name new, a finished clip final? | holds |
| `clip_promise` | With losses and reordering: does the handler implement `Transcription`, and transcribe a complete take? | holds |
| `lcd` | Does an event find the text it was posted for, do the controls end as they are, does a timed message go, is the pool whole in the end? | holds |
| `sync` | Has the document only what somebody chose, does a quiet board agree with it, does a change made in peace reach the other side and stay? | holds |
| `pairing` | Does no app trust a passcode the document does not have, is who is told "accepted" accepted, does every unpaired app know what to ask, is an app alone with the board paired in the end? | holds; the last unless the app asked before the board had replaced an older hash |
| `connection` | Why may the thread hang or crash, the board be deaf, a wish be lost, an update be cleared, and is a lost connection replaced? | for the reasons the properties name, and no other |
| `main_loop` | Is each flip of a button a tap, is what rests on the pads heard, is mail known and told? | holds |
| `json` | Is every message read to its end, not past it, with all that was written found? | holds; only a number beyond an int throws |

Several properties hold under a condition, and the condition is where the code is weak:

- `RememberedIsRunning`, `RecordNeverOverPlayback`, `ButtonsSettle` speak of behaviours in which no
  flag changed in the middle of a pass (`raced`). A shadow update on the AWS thread can do that,
  and then a flag is remembered that was not acted on, or a recording starts over a playback.
  The model has these behaviours, and the properties show that nothing else can go wrong.
  `ButtonsSettle` also leaves out those in which both threads were setting one button (`crossed`): `hw_button` and the flag of `sound.cpp`
  may then stay apart. With play on in `sound.cpp` and off in `hw.cpp`, the arbitration switches nothing off (371 returns) and leaves
  `sound_update` at 632 in every pass, with the recording running and its button off. Both exceptions are needed: TLC finds
  `ButtonsSettle` violated with either alone. `RecordNeverOverPlayback` and `RememberedIsRunning` hold with such flags, too.
- `FirstAttemptComplete` and `ShadowConverges` speak of behaviours in which no publish was
  disturbed: it failed, had no client, or was appended to while on its way. `TokenExists` has
  no such condition; that a document brings all names, in `KeepsUpdates`, has it (`disturbed` there).
- An update made while the cycle or the other thread has the token goes on without one (`vain`), and its appends may then fall
  between others': before the suffix (357), between the name and the value of the other thread, into the clearing. What waits is then refused by the broker and cleared,
  though the publish succeeded: `FirstAttemptComplete` speaks of behaviours without a `try_acquire` in vain. `ShadowConverges` and the
  promise of `KeepsUpdates`, the order of values included, go further: they hold with acquires in vain, until the string is in fact `torn`. Each of the
  three conditions is needed: TLC finds the property violated without it.
- `CycleTurns` names two ways in which the cycle may stop: the loop for a network (below), and
  the processor's fault on a missing client.
- `WaitingStreamWorked` and `StreamComplete` leave out streams in whose way a recording began or ended (`disturbed`): the test of
  one take may clear the flag of the next.
- `PlaybackEnds` leaves out an end at `T` or beyond, which is compared for equality and never met; and it says that
  the interrupt stops, not that the console comes back.
- `StreamedAsAnnounced` is `StreamComplete` and `StreamOvershoot`; the latter is about takes inside the area, `StreamSettles` about an end below `T`. A take
  that ends at or beyond `T`, which the arithmetic of `sound_start_record` allows, is walked
  round for ever.
- `SpokenInOrder` excludes repeated invocations: after a repetition between the put of the index and the put
  of the clip the two disagree by one. `JobNamesNew` and `JobClipFinal` hold with repetitions as well, unless a new clip was `torn`:
  an invocation that had put the new clip's key, and not yet its index, was repeated from an earlier record. Then the
  chunks of the clip before are assembled again under the key of the new one (lines 85-110 of `lambda.py` read the new key with
  the old index), a job may be started for them, and the job of the new clip is refused for its name.

- `OwnText` and `TimedTextGoes` speak of behaviours in which no two threads found the same buffer free
  (`raced`); `SlotsComeBack` does not need that, but names a buffer whose event was refused by a full
  queue (`leaked`), which stays filled for ever, and a thread that ran on after a missing return.
- `ControlShown` names the controls (`spoilt`) whose last change came from two threads at once or whose
  event was refused, and the slider until its first move: it is drawn at 180 while `hw_slider` is 0.
- `QuietDeviceAgrees` names the keys (`spoilt`) which the board was not made to report: a slider passed over
  because the document also had a button, and a key touched while the first document was being applied.
- `QuietOwner` leaves out the app that a hash reached between the answer to its `/get` and its subscription to
  `/update/accepted` (`missed`), `Prompts` the app whose alert was dropped because another one was up, whose user gave a number of no
  board, or whose message was lost; `FirstComeServed` one board that answered two requests.
- `LoneAppPairs` leaves out an app that asked for the document too `early`: one second after its confirmation (`AWSIOT.swift` 334-336) the board
  has not published, the answer has an older hash, and the app takes itself for unpaired (92-98). It then pairs anew under another
  passcode, and if the board is late again, again, without end: no fairness of the code prevents it. On a board nobody has
  paired with before, the answer has no hash, and being early does no harm; the property claims that case.
- The properties of `Connection` name their `causes`: `offline` (Wi-Fi down), `refused`, `lost`, `late`, `short`, `overflow`, `early` (a
  wish while nobody is subscribed), `callback` (a publish that fails in a callback), `stream`.
- `TouchHeard` leaves the slider where the app put it if the app came last: the finger that stays, or comes back to where the last one
  was, is not heard. `MailTold` speaks of the document only if the board was told of it before it last changed its mind.
- `EveryMessageRead` lets a message with a number beyond an int throw: nothing catches that.
- `Settles` speaks of a last change that was made when all had settled. Two changes that cross may set
  and report each other for ever, because the board applies its own reports; `run_loop` between the
  mirror and the switches asks for the old value; an app that has given up on a message, or that asks
  a passed-over slider to where the board already is, is not answered. All of these are in the
  model; `OnlyChosen` and `QuietDeviceAgrees` hold in them, too.

### Disagreements between the code and its words

The violation is the finding listed in `PROJECT.json`: `awsiot.cpp` 750, "Published shadow failure retry", but the string to be
published again is wrapped a second time (356). While modelling, these
disagreements were met as well; each model shows the behaviour, no run is spent on it:

- `sound.cpp` 380, "data back from 0 if start > end": cutting the end to a whole chunk (543) leaves such a
  pair also after a tap that stored nothing.
- `awsiot.cpp` 388, "sample dismiss last if size not alignment": the loop always sends one message more
  than `total_length`, because the test of line 907 of `sound.cpp` clears the flag one call late.
- `fram.cpp` 184 checks the first block of a chunk only, so a write near the end of the area
  (`fram.h` 20) goes past it.
- `sound.cpp` 475, "init tracking var": `half` is not among them, a playback stopped between two halves makes the next
  one begin with half a block it has not read.
- `sound_update` looks at the play button first: record off and play on between the same two passes start a
  playback into a buffer that is still recorded into (718-719).
- `awsiot.cpp` 470: with NULL for the network, the loop `while (!network)` of the connection tests an argument
  nobody sets. The retry of line 750 never comes.
- `awsiot.h` 38, "the value will be updated if the message already waiting": another pair is appended.
- `awsiot.h` 35, "Add new message for publish": without a client the publish counts as
  a success and the string is cleared (678).
- `awsiot.cpp` 321, "init get all AWS shadow data": the slider is not among them, since `exit` (`hw.cpp` 443, 461) stays set after the
  first button of a document.
- `lcd_ui.h` 76, "Display text message period of time": the closing of an older message wipes a newer one on the same line, and
  with all buffers in use the closing is dropped and the message stays.
- `AWSIOT.swift` 217, "resend until maxsend": `resend % numofsend` lets only the first and the fifth repetition go, never one
  up to `maxsend` = 25.
- `ViewController.swift` 42-51: the actions are bound to `editingChanged`, which a `UISwitch` or a `UISlider` does not send; what makes a
  switch take effect is `run_loop` alone.
- `awsiot.cpp` 367, "enquire for any waiting sound stream and work for that": `sound_stream` tests the old positions (907) and clears
  the flag (908) after the main loop may have handed over a new take.
- `sound.cpp` 452, "temp stop UART console output for playback": it is not given back when a button is pressed between the
  end of playback and the next pass (646), nor for a take that ends at `T`.
- `src/lambda.py` 199 takes a clip for complete by its length: a duplicate counts as a chunk.
- `AWSIOT.swift` 166: a switch moved back to where it was asked for before may not be asked for.
- `MQTTClient.h` 225, "on failure, this means the client has disconnected": a packet cut short closes the session and
  `yield` goes on reporting success until something is published.
- `awsiot.cpp` 558 subscribes with the address of a local array, which the client keeps.
- `main.cpp` 259 means to read the sensors every `SENSOR_READ_MS` = 1024 ms; the counter goes in steps of 20, so it meets a multiple
  every 5120 ms.
- `hw.cpp` 254 prepares 50 characters for a line that is longer when readings have more digits than the format's least.
- `main.cpp` 239 uses the result of `awsiot_connect`, which returns none (578-582).

### Bounds

- `ring`: chunks of 3 blocks instead of 6, an area of 4 chunks instead of 256. Four chunks are enough
  for a first lap, a wrap, a push of the start, a second wrap, and for a short take that leaves
  the saved one alone; three blocks give the arithmetic at start and stop the remainders 0, 1 and 2.
  `MaxPos` = 15 lets a take follow one that ended a chunk beyond the area. `MaxSent` = 6 is above
  any announced number plus two. The theorems of the ring hold for every `S`, `T` and bound.
- `control`: three blocks, and three pairs: across the end of the ring, start beyond it, end at it. Every interleaving of two
  calls of `hw_set_button` with the passes is there, without a bound on presses.
- `queue`: two names, three updates: two overlap a publish, each other and the wrapping, and one follows; `MaxLength` lets the string
  be wrapped three times. The same properties were checked once with four updates (2.2 million states, three minutes). The semaphore's limit is 5, above the three tokens it can have
  (`DriftBounded` in the proofs), as 65535 is in the RTOS.
- `clip_faults`: two takes closer than the gap, the second longer, and a third behind the gap, every fault at
  most once and in any combination, batches of two. `clip_promise`: three takes apart, one chunk too many, exact, and
  empty; no tolerated fault except that any chunk may be lost or overtake its take.

- `lcd`: two buffers instead of four and three events instead of 24, so that both limits are met with three
  calls on two threads; one line beside the top bar; slider values at a distance of 3 from each other, below `MIN_SLICE`,
  and far from the start. The theorem `OwnTextAlways` has no bound.
- `sync`: one button and one slider (the two kinds `hw_aws_sync` tells apart), any first document, two changes by
  people, two messages on their way to each side. `Resend` is 1 instead of 5: one repetition goes and
  the next ones do not.
- `pairing`: two apps, two codes, two passcodes, one mistake or fault at any point, two messages on their way to each side: enough
  for a request between another's request and confirmation, and for an owner that loses. An app that is never early makes one passcode, and as many
  codes as its user errs and one more, so `LoneAppPairs` does not rest on these bounds; it was checked once for one app with four of
  each and two mistakes, too, and is violated there without `early`.
- `connection`: two faults, so that one may meet the repair of another; one wish, one message of sound (a recording
  may follow it before the loop has left `stream`, so that a failed message has another behind it), two packets on the wire; keep-alive after 2 reads instead of 60 seconds. The five handlers are those of the code.
- `main_loop`: one pad and the slider with two positions, a scan of two steps; 3 moves of fingers make a tap and a
  touch that stays, 2 changes by others a cloud and a letter; the sensors are read in every second pass. The lux values
  are on both sides of the code's thresholds, which are kept.
- `json`: objects of up to two members, strings empty, of digits, with colon, comma or brace (outside children), numbers up to `MaxInt` = 99 and
  beyond; children three deep, first, last, alone, before another child.

The type invariants are proved where there is a proof module (all but `JsonScan`); no run spends time on them, except where
nothing is proved and a property needs them.

### Fairness

- `RecordRing`: the AWS thread goes on (it never waits for the main loop there), a stop that began is
  finished. Recording, resetting and the interrupt are not obliged to happen.
- `SoundControl`: the main loop never blocks; the AWS thread ends a call of `hw_set_button` it began; an enabled interrupt is served.
- `ShadowQueue`: the AWS thread goes on when it can (weak fairness of the cycle as a whole, not of
  success), an `awsiot_update` that began ends. Both threads have one priority and time slices.
- `ClipAssembly`: the handler runs on and Kinesis invokes it for what arrived. No chunk is obliged to
  arrive, no job to succeed.

- `LcdPool`: both threads and the LCD thread have the same priority and time slices, a delay ends.
- `ShadowSync`: the main loop finishes its call, the AWS thread asks, publishes, receives and applies; the app's main queue and its
  timer run. Nobody has to touch anything, and the app need not be started.
- `Pairing`: a user answers the alert that is up, with the right number and code again and again; messages on their way arrive; the
  board answers and publishes. No fault, and no mistake, has to happen.
- `Connection`: the AWS thread goes on. That packets arrive is not assumed: a read may time out for ever.
- `MainLoop`: the main loop and the scanner go on. Nobody has to tell the board of the document.
- `JsonScan`: the parser goes on.

`queue`, the clip runs, `lcd`, `sync`, `pairing`, `connection` and `json` do not check deadlock: updates, chunks, calls, changes and messages are
bounded, a halted device, an emptied stream, settled switches, a crashed thread and a read text do stop. `ring`, `control` and `main_loop` do.

## 4. Proofs

TLAPS checks these for every value of the constants that meets the modules' named assumptions:

| theorem | statement | argument |
|---|---|---|
| `RecordRing_proofs!TypeCorrect` | `Spec => []TypeOK` | The positions stay natural numbers: cutting subtracts a remainder (`Remainder`), the new start is beyond the old end (`FirstPosType`). |
| `RecordRing_proofs!TakeFresh` | `Spec => []TakeIsFresh` | `TakeIsFresh` is not inductive: it does not say what is fresh when the end passes the start. `FreshInv` adds `Recording`: in the first lap everything between start and end is fresh and the end is a chunk ahead as soon as anything is; later everything outside [end, start] is. `StoreKeepsRecording` is the interrupt, with the wrap and the push; `StopKeepsFresh` the cut to whole chunks. |
| `RecordRing_proofs!Announced`, `StreamsWorked` | `[]StreamedAsAnnounced`, `WaitingStreamWorked` | `StreamInv`: a waiting stream is the take that was handed over and `Fits` the ring (`HandedOver`); in the loop, messages times chunk is the way the start has come, round the ring, which is never beyond the end by more than a chunk; from that the quotient is bounded on both sides. |
| `RecordRing_proofs!SavedSurvives` | `SavedTakeSurvives` | `SavedInv`: a new take begins at the first position behind the saved one until every block is fresh. A store that hits the saved take from there has filled the ring but for two chunks (`CrossFills` and the count of the blocks left). |
| `MainLoop_proofs!SoundTypeCorrect` | `SoundSpec => []SoundTypeOK` | The block the interrupt plays: inside the area, or the start it was given. |
| `MainLoop_proofs!Remembering`, `NoRecordOverPlayback` | `SoundSpec => []RememberedIsRunning`, `RecordNeverOverPlayback` | `ControlInv`: until a race, at each `sound_pc` the remembered flags, the flags of `sound.cpp` and what runs are related as the branch that led there found them; a call of the main loop under way can change only the flag its place allows (`CallOK`, `FlagsOK`), whatever `hw_button` is. |
| `ShadowQueue_proofs!TokenNeverLost` | `[]TokenExists` | Inductive with the count in its range; each release adds at least what its acquire took. |
| `ShadowQueue_proofs!DriftBounded` | `[]TokensBounded` | `DriftInv` counts the threads inside `awsiot_update`, each of which will release once, instead of those that took a token: an acquire in vain happens at count 0, with at most two threads and the cycle to add. |
| `ShadowQueue_proofs!NeverOlder` | `ShadowNeverOlder` | `OrderInv`, until the string is torn: the numbers in the string and in the message on its way are at least the document's and at most `newest`. |
| `ShadowQueue_proofs!TornOnlyInVain` | `[](torn => vain)` | `WholeInv`: until an acquire is in vain, who is in the string has the only token (from `DriftInv`), so a comma is where the string was not empty, an open pair is that of the thread about to close it, and no piece falls between. |
| `ShadowQueue_proofs!TypeCorrect` | `[]TypeOK` | With `Counted`: what was appended and the updates under way (`Pending`) are `count` at most, so there is a number left for each of them; and who is in `awsiot_update` has a name (`Named`). |
| `ShadowQueue_proofs!FirstAttempt` | `[]FirstAttemptComplete` | `FirstInv`: a string neither disturbed nor torn has pairs only, the last perhaps open, and carries each name up to `newest`, before, inside and after the wrapping, whoever appends (`OpenCarries`, `CloseCarries`, `PrefixCarries`, `SuffixCarries`); `WholeInv` has that it is not torn; `CarriesApplied` turns "the last pair of a name is its newest" into what the document shows. |
| `ShadowQueue_proofs!UpdatesKept` | `Spec => KeepsUpdates` | Refinement of `WaitingUpdates`, from the type invariant, `OrderInv` and `FirstInv`: `AppliedBetween` (of `OrderInv`) makes a disturbed send `ShowSome`, `CarriesApplied` (of `FirstInv`) an undisturbed one `ShowAll`, and once torn it is `ShowAnything` (`SendShows`); every other step makes one value, disturbs, or stutters (`UpdatesStep`). |
| `ClipAssembly_proofs!IndexInOrder` | `[]IndexSorted` | `IndexInv` has the handler's own index sorted as well; `Place` is characterised through the greatest index that is not later, and inserting behind it keeps the order. |
| `ClipAssembly_proofs!TypeCorrect` | `[]TypeOK` | With where the handler is: at a chunk of its batch when it has one in hand, and at the stored key once it puts. |
| `ClipAssembly_proofs!NamesNew` | `[]JobNamesNew` | `NamesInv`, until a new clip is torn: the stored key is that of the index (`KeyOfIndex`), every key ever used for a job has its header and lies behind (`JobsBehind`), and what the handler has in hand extends the stored index (`InHand`) or begins beyond the gap, hence in a later second (`KeyLess` with `Second <= Gap + 1`). |
| `ClipAssembly_proofs!ClipFinal` | `JobClipFinal` | From the same invariant: a put of a clip with a job has one chunk more than that clip, which the length test lets through only for a chunk that announces more. |
| `ClipAssembly_proofs!Spoken` | `[]SpokenInOrder` | `SpokenInv`: until an invocation is repeated the time stamps of clip and index are one sequence (`Together`), since both grow at `Place`; nothing is misplaced unless a header is in the clip (`CutBehindWav`). The order is that of `IndexInOrder`. |
| `ClipAssembly_proofs!PromiseKept` | `Spec /\ [](NothingTwice /\ TakesTold) => KeepsPromise` | Refinement of `Transcription`. `PromiseInv`: a chunk is on its way, in the batch, or in one clip (`Once`); two chunks are in one clip exactly if they are of one take (`OneTake`); no key lies beyond the index (`KeysBehind`); a clip has as many chunks as blocks, and its header exactly when that is the announced number (`Kept`); what the handler has in hand is the stored clip and the chunk at hand (`Taken`). Then a put of a clip is `Hear`, a start of a job `Transcribe`, and everything else a stutter (`PromiseSteps`). |
| `ClipAssembly_proofs!TakesApartTranscribed` | `FarApart, Short, OnlyLost` prove `Spec => KeepsPromise` | The hypothesis of `PromiseKept` from the constants alone: pauses between takes longer than the gap, chunks of a take not further apart than it, and no chunk twice, behind the next take, or handled again; any may be lost, of another size, or out of order within its take. `OneBehindOther`: the takes stand one behind the other in clips, batch and last key, so the last stamp of the index is one of the latest take heard, and the gap tells a new one (`TakesToldApart`). |
| `LcdPool_proofs!TypeCorrect` | `[]TypeOK` | With the events in the queue counted, the delayed ones and the drawn one included, against its memory. |
| `LcdPool_proofs!ControlsShown` | `[]ControlShown` | `ControlInv`: for a control that is not spoilt, either one thread has its newest value in hand and nobody else any, or the last event of it in the queue has it, or it is drawn (`ControlFollows`). |
| `LcdPool_proofs!TimedTextsGo` | `[]TimedTextGoes` | `TimedInv`: calls number their texts (`Numbered`), who has such a number in hand (`InHand`), and behind each text whose closing was posted, in the queue or on the screen, there is an empty text for the place (`Behind`). |
| `LcdPool_proofs!OwnTextAlways` | `[]OwnText` | `Inv` adds who holds a buffer: besides the events and the LCD thread, a thread between its test and its posting. Until a race no two of them hold the same one (`Holders`, `Apart`), so nobody fills a buffer that an event will draw. |
| `MainLoop_proofs!TypeCorrect`, `FlipsAreTapsAlways` | `[]TypeOK`, `[]FlipsAreTaps` | `TapInv`: a pad that the next look will, or may, find released (`Owed`) has been tapped once more than its button was flipped. The scanner may store between any two steps; it can only make a pad owed that a finger has left. |
| `Connection_proofs!TypeCorrect` | `[]TypeOK` | With the operators of `MqttClient`: handlers stay within their slots, timers within the interval, packets on the wire are packets. |
| `Connection_proofs!StopsOnlyForCauses` | `[]StopsOnlyFor` | `StopInv`: each state the thread can stop from (no Wi-Fi, no network, no client, a replaced client under a callback) has its cause on record. |
| `Connection_proofs!ClearedOnlyWhenSent` | `ClearedWhenSent` | `SocketInv`: a socket that does not carry what is sent has its cause on record, and an MQTT client has a socket. |
| `Connection_proofs!DeafOnlyWhenLate` | `[]DeafOnlyFor` | `DeafInv`: at each stage of a connection, which answers are on the wire and which topics the session hears already (`AtConnack`, `AtSubscribe`, `AtSuback`, `AtTurn`), through callbacks called while the board waits for an answer. |
| `Connection_proofs!WishesHeard` | `[]UnheardOnlyFor` | `UnheardInv`: as long as nothing went wrong, a wish not yet heard is on the wire of a session that hears it, the answers awaited are there, and a ping that is out is being answered and has been out for no time. |
| `ShadowSync_proofs!TypeCorrect` | `[]TypeOK` | With what is on its way bounded, and the loop of `hw_aws_sync` asking only for keys of its message. |
| `ShadowSync_proofs!QuietBoardAgrees` | `[]QuietDeviceAgrees` | `AgreeInv`: for every key that is not spoilt and on which board and document differ, a report waits, is being made, or an echo is on its way (`Accounted`), also before the board knows the document (`FirstIsDocument`). |
| `ShadowSync_proofs!DocumentChosen` | `[]OnlyChosen` | `ChosenInv`: everything on its way was chosen by somebody, on the board, at the broker and in each block of the app's main queue; until the timer starts, a switch nobody set has the block that sets it in front of the timer's (`TimerBehind`). |
| `Pairing_proofs!TypeCorrect` | `[]TypeOK` | With `PhonesOK`: an app that is off shows and hears nothing, one that sleeps does so behind the last alert, and whoever was asked anything has made a UUID (`Asking`), so its codes and passcodes are of the kinds there are. |
| `Pairing_proofs!QuietOwnerAlways` | `[]QuietOwner` | `OwnerInv`, for every app that missed no document: if it listens and is awake, the last document in its inbox has the hash of the shadow (`Told`), or none is left and that hash is no one's or its own passcode. The step that matters is `ReceiveDocument` with the check of the hash (`Mismatch`): the last document either agrees or sends the app back to the first question. |
| `Pairing_proofs!PromptsAlways` | `[]Prompts` | `PromptInv`, for every app that did not ask in vain: it knows the shadow, sleeps before it does, has a question on its screen, or listens for the metadata, with its request in the queue of the board or the answer in its inbox. The request stays in the queue till `Request` takes it (`QueueTaken`), which answers all that listen. |
| `Pairing_proofs!FirstComeServedAlways` | `[]FirstComeServed` | `FirstInv`, as long as one code was made, nothing failed, nobody erred and there is no hash: an app that knows the number was served, or its request comes before any confirmation of its own (`Pending`); as only one was served, one that got as far as saving its things is the one the board still waits for, so its confirmation is in the queue, or accepted and waiting to be published. Messages carry the UUID the app still has (`FirstMessage`). |

Assumptions: `0 < S <= T` for the ring, and a bound on messages that a walk round it does not reach; some takes with natural positions, inside the area or not; for the clips a second, takes
numbered from 1, natural stamps, and a second that is not longer than the gap (1000 and 2500 ms in the code, and a
key in seconds names two clips alike without that); a semaphore limit of at least 1; at least one buffer and room
for one event, and places whose names are not those of the controls; widgets in any order, each at least once, with the
slider not among the pads; for the apps, bounds that are natural numbers; a slot for each of the four topics (the code has five) and a packet on the wire; keys in some
order, none of them called "-". The bounds are constants too, so the theorems hold for every bound. The
three hypotheses of `TakesApartTranscribed` are met by the instance of `clip_promise`; those of `PromiseKept` also by longer takes and
takes that follow closely, in every behaviour in which the gap happens to tell them apart.

The inductive invariants were model-checked on the runs' instances before they were proved. That they rest on the code was tried the other
way, too: with the mutant of `Mismatch` the proof of `QuietOwnerAlways` fails at `ReceiveDocument` and nowhere else. What this showed of the
model and the code: `JobNamesNew` is false without `torn` once there is a third take, and `JobClipFinal` with it; both were stated too
widely before.

Only model-checked: liveness (`StreamSettles`, `ButtonsSettle`, `PlaybackEnds`, `CycleTurns`, `ShadowConverges`,
`CompleteIsTranscribed`, `SlotsComeBack`, `Settles`, `LoneAppPairs`, `Recovers`, `TouchHeard`, `MailTold`, `EveryMessageRead`), which this prover does not reach,
and all of `JsonScan` (recursive operators: what the parser computes from a text of any length is an induction over data). Every other
property of the passing runs is a theorem.

## 5. Not modelled, and the plan

Next:

1. `Sound`: `RecordRing` and `SoundControl` composed over one `sound_buffer`, so that ends beyond the
   area and the streaming loop's use of the buffer meet the playback, and samples left in it (`ind`, `sound.cpp` 734) are seen.
2. `ShadowQueue` composed with `Connection` in place of the outcomes it has now, and `ShadowSync` with a connection that is lost.

Theorems left: those of the composed modules above, from the invariants of their parts.

Left out for good: codec and FRAM drivers, the motion sensor, clock, start-up (I/O with fixed
sequences), the login of the app (a vendor's SDK), vendored and generated code.
