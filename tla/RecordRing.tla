---------------------------- MODULE RecordRing ----------------------------
(***************************************************************************)
(* The sound ring of sound.cpp: the FRAM area of T blocks that pdm_int      *)
(* fills S blocks at a time, the position pair that names the current take, *)
(* the pair saved in FRAM, and the AWS thread that streams the take in      *)
(* chunks of S blocks.                                                      *)
(*                                                                         *)
(* Actors: the main loop (SoundStartRecord, SoundStopRecord...), the PDM      *)
(* interrupt (PdmInt), the AWS thread (Stream...), and a reset (Restart).     *)
(* A "take" is one recording, from sound_start_record to the next one.      *)
(***************************************************************************)
EXTENDS Integers, FiniteSets

CONSTANTS
  S,        \* SOUND_STEAM_BUFFER_SIZE * SOUND_STEAM_BUFFER_MUL, blocks per chunk
  T,        \* RECORD_SOUND_TOTAL_BLOCK, blocks in the sound area
  MaxPos,   \* bound: no take starts from an end position above it
  MaxSent   \* bound: the count of published chunks saturates here, above what is announced

ASSUME SizeAssumption == S \in Nat \ {0} /\ T \in Nat \ {0} /\ S <= T
ASSUME BoundAssumption == MaxPos \in Nat /\ MaxSent \in Nat /\ MaxSent >= T \div S

VARIABLES
  record_start_pos, record_end_pos,   \* the current take, [start, end) round the ring
  ind,                                \* 128-sample reads waiting in sound_buffer
  rec,                                \* "off", "on" (interrupt enabled) or "stopping"
  status,                             \* the position pair of the struct kept in FRAM
  stream_start_pos, stream_end_pos, stream_onoff,
  aws,                                \* where the AWS thread is in its streaming loop
  last,                               \* the test sound_stream made on entry
  total,                              \* total_length written into every message
  sent,                               \* messages published by this streaming loop
  fresh,                              \* history: blocks the current take stored since the reset
  kept,                               \* history: blocks still holding audio of the saved take
  disturbed                           \* history: a take began or ended inside the loop

recVars == <<record_start_pos, record_end_pos, ind, rec, status>>
streamVars == <<stream_start_pos, stream_end_pos, stream_onoff>>
awsVars == <<aws, last, total, sent>>
history == <<fresh, kept, disturbed>>
vars == <<recVars, streamVars, awsVars, history>>

Blocks == 0 .. T - 1

\* The blocks from s up to e - 1, round the ring when s > e.
RingBlocks(s, e) ==
  IF s <= e THEN {b \in Blocks : s <= b /\ b < e}
            ELSE {b \in Blocks : s <= b \/ b < e}

\* The blocks fram_write_sound(pos, S, data) stores; a position outside the area
\* is refused, the part of a chunk that runs past the area is not a sound block.
Stored(pos) ==
  IF pos \in Blocks THEN {b \in Blocks : pos <= b /\ b < pos + S} ELSE {}

\* The pair sound_init takes over from the saved status.
Restored(st) == IF st.start = st.end THEN [start |-> 0, end |-> 1] ELSE st

TypeOK ==
  /\ record_start_pos \in Nat /\ record_end_pos \in Nat
  /\ ind \in 0 .. S - 1
  /\ rec \in {"off", "on", "stopping"}
  /\ status \in [start : Nat, end : Nat]
  /\ stream_start_pos \in Nat /\ stream_end_pos \in Nat /\ stream_onoff \in BOOLEAN
  /\ aws \in {"idle", "test", "load", "advance", "publish"}
  /\ last \in BOOLEAN
  /\ total \in Nat /\ sent \in 0 .. MaxSent
  /\ fresh \subseteq Blocks /\ kept \subseteq Blocks
  /\ disturbed \in BOOLEAN

Init ==
  /\ status = [start |-> 0, end |-> 0]
  /\ record_start_pos = 0 /\ record_end_pos = 1
  /\ ind = 0 /\ rec = "off"
  /\ stream_start_pos = 0 /\ stream_end_pos = 0 /\ stream_onoff = FALSE
  /\ aws = "idle" /\ last = FALSE /\ total = 0 /\ sent = 0
  /\ fresh = {} /\ kept = {} /\ disturbed = FALSE

----------------------------------------------------------------------------
(* The main loop *)

\* A slip of FirstPos: every take starts at the first block.
FirstPosZero(end) == 0

\* sound_start_record: the start steps past the old end, adds a chunk and the
\* remainder, and is not brought back into the area.
FirstPos(end) == LET s == end + 1 IN s + S + (s % S)

SoundStartRecord ==
  /\ rec = "off"
  /\ record_end_pos <= MaxPos
  /\ record_start_pos' = FirstPos(record_end_pos)
  /\ record_end_pos' = record_start_pos' + 1
  /\ stream_start_pos' = record_start_pos'
  /\ stream_end_pos' = record_start_pos'
  /\ rec' = "on"
  /\ fresh' = {}
  /\ disturbed' = (aws # "idle")
  /\ UNCHANGED <<ind, status, stream_onoff, awsVars, kept>>

\* A slip of AlignedEnd: the end is cut up to a whole chunk instead of down.
AlignedEndUp(start, end) == end - (end % S) + S

\* The end position sound_stop_record keeps: whole chunks, never an empty pair.
AlignedEnd(start, end) ==
  LET e == end - (end % S) IN
  IF e # start THEN e ELSE IF e + 1 > T THEN 0 ELSE e + 1

\* sound_stop_record up to fram_write_status: the pair is cut to whole chunks
\* and saved. The interrupt is disabled first.
SoundStopRecord ==
  /\ rec = "on"
  /\ record_end_pos' = AlignedEnd(record_start_pos, record_end_pos)
  /\ status' = [start |-> record_start_pos, end |-> record_end_pos']
  /\ kept' = fresh
  /\ rec' = "stopping"
  /\ UNCHANGED <<record_start_pos, ind, streamVars, awsVars, fresh, disturbed>>

\* The rest of sound_stop_record: the take is handed to the streaming loop.
SoundStopRecordStream ==
  /\ rec = "stopping"
  /\ rec' = "off"
  /\ stream_start_pos' = record_start_pos
  /\ stream_end_pos' = record_end_pos
  /\ stream_onoff' = TRUE
  /\ disturbed' = (aws # "idle")
  /\ UNCHANGED <<record_start_pos, record_end_pos, ind, status, awsVars, fresh, kept>>

----------------------------------------------------------------------------
(* The PDM interrupt *)

\* pdm_int with a buffer that is not full yet.
PdmIntBuffer ==
  /\ rec = "on"
  /\ ind + 1 < S
  /\ ind' = ind + 1
  /\ UNCHANGED <<record_start_pos, record_end_pos, rec, status, streamVars, awsVars, history>>

\* pdm_int when the buffer is full: store the chunk, move the end, and push the
\* start ahead of the end when the take has gone round the whole ring.
PdmIntStore ==
  /\ rec = "on"
  /\ ind + 1 = S
  /\ ind' = 0
  /\ LET next == record_end_pos + S
         cross == record_end_pos <= record_start_pos /\ next > record_start_pos
     IN /\ record_end_pos' = IF next >= T THEN 0 ELSE next
        /\ record_start_pos' = IF cross THEN record_end_pos' + 1 ELSE record_start_pos
  /\ fresh' = fresh \cup Stored(record_end_pos)
  /\ kept' = kept \ Stored(record_end_pos)
  /\ UNCHANGED <<rec, status, streamVars, awsVars, disturbed>>

----------------------------------------------------------------------------
(* The AWS thread *)

\* sound_num_wait_for_stream
NumWaitForStream ==
  IF ~stream_onoff \/ stream_start_pos = stream_end_pos THEN 0
  ELSE IF stream_start_pos > stream_end_pos
       THEN T - stream_start_pos + 1 + stream_end_pos
       ELSE stream_end_pos - stream_start_pos

\* awsiot_shadow_cycle finds a stream waiting and enters its loop.
StreamBegin ==
  /\ aws = "idle"
  /\ NumWaitForStream > 0
  /\ total' = NumWaitForStream \div S
  /\ sent' = 0
  /\ aws' = "test"
  /\ disturbed' = FALSE
  /\ UNCHANGED <<recVars, streamVars, last, fresh, kept>>

\* sound_stream returns 0 and the loop ends; its locals are gone.
StreamEnd ==
  /\ aws = "test"
  /\ ~stream_onoff
  /\ aws' = "idle" /\ total' = 0 /\ sent' = 0
  /\ disturbed' = FALSE
  /\ UNCHANGED <<recVars, streamVars, last, fresh, kept>>

\* Slips of LessThanChunkLeft: a stream that has to wrap is not told apart; a stream
\* with nothing left is not seen; only the exact end is seen.
ChunkLeftUnwrapped == stream_end_pos - stream_start_pos < S
SomethingLeft ==
  stream_end_pos > stream_start_pos /\ stream_end_pos - stream_start_pos < S
NothingLeft == stream_end_pos = stream_start_pos

\* sound_stream on entry: is less than a chunk left?
LessThanChunkLeft ==
  stream_end_pos >= stream_start_pos /\ stream_end_pos - stream_start_pos < S

StreamTest ==
  /\ aws = "test"
  /\ stream_onoff
  /\ last' = LessThanChunkLeft
  /\ aws' = "load"
  /\ UNCHANGED <<recVars, streamVars, total, sent, history>>

\* ... the flag is cleared on the strength of that test, the chunk is read ...
StreamLoad ==
  /\ aws = "load"
  /\ stream_onoff' = (stream_onoff /\ ~last)
  /\ aws' = "advance" /\ last' = FALSE
  /\ UNCHANGED <<recVars, stream_start_pos, stream_end_pos, total, sent, history>>

\* ... and the start moves to the next chunk.
StreamAdvance ==
  /\ aws = "advance"
  /\ stream_start_pos' = IF stream_start_pos + S >= T THEN 0 ELSE stream_start_pos + S
  /\ aws' = "publish"
  /\ UNCHANGED <<recVars, stream_end_pos, stream_onoff, last, total, sent, history>>

\* awsiot_publish_stream; the loop does not look at its result.
StreamPublish ==
  /\ aws = "publish"
  /\ sent' = IF sent < MaxSent THEN sent + 1 ELSE sent
  /\ aws' = "test"
  /\ UNCHANGED <<recVars, streamVars, last, total, history>>

----------------------------------------------------------------------------
(* Power loss and restart: RAM is lost, FRAM keeps the blocks and the saved   *)
(* pair; sound_init takes the pair over.                                      *)
Restart ==
  /\ record_start_pos' = Restored(status).start
  /\ record_end_pos' = Restored(status).end
  /\ ind' = 0 /\ rec' = "off"
  /\ stream_start_pos' = 0 /\ stream_end_pos' = 0 /\ stream_onoff' = FALSE
  /\ aws' = "idle" /\ last' = FALSE /\ total' = 0 /\ sent' = 0
  /\ fresh' = {} /\ disturbed' = FALSE
  /\ UNCHANGED <<status, kept>>

Main == SoundStartRecord \/ SoundStopRecord \/ SoundStopRecordStream
Pdm == PdmIntBuffer \/ PdmIntStore
Aws == StreamBegin \/ StreamEnd \/ StreamTest \/ StreamLoad \/ StreamAdvance \/ StreamPublish

Next == Main \/ Pdm \/ Aws \/ Restart

Spec == Init /\ [][Next]_vars

\* The main loop finishes a stop it began, the AWS thread always goes on.
\* Nobody is obliged to record, and the device may be reset at any time.
Fairness == WF_vars(SoundStopRecordStream) /\ WF_vars(Aws)

FairSpec == Spec /\ Fairness

----------------------------------------------------------------------------
(* Properties *)

\* What a position pair offers for playback and streaming, without its first
\* block: recording begins one block behind the start.
Take(s, e) == RingBlocks(s, e) \ {s}

\* Every block the current take offers was stored by that take, however often
\* the ring wrapped and the start was pushed: nobody hears an older message.
\* A take that stored nothing is excluded (see DataBackFromZero).
TakeIsFresh ==
  fresh # {} => Take(record_start_pos, record_end_pos) \subseteq fresh

SavedIntact == Take(status.start, status.end) \subseteq kept

\* The take whose pair is in FRAM is damaged by a later recording only when that
\* recording has filled the rest of the ring, give or take two chunks: a reset
\* in a shorter recording comes back to an intact message.
SavedTakeSurvives ==
  [][SavedIntact /\ ~SavedIntact' /\ status' = status
       => Cardinality(fresh') + Cardinality(Take(status.start, status.end)) + 2 * S >= T]_vars

\* A streaming loop that ran through a take nobody touched meanwhile has sent at
\* least the number of messages it announced: the receiver can finish the clip.
StreamComplete ==
  aws = "test" /\ ~stream_onoff /\ ~disturbed => sent >= total

\* ... and, for a take inside the area, at most one message too many, two when the
\* take runs across the end of the ring.
StreamOvershoot ==
  ~disturbed /\ aws # "idle" /\ record_start_pos < T /\ record_end_pos < T
    => sent <= total + (IF record_start_pos <= record_end_pos THEN 1 ELSE 2)

\* Both: the count a streaming loop writes into its messages is the count it sends, but
\* for the chunks at the ends.
StreamedAsAnnounced == StreamComplete /\ StreamOvershoot

\* When nothing is recorded any more the streaming loop comes to rest: the walk
\* round the ring in steps of S does not jump over the end position.
StreamSettles ==
  <>[](rec = "off" /\ stream_end_pos < T) => <>[](aws = "idle")

\* The flag of a waiting stream is cleared only when less than a chunk of it is left,
\* unless a take began or ended since the loop began: the main loop may hand over a new
\* one between the test and the clearing, which then drops it (sound.cpp 907).
WaitingStreamWorked ==
  [][aws = "load" /\ stream_onoff /\ ~stream_onoff' /\ aws' = "advance"
       => disturbed \/ Cardinality(RingBlocks(stream_start_pos, stream_end_pos)) < S]_vars
============================================================================
