------------------------- MODULE RecordRing_proofs -------------------------
(***************************************************************************)
(* Theorems about RecordRing, for every chunk size S and ring size T.       *)
(***************************************************************************)
EXTENDS RecordRing, FiniteSetTheorems, TLAPS

\* The remainder sound_start_record adds and sound_stop_record takes away.
LEMMA Remainder ==
  ASSUME NEW n \in Nat
  PROVE  n % S \in 0 .. S - 1 /\ n % S <= n
  BY SizeAssumption

\* A new take starts at a position that is a natural number above the old end.
LEMMA FirstPosType ==
  ASSUME NEW n \in Nat
  PROVE  FirstPos(n) \in Nat /\ FirstPos(n) > n
<1>1. n + 1 \in Nat
  OBVIOUS
<1>2. (n + 1) % S \in Nat
  BY <1>1, Remainder, SizeAssumption
<1> QED
  BY <1>2, SizeAssumption DEF FirstPos

\* The end sound_stop_record keeps is a position.
LEMMA AlignedEndType ==
  ASSUME NEW s \in Nat, NEW e \in Nat
  PROVE  AlignedEnd(s, e) \in Nat
<1>1. e - (e % S) \in Nat
  BY Remainder, SizeAssumption
<1> QED
  BY <1>1 DEF AlignedEnd

\* The announced number of messages is a natural number.
LEMMA TotalType ==
  ASSUME TypeOK, NumWaitForStream > 0
  PROVE  NumWaitForStream \div S \in Nat
<1>1. NumWaitForStream \in Nat
  BY SizeAssumption DEF TypeOK, NumWaitForStream
<1> QED
  BY <1>1, SizeAssumption

\* The initial state is well typed.
LEMMA InitType ==
  ASSUME Init
  PROVE  TypeOK
<1>1. stream_onoff \in BOOLEAN /\ last \in BOOLEAN /\ disturbed \in BOOLEAN
  BY Zenon DEF Init
<1>2. sent \in 0 .. MaxSent /\ ind \in 0 .. S - 1
  BY SizeAssumption, BoundAssumption DEF Init
<1> QED
  BY <1>1, <1>2 DEF Init, TypeOK

\* Positions, counters and program counters keep their ranges.
THEOREM TypeCorrect == Spec => []TypeOK
<1> DEFINE Flags == stream_onoff \in BOOLEAN /\ last \in BOOLEAN /\ disturbed \in BOOLEAN
<1>1. Init => TypeOK
  BY InitType
<1>2. TypeOK /\ [Next]_vars => TypeOK'
  <2> SUFFICES ASSUME TypeOK, [Next]_vars PROVE TypeOK'
    OBVIOUS
  <2> USE DEF TypeOK
  <2>1. CASE SoundStartRecord
    BY <2>1, FirstPosType, SizeAssumption DEF SoundStartRecord, awsVars
  <2>2. CASE SoundStopRecord
    BY <2>2, AlignedEndType DEF SoundStopRecord, streamVars, awsVars
  <2>3. CASE SoundStopRecordStream
    BY <2>3 DEF SoundStopRecordStream, awsVars
  <2>4. CASE PdmIntBuffer
    BY <2>4, SizeAssumption DEF PdmIntBuffer, streamVars, awsVars, history
  <2>5. CASE PdmIntStore
    BY <2>5, SizeAssumption DEF PdmIntStore, Stored, streamVars, awsVars
  <2>6. CASE StreamBegin
    <3>1. total' \in Nat /\ sent' \in 0 .. MaxSent
      BY <2>6, TotalType, BoundAssumption DEF StreamBegin
    <3>2. Flags'
      BY <2>6, Zenon DEF StreamBegin, streamVars
    <3> QED
      BY <2>6, <3>1, <3>2 DEF StreamBegin, recVars, streamVars
  <2>7. CASE StreamEnd
    <3>1. total' \in Nat /\ sent' \in 0 .. MaxSent
      BY <2>7, BoundAssumption DEF StreamEnd
    <3>2. Flags'
      BY <2>7, Zenon DEF StreamEnd, streamVars
    <3> QED
      BY <2>7, <3>1, <3>2 DEF StreamEnd, recVars, streamVars
  <2>8. CASE StreamTest
    BY <2>8 DEF StreamTest, LessThanChunkLeft, recVars, streamVars, history
  <2>9. CASE StreamLoad
    BY <2>9 DEF StreamLoad, recVars, history
  <2>10. CASE StreamAdvance
    BY <2>10, SizeAssumption DEF StreamAdvance, recVars, history
  <2>11. CASE StreamPublish
    BY <2>11, BoundAssumption DEF StreamPublish, recVars, streamVars, history
  <2>12. CASE Restart
    <3>1. ind' \in 0 .. S - 1 /\ total' \in Nat /\ sent' \in 0 .. MaxSent
      BY <2>12, SizeAssumption, BoundAssumption DEF Restart
    <3>2. Flags'
      BY <2>12, Zenon DEF Restart
    <3>3. record_start_pos' \in Nat /\ record_end_pos' \in Nat
      BY <2>12 DEF Restart, Restored
    <3> QED
      BY <2>12, <3>1, <3>2, <3>3 DEF Restart
  <2>13. CASE UNCHANGED vars
    BY <2>13 DEF vars, recVars, streamVars, awsVars, history
  <2> QED
    BY <2>1, <2>2, <2>3, <2>4, <2>5, <2>6, <2>7, <2>8, <2>9, <2>10, <2>11, <2>12, <2>13
    DEF Next, Main, Pdm, Aws
<1> QED
  BY <1>1, <1>2, PTL DEF Spec
----------------------------------------------------------------------------
(* The audio of a take *)

\* While the interrupt stores chunks, either the end is still ahead of the start
\* (the first lap: nothing stored yet, or at least a chunk), or it has wrapped
\* and everything outside [end, start] holds audio of this take.
Recording ==
  \/ /\ record_end_pos > record_start_pos
     /\ fresh = {} => record_end_pos = record_start_pos + 1
     /\ fresh # {} => record_end_pos >= record_start_pos + 1 + S
     /\ {b \in Blocks : record_start_pos < b /\ b < record_end_pos} \subseteq fresh
  \/ /\ record_end_pos <= record_start_pos
     /\ {b \in Blocks : record_start_pos < b \/ b < record_end_pos} \subseteq fresh

\* The inductive invariant: TakeIsFresh alone does not say what is fresh at the
\* moment the end passes the start.
FreshInv ==
  /\ TypeOK
  /\ rec = "on" => Recording
  /\ TakeIsFresh

\* A recording in progress offers fresh blocks only.
LEMMA RecordingIsFresh ==
  ASSUME TypeOK, Recording
  PROVE  TakeIsFresh
  BY SizeAssumption DEF TypeOK, Recording, TakeIsFresh, Take, RingBlocks, Blocks

\* A stored chunk keeps the shape of a recording, in the first lap, at the wrap
\* and when it pushes the start.
LEMMA StoreKeepsRecording ==
  ASSUME TypeOK, rec = "on", Recording, PdmIntStore
  PROVE  Recording'
<1> USE SizeAssumption DEF TypeOK, Recording, PdmIntStore, Stored, Blocks
<1>1. CASE record_end_pos > record_start_pos
  <2>1. record_start_pos' = record_start_pos
    BY <1>1
  <2>2. CASE record_end_pos + S >= T
    BY <1>1, <2>1, <2>2
  <2>3. CASE record_end_pos + S < T
    BY <1>1, <2>1, <2>3
  <2> QED
    BY <2>2, <2>3
<1>2. CASE record_end_pos <= record_start_pos
  <2>1. CASE record_end_pos + S > record_start_pos
    <3>1. record_start_pos' = record_end_pos' + 1
      BY <1>2, <2>1
    <3>2. \A b \in Blocks : b \in fresh'
      <4> SUFFICES ASSUME NEW b \in Blocks, b \notin fresh
                   PROVE  b \in Stored(record_end_pos)
        BY DEF Stored
      <4>1. record_end_pos <= b /\ b <= record_start_pos
        BY <1>2
      <4> QED
        BY <4>1, <2>1
    <3> QED
      BY <3>1, <3>2
  <2>2. CASE record_end_pos + S <= record_start_pos
    BY <1>2, <2>2
  <2> QED
    BY <2>1, <2>2
<1> QED
  BY <1>1, <1>2

\* Cutting the pair to whole chunks leaves a part of what was offered before.
LEMMA StopKeepsFresh ==
  ASSUME TypeOK, Recording, SoundStopRecord
  PROVE  TakeIsFresh'
<1> SUFFICES ASSUME fresh # {}
             PROVE  Take(record_start_pos, record_end_pos') \subseteq fresh
  BY DEF TakeIsFresh, SoundStopRecord
<1> DEFINE e == record_end_pos - (record_end_pos % S)
<1>1. e \in Nat /\ e <= record_end_pos /\ e > record_end_pos - S
  <2> DEFINE r == record_end_pos % S
  <2>1. record_end_pos \in Nat
    BY DEF TypeOK
  <2>2. r \in 0 .. S - 1 /\ r <= record_end_pos
    BY <2>1, Remainder
  <2> HIDE DEF r
  <2>3. /\ record_end_pos - r \in Nat
        /\ record_end_pos - r <= record_end_pos /\ record_end_pos - r > record_end_pos - S
    BY <2>1, <2>2, SizeAssumption
  <2> QED
    BY <2>3 DEF r
<1>2. record_end_pos' = IF e # record_start_pos THEN e
                        ELSE IF e + 1 > T THEN 0 ELSE e + 1
  BY DEF SoundStopRecord, AlignedEnd
<1> HIDE DEF e
<1> USE SizeAssumption DEF TypeOK, Take, RingBlocks, Blocks
<1>3. CASE record_end_pos > record_start_pos
  <2>1. e > record_start_pos
    BY <1>1, <1>3 DEF Recording
  <2> QED
    BY <1>1, <1>2, <1>3, <2>1 DEF Recording
<1>4. CASE record_end_pos <= record_start_pos
  BY <1>1, <1>2, <1>4 DEF Recording
<1> QED
  BY <1>3, <1>4 DEF TypeOK

LEMMA FreshInit == Init => FreshInv
<1> SUFFICES ASSUME Init PROVE FreshInv
  OBVIOUS
<1>1. TypeOK
  BY InitType
<1> QED
  BY <1>1 DEF Init, FreshInv, TakeIsFresh

LEMMA FreshStep == FreshInv /\ TypeOK' /\ [Next]_vars => FreshInv'
<1> SUFFICES ASSUME FreshInv, TypeOK', [Next]_vars
             PROVE  (rec = "on" => Recording)' /\ TakeIsFresh'
  BY DEF FreshInv
<1> USE DEF FreshInv
<1>1. CASE SoundStartRecord
  BY <1>1 DEF SoundStartRecord, Recording, TakeIsFresh, TypeOK, Blocks
<1>2. CASE SoundStopRecord
  BY <1>2, StopKeepsFresh DEF SoundStopRecord
<1>3. CASE SoundStopRecordStream
  BY <1>3 DEF SoundStopRecordStream, TakeIsFresh
<1>4. CASE PdmIntBuffer
  BY <1>4 DEF PdmIntBuffer, history, TakeIsFresh, Recording
<1>5. CASE PdmIntStore
  <2>1. Recording'
    BY <1>5, StoreKeepsRecording DEF PdmIntStore
  <2> QED
    BY <2>1, RecordingIsFresh, PTL
<1>6. CASE Aws
  BY <1>6 DEF Aws, StreamBegin, StreamEnd, StreamTest, StreamLoad, StreamAdvance,
              StreamPublish, recVars, history, TakeIsFresh, Recording
<1>7. CASE Restart
  BY <1>7 DEF Restart, TakeIsFresh
<1>8. CASE UNCHANGED vars
  BY <1>8 DEF vars, recVars, history, TakeIsFresh, Recording
<1> QED
  BY <1>1, <1>2, <1>3, <1>4, <1>5, <1>6, <1>7, <1>8 DEF Next, Main, Pdm

\* What a take offers for playback and streaming was stored by that take.
THEOREM TakeFresh == Spec => []TakeIsFresh
<1>1. FreshInv => TakeIsFresh
  BY DEF FreshInv
<1> QED
  BY <1>1, FreshInit, FreshStep, TypeCorrect, PTL DEF Spec

----------------------------------------------------------------------------
(* What a streaming loop has sent *)

\* What sound_num_wait_for_stream says of a pair.
Waiting(s, e) == IF s > e THEN T - s + 1 + e ELSE e - s

\* What may be left to send, at most a block more than what is waiting.
Room(s, e) == IF s > e THEN T - s + 1 + e ELSE e - s + 1

\* With n messages sent, and what is left, the announced count is reached ...
Reaches(n) ==
  \/ sent = MaxSent
  \/ total * S <= n * S + Room(stream_start_pos, stream_end_pos)

\* ... and n is not more than the way the start has come, in one piece or in two.
NotBeyond(n) ==
  record_start_pos < T /\ record_end_pos < T =>
    \/ /\ record_start_pos <= stream_start_pos
       /\ IF record_start_pos <= record_end_pos
          THEN stream_start_pos <= record_end_pos
          ELSE record_end_pos < stream_start_pos /\ stream_start_pos < T
       /\ n * S <= stream_start_pos - record_start_pos
    \/ /\ record_end_pos < record_start_pos
       /\ stream_start_pos <= record_end_pos
       /\ n * S <= T - 1 + S - record_start_pos + stream_start_pos

\* The last chunk is on its way.
LastOf(n) ==
  /\ sent = MaxSent \/ total <= n
  /\ record_start_pos < T /\ record_end_pos < T =>
       n <= total + (IF record_start_pos <= record_end_pos THEN 1 ELSE 2)

\* What an undisturbed loop knows.
Loop ==
  /\ rec = "off"
  /\ stream_end_pos = record_end_pos
  /\ total <= MaxSent
  /\ total * S <= Waiting(record_start_pos, record_end_pos)
  /\ Waiting(record_start_pos, record_end_pos) < total * S + S
  /\ aws = "test" => IF stream_onoff THEN Reaches(sent) /\ NotBeyond(sent) ELSE LastOf(sent)
  /\ aws = "load" => stream_onoff /\ (last <=> LessThanChunkLeft) /\ Reaches(sent) /\ NotBeyond(sent)
  /\ aws = "advance" => IF stream_onoff THEN ~LessThanChunkLeft /\ Reaches(sent) /\ NotBeyond(sent)
                        ELSE LastOf(sent + 1)
  /\ aws = "publish" => IF stream_onoff THEN Reaches(sent + 1) /\ NotBeyond(sent + 1)
                        ELSE LastOf(sent + 1)

\* A pair in one piece is no longer than the ring.
Fits == record_start_pos <= record_end_pos => record_end_pos - record_start_pos <= T

\* A stream that waits is the take that was handed over, unless it is empty.
HandedOver ==
  stream_onoff => \/ stream_start_pos = stream_end_pos
                  \/ /\ rec = "off" /\ Fits
                     /\ stream_start_pos = record_start_pos /\ stream_end_pos = record_end_pos

StreamInv ==
  /\ rec = "on" /\ record_end_pos > record_start_pos =>
       record_end_pos = record_start_pos + 1 \/ record_end_pos < T
  /\ rec = "stopping" => Fits
  /\ aws = "idle" => HandedOver
  /\ aws # "idle" /\ ~disturbed => Loop

LEMMA Times ==
  ASSUME NEW a \in Nat, NEW b \in Nat
  PROVE  /\ a * S \in Nat
         /\ (a + 1) * S = a * S + S
         /\ a * S < b * S + S => a <= b
         /\ a * S < b * S + S + S => a <= b + 1
<1> USE SizeAssumption
<1>1. a * S \in Nat /\ (a + 1) * S = a * S + S
  OBVIOUS
<1>2. ASSUME NEW d \in Nat, d * S < S PROVE d = 0
  BY <1>2
<1>3. ASSUME NEW c \in Nat, a * S < c * S + S PROVE a <= c
  <2>1. CASE a <= c
    BY <2>1
  <2>2. CASE a > c
    <3>1. PICK d \in Nat : a = c + 1 + d
      <4>1. a - c - 1 \in Nat /\ a = c + 1 + (a - c - 1)
        BY <2>2
      <4> QED BY <4>1
    <3>2. (c + 1 + d) * S = c * S + S + d * S /\ d * S \in Nat /\ c * S \in Nat
      OBVIOUS
    <3> QED BY <1>3, <3>1, <3>2
  <2> QED BY <2>1, <2>2
<1>4. b + 1 \in Nat /\ (b + 1) * S = b * S + S
  OBVIOUS
<1> QED BY <1>1, <1>3, <1>4

LEMMA Quotient ==
  ASSUME NEW w \in Nat
  PROVE  w \div S \in Nat /\ (w \div S) * S <= w /\ w < (w \div S) * S + S
  BY SizeAssumption

LEMMA StreamInit == Init => StreamInv
  BY DEF Init, StreamInv, HandedOver

LEMMA LoopBegins ==
  ASSUME TypeOK, StreamInv, StreamBegin
  PROVE  StreamInv'
<1> USE SizeAssumption
<1>1. /\ aws = "idle" /\ aws' = "test" /\ stream_onoff /\ stream_start_pos # stream_end_pos
      /\ UNCHANGED <<record_start_pos, record_end_pos, rec, stream_start_pos, stream_end_pos, stream_onoff>>
      /\ sent' = 0
  BY DEF StreamBegin, NumWaitForStream, recVars, streamVars
<1>2. /\ rec = "off" /\ Fits
      /\ stream_start_pos = record_start_pos /\ stream_end_pos = record_end_pos
  BY <1>1 DEF StreamInv, HandedOver
<1>3. PICK w \in Nat : /\ w = Waiting(record_start_pos, record_end_pos)
                       /\ w <= T /\ total' = w \div S
  <2>1. NumWaitForStream = Waiting(record_start_pos, record_end_pos)
    BY <1>1, <1>2 DEF NumWaitForStream, Waiting
  <2>2. NumWaitForStream \in Nat /\ NumWaitForStream <= T
    BY <1>2, <2>1 DEF StreamBegin, Waiting, Fits, TypeOK
  <2> QED BY <2>1, <2>2 DEF StreamBegin
<1>4. total' \in Nat /\ total' * S <= w /\ w < total' * S + S
  BY <1>3, Quotient
<1>5. total' <= MaxSent
  <2>1. T \div S \in Nat /\ T < (T \div S) * S + S
    BY Quotient
  <2>2. total' * S < (T \div S) * S + S
    BY <1>3, <1>4, <2>1
  <2>3. total' <= T \div S
    BY <1>4, <2>1, <2>2, Times
  <2> QED BY <1>4, <2>1, <2>3, BoundAssumption
<1>6. 0 * S = 0
  OBVIOUS
<1>7. Reaches(0)'
  <2>1. w <= Room(record_start_pos, record_end_pos)
    BY <1>3 DEF Room, Waiting, TypeOK
  <2>2. Room(record_start_pos, record_end_pos) \in Int
    BY DEF Room, TypeOK
  <2>3. total' * S <= 0 * S + Room(record_start_pos, record_end_pos)
    BY <1>3, <1>4, <1>6, <2>1, <2>2
  <2> QED BY <1>1, <1>2, <2>3 DEF Reaches
<1>8. NotBeyond(0)'
  BY <1>1, <1>2, <1>6 DEF NotBeyond, TypeOK
<1>9. Loop'
  BY <1>1, <1>2, <1>3, <1>4, <1>5, <1>7, <1>8 DEF Loop
<1> QED BY <1>1, <1>2, <1>9 DEF StreamInv

\* While the flag is set, not more is sent than was announced, or one more across the end.
LEMMA NotTooMany ==
  ASSUME TypeOK, Loop, NEW n \in Nat, NotBeyond(n), record_start_pos < T, record_end_pos < T
  PROVE  n <= total + (IF record_start_pos <= record_end_pos THEN 0 ELSE 1)
<1> USE SizeAssumption
<1>1. total \in Nat /\ total * S \in Nat /\ n * S \in Nat
  BY Times DEF TypeOK
<1>2. CASE record_start_pos <= record_end_pos
  <2>1. n * S < total * S + S
    BY <1>1, <1>2 DEF Loop, Waiting, NotBeyond, TypeOK
  <2>2. n <= total
    BY <1>1, <2>1, Times
  <2> QED BY <1>1, <1>2, <2>2
<1>3. CASE ~(record_start_pos <= record_end_pos)
  <2>1. n * S < total * S + S + S
    BY <1>1, <1>3 DEF Loop, Waiting, NotBeyond, TypeOK
  <2>2. n <= total + 1
    BY <1>1, <2>1, Times
  <2> QED BY <1>1, <1>3, <2>2
<1> QED BY <1>2, <1>3

\* The loop's last test: less than a chunk is left, and one more message is sent.
LEMMA LastTest ==
  ASSUME TypeOK, Loop, Reaches(sent), NotBeyond(sent), LessThanChunkLeft
  PROVE  LastOf(sent + 1)
<1> USE SizeAssumption
<1>1. /\ sent \in Nat /\ total \in Nat
      /\ total * S \in Nat /\ sent * S \in Nat
  BY Times, BoundAssumption DEF TypeOK
<1>2. sent = MaxSent \/ total <= sent + 1
  <2>1. CASE sent = MaxSent
    BY <2>1
  <2>2. CASE sent # MaxSent
    <3>1. total * S <= sent * S + S
      BY <1>1, <2>2 DEF Reaches, Room, LessThanChunkLeft, TypeOK
    <3>2. total * S < sent * S + S + S
      BY <1>1, <3>1
    <3> QED BY <1>1, <3>2, Times
  <2> QED BY <2>1, <2>2
<1>3. ASSUME record_start_pos < T, record_end_pos < T
      PROVE  sent + 1 <= total + (IF record_start_pos <= record_end_pos THEN 1 ELSE 2)
  <2>1. sent <= total + (IF record_start_pos <= record_end_pos THEN 0 ELSE 1)
    BY <1>1, <1>3, NotTooMany
  <2> QED BY <1>1, <2>1
<1> QED BY <1>2, <1>3 DEF LastOf

\* One chunk more has been sent, and the start has come a chunk further.
LEMMA AdvanceReaches ==
  ASSUME TypeOK, Reaches(sent), ~LessThanChunkLeft, StreamAdvance
  PROVE  Reaches(sent + 1)'
<1> USE SizeAssumption
<1>1. PICK n \in Nat : n = sent + 1 /\ n * S = sent * S + S
  BY Times, BoundAssumption DEF TypeOK
<1>2. UNCHANGED <<sent, total, stream_end_pos>> /\ total \in Nat /\ sent \in Nat
  BY BoundAssumption DEF StreamAdvance, recVars, TypeOK
<1>3. total * S \in Nat /\ sent * S \in Nat
  BY <1>2, Times
<1>4. Room(stream_start_pos', stream_end_pos') >= Room(stream_start_pos, stream_end_pos) - S
  BY <1>2 DEF StreamAdvance, Room, LessThanChunkLeft, TypeOK
<1>5. Room(stream_start_pos, stream_end_pos) \in Int /\ Room(stream_start_pos', stream_end_pos') \in Int
  BY <1>2 DEF StreamAdvance, Room, TypeOK
<1>6. sent = MaxSent \/ total * S <= n * S + Room(stream_start_pos', stream_end_pos')
  BY <1>1, <1>3, <1>4, <1>5 DEF Reaches
<1> QED BY <1>1, <1>2, <1>6 DEF Reaches

LEMMA AdvanceNotBeyond ==
  ASSUME TypeOK, stream_end_pos = record_end_pos, NotBeyond(sent), ~LessThanChunkLeft, StreamAdvance
  PROVE  NotBeyond(sent + 1)'
<1> USE SizeAssumption
<1>1. PICK n \in Nat : n = sent + 1 /\ n * S = sent * S + S
  BY Times, BoundAssumption DEF TypeOK
<1>2. /\ UNCHANGED <<sent, record_start_pos, record_end_pos>>
      /\ stream_start_pos' = IF stream_start_pos + S >= T THEN 0 ELSE stream_start_pos + S
      /\ sent * S \in Nat
  BY Times, BoundAssumption DEF StreamAdvance, recVars, TypeOK
<1>3. ASSUME record_start_pos < T, record_end_pos < T
      PROVE  \/ /\ record_start_pos <= stream_start_pos'
                /\ IF record_start_pos <= record_end_pos
                   THEN stream_start_pos' <= record_end_pos
                   ELSE record_end_pos < stream_start_pos' /\ stream_start_pos' < T
                /\ n * S <= stream_start_pos' - record_start_pos
             \/ /\ record_end_pos < record_start_pos
                /\ stream_start_pos' <= record_end_pos
                /\ n * S <= T - 1 + S - record_start_pos + stream_start_pos'
  <2>1. CASE record_start_pos <= record_end_pos
    <3>1. stream_start_pos' = stream_start_pos + S
      BY <1>2, <1>3, <2>1 DEF NotBeyond, LessThanChunkLeft, TypeOK
    <3> QED BY <1>1, <1>2, <1>3, <2>1, <3>1 DEF NotBeyond, LessThanChunkLeft, TypeOK
  <2>2. CASE record_end_pos < record_start_pos /\ stream_start_pos > record_end_pos
    <3>1. CASE stream_start_pos + S >= T
      BY <1>1, <1>2, <1>3, <2>2, <3>1 DEF NotBeyond, TypeOK
    <3>2. CASE stream_start_pos + S < T
      BY <1>1, <1>2, <1>3, <2>2, <3>2 DEF NotBeyond, TypeOK
    <3> QED BY <3>1, <3>2 DEF TypeOK
  <2>3. CASE record_end_pos < record_start_pos /\ stream_start_pos <= record_end_pos
    <3>1. stream_start_pos' = stream_start_pos + S
      BY <1>2, <1>3, <2>3 DEF NotBeyond, LessThanChunkLeft, TypeOK
    <3> QED BY <1>1, <1>2, <1>3, <2>3, <3>1 DEF NotBeyond, LessThanChunkLeft, TypeOK
  <2> QED BY <2>1, <2>2, <2>3 DEF TypeOK
<1> QED BY <1>1, <1>2, <1>3 DEF NotBeyond

\* The count saturates at MaxSent, which is not below what was announced.
LEMMA PublishKeeps ==
  ASSUME TypeOK, Loop, aws = "publish", StreamPublish
  PROVE  Loop'
<1> USE SizeAssumption
<1>1. /\ UNCHANGED <<rec, record_start_pos, record_end_pos, stream_start_pos, stream_end_pos, stream_onoff, total>>
      /\ aws' = "test"
      /\ sent' = IF sent < MaxSent THEN sent + 1 ELSE sent
  BY DEF StreamPublish, recVars, streamVars
<1>2. /\ sent \in Nat /\ MaxSent \in Nat /\ sent <= MaxSent /\ total \in Nat
      /\ sent * S \in Nat /\ (sent + 1) * S = sent * S + S
  BY Times, BoundAssumption DEF TypeOK
<1>3. CASE stream_onoff
  <2>1. Reaches(sent + 1) /\ NotBeyond(sent + 1)
    BY <1>3 DEF Loop
  <2>2. CASE sent < MaxSent
    <3>1. PICK n : n = sent + 1
      OBVIOUS
    <3>2. Reaches(n)'
      BY <1>1, <1>2, <2>1, <2>2, <3>1 DEF Reaches
    <3>3. NotBeyond(n)'
      BY <1>1, <2>1, <3>1 DEF NotBeyond
    <3>4. sent' = n
      BY <1>1, <2>2, <3>1
    <3>5. Reaches(sent)' /\ NotBeyond(sent)'
      BY <3>2, <3>3, <3>4
    <3> QED BY <1>1, <1>3, <3>5 DEF Loop
  <2>3. CASE sent = MaxSent
    <3>1. sent' = sent
      BY <1>1, <1>2, <2>3
    <3>2. Reaches(sent)'
      BY <2>3, <3>1 DEF Reaches
    <3>3. sent * S <= (sent + 1) * S
      BY <1>2
    <3>4. NotBeyond(sent)
      <4>1. PICK m \in Nat : m = (sent + 1) * S /\ sent * S <= m
        BY <1>2
      <4> QED BY <1>2, <2>1, <4>1 DEF NotBeyond, TypeOK
    <3>5. NotBeyond(sent)'
      BY <1>1, <3>1, <3>4 DEF NotBeyond
    <3> QED BY <1>1, <1>3, <3>2, <3>5 DEF Loop
  <2> QED BY <1>2, <2>2, <2>3
<1>4. CASE ~stream_onoff
  <2>1. LastOf(sent + 1)
    BY <1>4 DEF Loop
  <2>2. LastOf(sent)'
    BY <1>1, <1>2, <2>1 DEF LastOf
  <2> QED BY <1>1, <1>4, <2>2 DEF Loop
<1> QED BY <1>3, <1>4

LEMMA StreamStep ==
  ASSUME TypeOK, StreamInv, [Next]_vars
  PROVE  StreamInv'
<1> USE SizeAssumption
<1>1. CASE SoundStartRecord
  BY <1>1 DEF SoundStartRecord, awsVars, StreamInv, HandedOver
<1>2. CASE SoundStopRecord
  <2>1. /\ rec = "on" /\ rec' = "stopping" /\ UNCHANGED <<record_start_pos, streamVars, awsVars, disturbed>>
        /\ record_end_pos' = AlignedEnd(record_start_pos, record_end_pos)
    BY <1>2 DEF SoundStopRecord
  <2>2. Fits'
    <3>1. PICK r : r = record_end_pos % S
      OBVIOUS
    <3>2. r \in Nat /\ r <= record_end_pos
      BY <3>1, Remainder DEF TypeOK
    <3>3. record_end_pos' = IF record_end_pos - r # record_start_pos THEN record_end_pos - r
                            ELSE IF record_end_pos - r + 1 > T THEN 0 ELSE record_end_pos - r + 1
      BY <2>1, <3>1 DEF AlignedEnd
    <3> QED BY <2>1, <3>2, <3>3 DEF Fits, StreamInv, TypeOK
  <2> QED BY <2>1, <2>2 DEF StreamInv, HandedOver, Loop, streamVars, awsVars
<1>3. CASE SoundStopRecordStream
  BY <1>3 DEF SoundStopRecordStream, awsVars, StreamInv, HandedOver, Fits
<1>4. CASE PdmIntBuffer
  BY <1>4 DEF PdmIntBuffer, streamVars, awsVars, history, StreamInv, HandedOver, Loop
<1>5. CASE PdmIntStore
  <2>1. record_end_pos' = 0 \/ record_end_pos' < T
    BY <1>5 DEF PdmIntStore, TypeOK
  <2>2. rec = "on" /\ rec' = "on" /\ UNCHANGED <<streamVars, awsVars, disturbed>>
    BY <1>5 DEF PdmIntStore
  <2> QED BY <2>1, <2>2 DEF streamVars, awsVars, StreamInv, HandedOver, Loop
<1>6. CASE StreamBegin
  BY <1>6, LoopBegins
<1>7. CASE StreamEnd
  BY <1>7 DEF StreamEnd, recVars, streamVars, StreamInv, HandedOver, Fits
<1>8. CASE StreamTest
  <2>1. /\ aws = "test" /\ aws' = "load" /\ stream_onoff /\ last' = LessThanChunkLeft
        /\ UNCHANGED <<record_start_pos, record_end_pos, rec, stream_start_pos, stream_end_pos,
                       stream_onoff, total, sent, disturbed>>
    BY <1>8 DEF StreamTest, recVars, streamVars, history
  <2>2. ASSUME ~disturbed PROVE Loop'
    <3>1. Loop /\ Reaches(sent) /\ NotBeyond(sent)
      BY <2>1, <2>2 DEF StreamInv, Loop
    <3>2. Reaches(sent)' /\ NotBeyond(sent)'
      BY <2>1, <3>1 DEF Reaches, NotBeyond
    <3>3. (last <=> LessThanChunkLeft)'
      BY <2>1 DEF LessThanChunkLeft
    <3> QED BY <2>1, <3>1, <3>2, <3>3 DEF Loop
  <2> QED BY <2>1, <2>2 DEF StreamInv, Fits
<1>9. CASE StreamLoad
  <2>1. /\ aws = "load" /\ aws' = "advance" /\ stream_onoff' = (stream_onoff /\ ~last)
        /\ UNCHANGED <<record_start_pos, record_end_pos, rec, stream_start_pos, stream_end_pos,
                       total, sent, disturbed>>
    BY <1>9 DEF StreamLoad, recVars, history
  <2>2. ASSUME ~disturbed PROVE Loop'
    <3>1. Loop /\ stream_onoff /\ Reaches(sent) /\ NotBeyond(sent) /\ (last <=> LessThanChunkLeft)
      BY <2>1, <2>2 DEF StreamInv, Loop
    <3>2. Reaches(sent)' /\ NotBeyond(sent)'
      BY <2>1, <3>1 DEF Reaches, NotBeyond
    <3>3. CASE LessThanChunkLeft
      <4>1. LastOf(sent + 1) /\ ~stream_onoff'
        BY <2>1, <3>1, <3>3, LastTest
      <4>2. LastOf(sent + 1)'
        BY <2>1, <4>1 DEF LastOf
      <4> QED BY <2>1, <3>1, <4>1, <4>2 DEF Loop
    <3>4. CASE ~LessThanChunkLeft
      <4>1. stream_onoff' /\ ~LessThanChunkLeft'
        BY <2>1, <3>1, <3>4 DEF LessThanChunkLeft
      <4> QED BY <2>1, <3>1, <3>2, <4>1 DEF Loop
    <3> QED BY <3>3, <3>4
  <2> QED BY <2>1, <2>2 DEF StreamInv, Fits
<1>10. CASE StreamAdvance
  <2>1. /\ aws = "advance" /\ aws' = "publish"
        /\ UNCHANGED <<record_start_pos, record_end_pos, rec, stream_end_pos, stream_onoff, total, sent, disturbed>>
    BY <1>10 DEF StreamAdvance, recVars, history
  <2>2. ASSUME ~disturbed PROVE Loop'
    <3>1. Loop
      BY <2>1, <2>2 DEF StreamInv
    <3>2. CASE stream_onoff
      <4>1. ~LessThanChunkLeft /\ Reaches(sent) /\ NotBeyond(sent) /\ stream_end_pos = record_end_pos
        BY <2>1, <3>1, <3>2 DEF Loop
      <4>2. Reaches(sent + 1)' /\ NotBeyond(sent + 1)'
        BY <1>10, <4>1, AdvanceReaches, AdvanceNotBeyond
      <4> QED BY <2>1, <3>1, <3>2, <4>2 DEF Loop
    <3>3. CASE ~stream_onoff
      <4>1. LastOf(sent + 1)
        BY <2>1, <3>1, <3>3 DEF Loop
      <4>2. LastOf(sent + 1)'
        BY <2>1, <4>1 DEF LastOf
      <4> QED BY <2>1, <3>1, <3>3, <4>2 DEF Loop
    <3> QED BY <3>2, <3>3
  <2> QED BY <2>1, <2>2 DEF StreamInv, Fits
<1>11. CASE StreamPublish
  <2>1. /\ aws = "publish" /\ aws' = "test"
        /\ UNCHANGED <<record_start_pos, record_end_pos, rec, disturbed>>
    BY <1>11 DEF StreamPublish, recVars, history
  <2>2. ASSUME ~disturbed PROVE Loop'
    BY <1>11, <2>1, <2>2, PublishKeeps DEF StreamInv
  <2> QED BY <2>1, <2>2 DEF StreamInv, Fits
<1>12. CASE Restart
  BY <1>12 DEF Restart, StreamInv, HandedOver
<1>13. CASE UNCHANGED vars
  <2>1. UNCHANGED <<record_start_pos, record_end_pos, rec, stream_start_pos, stream_end_pos,
                    stream_onoff, aws, last, total, sent, disturbed>>
    BY <1>13 DEF vars, recVars, streamVars, awsVars, history
  <2>2. /\ Reaches(sent)' <=> Reaches(sent)
        /\ NotBeyond(sent)' <=> NotBeyond(sent)
        /\ Reaches(sent + 1)' <=> Reaches(sent + 1)
        /\ NotBeyond(sent + 1)' <=> NotBeyond(sent + 1)
        /\ LastOf(sent)' <=> LastOf(sent)
        /\ LastOf(sent + 1)' <=> LastOf(sent + 1)
        /\ LessThanChunkLeft' <=> LessThanChunkLeft
    BY <2>1 DEF Reaches, NotBeyond, LastOf, LessThanChunkLeft
  <2>3. Loop => Loop'
    BY <2>1, <2>2 DEF Loop
  <2> QED BY <2>1, <2>3 DEF StreamInv, HandedOver, Fits
<1> QED BY <1>1, <1>2, <1>3, <1>4, <1>5, <1>6, <1>7, <1>8, <1>9, <1>10, <1>11, <1>12, <1>13
    DEF Next, Main, Pdm, Aws

\* A streaming loop that nobody disturbs sends at least the number of messages it announced
\* and at most one or two more (sound.cpp 880-930, awsiot.cpp 366-387), for any chunk and any
\* ring that holds one.
THEOREM Announced == Spec => []StreamedAsAnnounced
<1>1. TypeOK /\ StreamInv => StreamedAsAnnounced
  <2> SUFFICES ASSUME TypeOK, StreamInv, ~disturbed, aws # "idle"
               PROVE  /\ aws = "test" /\ ~stream_onoff => sent >= total
                      /\ record_start_pos < T /\ record_end_pos < T =>
                           sent <= total + (IF record_start_pos <= record_end_pos THEN 1 ELSE 2)
    BY DEF StreamedAsAnnounced, StreamComplete, StreamOvershoot
  <2>1. Loop /\ sent \in Nat /\ sent + 1 \in Nat /\ total \in Nat /\ sent <= MaxSent
    BY BoundAssumption DEF StreamInv, TypeOK
  <2>2. aws = "test" /\ ~stream_onoff => sent >= total
    BY <2>1, BoundAssumption DEF Loop, LastOf
  <2>3. ASSUME record_start_pos < T, record_end_pos < T
        PROVE  sent <= total + (IF record_start_pos <= record_end_pos THEN 1 ELSE 2)
    <3>1. NotBeyond(sent) \/ NotBeyond(sent + 1) \/ LastOf(sent) \/ LastOf(sent + 1)
      BY <2>1 DEF Loop, TypeOK
    <3>2. CASE NotBeyond(sent)
      BY <2>1, <2>3, <3>2, NotTooMany
    <3>3. CASE NotBeyond(sent + 1)
      <4>1. sent + 1 <= total + (IF record_start_pos <= record_end_pos THEN 0 ELSE 1)
        BY <2>1, <2>3, <3>3, NotTooMany
      <4> QED BY <2>1, <4>1
    <3>4. CASE LastOf(sent) \/ LastOf(sent + 1)
      BY <2>1, <2>3, <3>4 DEF LastOf
    <3> QED BY <3>1, <3>2, <3>3, <3>4
  <2> QED BY <2>2, <2>3
<1> QED BY <1>1, TypeCorrect, StreamInit, StreamStep, PTL DEF Spec

\* Fewer than n blocks lie between two positions that are less than n apart.
LEMMA FewBlocks ==
  ASSUME NEW s \in Nat, NEW e \in Nat, NEW B, B \subseteq Blocks, \A b \in B : s <= b /\ b < e
  PROVE  IsFiniteSet(B) /\ Cardinality(B) \in Nat /\ (s <= e => Cardinality(B) <= e - s)
<1>1. IsFiniteSet(s .. e - 1) /\ Cardinality(s .. e - 1) = IF s > e - 1 THEN 0 ELSE (e - 1) - s + 1
  BY FS_Interval
<1>2. B \subseteq s .. e - 1
  BY DEF Blocks
<1>3. IsFiniteSet(B) /\ Cardinality(B) <= Cardinality(s .. e - 1)
  BY <1>1, <1>2, FS_Subset
<1>4. Cardinality(B) \in Nat
  BY <1>3, FS_CardinalityType
<1> QED BY <1>1, <1>3, <1>4

\* The flag of a waiting stream is cleared only when less than a chunk of it is left
\* (sound.cpp 907), unless a take began or ended since the loop began.
THEOREM StreamsWorked == Spec => WaitingStreamWorked
<1>1. ASSUME TypeOK, StreamInv, [Next]_vars,
             aws = "load", stream_onoff, ~stream_onoff', aws' = "advance", ~disturbed
      PROVE  Cardinality(RingBlocks(stream_start_pos, stream_end_pos)) < S
  <2>1. Loop /\ last
    <3>1. StreamLoad
      BY <1>1 DEF Next, Main, Pdm, Aws, SoundStartRecord, SoundStopRecord, SoundStopRecordStream,
                  PdmIntBuffer, PdmIntStore, StreamBegin, StreamEnd, StreamTest, StreamAdvance,
                  StreamPublish, Restart, vars, awsVars
    <3> QED BY <1>1, <3>1 DEF StreamLoad, StreamInv
  <2>2. LessThanChunkLeft
    BY <1>1, <2>1 DEF Loop
  <2>3. PICK B : B = RingBlocks(stream_start_pos, stream_end_pos)
    OBVIOUS
  <2>4. B \subseteq Blocks /\ \A b \in B : stream_start_pos <= b /\ b < stream_end_pos
    BY <2>2, <2>3 DEF RingBlocks, LessThanChunkLeft, Blocks
  <2>5. stream_start_pos \in Nat /\ stream_end_pos \in Nat
    BY <1>1 DEF TypeOK
  <2>6. Cardinality(B) \in Nat /\ Cardinality(B) <= stream_end_pos - stream_start_pos
    BY <2>2, <2>4, <2>5, FewBlocks DEF LessThanChunkLeft
  <2> QED BY <2>2, <2>3, <2>5, <2>6, SizeAssumption DEF LessThanChunkLeft
<1>2. TypeOK /\ StreamInv /\ [Next]_vars =>
        [aws = "load" /\ stream_onoff /\ ~stream_onoff' /\ aws' = "advance"
           => disturbed \/ Cardinality(RingBlocks(stream_start_pos, stream_end_pos)) < S]_vars
  BY <1>1
<1> QED BY <1>2, TypeCorrect, StreamInit, StreamStep, PTL DEF Spec, WaitingStreamWorked

----------------------------------------------------------------------------
(* What a new take does to the saved one *)

\* A new take begins behind the saved one, until it has filled the ring.
SavedInv ==
  \/ status.start = status.end
  \/ IF rec = "on" THEN fresh = Blocks \/ record_start_pos = FirstPos(status.end)
                   ELSE record_end_pos = status.end

\* A take that passes its own start has filled the ring.
LEMMA CrossFills ==
  ASSUME TypeOK, Recording, PdmIntStore, record_start_pos' # record_start_pos
  PROVE  fresh' = Blocks
<1>1. record_end_pos <= record_start_pos /\ record_end_pos + S > record_start_pos
  BY DEF PdmIntStore
<1>2. ASSUME NEW b \in Blocks, b \notin fresh PROVE b \in Stored(record_end_pos)
  <2>1. record_end_pos <= b /\ b <= record_start_pos
    BY <1>1, <1>2 DEF Recording, TypeOK, Blocks
  <2> QED BY <1>1, <2>1, SizeAssumption DEF Stored, Blocks, TypeOK
<1>3. fresh' \subseteq Blocks /\ fresh' = fresh \cup Stored(record_end_pos)
  BY DEF PdmIntStore, Stored, TypeOK
<1> QED BY <1>2, <1>3

LEMMA SavedStep ==
  ASSUME TypeOK, FreshInv, SavedInv, [Next]_vars
  PROVE  SavedInv'
<1>1. CASE SoundStartRecord
  BY <1>1 DEF SoundStartRecord, SavedInv
<1>2. CASE SoundStopRecord
  BY <1>2 DEF SoundStopRecord, SavedInv
<1>3. CASE SoundStopRecordStream
  BY <1>3 DEF SoundStopRecordStream, SavedInv
<1>4. CASE PdmIntBuffer
  BY <1>4 DEF PdmIntBuffer, history, SavedInv
<1>5. CASE PdmIntStore
  <2>1. rec = "on" /\ rec' = "on" /\ status' = status /\ fresh' = fresh \cup Stored(record_end_pos)
        /\ Recording
    BY <1>5 DEF PdmIntStore, FreshInv
  <2>2. CASE record_start_pos' # record_start_pos
    BY <1>5, <2>1, <2>2, CrossFills DEF SavedInv
  <2>3. CASE record_start_pos' = record_start_pos
    <3>1. fresh = Blocks => fresh' = Blocks
      BY <2>1 DEF Stored
    <3> QED BY <2>1, <2>3, <3>1 DEF SavedInv
  <2> QED BY <2>2, <2>3
<1>6. CASE Aws
  BY <1>6 DEF Aws, StreamBegin, StreamEnd, StreamTest, StreamLoad, StreamAdvance,
              StreamPublish, recVars, history, SavedInv
<1>7. CASE Restart
  BY <1>7 DEF Restart, Restored, SavedInv
<1>8. CASE UNCHANGED vars
  BY <1>8 DEF vars, recVars, history, SavedInv
<1> QED BY <1>1, <1>2, <1>3, <1>4, <1>5, <1>6, <1>7, <1>8 DEF Next, Main, Pdm

\* All blocks but some that lie within e - s of one another.
LEMMA Missing ==
  ASSUME NEW A, A \subseteq Blocks, NEW s \in Nat, NEW e \in Nat, s <= e,
         \A b \in Blocks : b \notin A => s <= b /\ b < e
  PROVE  IsFiniteSet(A) /\ Cardinality(A) \in Nat /\ Cardinality(A) + (e - s) >= T
<1>1. IsFiniteSet(Blocks) /\ Cardinality(Blocks) = T
  BY FS_Interval, SizeAssumption DEF Blocks
<1>2. IsFiniteSet(A) /\ Cardinality(A) \in Nat
  BY <1>1, FS_Subset, FS_CardinalityType
<1>3. PICK U : U = Blocks \ A
  OBVIOUS
<1>4. U \subseteq Blocks /\ \A b \in U : s <= b /\ b < e
  BY <1>3
<1>5. IsFiniteSet(U) /\ Cardinality(U) \in Nat /\ Cardinality(U) <= e - s
  BY <1>4, FewBlocks
<1>6. Blocks \cap A = A
  OBVIOUS
<1>7. Cardinality(U) = T - Cardinality(A)
  BY <1>1, <1>2, <1>3, <1>6, FS_Difference
<1> QED BY <1>2, <1>5, <1>7, SizeAssumption

\* Two sets of blocks that meet, and all the other blocks within e - s of one another.
LEMMA Covered ==
  ASSUME NEW A, NEW B, A \subseteq Blocks, B \subseteq Blocks, A \cap B # {},
         NEW s \in Nat, NEW e \in Nat, s <= e,
         \A x \in Blocks : x \notin A /\ x \notin B => s <= x /\ x < e
  PROVE  /\ Cardinality(A) \in Nat /\ Cardinality(B) \in Nat
         /\ Cardinality(A) + Cardinality(B) + (e - s) >= T + 1
<1>1. IsFiniteSet(A) /\ IsFiniteSet(B)
  <2>1. IsFiniteSet(Blocks)
    BY FS_Interval, SizeAssumption DEF Blocks
  <2> QED BY <2>1, FS_Subset
<1>2. /\ Cardinality(A \cup B) = Cardinality(A) + Cardinality(B) - Cardinality(A \cap B)
      /\ IsFiniteSet(A \cap B)
  BY <1>1, FS_Union, FS_Intersection
<1>3. PICK a \in Nat, b \in Nat, i \in Nat :
        a = Cardinality(A) /\ b = Cardinality(B) /\ i = Cardinality(A \cap B)
  BY <1>1, <1>2, FS_CardinalityType
<1>4. i # 0
  BY <1>2, <1>3, FS_EmptySet
<1>5. Cardinality(A \cup B) + (e - s) >= T
  <2>1. A \cup B \subseteq Blocks /\ \A x \in Blocks : x \notin A \cup B => s <= x /\ x < e
    OBVIOUS
  <2> QED BY <2>1, Missing
<1>6. a + b - i + (e - s) >= T
  BY <1>2, <1>3, <1>5
<1>7. a + b + (e - s) >= T + 1
  BY <1>4, <1>6, SizeAssumption
<1> QED BY <1>3, <1>7

LEMMA FirstPosBound ==
  ASSUME NEW n \in Nat
  PROVE  FirstPos(n) \in Nat /\ n < FirstPos(n) /\ FirstPos(n) <= n + 2 * S
<1>1. PICK r \in 0 .. S - 1 : r = (n + 1) % S
  BY Remainder
<1> QED BY <1>1, SizeAssumption DEF FirstPos

\* A chunk that hits the saved take closes the ring, but for the two chunks between them.
LEMMA HitCovers ==
  ASSUME TypeOK, rec = "on", Recording, PdmIntStore, record_start_pos = FirstPos(status.end),
         NEW b \in Take(status.start, status.end), b \in Stored(record_end_pos)
  PROVE  Cardinality(fresh') + Cardinality(Take(status.start, status.end)) + 2 * S >= T
<1> USE SizeAssumption
<1>1. PICK ss \in Nat, se \in Nat : ss = status.start /\ se = status.end
  BY DEF TypeOK
<1>2. PICK A, B : A = fresh' /\ B = Take(ss, se)
  OBVIOUS
<1>3. A \subseteq Blocks /\ B \subseteq Blocks /\ A \cap B # {}
  BY <1>1, <1>2 DEF PdmIntStore, Stored, Take, RingBlocks, TypeOK
<1>4. record_start_pos \in Nat /\ se < record_start_pos /\ record_start_pos <= se + 2 * S
  BY <1>1, FirstPosBound
<1>5. b \in Blocks /\ record_end_pos <= b /\ b < record_end_pos + S /\ record_end_pos \in Blocks
  BY DEF Stored
<1>6. A = fresh \cup {x \in Blocks : record_end_pos <= x /\ x < record_end_pos + S}
  BY <1>2, <1>5 DEF PdmIntStore, Stored
<1>7. ASSUME NEW x \in Blocks, x \notin A, x \notin B PROVE se <= x /\ x < record_start_pos + 1
  <2>1. x \notin fresh /\ ~(record_end_pos <= x /\ x < record_end_pos + S)
    BY <1>6, <1>7
  <2>2. IF ss <= se THEN ~(ss < x /\ x < se) ELSE ~(ss < x \/ x < se)
    BY <1>2, <1>7 DEF Take, RingBlocks, Blocks
  <2>3. IF ss <= se THEN ss < b /\ b < se ELSE ss < b \/ b < se
    BY <1>1 DEF Take, RingBlocks, Blocks
  <2>4. CASE record_end_pos > record_start_pos
    BY <1>4, <1>5, <2>1, <2>2, <2>3, <2>4 DEF Recording, TypeOK, Blocks
  <2>5. CASE record_end_pos <= record_start_pos
    BY <1>4, <1>5, <2>1, <2>2, <2>3, <2>5 DEF Recording, TypeOK, Blocks
  <2> QED BY <2>4, <2>5 DEF TypeOK
<1>8. PICK e \in Nat : e = record_start_pos + 1 /\ se <= e
  BY <1>4
<1>9. \A x \in Blocks : x \notin A /\ x \notin B => se <= x /\ x < e
  BY <1>7, <1>8
<1>10. /\ Cardinality(A) \in Nat /\ Cardinality(B) \in Nat
       /\ Cardinality(A) + Cardinality(B) + (e - se) >= T + 1
  BY <1>3, <1>8, <1>9, Covered
<1>11. Cardinality(A) + Cardinality(B) + 2 * S >= T
  BY <1>4, <1>8, <1>10
<1> QED BY <1>1, <1>2, <1>11

\* A take that stored nothing and is saved again under the same pair is empty, or its pair
\* says the whole ring but a chunk.
LEMMA EmptyStop ==
  ASSUME TypeOK, Recording, SoundStopRecord, fresh = {},
         Take(status'.start, status'.end) # {}
  PROVE  Cardinality(Take(status'.start, status'.end)) + S >= T
<1> USE SizeAssumption
<1>1. PICK r \in Nat, s \in Nat, end \in Nat, e \in Int :
        /\ s = record_start_pos /\ end = record_end_pos /\ r = record_end_pos % S
        /\ r <= S - 1 /\ r <= end /\ e = end - r
  <2>1. record_end_pos % S \in 0 .. S - 1 /\ record_end_pos % S <= record_end_pos
    BY Remainder DEF TypeOK
  <2>2. PICK r : r = record_end_pos % S
    OBVIOUS
  <2>3. r \in Nat /\ r <= S - 1 /\ r <= record_end_pos /\ record_end_pos - r \in Int
    BY <2>1, <2>2 DEF TypeOK
  <2> QED BY <2>2, <2>3 DEF TypeOK
<1>2. PICK n : n = IF e # s THEN e ELSE IF e + 1 > T THEN 0 ELSE e + 1
  OBVIOUS
<1>3. status'.start = s /\ status'.end = n
  BY <1>1, <1>2 DEF SoundStopRecord, AlignedEnd
<1>4. PICK A : A = Take(s, n)
  OBVIOUS
<1>5. A = IF s <= n THEN {b \in Blocks : s < b /\ b < n} ELSE {b \in Blocks : s < b \/ b < n}
  BY <1>1, <1>2, <1>4 DEF Take, RingBlocks, Blocks
<1>6. PICK x \in Blocks : x \in A
  BY <1>3, <1>4, <1>5
<1>7. end = s + 1
  <2>1. CASE record_end_pos > record_start_pos
    BY <1>1, <2>1 DEF Recording
  <2>2. CASE record_end_pos <= record_start_pos
    <3>1. ~(s < x) /\ ~(x < end)
      <4>1. {b \in Blocks : record_start_pos < b \/ b < record_end_pos} \subseteq {}
        BY <2>2 DEF Recording, TypeOK
      <4> QED BY <1>1, <1>6, <4>1
    <3>2. end <= s
      BY <1>1, <2>2
    <3> QED BY <1>1, <1>2, <1>5, <1>6, <3>1, <3>2 DEF Blocks
  <2> QED BY <2>1, <2>2 DEF TypeOK
<1>8. n < s /\ s - n < S
  BY <1>1, <1>2, <1>5, <1>6, <1>7 DEF Blocks
<1>9. n \in Nat
  BY <1>1, <1>2
<1>10. \A b \in Blocks : b \notin A => n <= b /\ b < s + 1
  BY <1>1, <1>5, <1>8, <1>9 DEF Blocks
<1>11. A \subseteq Blocks
  BY <1>5
<1>12. Cardinality(A) \in Nat /\ Cardinality(A) + (s + 1 - n) >= T
  BY <1>8, <1>9, <1>10, <1>11, Missing
<1> QED BY <1>3, <1>4, <1>8, <1>9, <1>12

\* The take whose pair is in FRAM is damaged by a later recording only when that recording
\* has filled the rest of the ring, give or take two chunks (sound.cpp, sound_start_record),
\* for any chunk and any ring that holds one.
THEOREM SavedSurvives == Spec => SavedTakeSurvives
<1>1. ASSUME FreshInv, FreshInv', SavedInv, [Next]_vars, SavedIntact, ~SavedIntact', status' = status
      PROVE  Cardinality(fresh') + Cardinality(Take(status.start, status.end)) + 2 * S >= T
  <2> USE SizeAssumption
  <2>1. TypeOK
    BY <1>1 DEF FreshInv
  <2>2. PICK b \in Take(status.start, status.end) : b \in kept /\ b \notin kept'
    BY <1>1 DEF SavedIntact
  <2>3. status.start # status.end
    <3>1. \A n \in Nat : Take(n, n) = {}
      BY DEF Take, RingBlocks, Blocks
    <3>2. status.start \in Nat
      BY <2>1 DEF TypeOK
    <3> QED BY <2>2, <3>1, <3>2
  <2>4. /\ IsFiniteSet(Blocks) /\ Cardinality(Blocks) = T
        /\ Take(status.start, status.end) \subseteq Blocks /\ fresh' \subseteq Blocks
    <3>1. IsFiniteSet(Blocks) /\ Cardinality(Blocks) = T
      BY FS_Interval DEF Blocks
    <3>2. Take(status.start, status.end) \subseteq Blocks /\ fresh' \subseteq Blocks
      BY <1>1 DEF Take, RingBlocks, FreshInv, TypeOK
    <3> QED BY <3>1, <3>2
  <2>5. Cardinality(fresh') \in Nat /\ Cardinality(Take(status.start, status.end)) \in Nat
    BY <2>4, FS_Subset, FS_CardinalityType
  <2>6. CASE PdmIntStore
    <3>1. b \in Stored(record_end_pos) /\ rec = "on" /\ Recording
      BY <1>1, <2>2, <2>6 DEF PdmIntStore, FreshInv
    <3>2. CASE fresh = Blocks
      <4>1. fresh' = Blocks
        BY <2>6, <3>2 DEF PdmIntStore, Stored
      <4> QED BY <2>4, <2>5, <4>1
    <3>3. CASE record_start_pos = FirstPos(status.end)
      BY <2>1, <2>2, <2>6, <3>1, <3>3, HitCovers
    <3> QED BY <1>1, <2>3, <3>1, <3>2, <3>3 DEF SavedInv
  <2>7. CASE SoundStopRecord
    <3>1. /\ rec = "on" /\ kept' = fresh /\ fresh' = fresh /\ Recording
          /\ status'.start = record_start_pos' /\ status'.end = record_end_pos'
      BY <1>1, <2>7 DEF SoundStopRecord, FreshInv
    <3>2. fresh = {}
      BY <1>1, <2>2, <3>1 DEF FreshInv, TakeIsFresh
    <3>3. Cardinality(Take(status'.start, status'.end)) + S >= T
      BY <1>1, <2>1, <2>2, <2>7, <3>1, <3>2, EmptyStop
    <3> QED BY <1>1, <2>5, <3>3
  <2>8. CASE ~PdmIntStore /\ ~SoundStopRecord
    <3>1. kept' = kept
      BY <1>1, <2>8 DEF Next, Main, Pdm, Aws, SoundStartRecord, SoundStopRecordStream, PdmIntBuffer,
                        StreamBegin, StreamEnd, StreamTest, StreamLoad, StreamAdvance, StreamPublish,
                        Restart, vars, history
    <3> QED BY <2>2, <3>1
  <2> QED BY <2>6, <2>7, <2>8
<1>2. FreshInv /\ FreshInv' /\ SavedInv /\ [Next]_vars =>
        [SavedIntact /\ ~SavedIntact' /\ status' = status
           => Cardinality(fresh') + Cardinality(Take(status.start, status.end)) + 2 * S >= T]_vars
  BY <1>1
<1>3. Init => SavedInv
  BY DEF Init, SavedInv
<1>4. Spec => []FreshInv
  BY FreshInit, FreshStep, TypeCorrect, PTL DEF Spec
<1>5. FreshInv => TypeOK
  BY DEF FreshInv
<1> QED BY <1>2, <1>3, <1>4, <1>5, SavedStep, PTL DEF Spec, SavedTakeSurvives
============================================================================
