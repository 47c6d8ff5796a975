---------------------------- MODULE ClipAssembly ----------------------------
(***************************************************************************)
(* lambda.py: lambda_handler takes the chunks of voice messages from a      *)
(* Kinesis stream, keeps the clip under assembly in three S3 objects (the    *)
(* key of the clip, its index of time stamps, the clip itself), and when the *)
(* clip has the announced number of chunks makes it a WAV file, has it       *)
(* transcribed and sends the text back.                                     *)
(*                                                                         *)
(* External, modelled from how the handler uses it: the way from the device *)
(* to Kinesis loses, reorders and duplicates chunks; one invocation at a     *)
(* time handles a batch of records, and a batch whose invocation fails or    *)
(* times out is given to the handler again from its first record.           *)
(***************************************************************************)
EXTENDS Integers, SequencesExt

CONSTANTS
  Stamps,      \* [takes -> sequence of the time stamps of its chunks], in send order
  Announced,   \* [takes -> Nat], total_num in every chunk of the take
  Gap,         \* 2500 ms: a later stamp begins a new clip
  Second,      \* a second, the resolution of the clip's key
  MaxBatch,    \* bound: records in a batch
  Tolerated    \* bound: [Faults -> Nat], how often each fault may happen

Faults == {"duplicate", "overtaken", "odd", "retry"}
Takes == DOMAIN Stamps

ASSUME TakesAssumption ==
  /\ \A k \in Takes : k \in Nat \ {0} /\ Stamps[k] \in Seq(Nat)
  /\ Announced \in [Takes -> Nat]
ASSUME TimeAssumption == Gap \in Nat /\ Second \in Nat \ {0} /\ Second <= Gap + 1
ASSUME BoundAssumption == MaxBatch \in Nat \ {0} /\ Tolerated \in [Faults -> Nat]

VARIABLES
  flight,      \* external: chunks on their way
  batch,       \* external: the records Kinesis hands to the invocation
  latest,      \* history: the latest take a record came of
  faults,      \* history: how often each fault happened
  torn,        \* history: an invocation that had put the key of a new clip and not yet its
               \* index was repeated from an earlier record, a chunk of the clip before
  pos,         \* the record of the batch the handler is at
  pc,          \* where in the handling of that record
  key, soundclip_index, soundclip,    \* the handler's own copies
  last_key, s3_index, s3_clip,        \* the S3 objects
  jobs,        \* external: keys of the transcription jobs ever started
  sent         \* keys whose text was sent to the things' transcript topic

external == <<flight, batch, latest, faults, torn>>
locals == <<key, soundclip_index, soundclip>>
s3 == <<last_key, s3_index, s3_clip>>
vars == <<external, pos, pc, locals, s3, jobs, sent>>

Chunks == UNION {{[take |-> k, num |-> i] : i \in DOMAIN Stamps[k]} : k \in Takes}
Odd == [take |-> 0, num |-> 0]     \* a record of another size than SAMPLE_SIZE
Stamp(c) == Stamps[c.take][c.num]
AllStamps == {Stamp(c) : c \in Chunks}

\* The key of a clip: its first time stamp, formatted to the second.
NoKey == -1
KeyOf(stamp) == stamp \div Second
Keys == {KeyOf(x) : x \in AllStamps}

\* A clip: its chunks, whether the WAV header is in it, and whether a chunk was put
\* in behind that header, 44 bytes before the place meant.
Clips == [blocks : Seq(Chunks), wav : BOOLEAN, cut : BOOLEAN]
Clip(b, w, c) == [blocks |-> b, wav |-> w, cut |-> c]
NoClip == Clip(<<>>, FALSE, FALSE)

TypeOK ==
  /\ flight \subseteq Chunks
  /\ batch \in Seq(Chunks \cup {Odd}) /\ Len(batch) <= MaxBatch
  /\ latest \in Takes \cup {0}
  /\ faults \in [Faults -> Nat] /\ torn \in BOOLEAN
  /\ pos \in 1 .. MaxBatch /\ (pc = "idle" => pos = 1)
  /\ pc \in {"idle", "record", "put_key", "put_index", "put_clip", "put_wav",
             "start_job", "wait", "send"}
  /\ key \in Keys \cup {NoKey} /\ last_key \in Keys \cup {NoKey}
  /\ soundclip_index \in Seq(AllStamps) /\ s3_index \in Seq(AllStamps)
  /\ soundclip \in Clips /\ s3_clip \in [Keys -> Clips]
  /\ jobs \subseteq Keys /\ sent \subseteq jobs

Init ==
  /\ flight = Chunks /\ batch = <<>> /\ latest = 0
  /\ faults = [f \in Faults |-> 0] /\ torn = FALSE
  /\ pos = 1 /\ pc = "idle"
  /\ key = NoKey /\ soundclip_index = <<>> /\ soundclip = NoClip
  /\ last_key = NoKey /\ s3_index = <<>> /\ s3_clip = [k \in Keys |-> NoClip]
  /\ jobs = {} /\ sent = {}

----------------------------------------------------------------------------
(* From the device to the invocation (external) *)

Fault(f) == faults[f] < Tolerated[f] /\ faults' = [faults EXCEPT ![f] = @ + 1]

Collecting == pc = "idle" /\ Len(batch) < MaxBatch

\* A chunk reaches the batch, overtaking what it may of its own take; one that is
\* lost stays in flight, for nothing obliges a chunk to arrive ...
Arrive(c) ==
  /\ Collecting /\ c \in flight
  /\ IF c.take < latest THEN Fault("overtaken") ELSE UNCHANGED faults
  /\ flight' = flight \ {c}
  /\ batch' = Append(batch, c)
  /\ latest' = IF c.take > latest THEN c.take ELSE latest
  /\ UNCHANGED <<torn, pos, pc, locals, s3, jobs, sent>>

\* ... or once more than it was sent.
ArriveTwice(c) ==
  /\ Collecting /\ c \in flight /\ c.take >= latest
  /\ Fault("duplicate")
  /\ batch' = Append(batch, c)
  /\ latest' = c.take
  /\ UNCHANGED <<flight, torn, pos, pc, locals, s3, jobs, sent>>

ArriveOdd ==
  /\ Collecting
  /\ Fault("odd")
  /\ batch' = Append(batch, Odd)
  /\ UNCHANGED <<flight, latest, torn, pos, pc, locals, s3, jobs, sent>>

Invoke ==
  /\ pc = "idle" /\ batch # <<>>
  /\ pc' = "record"
  /\ UNCHANGED <<external, pos, locals, s3, jobs, sent>>

\* The invocation fails or times out: the batch again, the locals are gone.
Retry ==
  /\ pc # "idle"
  /\ Fault("retry")
  /\ pos' = 1 /\ pc' = "record"
  /\ key' = NoKey /\ soundclip_index' = <<>> /\ soundclip' = NoClip
  /\ torn' = (torn \/ (pc = "put_index" /\ Len(soundclip_index) = 1 /\ pos > 1))
  /\ UNCHANGED <<flight, batch, latest, s3, jobs, sent>>

----------------------------------------------------------------------------
(* lambda_handler, one record *)

\* The end of the loop's body, or of the loop.
NextRecord ==
  /\ key' = NoKey /\ soundclip_index' = <<>> /\ soundclip' = NoClip
  /\ IF pos < Len(batch) THEN pos' = pos + 1 /\ pc' = "record" /\ UNCHANGED batch
                         ELSE pos' = 1 /\ pc' = "idle" /\ batch' = <<>>

Dismiss == NextRecord /\ UNCHANGED <<flight, latest, faults, torn, s3, jobs, sent>>

\* A slip of Place: behind the first one that is not greater.
PlaceFirst(index, stamp) ==
  IF \E i \in DOMAIN index : index[i] <= stamp
  THEN CHOOSE i \in DOMAIN index :
         index[i] <= stamp /\ \A j \in DOMAIN index : j < i => index[j] > stamp
  ELSE 0

\* The place of a stamp: behind the last one that is not greater.
Place(index, stamp) ==
  IF \E i \in DOMAIN index : index[i] <= stamp
  THEN CHOOSE i \in DOMAIN index :
         index[i] <= stamp /\ \A j \in DOMAIN index : j > i => index[j] > stamp
  ELSE 0

InsertIndex(index, stamp) == InsertAt(index, Place(index, stamp) + 1, stamp)

\* A slip of TooLong: a whole-number length, without the header.
TooLongWhole(clip, total_num) == total_num < Len(clip.blocks)

\* total_num < length, where the header makes the length more than its chunks.
TooLong(clip, total_num) ==
  total_num < Len(clip.blocks) \/ (total_num = Len(clip.blocks) /\ clip.wav)

\* A slip of InsertClip: the chunk is added at the end.
AppendClip(clip, p, c) ==
  Clip(Append(clip.blocks, c), clip.wav, clip.cut \/ clip.wav)

\* The slice assignment puts a chunk beyond the end of the clip at its end.
InsertClip(clip, p, c) ==
  LET q == IF p < Len(clip.blocks) THEN p ELSE Len(clip.blocks)
  IN Clip(InsertAt(clip.blocks, q + 1, c), clip.wav, clip.cut \/ clip.wav)

\* A slip of NewClip: no gap begins a new clip.
NeverNewClip(stamp) == FALSE

\* What a record of this stamp goes on with: the stored clip, or a new one.
NewClip(stamp) == s3_index # <<>> /\ stamp - Last(s3_index) > Gap
Current(stamp) ==
  IF NewClip(stamp) THEN [key |-> NoKey, index |-> <<>>, clip |-> NoClip]
  ELSE [key |-> last_key, index |-> s3_index,
        clip |-> IF last_key = NoKey THEN NoClip ELSE s3_clip[last_key]]

\* The break on a size mismatch leaves the rest of the batch.
RecordMismatch ==
  /\ pc = "record" /\ batch[pos] = Odd
  /\ key' = NoKey /\ soundclip_index' = <<>> /\ soundclip' = NoClip
  /\ pos' = 1 /\ pc' = "idle" /\ batch' = <<>>
  /\ UNCHANGED <<flight, latest, faults, torn, s3, jobs, sent>>

RecordDismissed ==
  /\ pc = "record" /\ batch[pos] # Odd
  /\ TooLong(Current(Stamp(batch[pos])).clip, Announced[batch[pos].take])
  /\ Dismiss

RecordInserted ==
  /\ pc = "record" /\ batch[pos] # Odd
  /\ LET c == batch[pos]
         now == Current(Stamp(c))
     IN /\ ~TooLong(now.clip, Announced[c.take])
        /\ soundclip' = InsertClip(now.clip, Place(now.index, Stamp(c)), c)
        /\ soundclip_index' = InsertIndex(now.index, Stamp(c))
        /\ key' = now.key
        /\ pc' = IF now.key = NoKey THEN "put_key" ELSE "put_index"
  /\ UNCHANGED <<external, pos, s3, jobs, sent>>

PutKey ==
  /\ pc = "put_key"
  /\ key' = KeyOf(soundclip_index[1])
  /\ last_key' = key'
  /\ pc' = "put_index"
  /\ UNCHANGED <<external, pos, soundclip_index, soundclip, s3_index, s3_clip, jobs, sent>>

PutIndex ==
  /\ pc = "put_index"
  /\ s3_index' = soundclip_index
  /\ pc' = "put_clip"
  /\ UNCHANGED <<external, pos, locals, last_key, s3_clip, jobs, sent>>

\* Slips of AllArrived: without the header in the length; one chunk more.
AllArrivedWhole == Announced[batch[pos].take] = Len(soundclip.blocks)
OneMoreArrived == Announced[batch[pos].take] + 1 = Len(soundclip.blocks) /\ ~soundclip.wav

AllArrived == Announced[batch[pos].take] = Len(soundclip.blocks) /\ ~soundclip.wav

PutClip ==
  /\ pc = "put_clip"
  /\ s3_clip' = [s3_clip EXCEPT ![key] = soundclip]
  /\ IF AllArrived THEN pc' = "put_wav" /\ UNCHANGED <<batch, pos, locals>>
                   ELSE NextRecord
  /\ UNCHANGED <<flight, latest, faults, torn, last_key, s3_index, jobs, sent>>

PutWav ==
  /\ pc = "put_wav"
  /\ soundclip' = Clip(soundclip.blocks, TRUE, soundclip.cut)
  /\ s3_clip' = [s3_clip EXCEPT ![key] = soundclip']
  /\ pc' = "start_job"
  /\ UNCHANGED <<external, pos, key, soundclip_index, last_key, s3_index, jobs, sent>>

\* The name of a job must be new; the service refuses one it had, the handler fails.
StartJob ==
  /\ pc = "start_job" /\ key \notin jobs
  /\ jobs' = jobs \cup {key}
  /\ pc' = "wait"
  /\ UNCHANGED <<external, pos, locals, s3, sent>>

\* The wait for the job ends, with or without a text.
JobCompleted ==
  /\ pc = "wait"
  /\ pc' = "send"
  /\ UNCHANGED <<external, pos, locals, s3, jobs, sent>>

JobFailed == pc = "wait" /\ Dismiss

SendTranscript ==
  /\ pc = "send"
  /\ sent' = sent \cup {key}
  /\ NextRecord
  /\ UNCHANGED <<flight, latest, faults, torn, s3, jobs>>

----------------------------------------------------------------------------
Delivery == ArriveOdd \/ \E c \in Chunks : Arrive(c) \/ ArriveTwice(c)
Handler == RecordMismatch \/ RecordDismissed \/ RecordInserted \/ PutKey \/ PutIndex
           \/ PutClip \/ PutWav \/ StartJob \/ JobCompleted \/ JobFailed \/ SendTranscript

Next == Delivery \/ Invoke \/ Retry \/ Handler

Spec == Init /\ [][Next]_vars

\* The handler runs on, and Kinesis hands over what has arrived.
Fairness == WF_vars(Handler) /\ WF_vars(Invoke)

FairSpec == Spec /\ Fairness

----------------------------------------------------------------------------
(* Properties *)

Sorted(index) == \A i, j \in DOMAIN index : i < j => index[i] <= index[j]

\* Whatever is reordered, duplicated or handled again, the stored index is in the
\* order of time: the place of the next chunk is found, the gap is measured from
\* the latest chunk.
IndexSorted == Sorted(s3_index)

\* As long as no invocation had to be repeated, what is transcribed is in the order in
\* which it was spoken, with no chunk cut by a misplaced header, though chunks came in
\* any order, twice, or after a chunk of a later take.
SpokenInOrder ==
  pc = "start_job" /\ faults["retry"] = 0 =>
    ~soundclip.cut /\ Sorted([i \in DOMAIN soundclip.blocks |-> Stamp(soundclip.blocks[i])])

\* Repeated invocations, too, never start a job under a name it was started under (the
\* service would refuse it and the batch would fail for ever), unless a new clip was torn:
\* then chunks of the clip before are assembled again under the key of the new one, and a
\* job may be started for them before the new clip is.
JobNamesNew == pc = "start_job" /\ ~torn => key \notin jobs

\* A clip is not changed after its job was started, whatever arrives late or is handled
\* again, unless a new clip was torn: only a chunk that announces more than the clip has,
\* one of another take closer than the gap, gets into it.
JobClipFinal ==
  [][pc = "put_clip" /\ ~torn =>
       \A k \in jobs : \/ s3_clip'[k] = s3_clip[k]
                       \/ Announced[batch[pos].take] > Len(s3_clip[k].blocks)]_vars

HeardChunks == UNION {ToSet(s3_clip[k].blocks) : k \in Keys}
TranscribedTakes == {s3_clip[k].blocks[1].take : k \in jobs}

Promise == INSTANCE Transcription
             WITH heard <- HeardChunks, transcribed <- TranscribedTakes

\* With chunks of a take lost and reordered but nothing duplicated, repeated or later
\* than a chunk of the next take, and with takes more than the gap apart, the handler
\* does what Transcription promises.
KeepsPromise == Promise!Spec

\* Then a take of which the announced number of chunks was stored is transcribed.
CompleteIsTranscribed ==
  \A k \in Takes :
    Announced[k] > 0 /\ Cardinality({c \in HeardChunks : c.take = k}) = Announced[k]
      ~> k \in TranscribedTakes
=============================================================================
