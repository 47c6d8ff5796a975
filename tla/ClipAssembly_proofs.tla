------------------------ MODULE ClipAssembly_proofs ------------------------
(***************************************************************************)
(* Theorems about ClipAssembly, for all takes, gaps, batches and faults.    *)
(***************************************************************************)
EXTENDS ClipAssembly, SequenceTheorems, FiniteSetTheorems, WellFoundedInduction, TLAPS

\* Among the places with a stamp not greater there is a last one.
LEMMA LastPlace ==
  ASSUME NEW s \in Seq(Nat), NEW x \in Nat, \E i \in DOMAIN s : s[i] <= x
  PROVE  \E i \in DOMAIN s : s[i] <= x /\ \A j \in DOMAIN s : j > i => s[j] > x
<1> DEFINE D == {Len(s) - i : i \in {k \in DOMAIN s : s[k] <= x}}
<1>1. D \subseteq Nat /\ D # {}
  BY DEF D
<1>2. PICK d \in D : \A e \in D : ~(<<e, d>> \in OpToRel(<, Nat))
  <2> HIDE DEF D
  <2> QED
    BY <1>1, NatLessThanWellFounded, WFMin
<1>3. \A e \in D : ~(e < d)
  BY <1>1, <1>2 DEF OpToRel
<1>4. PICK i \in DOMAIN s : s[i] <= x /\ d = Len(s) - i
  BY <1>2
<1>5. ASSUME NEW j \in DOMAIN s, j > i PROVE s[j] > x
  <2> SUFFICES ASSUME s[j] <= x PROVE FALSE
    BY <1>5
  <2>1. Len(s) - j \in D
    OBVIOUS
  <2>2. Len(s) - j < d
    BY <1>4, <1>5
  <2> QED
    BY <1>3, <2>1, <2>2
<1> QED
  BY <1>4, <1>5

\* The place of a stamp in an index in the order of time parts the stamps not
\* greater from the greater ones.
LEMMA PlaceParts ==
  ASSUME NEW s \in Seq(Nat), Sorted(s), NEW x \in Nat
  PROVE  /\ Place(s, x) \in 0 .. Len(s)
         /\ \A i \in DOMAIN s : i <= Place(s, x) => s[i] <= x
         /\ \A i \in DOMAIN s : i > Place(s, x) => s[i] > x
<1>1. CASE \E i \in DOMAIN s : s[i] <= x
  <2>1. /\ Place(s, x) \in DOMAIN s
        /\ s[Place(s, x)] <= x
        /\ \A j \in DOMAIN s : j > Place(s, x) => s[j] > x
    BY <1>1, LastPlace DEF Place
  <2>2. ASSUME NEW i \in DOMAIN s, i <= Place(s, x) PROVE s[i] <= x
    <3>1. i = Place(s, x) \/ s[i] <= s[Place(s, x)]
      BY <2>1, <2>2 DEF Sorted
    <3> QED
      BY <2>1, <3>1
  <2> QED
    BY <2>1, <2>2
<1>2. CASE ~ \E i \in DOMAIN s : s[i] <= x
  BY <1>2 DEF Place
<1> QED
  BY <1>1, <1>2

\* What inserting behind place p does to a sequence.
LEMMA InsertShape ==
  ASSUME NEW S, NEW s \in Seq(S), NEW x \in S, NEW p \in 0 .. Len(s)
  PROVE  /\ InsertAt(s, p + 1, x) \in Seq(S)
         /\ Len(InsertAt(s, p + 1, x)) = Len(s) + 1
         /\ InsertAt(s, p + 1, x)[p + 1] = x
         /\ \A i \in 1 .. Len(s) + 1 : i <= p => InsertAt(s, p + 1, x)[i] = s[i]
         /\ \A i \in 1 .. Len(s) + 1 : i > p + 1 => InsertAt(s, p + 1, x)[i] = s[i - 1]
<1> DEFINE a == SubSeq(s, 1, p)
           b == SubSeq(s, p + 1, Len(s))
           u == a \o <<x>>
           t == u \o b
<1>1. InsertAt(s, p + 1, x) = t
  <2>1. (p + 1) - 1 = p
    OBVIOUS
  <2> QED
    BY <2>1 DEF InsertAt
<1>2. a \in Seq(S) /\ Len(a) = p /\ \A i \in 1 .. p : a[i] = s[i]
  OBVIOUS
<1>3. b \in Seq(S) /\ Len(b) = Len(s) - p /\ \A i \in 1 .. Len(s) - p : b[i] = s[p + i]
  OBVIOUS
<1> HIDE DEF a, b
<1>4. u \in Seq(S) /\ Len(u) = p + 1
  BY <1>2
<1>5. \A i \in 1 .. p + 1 : u[i] = IF i <= p THEN s[i] ELSE x
  BY <1>2
<1> HIDE DEF u
<1>6. t \in Seq(S) /\ Len(t) = Len(s) + 1
  <2>1. t \in Seq(S) /\ Len(t) = Len(u) + Len(b)
    BY <1>3, <1>4, ConcatProperties, Zenon
  <2> HIDE DEF t
  <2> QED
    BY <1>3, <1>4, <2>1
<1>7. ASSUME NEW i \in 1 .. Len(s) + 1
      PROVE  t[i] = IF i <= p + 1 THEN u[i] ELSE b[i - (p + 1)]
  <2>1. \A k \in 1 .. Len(u) + Len(b) : t[k] = IF k <= Len(u) THEN u[k] ELSE b[k - Len(u)]
    BY <1>3, <1>4, ConcatProperties, Zenon
  <2> HIDE DEF t
  <2>2. i \in 1 .. Len(u) + Len(b)
    BY <1>3, <1>4
  <2> QED
    BY <1>4, <2>1, <2>2
<1> HIDE DEF t
<1>8. ASSUME NEW i \in 1 .. Len(s) + 1
      PROVE  t[i] = IF i <= p THEN s[i] ELSE IF i = p + 1 THEN x ELSE s[i - 1]
  <2>1. CASE i <= p + 1
    BY <1>5, <1>7, <2>1
  <2>2. CASE i > p + 1
    <3>1. i - (p + 1) \in 1 .. Len(s) - p /\ p + (i - (p + 1)) = i - 1
      BY <2>2
    <3>2. b[i - (p + 1)] = s[i - 1]
      BY <1>3, <3>1
    <3> QED
      BY <1>7, <2>2, <3>2
  <2> QED
    BY <2>1, <2>2
<1> QED
  BY <1>1, <1>6, <1>8

\* Inserting a stamp keeps an index in the order of time.
LEMMA InsertSorted ==
  ASSUME NEW S, S \subseteq Nat, NEW s \in Seq(S), Sorted(s), NEW x \in S
  PROVE  InsertIndex(s, x) \in Seq(S) /\ Sorted(InsertIndex(s, x))
<1> DEFINE p == Place(s, x)
           t == InsertIndex(s, x)
<1>0. s \in Seq(Nat) /\ x \in Nat
  BY SeqMonotonic
<1>1. p \in 0 .. Len(s)
  BY <1>0, PlaceParts
<1>2. \A i \in 1 .. Len(s) : (i <= p => s[i] <= x) /\ (i > p => s[i] > x)
  <2>1. DOMAIN s = 1 .. Len(s)
    OBVIOUS
  <2> QED
    BY <1>0, <2>1, PlaceParts
<1>3. /\ t \in Seq(S) /\ Len(t) = Len(s) + 1
      /\ \A i \in 1 .. Len(s) + 1 :
           t[i] = IF i <= p THEN s[i] ELSE IF i = p + 1 THEN x ELSE s[i - 1]
  <2>1. t = InsertAt(s, p + 1, x)
    BY DEF InsertIndex
  <2> HIDE DEF t, p
  <2>2. t \in Seq(S) /\ Len(t) = Len(s) + 1 /\ t[p + 1] = x
    BY <1>1, <2>1, InsertShape
  <2>3. /\ \A i \in 1 .. Len(s) + 1 : i <= p => InsertAt(s, p + 1, x)[i] = s[i]
        /\ \A i \in 1 .. Len(s) + 1 : i > p + 1 => InsertAt(s, p + 1, x)[i] = s[i - 1]
    BY <1>1, InsertShape
  <2> QED BY <1>1, <2>1, <2>2, <2>3
<1> HIDE DEF p, t
<1>4. \A i, j \in 1 .. Len(s) : i < j => s[i] <= s[j]
  BY DEF Sorted
<1>5. \A i \in 1 .. Len(s) : s[i] \in Nat
  BY <1>0
<1>6. ASSUME NEW i \in 1 .. Len(s) + 1, NEW j \in 1 .. Len(s) + 1, i < j
      PROVE  t[i] <= t[j]
  <2>1. CASE j <= p
    <3>1. t[i] = s[i] /\ t[j] = s[j] /\ i \in 1 .. Len(s) /\ j \in 1 .. Len(s)
      BY <1>1, <1>3, <1>6, <2>1
    <3> QED
      BY <1>4, <1>6, <3>1
  <2>2. CASE j = p + 1
    <3>1. t[i] = s[i] /\ t[j] = x /\ i \in 1 .. Len(s) /\ i <= p
      BY <1>1, <1>3, <1>6, <2>2
    <3> QED
      BY <1>2, <3>1
  <2>3. CASE j > p + 1 /\ i <= p
    <3>1. t[i] = s[i] /\ t[j] = s[j - 1] /\ i \in 1 .. Len(s) /\ j - 1 \in 1 .. Len(s) /\ i < j - 1
      BY <1>1, <1>3, <2>3
    <3> QED
      BY <1>4, <3>1
  <2>4. CASE j > p + 1 /\ i = p + 1
    <3>1. t[i] = x /\ t[j] = s[j - 1] /\ j - 1 \in 1 .. Len(s) /\ j - 1 > p
      BY <1>1, <1>3, <2>4
    <3>2. s[j - 1] > x
      BY <1>2, <3>1
    <3> QED
      BY <1>5, <3>1, <3>2
  <2>5. CASE i > p + 1
    <3>1. /\ t[i] = s[i - 1] /\ t[j] = s[j - 1] /\ i - 1 < j - 1
          /\ i - 1 \in 1 .. Len(s) /\ j - 1 \in 1 .. Len(s)
      BY <1>1, <1>3, <1>6, <2>5
    <3> QED
      BY <1>4, <3>1
  <2> QED
    BY <1>1, <2>1, <2>2, <2>3, <2>4, <2>5
<1>7. DOMAIN t = 1 .. Len(s) + 1
  BY <1>3
<1>8. Sorted(t)
  BY <1>6, <1>7 DEF Sorted
<1> QED
  BY <1>3, <1>8 DEF t

----------------------------------------------------------------------------
\* The stored index and the handler's copy are in the order of time, and the handler
\* is inside its batch.
IndexInv ==
  /\ batch \in Seq(Chunks \cup {Odd})
  /\ pc # "idle" => pos \in 1 .. Len(batch)
  /\ pc = "idle" => pos = 1
  /\ s3_index \in Seq(Nat) /\ Sorted(s3_index)
  /\ soundclip_index \in Seq(Nat) /\ Sorted(soundclip_index)

\* Every chunk has a time stamp.
LEMMA StampType ==
  ASSUME NEW c \in Chunks
  PROVE  Stamp(c) \in Nat
<1>1. PICK k \in Takes : \E i \in DOMAIN Stamps[k] : c = [take |-> k, num |-> i]
  BY DEF Chunks
<1>2. PICK i \in DOMAIN Stamps[k] : c = [take |-> k, num |-> i]
  BY <1>1
<1> QED
  BY <1>2, TakesAssumption DEF Stamp

\* No stamp is out of order in an empty index.
LEMMA EmptySorted == <<>> \in Seq(Nat) /\ Sorted(<<>>)
BY DEF Sorted

\* Going on to the next record, or leaving the batch, keeps the invariant.
LEMMA NextRecordStep ==
  ASSUME IndexInv, pc # "idle", NextRecord, s3_index' \in Seq(Nat), Sorted(s3_index')
  PROVE  IndexInv'
<1>1. CASE pos < Len(batch)
  BY <1>1, EmptySorted DEF NextRecord, IndexInv
<1>2. CASE ~(pos < Len(batch))
  BY <1>2, EmptySorted DEF NextRecord, IndexInv
<1> QED
  BY <1>1, <1>2

\* Each step of the delivery and of the handler keeps the invariant.
LEMMA IndexStep ==
  ASSUME IndexInv, [Next]_vars
  PROVE  IndexInv'
<1> USE DEF external, locals, s3
<1>1. ASSUME NEW c \in Chunks, Arrive(c) \/ ArriveTwice(c) PROVE IndexInv'
  <2>1. /\ batch' = Append(batch, c) /\ pc = "idle" /\ pc' = "idle" /\ pos' = pos
        /\ s3_index' = s3_index /\ soundclip_index' = soundclip_index
    BY <1>1 DEF Arrive, ArriveTwice, Collecting
  <2>2. batch' \in Seq(Chunks \cup {Odd})
    BY <2>1 DEF IndexInv
  <2> QED
    BY <2>1, <2>2 DEF IndexInv
<1>2. CASE ArriveOdd
  BY <1>2 DEF ArriveOdd, Collecting, IndexInv
<1>3. CASE Invoke
  BY <1>3 DEF Invoke, IndexInv
<1>4. CASE Retry
  BY <1>4, EmptySorted DEF Retry, Fault, IndexInv
<1>5. CASE RecordMismatch
  BY <1>5, EmptySorted DEF RecordMismatch, IndexInv
<1>6. CASE RecordDismissed \/ JobFailed
  BY <1>6, NextRecordStep DEF RecordDismissed, JobFailed, Dismiss, IndexInv
<1>7. CASE RecordInserted
  <2> DEFINE c == batch[pos]
             now == Current(Stamp(c))
  <2>1. c \in Chunks
    BY <1>7 DEF RecordInserted, IndexInv
  <2>2. Stamp(c) \in Nat
    BY <2>1, StampType
  <2>3. now.index \in Seq(Nat) /\ Sorted(now.index)
    BY EmptySorted DEF Current, IndexInv
  <2>4. soundclip_index' = InsertIndex(now.index, Stamp(c))
    BY <1>7 DEF RecordInserted
  <2>5. soundclip_index' \in Seq(Nat) /\ Sorted(soundclip_index')
    BY <2>2, <2>3, <2>4, InsertSorted
  <2> QED
    BY <1>7, <2>5 DEF RecordInserted, IndexInv
<1>8. CASE PutKey \/ PutIndex \/ PutWav
  BY <1>8 DEF PutKey, PutIndex, PutWav, IndexInv
<1>9. CASE PutClip
  <2>1. CASE AllArrived
    BY <1>9, <2>1 DEF PutClip, IndexInv
  <2>2. CASE ~AllArrived
    BY <1>9, <2>2, NextRecordStep DEF PutClip, IndexInv
  <2> QED
    BY <2>1, <2>2
<1>10. CASE StartJob \/ JobCompleted
  BY <1>10 DEF StartJob, JobCompleted, IndexInv
<1>11. CASE SendTranscript
  BY <1>11, NextRecordStep DEF SendTranscript, IndexInv
<1>12. CASE UNCHANGED vars
  BY <1>12 DEF vars, IndexInv
<1> QED
  BY <1>1, <1>2, <1>3, <1>4, <1>5, <1>6, <1>7, <1>8, <1>9, <1>10, <1>11, <1>12
     DEF Next, Delivery, Handler

\* Whatever is reordered, duplicated or handled again, the stored index is in the
\* order of time.
THEOREM IndexInOrder == Spec => []IndexSorted
<1>1. Init => IndexInv
  BY EmptySorted DEF Init, IndexInv
<1>2. IndexInv /\ [Next]_vars => IndexInv'
  BY IndexStep
<1>3. IndexInv => IndexSorted
  BY DEF IndexInv, IndexSorted
<1> QED
  BY <1>1, <1>2, <1>3, PTL DEF Spec
----------------------------------------------------------------------------
(* Types                                                                    *)

LEMMA DivFacts ==
  ASSUME NEW x \in Nat, NEW s \in Nat \ {0}
  PROVE  x \div s \in Nat /\ s * (x \div s) <= x /\ x < s * (x \div s) + s
OBVIOUS

LEMMA MulMono ==
  ASSUME NEW a \in Int, NEW b \in Int, NEW s \in Nat \ {0}, a <= b
  PROVE  s * a <= s * b
OBVIOUS

\* Later stamps have no earlier keys.
LEMMA KeyMono ==
  ASSUME NEW x \in Nat, NEW y \in Nat, x <= y
  PROVE  KeyOf(x) <= KeyOf(y)
<1> DEFINE a == x \div Second
           b == y \div Second
<1>1. a \in Nat /\ b \in Nat /\ Second * a <= y /\ y < Second * b + Second
  BY DivFacts, TimeAssumption
<1> HIDE DEF a, b
<1>2. SUFFICES ASSUME b + 1 <= a PROVE FALSE
  BY <1>1 DEF a, b, KeyOf
<1>3. Second * (b + 1) <= Second * a
  BY <1>1, <1>2, MulMono, TimeAssumption
<1>4. Second * (b + 1) = Second * b + Second
  BY <1>1, TimeAssumption
<1> QED BY <1>1, <1>3, <1>4, TimeAssumption

\* Stamps farther apart than the gap have different keys.
LEMMA KeyLess ==
  ASSUME NEW x \in Nat, NEW y \in Nat, y - x > Gap
  PROVE  KeyOf(x) < KeyOf(y)
<1> DEFINE a == x \div Second
           b == y \div Second
<1>1. a \in Nat /\ b \in Nat /\ Second * a + Second <= y /\ y < Second * b + Second
  BY DivFacts, TimeAssumption
<1> HIDE DEF a, b
<1>2. SUFFICES ASSUME b <= a PROVE FALSE
  BY <1>1 DEF a, b, KeyOf
<1>3. Second * b <= Second * a
  BY <1>1, <1>2, MulMono, TimeAssumption
<1> QED BY <1>1, <1>3, TimeAssumption

\* Every chunk has a time stamp, and a key.
LEMMA ChunkStamp ==
  ASSUME NEW c \in Chunks
  PROVE  /\ Stamp(c) \in AllStamps /\ Stamp(c) \in Nat
         /\ KeyOf(Stamp(c)) \in Keys
         /\ c # Odd /\ c.take \in Takes
<1>1. PICK k \in Takes : \E i \in DOMAIN Stamps[k] : c = [take |-> k, num |-> i]
  BY DEF Chunks
<1>2. k # 0
  BY TakesAssumption
<1> QED BY <1>1, <1>2, StampType DEF Odd, AllStamps, Keys

LEMMA AllStampsNat == AllStamps \subseteq Nat
BY StampType DEF AllStamps

LEMMA KeysNat == Keys \subseteq Nat /\ NoKey \notin Keys
<1>1. \A x \in Nat : KeyOf(x) \in Nat
  BY DivFacts, TimeAssumption DEF KeyOf
<1> QED BY <1>1, AllStampsNat DEF Keys, NoKey

LEMMA LastFacts ==
  ASSUME NEW S, NEW s \in Seq(S), s # <<>>
  PROVE  Last(s) = s[Len(s)] /\ Last(s) \in S /\ Len(s) \in DOMAIN s /\ 1 \in DOMAIN s
BY DEF Last

LEMMA PlaceRange ==
  ASSUME NEW s \in Seq(AllStamps), NEW x \in Nat
  PROVE  Place(s, x) \in 0 .. Len(s)
<1>1. s \in Seq(Nat)
  BY AllStampsNat, SeqMonotonic
<1>2. CASE \E i \in DOMAIN s : s[i] <= x
  <2>1. Place(s, x) \in DOMAIN s
    BY <1>1, <1>2, LastPlace DEF Place
  <2> QED BY <2>1
<1>3. CASE ~ \E i \in DOMAIN s : s[i] <= x
  BY <1>3 DEF Place
<1> QED BY <1>2, <1>3

LEMMA InsertIndexType ==
  ASSUME NEW s \in Seq(AllStamps), NEW x \in AllStamps
  PROVE  InsertIndex(s, x) \in Seq(AllStamps) /\ Len(InsertIndex(s, x)) = Len(s) + 1
<1>1. Place(s, x) \in 0 .. Len(s)
  BY AllStampsNat, PlaceRange
<1>2. /\ InsertAt(s, Place(s, x) + 1, x) \in Seq(AllStamps)
      /\ Len(InsertAt(s, Place(s, x) + 1, x)) = Len(s) + 1
  BY <1>1, InsertShape
<1> QED BY <1>2 DEF InsertIndex

LEMMA InsertClipType ==
  ASSUME NEW clip \in Clips, NEW p \in Nat, NEW c \in Chunks
  PROVE  InsertClip(clip, p, c) \in Clips
<1> DEFINE q == IF p < Len(clip.blocks) THEN p ELSE Len(clip.blocks)
<1>1. clip.blocks \in Seq(Chunks) /\ clip.wav \in BOOLEAN /\ clip.cut \in BOOLEAN
  BY DEF Clips
<1>2. q \in 0 .. Len(clip.blocks)
  BY <1>1
<1> HIDE DEF q
<1>3. InsertAt(clip.blocks, q + 1, c) \in Seq(Chunks)
  BY <1>1, <1>2, InsertShape
<1>4. InsertClip(clip, p, c) =
        Clip(InsertAt(clip.blocks, q + 1, c), clip.wav, clip.cut \/ clip.wav)
  BY DEF InsertClip, q
<1>5. (clip.cut \/ clip.wav) \in BOOLEAN
  OBVIOUS
<1> QED BY <1>1, <1>3, <1>4, <1>5 DEF Clip, Clips

LEMMA NoClipType == NoClip \in Clips
BY DEF NoClip, Clip, Clips

----------------------------------------------------------------------------
Putting == {"put_index", "put_clip", "put_wav", "start_job", "wait", "send"}

\* TypeOK, and what its keeping needs: the handler is at a chunk of its batch when it has
\* one in its hands, and a key is put before it is used.
TypeInv ==
  /\ TypeOK
  /\ pc # "idle" => pos <= Len(batch)
  /\ pc \in {"put_key"} \cup Putting => batch[pos] \in Chunks
  /\ pc \in {"put_key", "put_index"} => soundclip_index # <<>>
  /\ pc \in Putting => key \in Keys /\ key = last_key
  /\ pc \in {"wait", "send"} => key \in jobs

LEMMA TypeInit == Init => TypeInv
<1> SUFFICES ASSUME Init PROVE TypeInv
  OBVIOUS
<1>1. <<>> \in Seq(Chunks \cup {Odd}) /\ <<>> \in Seq(AllStamps) /\ Len(<<>>) = 0
  OBVIOUS
<1>2. [k \in Keys |-> NoClip] \in [Keys -> Clips] /\ [f \in Faults |-> 0] \in [Faults -> Nat]
  BY NoClipType
<1>3. pos \in 1 .. MaxBatch /\ Len(batch) <= MaxBatch
  BY <1>1, BoundAssumption DEF Init
<1>4. TypeOK
  BY <1>1, <1>2, <1>3, NoClipType DEF Init, TypeOK
<1> QED BY <1>4 DEF Init, TypeInv, Putting

LEMMA FaultType ==
  ASSUME faults \in [Faults -> Nat], NEW f \in Faults, Fault(f)
  PROVE  faults' \in [Faults -> Nat]
BY DEF Fault

\* The locals are gone and the next record, or the next batch, is waited for.
LEMMA NextRecordType ==
  ASSUME TypeInv, pc # "idle", NextRecord,
         UNCHANGED <<flight, latest, faults, torn, last_key, s3_index>>,
         s3_clip' \in [Keys -> Clips], jobs' = jobs, sent' \subseteq jobs
  PROVE  TypeInv'
<1>1. /\ key' = NoKey /\ soundclip_index' = <<>> /\ soundclip' = NoClip
      /\ \/ pos < Len(batch) /\ pos' = pos + 1 /\ pc' = "record" /\ batch' = batch
         \/ pos' = 1 /\ pc' = "idle" /\ batch' = <<>>
  BY DEF NextRecord
<1>2. /\ batch' \in Seq(Chunks \cup {Odd}) /\ Len(batch') <= MaxBatch
      /\ pos' \in 1 .. MaxBatch /\ (pc' = "idle" => pos' = 1)
  <2>1. batch \in Seq(Chunks \cup {Odd}) /\ Len(batch) <= MaxBatch /\ pos \in 1 .. MaxBatch
    BY DEF TypeInv, TypeOK
  <2>2. <<>> \in Seq(Chunks \cup {Odd}) /\ Len(<<>>) = 0
    OBVIOUS
  <2>3. CASE pos < Len(batch) /\ pos' = pos + 1 /\ pc' = "record" /\ batch' = batch
    BY <2>1, <2>3, BoundAssumption
  <2>4. CASE pos' = 1 /\ pc' = "idle" /\ batch' = <<>>
    BY <2>2, <2>4, BoundAssumption
  <2> QED BY <1>1, <2>3, <2>4
<1>3. soundclip_index' \in Seq(AllStamps) /\ soundclip' \in Clips
  BY <1>1, NoClipType
<1>4. TypeOK'
  BY <1>1, <1>2, <1>3 DEF TypeInv, TypeOK
<1> QED BY <1>1, <1>4 DEF TypeInv, TypeOK, Putting

LEMMA CollectType ==
  ASSUME TypeInv, Collecting, NEW r \in Chunks \cup {Odd}, batch' = Append(batch, r),
         flight' \subseteq Chunks, latest' \in Takes \cup {0}, faults' \in [Faults -> Nat],
         UNCHANGED <<torn, pos, pc, locals, s3, jobs, sent>>
  PROVE  TypeInv'
<1>1. batch' \in Seq(Chunks \cup {Odd}) /\ Len(batch') <= MaxBatch
  BY BoundAssumption DEF Collecting, TypeInv, TypeOK
<1>2. TypeOK'
  BY <1>1 DEF TypeInv, TypeOK, locals, s3
<1> QED BY <1>2 DEF TypeInv, Collecting, locals, s3, Putting

LEMMA DeliveryType == ASSUME TypeInv, Delivery PROVE TypeInv'
<1>1. CASE ArriveOdd
  BY <1>1, CollectType, FaultType DEF ArriveOdd, Faults, TypeInv, TypeOK
<1>2. ASSUME NEW c \in Chunks, Arrive(c) PROVE TypeInv'
  <2>1. c.take \in Takes
    BY ChunkStamp
  <2>2. faults' \in [Faults -> Nat]
    BY <1>2, FaultType DEF Arrive, Faults, TypeInv, TypeOK
  <2> QED BY <1>2, <2>1, <2>2, CollectType DEF Arrive, TypeInv, TypeOK
<1>3. ASSUME NEW c \in Chunks, ArriveTwice(c) PROVE TypeInv'
  <2>1. c.take \in Takes
    BY ChunkStamp
  <2>2. faults' \in [Faults -> Nat]
    BY <1>3, FaultType DEF ArriveTwice, Faults, TypeInv, TypeOK
  <2> QED BY <1>3, <2>1, <2>2, CollectType DEF ArriveTwice, TypeInv, TypeOK
<1> QED BY <1>1, <1>2, <1>3 DEF Delivery

LEMMA InvokeType == ASSUME TypeInv, Invoke PROVE TypeInv'
<1>1. TypeOK'
  BY DEF TypeInv, TypeOK, Invoke, external, locals, s3
<1>2. pos <= Len(batch)
  BY DEF TypeInv, TypeOK, Invoke
<1> QED BY <1>1, <1>2 DEF TypeInv, Invoke, external, locals, s3, Putting

LEMMA RetryType == ASSUME TypeInv, Retry PROVE TypeInv'
<1>1. faults' \in [Faults -> Nat] /\ torn' \in BOOLEAN
  BY FaultType DEF Retry, Faults, TypeInv, TypeOK
<1>2. /\ pc # "idle" /\ pos' = 1 /\ pc' = "record"
      /\ key' = NoKey /\ soundclip_index' = <<>> /\ soundclip' = NoClip
      /\ UNCHANGED <<flight, batch, latest, s3, jobs, sent>>
  BY DEF Retry
<1>3. TypeOK'
  BY <1>1, <1>2, NoClipType, BoundAssumption DEF TypeInv, TypeOK, s3
<1> QED BY <1>2, <1>3 DEF TypeInv, TypeOK, Putting

LEMMA RecordMismatchType == ASSUME TypeInv, RecordMismatch PROVE TypeInv'
<1>1. TypeOK'
  BY NoClipType, BoundAssumption DEF TypeInv, TypeOK, RecordMismatch, s3
<1> QED BY <1>1 DEF TypeInv, RecordMismatch, Putting

\* What the handler goes on with.
LEMMA CurrentType ==
  ASSUME TypeOK, NEW x
  PROVE  /\ Current(x).key \in Keys \cup {NoKey}
         /\ Current(x).key = NoKey \/ Current(x).key = last_key
         /\ Current(x).index \in Seq(AllStamps)
         /\ Current(x).clip \in Clips
BY NoClipType DEF Current, TypeOK

LEMMA RecordInsertedType == ASSUME TypeInv, RecordInserted PROVE TypeInv'
<1> DEFINE c == batch[pos]
           now == Current(Stamp(c))
<1>1. /\ pc = "record" /\ c # Odd
      /\ soundclip' = InsertClip(now.clip, Place(now.index, Stamp(c)), c)
      /\ soundclip_index' = InsertIndex(now.index, Stamp(c))
      /\ key' = now.key
      /\ pc' = IF now.key = NoKey THEN "put_key" ELSE "put_index"
      /\ UNCHANGED <<external, pos, s3, jobs, sent>>
  BY DEF RecordInserted
<1>2. c \in Chunks
  BY <1>1 DEF TypeInv, TypeOK
<1>3. /\ now.key \in Keys \cup {NoKey} /\ (now.key = NoKey \/ now.key = last_key)
      /\ now.index \in Seq(AllStamps) /\ now.clip \in Clips
  BY CurrentType DEF TypeInv
<1>4. Stamp(c) \in AllStamps /\ Stamp(c) \in Nat
  BY <1>2, ChunkStamp
<1> HIDE DEF now, c
<1>5. /\ soundclip_index' \in Seq(AllStamps) /\ Len(soundclip_index') = Len(now.index) + 1
  BY <1>1, <1>3, <1>4, InsertIndexType
<1>6. soundclip' \in Clips
  <2>1. Place(now.index, Stamp(c)) \in Nat
    BY <1>3, <1>4, PlaceRange
  <2> QED BY <1>1, <1>2, <1>3, <2>1, InsertClipType
<1>7. soundclip_index' # <<>>
  BY <1>3, <1>5
<1>8. TypeOK'
  BY <1>1, <1>3, <1>5, <1>6 DEF TypeInv, TypeOK, external, s3
<1> QED BY <1>1, <1>2, <1>3, <1>7, <1>8, KeysNat DEF TypeInv, external, s3, Putting, c

LEMMA PutKeyType == ASSUME TypeInv, PutKey PROVE TypeInv'
<1>1. soundclip_index[1] \in AllStamps
  BY LastFacts DEF TypeInv, TypeOK, PutKey
<1>2. key' \in Keys /\ last_key' = key'
  BY <1>1 DEF PutKey, Keys
<1>3. TypeOK'
  BY <1>2 DEF TypeInv, TypeOK, PutKey, external
<1> QED BY <1>2, <1>3 DEF TypeInv, PutKey, external, Putting

LEMMA PutIndexType == ASSUME TypeInv, PutIndex PROVE TypeInv'
<1>1. TypeOK'
  BY DEF TypeInv, TypeOK, PutIndex, external, locals
<1> QED BY <1>1 DEF TypeInv, PutIndex, external, locals, Putting

LEMMA PutClipType == ASSUME TypeInv, PutClip PROVE TypeInv'
<1>1. s3_clip' \in [Keys -> Clips]
  BY DEF TypeInv, TypeOK, PutClip
<1>2. CASE AllArrived
  <2>1. TypeOK'
    BY <1>1, <1>2 DEF TypeInv, TypeOK, PutClip, locals
  <2> QED BY <1>2, <2>1 DEF TypeInv, PutClip, locals, Putting
<1>3. CASE ~AllArrived
  <2>1. NextRecord /\ pc # "idle"
    BY <1>3 DEF PutClip
  <2> QED BY <1>1, <2>1, NextRecordType DEF PutClip, TypeInv, TypeOK
<1> QED BY <1>2, <1>3

LEMMA PutWavType == ASSUME TypeInv, PutWav PROVE TypeInv'
<1>1. soundclip' \in Clips
  BY DEF PutWav, TypeInv, TypeOK, Clips, Clip
<1>2. s3_clip' \in [Keys -> Clips]
  BY <1>1 DEF TypeInv, TypeOK, PutWav
<1>3. TypeOK'
  BY <1>1, <1>2 DEF TypeInv, TypeOK, PutWav, external
<1> QED BY <1>3 DEF TypeInv, PutWav, external, Putting

LEMMA JobType ==
  ASSUME TypeInv, StartJob \/ JobCompleted \/ JobFailed \/ SendTranscript PROVE TypeInv'
<1>1. CASE StartJob
  <2>1. TypeOK'
    BY <1>1 DEF TypeInv, TypeOK, StartJob, external, locals, s3, Putting
  <2> QED BY <1>1, <2>1 DEF TypeInv, StartJob, external, locals, s3, Putting
<1>2. CASE JobCompleted
  <2>1. TypeOK'
    BY <1>2 DEF TypeInv, TypeOK, JobCompleted, external, locals, s3
  <2> QED BY <1>2, <2>1 DEF TypeInv, JobCompleted, external, locals, s3, Putting
<1>3. CASE JobFailed
  BY <1>3, NextRecordType DEF JobFailed, Dismiss, s3, TypeInv, TypeOK
<1>4. CASE SendTranscript
  BY <1>4, NextRecordType DEF SendTranscript, s3, TypeInv, TypeOK
<1> QED BY <1>1, <1>2, <1>3, <1>4

LEMMA TypeStep == TypeInv /\ [Next]_vars => TypeInv'
<1> SUFFICES ASSUME TypeInv, [Next]_vars PROVE TypeInv'
  OBVIOUS
<1>1. CASE UNCHANGED vars
  BY <1>1 DEF vars, external, locals, s3, TypeInv, TypeOK
<1>2. CASE RecordDismissed
  BY <1>2, NextRecordType DEF RecordDismissed, Dismiss, s3, TypeInv, TypeOK
<1> QED BY <1>1, <1>2, DeliveryType, InvokeType, RetryType, RecordMismatchType,
          RecordInsertedType, PutKeyType, PutIndexType, PutClipType, PutWavType, JobType
       DEF Next, Handler

\* Every variable keeps its type; a key is put before anything is put under it, and a text
\* is sent for a job that was started (lambda.py 75-260).
THEOREM TypeCorrect == Spec => []TypeOK
<1>1. TypeInv => TypeOK
  BY DEF TypeInv
<1> QED BY <1>1, TypeInit, TypeStep, PTL DEF Spec

----------------------------------------------------------------------------
(* Names of jobs, and clips whose job was started                           *)

\* The record at the handler's position begins the clip whose key has just been put.
Fresh ==
  /\ batch[pos] # Odd
  /\ last_key = KeyOf(Stamp(batch[pos]))
  /\ s3_index = <<>> \/ NewClip(Stamp(batch[pos]))

\* The key that is put belongs to the index that is put, or the record at hand will put
\* the index that belongs to it: it began the batch if it is handled again.
KeyOfIndex ==
  \/ last_key = NoKey /\ s3_index = <<>>
  \/ last_key \in Keys /\ s3_index # <<>> /\ last_key <= KeyOf(Last(s3_index))
  \/ pc \in {"record", "put_key"} /\ pos = 1 /\ Fresh
  \/ pc = "put_index" /\ Fresh /\ soundclip_index = <<Stamp(batch[pos])>>

\* Jobs were started for clips that are whole and not later than the index.
JobsBehind ==
  \A k \in jobs : /\ s3_clip[k].wav
                  /\ s3_index # <<>> /\ k <= KeyOf(Last(s3_index))

\* The clip in the handler's hands.
InHand ==
  /\ pc = "put_key" =>
       /\ soundclip_index = <<Stamp(batch[pos])>>
       /\ s3_index # <<>> => NewClip(Stamp(batch[pos]))
  /\ pc = "put_index" =>
       /\ key <= KeyOf(Last(soundclip_index))
       /\ s3_index # <<>> => Last(s3_index) <= Last(soundclip_index)
  /\ pc \in {"put_index", "put_clip"} /\ key \in jobs =>
       soundclip.wav /\ Announced[batch[pos].take] > Len(s3_clip[key].blocks)
  /\ pc \in {"put_wav", "start_job"} => key \notin jobs
  /\ pc = "start_job" => s3_clip[key].wav

\* Before the first index nothing is stored.
NothingYet ==
  /\ s3_index = <<>> => \A k \in Keys : s3_clip[k] = NoClip
  /\ pc \in Putting \ {"put_index"} => s3_index # <<>>

NamesInv == NothingYet /\ (~torn => KeyOfIndex /\ JobsBehind /\ InHand)

LEMMA NamesInit == Init => NamesInv
<1> SUFFICES ASSUME Init PROVE NamesInv
  OBVIOUS
<1>1. NothingYet
  BY DEF Init, NothingYet, Putting
<1>2. KeyOfIndex /\ JobsBehind /\ InHand
  BY DEF Init, KeyOfIndex, JobsBehind, InHand
<1> QED BY <1>1, <1>2 DEF NamesInv

LEMMA NothingStep == TypeInv /\ NothingYet /\ [Next]_vars => NothingYet'
<1> SUFFICES ASSUME TypeInv, NothingYet, [Next]_vars PROVE NothingYet'
  OBVIOUS
<1> USE DEF external, locals, s3, Putting
<1>1. CASE UNCHANGED vars
  BY <1>1 DEF vars, NothingYet
<1>2. CASE Delivery \/ Invoke \/ Retry
  BY <1>2 DEF Delivery, Arrive, ArriveTwice, ArriveOdd, Invoke, Retry, NothingYet, Collecting
<1>3. CASE RecordMismatch \/ RecordDismissed \/ RecordInserted \/ PutKey
  BY <1>3 DEF RecordMismatch, RecordDismissed, RecordInserted, Dismiss, NextRecord, PutKey,
              NothingYet
<1>4. CASE PutIndex
  BY <1>4 DEF PutIndex, NothingYet, TypeInv
<1>5. CASE PutClip \/ PutWav
  BY <1>5 DEF PutClip, PutWav, NextRecord, NothingYet
<1>6. CASE StartJob \/ JobCompleted \/ JobFailed \/ SendTranscript
  BY <1>6 DEF StartJob, JobCompleted, JobFailed, SendTranscript, Dismiss, NextRecord, NothingYet
<1> QED BY <1>1, <1>2, <1>3, <1>4, <1>5, <1>6 DEF Next, Handler

\* The index after a chunk is in it: not behind the chunk, nor behind what it was.
LEMMA InsertLast ==
  ASSUME NEW s \in Seq(AllStamps), Sorted(s), NEW x \in AllStamps
  PROVE  /\ InsertIndex(s, x) # <<>>
         /\ x <= Last(InsertIndex(s, x))
         /\ s # <<>> => Last(s) <= Last(InsertIndex(s, x))
         /\ Last(InsertIndex(s, x)) \in Nat
<1> DEFINE p == Place(s, x)
           r == InsertIndex(s, x)
<1>1. p \in 0 .. Len(s)
  BY AllStampsNat, PlaceRange
<1>2. r \in Seq(AllStamps) /\ Sorted(r)
  BY AllStampsNat, InsertSorted
<1>3. /\ r = InsertAt(s, p + 1, x)
      /\ Len(r) = Len(s) + 1 /\ r[p + 1] = x
      /\ \A i \in 1 .. Len(s) + 1 : i <= p => r[i] = s[i]
      /\ \A i \in 1 .. Len(s) + 1 : i > p + 1 => r[i] = s[i - 1]
  <2>1. r = InsertAt(s, p + 1, x)
    BY DEF InsertIndex
  <2> HIDE DEF p
  <2>2. /\ Len(InsertAt(s, p + 1, x)) = Len(s) + 1 /\ InsertAt(s, p + 1, x)[p + 1] = x
        /\ \A i \in 1 .. Len(s) + 1 : i <= p => InsertAt(s, p + 1, x)[i] = s[i]
        /\ \A i \in 1 .. Len(s) + 1 : i > p + 1 => InsertAt(s, p + 1, x)[i] = s[i - 1]
    BY <1>1, InsertShape
  <2> HIDE DEF r
  <2> QED BY <2>1, <2>2
<1> HIDE DEF p, r
<1>4. /\ r # <<>> /\ Last(r) = r[Len(r)] /\ Len(r) \in Nat /\ DOMAIN r = 1 .. Len(r)
      /\ \A i \in 1 .. Len(r) : r[i] \in Nat
  <2>1. r \in Seq(Nat)
    BY <1>2, AllStampsNat, SeqMonotonic
  <2>2. Len(r) # 0
    BY <1>3
  <2>3. r # <<>>
    BY <2>2
  <2> QED BY <2>1, <2>3 DEF Last
<1>5. \A i \in 1 .. Len(r) : r[i] <= Last(r)
  BY <1>2, <1>4 DEF Sorted
<1>6. x <= Last(r)
  BY <1>1, <1>3, <1>4, <1>5
<1>7. ASSUME s # <<>> PROVE Last(s) <= Last(r)
  <2>1. Last(s) = s[Len(s)] /\ Len(s) \in 1 .. Len(s)
    BY <1>7, LastFacts
  <2>2. CASE p = Len(s)
    BY <1>3, <1>5, <2>1, <2>2
  <2>3. CASE p < Len(s)
    <3>1. Len(s) + 1 > p + 1 /\ Len(s) + 1 \in 1 .. Len(s) + 1
      BY <1>1, <2>3
    <3>2. r[Len(s) + 1] = s[(Len(s) + 1) - 1]
      BY <1>3, <3>1
    <3>3. (Len(s) + 1) - 1 = Len(s)
      BY <2>1
    <3> QED BY <1>3, <1>4, <1>5, <2>1, <3>1, <3>2, <3>3
  <2> QED BY <1>1, <2>2, <2>3
<1>8. Last(r) \in Nat
  BY <1>1, <1>3, <1>4
<1> QED BY <1>4, <1>6, <1>7, <1>8 DEF r

LEMMA InsertEmpty ==
  ASSUME NEW x \in AllStamps
  PROVE  InsertIndex(<<>>, x) = <<x>>
<1>1. PICK e : e = <<>>
  OBVIOUS
<1>2. PICK z : z = 0
  OBVIOUS
<1>3. e \in Seq(AllStamps) /\ Len(e) = 0 /\ z \in 0 .. Len(e)
  BY <1>1, <1>2
<1>4. InsertIndex(e, x) = InsertAt(e, z + 1, x)
  <2>1. Place(e, x) = z
    BY <1>1, <1>2 DEF Place
  <2> QED BY <2>1 DEF InsertIndex
<1>5. /\ InsertAt(e, z + 1, x) \in Seq(AllStamps)
      /\ Len(InsertAt(e, z + 1, x)) = Len(e) + 1
      /\ InsertAt(e, z + 1, x)[z + 1] = x
  <2>1. e \in Seq(AllStamps) /\ z \in 0 .. Len(e)
    BY <1>3
  <2>2. InsertAt(e, z + 1, x) \in Seq(AllStamps)
    BY <2>1, InsertShape
  <2>3. Len(InsertAt(e, z + 1, x)) = Len(e) + 1
    BY <2>1, InsertShape
  <2>4. InsertAt(e, z + 1, x)[z + 1] = x
    BY <2>1, InsertShape
  <2> QED BY <2>2, <2>3, <2>4
<1>6. /\ InsertIndex(e, x) \in Seq(AllStamps)
      /\ Len(InsertIndex(e, x)) = 1 /\ InsertIndex(e, x)[1] = x
  BY <1>2, <1>3, <1>4, <1>5
<1>7. <<x>> \in Seq(AllStamps) /\ Len(<<x>>) = 1 /\ <<x>>[1] = x
  OBVIOUS
<1>8. InsertIndex(e, x) = <<x>>
  BY <1>6, <1>7, SeqEqual
<1> QED BY <1>1, <1>8

\* The wav flag of a clip survives another chunk.
LEMMA InsertKeepsWav ==
  ASSUME NEW clip, NEW p, NEW c
  PROVE  /\ InsertClip(clip, p, c).wav = clip.wav
         /\ InsertClip(clip, p, c).cut = (clip.cut \/ clip.wav)
BY DEF InsertClip, Clip

\* A record that goes on with the stored clip.
LEMMA GoesOn ==
  ASSUME TypeInv, IndexInv, NamesInv, ~torn, pc = "record", batch[pos] # Odd,
         ~NewClip(Stamp(batch[pos])), last_key = NoKey
  PROVE  s3_index = <<>>
<1>1. batch[pos] \in Chunks
  BY DEF TypeInv, TypeOK
<1>2. KeyOf(Stamp(batch[pos])) # NoKey
  BY <1>1, ChunkStamp, KeysNat
<1> QED BY <1>2, KeysNat DEF NamesInv, KeyOfIndex, Fresh

LEMMA RecordInsertedNames ==
  ASSUME TypeInv, IndexInv, NamesInv, ~torn, RecordInserted
  PROVE  KeyOfIndex' /\ JobsBehind' /\ InHand'
<1> DEFINE c == batch[pos]
           x == Stamp(c)
           now == Current(x)
<1>1. /\ pc = "record" /\ c # Odd
      /\ ~TooLong(now.clip, Announced[c.take])
      /\ soundclip' = InsertClip(now.clip, Place(now.index, x), c)
      /\ soundclip_index' = InsertIndex(now.index, x)
      /\ key' = now.key
      /\ pc' = IF now.key = NoKey THEN "put_key" ELSE "put_index"
      /\ UNCHANGED <<batch, pos, last_key, s3_index, s3_clip, jobs>>
  BY DEF RecordInserted, external, s3
<1>2. c \in Chunks
  BY <1>1 DEF TypeInv, TypeOK
<1>3. x \in AllStamps /\ x \in Nat /\ KeyOf(x) \in Keys
  BY <1>2, ChunkStamp
<1>4. s3_index \in Seq(AllStamps) /\ Sorted(s3_index)
  BY DEF TypeInv, TypeOK, IndexInv
<1>5. JobsBehind'
  BY <1>1 DEF NamesInv, JobsBehind
<1>6. NewClip(x)' <=> NewClip(x)
  BY <1>1 DEF NewClip
<1>7. Fresh' <=> Fresh
  BY <1>1 DEF Fresh, NewClip
<1>8. CASE NewClip(x)
  <2>1. now.key = NoKey /\ now.index = <<>>
    BY <1>8 DEF Current
  <2>2. pc' = "put_key" /\ soundclip_index' = <<x>>
    BY <1>1, <1>3, <2>1, InsertEmpty
  <2>3. InHand'
    BY <1>1, <1>6, <1>8, <2>2 DEF InHand
  <2>4. KeyOfIndex'
    BY <1>1, <1>7, <2>2 DEF NamesInv, KeyOfIndex
  <2> QED BY <1>5, <2>3, <2>4
<1>9. CASE ~NewClip(x) /\ last_key = NoKey
  <2>1. s3_index = <<>>
    BY <1>1, <1>9, GoesOn
  <2>2. now.key = NoKey /\ now.index = <<>>
    BY <1>9, <2>1 DEF Current
  <2>3. pc' = "put_key" /\ soundclip_index' = <<x>>
    BY <1>1, <1>3, <2>2, InsertEmpty
  <2>4. InHand'
    BY <1>1, <2>1, <2>3 DEF InHand
  <2>5. KeyOfIndex'
    BY <1>1, <1>7, <2>3 DEF NamesInv, KeyOfIndex
  <2> QED BY <1>5, <2>4, <2>5
<1>10. CASE ~NewClip(x) /\ last_key # NoKey
  <2>1. now.key = last_key /\ now.index = s3_index /\ now.clip = s3_clip[last_key]
    BY <1>10 DEF Current
  <2>2. pc' = "put_index" /\ soundclip_index' = InsertIndex(s3_index, x) /\ key' = last_key
    BY <1>1, <1>10, <2>1
  <2>3. /\ soundclip_index' # <<>> /\ x <= Last(soundclip_index') /\ Last(soundclip_index') \in Nat
        /\ s3_index # <<>> => Last(s3_index) <= Last(soundclip_index')
    BY <1>3, <1>4, <2>2, InsertLast
  <2>4. \/ s3_index # <<>> /\ last_key <= KeyOf(Last(s3_index))
        \/ s3_index = <<>> /\ Fresh /\ last_key = KeyOf(x)
    BY <1>1, <1>10 DEF NamesInv, KeyOfIndex, Fresh
  <2>5. key' <= KeyOf(Last(soundclip_index'))
    <3>1. CASE s3_index # <<>> /\ last_key <= KeyOf(Last(s3_index))
      <4>1. Last(s3_index) \in Nat
        BY <1>4, <3>1, LastFacts, AllStampsNat
      <4>2. KeyOf(Last(s3_index)) <= KeyOf(Last(soundclip_index'))
        BY <2>3, <3>1, <4>1, KeyMono
      <4>3. last_key \in Nat /\ KeyOf(Last(s3_index)) \in Nat /\ KeyOf(Last(soundclip_index')) \in Nat
        BY <1>10, <2>3, <4>1, KeysNat, DivFacts, TimeAssumption DEF TypeInv, TypeOK, KeyOf
      <4> QED BY <2>2, <3>1, <4>2, <4>3
    <3>2. CASE s3_index = <<>> /\ Fresh /\ last_key = KeyOf(x)
      BY <1>3, <2>2, <2>3, <3>2, KeyMono
    <3> QED BY <2>4, <3>1, <3>2
  <2>6. ASSUME key' \in jobs
        PROVE  soundclip'.wav /\ Announced[c.take] > Len(s3_clip[key'].blocks)
    <3>1. s3_clip[last_key].wav
      BY <2>2, <2>6 DEF NamesInv, JobsBehind
    <3>2. last_key \in Keys /\ s3_clip[last_key] \in Clips
      BY <1>10 DEF TypeInv, TypeOK
    <3>3. Announced[c.take] \in Nat /\ Len(s3_clip[last_key].blocks) \in Nat
      BY <1>2, <3>2, ChunkStamp, TakesAssumption DEF Clips
    <3>4. Announced[c.take] > Len(s3_clip[last_key].blocks)
      BY <1>1, <2>1, <3>1, <3>3 DEF TooLong
    <3>5. soundclip'.wav
      BY <1>1, <2>1, <3>1, InsertKeepsWav
    <3> QED BY <2>2, <3>4, <3>5
  <2>7. InHand'
    BY <1>1, <2>2, <2>3, <2>5, <2>6 DEF InHand
  <2>8. KeyOfIndex'
    <3>1. CASE s3_index # <<>> /\ last_key <= KeyOf(Last(s3_index))
      BY <1>1, <1>10, <3>1 DEF KeyOfIndex, TypeInv, TypeOK
    <3>2. CASE s3_index = <<>> /\ Fresh
      <4>1. soundclip_index' = <<x>>
        BY <1>3, <2>2, <3>2, InsertEmpty
      <4> QED BY <1>1, <1>7, <2>2, <3>2, <4>1 DEF KeyOfIndex
    <3> QED BY <2>4, <3>1, <3>2
  <2> QED BY <1>5, <2>7, <2>8
<1> QED BY <1>8, <1>9, <1>10

LEMMA PutKeyNames ==
  ASSUME TypeInv, IndexInv, NamesInv, ~torn, PutKey
  PROVE  KeyOfIndex' /\ JobsBehind' /\ InHand'
<1> DEFINE x == Stamp(batch[pos])
<1>1. /\ pc = "put_key" /\ pc' = "put_index"
      /\ key' = KeyOf(soundclip_index[1]) /\ last_key' = key'
      /\ UNCHANGED <<batch, pos, soundclip_index, soundclip, s3_index, s3_clip, jobs>>
  BY DEF PutKey, external
<1>2. soundclip_index = <<x>> /\ (s3_index # <<>> => NewClip(x))
  BY <1>1 DEF NamesInv, InHand
<1>3. batch[pos] \in Chunks
  BY <1>1 DEF TypeInv
<1>4. x \in Nat /\ batch[pos] # Odd /\ KeyOf(x) \in Nat
  BY <1>3, ChunkStamp, KeysNat
<1>5. key' = KeyOf(x) /\ Last(soundclip_index) = x
  BY <1>1, <1>2 DEF Last
<1>6. JobsBehind'
  BY <1>1 DEF NamesInv, JobsBehind
<1>7. KeyOfIndex'
  BY <1>1, <1>2, <1>4, <1>5 DEF KeyOfIndex, Fresh, NewClip
<1>8. s3_index # <<>> => Last(s3_index) \in Nat /\ x - Last(s3_index) > Gap
  BY <1>2, LastFacts, AllStampsNat DEF NewClip, TypeInv, TypeOK
<1>9. key' \notin jobs
  <2> SUFFICES ASSUME key' \in jobs PROVE FALSE
    OBVIOUS
  <2>1. s3_index # <<>> /\ key' <= KeyOf(Last(s3_index))
    BY DEF NamesInv, JobsBehind
  <2>2. KeyOf(Last(s3_index)) < KeyOf(x)
    BY <1>4, <1>8, <2>1, KeyLess
  <2>3. KeyOf(Last(s3_index)) \in Nat
    BY <1>8, <2>1, DivFacts, TimeAssumption DEF KeyOf
  <2> QED BY <1>4, <1>5, <2>1, <2>2, <2>3
<1>10. s3_index # <<>> => Last(s3_index) <= x
  BY <1>4, <1>8, TimeAssumption
<1>11. InHand'
  BY <1>1, <1>4, <1>5, <1>9, <1>10 DEF InHand
<1> QED BY <1>6, <1>7, <1>11

LEMMA PutIndexNames ==
  ASSUME TypeInv, IndexInv, NamesInv, ~torn, PutIndex
  PROVE  KeyOfIndex' /\ JobsBehind' /\ InHand'
<1>1. /\ pc = "put_index" /\ pc' = "put_clip" /\ s3_index' = soundclip_index
      /\ UNCHANGED <<batch, pos, key, soundclip_index, soundclip, last_key, s3_clip, jobs>>
  BY DEF PutIndex, external, locals
<1>2. /\ soundclip_index # <<>> /\ key = last_key /\ key \in Keys
      /\ key <= KeyOf(Last(soundclip_index))
      /\ s3_index # <<>> => Last(s3_index) <= Last(soundclip_index)
  <2>1. key <= KeyOf(Last(soundclip_index)) /\ (s3_index # <<>> => Last(s3_index) <= Last(soundclip_index))
    BY <1>1 DEF NamesInv, InHand
  <2>2. soundclip_index # <<>> /\ key = last_key /\ key \in Keys
    BY <1>1 DEF TypeInv, Putting
  <2> QED BY <2>1, <2>2
<1>3. KeyOfIndex'
  BY <1>1, <1>2 DEF KeyOfIndex
<1>4. ASSUME NEW k \in jobs PROVE k <= KeyOf(Last(soundclip_index))
  <2>1. s3_index # <<>> /\ k <= KeyOf(Last(s3_index)) /\ k \in Nat
    BY KeysNat DEF NamesInv, JobsBehind, TypeInv, TypeOK
  <2>2. Last(s3_index) \in Nat /\ Last(soundclip_index) \in Nat
    BY <1>2, <2>1, LastFacts, AllStampsNat DEF TypeInv, TypeOK
  <2>3. KeyOf(Last(s3_index)) <= KeyOf(Last(soundclip_index))
    BY <1>2, <2>1, <2>2, KeyMono
  <2>4. KeyOf(Last(s3_index)) \in Nat /\ KeyOf(Last(soundclip_index)) \in Nat
    BY <2>2, DivFacts, TimeAssumption DEF KeyOf
  <2> QED BY <2>1, <2>3, <2>4
<1>5. JobsBehind'
  BY <1>1, <1>2, <1>4 DEF NamesInv, JobsBehind
<1>6. InHand'
  BY <1>1 DEF NamesInv, InHand
<1> QED BY <1>3, <1>5, <1>6

LEMMA PutClipNames ==
  ASSUME TypeInv, IndexInv, NamesInv, ~torn, PutClip
  PROVE  KeyOfIndex' /\ JobsBehind' /\ InHand'
<1>1. /\ pc = "put_clip" /\ key = last_key /\ key \in Keys
      /\ s3_clip' = [s3_clip EXCEPT ![key] = soundclip]
      /\ UNCHANGED <<last_key, s3_index, jobs>>
  BY DEF PutClip, TypeInv, Putting
<1>2. key \in jobs => soundclip.wav
  BY <1>1 DEF NamesInv, InHand
<1>3. JobsBehind'
  <2> SUFFICES ASSUME NEW k \in jobs PROVE s3_clip'[k].wav
    BY <1>1 DEF NamesInv, JobsBehind
  <2>1. CASE k = key
    BY <1>1, <1>2, <2>1 DEF TypeInv, TypeOK
  <2>2. CASE k # key
    BY <1>1, <2>2 DEF NamesInv, JobsBehind, TypeInv, TypeOK
  <2> QED BY <2>1, <2>2
<1>4. KeyOfIndex'
  BY <1>1 DEF NamesInv, KeyOfIndex
<1>5. CASE AllArrived
  <2>1. pc' = "put_wav" /\ key' = key
    BY <1>5 DEF PutClip, locals
  <2>2. key \notin jobs
    BY <1>2, <1>5 DEF AllArrived
  <2>3. InHand'
    BY <1>1, <2>1, <2>2 DEF InHand
  <2> QED BY <1>3, <1>4, <2>3
<1>6. CASE ~AllArrived
  <2>1. pc' \in {"record", "idle"}
    BY <1>6 DEF PutClip, NextRecord
  <2>2. InHand'
    BY <2>1 DEF InHand
  <2> QED BY <1>3, <1>4, <2>2
<1> QED BY <1>5, <1>6

LEMMA PutWavNames ==
  ASSUME TypeInv, IndexInv, NamesInv, ~torn, PutWav
  PROVE  KeyOfIndex' /\ JobsBehind' /\ InHand'
<1>1. /\ pc = "put_wav" /\ pc' = "start_job" /\ key \in Keys /\ key \notin jobs
      /\ s3_clip' = [s3_clip EXCEPT ![key] = soundclip'] /\ soundclip'.wav
      /\ UNCHANGED <<batch, pos, key, last_key, s3_index, jobs>>
  BY DEF PutWav, Clip, external, TypeInv, Putting, NamesInv, InHand
<1>2. s3_clip'[key].wav /\ \A k \in jobs : s3_clip'[k] = s3_clip[k]
  BY <1>1 DEF TypeInv, TypeOK
<1>3. JobsBehind' /\ KeyOfIndex'
  BY <1>1, <1>2 DEF NamesInv, JobsBehind, KeyOfIndex
<1>4. InHand'
  BY <1>1, <1>2 DEF InHand
<1> QED BY <1>3, <1>4

LEMMA StartJobNames ==
  ASSUME TypeInv, IndexInv, NamesInv, ~torn, StartJob
  PROVE  KeyOfIndex' /\ JobsBehind' /\ InHand'
<1>1. /\ pc = "start_job" /\ pc' = "wait" /\ key \in Keys /\ key = last_key
      /\ jobs' = jobs \cup {key} /\ s3_clip[key].wav
      /\ UNCHANGED <<last_key, s3_index, s3_clip>>
  BY DEF StartJob, s3, TypeInv, Putting, NamesInv, InHand
<1>2. s3_index # <<>> /\ key <= KeyOf(Last(s3_index))
  BY <1>1, KeysNat DEF NamesInv, KeyOfIndex
<1>3. JobsBehind' /\ KeyOfIndex'
  BY <1>1, <1>2 DEF NamesInv, JobsBehind, KeyOfIndex
<1>4. InHand'
  BY <1>1 DEF InHand
<1> QED BY <1>3, <1>4

\* Nothing is put and the handler waits for a record, or is at one it has not looked at.
LEMMA AtRest ==
  ASSUME NamesInv, ~torn, pc' \in {"idle", "record", "send"}, UNCHANGED <<last_key, s3_index, s3_clip, jobs>>,
         \/ last_key = NoKey /\ s3_index = <<>>
         \/ last_key \in Keys /\ s3_index # <<>> /\ last_key <= KeyOf(Last(s3_index))
  PROVE  KeyOfIndex' /\ JobsBehind' /\ InHand'
BY DEF NamesInv, KeyOfIndex, JobsBehind, InHand

LEMMA RetryNames ==
  ASSUME TypeInv, IndexInv, NamesInv, Retry, ~torn'
  PROVE  KeyOfIndex' /\ JobsBehind' /\ InHand'
<1>1. /\ ~torn /\ ~(pc = "put_index" /\ Len(soundclip_index) = 1 /\ pos > 1)
      /\ pos' = 1 /\ pc' = "record"
      /\ UNCHANGED <<batch, last_key, s3_index, s3_clip, jobs>>
  BY DEF Retry, s3
<1>2. ASSUME pos = 1, Fresh PROVE Fresh'
  BY <1>1, <1>2 DEF Fresh, NewClip
<1>3. ASSUME pc = "put_index", soundclip_index = <<Stamp(batch[pos])>> PROVE pos = 1
  <2>1. Len(soundclip_index) = 1
    BY <1>3
  <2> QED BY <1>1, <1>3, <2>1 DEF TypeInv, TypeOK
<1>4. KeyOfIndex'
  BY <1>1, <1>2, <1>3 DEF NamesInv, KeyOfIndex
<1>5. JobsBehind' /\ InHand'
  BY <1>1 DEF NamesInv, JobsBehind, InHand
<1> QED BY <1>4, <1>5

\* A chunk that begins a clip is not dismissed.
LEMMA RecordDismissedNames ==
  ASSUME TypeInv, IndexInv, NamesInv, ~torn, RecordDismissed
  PROVE  KeyOfIndex' /\ JobsBehind' /\ InHand'
<1> DEFINE c == batch[pos]
<1>1. /\ pc = "record" /\ c # Odd /\ TooLong(Current(Stamp(c)).clip, Announced[c.take])
      /\ pc' \in {"idle", "record"} /\ UNCHANGED <<last_key, s3_index, s3_clip, jobs>>
  BY DEF RecordDismissed, Dismiss, NextRecord, s3
<1>2. c \in Chunks
  BY <1>1 DEF TypeInv, TypeOK
<1>3. Announced[c.take] \in Nat
  BY <1>2, ChunkStamp, TakesAssumption
<1>4. ~TooLong(NoClip, Announced[c.take])
  BY <1>3 DEF TooLong, NoClip, Clip
<1>5. ~Fresh
  <2> SUFFICES ASSUME Fresh PROVE FALSE
    OBVIOUS
  <2>1. Current(Stamp(c)).clip = NoClip
    <3>1. CASE NewClip(Stamp(c))
      BY <3>1 DEF Current
    <3>2. CASE ~NewClip(Stamp(c))
      <4>1. s3_index = <<>> /\ last_key \in Keys
        BY <1>2, <3>2, ChunkStamp DEF Fresh
      <4>2. s3_clip[last_key] = NoClip
        BY <4>1 DEF NamesInv, NothingYet
      <4> QED BY <3>2, <4>1, <4>2 DEF Current
    <3> QED BY <3>1, <3>2
  <2> QED BY <1>1, <1>4, <2>1
<1> QED BY <1>1, <1>5, AtRest DEF NamesInv, KeyOfIndex

LEMMA NamesStep == TypeInv /\ IndexInv /\ NamesInv /\ [Next]_vars => NamesInv'
<1> SUFFICES ASSUME TypeInv, IndexInv, NamesInv, [Next]_vars, ~torn'
             PROVE  KeyOfIndex' /\ JobsBehind' /\ InHand'
  BY NothingStep DEF NamesInv
<1> USE DEF external, locals, s3
<1>1. CASE UNCHANGED vars
  <2>1. Fresh' <=> Fresh
    BY <1>1 DEF vars, Fresh, NewClip
  <2>2. ~torn /\ (\A x : NewClip(x)' <=> NewClip(x))
    BY <1>1 DEF vars, NewClip
  <2> QED BY <1>1, <2>1, <2>2 DEF vars, NamesInv, KeyOfIndex, JobsBehind, InHand
<1>2. CASE Delivery \/ Invoke
  <2>1. /\ ~torn /\ pc = "idle" /\ pc' \in {"idle", "record"}
        /\ UNCHANGED <<last_key, s3_index, s3_clip, jobs>>
    BY <1>2 DEF Delivery, Arrive, ArriveTwice, ArriveOdd, Collecting, Invoke
  <2> QED BY <2>1, AtRest DEF NamesInv, KeyOfIndex
<1>3. CASE Retry
  BY <1>3, RetryNames
<1>4. CASE RecordMismatch
  <2>1. /\ ~torn /\ pc = "record" /\ batch[pos] = Odd /\ pc' = "idle"
        /\ UNCHANGED <<last_key, s3_index, s3_clip, jobs>>
    BY <1>4 DEF RecordMismatch
  <2> QED BY <2>1, AtRest DEF NamesInv, KeyOfIndex, Fresh
<1>5. CASE RecordDismissed
  BY <1>5, RecordDismissedNames DEF RecordDismissed, Dismiss
<1>6. CASE RecordInserted
  BY <1>6, RecordInsertedNames DEF RecordInserted
<1>7. CASE PutKey \/ PutIndex
  BY <1>7, PutKeyNames, PutIndexNames DEF PutKey, PutIndex
<1>8. CASE PutClip
  BY <1>8, PutClipNames DEF PutClip
<1>9. CASE PutWav \/ StartJob
  <2>1. CASE PutWav
    BY <2>1, PutWavNames DEF PutWav, external
  <2>2. CASE StartJob
    BY <2>2, StartJobNames DEF StartJob, external
  <2> QED BY <1>9, <2>1, <2>2
<1>10. CASE JobCompleted \/ JobFailed \/ SendTranscript
  <2>1. /\ ~torn /\ pc \in {"wait", "send"} /\ pc' \in {"idle", "record", "send"}
        /\ UNCHANGED <<last_key, s3_index, s3_clip, jobs>>
    BY <1>10 DEF JobCompleted, JobFailed, SendTranscript, Dismiss, NextRecord
  <2> QED BY <2>1, AtRest DEF NamesInv, KeyOfIndex
<1> QED BY <1>1, <1>2, <1>3, <1>4, <1>5, <1>6, <1>7, <1>8, <1>9, <1>10 DEF Next, Handler

LEMMA IndexInit == Init => IndexInv
BY EmptySorted DEF Init, IndexInv

\* A job never gets a name a job had, for any takes and any number of repeated invocations,
\* unless a new clip was torn (lambda.py 178-196, 219-226). A new clip is farther than the
\* gap from every clip before it, and its key is of a later second.
THEOREM NamesNew == Spec => []JobNamesNew
<1>1. NamesInv => JobNamesNew
  BY DEF NamesInv, InHand, JobNamesNew
<1>2. IndexInv /\ [Next]_vars => IndexInv'
  BY IndexStep
<1> QED BY <1>1, <1>2, TypeInit, TypeStep, IndexInit, NamesInit, NamesStep, PTL DEF Spec

LEMMA FinalStep ==
  ASSUME TypeInv, NamesInv, [Next]_vars, pc = "put_clip", ~torn, NEW k \in jobs
  PROVE  s3_clip'[k] = s3_clip[k] \/ Announced[batch[pos].take] > Len(s3_clip[k].blocks)
<1>1. CASE PutClip
  <2>1. s3_clip' = [s3_clip EXCEPT ![key] = soundclip] /\ k \in Keys
    BY <1>1 DEF PutClip, TypeInv, TypeOK
  <2>2. CASE k = key
    BY <2>2 DEF NamesInv, InHand
  <2>3. CASE k # key
    BY <2>1, <2>3 DEF TypeInv, TypeOK
  <2> QED BY <2>2, <2>3
<1>2. CASE ~PutClip
  <2>1. s3_clip' = s3_clip
    BY <1>2 DEF Next, Handler, vars, s3, Delivery, Arrive, ArriveTwice, ArriveOdd, Collecting,
                Invoke, Retry, RecordMismatch, RecordDismissed, RecordInserted, PutKey, PutIndex,
                PutWav, StartJob, JobCompleted, JobFailed, SendTranscript
  <2> QED BY <2>1
<1> QED BY <1>1, <1>2

\* A clip is not changed after its job was started, except by a chunk that announces more
\* than it has, unless a new clip was torn (lambda.py 151-168, 197-203).
THEOREM ClipFinal == Spec => JobClipFinal
<1>1. TypeInv /\ NamesInv /\ [Next]_vars =>
        [pc = "put_clip" /\ ~torn =>
           \A k \in jobs : \/ s3_clip'[k] = s3_clip[k]
                           \/ Announced[batch[pos].take] > Len(s3_clip[k].blocks)]_vars
  BY FinalStep
<1>2. IndexInv /\ [Next]_vars => IndexInv'
  BY IndexStep
<1> QED BY <1>1, <1>2, TypeInit, TypeStep, IndexInit, NamesInit, NamesStep, PTL
        DEF Spec, JobClipFinal

----------------------------------------------------------------------------
(* What is transcribed                                                      *)

Times(clip) == [i \in DOMAIN clip.blocks |-> Stamp(clip.blocks[i])]

\* Only behind a header is a chunk misplaced.
CutBehindWav ==
  /\ soundclip.cut => soundclip.wav
  /\ \A k \in Keys : s3_clip[k].cut => s3_clip[k].wav
  /\ pc = "put_wav" => ~soundclip.wav
  /\ pc = "start_job" => ~soundclip.cut

\* As long as no invocation was repeated, index and clip go together.
StoredTogether ==
  \/ last_key = NoKey /\ s3_index = <<>>
  \/ last_key \in Keys /\ Times(s3_clip[last_key]) = s3_index

Together ==
  /\ pc \in {"idle", "record"} => StoredTogether
  /\ pc \in {"put_key"} \cup Putting => Times(soundclip) = soundclip_index
  /\ pc \in Putting \ {"put_index"} => s3_index = soundclip_index
  /\ pc \in Putting \ {"put_index", "put_clip"} => s3_clip[key].blocks = soundclip.blocks

SpokenInv == CutBehindWav /\ (faults["retry"] = 0 => Together)

\* The time stamps of a clip.
LEMMA TimesFacts ==
  ASSUME NEW b \in Seq(Chunks)
  PROVE  LET t == [i \in DOMAIN b |-> Stamp(b[i])]
         IN /\ t \in Seq(AllStamps) /\ Len(t) = Len(b)
            /\ \A i \in 1 .. Len(b) : t[i] = Stamp(b[i])
<1> DEFINE t == [i \in DOMAIN b |-> Stamp(b[i])]
<1>1. Len(b) \in Nat /\ DOMAIN b = 1 .. Len(b) /\ \A i \in 1 .. Len(b) : b[i] \in Chunks
  OBVIOUS
<1>2. \A i \in 1 .. Len(b) : Stamp(b[i]) \in AllStamps
  BY <1>1, ChunkStamp
<1>3. t \in Seq(AllStamps)
  BY <1>1, <1>2
<1>4. Len(t) = Len(b)
  BY <1>1
<1> QED BY <1>1, <1>3, <1>4

\* A clip that goes with its index goes with it when a chunk is put into both.
LEMMA InsertTimes ==
  ASSUME NEW clip \in Clips, NEW index \in Seq(AllStamps), Times(clip) = index,
         NEW c \in Chunks
  PROVE  Times(InsertClip(clip, Place(index, Stamp(c)), c)) = InsertIndex(index, Stamp(c))
<1> DEFINE b == clip.blocks
           x == Stamp(c)
           p == Place(index, x)
           d == InsertAt(b, p + 1, c)
           r == InsertAt(index, p + 1, x)
<1>1. b \in Seq(Chunks)
  BY DEF Clips
<1>2. Len(index) = Len(b) /\ \A i \in 1 .. Len(b) : index[i] = Stamp(b[i])
  BY <1>1, TimesFacts DEF Times
<1>3. x \in AllStamps /\ x \in Nat
  BY ChunkStamp
<1>4. p \in 0 .. Len(index)
  BY <1>3, PlaceRange
<1>5. InsertClip(clip, p, c).blocks = d
  <2>1. CASE p < Len(b)
    BY <2>1 DEF InsertClip, Clip
  <2>2. CASE ~(p < Len(b))
    <3>1. p = Len(b)
      BY <1>1, <1>2, <1>4, <2>2
    <3> QED BY <2>2, <3>1 DEF InsertClip, Clip
  <2> QED BY <2>1, <2>2
<1>6. InsertIndex(index, x) = r
  BY DEF InsertIndex
<1> HIDE DEF b, p, x
<1>7. /\ d \in Seq(Chunks) /\ Len(d) = Len(b) + 1 /\ d[p + 1] = c
      /\ \A i \in 1 .. Len(b) + 1 : i <= p => d[i] = b[i]
      /\ \A i \in 1 .. Len(b) + 1 : i > p + 1 => d[i] = b[i - 1]
  <2>1. p \in 0 .. Len(b)
    BY <1>2, <1>4
  <2>2. d \in Seq(Chunks) /\ Len(d) = Len(b) + 1
    BY <1>1, <2>1, InsertShape
  <2>3. d[p + 1] = c
    BY <1>1, <2>1, InsertShape
  <2>4. /\ \A i \in 1 .. Len(b) + 1 : i <= p => d[i] = b[i]
        /\ \A i \in 1 .. Len(b) + 1 : i > p + 1 => d[i] = b[i - 1]
    BY <1>1, <2>1, InsertShape
  <2> QED BY <2>2, <2>3, <2>4
<1>8. /\ r \in Seq(AllStamps) /\ Len(r) = Len(index) + 1 /\ r[p + 1] = x
      /\ \A i \in 1 .. Len(index) + 1 : i <= p => r[i] = index[i]
      /\ \A i \in 1 .. Len(index) + 1 : i > p + 1 => r[i] = index[i - 1]
  <2>1. r \in Seq(AllStamps) /\ Len(r) = Len(index) + 1
    BY <1>3, <1>4, InsertShape
  <2>2. r[p + 1] = x
    BY <1>3, <1>4, InsertShape
  <2>3. /\ \A i \in 1 .. Len(index) + 1 : i <= p => r[i] = index[i]
        /\ \A i \in 1 .. Len(index) + 1 : i > p + 1 => r[i] = index[i - 1]
    BY <1>3, <1>4, InsertShape
  <2> QED BY <2>1, <2>2, <2>3
<1> HIDE DEF d, r
<1> DEFINE t == [i \in DOMAIN d |-> Stamp(d[i])]
<1>9. t \in Seq(AllStamps) /\ Len(t) = Len(d) /\ \A i \in 1 .. Len(d) : t[i] = Stamp(d[i])
  BY <1>7, TimesFacts
<1>10. Times(InsertClip(clip, p, c)) = t
  BY <1>5 DEF Times
<1> HIDE DEF t
<1>11. ASSUME NEW i \in 1 .. Len(t) PROVE t[i] = r[i]
  <2>1. /\ i \in 1 .. Len(b) + 1 /\ i \in 1 .. Len(index) + 1 /\ t[i] = Stamp(d[i])
        /\ Len(b) \in Nat /\ p \in Nat /\ p <= Len(b)
    BY <1>1, <1>2, <1>4, <1>7, <1>9
  <2>2. CASE i <= p
    <3>1. i \in 1 .. Len(b) /\ d[i] = b[i] /\ r[i] = index[i]
      BY <1>7, <1>8, <2>1, <2>2
    <3> QED BY <1>2, <2>1, <3>1
  <2>3. CASE i = p + 1
    BY <1>7, <1>8, <2>1, <2>3 DEF x
  <2>4. CASE i > p + 1
    <3>1. i - 1 \in 1 .. Len(b) /\ d[i] = b[i - 1] /\ r[i] = index[i - 1]
      BY <1>7, <1>8, <2>1, <2>4
    <3> QED BY <1>2, <2>1, <3>1
  <2> QED BY <2>1, <2>2, <2>3, <2>4
<1>12. t = r
  <2>1. Len(t) = Len(r)
    BY <1>2, <1>7, <1>8, <1>9
  <2> QED BY <1>8, <1>9, <1>11, <2>1, SeqEqual
<1> QED BY <1>6, <1>10, <1>12 DEF p, x

LEMMA NoTimes == Times(NoClip) = <<>>
BY DEF Times, NoClip, Clip

LEMMA SpokenInit == Init => SpokenInv
BY DEF Init, SpokenInv, CutBehindWav, Together, StoredTogether, NoClip, Clip, Putting

LEMMA CutStep == ASSUME TypeInv, CutBehindWav, [Next]_vars PROVE CutBehindWav'
<1> USE DEF external, locals, s3
<1>0. NoClip.cut = FALSE
  BY DEF NoClip, Clip
<1>1. CASE UNCHANGED vars
  BY <1>1 DEF vars, CutBehindWav
<1>2. CASE Delivery \/ Invoke \/ Retry
  BY <1>0, <1>2 DEF Delivery, Arrive, ArriveTwice, ArriveOdd, Collecting, Invoke, Retry, CutBehindWav
<1>3. CASE RecordMismatch \/ RecordDismissed \/ JobFailed \/ SendTranscript
  BY <1>0, <1>3 DEF RecordMismatch, RecordDismissed, JobFailed, SendTranscript, Dismiss, NextRecord,
                    CutBehindWav
<1>4. CASE RecordInserted
  <2> DEFINE now == Current(Stamp(batch[pos]))
  <2>1. /\ soundclip' = InsertClip(now.clip, Place(now.index, Stamp(batch[pos])), batch[pos])
        /\ pc' \in {"put_key", "put_index"} /\ UNCHANGED s3_clip
    BY <1>4 DEF RecordInserted
  <2>2. now.clip = NoClip \/ (last_key \in Keys /\ now.clip = s3_clip[last_key])
    <3>1. last_key \in Keys \/ last_key = NoKey
      BY DEF TypeInv, TypeOK
    <3> QED BY <3>1 DEF Current
  <2>3. now.clip.cut => now.clip.wav
    BY <1>0, <2>2 DEF CutBehindWav
  <2> HIDE DEF now
  <2>4. soundclip'.wav = now.clip.wav /\ soundclip'.cut = (now.clip.cut \/ now.clip.wav)
    BY <2>1, InsertKeepsWav
  <2> QED BY <2>1, <2>3, <2>4 DEF CutBehindWav
<1>5. CASE PutKey \/ PutIndex \/ StartJob \/ JobCompleted
  BY <1>5 DEF PutKey, PutIndex, StartJob, JobCompleted, CutBehindWav
<1>6. CASE PutClip
  <2>1. \A k \in Keys : s3_clip'[k] = soundclip \/ s3_clip'[k] = s3_clip[k]
    BY <1>6 DEF PutClip, TypeInv, TypeOK
  <2>2. \A k \in Keys : s3_clip'[k].cut => s3_clip'[k].wav
    BY <2>1 DEF CutBehindWav
  <2> QED BY <1>0, <1>6, <2>2 DEF PutClip, AllArrived, NextRecord, CutBehindWav
<1>7. CASE PutWav
  <2>1. /\ soundclip'.wav /\ soundclip'.cut = soundclip.cut /\ pc' = "start_job"
        /\ ~soundclip.cut
    BY <1>7 DEF PutWav, Clip, CutBehindWav
  <2>2. \A k \in Keys : s3_clip'[k] = soundclip' \/ s3_clip'[k] = s3_clip[k]
    BY <1>7 DEF PutWav, TypeInv, TypeOK
  <2> QED BY <2>1, <2>2 DEF CutBehindWav
<1> QED BY <1>1, <1>2, <1>3, <1>4, <1>5, <1>6, <1>7 DEF Next, Handler

LEMMA TogetherStep ==
  ASSUME TypeInv, Together, [Next]_vars, ~Retry PROVE Together'
<1> USE DEF external, locals, s3
<1>1. CASE UNCHANGED vars
  BY <1>1 DEF vars, Together, StoredTogether, Times
<1>2. CASE Delivery \/ Invoke
  <2>1. /\ pc = "idle" /\ pc' \in {"idle", "record"}
        /\ UNCHANGED <<last_key, s3_index, s3_clip>>
    BY <1>2 DEF Delivery, Arrive, ArriveTwice, ArriveOdd, Collecting, Invoke
  <2> QED BY <2>1 DEF Together, StoredTogether, Times, Putting
<1>3. CASE RecordMismatch \/ RecordDismissed
  <2>1. /\ pc = "record" /\ pc' \in {"idle", "record"}
        /\ UNCHANGED <<last_key, s3_index, s3_clip>>
    BY <1>3 DEF RecordMismatch, RecordDismissed, Dismiss, NextRecord
  <2> QED BY <2>1 DEF Together, StoredTogether, Times, Putting
<1>4. CASE RecordInserted
  <2> DEFINE c == batch[pos]
             now == Current(Stamp(c))
  <2>1. /\ pc = "record" /\ c # Odd /\ pc' \in {"put_key", "put_index"}
        /\ soundclip' = InsertClip(now.clip, Place(now.index, Stamp(c)), c)
        /\ soundclip_index' = InsertIndex(now.index, Stamp(c))
    BY <1>4 DEF RecordInserted
  <2>2. c \in Chunks
    BY <2>1 DEF TypeInv, TypeOK
  <2>3. now.index \in Seq(AllStamps) /\ now.clip \in Clips
    BY CurrentType DEF TypeInv
  <2>4. Times(now.clip) = now.index
    <3>1. StoredTogether /\ NoKey \notin Keys
      BY <2>1, KeysNat DEF Together
    <3> QED BY <3>1, NoTimes DEF StoredTogether, Current
  <2> HIDE DEF now, c
  <2>5. Times(soundclip') = soundclip_index'
    BY <2>1, <2>2, <2>3, <2>4, InsertTimes
  <2> QED BY <2>1, <2>5 DEF Together, Putting, Times
<1>5. CASE PutKey \/ PutIndex
  BY <1>5 DEF PutKey, PutIndex, Together, Putting, Times
<1>6. CASE PutClip
  <2>1. /\ pc = "put_clip" /\ key \in Keys /\ key = last_key
        /\ s3_clip' = [s3_clip EXCEPT ![key] = soundclip]
        /\ UNCHANGED <<last_key, s3_index>>
    BY <1>6 DEF PutClip, TypeInv, Putting
  <2>2. s3_clip'[key] = soundclip
    BY <2>1 DEF TypeInv, TypeOK
  <2>3. Times(soundclip) = s3_index /\ s3_index = soundclip_index
    BY <2>1 DEF Together, Putting
  <2>4. CASE AllArrived
    <3>1. pc' = "put_wav" /\ UNCHANGED <<key, soundclip, soundclip_index>>
      BY <1>6, <2>4 DEF PutClip
    <3> QED BY <2>1, <2>2, <2>3, <3>1 DEF Together, Putting, Times
  <2>5. CASE ~AllArrived
    <3>1. pc' \in {"idle", "record"}
      BY <1>6, <2>5 DEF PutClip, NextRecord
    <3>2. StoredTogether'
      BY <2>1, <2>2, <2>3 DEF StoredTogether, Times
    <3> QED BY <3>1, <3>2 DEF Together, Putting
  <2> QED BY <2>4, <2>5
<1>7. CASE PutWav
  <2>1. /\ pc = "put_wav" /\ pc' = "start_job" /\ key \in Keys
        /\ soundclip'.blocks = soundclip.blocks
        /\ s3_clip' = [s3_clip EXCEPT ![key] = soundclip']
        /\ UNCHANGED <<key, last_key, s3_index, soundclip_index>>
    BY <1>7 DEF PutWav, Clip, TypeInv, Putting
  <2>2. s3_clip'[key] = soundclip'
    BY <2>1 DEF TypeInv, TypeOK
  <2> QED BY <2>1, <2>2 DEF Together, Putting, Times
<1>8. CASE StartJob \/ JobCompleted
  BY <1>8 DEF StartJob, JobCompleted, Together, Putting, Times
<1>9. CASE JobFailed \/ SendTranscript
  <2>1. /\ pc \in {"wait", "send"} /\ pc' \in {"idle", "record"}
        /\ UNCHANGED <<last_key, s3_index, s3_clip>>
    BY <1>9 DEF JobFailed, SendTranscript, Dismiss, NextRecord
  <2>2. key \in Keys /\ key = last_key /\ Times(s3_clip[last_key]) = s3_index
    BY <2>1 DEF TypeInv, Putting, Together, Times
  <2> QED BY <2>1, <2>2 DEF Together, StoredTogether, Putting, Times
<1> QED BY <1>1, <1>2, <1>3, <1>4, <1>5, <1>6, <1>7, <1>8, <1>9 DEF Next, Handler

\* Only a repeated invocation counts as one.
LEMMA RetryCounted ==
  ASSUME TypeInv, [Next]_vars, faults'["retry"] = 0
  PROVE  faults["retry"] = 0 /\ ~Retry
<1>1. faults \in [Faults -> Nat]
  BY DEF TypeInv, TypeOK
<1>2. ~Retry
  BY <1>1 DEF Retry, Fault, Faults
<1>3. \A f \in Faults \ {"retry"} : Fault(f) => faults'["retry"] = faults["retry"]
  BY <1>1 DEF Fault
<1>4. CASE Delivery
  <2>1. {"overtaken", "duplicate", "odd"} \subseteq Faults \ {"retry"}
    BY DEF Faults
  <2>2. faults' = faults \/ Fault("overtaken") \/ Fault("duplicate") \/ Fault("odd")
    BY <1>4 DEF Delivery, Arrive, ArriveTwice, ArriveOdd
  <2>3. faults'["retry"] = faults["retry"]
    BY <1>3, <2>1, <2>2
  <2> QED BY <1>2, <2>3
<1>5. CASE ~Delivery
  <2>1. faults' = faults
    BY <1>2, <1>5 DEF Next, Handler, vars, external, Invoke, RecordMismatch, RecordDismissed,
                      RecordInserted, Dismiss, PutKey, PutIndex, PutClip, PutWav, StartJob,
                      JobCompleted, JobFailed, SendTranscript
  <2> QED BY <1>2, <2>1
<1> QED BY <1>2, <1>4, <1>5

LEMMA SpokenStep == TypeInv /\ SpokenInv /\ [Next]_vars => SpokenInv'
<1> SUFFICES ASSUME TypeInv, SpokenInv, [Next]_vars PROVE SpokenInv'
  OBVIOUS
<1>1. CutBehindWav'
  BY CutStep DEF SpokenInv
<1>2. ASSUME faults'["retry"] = 0 PROVE Together'
  BY <1>2, RetryCounted, TogetherStep DEF SpokenInv
<1> QED BY <1>1, <1>2 DEF SpokenInv

\* What is transcribed is in the order in which it was spoken and not cut by a misplaced
\* header, whatever order, repetition and overlap the chunks came in, as long as no
\* invocation was repeated (lambda.py 131-203): index and clip grow at the same place, for
\* any clips.
THEOREM Spoken == Spec => []SpokenInOrder
<1>1. TypeInv /\ IndexInv /\ SpokenInv => SpokenInOrder
  BY DEF IndexInv, SpokenInv, CutBehindWav, Together, Putting, Times, SpokenInOrder
<1>2. IndexInv /\ [Next]_vars => IndexInv'
  BY IndexStep
<1> QED BY <1>1, <1>2, TypeInit, TypeStep, IndexInit, SpokenInit, SpokenStep, PTL DEF Spec

----------------------------------------------------------------------------
(* The promise                                                              *)

\* The chunks of a stored clip.
Of(k) == ToSet(s3_clip[k].blocks)

\* The gap tells the takes apart: a chunk that begins a clip is the first of its take, one
\* that goes on with the clip is of its take.
TakesTold ==
  pc = "record" /\ batch[pos] # Odd /\ s3_index # <<>> =>
    IF NewClip(Stamp(batch[pos])) THEN \A c \in HeardChunks : c.take # batch[pos].take
                                  ELSE \A c \in Of(last_key) : c.take = batch[pos].take

NothingTwice == faults["duplicate"] = 0 /\ faults["retry"] = 0

\* The first record that has not been put yet.
Left == IF pc \in {"idle", "record", "put_key", "put_index", "put_clip"} THEN pos ELSE pos + 1

\* A chunk is on its way, or in the batch, or in a clip.
Once ==
  /\ \A i \in DOMAIN batch : batch[i] \notin flight
  /\ \A i, j \in DOMAIN batch : i # j /\ batch[i] = batch[j] => batch[i] = Odd
  /\ \A k \in Keys : \A c \in Of(k) :
       c \notin flight /\ \A i \in DOMAIN batch : i >= Left => batch[i] # c

\* A clip has chunks of one take, and all of that take that were heard.
OneTake == \A k, l \in Keys : \A c \in Of(k), d \in Of(l) : c.take = d.take <=> k = l

\* No key is later than the index.
KeysBehind ==
  \A k \in Keys : Of(k) # {} => s3_index # <<>> /\ k <= KeyOf(Last(s3_index))

\* No chunk is in a clip twice, and a clip has its header when it is complete.
Kept(k) ==
  /\ IsFiniteSet(Of(k)) /\ Cardinality(Of(k)) = Len(s3_clip[k].blocks)
  /\ s3_clip[k].wav => Of(k) # {}
  /\ \A c \in Of(k) : Announced[c.take] = Len(s3_clip[k].blocks)
                        <=> s3_clip[k].wav \/ (pc = "put_wav" /\ k = key)

\* The clip in the handler's hands is the stored one and the chunk at hand.
OneMore ==
  /\ ToSet(soundclip.blocks) = Of(key) \cup {batch[pos]}
  /\ Len(soundclip.blocks) = Len(s3_clip[key].blocks) + 1
  /\ ~soundclip.wav /\ ~s3_clip[key].wav
  /\ Of(key) = {} \/ Len(s3_clip[key].blocks) < Announced[batch[pos].take]
  /\ \A k \in Keys : \A d \in Of(k) : d.take = batch[pos].take <=> k = key

Taken ==
  /\ pc = "put_key" => /\ soundclip.blocks = <<batch[pos]>> /\ ~soundclip.wav
                       /\ \A k \in Keys : \A d \in Of(k) : d.take # batch[pos].take
  /\ pc \in {"put_index", "put_clip"} => OneMore
  /\ pc = "put_wav" => s3_clip[key].blocks = soundclip.blocks /\ Of(key) # {}
  /\ pc = "start_job" => s3_clip[key].wav

PromiseInv == ~torn /\ Once /\ OneTake /\ KeysBehind /\ (\A k \in Keys : Kept(k)) /\ Taken

LEMMA OfFacts ==
  ASSUME TypeInv, NEW k \in Keys
  PROVE  /\ s3_clip[k] \in Clips /\ s3_clip[k].blocks \in Seq(Chunks)
         /\ s3_clip[k].wav \in BOOLEAN /\ Len(s3_clip[k].blocks) \in Nat
         /\ Of(k) \subseteq Chunks
         /\ Of(k) = {} <=> s3_clip[k].blocks = <<>>
         /\ Of(k) # {} => 1 \in DOMAIN s3_clip[k].blocks /\ s3_clip[k].blocks[1] \in Of(k)
<1>1. s3_clip[k] \in Clips
  BY DEF TypeInv, TypeOK
<1>2. s3_clip[k].blocks \in Seq(Chunks) /\ s3_clip[k].wav \in BOOLEAN
  BY <1>1 DEF Clips
<1>3. PICK b : b = s3_clip[k].blocks
  OBVIOUS
<1>4. b \in Seq(Chunks) /\ Len(b) \in Nat /\ DOMAIN b = 1 .. Len(b)
  BY <1>2, <1>3
<1>5. Of(k) = {b[i] : i \in 1 .. Len(b)}
  BY <1>3, <1>4 DEF Of, ToSet
<1>6. Of(k) \subseteq Chunks
  BY <1>4, <1>5
<1>7. b = <<>> <=> Len(b) = 0
  BY <1>4
<1>8. Of(k) = {} <=> b = <<>>
  BY <1>4, <1>5, <1>7
<1>9. Of(k) # {} => 1 \in DOMAIN b /\ b[1] \in Of(k)
  BY <1>4, <1>5
<1> QED BY <1>1, <1>2, <1>3, <1>4, <1>6, <1>8, <1>9

\* What is in a clip when a chunk is put into it.
LEMMA InsertSet ==
  ASSUME NEW clip \in Clips, NEW p \in Nat, NEW c \in Chunks
  PROVE  /\ ToSet(InsertClip(clip, p, c).blocks) = ToSet(clip.blocks) \cup {c}
         /\ Len(InsertClip(clip, p, c).blocks) = Len(clip.blocks) + 1
<1>1. PICK b : b = clip.blocks
  OBVIOUS
<1>2. b \in Seq(Chunks) /\ Len(b) \in Nat /\ DOMAIN b = 1 .. Len(b)
  BY <1>1 DEF Clips
<1>3. PICK q : q = IF p < Len(b) THEN p ELSE Len(b)
  OBVIOUS
<1>4. q \in 0 .. Len(b)
  <2>1. CASE p < Len(b)
    BY <1>2, <1>3, <2>1
  <2>2. CASE ~(p < Len(b))
    BY <1>2, <1>3, <2>2
  <2> QED BY <2>1, <2>2
<1>5. PICK d : d = InsertAt(b, q + 1, c)
  OBVIOUS
<1>6. InsertClip(clip, p, c).blocks = d
  BY <1>1, <1>3, <1>5 DEF InsertClip, Clip
<1>7. d \in Seq(Chunks) /\ Len(d) = Len(b) + 1 /\ d[q + 1] = c
  <2>1. InsertAt(b, q + 1, c) \in Seq(Chunks) /\ Len(InsertAt(b, q + 1, c)) = Len(b) + 1
    BY <1>2, <1>4, InsertShape
  <2>2. InsertAt(b, q + 1, c)[q + 1] = c
    BY <1>2, <1>4, InsertShape
  <2> QED BY <1>5, <2>1, <2>2
<1>8. /\ \A i \in 1 .. Len(b) + 1 : i <= q => d[i] = b[i]
      /\ \A i \in 1 .. Len(b) + 1 : i > q + 1 => d[i] = b[i - 1]
  <2>1. b \in Seq(Chunks) /\ q \in 0 .. Len(b)
    BY <1>2, <1>4
  <2>2. /\ \A i \in 1 .. Len(b) + 1 : i <= q => InsertAt(b, q + 1, c)[i] = b[i]
        /\ \A i \in 1 .. Len(b) + 1 : i > q + 1 => InsertAt(b, q + 1, c)[i] = b[i - 1]
    BY <2>1, InsertShape
  <2> QED BY <1>5, <2>2
<1>9. DOMAIN d = 1 .. Len(b) + 1
  BY <1>7
<1>10. ToSet(d) \subseteq ToSet(b) \cup {c}
  <2> SUFFICES ASSUME NEW i \in 1 .. Len(b) + 1 PROVE d[i] \in ToSet(b) \cup {c}
    BY <1>9 DEF ToSet
  <2>1. CASE i <= q
    <3>1. i \in 1 .. Len(b)
      BY <1>2, <1>4, <2>1
    <3> QED BY <1>2, <1>8, <2>1, <3>1 DEF ToSet
  <2>2. CASE i = q + 1
    BY <1>7, <2>2
  <2>3. CASE i > q + 1
    <3>1. PICK j : j = i - 1
      OBVIOUS
    <3>2. j \in 1 .. Len(b) /\ d[i] = b[j]
      BY <1>2, <1>4, <1>8, <2>3, <3>1
    <3> QED BY <1>2, <3>2 DEF ToSet
  <2> QED BY <1>2, <1>4, <2>1, <2>2, <2>3
<1>11. ToSet(b) \cup {c} \subseteq ToSet(d)
  <2>1. ASSUME NEW i \in 1 .. Len(b) PROVE b[i] \in ToSet(d)
    <3>1. CASE i <= q
      <4>1. i \in 1 .. Len(b) + 1 /\ d[i] = b[i]
        BY <1>2, <1>8, <3>1
      <4> QED BY <1>9, <4>1 DEF ToSet
    <3>2. CASE ~(i <= q)
      <4>1. PICK j : j = i + 1
        OBVIOUS
      <4>2. j \in 1 .. Len(b) + 1 /\ j > q + 1 /\ j - 1 = i
        BY <1>2, <1>4, <3>2, <4>1
      <4>3. d[j] = b[i]
        BY <1>8, <4>2
      <4> QED BY <1>9, <4>2, <4>3 DEF ToSet
    <3> QED BY <3>1, <3>2
  <2>2. c \in ToSet(d)
    <3>1. q + 1 \in 1 .. Len(b) + 1
      BY <1>2, <1>4
    <3> QED BY <1>7, <1>9, <3>1 DEF ToSet
  <2> QED BY <1>2, <2>1, <2>2 DEF ToSet
<1> QED BY <1>1, <1>6, <1>7, <1>10, <1>11

LEMMA PromiseInit == Init => PromiseInv
<1> SUFFICES ASSUME Init PROVE PromiseInv
  OBVIOUS
<1>1. \A k \in Keys : s3_clip[k].blocks = <<>> /\ ~s3_clip[k].wav
  BY DEF Init, NoClip, Clip
<1>2. \A k \in Keys : Of(k) = {}
  BY <1>1, TypeInit, OfFacts
<1>3. ~torn /\ pc = "idle" /\ batch = <<>>
  BY DEF Init
<1>4. Once
  BY <1>2, <1>3 DEF Once
<1>5. \A k \in Keys : Kept(k)
  BY <1>1, <1>2, FS_EmptySet DEF Kept
<1> QED BY <1>2, <1>3, <1>4, <1>5 DEF PromiseInv, OneTake, KeysBehind, Taken

\* What is in the clips does not change when they are not put.
LEMMA SameClips ==
  ASSUME PromiseInv, UNCHANGED <<s3_clip, s3_index, torn>>,
         pc # "put_wav" /\ pc' # "put_wav"
  PROVE  ~torn' /\ OneTake' /\ KeysBehind' /\ (\A k \in Keys : Kept(k)')
<1>1. \A k : Of(k)' = Of(k)
  BY DEF Of
<1>2. ASSUME NEW k \in Keys PROVE Kept(k)'
  BY <1>1 DEF PromiseInv, Kept
<1> QED BY <1>1, <1>2 DEF PromiseInv, OneTake, KeysBehind

LEMMA AppendFacts ==
  ASSUME NEW S, NEW s \in Seq(S), NEW x \in S
  PROVE  /\ DOMAIN Append(s, x) = DOMAIN s \cup {Len(s) + 1}
         /\ Len(s) + 1 \notin DOMAIN s
         /\ \A i \in DOMAIN s : Append(s, x)[i] = s[i]
         /\ Append(s, x)[Len(s) + 1] = x
OBVIOUS

LEMMA DeliveryPromise ==
  ASSUME TypeInv, PromiseInv, Delivery \/ Invoke, faults'["duplicate"] = 0
  PROVE  PromiseInv'
<1>1. pc = "idle" /\ pos = 1 /\ pc' \in {"idle", "record"} /\ pos' = pos
  BY DEF Delivery, Arrive, ArriveTwice, ArriveOdd, Collecting, Invoke, TypeInv, TypeOK
<1>2. UNCHANGED <<s3_clip, s3_index, torn>>
  BY DEF Delivery, Arrive, ArriveTwice, ArriveOdd, Collecting, Invoke, s3, external
<1>3. ~torn' /\ OneTake' /\ KeysBehind' /\ (\A k \in Keys : Kept(k)')
  BY <1>1, <1>2, SameClips
<1>4. Taken'
  BY <1>1 DEF Taken
<1>5. Left = 1 /\ Left' = 1 /\ \A k : Of(k)' = Of(k)
  BY <1>1, <1>2 DEF Left, Of
<1>6. batch \in Seq(Chunks \cup {Odd}) /\ flight \subseteq Chunks
  BY DEF TypeInv, TypeOK
<1>7. Odd \notin Chunks
  BY ChunkStamp
<1>8. ASSUME Invoke PROVE Once'
  <2>1. UNCHANGED <<flight, batch>>
    BY <1>8 DEF Invoke, external
  <2> QED BY <1>5, <2>1 DEF PromiseInv, Once
<1>9. ASSUME NEW c \in Chunks, Arrive(c) PROVE Once'
  <2>1. c \in flight /\ flight' = flight \ {c} /\ batch' = Append(batch, c)
    BY <1>9 DEF Arrive
  <2>2. PICK n : n = Len(batch) + 1
    OBVIOUS
  <2>3. /\ DOMAIN batch' = DOMAIN batch \cup {n} /\ n \notin DOMAIN batch
        /\ \A i \in DOMAIN batch : batch'[i] = batch[i]
        /\ batch'[n] = c
    BY <1>6, <2>1, <2>2, AppendFacts
  <2>4. /\ \A i \in DOMAIN batch : batch[i] # c
        /\ \A k \in Keys : \A d \in Of(k) : d # c
    BY <2>1 DEF PromiseInv, Once
  <2>5. \A i \in DOMAIN batch' : batch'[i] \notin flight'
    BY <2>1, <2>3 DEF PromiseInv, Once
  <2>6. \A i, j \in DOMAIN batch' : i # j /\ batch'[i] = batch'[j] => batch'[i] = Odd
    BY <2>3, <2>4 DEF PromiseInv, Once
  <2>7. \A i \in DOMAIN batch : i >= 1
    BY <1>6
  <2>8. ASSUME NEW k \in Keys, NEW d \in Of(k)
        PROVE  d \notin flight' /\ \A i \in DOMAIN batch' : batch'[i] # d
    BY <1>5, <2>1, <2>3, <2>4, <2>7 DEF PromiseInv, Once
  <2> QED BY <1>5, <2>5, <2>6, <2>8 DEF Once
<1>10. ASSUME ArriveOdd PROVE Once'
  <2>1. flight' = flight /\ batch' = Append(batch, Odd)
    BY <1>10 DEF ArriveOdd
  <2>2. PICK n : n = Len(batch) + 1
    OBVIOUS
  <2>3. /\ DOMAIN batch' = DOMAIN batch \cup {n} /\ n \notin DOMAIN batch
        /\ \A i \in DOMAIN batch : batch'[i] = batch[i]
        /\ batch'[n] = Odd
    BY <1>6, <2>1, <2>2, AppendFacts
  <2>5. \A i \in DOMAIN batch' : batch'[i] \notin flight'
    BY <1>6, <1>7, <2>1, <2>3 DEF PromiseInv, Once
  <2>6. \A i, j \in DOMAIN batch' : i # j /\ batch'[i] = batch'[j] => batch'[i] = Odd
    BY <2>3 DEF PromiseInv, Once
  <2>7. \A i \in DOMAIN batch : i >= 1
    BY <1>6
  <2>8. ASSUME NEW k \in Keys, NEW d \in Of(k)
        PROVE  d \notin flight' /\ \A i \in DOMAIN batch' : batch'[i] # d
    <3>1. d # Odd
      BY <1>7, OfFacts
    <3>2. d \notin flight /\ \A i \in DOMAIN batch : batch[i] # d
      BY <1>5, <2>7 DEF PromiseInv, Once
    <3> QED BY <2>1, <2>3, <3>1, <3>2
  <2>9. \A k \in Keys : \A d \in Of(k)' : d \notin flight' /\ \A i \in DOMAIN batch' : batch'[i] # d
    BY <1>5, <2>8
  <2> QED BY <2>5, <2>6, <2>9 DEF Once
<1>11. \A c \in Chunks : ~ArriveTwice(c)
  BY DEF ArriveTwice, Fault, TypeInv, TypeOK, Faults
<1>12. Once'
  <2>1. CASE Invoke
    BY <1>8, <2>1
  <2>2. CASE Delivery
    <3>1. ArriveOdd \/ \E c \in Chunks : Arrive(c)
      BY <1>11, <2>2 DEF Delivery
    <3> QED BY <1>9, <1>10, <3>1
  <2> QED BY <2>1, <2>2
<1> QED BY <1>3, <1>4, <1>12 DEF PromiseInv

\* Going on to the next record.
LEMMA NextRecordOnce ==
  ASSUME TypeInv, PromiseInv, pc # "idle", NextRecord, UNCHANGED <<flight, s3_clip>>
  PROVE  Once'
<1>1. \A k : Of(k)' = Of(k)
  BY DEF Of
<1>2. CASE batch' = <<>>
  BY <1>1, <1>2 DEF PromiseInv, Once
<1>3. CASE batch' # <<>>
  <2>1. batch' = batch /\ pos' = pos + 1 /\ pc' = "record"
    BY <1>3 DEF NextRecord
  <2>2. Left' = pos + 1 /\ Left <= pos + 1 /\ Left \in Nat
    BY <2>1 DEF Left, TypeInv, TypeOK
  <2>3. \A i \in DOMAIN batch : i >= pos + 1 => i >= Left
    BY <2>2 DEF TypeInv, TypeOK
  <2> QED BY <1>1, <2>1, <2>2, <2>3 DEF PromiseInv, Once
<1> QED BY <1>2, <1>3

LEMMA DismissPromise ==
  ASSUME TypeInv, PromiseInv, RecordMismatch \/ RecordDismissed \/ JobFailed \/ SendTranscript
  PROVE  PromiseInv'
<1>1. /\ pc \in {"record", "wait", "send"} /\ pc' \in {"idle", "record"}
      /\ UNCHANGED <<flight, s3_clip, s3_index, torn>>
  BY DEF RecordMismatch, RecordDismissed, JobFailed, SendTranscript, Dismiss, NextRecord, s3
<1>2. ~torn' /\ OneTake' /\ KeysBehind' /\ (\A k \in Keys : Kept(k)')
  BY <1>1, SameClips
<1>3. Taken'
  BY <1>1 DEF Taken
<1>4. Once'
  <2>1. CASE RecordMismatch
    <3>1. batch' = <<>> /\ \A k : Of(k)' = Of(k)
      BY <2>1 DEF RecordMismatch, Of, s3
    <3> QED BY <1>1, <3>1 DEF PromiseInv, Once
  <2>2. CASE ~RecordMismatch
    BY <1>1, <2>2, NextRecordOnce DEF RecordDismissed, JobFailed, SendTranscript, Dismiss
  <2> QED BY <2>1, <2>2
<1> QED BY <1>2, <1>3, <1>4 DEF PromiseInv

LEMMA WaitPromise ==
  ASSUME TypeInv, PromiseInv, StartJob \/ JobCompleted
  PROVE  PromiseInv'
<1>1. /\ pc \in {"start_job", "wait"} /\ pc' \in {"wait", "send"}
      /\ UNCHANGED <<flight, batch, pos, s3_clip, s3_index, torn>>
  BY DEF StartJob, JobCompleted, s3, external
<1>2. ~torn' /\ OneTake' /\ KeysBehind' /\ (\A k \in Keys : Kept(k)')
  BY <1>1, SameClips
<1>3. Taken'
  BY <1>1 DEF Taken
<1>4. Once'
  <2>1. Left' = Left /\ \A k : Of(k)' = Of(k)
    BY <1>1 DEF Left, Of
  <2> QED BY <1>1, <2>1 DEF PromiseInv, Once
<1> QED BY <1>2, <1>3, <1>4 DEF PromiseInv

\* The stored clip a chunk goes on with, when the gap tells the takes apart.
LEMMA GoesOnWith ==
  ASSUME TypeInv, IndexInv, NamesInv, SpokenInv, PromiseInv, NothingTwice, TakesTold,
         RecordInserted, last_key # NoKey, ~NewClip(Stamp(batch[pos]))
  PROVE  /\ last_key \in Keys /\ ~s3_clip[last_key].wav
         /\ Of(last_key) = {} \/ Len(s3_clip[last_key].blocks) < Announced[batch[pos].take]
         /\ \A k \in Keys : \A d \in Of(k) : d.take = batch[pos].take <=> k = last_key
<1> DEFINE c == batch[pos]
<1>1. /\ pc = "record" /\ c # Odd
      /\ ~TooLong(Current(Stamp(c)).clip, Announced[c.take])
  BY DEF RecordInserted
<1>2. c \in Chunks
  BY <1>1 DEF TypeInv, TypeOK
<1>3. Announced[c.take] \in Nat
  BY <1>2, ChunkStamp, TakesAssumption
<1>4. last_key \in Keys
  BY DEF TypeInv, TypeOK
<1>5. Current(Stamp(c)).clip = s3_clip[last_key]
  BY DEF Current
<1>6. /\ s3_clip[last_key].wav \in BOOLEAN /\ Len(s3_clip[last_key].blocks) \in Nat
      /\ Of(last_key) = {} <=> s3_clip[last_key].blocks = <<>>
  BY <1>4, OfFacts
<1>7. /\ Times(s3_clip[last_key]) = s3_index
  BY <1>1 DEF SpokenInv, NothingTwice, Together, StoredTogether
<1> HIDE DEF c
<1>8. CASE Of(last_key) = {}
  <2>1. s3_index = <<>>
    <3>1. s3_clip[last_key].blocks = <<>>
      BY <1>6, <1>8
    <3> QED BY <1>7, <3>1 DEF Times
  <2>2. \A k \in Keys : Of(k) = {}
    BY <2>1 DEF PromiseInv, KeysBehind
  <2>3. ~s3_clip[last_key].wav
    BY <1>4, <1>8 DEF PromiseInv, Kept
  <2> QED BY <1>4, <1>8, <2>2, <2>3
<1>9. CASE Of(last_key) # {}
  <2>1. s3_index # <<>>
    BY <1>4, <1>9 DEF PromiseInv, KeysBehind
  <2>2. \A d \in Of(last_key) : d.take = c.take
    BY <1>1, <2>1 DEF TakesTold, c
  <2>3. Announced[c.take] = Len(s3_clip[last_key].blocks) <=> s3_clip[last_key].wav
    BY <1>1, <1>4, <1>9, <2>2 DEF PromiseInv, Kept
  <2>4. ~s3_clip[last_key].wav /\ Len(s3_clip[last_key].blocks) < Announced[c.take]
    BY <1>1, <1>3, <1>5, <1>6, <2>3 DEF TooLong
  <2>5. \A k \in Keys : \A d \in Of(k) : d.take = c.take <=> k = last_key
    BY <1>4, <1>9, <2>2 DEF PromiseInv, OneTake
  <2> QED BY <1>4, <2>4, <2>5 DEF c
<1> QED BY <1>8, <1>9

LEMMA RecordInsertedPromise ==
  ASSUME TypeInv, IndexInv, NamesInv, SpokenInv, PromiseInv, NothingTwice, TakesTold,
         RecordInserted
  PROVE  PromiseInv'
<1> DEFINE c == batch[pos]
           now == Current(Stamp(c))
<1>1. /\ pc = "record" /\ c # Odd
      /\ soundclip' = InsertClip(now.clip, Place(now.index, Stamp(c)), c)
      /\ key' = now.key
      /\ pc' = IF now.key = NoKey THEN "put_key" ELSE "put_index"
      /\ UNCHANGED <<flight, batch, pos, s3_clip, s3_index, last_key, torn>>
  BY DEF RecordInserted, external, s3
<1>2. c \in Chunks
  BY <1>1 DEF TypeInv, TypeOK
<1>3. ~torn' /\ OneTake' /\ KeysBehind' /\ (\A k \in Keys : Kept(k)')
  BY <1>1, SameClips
<1>4. Once'
  <2>1. Left' = Left /\ \A k : Of(k)' = Of(k)
    BY <1>1 DEF Left, Of
  <2> QED BY <1>1, <2>1 DEF PromiseInv, Once
<1>5. PICK p \in Nat : p = Place(now.index, Stamp(c))
  <2>1. Stamp(c) \in Nat
    BY <1>2, ChunkStamp
  <2>2. now.index \in Seq(AllStamps)
    BY CurrentType DEF TypeInv
  <2>3. Place(now.index, Stamp(c)) \in Nat
    BY <2>1, <2>2, PlaceRange
  <2> QED BY <2>3
<1>6. now.clip \in Clips
  BY CurrentType DEF TypeInv
<1>7. /\ ToSet(soundclip'.blocks) = ToSet(now.clip.blocks) \cup {c}
      /\ Len(soundclip'.blocks) = Len(now.clip.blocks) + 1
      /\ soundclip'.wav = now.clip.wav
  <2> HIDE DEF now, c
  <2>1. soundclip' = InsertClip(now.clip, p, c)
    BY <1>1, <1>5
  <2> QED BY <1>2, <1>6, <2>1, InsertSet, InsertKeepsWav
<1>8. ASSUME now.key = NoKey, now.clip = NoClip,
             \A k \in Keys : \A d \in Of(k) : d.take # c.take
      PROVE  Taken'
  <2>1. soundclip' \in Clips
    BY RecordInsertedType DEF TypeInv, TypeOK
  <2>2. ToSet(soundclip'.blocks) = {c} /\ Len(soundclip'.blocks) = 1 /\ ~soundclip'.wav
    BY <1>7, <1>8 DEF NoClip, Clip, ToSet
  <2>3. soundclip'.blocks = <<c>>
    <3>1. PICK b : b = soundclip'.blocks
      OBVIOUS
    <3>2. b \in Seq(Chunks) /\ Len(b) = 1 /\ \A i \in DOMAIN b : b[i] = c
      BY <2>1, <2>2, <3>1 DEF Clips, ToSet
    <3>3. b = <<c>>
      BY <3>2
    <3> QED BY <3>1, <3>3
  <2>4. pc' = "put_key" /\ c' = c /\ \A k : Of(k)' = Of(k)
    BY <1>1, <1>8 DEF Of
  <2> QED BY <1>8, <2>2, <2>3, <2>4 DEF Taken
<1>9. CASE NewClip(Stamp(c))
  <2>1. now.key = NoKey /\ now.clip = NoClip
    BY <1>9 DEF Current
  <2>2. \A d \in HeardChunks : d.take # c.take
    BY <1>1, <1>9 DEF TakesTold, NewClip
  <2>3. \A k \in Keys : \A d \in Of(k) : d.take # c.take
    BY <2>2 DEF HeardChunks, Of
  <2> QED BY <1>3, <1>4, <1>8, <2>1, <2>3 DEF PromiseInv
<1>10. CASE ~NewClip(Stamp(c)) /\ last_key = NoKey
  <2>1. now.key = NoKey /\ now.clip = NoClip
    BY <1>10 DEF Current
  <2>2. s3_index = <<>>
    BY <1>1, <1>10, KeysNat DEF SpokenInv, NothingTwice, Together, StoredTogether
  <2>3. \A k \in Keys : \A d \in Of(k) : d.take # c.take
    BY <2>2 DEF PromiseInv, KeysBehind
  <2> QED BY <1>3, <1>4, <1>8, <2>1, <2>3 DEF PromiseInv
<1>11. CASE ~NewClip(Stamp(c)) /\ last_key # NoKey
  <2>1. now.key = last_key /\ now.clip = s3_clip[last_key]
    BY <1>11 DEF Current
  <2>2. /\ last_key \in Keys /\ ~s3_clip[last_key].wav
        /\ Of(last_key) = {} \/ Len(s3_clip[last_key].blocks) < Announced[c.take]
        /\ \A k \in Keys : \A d \in Of(k) : d.take = c.take <=> k = last_key
    BY <1>11, GoesOnWith
  <2>3. pc' = "put_index" /\ key' = last_key
    BY <1>1, <1>11, <2>1
  <2>4. c' = c /\ (\A k : Of(k)' = Of(k))
    BY <1>1 DEF Of
  <2>5. ToSet(soundclip'.blocks) = Of(last_key) \cup {c}
    BY <1>7, <2>1 DEF Of
  <2>6. Len(soundclip'.blocks) = Len(s3_clip[last_key].blocks) + 1 /\ ~soundclip'.wav
    BY <1>7, <2>1, <2>2
  <2> HIDE DEF now
  <2>7. OneMore'
    BY <1>1, <2>2, <2>3, <2>4, <2>5, <2>6 DEF OneMore
  <2> QED BY <1>3, <1>4, <2>3, <2>7 DEF PromiseInv, Taken
<1> QED BY <1>9, <1>10, <1>11

LEMMA PutKeyPromise ==
  ASSUME TypeInv, IndexInv, NamesInv, PromiseInv, PutKey
  PROVE  PromiseInv'
<1> DEFINE c == batch[pos]
           x == Stamp(c)
<1>1. /\ pc = "put_key" /\ pc' = "put_index"
      /\ key' = KeyOf(soundclip_index[1])
      /\ UNCHANGED <<flight, batch, pos, soundclip_index, soundclip, s3_index, s3_clip, torn>>
  BY DEF PutKey, external
<1>2. ~torn' /\ OneTake' /\ KeysBehind' /\ (\A k \in Keys : Kept(k)')
  BY <1>1, SameClips
<1>3. Left' = Left /\ \A k : Of(k)' = Of(k)
  BY <1>1 DEF Left, Of
<1>4. Once'
  BY <1>1, <1>3 DEF PromiseInv, Once
<1>5. soundclip_index = <<x>> /\ (s3_index # <<>> => NewClip(x))
  BY <1>1 DEF NamesInv, InHand, PromiseInv
<1>6. c \in Chunks
  BY <1>1 DEF TypeInv
<1>7. x \in Nat /\ KeyOf(x) \in Nat /\ KeyOf(x) \in Keys
  BY <1>6, ChunkStamp, KeysNat
<1>8. key' = KeyOf(x)
  BY <1>1, <1>5
<1>9. ASSUME Of(key') # {} PROVE FALSE
  <2>1. s3_index # <<>> /\ key' <= KeyOf(Last(s3_index))
    BY <1>7, <1>8, <1>9 DEF PromiseInv, KeysBehind
  <2>2. Last(s3_index) \in Nat /\ x - Last(s3_index) > Gap
    BY <1>5, <2>1, LastFacts, AllStampsNat DEF NewClip, TypeInv, TypeOK
  <2>3. KeyOf(Last(s3_index)) < KeyOf(x)
    BY <1>7, <2>2, KeyLess
  <2>4. KeyOf(Last(s3_index)) \in Nat
    BY <2>2, DivFacts, TimeAssumption DEF KeyOf
  <2> QED BY <1>7, <1>8, <2>1, <2>3, <2>4
<1>10. soundclip.blocks = <<c>> /\ ~soundclip.wav /\ \A k \in Keys : \A d \in Of(k) : d.take # c.take
  BY <1>1 DEF PromiseInv, Taken
<1>11. PICK k : k = key'
  OBVIOUS
<1>12. k \in Keys /\ Of(k) = {}
  BY <1>7, <1>8, <1>9, <1>11
<1>13. s3_clip[k].blocks = <<>> /\ ~s3_clip[k].wav
  BY <1>12, OfFacts DEF PromiseInv, Kept
<1>14. ToSet(soundclip.blocks) = {c} /\ Len(soundclip.blocks) = 1
  BY <1>10 DEF ToSet
<1>15. Len(s3_clip[k].blocks) = 0
  BY <1>13
<1>16. c' = c /\ k = key' /\ soundclip' = soundclip /\ s3_clip' = s3_clip
  BY <1>1, <1>11
<1>17. ToSet(soundclip'.blocks) = Of(k)' \cup {c} /\ Len(soundclip'.blocks) = Len(s3_clip'[k].blocks) + 1
  <2>1. Of(k)' = {}
    BY <1>3, <1>12
  <2>2. soundclip'.blocks = soundclip.blocks /\ s3_clip'[k].blocks = s3_clip[k].blocks
    BY <1>16
  <2>3. ToSet(soundclip'.blocks) = Of(k)' \cup {c}
    BY <1>14, <2>1, <2>2
  <2>4. Len(soundclip'.blocks) = 1 /\ Len(s3_clip'[k].blocks) = 0
    BY <1>14, <1>15, <2>2
  <2> QED BY <2>3, <2>4
<1>18. \A l \in Keys : \A d \in Of(l)' : d.take = c.take <=> l = k
  BY <1>3, <1>10, <1>12
<1>19. OneMore'
  BY <1>3, <1>10, <1>12, <1>13, <1>16, <1>17, <1>18 DEF OneMore
<1> QED BY <1>1, <1>2, <1>4, <1>19 DEF PromiseInv, Taken

LEMMA PutIndexPromise ==
  ASSUME TypeInv, IndexInv, NamesInv, PromiseInv, PutIndex
  PROVE  PromiseInv'
<1>1. /\ pc = "put_index" /\ pc' = "put_clip" /\ s3_index' = soundclip_index
      /\ UNCHANGED <<flight, batch, pos, key, soundclip, s3_clip, torn>>
  BY DEF PutIndex, external, locals
<1>2. Left' = Left /\ \A k : Of(k)' = Of(k)
  BY <1>1 DEF Left, Of
<1>3. Once'
  BY <1>1, <1>2 DEF PromiseInv, Once
<1>4. OneTake' /\ ~torn'
  BY <1>1, <1>2 DEF PromiseInv, OneTake
<1>5. ASSUME NEW k \in Keys PROVE Kept(k)'
  BY <1>1, <1>2 DEF PromiseInv, Kept
<1>6. ASSUME NEW k \in Keys, Of(k) # {}
      PROVE  soundclip_index # <<>> /\ k <= KeyOf(Last(soundclip_index))
  <2>1. s3_index # <<>> /\ k <= KeyOf(Last(s3_index))
    BY <1>6 DEF PromiseInv, KeysBehind
  <2>2. soundclip_index # <<>>
    BY <1>1 DEF TypeInv
  <2>3. Last(s3_index) <= Last(soundclip_index)
    BY <1>1, <2>1 DEF NamesInv, InHand, PromiseInv
  <2>4. Last(s3_index) \in Nat /\ Last(soundclip_index) \in Nat
    BY <2>1, <2>2, LastFacts, AllStampsNat DEF TypeInv, TypeOK
  <2>5. KeyOf(Last(s3_index)) <= KeyOf(Last(soundclip_index))
    BY <2>3, <2>4, KeyMono
  <2>6. KeyOf(Last(s3_index)) \in Nat /\ KeyOf(Last(soundclip_index)) \in Nat /\ k \in Nat
    BY <2>4, DivFacts, TimeAssumption, KeysNat DEF KeyOf
  <2> QED BY <2>1, <2>2, <2>5, <2>6
<1>7. KeysBehind'
  BY <1>1, <1>2, <1>6 DEF KeysBehind
<1>8. OneMore'
  BY <1>1, <1>2 DEF PromiseInv, Taken, OneMore
<1> QED BY <1>1, <1>3, <1>4, <1>5, <1>7, <1>8 DEF PromiseInv, Taken

\* What a put does to the clips.
LEMMA ClipPut ==
  ASSUME TypeInv, PromiseInv, PutClip, NEW n, n = key
  PROVE  /\ pc = "put_clip" /\ n \in Keys /\ n = last_key /\ batch[pos] \in Chunks
         /\ s3_clip'[n] = soundclip /\ Of(n)' = Of(n) \cup {batch[pos]}
         /\ \A k \in Keys : k # n => s3_clip'[k] = s3_clip[k] /\ Of(k)' = Of(k)
         /\ \A k \in Keys : \A d \in Of(k) : d # batch[pos]
<1>1. /\ pc = "put_clip" /\ key \in Keys /\ key = last_key /\ batch[pos] \in Chunks
      /\ pos \in DOMAIN batch /\ Left = pos
      /\ s3_clip' = [s3_clip EXCEPT ![key] = soundclip] /\ s3_clip \in [Keys -> Clips]
  BY DEF PutClip, TypeInv, TypeOK, Putting, Left
<1>2. s3_clip'[n] = soundclip /\ \A k \in Keys : k # n => s3_clip'[k] = s3_clip[k]
  BY <1>1
<1>3. ToSet(soundclip.blocks) = Of(n) \cup {batch[pos]}
  BY <1>1 DEF PromiseInv, Taken, OneMore
<1>4. ToSet(s3_clip'[n].blocks) = Of(n) \cup {batch[pos]}
  BY <1>2, <1>3
<1>5. \A k \in Keys : k # n => ToSet(s3_clip'[k].blocks) = ToSet(s3_clip[k].blocks)
  BY <1>2
<1>6. \A k \in Keys : \A d \in Of(k) : d # batch[pos]
  BY <1>1 DEF PromiseInv, Once, TypeInv, TypeOK
<1>7. \A k : Of(k)' = ToSet(s3_clip'[k].blocks) /\ Of(k) = ToSet(s3_clip[k].blocks)
  BY DEF Of
<1> QED BY <1>1, <1>2, <1>4, <1>5, <1>6, <1>7

LEMMA PutClipPromise ==
  ASSUME TypeInv, IndexInv, NamesInv, PromiseInv, PutClip
  PROVE  PromiseInv'
<1>0. PICK n : n = key
  OBVIOUS
<1>1. PICK c : c = batch[pos]
  OBVIOUS
<1>2. /\ pc = "put_clip" /\ n \in Keys /\ n = last_key /\ c \in Chunks
      /\ s3_clip'[n] = soundclip /\ Of(n)' = Of(n) \cup {c}
      /\ \A k \in Keys : k # n => s3_clip'[k] = s3_clip[k] /\ Of(k)' = Of(k)
      /\ \A k \in Keys : \A d \in Of(k) : d # c
  BY <1>0, <1>1, ClipPut
<1>3. /\ UNCHANGED <<flight, s3_index, torn>>
      /\ IF AllArrived THEN pc' = "put_wav" /\ UNCHANGED <<batch, pos, locals>> ELSE NextRecord
  BY DEF PutClip
<1>4. /\ Len(soundclip.blocks) = Len(s3_clip[n].blocks) + 1
      /\ ~soundclip.wav /\ ~s3_clip[n].wav
      /\ \A k \in Keys : \A d \in Of(k) : d.take = c.take <=> k = n
  BY <1>0, <1>1, <1>2 DEF PromiseInv, Taken, OneMore
<1>5. OneTake'
  <2>1. ASSUME NEW k \in Keys, NEW l \in Keys, NEW d \in Of(k)', NEW e \in Of(l)'
        PROVE  d.take = e.take <=> k = l
    <3>1. (d \in Of(k) \/ (d = c /\ k = n)) /\ (e \in Of(l) \/ (e = c /\ l = n))
      BY <1>2, <2>1
    <3> QED BY <1>4, <3>1 DEF PromiseInv, OneTake
  <2> QED BY <2>1 DEF OneTake
<1>6. KeysBehind'
  <2>1. s3_index # <<>>
    BY <1>2 DEF NamesInv, NothingYet, Putting
  <2>2. n <= KeyOf(Last(s3_index))
    BY <1>2, <2>1 DEF NamesInv, KeyOfIndex, PromiseInv
  <2>3. \A k \in Keys : Of(k)' # {} => k = n \/ Of(k) # {}
    BY <1>2
  <2> QED BY <1>2, <1>3, <2>1, <2>2, <2>3 DEF PromiseInv, KeysBehind
<1>7. \A d \in Of(n) : d.take = c.take
  BY <1>2, <1>4
<1>8. AllArrived <=> Announced[c.take] = Len(soundclip.blocks)
  BY <1>1, <1>4 DEF AllArrived
<1>9. (pc' = "put_wav" /\ key' = n) <=> AllArrived
  BY <1>0, <1>3 DEF NextRecord, locals
<1>10. pc' = "put_wav" => key' = n
  BY <1>0, <1>3 DEF NextRecord, locals
<1>11. Kept(n)'
  <2>1. IsFiniteSet(Of(n)) /\ Cardinality(Of(n)) = Len(s3_clip[n].blocks) /\ c \notin Of(n)
    BY <1>2 DEF PromiseInv, Kept
  <2>2. IsFiniteSet(Of(n) \cup {c}) /\ Cardinality(Of(n) \cup {c}) = Cardinality(Of(n)) + 1
    BY <2>1, FS_AddElement
  <2>3. IsFiniteSet(Of(n)') /\ Cardinality(Of(n)') = Len(s3_clip'[n].blocks)
    BY <1>2, <1>4, <2>1, <2>2
  <2>4. \A d \in Of(n)' : Announced[d.take] = Len(s3_clip'[n].blocks) <=> (pc' = "put_wav" /\ n = key')
    BY <1>2, <1>7, <1>8, <1>9
  <2> QED BY <1>2, <1>4, <2>3, <2>4 DEF Kept
<1>12. ASSUME NEW k \in Keys, k # n PROVE Kept(k)'
  <2>1. Kept(k) /\ ~(pc = "put_wav" /\ k = key) /\ ~(pc' = "put_wav" /\ k = key')
    BY <1>2, <1>10, <1>12 DEF PromiseInv
  <2>2. s3_clip'[k] = s3_clip[k] /\ Of(k)' = Of(k)
    BY <1>2, <1>12
  <2> QED BY <2>1, <2>2 DEF Kept
<1>13. Taken'
  <2>1. CASE AllArrived
    <3>1. pc' = "put_wav" /\ key' = n /\ soundclip' = soundclip
      BY <1>0, <1>3, <2>1 DEF locals
    <3>2. s3_clip'[key'].blocks = soundclip'.blocks
      BY <1>2, <3>1
    <3>3. Of(n)' # {}
      BY <1>2
    <3>4. Of(key)' # {}
      BY <3>1, <3>3 DEF Of
    <3> QED BY <3>1, <3>2, <3>4 DEF Taken
  <2>2. CASE ~AllArrived
    <3>1. pc' \in {"idle", "record"}
      BY <1>3, <2>2 DEF NextRecord
    <3> QED BY <3>1 DEF Taken
  <2> QED BY <2>1, <2>2
<1>14. Once'
  <2>1. batch \in Seq(Chunks \cup {Odd}) /\ pos \in DOMAIN batch /\ pos \in Nat /\ Left = pos
    BY <1>2 DEF TypeInv, TypeOK, Left
  <2>2. c \notin flight /\ \A i \in DOMAIN batch : i # pos => batch[i] # c
    BY <1>1, <1>2, <2>1, ChunkStamp DEF PromiseInv, Once
  <2>3. batch' = <<>> \/ (batch' = batch /\ Left' = pos + 1)
    BY <1>3 DEF NextRecord, Left
  <2>4. CASE batch' = <<>>
    BY <1>2, <1>3, <2>2, <2>4 DEF PromiseInv, Once
  <2>5. CASE batch' = batch /\ Left' = pos + 1
    <3>1. \A i \in DOMAIN batch : i >= pos + 1 => i >= pos /\ i # pos
      BY <2>1
    <3>2. \A k \in Keys : \A d \in Of(k)' :
            d \notin flight /\ \A i \in DOMAIN batch : i >= pos + 1 => batch[i] # d
      <4> SUFFICES ASSUME NEW k \in Keys, NEW d \in Of(k)'
                   PROVE  d \notin flight /\ \A i \in DOMAIN batch : i >= pos + 1 => batch[i] # d
        OBVIOUS
      <4>1. d = c \/ d \in Of(k)
        BY <1>2
      <4> QED BY <2>1, <2>2, <3>1, <4>1 DEF PromiseInv, Once
    <3> QED BY <1>3, <2>5, <3>2 DEF PromiseInv, Once
  <2> QED BY <2>3, <2>4, <2>5
<1> QED BY <1>3, <1>5, <1>6, <1>11, <1>12, <1>13, <1>14 DEF PromiseInv

LEMMA PutWavPromise ==
  ASSUME TypeInv, PromiseInv, PutWav
  PROVE  PromiseInv' /\ \A k : k \in Keys => Of(k)' = Of(k)
<1>0. PICK n : n = key
  OBVIOUS
<1>1. /\ pc = "put_wav" /\ pc' = "start_job" /\ n \in Keys
      /\ soundclip'.blocks = soundclip.blocks /\ soundclip'.wav
      /\ s3_clip' = [s3_clip EXCEPT ![n] = soundclip'] /\ s3_clip \in [Keys -> Clips]
      /\ UNCHANGED <<flight, batch, pos, key, s3_index, torn>>
  BY <1>0 DEF PutWav, Clip, TypeInv, TypeOK, Putting, external
<1>2. s3_clip'[n] = soundclip' /\ \A k \in Keys : k # n => s3_clip'[k] = s3_clip[k]
  BY <1>1
<1>3. s3_clip[n].blocks = soundclip.blocks /\ Of(n) # {}
  BY <1>0, <1>1 DEF PromiseInv, Taken
<1>4. ASSUME NEW k \in Keys PROVE s3_clip'[k].blocks = s3_clip[k].blocks /\ Of(k)' = Of(k)
  <2>1. s3_clip'[k].blocks = s3_clip[k].blocks
    BY <1>1, <1>2, <1>3
  <2> QED BY <2>1 DEF Of
<1>5. Left' = Left
  BY <1>1 DEF Left
<1>6. Once'
  BY <1>1, <1>4, <1>5 DEF PromiseInv, Once
<1>7. OneTake' /\ KeysBehind' /\ ~torn'
  BY <1>1, <1>4 DEF PromiseInv, OneTake, KeysBehind
<1>8. Kept(n)'
  <2>1. /\ IsFiniteSet(Of(n)) /\ Cardinality(Of(n)) = Len(s3_clip[n].blocks)
        /\ \A d \in Of(n) : Announced[d.take] = Len(s3_clip[n].blocks)
    BY <1>0, <1>1 DEF PromiseInv, Kept
  <2>2. s3_clip'[n].blocks = s3_clip[n].blocks /\ Of(n)' = Of(n) /\ s3_clip'[n].wav
    BY <1>1, <1>2, <1>4
  <2> QED BY <1>3, <2>1, <2>2 DEF Kept
<1>9. ASSUME NEW k \in Keys, k # n PROVE Kept(k)'
  <2>1. Kept(k) /\ k # key /\ k # key'
    BY <1>0, <1>1, <1>9 DEF PromiseInv
  <2>2. s3_clip'[k] = s3_clip[k] /\ Of(k)' = Of(k)
    BY <1>2, <1>4, <1>9
  <2> QED BY <2>1, <2>2 DEF Kept
<1>10. Taken'
  BY <1>0, <1>1, <1>2 DEF Taken
<1> QED BY <1>4, <1>6, <1>7, <1>8, <1>9, <1>10 DEF PromiseInv

LEMMA PromiseStep ==
  ASSUME TypeInv, IndexInv, NamesInv, SpokenInv, PromiseInv, NothingTwice, TakesTold,
         NothingTwice', [Next]_vars
  PROVE  PromiseInv'
<1>1. CASE UNCHANGED vars
  <2>1. /\ UNCHANGED <<flight, batch, torn, pos, pc, key, soundclip, s3_index, s3_clip>>
        /\ Left' = Left /\ \A k : Of(k)' = Of(k)
    BY <1>1 DEF vars, external, locals, s3, Left, Of
  <2>2. Once' /\ OneTake' /\ KeysBehind' /\ ~torn'
    BY <2>1 DEF PromiseInv, Once, OneTake, KeysBehind
  <2>3. \A k \in Keys : Kept(k)'
    BY <2>1 DEF PromiseInv, Kept
  <2>4. OneMore' <=> OneMore
    BY <2>1 DEF OneMore
  <2>5. Taken'
    BY <2>1, <2>4 DEF PromiseInv, Taken
  <2> QED BY <2>2, <2>3, <2>5 DEF PromiseInv
<1>2. CASE Delivery \/ Invoke
  BY <1>2, DeliveryPromise DEF NothingTwice
<1>3. ~Retry
  BY RetryCounted DEF NothingTwice
<1>4. CASE RecordInserted
  BY <1>4, RecordInsertedPromise
<1>5. CASE PutKey
  BY <1>5, PutKeyPromise
<1>6. CASE PutIndex
  BY <1>6, PutIndexPromise
<1>7. CASE PutClip
  BY <1>7, PutClipPromise
<1>8. CASE PutWav
  BY <1>8, PutWavPromise
<1>9. CASE StartJob \/ JobCompleted
  BY <1>9, WaitPromise
<1>10. CASE RecordMismatch \/ RecordDismissed \/ JobFailed \/ SendTranscript
  BY <1>10, DismissPromise
<1> QED BY <1>1, <1>2, <1>3, <1>4, <1>5, <1>6, <1>7, <1>8, <1>9, <1>10 DEF Next, Handler

LEMMA HeardIs == HeardChunks = UNION {Of(k) : k \in Keys} /\ HeardChunks' = UNION {Of(k)' : k \in Keys}
BY DEF HeardChunks, Of

\* Transcription has the library's cardinality.
LEMMA SameCardinality == \A S : Promise!Cardinality(S) = Cardinality(S)
BY DEF Promise!Cardinality, Cardinality

LEMMA TranscribedIs ==
  ASSUME TypeInv, PromiseInv, NamesInv
  PROVE  /\ jobs \subseteq Keys
         /\ \A k \in jobs : s3_clip[k].wav /\ s3_clip[k].blocks[1] \in Of(k)
         /\ \A k \in Keys : \A c \in Of(k) : c.take \in TranscribedTakes => k \in jobs
<1>1. jobs \subseteq Keys
  BY DEF TypeInv, TypeOK
<1>2. ASSUME NEW k \in jobs PROVE s3_clip[k].wav /\ s3_clip[k].blocks[1] \in Of(k)
  <2>1. s3_clip[k].wav
    BY DEF NamesInv, PromiseInv, JobsBehind
  <2>2. Of(k) # {}
    BY <1>1, <2>1 DEF PromiseInv, Kept
  <2> QED BY <1>1, <2>1, <2>2, OfFacts
<1>3. ASSUME NEW k \in Keys, NEW c \in Of(k), c.take \in TranscribedTakes PROVE k \in jobs
  <2>1. PICK l \in jobs : c.take = s3_clip[l].blocks[1].take
    BY <1>3 DEF TranscribedTakes
  <2>2. l = k
    BY <1>1, <1>2, <2>1 DEF PromiseInv, OneTake
  <2> QED BY <2>2
<1> QED BY <1>1, <1>2, <1>3

\* What was heard of a take is the clip that has a chunk of it.
LEMMA HeardOfTake ==
  ASSUME PromiseInv, NEW k \in Keys, NEW c \in Of(k)
  PROVE  Promise!HeardOf(c.take) = Of(k)
<1>1. Promise!HeardOf(c.take) = {d \in HeardChunks : d.take = c.take}
  BY DEF Promise!HeardOf
<1>2. ASSUME NEW d \in HeardChunks, d.take = c.take PROVE d \in Of(k)
  <2>1. PICK l \in Keys : d \in Of(l)
    BY HeardIs
  <2> QED BY <1>2, <2>1 DEF PromiseInv, OneTake
<1>3. ASSUME NEW d \in Of(k) PROVE d \in HeardChunks /\ d.take = c.take
  BY HeardIs DEF PromiseInv, OneTake
<1> QED BY <1>1, <1>2, <1>3

\* The put of a clip is the hearing of its new chunk ...
LEMMA PutClipHears ==
  ASSUME TypeInv, NamesInv, PromiseInv, PutClip
  PROVE  Promise!Hear(batch[pos])
<1>0. PICK n : n = key
  OBVIOUS
<1>1. PICK c : c = batch[pos]
  OBVIOUS
<1>2. /\ pc = "put_clip" /\ n \in Keys /\ c \in Chunks
      /\ s3_clip'[n] = soundclip /\ Of(n)' = Of(n) \cup {c}
      /\ \A k \in Keys : k # n => s3_clip'[k] = s3_clip[k] /\ Of(k)' = Of(k)
      /\ \A k \in Keys : \A d \in Of(k) : d # c
  BY <1>0, <1>1, ClipPut
<1>3. /\ ~s3_clip[n].wav
      /\ Of(n) = {} \/ Len(s3_clip[n].blocks) < Announced[c.take]
      /\ \A k \in Keys : \A d \in Of(k) : d.take = c.take <=> k = n
  BY <1>0, <1>1, <1>2 DEF PromiseInv, Taken, OneMore
<1>4. c \notin HeardChunks
  BY <1>2, HeardIs
<1>5. HeardChunks' = HeardChunks \cup {c}
  <2>1. ASSUME NEW d \in HeardChunks' PROVE d \in HeardChunks \cup {c}
    <3>1. PICK k \in Keys : d \in Of(k)'
      BY HeardIs
    <3>2. d \in Of(k) \/ d = c
      BY <1>2, <3>1
    <3> QED BY <3>2, HeardIs
  <2>2. ASSUME NEW d \in HeardChunks PROVE d \in HeardChunks'
    <3>1. PICK k \in Keys : d \in Of(k)
      BY HeardIs
    <3>2. d \in Of(k)'
      BY <1>2, <3>1
    <3> QED BY <3>2, HeardIs
  <2>3. c \in HeardChunks'
    BY <1>2, HeardIs
  <2> QED BY <2>1, <2>2, <2>3
<1>6. n \notin jobs
  BY <1>3, TranscribedIs
<1>7. c.take \notin TranscribedTakes
  <2> SUFFICES ASSUME c.take \in TranscribedTakes PROVE FALSE
    OBVIOUS
  <2>1. PICK l \in jobs : c.take = s3_clip[l].blocks[1].take
    BY DEF TranscribedTakes
  <2>2. l \in Keys /\ s3_clip[l].blocks[1] \in Of(l)
    BY TranscribedIs
  <2>3. l = n
    BY <1>3, <2>1, <2>2
  <2> QED BY <1>6, <2>3
<1>8. Promise!HeardOf(c.take) = Of(n)
  <2>1. Promise!HeardOf(c.take) = {d \in HeardChunks : d.take = c.take}
    BY DEF Promise!HeardOf
  <2>2. ASSUME NEW d \in HeardChunks, d.take = c.take PROVE d \in Of(n)
    <3>1. PICK l \in Keys : d \in Of(l)
      BY HeardIs
    <3> QED BY <1>3, <2>2, <3>1
  <2>3. ASSUME NEW d \in Of(n) PROVE d \in HeardChunks /\ d.take = c.take
    BY <1>2, <1>3, HeardIs
  <2> QED BY <2>1, <2>2, <2>3
<1>9. Promise!HeardOf(c.take) = {} \/ Cardinality(Promise!HeardOf(c.take)) < Announced[c.take]
  <2>1. Cardinality(Of(n)) = Len(s3_clip[n].blocks)
    BY <1>2 DEF PromiseInv, Kept
  <2> QED BY <1>3, <1>8, <2>1
<1>10. UNCHANGED TranscribedTakes
  <2>1. jobs' = jobs
    BY DEF PutClip
  <2>2. \A k \in jobs : s3_clip'[k] = s3_clip[k]
    BY <1>2, <1>6, TranscribedIs
  <2> QED BY <2>1, <2>2 DEF TranscribedTakes
<1>11. Promise!Hear(c)
  BY <1>4, <1>5, <1>7, <1>9, <1>10, SameCardinality DEF Promise!Hear
<1> QED BY <1>1, <1>11

\* ... and the start of a job the transcription of its take.
LEMMA StartJobTranscribes ==
  ASSUME TypeInv, NamesInv, PromiseInv, StartJob
  PROVE  \E k \in Promise!Takes : Promise!Transcribe(k)
<1>0. PICK n : n = key
  OBVIOUS
<1>1. /\ pc = "start_job" /\ n \in Keys /\ n \notin jobs /\ jobs' = jobs \cup {n}
      /\ UNCHANGED s3_clip
  BY <1>0 DEF StartJob, s3, TypeInv, Putting
<1>2. s3_clip[n].wav
  BY <1>0, <1>1 DEF PromiseInv, Taken
<1>3. Of(n) # {} /\ Of(n) \subseteq Chunks /\ s3_clip[n].blocks[1] \in Of(n)
  BY <1>1, <1>2, OfFacts DEF PromiseInv, Kept
<1>4. PICK c : c = s3_clip[n].blocks[1]
  OBVIOUS
<1>5. c \in Of(n) /\ c.take \in Takes
  BY <1>3, <1>4, ChunkStamp
<1>6. Promise!HeardOf(c.take) = Of(n)
  BY <1>1, <1>5, HeardOfTake
<1>7. Cardinality(Of(n)) = Announced[c.take]
  BY <1>1, <1>2, <1>5 DEF PromiseInv, Kept
<1>8. c.take \notin TranscribedTakes
  BY <1>1, <1>5, TranscribedIs
<1>9. TranscribedTakes' = TranscribedTakes \cup {c.take}
  <2>1. TranscribedTakes' = {s3_clip[k].blocks[1].take : k \in jobs \cup {n}}
    BY <1>1 DEF TranscribedTakes
  <2> QED BY <1>4, <2>1 DEF TranscribedTakes
<1>10. UNCHANGED HeardChunks
  BY <1>1 DEF HeardChunks
<1>11. Promise!Transcribe(c.take)
  BY <1>3, <1>6, <1>7, <1>8, <1>9, <1>10, SameCardinality DEF Promise!Transcribe
<1>12. c.take \in Promise!Takes
  BY <1>5, TakesAssumption DEF Promise!Takes
<1> QED BY <1>11, <1>12

\* Nothing else is seen of the handler.
LEMMA PromiseSteps ==
  ASSUME TypeInv, NamesInv, PromiseInv, [Next]_vars
  PROVE  [Promise!Next]_<<HeardChunks, TranscribedTakes>>
<1>1. CASE PutClip
  <2>1. batch[pos] \in Chunks
    BY <1>1, ClipPut
  <2> QED BY <1>1, <2>1, PutClipHears DEF Promise!Next
<1>2. CASE StartJob
  BY <1>2, StartJobTranscribes DEF Promise!Next
<1>3. CASE PutWav
  <2>1. \A k \in Keys : s3_clip'[k].blocks = s3_clip[k].blocks
    <3>1. PICK n : n = key
      OBVIOUS
    <3>2. /\ pc = "put_wav" /\ n \in Keys /\ soundclip'.blocks = soundclip.blocks
          /\ s3_clip' = [s3_clip EXCEPT ![n] = soundclip'] /\ s3_clip \in [Keys -> Clips]
      BY <1>3, <3>1 DEF PutWav, Clip, TypeInv, TypeOK, Putting
    <3>3. s3_clip[n].blocks = soundclip.blocks
      BY <3>1, <3>2 DEF PromiseInv, Taken
    <3> QED BY <3>2, <3>3
  <2>2. HeardChunks' = HeardChunks
    BY <2>1 DEF HeardChunks
  <2>3. jobs' = jobs /\ jobs \subseteq Keys
    BY <1>3 DEF PutWav, TypeInv, TypeOK
  <2>4. TranscribedTakes' = TranscribedTakes
    BY <2>1, <2>3 DEF TranscribedTakes
  <2> QED BY <2>2, <2>4
<1>4. CASE ~(PutClip \/ StartJob \/ PutWav)
  <2>1. UNCHANGED <<s3_clip, jobs>>
    BY <1>4 DEF Next, Handler, vars, s3, Delivery, Arrive, ArriveTwice, ArriveOdd, Collecting, Invoke,
                Retry, RecordMismatch, RecordDismissed, Dismiss, RecordInserted, PutKey, PutIndex,
                JobCompleted, JobFailed, SendTranscript
  <2>2. HeardChunks' = HeardChunks /\ TranscribedTakes' = TranscribedTakes
    BY <2>1 DEF HeardChunks, TranscribedTakes
  <2> QED BY <2>2
<1> QED BY <1>1, <1>2, <1>3, <1>4

LEMMA PromiseStart == Init => Promise!Init
<1> SUFFICES ASSUME Init PROVE HeardChunks = {} /\ TranscribedTakes = {}
  BY DEF Promise!Init
<1>1. \A k \in Keys : ToSet(s3_clip[k].blocks) = {}
  BY DEF Init, NoClip, Clip, ToSet
<1> QED BY <1>1 DEF Init, HeardChunks, TranscribedTakes

\* As long as the gap tells the takes apart and no record comes twice, the handler does what
\* Transcription promises (lambda.py 67-260), for any takes, whatever is lost, overtaken or
\* of another size: a put of a clip is the hearing of one more chunk of its take, the start
\* of a job the transcription of a take that is complete and was not transcribed.
THEOREM PromiseKept == Spec /\ [](NothingTwice /\ TakesTold) => KeepsPromise
<1> DEFINE IInv == TypeInv /\ IndexInv /\ NamesInv /\ SpokenInv /\ PromiseInv
           Told == NothingTwice /\ TakesTold
<1>1. Init => IInv /\ Promise!Init
  BY TypeInit, IndexInit, NamesInit, SpokenInit, PromiseInit, PromiseStart
<1>2. IInv /\ Told /\ Told' /\ [Next]_vars => IInv'
  BY TypeStep, IndexStep, NamesStep, SpokenStep, PromiseStep
<1>3. IInv /\ [Next]_vars => [Promise!Next]_<<HeardChunks, TranscribedTakes>>
  BY PromiseSteps
<1> HIDE DEF IInv, Told
<1>4. Spec /\ []Told => []IInv
  BY <1>1, <1>2, PTL DEF Spec
<1>5. Spec /\ []Told => Promise!Spec
  BY <1>1, <1>3, <1>4, PTL DEF Spec, Promise!Spec
<1> QED BY <1>5 DEF KeepsPromise, Told

----------------------------------------------------------------------------
(* The promise, from the constants                                          *)

\* A pause longer than the gap between two takes, none as long within one; chunks are lost,
\* of another size, and in any order within their take, and nothing else.
FarApart == \A c, d \in Chunks : c.take < d.take => Stamp(d) - Stamp(c) > Gap
Short == \A c, d \in Chunks : c.take = d.take => Stamp(d) - Stamp(c) <= Gap
OnlyLost == \A f \in {"duplicate", "overtaken", "retry"} : Tolerated[f] = 0

\* The takes come one behind the other: no chunk of a clip or of the batch is of a later take
\* than the latest, the batch goes on from the clips, and no clip is of a later take than
\* the last one.
InClips == UNION {Of(k) : k \in Keys}
OneBehindOther ==
  /\ \A f \in Faults : faults[f] <= Tolerated[f]
  /\ \A c \in InClips : c.take <= latest
  /\ \A i \in DOMAIN batch : batch[i].take <= latest
  /\ \A i, j \in DOMAIN batch : i < j /\ batch[j] # Odd => batch[i].take <= batch[j].take
  /\ \A c \in InClips, i \in DOMAIN batch : i >= Left /\ batch[i] # Odd => c.take <= batch[i].take
  /\ \A c \in InClips : last_key \in Keys => \A d \in Of(last_key) : c.take <= d.take

LEMMA TakeNat ==
  ASSUME TypeInv
  PROVE  /\ \A c \in Chunks \cup {Odd} : c.take \in Nat
         /\ InClips \subseteq Chunks /\ latest \in Nat
         /\ faults \in [Faults -> Nat] /\ Tolerated \in [Faults -> Nat]
<1>1. Odd.take = 0
  BY DEF Odd
<1>2. \A k \in Keys : Of(k) \subseteq Chunks
  BY OfFacts
<1> QED BY <1>1, <1>2, ChunkStamp, TakesAssumption, BoundAssumption DEF InClips, TypeInv, TypeOK

LEMMA FaultsNone ==
  ASSUME TypeInv, OnlyLost, OneBehindOther
  PROVE  /\ faults["duplicate"] = 0 /\ faults["retry"] = 0 /\ faults["overtaken"] = 0
         /\ ~Fault("duplicate") /\ ~Fault("retry") /\ ~Fault("overtaken")
<1>1. {"duplicate", "overtaken", "retry"} \subseteq Faults
  BY DEF Faults
<1>2. ASSUME NEW f \in {"duplicate", "overtaken", "retry"} PROVE faults[f] = 0 /\ ~Fault(f)
  <2>1. faults[f] \in Nat /\ Tolerated[f] = 0 /\ faults[f] <= Tolerated[f]
    BY <1>1, TakeNat DEF OnlyLost, OneBehindOther
  <2> QED BY <2>1 DEF Fault
<1> QED BY <1>2

LEMMA OneBehindInit == Init => OneBehindOther
<1> SUFFICES ASSUME Init PROVE OneBehindOther
  OBVIOUS
<1>1. \A k \in Keys : Of(k) = {}
  BY TypeInit, OfFacts DEF Init, NoClip, Clip
<1>2. InClips = {}
  BY <1>1 DEF InClips
<1>3. \A f \in Faults : faults[f] <= Tolerated[f]
  BY BoundAssumption DEF Init
<1> QED BY <1>2, <1>3 DEF OneBehindOther, Init

\* The gap tells the takes apart when they come one behind the other.
LEMMA TakesToldApart ==
  ASSUME FarApart, Short, OnlyLost, TypeInv, SpokenInv, OneBehindOther
  PROVE  NothingTwice /\ TakesTold
<1>1. NothingTwice
  BY FaultsNone DEF NothingTwice
<1>2. SUFFICES ASSUME pc = "record", batch[pos] # Odd, s3_index # <<>>
               PROVE  IF NewClip(Stamp(batch[pos]))
                      THEN \A c \in HeardChunks : c.take # batch[pos].take
                      ELSE \A c \in Of(last_key) : c.take = batch[pos].take
  BY <1>1 DEF TakesTold
<1>3. PICK c : c = batch[pos]
  OBVIOUS
<1>4. c \in Chunks /\ c # Odd /\ pos \in DOMAIN batch /\ Left = pos
  BY <1>2, <1>3 DEF TypeInv, TypeOK, Left
<1>5. last_key \in Keys /\ Times(s3_clip[last_key]) = s3_index
  BY <1>1, <1>2 DEF NothingTwice, SpokenInv, Together, StoredTogether
<1>6. PICK b : b = s3_clip[last_key].blocks
  OBVIOUS
<1>7. b \in Seq(Chunks) /\ Of(last_key) = ToSet(b)
  BY <1>5, <1>6, OfFacts DEF Of
<1>8. PICK e \in Of(last_key) : Last(s3_index) = Stamp(e)
  <2>1. s3_index = [i \in DOMAIN b |-> Stamp(b[i])]
    BY <1>5, <1>6 DEF Times
  <2>2. s3_index \in Seq(AllStamps) /\ Len(s3_index) = Len(b)
        /\ \A i \in 1 .. Len(b) : s3_index[i] = Stamp(b[i])
    BY <1>7, <2>1, TimesFacts
  <2>3. Last(s3_index) = s3_index[Len(b)] /\ Len(b) \in DOMAIN s3_index
    BY <1>2, <2>2, LastFacts
  <2>4. Len(b) \in 1 .. Len(b) /\ DOMAIN b = 1 .. Len(b)
    BY <1>7, <2>2, <2>3
  <2>5. b[Len(b)] \in ToSet(b)
    BY <2>4 DEF ToSet
  <2> QED BY <1>7, <2>2, <2>3, <2>4, <2>5
<1>9. e \in Chunks /\ e \in InClips
  BY <1>5, <1>8, OfFacts DEF InClips
<1>10. c.take \in Nat /\ e.take \in Nat /\ Stamp(c) \in Nat /\ Stamp(e) \in Nat /\ Gap \in Nat
  BY <1>4, <1>9, TakeNat, ChunkStamp, TimeAssumption
<1>11. e.take <= c.take
  <2>1. pos >= Left
    BY <1>4 DEF TypeInv, TypeOK
  <2> QED BY <1>3, <1>4, <1>9, <2>1 DEF OneBehindOther
<1>12. \A d \in InClips : d.take <= e.take
  BY <1>5, <1>8 DEF OneBehindOther
<1>13. \A d \in InClips : d.take \in Nat
  BY TakeNat
<1>14. NewClip(Stamp(c)) <=> Stamp(c) - Stamp(e) > Gap
  BY <1>2, <1>8 DEF NewClip
<1>15. ASSUME NewClip(Stamp(c)) PROVE \A d \in HeardChunks : d.take # c.take
  <2>1. e.take # c.take
    BY <1>4, <1>9, <1>10, <1>14, <1>15 DEF Short
  <2>2. e.take < c.take
    BY <1>10, <1>11, <2>1
  <2>3. HeardChunks = InClips
    BY DEF HeardChunks, InClips, Of
  <2> QED BY <1>10, <1>12, <1>13, <2>2, <2>3
<1>16. ASSUME ~NewClip(Stamp(c)) PROVE \A d \in Of(last_key) : d.take = c.take
  <2>1. ~(e.take < c.take)
    BY <1>4, <1>9, <1>10, <1>14, <1>16 DEF FarApart
  <2>2. e.take = c.take
    BY <1>10, <1>11, <2>1
  <2>3. ASSUME NEW d \in Of(last_key) PROVE d.take = c.take
    <3>1. d \in InClips
      BY <1>5 DEF InClips
    <3>2. e.take <= d.take
      BY <1>5, <1>9 DEF OneBehindOther
    <3> QED BY <1>10, <1>12, <1>13, <2>2, <3>1, <3>2
  <2> QED BY <2>3
<1> QED BY <1>3, <1>15, <1>16

\* Steps that only go on in the batch.
LEMMA OnlyGoesOn ==
  ASSUME OneBehindOther, UNCHANGED <<faults, latest, last_key>>,
         \A k \in Keys : Of(k)' = Of(k),
         batch' = <<>> \/ (batch' = batch /\ \A i \in DOMAIN batch : i >= Left' => i >= Left)
  PROVE  OneBehindOther'
<1>1. InClips' = InClips
  BY DEF InClips
<1>2. PICK n : n = last_key
  OBVIOUS
<1>3. \A c \in InClips : n \in Keys => \A d \in Of(n)' : c.take <= d.take
  BY <1>2 DEF OneBehindOther
<1>4. n' = n /\ n' = last_key'
  BY <1>2
<1>5. CASE batch' = <<>>
  BY <1>1, <1>3, <1>4, <1>5 DEF OneBehindOther
<1>6. CASE batch' = batch /\ \A i \in DOMAIN batch : i >= Left' => i >= Left
  BY <1>1, <1>3, <1>4, <1>6 DEF OneBehindOther
<1> QED BY <1>5, <1>6

LEMMA SameLastClip ==
  ASSUME UNCHANGED <<last_key, s3_clip>>
  PROVE  Of(last_key)' = Of(last_key)
BY DEF Of

LEMMA ArriveBehind ==
  ASSUME TypeInv, OnlyLost, OneBehindOther, NEW c \in Chunks, Arrive(c)
  PROVE  OneBehindOther'
<1>1. /\ pc = "idle" /\ pos = 1 /\ pc' = "idle" /\ pos' = 1 /\ batch' = Append(batch, c)
      /\ UNCHANGED <<last_key, s3_clip>>
  BY DEF Arrive, Collecting, TypeInv, TypeOK, s3
<1>2. UNCHANGED faults /\ ~(c.take < latest)
  BY FaultsNone DEF Arrive
<1>3. c.take \in Nat /\ latest \in Nat /\ InClips \subseteq Chunks
      /\ \A d \in Chunks \cup {Odd} : d.take \in Nat
  BY TakeNat
<1>4. latest' = c.take /\ latest <= c.take
  BY <1>2, <1>3 DEF Arrive
<1>5. batch \in Seq(Chunks \cup {Odd})
  BY DEF TypeInv, TypeOK
<1>6. PICK n : n = Len(batch) + 1
  OBVIOUS
<1>7. /\ DOMAIN batch' = DOMAIN batch \cup {n} /\ n \notin DOMAIN batch
      /\ \A i \in DOMAIN batch : batch'[i] = batch[i]
      /\ batch'[n] = c
  BY <1>1, <1>5, <1>6, AppendFacts
<1>8. \A i \in DOMAIN batch : i \in Nat /\ i < n /\ i >= 1 /\ batch[i].take \in Nat
  BY <1>3, <1>5, <1>6
<1>9. (\A k : Of(k)' = Of(k)) /\ InClips' = InClips /\ Left = 1 /\ Left' = 1
  BY <1>1 DEF Of, InClips, Left
<1>10. \A d \in InClips : d.take \in Nat /\ d.take <= latest
  BY <1>3 DEF OneBehindOther
<1>11. \A d \in InClips : d.take <= latest'
  BY <1>3, <1>4, <1>10
<1>12. \A i \in DOMAIN batch' : batch'[i].take <= latest'
  BY <1>3, <1>4, <1>7, <1>8 DEF OneBehindOther
<1>13. ASSUME NEW i \in DOMAIN batch', NEW j \in DOMAIN batch', i < j, batch'[j] # Odd
       PROVE  batch'[i].take <= batch'[j].take
  <2>1. CASE j = n
    BY <1>4, <1>7, <1>12, <2>1
  <2>2. CASE j # n
    <3>1. i \in DOMAIN batch /\ j \in DOMAIN batch
      BY <1>6, <1>5, <1>7, <1>8, <1>13, <2>2
    <3> QED BY <1>7, <1>13, <3>1 DEF OneBehindOther
  <2> QED BY <2>1, <2>2
<1>14. ASSUME NEW d \in InClips, NEW i \in DOMAIN batch', batch'[i] # Odd
       PROVE  d.take <= batch'[i].take
  <2>1. CASE i = n
    BY <1>4, <1>7, <1>11, <2>1
  <2>2. CASE i # n
    <3>1. i \in DOMAIN batch /\ i >= Left /\ batch'[i] = batch[i]
      BY <1>7, <1>8, <1>9, <2>2
    <3> QED BY <1>14, <3>1 DEF OneBehindOther
  <2> QED BY <2>1, <2>2
<1>15. \A d \in InClips : last_key \in Keys => \A e \in Of(last_key)' : d.take <= e.take
  BY <1>1, SameLastClip DEF OneBehindOther
<1>16. \A f \in Faults : faults'[f] <= Tolerated[f]
  BY <1>2 DEF OneBehindOther
<1>17. last_key' = last_key
  BY <1>1
<1>18. \A d \in InClips' : last_key' \in Keys => \A e \in Of(last_key)' : d.take <= e.take
  BY <1>9, <1>15, <1>17
<1> QED BY <1>9, <1>11, <1>12, <1>13, <1>14, <1>16, <1>18 DEF OneBehindOther

LEMMA ArriveOddBehind ==
  ASSUME TypeInv, OneBehindOther, ArriveOdd
  PROVE  OneBehindOther'
<1>1. /\ pc = "idle" /\ pos = 1 /\ pc' = "idle" /\ pos' = 1 /\ batch' = Append(batch, Odd)
      /\ UNCHANGED <<latest, last_key, s3_clip>>
  BY DEF ArriveOdd, Collecting, TypeInv, TypeOK, s3
<1>2. \A f \in Faults : faults'[f] <= Tolerated[f]
  <2>1. "odd" \in Faults /\ faults["odd"] < Tolerated["odd"]
        /\ faults' = [faults EXCEPT !["odd"] = @ + 1]
    BY DEF ArriveOdd, Fault, Faults
  <2>2. faults'["odd"] = faults["odd"] + 1 /\ \A f \in Faults : f # "odd" => faults'[f] = faults[f]
    BY <2>1, TakeNat
  <2>3. faults["odd"] + 1 <= Tolerated["odd"]
    BY <2>1, TakeNat
  <2> QED BY <2>2, <2>3 DEF OneBehindOther
<1>3. batch \in Seq(Chunks \cup {Odd})
  BY DEF TypeInv, TypeOK
<1>4. PICK n : n = Len(batch) + 1
  OBVIOUS
<1>5. /\ DOMAIN batch' = DOMAIN batch \cup {n} /\ n \notin DOMAIN batch
      /\ \A i \in DOMAIN batch : batch'[i] = batch[i]
      /\ batch'[n] = Odd
  BY <1>1, <1>3, <1>4, AppendFacts
<1>6. \A i \in DOMAIN batch : i \in Nat /\ i < n /\ i >= 1
  BY <1>3, <1>4
<1>7. (\A k : Of(k)' = Of(k)) /\ InClips' = InClips /\ Left = 1 /\ Left' = 1
  BY <1>1 DEF Of, InClips, Left
<1>8. \A i \in DOMAIN batch' : batch'[i].take <= latest
  <2>1. Odd.take <= latest
    BY TakeNat DEF Odd
  <2> QED BY <1>5, <2>1 DEF OneBehindOther
<1>9. ASSUME NEW i \in DOMAIN batch', NEW j \in DOMAIN batch', i < j, batch'[j] # Odd
      PROVE  batch'[i].take <= batch'[j].take
  <2>1. j # n /\ j \in DOMAIN batch
    BY <1>5, <1>9
  <2>2. i \in DOMAIN batch
    BY <1>3, <1>4, <1>5, <1>6, <1>9, <2>1
  <2> QED BY <1>5, <1>9, <2>1, <2>2 DEF OneBehindOther
<1>10. ASSUME NEW d \in InClips, NEW i \in DOMAIN batch', batch'[i] # Odd
       PROVE  d.take <= batch'[i].take
  <2>1. i \in DOMAIN batch /\ i >= Left /\ batch'[i] = batch[i]
    BY <1>5, <1>6, <1>7, <1>10
  <2> QED BY <1>10, <2>1 DEF OneBehindOther
<1>11. \A d \in InClips : last_key \in Keys => \A e \in Of(last_key)' : d.take <= e.take
  BY <1>1, SameLastClip DEF OneBehindOther
<1>12. latest' = latest /\ last_key' = last_key
  BY <1>1
<1>13. /\ \A d \in InClips' : d.take <= latest'
       /\ \A i \in DOMAIN batch' : batch'[i].take <= latest'
       /\ \A d \in InClips' : last_key' \in Keys => \A e \in Of(last_key)' : d.take <= e.take
  BY <1>7, <1>8, <1>11, <1>12 DEF OneBehindOther
<1> QED BY <1>2, <1>7, <1>9, <1>10, <1>13 DEF OneBehindOther

\* A new clip is empty when its key is put.
LEMMA PutKeyBehind ==
  ASSUME TypeInv, IndexInv, NamesInv, PromiseInv, OneBehindOther, PutKey
  PROVE  OneBehindOther'
<1>1. /\ pc = "put_key" /\ pc' = "put_index" /\ last_key' = key'
      /\ UNCHANGED <<faults, latest, batch, pos, s3_clip>>
  BY DEF PutKey, external
<1>2. (\A k : Of(k)' = Of(k)) /\ InClips' = InClips /\ Left' = Left
  BY <1>1 DEF Of, InClips, Left
<1>3. PICK n : n = key'
  OBVIOUS
<1>4. n \in Keys => Of(n)' = {}
  <2> SUFFICES ASSUME n \in Keys, NEW d \in Of(n)' PROVE FALSE
    OBVIOUS
  <2>1. \A k \in Keys : \A e \in Of(k)' : e.take = batch[pos].take <=> k = n
    BY <1>1, <1>3, PutKeyPromise DEF PromiseInv, Taken, OneMore
  <2>2. \A k \in Keys : \A e \in Of(k) : e.take # batch[pos].take
    BY <1>1 DEF PromiseInv, Taken
  <2> QED BY <1>2, <2>1, <2>2
<1>5. last_key' = n
  BY <1>1, <1>3
<1>6. \A d \in InClips' : last_key' \in Keys => \A e \in Of(last_key)' : d.take <= e.take
  <2>1. \A e : e \in Of(last_key)' <=> e \in ToSet(s3_clip'[n].blocks)
    BY <1>5 DEF Of
  <2>2. \A e : e \in Of(n)' <=> e \in ToSet(s3_clip'[n].blocks)
    BY DEF Of
  <2> QED BY <1>4, <1>5, <2>1, <2>2
<1> QED BY <1>1, <1>2, <1>6 DEF OneBehindOther

LEMMA PutClipBehind ==
  ASSUME TypeInv, PromiseInv, OneBehindOther, PutClip
  PROVE  OneBehindOther'
<1>0. PICK n : n = key
  OBVIOUS
<1>1. PICK c : c = batch[pos]
  OBVIOUS
<1>2. /\ pc = "put_clip" /\ n \in Keys /\ n = last_key /\ c \in Chunks
      /\ Of(n)' = Of(n) \cup {c}
      /\ \A k \in Keys : k # n => Of(k)' = Of(k)
  BY <1>0, <1>1, ClipPut
<1>3. UNCHANGED <<faults, latest, last_key>>
  BY DEF PutClip
<1>4. pos \in DOMAIN batch /\ Left = pos /\ pos \in Nat /\ batch \in Seq(Chunks \cup {Odd}) /\ c # Odd
  BY <1>2, ChunkStamp DEF TypeInv, TypeOK, Left
<1>5. batch' = <<>> \/ (batch' = batch /\ Left' = pos + 1)
  BY DEF PutClip, NextRecord, Left
<1>6. \A d \in Of(n) : d.take = c.take
  BY <1>0, <1>1, <1>2 DEF PromiseInv, Taken, OneMore
<1>7. \A d \in InClips' : d \in InClips \/ d = c
  BY <1>2 DEF InClips
<1>8. \A d \in InClips : d.take <= c.take
  BY <1>1, <1>4 DEF OneBehindOther
<1>9. c.take \in Nat /\ \A d \in InClips' : d.take <= c.take
  BY <1>2, <1>7, <1>8, TakeNat
<1>10. \A d \in InClips' : d.take <= latest
  BY <1>1, <1>4, <1>7 DEF OneBehindOther
<1>11. \A d \in InClips' : \A e \in Of(n)' : d.take <= e.take
  BY <1>2, <1>6, <1>9
<1>12. \A i \in DOMAIN batch' : /\ batch' = batch /\ batch[i].take <= latest
                                /\ i >= Left' => pos < i
  BY <1>4, <1>5 DEF OneBehindOther
<1>13. ASSUME NEW d \in InClips', NEW i \in DOMAIN batch', i >= Left', batch'[i] # Odd
       PROVE  d.take <= batch'[i].take
  <2>1. c.take <= batch[i].take /\ batch'[i] = batch[i]
    BY <1>1, <1>4, <1>12, <1>13 DEF OneBehindOther
  <2>2. batch[i].take \in Nat /\ d.take \in Nat
    BY <1>4, <1>7, <1>9, <1>12, TakeNat
  <2> QED BY <1>9, <2>1, <2>2
<1>14. ASSUME NEW i \in DOMAIN batch', NEW j \in DOMAIN batch', i < j, batch'[j] # Odd
       PROVE  batch'[i].take <= batch'[j].take
  BY <1>12, <1>14 DEF OneBehindOther
<1>15. last_key' = n
  BY <1>2, <1>3
<1>16. \A d \in InClips' : last_key' \in Keys => \A e \in Of(last_key)' : d.take <= e.take
  <2>1. \A e : e \in Of(last_key)' <=> e \in ToSet(s3_clip'[n].blocks)
    BY <1>15 DEF Of
  <2>2. \A e : e \in Of(n)' <=> e \in ToSet(s3_clip'[n].blocks)
    BY DEF Of
  <2> QED BY <1>11, <2>1, <2>2
<1> QED BY <1>3, <1>10, <1>12, <1>13, <1>14, <1>16 DEF OneBehindOther

LEMMA OneBehindStep ==
  ASSUME TypeInv, IndexInv, NamesInv, SpokenInv, PromiseInv, OnlyLost, OneBehindOther, [Next]_vars
  PROVE  OneBehindOther'
<1>1. CASE UNCHANGED vars
  <2>1. UNCHANGED <<faults, latest, last_key, batch, s3_clip>> /\ Left' = Left
    BY <1>1 DEF vars, external, s3, Left
  <2>2. \A k \in Keys : Of(k)' = Of(k)
    BY <2>1 DEF Of
  <2> QED BY <2>1, <2>2, OnlyGoesOn
<1>2. CASE Delivery
  <2>1. \A c \in Chunks : ~ArriveTwice(c)
    BY FaultsNone DEF ArriveTwice
  <2> QED BY <1>2, <2>1, ArriveBehind, ArriveOddBehind DEF Delivery
<1>3. CASE Invoke \/ RecordInserted \/ PutIndex \/ StartJob \/ JobCompleted
  <2>1. UNCHANGED <<faults, latest, last_key, batch, s3_clip>> /\ Left' = Left
    BY <1>3 DEF Invoke, RecordInserted, PutIndex, StartJob, JobCompleted, external, s3, Left
  <2>2. \A k \in Keys : Of(k)' = Of(k)
    BY <2>1 DEF Of
  <2> QED BY <2>1, <2>2, OnlyGoesOn
<1>4. ~Retry
  BY FaultsNone DEF Retry
<1>5. CASE RecordMismatch \/ RecordDismissed \/ JobFailed \/ SendTranscript
  <2>1. /\ UNCHANGED <<faults, latest, last_key, s3_clip>> /\ pc \in {"record", "wait", "send"}
        /\ RecordMismatch \/ NextRecord
    BY <1>5 DEF RecordMismatch, RecordDismissed, JobFailed, SendTranscript, Dismiss, s3
  <2>2. batch' = <<>> \/ (batch' = batch /\ pos' = pos + 1 /\ pc' = "record")
    BY <2>1 DEF RecordMismatch, NextRecord
  <2>3. batch' = <<>> \/ (batch' = batch /\ Left' = pos + 1 /\ Left <= pos + 1)
    BY <2>2 DEF Left, TypeInv, TypeOK
  <2>4. Left \in Nat /\ pos \in Nat /\ \A i \in DOMAIN batch : i \in Nat
    BY DEF Left, TypeInv, TypeOK
  <2>5. batch' = <<>> \/ (batch' = batch /\ \A i \in DOMAIN batch : i >= Left' => i >= Left)
    BY <2>3, <2>4
  <2>6. \A k \in Keys : Of(k)' = Of(k)
    BY <2>1 DEF Of
  <2> QED BY <2>1, <2>5, <2>6, OnlyGoesOn
<1>6. CASE PutKey
  BY <1>6, PutKeyBehind
<1>7. CASE PutClip
  BY <1>7, PutClipBehind
<1>8. CASE PutWav
  <2>1. UNCHANGED <<faults, latest, last_key, batch>> /\ Left' = Left
    BY <1>8 DEF PutWav, external, Left
  <2>2. \A k \in Keys : Of(k)' = Of(k)
    BY <1>8, PutWavPromise
  <2> QED BY <2>1, <2>2, OnlyGoesOn
<1> QED BY <1>1, <1>2, <1>3, <1>4, <1>5, <1>6, <1>7, <1>8 DEF Next, Handler

\* With a pause longer than the gap between two takes, none as long within one, and chunks
\* lost, of another size, and in any order within their take, but none twice or behind a
\* chunk of the next take and no invocation repeated, the handler (lambda.py 67-260) does
\* what Transcription promises: it hears a take up to the number the take announced,
\* and hands to speech recognition what has that number, once.
THEOREM TakesApartTranscribed ==
  ASSUME FarApart, Short, OnlyLost
  PROVE  Spec => KeepsPromise
<1> DEFINE IInv == TypeInv /\ IndexInv /\ NamesInv /\ SpokenInv /\ PromiseInv /\ OneBehindOther
           Told == NothingTwice /\ TakesTold
<1>1. Init => IInv
  BY TypeInit, IndexInit, NamesInit, SpokenInit, PromiseInit, OneBehindInit
<1>2. IInv => Told
  BY TakesToldApart
<1>3. IInv /\ [Next]_vars => IInv'
  <2> SUFFICES ASSUME IInv, [Next]_vars PROVE IInv'
    OBVIOUS
  <2>1. TypeInv' /\ IndexInv' /\ NamesInv' /\ SpokenInv'
    BY TypeStep, IndexStep, NamesStep, SpokenStep
  <2>2. OneBehindOther'
    BY OneBehindStep
  <2>3. NothingTwice'
    <3>1. faults' \in [Faults -> Nat] /\ {"duplicate", "retry"} \subseteq Faults
      BY <2>1 DEF TypeInv, TypeOK, Faults
    <3>2. \A f \in {"duplicate", "retry"} : faults'[f] <= Tolerated[f] /\ Tolerated[f] = 0
      BY <2>2, <3>1 DEF OneBehindOther, OnlyLost
    <3>3. \A f \in {"duplicate", "retry"} : faults'[f] \in Nat
      BY <3>1
    <3> QED BY <3>2, <3>3 DEF NothingTwice
  <2>4. PromiseInv'
    BY <1>2, <2>3, PromiseStep
  <2> QED BY <2>1, <2>2, <2>4
<1> HIDE DEF IInv, Told
<1>4. Spec => []IInv
  BY <1>1, <1>3, PTL DEF Spec
<1>5. Spec => []Told
  BY <1>2, <1>4, PTL
<1> QED BY <1>5, PromiseKept, PTL DEF Told

=============================================================================
