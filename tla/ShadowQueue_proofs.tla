------------------------ MODULE ShadowQueue_proofs ------------------------
(***************************************************************************)
(* Theorems about ShadowQueue, for every set of names and all bounds.       *)
(***************************************************************************)
EXTENDS ShadowQueue, SequenceTheorems, TLAPS

----------------------------------------------------------------------------
(* awsiot_sem *)

SemOK ==
  /\ awsiot_sem \in Nat
  /\ upd \in [Threads -> Steps]
  /\ took \subseteq Threads

\* Whatever happens to the string, the semaphore cannot run out of tokens for good.
THEOREM TokenNeverLost == Spec => []TokenExists
<1> DEFINE Inv == SemOK /\ TokenExists
<1>1. Init => Inv
  BY DEF Init, SemOK, TokenExists, Steps
<1>2. Inv /\ [Next]_vars => Inv'
  <2> SUFFICES ASSUME Inv, [Next]_vars PROVE Inv'
    OBVIOUS
  <2> USE SemAssumption DEF SemOK, TokenExists, InCycle, Steps, awsVars, updVars
  <2>1. ASSUME NEW t \in Threads, NEW n \in Names, TryAcquire(t, n) PROVE Inv'
    BY <2>1 DEF TryAcquire
  <2>2. ASSUME NEW t \in Threads, TestEmpty(t) PROVE Inv'
    BY <2>2 DEF TestEmpty
  <2>3. ASSUME NEW t \in Threads, OpenName(t) PROVE Inv'
    BY <2>3 DEF OpenName, Appends
  <2>4. ASSUME NEW t \in Threads, CloseValue(t) PROVE Inv'
    BY <2>4 DEF CloseValue, Appends
  <2>5. ASSUME NEW t \in Threads, Release(t) PROVE Inv'
    BY <2>5 DEF Release, Released
  <2>6. CASE Check \/ Acquire
    BY <2>6 DEF Check, Acquire
  <2>7. CASE WrapPrefix \/ WrapSuffix
    BY <2>7 DEF WrapPrefix, WrapSuffix, Wrap
  <2>8. CASE Publish \/ SendSucceeds \/ SendFails
    BY <2>8 DEF Publish, SendSucceeds, SendFails
  <2>9. CASE Reconnected \/ Yield \/ YieldLost \/ YieldFaults
    BY <2>9 DEF Reconnected, Yield, YieldLost, YieldFaults
  <2>10. CASE Result
    BY <2>10 DEF Result, Released
  <2>11. CASE ConnectLoop \/ UNCHANGED vars
    BY <2>11 DEF ConnectLoop, vars
  <2> QED
    BY <2>1, <2>2, <2>3, <2>4, <2>5, <2>6, <2>7, <2>8, <2>9, <2>10, <2>11
    DEF Next, Cycle, Update, Finish
<1> QED
  BY <1>1, <1>2, PTL DEF Spec

\* Every thread inside awsiot_update will release once, whether it took or not.
Releasing(t) == upd[t] # "idle"

Tokens == awsiot_sem + One(InCycle) + One(Releasing("main")) + One(Releasing("aws"))

\* One token is in use or free until a try_acquire is made in vain, and then up to three.
DriftInv ==
  /\ SemOK
  /\ \A t \in took : Releasing(t)
  /\ Tokens <= 3
  /\ ~vain => Tokens = 1

LEMMA DriftInit == Init => DriftInv
BY DEF Init, DriftInv, Tokens, SemOK, Releasing, InCycle, One, Threads, Steps

\* What a step does to the tokens.
LEMMA TokensStep == DriftInv /\ [Next]_vars => DriftInv'
<1> SUFFICES ASSUME DriftInv, [Next]_vars PROVE DriftInv'
  OBVIOUS
<1> USE DEF DriftInv, Tokens, SemOK, Releasing, InCycle, One, Threads, Steps, awsVars, updVars
<1>1. ASSUME NEW t \in Threads, NEW n \in Names, TryAcquire(t, n) PROVE DriftInv'
  <2>1. SemOK' /\ \A u \in took' : Releasing(u)'
    BY <1>1 DEF TryAcquire
  <2>2. /\ awsiot_sem' = IF awsiot_sem > 0 THEN awsiot_sem - 1 ELSE 0
        /\ ~vain' => ~vain /\ awsiot_sem # 0
    BY <1>1 DEF TryAcquire
  <2>3. InCycle' = InCycle /\ upd[t] = "idle" /\ upd'[t] # "idle"
    BY <1>1 DEF TryAcquire
  <2>4. \A u \in Threads : u # t => upd'[u] = upd[u]
    BY <1>1 DEF TryAcquire
  <2>5. CASE t = "main"
    BY <2>1, <2>2, <2>3, <2>4, <2>5
  <2>6. CASE t = "aws"
    BY <2>1, <2>2, <2>3, <2>4, <2>6
  <2> QED
    BY <2>5, <2>6
<1>2. ASSUME NEW t \in Threads, TestEmpty(t) PROVE DriftInv'
  BY <1>2 DEF TestEmpty
<1>3. ASSUME NEW t \in Threads, OpenName(t) PROVE DriftInv'
  BY <1>3 DEF OpenName, Appends
<1>4. ASSUME NEW t \in Threads, CloseValue(t) PROVE DriftInv'
  BY <1>4 DEF CloseValue, Appends
<1>5. ASSUME NEW t \in Threads, Release(t) PROVE DriftInv'
  <2>1. /\ upd[t] # "idle" /\ upd'[t] = "idle" /\ \A u \in Threads : u # t => upd'[u] = upd[u]
        /\ UNCHANGED <<aws, vain>> /\ SemOK' /\ took' = took \ {t}
    BY <1>5, SemAssumption DEF Release, Released
  <2>2. /\ Releasing(t) /\ ~Releasing(t)' /\ (InCycle' <=> InCycle)
        /\ \A u \in Threads : u # t => (Releasing(u)' <=> Releasing(u))
    BY <2>1
  <2>3. \A u \in took' : Releasing(u)'
    BY <2>1
  <2>4. awsiot_sem' = IF awsiot_sem < MaxSem THEN awsiot_sem + 1 ELSE awsiot_sem
    BY <1>5 DEF Release, Released
  <2> HIDE DEF InCycle, Releasing
  <2>5. CASE t = "main"
    BY <2>1, <2>2, <2>3, <2>4, <2>5, SemAssumption
  <2>6. CASE t = "aws"
    BY <2>1, <2>2, <2>3, <2>4, <2>6, SemAssumption
  <2> QED
    BY <2>5, <2>6
<1>6. CASE Check
  BY <1>6 DEF Check
<1>7. CASE Acquire
  BY <1>7 DEF Acquire
<1>8. CASE WrapPrefix \/ WrapSuffix
  BY <1>8 DEF WrapPrefix, WrapSuffix, Wrap
<1>9. CASE Publish \/ SendSucceeds \/ SendFails
  BY <1>9 DEF Publish, SendSucceeds, SendFails
<1>10. CASE Reconnected \/ Yield \/ YieldLost \/ YieldFaults
  BY <1>10 DEF Reconnected, Yield, YieldLost, YieldFaults
<1>11. CASE Result
  <2>1. InCycle /\ ~InCycle' /\ UNCHANGED <<upd, vain, took>> /\ SemOK'
    BY <1>11, SemAssumption DEF Result, Released
  <2>2. awsiot_sem' = IF awsiot_sem < MaxSem THEN awsiot_sem + 1 ELSE awsiot_sem
    BY <1>11 DEF Result, Released
  <2>3. \A u \in Threads : Releasing(u)' <=> Releasing(u)
    BY <2>1
  <2> HIDE DEF InCycle, Releasing
  <2> QED BY <2>1, <2>2, <2>3, SemAssumption
<1>12. CASE ConnectLoop \/ UNCHANGED vars
  BY <1>12 DEF ConnectLoop, vars
<1> QED
  BY <1>1, <1>2, <1>3, <1>4, <1>5, <1>6, <1>7, <1>8, <1>9, <1>10, <1>11, <1>12
  DEF Next, Cycle, Update, Finish

\* The drift of the count is bounded, however many updates are made.
THEOREM DriftBounded == Spec => []TokensBounded
<1>1. DriftInv => TokensBounded
  BY DEF DriftInv, Tokens, SemOK, Releasing, TokensBounded, One, Threads
<1> QED
  BY <1>1, DriftInit, TokensStep, PTL DEF Spec

----------------------------------------------------------------------------
(* Types                                                                    *)

\* A thread that has begun an update and not counted it in newest.
Pending(t) == upd[t] \in {"test", "open", "comma", "close"}

\* Every update that was begun counts, also the ones not yet appended: there is a
\* number left for each of them.
Counted ==
  \A n \in Names : newest[n] + One(Pending("main")) + One(Pending("aws")) <= count

Named == \A t \in Threads : upd[t] # "idle" => name[t] \in Names

TypeInv == TypeOK /\ Counted /\ Named

LEMMA PieceTypes ==
  /\ Prefix \in Pieces /\ Suffix \in Pieces /\ Broken \in Pieces
  /\ \A n \in Names : OpenPair(n) \in Pieces
  /\ \A p \in Pairs : p \in Pieces
BY DEF Pieces

LEMMA OutcomeTypes ==
  ASSUME NEW s \in Seq(Pieces), NEW alone
  PROVE  Outcomes(s, alone) \subseteq Seq(Pieces)
<1>1. <<Broken>> \in Seq(Pieces)
  BY PieceTypes
<1> QED BY <1>1 DEF Outcomes

\* The last element of a sequence is replaced.
LEMMA ChangeLast ==
  ASSUME NEW S, NEW s \in Seq(S), s # <<>>, NEW x \in S, NEW r, r = [s EXCEPT ![Len(s)] = x]
  PROVE  /\ r \in Seq(S) /\ Len(r) = Len(s) /\ Len(s) \in 1 .. Len(s)
         /\ r[Len(s)] = x /\ \A i \in 1 .. Len(s) : i # Len(s) => r[i] = s[i]
<1>1. Len(s) \in Nat /\ s \in [1 .. Len(s) -> S] /\ DOMAIN s = 1 .. Len(s)
  OBVIOUS
<1>2. Len(s) # 0
  OBVIOUS
<1>3. Len(s) \in 1 .. Len(s)
  BY <1>1, <1>2
<1> QED BY <1>1, <1>3, ExceptSeq

LEMMA TypeInit == Init => TypeInv
<1> SUFFICES ASSUME Init PROVE TypeInv
  OBVIOUS
<1>1. <<>> \in Seq(Pieces)
  OBVIOUS
<1>2. TypeOK
  <2>1. /\ [t \in Threads |-> "idle"] \in [Threads -> Steps]
        /\ [t \in Threads |-> NoName] \in [Threads -> Names \cup {NoName}]
    BY DEF Steps
  <2>2. 0 \in 0 .. MaxUpdates /\ 1 \in 0 .. MaxSem
    BY SemAssumption, BoundAssumption
  <2>3. /\ [n \in Names |-> 0] \in [Names -> 0 .. MaxUpdates]
        /\ [n \in Names |-> 0] \in [Names -> (0 .. MaxUpdates) \cup {Garbled}]
    BY <2>2
  <2> QED BY <1>1, <2>1, <2>2, <2>3 DEF Init, TypeOK
<1>3. Counted /\ Named
  BY DEF Init, Counted, Named, Pending, One, Threads
<1> QED BY <1>2, <1>3 DEF TypeInv

LEMMA TryAcquireType ==
  ASSUME TypeInv, NEW t \in Threads, NEW n \in Names, TryAcquire(t, n) PROVE TypeInv'
<1>1. /\ upd[t] = "idle" /\ upd' = [upd EXCEPT ![t] = "test"] /\ name' = [name EXCEPT ![t] = n]
      /\ count < MaxUpdates /\ count' = count + 1
      /\ UNCHANGED <<shadow_status, awsVars, newest, shadow, disturbed, torn>>
  BY DEF TryAcquire
<1>2. awsiot_sem' \in 0 .. MaxSem /\ took' \subseteq Threads
  BY SemAssumption DEF TryAcquire, TypeInv, TypeOK
<1>3. /\ count' \in 0 .. MaxUpdates /\ upd' \in [Threads -> Steps]
      /\ name' \in [Threads -> Names \cup {NoName}]
  BY <1>1, BoundAssumption DEF TypeInv, TypeOK, Steps
<1>4. vain' \in BOOLEAN
  BY Zenon DEF TryAcquire
<1>5. TypeOK'
  BY <1>1, <1>2, <1>3, <1>4 DEF TypeInv, TypeOK, awsVars
<1>6. Counted'
  <2>1. \A k \in Names : newest[k] \in Nat /\ count \in Nat
    BY BoundAssumption DEF TypeInv, TypeOK
  <2>2. /\ ~Pending(t) /\ Pending(t)'
        /\ \A u \in Threads : u # t => (Pending(u)' <=> Pending(u))
    BY <1>1 DEF TypeInv, TypeOK, Pending
  <2>3. CASE t = "main"
    BY <1>1, <2>1, <2>2, <2>3 DEF TypeInv, Counted, One, Threads
  <2>4. CASE t = "aws"
    BY <1>1, <2>1, <2>2, <2>4 DEF TypeInv, Counted, One, Threads
  <2> QED BY <2>3, <2>4 DEF Threads
<1>7. Named'
  BY <1>1 DEF TypeInv, TypeOK, Named
<1> QED BY <1>5, <1>6, <1>7 DEF TypeInv

LEMMA TestEmptyType ==
  ASSUME TypeInv, NEW t \in Threads, TestEmpty(t) PROVE TypeInv'
<1>1. /\ upd[t] = "test" /\ upd'[t] \in {"open", "comma"}
      /\ \A u \in Threads : u # t => upd'[u] = upd[u]
      /\ upd' \in [Threads -> Steps]
      /\ UNCHANGED <<shadow_status, awsiot_sem, name, took, awsVars, count, newest, shadow,
                     disturbed, vain, torn>>
  BY DEF TestEmpty, TypeInv, TypeOK, Steps
<1>2. \A u \in Threads : Pending(u)' <=> Pending(u)
  BY <1>1 DEF Pending
<1>3. Counted' /\ Named'
  BY <1>1, <1>2 DEF TypeInv, Counted, Named, Threads, One
<1> QED BY <1>1, <1>3 DEF TypeInv, TypeOK, awsVars

LEMMA AppendsType ==
  ASSUME TypeInv, NEW t \in Threads, NEW s \in Seq(Pieces), Appends(t, s)
  PROVE  /\ shadow_status' \in Seq(Pieces)
         /\ torn' \in BOOLEAN /\ disturbed' \in BOOLEAN
         /\ UNCHANGED <<awsiot_sem, name, took, awsVars, count, shadow, vain>>
<1>1. shadow_status' \in Seq(Pieces)
  BY OutcomeTypes DEF Appends
<1>2. torn' \in BOOLEAN /\ disturbed' \in BOOLEAN
  BY Zenon DEF Appends
<1> QED BY <1>1, <1>2 DEF Appends

LEMMA OpenNameType ==
  ASSUME TypeInv, NEW t \in Threads, OpenName(t) PROVE TypeInv'
<1>1. name[t] \in Names
  BY DEF OpenName, TypeInv, Named
<1>2. Append(shadow_status, OpenPair(name[t])) \in Seq(Pieces) /\ <<Broken>> \in Seq(Pieces)
  BY <1>1, PieceTypes DEF TypeInv, TypeOK
<1>3. PICK s \in Seq(Pieces) : Appends(t, s)
  BY <1>2 DEF OpenName
<1>4. /\ shadow_status' \in Seq(Pieces)
      /\ torn' \in BOOLEAN /\ disturbed' \in BOOLEAN
      /\ UNCHANGED <<awsiot_sem, name, took, awsVars, count, shadow, vain, newest>>
  BY <1>3, AppendsType DEF OpenName
<1>5. /\ Pending(t) /\ upd'[t] = "close"
      /\ \A u \in Threads : u # t => upd'[u] = upd[u]
      /\ upd' \in [Threads -> Steps]
  BY DEF OpenName, TypeInv, TypeOK, Steps, Pending
<1>6. \A u \in Threads : Pending(u)' <=> Pending(u)
  BY <1>5 DEF Pending
<1>7. Counted' /\ Named'
  BY <1>1, <1>4, <1>5, <1>6 DEF TypeInv, Counted, Named, Threads, One
<1> QED BY <1>4, <1>5, <1>7 DEF TypeInv, TypeOK, awsVars

LEMMA CloseValueType ==
  ASSUME TypeInv, NEW t \in Threads, CloseValue(t)
  PROVE  /\ TypeInv' /\ name[t] \in Names
         /\ Pair(name[t], newest[name[t]] + 1) \in Pairs
         /\ newest' = [newest EXCEPT ![name[t]] = newest[name[t]] + 1]
<1> DEFINE n == name[t]
<1>1. /\ upd[t] = "close" /\ upd' = [upd EXCEPT ![t] = "release"]
      /\ newest' = [newest EXCEPT ![n] = newest[n] + 1]
  BY DEF CloseValue
<1>2. n \in Names
  BY <1>1 DEF TypeInv, Named
<1> HIDE DEF n
<1>3. newest[n] \in Nat /\ newest[n] + 1 <= count /\ count \in 0 .. MaxUpdates
  <2>1. newest[n] \in Nat /\ count \in 0 .. MaxUpdates
    BY <1>2, BoundAssumption DEF TypeInv, TypeOK
  <2>2. CASE t = "main"
    BY <1>1, <1>2, <2>1, <2>2 DEF TypeInv, Counted, One, Pending
  <2>3. CASE t = "aws"
    BY <1>1, <1>2, <2>1, <2>3 DEF TypeInv, Counted, One, Pending
  <2> QED BY <2>1, <2>2, <2>3 DEF Threads
<1>4. newest[n] + 1 \in 1 .. MaxUpdates
  BY <1>3, BoundAssumption
<1>5. Pair(n, newest[n] + 1) \in Pairs
  BY <1>2, <1>4 DEF Pairs
<1>6. PICK s \in Seq(Pieces) : Appends(t, s)
  <2> DEFINE last == Len(shadow_status)
             closed == [shadow_status EXCEPT ![last] = Pair(n, newest[n] + 1)]
             fits == EndsOpen(shadow_status) /\ shadow_status[last].name = n
  <2>1. shadow_status \in Seq(Pieces) /\ Pair(n, newest[n] + 1) \in Pieces
    BY <1>5, PieceTypes DEF TypeInv, TypeOK
  <2>2. fits => closed \in Seq(Pieces)
    BY <2>1, ChangeLast DEF EndsOpen
  <2>3. <<Broken>> \in Seq(Pieces)
    BY PieceTypes
  <2>4. Appends(t, IF fits THEN closed ELSE <<Broken>>)
    BY DEF CloseValue, n
  <2> QED BY <2>2, <2>3, <2>4
<1>7. /\ shadow_status' \in Seq(Pieces)
      /\ torn' \in BOOLEAN /\ disturbed' \in BOOLEAN
      /\ UNCHANGED <<awsiot_sem, name, took, awsVars, count, shadow, vain>>
  BY <1>6, AppendsType
<1>8. newest' \in [Names -> 0 .. MaxUpdates] /\ upd' \in [Threads -> Steps]
  BY <1>1, <1>2, <1>4 DEF TypeInv, TypeOK, Steps
<1>9. TypeOK'
  BY <1>7, <1>8 DEF TypeInv, TypeOK, awsVars
<1>10. Counted'
  <2>1. \A k \in Names : newest[k] \in Nat /\ count \in Nat
    BY BoundAssumption DEF TypeInv, TypeOK
  <2>2. /\ Pending(t) /\ ~Pending(t)'
        /\ \A u \in Threads : u # t => (Pending(u)' <=> Pending(u))
    BY <1>1 DEF TypeInv, TypeOK, Pending
  <2>3. \A k \in Names : newest'[k] <= newest[k] + 1
    BY <1>1, <1>2, <2>1 DEF TypeInv, TypeOK
  <2>4. \A k \in Names : newest'[k] \in Nat
    BY <1>8
  <2>5. CASE t = "main"
    BY <1>7, <2>1, <2>2, <2>3, <2>4, <2>5 DEF TypeInv, Counted, One, Threads
  <2>6. CASE t = "aws"
    BY <1>7, <2>1, <2>2, <2>3, <2>4, <2>6 DEF TypeInv, Counted, One, Threads
  <2> QED BY <2>5, <2>6 DEF Threads
<1>11. Named'
  BY <1>1, <1>7 DEF TypeInv, TypeOK, Named
<1> QED BY <1>1, <1>2, <1>5, <1>9, <1>10, <1>11 DEF TypeInv, n

LEMMA ReleaseType ==
  ASSUME TypeInv, NEW t \in Threads, Release(t) PROVE TypeInv'
<1>1. /\ upd[t] = "release" /\ upd' = [upd EXCEPT ![t] = "idle"]
      /\ name' = [name EXCEPT ![t] = NoName]
      /\ UNCHANGED <<shadow_status, awsVars, count, newest, shadow, disturbed, vain, torn>>
  BY DEF Release
<1>2. /\ awsiot_sem' \in 0 .. MaxSem /\ took' \subseteq Threads
      /\ upd' \in [Threads -> Steps] /\ name' \in [Threads -> Names \cup {NoName}]
  BY SemAssumption DEF Release, Released, TypeInv, TypeOK, Steps
<1>3. TypeOK'
  BY <1>1, <1>2 DEF TypeInv, TypeOK, awsVars
<1>4. \A u \in Threads : Pending(u)' <=> Pending(u)
  BY <1>1 DEF TypeInv, TypeOK, Pending
<1>5. Counted' /\ Named'
  BY <1>1, <1>4 DEF TypeInv, TypeOK, Counted, Named, Threads, One
<1> QED BY <1>3, <1>5 DEF TypeInv

\* A document has a value of the message or the one it had.
LEMMA AppliedType ==
  ASSUME TypeInv
  PROVE  Applied(message) \in [Names -> (0 .. MaxUpdates) \cup {Garbled}]
<1>1. ASSUME NEW n \in Names PROVE Applied(message)[n] \in (0 .. MaxUpdates) \cup {Garbled}
  <2>1. CASE LastPair(message, n) = {}
    BY <2>1 DEF Applied, TypeInv, TypeOK
  <2>2. CASE LastPair(message, n) # {}
    <3> DEFINE i == CHOOSE i \in LastPair(message, n) : TRUE
    <3>1. i \in LastPair(message, n)
      BY <2>2
    <3>2. Applied(message)[n] = message[i].id
      BY <2>2 DEF Applied
    <3> HIDE DEF i
    <3>3. message[i] \in Pieces /\ message[i].kind = "pair"
      BY <3>1 DEF LastPair, IsPair, TypeInv, TypeOK
    <3>4. message[i] \in Pairs
      BY <3>3 DEF Pieces, Prefix, Suffix, Broken, OpenPair
    <3>5. message[i].id \in 1 .. MaxUpdates
      BY <3>4 DEF Pairs, Pair
    <3> QED BY <3>2, <3>5, BoundAssumption
  <2> QED BY <2>1, <2>2
<1> QED BY <1>1 DEF Applied

LEMMA CycleType ==
  ASSUME TypeInv, UNCHANGED <<updVars, count, newest>>, TypeOK' PROVE TypeInv'
BY DEF TypeInv, Counted, Named, Pending, updVars

LEMMA WrapType ==
  ASSUME TypeInv, NEW s \in Seq(Pieces), Wrap(s), aws' \in {"suffix", "publish"}
  PROVE  TypeInv'
<1>1. shadow_status' \in Seq(Pieces)
  BY OutcomeTypes DEF Wrap
<1>2. torn' \in BOOLEAN
  BY Zenon DEF Wrap
<1>3. UNCHANGED <<awsiot_sem, updVars, client, result, message, count, newest, shadow,
                  disturbed, vain>>
  BY DEF Wrap
<1>4. TypeOK'
  BY <1>1, <1>2, <1>3 DEF TypeInv, TypeOK, updVars
<1> QED BY <1>3, <1>4, CycleType

LEMMA TypeStep == TypeInv /\ [Next]_vars => TypeInv'
<1> SUFFICES ASSUME TypeInv, [Next]_vars PROVE TypeInv'
  OBVIOUS
<1> USE DEF awsVars, updVars
<1>1. ASSUME NEW t \in Threads, Update(t) PROVE TypeInv'
  BY <1>1, TryAcquireType, TestEmptyType, OpenNameType, CloseValueType, ReleaseType
  DEF Update, Finish
<1>2. CASE WrapPrefix
  <2>1. <<Broken>> \in Seq(Pieces) /\ <<Prefix>> \o shadow_status \in Seq(Pieces)
    BY PieceTypes DEF TypeInv, TypeOK
  <2> QED BY <1>2, <2>1, WrapType DEF WrapPrefix
<1>3. CASE WrapSuffix
  <2>1. <<Broken>> \in Seq(Pieces) /\ Append(shadow_status, Suffix) \in Seq(Pieces)
    BY PieceTypes DEF TypeInv, TypeOK
  <2>2. PICK s \in Seq(Pieces) : Wrap(s)
    BY <1>3, <2>1 DEF WrapSuffix
  <2> QED BY <1>3, <2>2, WrapType DEF WrapSuffix
<1>4. CASE SendSucceeds
  <2>1. shadow' \in [Names -> (0 .. MaxUpdates) \cup {Garbled}]
    <3>1. CASE WellFormed(message)
      BY <1>4, <3>1, AppliedType DEF SendSucceeds
    <3>2. CASE ~WellFormed(message)
      <4>1. PICK S : shadow' = [n \in Names |-> IF n \in S THEN Garbled ELSE shadow[n]]
        BY <1>4, <3>2 DEF SendSucceeds, Refused
      <4> QED BY <4>1 DEF TypeInv, TypeOK
    <3> QED BY <3>1, <3>2
  <2>2. TypeOK'
    BY <1>4, <2>1 DEF SendSucceeds, TypeInv, TypeOK
  <2> QED BY <1>4, <2>2, CycleType DEF SendSucceeds
<1>5. CASE Check \/ Acquire
  <2>1. TypeOK'
    BY <1>5, SemAssumption DEF Check, Acquire, TypeInv, TypeOK
  <2> QED BY <1>5, <2>1, CycleType DEF Check, Acquire
<1>6. CASE Publish \/ SendFails
  <2>1. message' \in Seq(Pieces)
    <3>1. message' = message \/ message' \in Outcomes(shadow_status, CycleAlone) \/ message' = <<>>
      BY <1>6 DEF Publish, SendFails
    <3>2. message \in Seq(Pieces) /\ shadow_status \in Seq(Pieces) /\ <<>> \in Seq(Pieces)
      BY DEF TypeInv, TypeOK
    <3> QED BY <3>1, <3>2, OutcomeTypes
  <2>2. disturbed' \in BOOLEAN /\ torn' \in BOOLEAN
    BY <1>6, Zenon DEF Publish, SendFails, TypeInv, TypeOK
  <2>3. /\ result' \in {1, -1}
        /\ aws' \in {"send", "result", "reconnect", "lost_publish"}
        /\ UNCHANGED <<shadow_status, awsiot_sem, updVars, client, count, newest, shadow, vain>>
    BY <1>6 DEF Publish, SendFails, TypeInv, TypeOK
  <2>4. TypeOK'
    BY <2>1, <2>2, <2>3 DEF TypeInv, TypeOK
  <2> QED BY <2>3, <2>4, CycleType
<1>7. CASE Reconnected \/ Yield \/ YieldLost \/ YieldFaults
  <2>1. TypeOK'
    BY <1>7 DEF Reconnected, Yield, YieldLost, YieldFaults, TypeInv, TypeOK
  <2> QED BY <1>7, <2>1, CycleType DEF Reconnected, Yield, YieldLost, YieldFaults
<1>8. CASE Result
  <2>1. shadow_status' \in Seq(Pieces)
    <3>1. <<>> \in Seq(Pieces) /\ shadow_status \in Seq(Pieces)
      BY DEF TypeInv, TypeOK
    <3> QED BY <1>8, <3>1, OutcomeTypes DEF Result, Cleared
  <2>2. torn' \in BOOLEAN
    BY <1>8, Zenon DEF Result, Cleared
  <2>3. TypeOK'
    BY <1>8, <2>1, <2>2, SemAssumption DEF Result, Released, TypeInv, TypeOK
  <2> QED BY <1>8, <2>3, CycleType DEF Result
<1>9. CASE ConnectLoop \/ UNCHANGED vars
  BY <1>9, CycleType DEF ConnectLoop, vars, TypeInv, TypeOK
<1> QED BY <1>1, <1>2, <1>3, <1>4, <1>5, <1>6, <1>7, <1>8, <1>9 DEF Next, Cycle

\* The string is made of prefixes, suffixes, numbered pairs, a name that waits for its value,
\* or is broken, whatever fails, is repeated or meets on the two threads (awsiot.cpp 330-460,
\* 741-819).
THEOREM TypeCorrect == Spec => []TypeOK
<1>1. TypeInv => TypeOK
  BY DEF TypeInv
<1> QED BY <1>1, TypeInit, TypeStep, PTL DEF Spec

----------------------------------------------------------------------------
(* What tears the string                                                    *)

LEMMA AppendShape ==
  ASSUME NEW S, NEW s \in Seq(S), NEW p \in S, NEW r, r = Append(s, p)
  PROVE  /\ r \in Seq(S) /\ Len(s) \in Nat /\ Len(r) = Len(s) + 1
         /\ r[Len(s) + 1] = p /\ \A i \in 1 .. Len(s) : r[i] = s[i]
OBVIOUS

LEMMA PrefixShape ==
  ASSUME NEW s \in Seq(Pieces), NEW w, w = <<Prefix>> \o s
  PROVE  /\ w \in Seq(Pieces) /\ Len(s) \in Nat /\ Len(w) = Len(s) + 1
         /\ w[1] = Prefix /\ \A i \in 1 .. Len(s) : w[i + 1] = s[i]
<1>1. Prefix \in Pieces
  BY PieceTypes
<1>2. w \in Seq(Pieces) /\ Len(w) = Len(s) + 1 /\ w[1] = Prefix
  BY <1>1
<1>3. ASSUME NEW i \in 1 .. Len(s) PROVE w[i + 1] = s[i]
  BY <1>1
<1> QED BY <1>2, <1>3

\* As long as every try_acquire has got its token, whoever is in the string is alone there,
\* and finds it as it was tested.
WholeInv ==
  ~vain =>
    /\ ~torn /\ shadow_status # <<Broken>>
    /\ EndsOpen(shadow_status) => \E t \in Threads : upd[t] = "close"
    /\ \A t \in Threads :
         /\ upd[t] = "open" => shadow_status = <<>>
         /\ upd[t] = "comma" => shadow_status # <<>>
         /\ upd[t] = "close" => /\ EndsOpen(shadow_status)
                                /\ shadow_status[Len(shadow_status)].name = name[t]

\* A thread with its token is alone in the string, the cycle outside; and so is the cycle.
LEMMA TokenAlone ==
  ASSUME DriftInv, ~vain
  PROVE  /\ \A t \in Threads : Releasing(t) => /\ Alone(t) /\ ~InCycle
                                               /\ \A u \in Threads \ {t} : upd[u] = "idle"
         /\ InCycle => CycleAlone /\ \A t \in Threads : upd[t] = "idle"
<1> USE DEF DriftInv, Tokens, SemOK, Releasing, One, Threads
<1>1. \A t \in Threads : Releasing(t) => ~InCycle /\ \A u \in Threads \ {t} : upd[u] = "idle"
  OBVIOUS
<1>2. InCycle => \A t \in Threads : upd[t] = "idle"
  OBVIOUS
<1>3. CycleInString => InCycle
  BY DEF CycleInString, InCycle
<1> QED BY <1>1, <1>2, <1>3 DEF Alone, CycleAlone, InString

LEMMA OpenWhole ==
  ASSUME TypeInv, DriftInv, WholeInv, ~vain, NEW t \in Threads, OpenName(t)
  PROVE  WholeInv'
<1> DEFINE p == OpenPair(name[t])
           s == shadow_status
<1>1. /\ Alone(t) /\ \A u \in Threads \ {t} : upd[u] = "idle"
      /\ upd[t] \in {"open", "comma"}
  BY TokenAlone DEF OpenName, Releasing
<1>2. s \in Seq(Pieces) /\ p \in Pieces
  BY PieceTypes, <1>1 DEF TypeInv, TypeOK, Named
<1>3. ~EndsOpen(s) /\ s # <<Broken>> /\ (upd[t] = "comma" <=> s # <<>>)
  BY <1>1 DEF WholeInv
<1>4. ((upd[t] = "comma") = (s # <<>>)) = TRUE
  BY <1>3, Zenon
<1>5. Appends(t, Append(s, p))
  BY <1>3, <1>4 DEF OpenName
<1>6. /\ shadow_status' = Append(s, p) /\ name' = name /\ vain' = vain
      /\ torn' = (torn \/ shadow_status' = <<Broken>>)
  BY <1>1, <1>5 DEF Appends, Outcomes
<1>7. p.kind = "open" /\ p.name = name[t] /\ Broken.kind = "broken"
  BY DEF OpenPair, Broken
<1> HIDE DEF p
<1>8. /\ Len(shadow_status') = Len(s) + 1 /\ shadow_status'[Len(s) + 1] = p /\ Len(s) \in Nat
      /\ shadow_status' \in Seq(Pieces)
  BY <1>2, <1>6, AppendShape
<1>9. shadow_status' # <<>>
  BY <1>8
<1>10. shadow_status' # <<Broken>>
  <2> SUFFICES ASSUME shadow_status' = <<Broken>> PROVE FALSE
    OBVIOUS
  <2>1. Len(shadow_status') = 1 /\ shadow_status'[1] = Broken
    OBVIOUS
  <2> QED BY <1>7, <1>8, <2>1
<1>11. EndsOpen(shadow_status)' /\ shadow_status'[Len(shadow_status')].name = name[t]
  BY <1>7, <1>8, <1>9 DEF EndsOpen
<1>12. upd'[t] = "close" /\ \A u \in Threads \ {t} : upd'[u] = "idle"
  BY <1>1 DEF OpenName, TypeInv, TypeOK
<1> QED BY <1>6, <1>10, <1>11, <1>12 DEF WholeInv

LEMMA CloseWhole ==
  ASSUME TypeInv, DriftInv, WholeInv, ~vain, NEW t \in Threads, CloseValue(t)
  PROVE  WholeInv'
<1> DEFINE p == Pair(name[t], newest[name[t]] + 1)
           s == shadow_status
<1>1. /\ Alone(t) /\ \A u \in Threads \ {t} : upd[u] = "idle"
      /\ upd[t] = "close"
  BY TokenAlone DEF CloseValue, Releasing
<1>2. s \in Seq(Pieces) /\ p \in Pieces
  BY PieceTypes, CloseValueType DEF TypeInv, TypeOK
<1>3. EndsOpen(s) /\ s[Len(s)].name = name[t]
  BY <1>1 DEF WholeInv
<1>4. Appends(t, [s EXCEPT ![Len(s)] = p])
  BY <1>3 DEF CloseValue
<1>5. /\ shadow_status' = [s EXCEPT ![Len(s)] = p] /\ name' = name /\ vain' = vain
      /\ torn' = (torn \/ shadow_status' = <<Broken>>)
  BY <1>1, <1>4 DEF Appends, Outcomes
<1>6. p.kind = "pair" /\ Broken.kind = "broken"
  BY DEF Pair, Broken
<1> HIDE DEF p
<1>7. /\ Len(shadow_status') = Len(s) /\ shadow_status'[Len(s)] = p
      /\ shadow_status' \in Seq(Pieces)
  BY <1>2, <1>3, <1>5, ChangeLast DEF EndsOpen
<1>8. shadow_status' # <<Broken>>
  <2> SUFFICES ASSUME shadow_status' = <<Broken>> PROVE FALSE
    OBVIOUS
  <2>1. Len(shadow_status') = 1 /\ shadow_status'[1] = Broken
    OBVIOUS
  <2> QED BY <1>6, <1>7, <2>1
<1>9. ~EndsOpen(shadow_status)'
  BY <1>6, <1>7 DEF EndsOpen
<1>10. upd'[t] = "release" /\ \A u \in Threads \ {t} : upd'[u] = "idle"
  BY <1>1 DEF CloseValue, TypeInv, TypeOK
<1> QED BY <1>5, <1>8, <1>9, <1>10 DEF WholeInv

\* The cycle alone with a string that has no open pair.
LEMMA WrapWhole ==
  ASSUME TypeInv, DriftInv, WholeInv, ~vain, WrapPrefix \/ WrapSuffix
  PROVE  WholeInv'
<1> DEFINE s == shadow_status
<1>1. CycleAlone /\ \A t \in Threads : upd[t] = "idle"
  BY TokenAlone DEF WrapPrefix, WrapSuffix, InCycle
<1>2. ~EndsOpen(s) /\ s # <<Broken>> /\ ~torn
  BY <1>1 DEF WholeInv
<1>3. s \in Seq(Pieces) /\ Suffix \in Pieces
  BY PieceTypes DEF TypeInv, TypeOK
<1>4. upd' = upd /\ vain' = vain /\ torn' = (torn \/ shadow_status' = <<Broken>>)
  BY DEF WrapPrefix, WrapSuffix, Wrap, updVars
<1>5. Prefix.kind = "prefix" /\ Suffix.kind = "suffix" /\ Broken.kind = "broken"
  BY DEF Prefix, Suffix, Broken
<1>6. ASSUME NEW w, NEW p \in {1, Len(w)}, w[p] \in {Prefix, Suffix} PROVE w # <<Broken>>
  <2> SUFFICES ASSUME w = <<Broken>> PROVE FALSE
    OBVIOUS
  <2>1. Len(w) = 1 /\ w[1] = Broken
    OBVIOUS
  <2> QED BY <1>5, <1>6, <2>1
<1>7. shadow_status' # <<Broken>> /\ ~EndsOpen(shadow_status)'
  <2>1. CASE WrapPrefix
    <3>1. shadow_status' = <<Prefix>> \o s
      BY <1>1, <1>2, <2>1 DEF WrapPrefix, Wrap, Outcomes
    <3>2. /\ Len(s) \in Nat /\ Len(shadow_status') = Len(s) + 1 /\ shadow_status'[1] = Prefix
          /\ \A i \in 1 .. Len(s) : shadow_status'[i + 1] = s[i]
      BY <1>3, <3>1, PrefixShape
    <3>3. shadow_status'[Len(shadow_status')].kind # "open"
      <4>1. CASE s = <<>>
        BY <1>5, <3>2, <4>1
      <4>2. CASE s # <<>>
        <5>1. Len(s) \in 1 .. Len(s)
          BY <1>3, <4>2
        <5> QED BY <1>2, <3>2, <4>2, <5>1 DEF EndsOpen
      <4> QED BY <4>1, <4>2
    <3> QED BY <1>6, <3>2, <3>3 DEF EndsOpen
  <2>2. CASE WrapSuffix
    <3>1. shadow_status' = Append(s, Suffix)
      BY <1>1, <1>2, <2>2 DEF WrapSuffix, Wrap, Outcomes
    <3>2. shadow_status'[Len(shadow_status')] = Suffix
      BY <1>3, <3>1, AppendShape
    <3> QED BY <1>5, <1>6, <3>2 DEF EndsOpen
  <2> QED BY <2>1, <2>2
<1> QED BY <1>1, <1>2, <1>4, <1>7 DEF WholeInv

LEMMA WholeInit == Init => WholeInv
BY DEF Init, WholeInv, EndsOpen

\* Where neither the string nor a thread in awsiot_update changes.
LEMMA WholeSame ==
  ASSUME WholeInv, UNCHANGED <<shadow_status, upd, name, torn, vain>> PROVE WholeInv'
BY DEF WholeInv, EndsOpen

LEMMA WholeStep == TypeInv /\ DriftInv /\ WholeInv /\ [Next]_vars => WholeInv'
<1> SUFFICES ASSUME TypeInv, DriftInv, WholeInv, [Next]_vars, ~vain' PROVE WholeInv'
  BY DEF WholeInv
<1>1. ASSUME NEW t \in Threads, NEW n \in Names, TryAcquire(t, n) PROVE WholeInv'
  <2>1. ~vain /\ shadow_status' = shadow_status /\ torn' = torn
    BY <1>1 DEF TryAcquire
  <2>2. /\ upd[t] = "idle" /\ upd'[t] = "test"
        /\ \A u \in Threads : u # t => upd'[u] = upd[u] /\ name'[u] = name[u]
    BY <1>1 DEF TryAcquire, TypeInv, TypeOK
  <2> QED BY <2>1, <2>2 DEF WholeInv, EndsOpen
<1>2. ASSUME NEW t \in Threads, TestEmpty(t) PROVE WholeInv'
  <2>1. ~vain /\ shadow_status' = shadow_status /\ torn' = torn /\ name' = name
    BY <1>2 DEF TestEmpty
  <2>2. /\ upd[t] = "test" /\ upd'[t] = IF shadow_status = <<>> THEN "open" ELSE "comma"
        /\ \A u \in Threads : u # t => upd'[u] = upd[u]
    BY <1>2 DEF TestEmpty, TypeInv, TypeOK
  <2> QED BY <2>1, <2>2 DEF WholeInv, EndsOpen
<1>3. ASSUME NEW t \in Threads, OpenName(t) PROVE WholeInv'
  BY <1>3, OpenWhole DEF OpenName, Appends
<1>4. ASSUME NEW t \in Threads, CloseValue(t) PROVE WholeInv'
  BY <1>4, CloseWhole DEF CloseValue, Appends
<1>5. ASSUME NEW t \in Threads, Release(t) PROVE WholeInv'
  <2>1. ~vain /\ shadow_status' = shadow_status /\ torn' = torn
    BY <1>5 DEF Release
  <2>2. /\ upd[t] = "release" /\ upd'[t] = "idle"
        /\ \A u \in Threads : u # t => upd'[u] = upd[u] /\ name'[u] = name[u]
    BY <1>5 DEF Release, TypeInv, TypeOK
  <2> QED BY <2>1, <2>2 DEF WholeInv, EndsOpen
<1>6. CASE WrapPrefix \/ WrapSuffix
  BY <1>6, WrapWhole DEF WrapPrefix, WrapSuffix, Wrap
<1>7. CASE Publish
  <2>1. ~vain /\ UNCHANGED <<shadow_status, upd, name>>
    BY <1>7 DEF Publish, updVars
  <2>2. CycleAlone /\ shadow_status # <<Broken>>
    BY <1>7, <2>1, TokenAlone DEF Publish, InCycle, WholeInv
  <2>3. ~torn'
    BY <1>7, <2>1, <2>2 DEF Publish, Outcomes, WholeInv
  <2> QED BY <2>1, <2>3 DEF WholeInv, EndsOpen
<1>8. CASE Result
  <2>1. ~vain /\ UNCHANGED <<upd, name>>
    BY <1>8 DEF Result, updVars
  <2>2. CycleAlone /\ \A t \in Threads : upd[t] = "idle"
    BY <1>8, <2>1, TokenAlone DEF Result, InCycle
  <2>3. shadow_status' = <<>> \/ shadow_status' = shadow_status
    BY <1>8, <2>2 DEF Result, Cleared, Outcomes
  <2>4. <<>> # <<Broken>>
    OBVIOUS
  <2>5. ~torn' /\ shadow_status' # <<Broken>>
    BY <1>8, <2>1, <2>3, <2>4 DEF Result, Cleared, WholeInv
  <2>6. ~EndsOpen(shadow_status)'
    BY <2>1, <2>2, <2>3 DEF WholeInv, EndsOpen
  <2> QED BY <2>1, <2>2, <2>5, <2>6 DEF WholeInv
<1>9. CASE Check \/ Acquire \/ SendSucceeds \/ SendFails
  BY <1>9, WholeSame DEF Check, Acquire, SendSucceeds, SendFails, updVars
<1>10. CASE Reconnected \/ Yield \/ YieldLost \/ YieldFaults
  BY <1>10, WholeSame DEF Reconnected, Yield, YieldLost, YieldFaults, updVars
<1>11. CASE ConnectLoop \/ UNCHANGED vars
  BY <1>11, WholeSame DEF ConnectLoop, vars, updVars
<1> QED
  BY <1>1, <1>2, <1>3, <1>4, <1>5, <1>6, <1>7, <1>8, <1>9, <1>10, <1>11
  DEF Next, Cycle, Update, Finish

\* The string is torn only after a try_acquire was made in vain: the token keeps the six
\* appends of awsiot_update together (awsiot.cpp 767-804) and the wrapping, the publish and
\* the clearing (345-375), for any number of updates on both threads.
THEOREM TornOnlyInVain == Spec => [](torn => vain)
<1>1. WholeInv => (torn => vain)
  BY DEF WholeInv
<1> QED
  BY <1>1, TypeInit, TypeStep, DriftInit, TokensStep, WholeInit, WholeStep, PTL DEF Spec

----------------------------------------------------------------------------
(* The broker's document *)

\* The pairs of m are not older than the document and not newer than the newest.
Between(m) ==
  \A i \in 1 .. Len(m) :
    m[i].kind = "pair" => /\ m[i].name \in Names
                          /\ m[i].id \in Nat
                          /\ shadow[m[i].name] <= m[i].id
                          /\ m[i].id <= newest[m[i].name]

\* A string whose message was a success is about to be cleared; every other string
\* is still ahead of the document.
OrderInv ==
  ~torn =>
    /\ \A n \in Names : shadow[n] \in Nat /\ shadow[n] <= newest[n]
    /\ message # <<Broken>>
    /\ ~(aws = "result" /\ result = 1) => Between(shadow_status)
    /\ Between(message)

\* What is known of the numbers.
LEMMA Numbers ==
  ASSUME TypeInv
  PROVE  newest \in [Names -> Nat] /\ shadow \in [Names -> Int]
<1>1. 0 .. MaxUpdates \subseteq Nat
  BY BoundAssumption
<1> QED BY <1>1 DEF TypeInv, TypeOK, Garbled

\* Opening a pair leaves the others between the document and the newest updates.
LEMMA OpenBetween ==
  ASSUME TypeInv, NEW t \in Threads, OpenName(t), ~torn', Between(shadow_status)
  PROVE  Between(shadow_status)'
<1> DEFINE p == OpenPair(name[t])
           s == shadow_status
<1>1. shadow_status' = Append(s, p) /\ shadow' = shadow /\ newest' = newest
  BY DEF OpenName, Appends, Outcomes
<1>2. p \in Pieces /\ p.kind # "pair" /\ s \in Seq(Pieces)
  BY PieceTypes DEF OpenName, OpenPair, TypeInv, TypeOK, Named
<1> HIDE DEF p
<1>3. /\ Len(shadow_status') = Len(s) + 1 /\ shadow_status'[Len(s) + 1] = p /\ Len(s) \in Nat
      /\ \A i \in 1 .. Len(s) : shadow_status'[i] = s[i]
  BY <1>1, <1>2, AppendShape
<1>4. ASSUME NEW i \in 1 .. Len(shadow_status'), shadow_status'[i].kind = "pair"
      PROVE  i \in 1 .. Len(s) /\ shadow_status'[i] = s[i]
  <2>1. i # Len(s) + 1
    BY <1>2, <1>3, <1>4
  <2>2. i \in 1 .. Len(s)
    BY <1>3, <2>1
  <2> QED BY <1>3, <2>2
<1> QED BY <1>1, <1>4 DEF Between

\* Closing a pair with the next update of its name keeps the string between the document
\* and the newest updates.
LEMMA CloseBetween ==
  ASSUME TypeInv, NEW t \in Threads, CloseValue(t), ~torn', Between(shadow_status),
         \A k \in Names : shadow[k] \in Nat /\ shadow[k] <= newest[k]
  PROVE  Between(shadow_status)'
<1> DEFINE n == name[t]
           p == Pair(n, newest[n] + 1)
           s == shadow_status
<1>1. /\ n \in Names /\ p \in Pieces /\ newest' = [newest EXCEPT ![n] = newest[n] + 1]
      /\ s \in Seq(Pieces)
  BY CloseValueType, PieceTypes DEF TypeInv, TypeOK
<1>2. EndsOpen(s) /\ shadow_status' = [s EXCEPT ![Len(s)] = p] /\ shadow' = shadow
  BY DEF CloseValue, Appends, Outcomes
<1>3. newest' \in [Names -> Nat] /\ \A k \in Names : newest[k] <= newest'[k]
  BY <1>1, Numbers
<1>4. newest'[n] = newest[n] + 1 /\ newest[n] \in Nat /\ shadow[n] <= newest[n]
  BY <1>1, Numbers
<1>5. p.name = n /\ p.id = newest[n] + 1
  BY DEF Pair
<1> HIDE DEF p, n
<1>6. /\ Len(shadow_status') = Len(s) /\ Len(s) \in 1 .. Len(s) /\ shadow_status'[Len(s)] = p
      /\ \A i \in 1 .. Len(s) : i # Len(s) => shadow_status'[i] = s[i]
  BY <1>1, <1>2, ChangeLast DEF EndsOpen
<1>7. ASSUME NEW i \in 1 .. Len(shadow_status'), shadow_status'[i].kind = "pair"
      PROVE  /\ shadow_status'[i].name \in Names
             /\ shadow_status'[i].id \in Nat
             /\ shadow[shadow_status'[i].name] <= shadow_status'[i].id
             /\ shadow_status'[i].id <= newest'[shadow_status'[i].name]
  <2>1. CASE i = Len(s)
    BY <1>1, <1>4, <1>5, <1>6, <2>1
  <2>2. CASE i # Len(s)
    <3>1. i \in 1 .. Len(s) /\ shadow_status'[i] = s[i] /\ s[i].kind = "pair"
      BY <1>6, <1>7, <2>2
    <3>2. /\ s[i].name \in Names /\ s[i].id \in Nat
          /\ shadow[s[i].name] <= s[i].id /\ s[i].id <= newest[s[i].name]
      BY <3>1 DEF Between
    <3> QED
      BY <1>3, <3>1, <3>2, Numbers
  <2> QED
    BY <2>1, <2>2
<1> QED
  BY <1>2, <1>7 DEF Between

\* The prefix and the suffix are no pairs.
LEMMA WrapBetween ==
  ASSUME TypeInv, WrapPrefix \/ WrapSuffix, ~torn', Between(shadow_status)
  PROVE  Between(shadow_status)'
<1> DEFINE s == shadow_status
<1>1. s \in Seq(Pieces) /\ Suffix \in Pieces
  BY PieceTypes DEF TypeInv, TypeOK
<1>2. Prefix.kind # "pair" /\ Suffix.kind # "pair"
  BY DEF Prefix, Suffix
<1>3. UNCHANGED <<shadow, newest>>
  BY DEF WrapPrefix, WrapSuffix, Wrap
<1>4. ASSUME NEW i \in 1 .. Len(shadow_status'), shadow_status'[i].kind = "pair"
      PROVE  \E j \in 1 .. Len(s) : shadow_status'[i] = s[j]
  <2>1. CASE WrapPrefix
    <3>1. shadow_status' = <<Prefix>> \o s
      BY <2>1 DEF WrapPrefix, Wrap, Outcomes
    <3>2. /\ Len(s) \in Nat /\ Len(shadow_status') = Len(s) + 1 /\ shadow_status'[1] = Prefix
          /\ \A j \in 1 .. Len(s) : shadow_status'[j + 1] = s[j]
      BY <1>1, <3>1, PrefixShape
    <3>3. i # 1
      BY <1>2, <1>4, <3>2
    <3>4. i - 1 \in 1 .. Len(s) /\ (i - 1) + 1 = i
      BY <3>2, <3>3
    <3> QED BY <3>2, <3>4
  <2>2. CASE WrapSuffix
    <3>1. shadow_status' = Append(s, Suffix)
      BY <2>2 DEF WrapSuffix, Wrap, Outcomes
    <3>2. /\ Len(s) \in Nat /\ Len(shadow_status') = Len(s) + 1
          /\ shadow_status'[Len(s) + 1] = Suffix
          /\ \A j \in 1 .. Len(s) : shadow_status'[j] = s[j]
      BY <1>1, <3>1, AppendShape
    <3>3. i # Len(s) + 1
      BY <1>2, <1>4, <3>2
    <3>4. i \in 1 .. Len(s)
      BY <3>2, <3>3
    <3> QED BY <3>2, <3>4
  <2> QED BY <2>1, <2>2
<1> QED BY <1>3, <1>4 DEF Between

\* A document applied from a message between is between, too.
LEMMA AppliedBetween ==
  ASSUME TypeInv, OrderInv, ~torn
  PROVE  \A n \in Names : /\ Applied(message)[n] \in Nat
                          /\ shadow[n] <= Applied(message)[n]
                          /\ Applied(message)[n] <= newest[n]
<1>1. ASSUME NEW n \in Names
      PROVE  /\ Applied(message)[n] \in Nat
             /\ shadow[n] <= Applied(message)[n]
             /\ Applied(message)[n] <= newest[n]
  <2>1. CASE LastPair(message, n) = {}
    BY <2>1, Numbers DEF Applied, OrderInv
  <2>2. CASE LastPair(message, n) # {}
    <3> DEFINE i == CHOOSE i \in LastPair(message, n) : TRUE
    <3>1. i \in LastPair(message, n)
      BY <2>2
    <3>2. Applied(message)[n] = message[i].id
      BY <2>2 DEF Applied
    <3> HIDE DEF i
    <3> QED
      BY <3>1, <3>2 DEF LastPair, IsPair, OrderInv, Between
  <2> QED
    BY <2>1, <2>2
<1> QED
  BY <1>1

\* What a success makes of the document as long as nothing was torn.
LEMMA SendOrder ==
  ASSUME TypeInv, OrderInv, ~torn, SendSucceeds
  PROVE  \/ shadow' = Applied(message) /\ WellFormed(message)
         \/ shadow' = shadow /\ ~WellFormed(message)
<1>1. shadow \in [Names -> Int] /\ message # <<Broken>>
  BY Numbers DEF OrderInv
<1>2. Refused(message) = {shadow}
  BY <1>1 DEF Refused
<1> QED BY <1>2 DEF SendSucceeds

\* Every step keeps the order: the document, then the string and the message, then
\* the newest updates.
LEMMA OrderStep == TypeInv /\ OrderInv /\ [Next]_vars => OrderInv'
<1> SUFFICES ASSUME TypeInv, OrderInv, [Next]_vars, ~torn' PROVE OrderInv'
  BY DEF OrderInv
<1> USE DEF awsVars, updVars
<1>1. ASSUME NEW t \in Threads, NEW n \in Names, TryAcquire(t, n) PROVE OrderInv'
  BY <1>1 DEF TryAcquire, OrderInv, Between
<1>2. ASSUME NEW t \in Threads, TestEmpty(t) \/ Release(t) PROVE OrderInv'
  BY <1>2 DEF TestEmpty, Release, OrderInv, Between
<1>3. ASSUME NEW t \in Threads, OpenName(t) PROVE OrderInv'
  <2>1. ~torn /\ UNCHANGED <<newest, shadow, aws, result, message>>
    BY <1>3 DEF OpenName, Appends
  <2>2. Between(shadow_status) => Between(shadow_status)'
    BY <1>3, OpenBetween
  <2> QED BY <2>1, <2>2 DEF OrderInv, Between
<1>4. ASSUME NEW t \in Threads, CloseValue(t) PROVE OrderInv'
  <2>1. ~torn /\ UNCHANGED <<shadow, aws, result, message>>
    BY <1>4 DEF CloseValue, Appends
  <2>2. newest' \in [Names -> Nat] /\ \A k \in Names : newest[k] <= newest'[k]
    BY <1>4, CloseValueType, Numbers
  <2>3. Between(message)'
    BY <2>1, <2>2, Numbers DEF OrderInv, Between
  <2>4. Between(shadow_status) => Between(shadow_status)'
    BY <1>4, <2>1, CloseBetween DEF OrderInv
  <2>5. \A k \in Names : shadow'[k] \in Nat /\ shadow'[k] <= newest'[k]
    BY <2>1, <2>2, Numbers DEF OrderInv
  <2> QED
    BY <2>1, <2>3, <2>4, <2>5 DEF OrderInv
<1>5. CASE Check \/ Acquire
  BY <1>5 DEF Check, Acquire, OrderInv, Between
<1>6. CASE WrapPrefix \/ WrapSuffix
  <2>1. /\ ~torn /\ UNCHANGED <<newest, shadow, result, message>>
        /\ aws # "result" /\ aws' # "result"
    BY <1>6 DEF WrapPrefix, WrapSuffix, Wrap
  <2>2. Between(shadow_status)'
    BY <1>6, <2>1, WrapBetween DEF OrderInv
  <2> QED BY <2>1, <2>2 DEF OrderInv, Between
<1>7. CASE Publish
  <2>1. /\ ~torn /\ UNCHANGED <<newest, shadow, shadow_status>> /\ aws = "publish"
        /\ message' = message \/ (message' = shadow_status /\ message' # <<Broken>>)
    BY <1>7 DEF Publish, Outcomes
  <2>2. Between(message)' /\ Between(shadow_status)' /\ message' # <<Broken>>
    BY <2>1 DEF OrderInv, Between
  <2> QED BY <2>1, <2>2 DEF OrderInv
<1>8. CASE SendSucceeds
  <2>1. ~torn /\ newest' = newest /\ message' = <<>> /\ aws' = "result" /\ result' = 1
    BY <1>8 DEF SendSucceeds
  <2>2. \A n \in Names : shadow'[n] \in Nat /\ shadow'[n] <= newest'[n]
    BY <1>8, <2>1, SendOrder, AppliedBetween DEF OrderInv
  <2>3. Between(message)' /\ message' # <<Broken>>
    BY <2>1 DEF Between
  <2> QED
    BY <2>1, <2>2, <2>3 DEF OrderInv
<1>9. CASE SendFails
  <2>1. ~torn /\ message' = <<>> /\ UNCHANGED <<newest, shadow, shadow_status>> /\ aws = "send"
    BY <1>9 DEF SendFails
  <2>2. Between(message)' /\ message' # <<Broken>>
    BY <2>1 DEF Between
  <2>3. Between(shadow_status)'
    BY <2>1 DEF OrderInv, Between
  <2> QED
    BY <2>1, <2>2, <2>3 DEF OrderInv
<1>10. CASE Reconnected \/ Yield \/ YieldLost \/ YieldFaults
  BY <1>10 DEF Reconnected, Yield, YieldLost, YieldFaults, OrderInv, Between
<1>11. CASE Result
  <2>1. /\ ~torn /\ UNCHANGED <<newest, shadow, message, result>>
        /\ aws = "result" /\ aws' = "yield"
        /\ shadow_status' = <<>> \/ (result # 1 /\ shadow_status' = shadow_status)
    BY <1>11 DEF Result, Cleared, Outcomes
  <2>2. Between(shadow_status)'
    BY <2>1 DEF OrderInv, Between
  <2> QED BY <2>1, <2>2 DEF OrderInv, Between
<1>12. CASE ConnectLoop \/ UNCHANGED vars
  BY <1>12 DEF ConnectLoop, vars, OrderInv, Between
<1> QED
  BY <1>1, <1>2, <1>3, <1>4, <1>5, <1>6, <1>7, <1>8, <1>9, <1>10, <1>11, <1>12
  DEF Next, Cycle, Update, Finish

LEMMA OrderInit == Init => OrderInv
BY DEF Init, OrderInv, Between

\* What KeepsUpdates says of one name and two reports, until the string is torn.
ShadowNeverOlder == [][~torn => \A n \in Names : shadow'[n] >= shadow[n]]_vars

\* Whatever fails, is retried or overtakes what, the broker's document never goes
\* back to an older value of a name: unless the string was torn, which takes a
\* try_acquire in vain (TornOnlyInVain).
THEOREM NeverOlder == Spec => ShadowNeverOlder
<1>1. TypeInv /\ OrderInv /\ [Next]_vars
       => [~torn => \A n \in Names : shadow'[n] >= shadow[n]]_vars
  <2> SUFFICES ASSUME TypeInv, OrderInv, [Next]_vars, ~torn
               PROVE  \A n \in Names : shadow'[n] >= shadow[n]
    OBVIOUS
  <2>1. CASE SendSucceeds
    BY <2>1, SendOrder, AppliedBetween DEF OrderInv
  <2>2. CASE shadow' = shadow
    BY <2>2 DEF OrderInv
  <2>3. SendSucceeds \/ shadow' = shadow
    BY DEF Next, Cycle, Update, Finish, TryAcquire, TestEmpty, OpenName, CloseValue, Appends,
           Release, Check, Acquire, WrapPrefix, WrapSuffix, Wrap, Publish, SendFails,
           Reconnected, Result, Yield, YieldLost, YieldFaults, ConnectLoop, vars
  <2> QED
    BY <2>1, <2>2, <2>3
<1> QED
  BY <1>1, TypeInit, TypeStep, OrderInit, OrderStep, PTL DEF Spec, ShadowNeverOlder

----------------------------------------------------------------------------
(* The first attempt                                                        *)

\* Pairs from k on, the last of them perhaps without its value.
Body(s, k) == \A i \in k .. Len(s) : s[i] \in Pairs \/ (i = Len(s) /\ s[i].kind = "open")

\* The last pair of s for n has the newest value; without one the document has it.
CarriesOf(s, n) ==
  \/ /\ \A i \in 1 .. Len(s) : ~IsPair(s, i, n)
     /\ shadow[n] = newest[n]
  \/ \E i \in 1 .. Len(s) :
       /\ IsPair(s, i, n) /\ s[i].id = newest[n]
       /\ \A j \in 1 .. Len(s) : j > i => ~IsPair(s, j, n)

Carries(s) == \A n \in Names : CarriesOf(s, n)

\* Until something is disturbed or torn the string has every waiting update, and it is
\* clean until it is wrapped.
FirstInv ==
  ~disturbed /\ ~torn =>
    /\ aws \in {"check", "acquire", "prefix", "suffix", "yield", "publish", "send", "result"}
    /\ aws \in {"check", "acquire", "prefix", "yield"}
         => Body(shadow_status, 1) /\ Carries(shadow_status)
    /\ aws = "suffix" => /\ shadow_status # <<>> /\ shadow_status[1] = Prefix
                         /\ Body(shadow_status, 2) /\ Carries(shadow_status)
    /\ aws = "publish" => WellFormed(shadow_status) /\ Carries(shadow_status)
    /\ aws = "send" => WellFormed(message) /\ Carries(message)
    /\ aws = "result" => result = 1 /\ shadow = newest

\* What has the pairs of s, d places further on, and no others, carries what s carries.
LEMMA CarriesMoved ==
  ASSUME NEW s, NEW r, NEW d \in Nat, Len(s) \in Nat, Len(r) \in Nat, Len(r) >= Len(s) + d,
         \A i \in 1 .. Len(s) : r[i + d] = s[i],
         \A i \in 1 .. Len(r) : i - d \in 1 .. Len(s) \/ r[i].kind # "pair",
         Carries(s)
  PROVE  Carries(r)
<1> SUFFICES ASSUME NEW n \in Names PROVE CarriesOf(r, n)
  BY DEF Carries
<1>1. ASSUME NEW i \in 1 .. Len(r), IsPair(r, i, n)
      PROVE  i - d \in 1 .. Len(s) /\ IsPair(s, i - d, n)
  <2>1. i - d \in 1 .. Len(s)
    BY <1>1 DEF IsPair
  <2>2. (i - d) + d = i
    OBVIOUS
  <2>3. r[i] = s[i - d]
    BY <2>1, <2>2
  <2> QED BY <1>1, <2>1, <2>3 DEF IsPair
<1>2. CASE (\A i \in 1 .. Len(s) : ~IsPair(s, i, n)) /\ shadow[n] = newest[n]
  BY <1>1, <1>2 DEF CarriesOf
<1>3. CASE \E i \in 1 .. Len(s) :
             /\ IsPair(s, i, n) /\ s[i].id = newest[n]
             /\ \A j \in 1 .. Len(s) : j > i => ~IsPair(s, j, n)
  <2>1. PICK i \in 1 .. Len(s) :
             /\ IsPair(s, i, n) /\ s[i].id = newest[n]
             /\ \A j \in 1 .. Len(s) : j > i => ~IsPair(s, j, n)
    BY <1>3
  <2>2. i + d \in 1 .. Len(r) /\ r[i + d] = s[i]
    OBVIOUS
  <2>3. IsPair(r, i + d, n) /\ r[i + d].id = newest[n]
    BY <2>1, <2>2 DEF IsPair
  <2>4. ASSUME NEW j \in 1 .. Len(r), j > i + d PROVE ~IsPair(r, j, n)
    <3>1. j - d > i
      BY <2>4
    <3> QED BY <1>1, <2>1, <3>1
  <2> QED BY <2>2, <2>3, <2>4 DEF CarriesOf
<1> QED BY <1>2, <1>3 DEF Carries, CarriesOf

\* Where a name is appended the string stays clean and carries what it carried.
LEMMA OpenCarries ==
  ASSUME TypeInv, NEW t \in Threads, OpenName(t), ~torn',
         NEW k \in {1, 2}, Body(shadow_status, k), Carries(shadow_status),
         k = 2 => shadow_status # <<>> /\ shadow_status[1] = Prefix
  PROVE  /\ Body(shadow_status, k)' /\ Carries(shadow_status)'
         /\ k = 2 => shadow_status' # <<>> /\ shadow_status'[1] = Prefix
<1> DEFINE p == OpenPair(name[t])
           s == shadow_status
           r == shadow_status'
<1>1. r = Append(s, p) /\ shadow' = shadow /\ newest' = newest /\ ~EndsOpen(s)
  BY DEF OpenName, Appends, Outcomes
<1>2. p \in Pieces /\ p.kind = "open" /\ s \in Seq(Pieces)
  BY PieceTypes DEF OpenName, OpenPair, TypeInv, TypeOK, Named
<1> HIDE DEF p
<1>3. /\ Len(r) = Len(s) + 1 /\ r[Len(s) + 1] = p /\ Len(s) \in Nat
      /\ \A i \in 1 .. Len(s) : r[i] = s[i]
  BY <1>1, <1>2, AppendShape
<1>4. ASSUME NEW i \in k .. Len(s) PROVE s[i] \in Pairs
  <2>1. s # <<>>
    BY <1>2, <1>4
  <2> QED BY <1>1, <1>4, <2>1 DEF Body, EndsOpen
<1>5. ASSUME NEW i \in k .. Len(r) PROVE r[i] \in Pairs \/ (i = Len(r) /\ r[i].kind = "open")
  <2>1. CASE i = Len(s) + 1
    BY <1>2, <1>3, <2>1
  <2>2. CASE i # Len(s) + 1
    <3>1. i \in k .. Len(s) /\ i \in 1 .. Len(s)
      BY <1>3, <2>2
    <3> QED BY <1>3, <1>4, <3>1
  <2> QED BY <2>1, <2>2
<1>6. Body(r, k)
  BY <1>5 DEF Body
<1>7. Carries(r)
  <2>1. \A i \in 1 .. Len(s) : r[i + 0] = s[i]
    BY <1>3
  <2>2. \A i \in 1 .. Len(r) : i - 0 \in 1 .. Len(s) \/ r[i].kind # "pair"
    <3> SUFFICES ASSUME NEW i \in 1 .. Len(r), i \notin 1 .. Len(s) PROVE r[i].kind # "pair"
      OBVIOUS
    <3>1. i = Len(s) + 1
      BY <1>3
    <3> QED BY <1>2, <1>3, <3>1
  <2>3. Len(r) \in Nat /\ Len(r) >= Len(s) + 0
    BY <1>3
  <2> QED BY <1>3, <2>1, <2>2, <2>3, CarriesMoved
<1>8. Carries(shadow_status)'
  BY <1>1, <1>7 DEF Carries, CarriesOf, IsPair
<1>9. k = 2 => r # <<>> /\ r[1] = Prefix
  <2>1. k = 2 => 1 \in 1 .. Len(s)
    BY <1>2, <1>3
  <2> QED BY <1>3, <2>1
<1> QED BY <1>6, <1>8, <1>9 DEF Body

\* Where its value is appended the string carries that, too.
LEMMA CloseCarries ==
  ASSUME TypeInv, NEW t \in Threads, CloseValue(t), ~torn',
         NEW k \in {1, 2}, Body(shadow_status, k), Carries(shadow_status),
         k = 2 => shadow_status # <<>> /\ shadow_status[1] = Prefix
  PROVE  /\ Body(shadow_status, k)' /\ Carries(shadow_status)'
         /\ k = 2 => shadow_status' # <<>> /\ shadow_status'[1] = Prefix
<1> DEFINE n == name[t]
           p == Pair(n, newest[n] + 1)
           s == shadow_status
           r == shadow_status'
<1>1. /\ n \in Names /\ p \in Pairs /\ newest' = [newest EXCEPT ![n] = newest[n] + 1]
      /\ newest \in [Names -> Nat] /\ s \in Seq(Pieces) /\ p \in Pieces
  BY CloseValueType, PieceTypes, Numbers DEF TypeInv, TypeOK
<1>2. EndsOpen(s) /\ r = [s EXCEPT ![Len(s)] = p] /\ shadow' = shadow
  BY DEF CloseValue, Appends, Outcomes
<1>3. p.kind = "pair" /\ p.name = n /\ p.id = newest[n] + 1
  BY DEF Pair
<1> HIDE DEF p, n
<1>4. /\ Len(r) = Len(s) /\ Len(s) \in 1 .. Len(s) /\ r[Len(s)] = p /\ Len(s) \in Nat
      /\ \A i \in 1 .. Len(s) : i # Len(s) => r[i] = s[i]
  BY <1>1, <1>2, ChangeLast DEF EndsOpen
<1>5. s[Len(s)].kind = "open"
  BY <1>2 DEF EndsOpen
<1>6. ASSUME NEW i \in k .. Len(r) PROVE r[i] \in Pairs
  <2>1. CASE i = Len(s)
    BY <1>1, <1>4, <2>1
  <2>2. CASE i # Len(s)
    BY <1>4, <2>2 DEF Body
  <2> QED BY <2>1, <2>2
<1>7. ASSUME NEW m \in Names PROVE CarriesOf(shadow_status, m)'
  <2>1. CASE m = n
    <3>1. newest'[m] = newest[n] + 1
      BY <1>1, <2>1
    <3>2. IsPair(r, Len(s), m) /\ r[Len(s)].id = newest'[m]
      BY <1>3, <1>4, <2>1, <3>1 DEF IsPair
    <3>3. \A j \in 1 .. Len(r) : ~(j > Len(s))
      BY <1>4
    <3> QED BY <1>4, <3>2, <3>3 DEF CarriesOf, IsPair
  <2>2. CASE m # n
    <3>1. newest'[m] = newest[m]
      BY <1>1, <2>2
    <3>2. \A i \in 1 .. Len(s) : IsPair(r, i, m) <=> IsPair(s, i, m)
      <4> SUFFICES ASSUME NEW i \in 1 .. Len(s) PROVE IsPair(r, i, m) <=> IsPair(s, i, m)
        OBVIOUS
      <4>1. CASE i = Len(s)
        BY <1>3, <1>4, <1>5, <2>2, <4>1 DEF IsPair
      <4>2. CASE i # Len(s)
        BY <1>4, <4>2 DEF IsPair
      <4> QED BY <4>1, <4>2
    <3>3. \A i \in 1 .. Len(s) : IsPair(s, i, m) => r[i] = s[i]
      BY <1>4, <1>5 DEF IsPair
    <3>4. CarriesOf(s, m)
      BY DEF Carries
    <3>5. CarriesOf(r, m)
      BY <1>4, <3>2, <3>3, <3>4 DEF CarriesOf
    <3> QED BY <1>2, <3>1, <3>5 DEF CarriesOf, IsPair
  <2> QED BY <2>1, <2>2
<1>8. k = 2 => r # <<>> /\ r[1] = Prefix
  <2>1. k = 2 => 1 # Len(s)
    BY <1>5 DEF Prefix
  <2> QED BY <1>4, <2>1
<1> QED BY <1>6, <1>7, <1>8 DEF Body, Carries

LEMMA PrefixCarries ==
  ASSUME TypeInv, WrapPrefix, ~torn', Body(shadow_status, 1), Carries(shadow_status)
  PROVE  /\ shadow_status' # <<>> /\ shadow_status'[1] = Prefix
         /\ Body(shadow_status, 2)' /\ Carries(shadow_status)'
<1> DEFINE s == shadow_status
           r == shadow_status'
<1>1. r = <<Prefix>> \o s /\ UNCHANGED <<newest, shadow>>
  BY DEF WrapPrefix, Wrap, Outcomes
<1>2. /\ Len(s) \in Nat /\ Len(r) = Len(s) + 1 /\ r[1] = Prefix
      /\ \A i \in 1 .. Len(s) : r[i + 1] = s[i]
  BY <1>1, PrefixShape DEF TypeInv, TypeOK
<1>3. ASSUME NEW i \in 2 .. Len(r) PROVE i - 1 \in 1 .. Len(s) /\ r[i] = s[i - 1]
  <2>1. i - 1 \in 1 .. Len(s) /\ (i - 1) + 1 = i
    BY <1>2
  <2> QED BY <1>2, <2>1
<1>4. Body(r, 2)
  <2>1. ASSUME NEW i \in 2 .. Len(r) PROVE r[i] \in Pairs \/ (i = Len(r) /\ r[i].kind = "open")
    <3>1. s[i - 1] \in Pairs \/ (i - 1 = Len(s) /\ s[i - 1].kind = "open")
      BY <1>3 DEF Body
    <3> QED BY <1>2, <1>3, <3>1
  <2> QED BY <2>1 DEF Body
<1>5. Carries(r)
  <2>1. \A i \in 1 .. Len(r) : i - 1 \in 1 .. Len(s) \/ r[i].kind # "pair"
    BY <1>2, <1>3 DEF Prefix
  <2>2. Len(r) \in Nat /\ Len(r) >= Len(s) + 1
    BY <1>2
  <2> QED BY <1>2, <2>1, <2>2, CarriesMoved
<1>6. newest' = newest /\ shadow' = shadow
  BY <1>1
<1>7. ASSUME NEW n \in Names PROVE CarriesOf(shadow_status, n)'
  <2>1. CarriesOf(r, n)
    BY <1>5 DEF Carries
  <2> HIDE DEF r
  <2> QED BY <1>6, <2>1 DEF CarriesOf, IsPair, r
<1> QED BY <1>2, <1>4, <1>7 DEF Body, Carries

LEMMA SuffixCarries ==
  ASSUME TypeInv, WrapSuffix, ~torn', shadow_status # <<>>, shadow_status[1] = Prefix,
         Body(shadow_status, 2), Carries(shadow_status)
  PROVE  WellFormed(shadow_status)' /\ Carries(shadow_status)'
<1> DEFINE s == shadow_status
           r == shadow_status'
<1>1. r = Append(s, Suffix) /\ UNCHANGED <<newest, shadow>> /\ ~EndsOpen(s)
  BY DEF WrapSuffix, Wrap, Outcomes
<1>2. s \in Seq(Pieces) /\ Suffix \in Pieces
  BY PieceTypes DEF TypeInv, TypeOK
<1>3. /\ Len(r) = Len(s) + 1 /\ r[Len(s) + 1] = Suffix /\ Len(s) \in Nat
      /\ \A i \in 1 .. Len(s) : r[i] = s[i]
  BY <1>1, <1>2, AppendShape
<1>4. Len(s) >= 1
  BY <1>2
<1>5. ASSUME NEW i \in 2 .. Len(r) - 1 PROVE r[i] \in Pairs
  <2>1. i \in 1 .. Len(s) /\ i \in 2 .. Len(s)
    BY <1>3
  <2> QED BY <1>1, <1>3, <2>1 DEF Body, EndsOpen
<1>6. WellFormed(r)
  BY <1>3, <1>4, <1>5 DEF WellFormed
<1>7. Carries(r)
  <2>1. \A i \in 1 .. Len(s) : r[i + 0] = s[i]
    BY <1>3
  <2>2. \A i \in 1 .. Len(r) : i - 0 \in 1 .. Len(s) \/ r[i].kind # "pair"
    <3> SUFFICES ASSUME NEW i \in 1 .. Len(r), i \notin 1 .. Len(s) PROVE r[i].kind # "pair"
      OBVIOUS
    <3>1. i = Len(s) + 1
      BY <1>3
    <3> QED BY <1>3, <3>1 DEF Suffix
  <2>3. Len(r) \in Nat /\ Len(r) >= Len(s) + 0
    BY <1>3
  <2> QED BY <1>3, <2>1, <2>2, <2>3, CarriesMoved
<1>8. Carries(shadow_status)'
  BY <1>1, <1>7 DEF Carries, CarriesOf, IsPair
<1> QED BY <1>6, <1>8 DEF WellFormed

\* Applying what carries every waiting update makes the document the newest.
LEMMA CarriesApplied ==
  ASSUME TypeInv, NEW m \in Seq(Pieces), Carries(m)
  PROVE  Applied(m) = newest
<1>1. ASSUME NEW n \in Names PROVE Applied(m)[n] = newest[n]
  <2>1. CASE (\A i \in 1 .. Len(m) : ~IsPair(m, i, n)) /\ shadow[n] = newest[n]
    <3>1. LastPair(m, n) = {}
      BY <2>1 DEF LastPair
    <3> QED BY <2>1, <3>1 DEF Applied
  <2>2. CASE \E i \in 1 .. Len(m) :
               /\ IsPair(m, i, n) /\ m[i].id = newest[n]
               /\ \A j \in 1 .. Len(m) : j > i => ~IsPair(m, j, n)
    <3>1. PICK i \in 1 .. Len(m) :
               /\ IsPair(m, i, n) /\ m[i].id = newest[n]
               /\ \A j \in 1 .. Len(m) : j > i => ~IsPair(m, j, n)
      BY <2>2
    <3>2. Len(m) \in Nat
      OBVIOUS
    <3>3. i \in LastPair(m, n)
      BY <3>1, <3>2 DEF LastPair
    <3>4. ASSUME NEW k \in LastPair(m, n) PROVE k = i
      <4>1. k \in 1 .. Len(m) /\ IsPair(m, k, n) /\ \A j \in k + 1 .. Len(m) : ~IsPair(m, j, n)
        BY DEF LastPair
      <4>2. ~(k > i)
        BY <3>1, <4>1
      <4>3. ~(i > k)
        <5> SUFFICES ASSUME i > k PROVE FALSE
          OBVIOUS
        <5>1. i \in k + 1 .. Len(m)
          BY <3>2, <4>1
        <5> QED BY <3>1, <4>1, <5>1
      <4> QED BY <3>2, <4>1, <4>2, <4>3
    <3> DEFINE c == CHOOSE k \in LastPair(m, n) : TRUE
    <3>5. c = i
      BY <3>3, <3>4
    <3>6. Applied(m)[n] = m[c].id
      BY <3>3 DEF Applied
    <3> HIDE DEF c
    <3> QED BY <3>1, <3>5, <3>6
  <2> QED BY <2>1, <2>2 DEF Carries, CarriesOf
<1>2. newest \in [Names -> 0 .. MaxUpdates]
  BY DEF TypeInv, TypeOK
<1> QED BY <1>1, <1>2 DEF Applied


LEMMA FirstInit == Init => FirstInv
BY DEF Init, FirstInv, Body, Carries, CarriesOf

\* What waits or is on its way, where no variable it speaks of changes.
LEMMA CarriesSame ==
  ASSUME UNCHANGED <<newest, shadow, shadow_status, message>>
  PROVE  /\ Carries(shadow_status)' <=> Carries(shadow_status)
         /\ Carries(message)' <=> Carries(message)
         /\ \A k \in {1, 2} : Body(shadow_status, k)' <=> Body(shadow_status, k)
         /\ WellFormed(shadow_status)' <=> WellFormed(shadow_status)
         /\ WellFormed(message)' <=> WellFormed(message)
<1>1. \A n \in Names : /\ CarriesOf(shadow_status, n)' <=> CarriesOf(shadow_status, n)
                       /\ CarriesOf(message, n)' <=> CarriesOf(message, n)
  BY DEF CarriesOf, IsPair
<1> QED BY <1>1 DEF Carries, Body, WellFormed

\* A step that leaves the string, the message and the documents alone, and takes the cycle
\* only from one of the places before the wrapping to another.
LEMMA FirstSame ==
  ASSUME FirstInv, ~disturbed, ~torn,
         UNCHANGED <<newest, shadow, shadow_status, message, result>>,
         \/ aws' = aws
         \/ /\ aws \in {"check", "acquire", "prefix", "yield"}
            /\ aws' \in {"check", "acquire", "prefix", "yield"}
  PROVE  FirstInv'
<1>1. CASE aws' = aws
  BY <1>1, CarriesSame DEF FirstInv
<1>2. CASE /\ aws \in {"check", "acquire", "prefix", "yield"}
           /\ aws' \in {"check", "acquire", "prefix", "yield"}
  BY <1>2, CarriesSame DEF FirstInv
<1> QED BY <1>1, <1>2

LEMMA FirstAppends ==
  ASSUME TypeInv, FirstInv, NEW t \in Threads, OpenName(t) \/ CloseValue(t),
         ~disturbed', ~torn'
  PROVE  FirstInv'
<1>1. /\ ~disturbed /\ ~torn /\ aws' = aws
      /\ aws \notin {"publish", "send", "reconnect", "result"}
  BY DEF OpenName, CloseValue, Appends, awsVars
<1>2. CASE aws \in {"check", "acquire", "prefix", "yield"}
  <2>1. Body(shadow_status, 1) /\ Carries(shadow_status)
    BY <1>1, <1>2 DEF FirstInv
  <2>2. (Body(shadow_status, 1) /\ Carries(shadow_status))'
    BY <2>1, OpenCarries, CloseCarries
  <2> QED BY <1>1, <1>2, <2>2 DEF FirstInv
<1>3. CASE aws = "suffix"
  <2>1. /\ Body(shadow_status, 2) /\ Carries(shadow_status)
        /\ shadow_status # <<>> /\ shadow_status[1] = Prefix
    BY <1>1, <1>3 DEF FirstInv
  <2>2. /\ (Body(shadow_status, 2) /\ Carries(shadow_status))'
        /\ shadow_status' # <<>> /\ shadow_status'[1] = Prefix
    BY <2>1, OpenCarries, CloseCarries
  <2> QED BY <1>1, <1>3, <2>2 DEF FirstInv
<1> QED BY <1>1, <1>2, <1>3 DEF FirstInv

LEMMA FirstPublish ==
  ASSUME TypeInv, FirstInv, Publish, ~disturbed', ~torn' PROVE FirstInv'
<1>1. /\ ~disturbed /\ ~torn /\ aws = "publish" /\ aws' = "send"
      /\ message' = shadow_status /\ newest' = newest /\ shadow' = shadow
  BY DEF Publish, Outcomes
<1>2. WellFormed(shadow_status) /\ Carries(shadow_status)
  BY <1>1 DEF FirstInv
<1>3. ASSUME NEW n \in Names PROVE CarriesOf(message, n)'
  <2>1. CarriesOf(shadow_status, n)
    BY <1>2 DEF Carries
  <2> QED BY <1>1, <2>1 DEF CarriesOf, IsPair
<1>4. WellFormed(message)' /\ Carries(message)'
  BY <1>1, <1>2, <1>3 DEF WellFormed, Carries
<1> QED BY <1>1, <1>4 DEF FirstInv

LEMMA FirstStep == TypeInv /\ FirstInv /\ [Next]_vars => FirstInv'
<1> SUFFICES ASSUME TypeInv, FirstInv, [Next]_vars, ~disturbed', ~torn' PROVE FirstInv'
  BY DEF FirstInv
<1> USE DEF awsVars
<1>1. ASSUME NEW t \in Threads, NEW n \in Names, TryAcquire(t, n) PROVE FirstInv'
  BY <1>1, FirstSame DEF TryAcquire
<1>2. ASSUME NEW t \in Threads, TestEmpty(t) \/ Release(t) PROVE FirstInv'
  BY <1>2, FirstSame DEF TestEmpty, Release
<1>3. ASSUME NEW t \in Threads, OpenName(t) \/ CloseValue(t) PROVE FirstInv'
  BY <1>3, FirstAppends
<1>4. CASE Check \/ Acquire \/ Yield
  BY <1>4, FirstSame DEF Check, Acquire, Yield
<1>5. CASE WrapPrefix
  <2>1. ~disturbed /\ ~torn /\ aws = "prefix" /\ aws' = "suffix"
    BY <1>5 DEF WrapPrefix, Wrap
  <2>2. Body(shadow_status, 1) /\ Carries(shadow_status)
    BY <2>1 DEF FirstInv
  <2>3. /\ shadow_status' # <<>> /\ shadow_status'[1] = Prefix
        /\ Body(shadow_status, 2)' /\ Carries(shadow_status)'
    BY <1>5, <2>2, PrefixCarries
  <2> QED BY <2>1, <2>3 DEF FirstInv
<1>6. CASE WrapSuffix
  <2>1. ~disturbed /\ ~torn /\ aws = "suffix" /\ aws' = "publish"
    BY <1>6 DEF WrapSuffix, Wrap
  <2>2. /\ shadow_status # <<>> /\ shadow_status[1] = Prefix
        /\ Body(shadow_status, 2) /\ Carries(shadow_status)
    BY <2>1 DEF FirstInv
  <2>3. WellFormed(shadow_status)' /\ Carries(shadow_status)'
    BY <1>6, <2>2, SuffixCarries
  <2> QED BY <2>1, <2>3 DEF FirstInv
<1>7. CASE Publish
  BY <1>7, FirstPublish
<1>8. CASE SendSucceeds
  <2>1. ~disturbed /\ ~torn /\ aws = "send" /\ aws' = "result" /\ result' = 1 /\ newest' = newest
    BY <1>8 DEF SendSucceeds
  <2>2. message \in Seq(Pieces) /\ WellFormed(message) /\ Carries(message)
    BY <2>1 DEF FirstInv, TypeInv, TypeOK
  <2>3. shadow' = newest
    BY <1>8, <2>2, CarriesApplied DEF SendSucceeds
  <2> QED BY <2>1, <2>3 DEF FirstInv
<1>9. CASE Result
  <2>1. /\ ~disturbed /\ ~torn /\ aws = "result" /\ aws' = "yield"
        /\ newest' = newest /\ shadow' = shadow
    BY <1>9 DEF Result, Cleared
  <2>2. result = 1 /\ shadow = newest
    BY <2>1 DEF FirstInv
  <2>3. shadow_status' = <<>>
    BY <1>9, <2>2 DEF Result, Cleared, Outcomes
  <2>4. Body(shadow_status, 1)' /\ Carries(shadow_status)'
    BY <2>1, <2>2, <2>3 DEF Body, Carries, CarriesOf
  <2> QED BY <2>1, <2>4 DEF FirstInv
<1>10. CASE SendFails \/ YieldLost \/ YieldFaults
  BY <1>10 DEF SendFails, YieldLost, YieldFaults
<1>11. CASE Reconnected
  BY <1>11 DEF Reconnected, FirstInv
<1>12. CASE ConnectLoop \/ UNCHANGED vars
  BY <1>12, FirstSame DEF ConnectLoop, vars
<1> QED
  BY <1>1, <1>2, <1>3, <1>4, <1>5, <1>6, <1>7, <1>8, <1>9, <1>10, <1>11, <1>12
  DEF Next, Cycle, Update, Finish

\* Until a publish fails or is appended to, or a try_acquire is made in vain, what MQTT takes
\* over is a document that brings every name it mentions to its newest value, for any names
\* and any number of updates on both threads (awsiot.cpp 345-375, 741-819): the updates
\* between the check and the acquire are part of it, and the token keeps the several appends
\* of each out of the other's and out of the wrapping.
THEOREM FirstAttempt == Spec => []FirstAttemptComplete
<1>1. TypeInv /\ WholeInv /\ FirstInv => FirstAttemptComplete
  <2> SUFFICES ASSUME TypeInv, WholeInv, FirstInv, aws = "send", ~disturbed, ~vain
               PROVE  WellFormed(message) /\ \A n \in Names : Applied(message)[n] = newest[n]
    BY DEF FirstAttemptComplete
  <2>1. message \in Seq(Pieces) /\ WellFormed(message) /\ Carries(message)
    BY DEF WholeInv, FirstInv, TypeInv, TypeOK
  <2> QED BY <2>1, CarriesApplied
<1> QED
  BY <1>1, TypeInit, TypeStep, DriftInit, TokensStep, WholeInit, WholeStep, FirstInit,
     FirstStep, PTL
  DEF Spec

----------------------------------------------------------------------------
(* What is promised about the values that wait                              *)

\* Until a report is disturbed, what the broker applies is all that waits; later it is
\* between what it shows and what was made; and once one was torn, anything.
LEMMA SendShows ==
  ASSUME TypeInv, OrderInv, FirstInv, SendSucceeds, shadow' \in [Names -> Int]
  PROVE  \/ Updates!ShowAll \/ Updates!ShowSome \/ Updates!ShowAnything
         \/ UNCHANGED <<newest, shadow, disturbed, torn>>
<1>1. UNCHANGED <<newest, disturbed, torn>>
  BY DEF SendSucceeds
<1>2. CASE torn
  BY <1>1, <1>2 DEF Updates!ShowAnything
<1>3. CASE ~torn /\ disturbed
  BY <1>1, <1>3, SendOrder, AppliedBetween DEF Updates!ShowSome
<1>4. CASE ~torn /\ ~disturbed
  <2>1. WellFormed(message) /\ Carries(message) /\ message \in Seq(Pieces)
    BY <1>4 DEF SendSucceeds, FirstInv, TypeInv, TypeOK
  <2>2. shadow' = newest
    BY <2>1, CarriesApplied DEF SendSucceeds
  <2> QED BY <1>1, <2>2 DEF Updates!ShowAll
<1> QED BY <1>2, <1>3, <1>4

LEMMA UpdatesStep ==
  TypeInv /\ OrderInv /\ FirstInv /\ [Next]_vars
    => [Updates!Next]_<<newest, shadow, disturbed, torn>>
<1> SUFFICES ASSUME TypeInv, OrderInv, FirstInv, [Next]_vars
             PROVE  Updates!Next \/ UNCHANGED <<newest, shadow, disturbed, torn>>
  OBVIOUS
<1>1. ASSUME NEW t \in Threads, CloseValue(t) PROVE \E n \in Names : Updates!Make(n)
  BY <1>1, CloseValueType DEF CloseValue, Appends, Updates!Make, Updates!Disturbs
<1>2. ASSUME NEW t \in Threads, OpenName(t) PROVE Updates!Disturb
  BY <1>2 DEF OpenName, Appends, Updates!Disturb, Updates!Disturbs
<1>3. ASSUME NEW t \in Threads, NEW n \in Names, TryAcquire(t, n)
      PROVE  UNCHANGED <<newest, shadow, disturbed, torn>>
  BY <1>3 DEF TryAcquire
<1>4. ASSUME NEW t \in Threads, TestEmpty(t) \/ Release(t)
      PROVE  UNCHANGED <<newest, shadow, disturbed, torn>>
  BY <1>4 DEF TestEmpty, Release
<1>5. CASE SendSucceeds
  <2>1. shadow' \in [Names -> Int]
    <3>1. TypeInv'
      BY TypeStep
    <3>2. 0 .. MaxUpdates \subseteq Int /\ Garbled \in Int
      BY DEF Garbled
    <3> QED BY <3>1, <3>2 DEF TypeInv, TypeOK
  <2> QED BY <1>5, <2>1, SendShows DEF Updates!Next
<1>6. CASE WrapPrefix \/ WrapSuffix \/ Result
  BY <1>6 DEF WrapPrefix, WrapSuffix, Wrap, Result, Cleared, Updates!Disturb, Updates!Disturbs,
              Updates!Next
<1>7. CASE Publish \/ SendFails \/ YieldLost \/ YieldFaults
  BY <1>7 DEF Publish, SendFails, YieldLost, YieldFaults, Updates!Disturb, Updates!Disturbs,
              Updates!Next
<1>8. CASE Check \/ Acquire \/ Reconnected \/ Yield \/ ConnectLoop \/ UNCHANGED vars
  BY <1>8 DEF Check, Acquire, Reconnected, Yield, ConnectLoop, vars
<1> QED
  BY <1>1, <1>2, <1>3, <1>4, <1>5, <1>6, <1>7, <1>8 DEF Next, Cycle, Update, Finish, Updates!Next

\* The string, the semaphore and the retries do what WaitingUpdates promises, for any names
\* and any number of updates on both threads: until the string is torn the document shows
\* values that were made, none gives way to an older one, and until a publish is disturbed
\* each brings all that waits (awsiot.cpp 345-375, 741-819).
THEOREM UpdatesKept == Spec => KeepsUpdates
<1>1. Init => Updates!Init
  BY DEF Init, Updates!Init
<1> QED
  BY <1>1, TypeInit, TypeStep, OrderInit, OrderStep, FirstInit, FirstStep, UpdatesStep, PTL
  DEF Spec, KeepsUpdates, Updates!Spec
============================================================================
