---------------------------- MODULE ShadowQueue ----------------------------
(***************************************************************************)
(* The waiting shadow update of awsiot.cpp: awsiot_update appends to the    *)
(* string shadow_status, awsiot_shadow_cycle wraps the string into a shadow *)
(* document, publishes it and clears it. Both take awsiot_sem, but          *)
(* awsiot_update does not look whether it got it: then its appends may fall *)
(* between those of the other thread, or between the two halves of the      *)
(* wrapping, and the string is broken until it is cleared.                  *)
(*                                                                         *)
(* The main loop calls awsiot_update at any time; the AWS thread calls it   *)
(* too, from the message callbacks that run while it yields to the MQTT     *)
(* client or reconnects. The connection itself is left to chance here: a    *)
(* publish may fail, a reconnection may leave no client, and when the       *)
(* network is down the thread waits for ever for one it is not given.       *)
(***************************************************************************)
EXTENDS Integers, Sequences

CONSTANTS
  Names,       \* the keys of the shadow document
  MaxSem,      \* the largest count of a semaphore, 65535 in the RTOS
  MaxUpdates,  \* bound: updates made in a behaviour
  MaxLength    \* bound: no publish fails with a longer string, which would grow

ASSUME SemAssumption == MaxSem \in Nat \ {0}
ASSUME BoundAssumption == MaxUpdates \in Nat /\ MaxLength \in Nat

VARIABLES
  shadow_status,   \* the string, a sequence of the pieces below
  awsiot_sem,      \* count of the semaphore
  upd, name,       \* where each thread is in awsiot_update, and the name it was given
  took,            \* history: the threads whose try_acquire succeeded
  aws,             \* where the AWS thread is in awsiot_shadow_cycle
  client,          \* client # NULL
  result,          \* what awsiot_publish_shadow returned
  message,         \* the payload MQTT has taken over
  count,           \* history: updates made so far; an update is known by its number
  newest,          \* history: the last update appended for each name
  shadow,          \* external: the update the broker's document shows for each name
  disturbed,       \* history: a publish failed, had no client, or was appended to,
                   \* or the network was lost, or the device halted
  vain,            \* history: a try_acquire found no token
  torn             \* history: the string, or what MQTT took of it, was broken

awsVars == <<aws, client, result, message>>
updVars == <<upd, name, took>>
vars == <<shadow_status, awsiot_sem, updVars, awsVars, count, newest, shadow, disturbed,
          vain, torn>>

Threads == {"main", "aws"}

\* The pieces of the string: SHADOW_STATUS_PREFIX, SHADOW_STATUS_SUFFIX and the
\* "name":"value" pairs, where the number of the update stands for its value. A pair is
\* open up to its name, and a string that is none of this is Broken.
NoName == "-"
Prefix == [kind |-> "prefix", name |-> NoName, id |-> 0]
Suffix == [kind |-> "suffix", name |-> NoName, id |-> 0]
Broken == [kind |-> "broken", name |-> NoName, id |-> 0]
OpenPair(n) == [kind |-> "open", name |-> n, id |-> 0]
Pair(n, i) == [kind |-> "pair", name |-> n, id |-> i]
Pairs == {Pair(n, i) : n \in Names, i \in 1 .. MaxUpdates}
Pieces == Pairs \cup {OpenPair(n) : n \in Names} \cup {Prefix, Suffix, Broken}

\* What the document may show of a name after a broken string.
Garbled == -1

Steps == {"idle", "test", "open", "comma", "close", "release"}

TypeOK ==
  /\ shadow_status \in Seq(Pieces) /\ message \in Seq(Pieces)
  /\ awsiot_sem \in 0 .. MaxSem
  /\ upd \in [Threads -> Steps] /\ name \in [Threads -> Names \cup {NoName}]
  /\ took \subseteq Threads
  /\ aws \in {"check", "acquire", "prefix", "suffix", "publish", "send", "reconnect", "result",
              "yield", "lost_publish", "lost_yield", "halted"}
  /\ client \in BOOLEAN /\ result \in {1, -1}
  /\ count \in 0 .. MaxUpdates
  /\ newest \in [Names -> 0 .. MaxUpdates]
  /\ shadow \in [Names -> (0 .. MaxUpdates) \cup {Garbled}]
  /\ disturbed \in BOOLEAN /\ vain \in BOOLEAN /\ torn \in BOOLEAN

Init ==
  /\ shadow_status = <<>> /\ message = <<>>
  /\ awsiot_sem = 1
  /\ upd = [t \in Threads |-> "idle"] /\ name = [t \in Threads |-> NoName]
  /\ took = {}
  /\ aws = "check" /\ client = TRUE /\ result = 1
  /\ count = 0
  /\ newest = [n \in Names |-> 0] /\ shadow = [n \in Names |-> 0]
  /\ disturbed = FALSE /\ vain = FALSE /\ torn = FALSE

----------------------------------------------------------------------------
(* awsiot_sem *)

Released == IF awsiot_sem < MaxSem THEN awsiot_sem + 1 ELSE awsiot_sem

\* The AWS thread is between its acquire and its release.
InCycle == aws \in {"prefix", "suffix", "publish", "send", "reconnect", "result", "lost_publish"}

One(b) == IF b THEN 1 ELSE 0

----------------------------------------------------------------------------
(* awsiot_update(name, value) on thread t *)

\* A callback runs while the AWS thread yields or reconnects.
MayUpdate(t) == t = "aws" => aws \in {"yield", "reconnect"}

\* A slip of TryAcquire: it looks whether there is a token and leaves it there.
TryAcquirePeeks(t, n) ==
  /\ upd[t] = "idle" /\ MayUpdate(t)
  /\ count < MaxUpdates
  /\ took' = IF awsiot_sem > 0 THEN took \cup {t} ELSE took
  /\ vain' = (vain \/ awsiot_sem = 0)
  /\ upd' = [upd EXCEPT ![t] = "test"] /\ name' = [name EXCEPT ![t] = n]
  /\ count' = count + 1
  /\ UNCHANGED <<shadow_status, awsiot_sem, awsVars, newest, shadow, disturbed, torn>>

\* The result of try_acquire is ignored.
TryAcquire(t, n) ==
  /\ upd[t] = "idle" /\ MayUpdate(t)
  /\ count < MaxUpdates
  /\ took' = IF awsiot_sem > 0 THEN took \cup {t} ELSE took
  /\ awsiot_sem' = IF awsiot_sem > 0 THEN awsiot_sem - 1 ELSE 0
  /\ vain' = (vain \/ awsiot_sem = 0)
  /\ upd' = [upd EXCEPT ![t] = "test"] /\ name' = [name EXCEPT ![t] = n]
  /\ count' = count + 1
  /\ UNCHANGED <<shadow_status, awsVars, newest, shadow, disturbed, torn>>

\* A comma is needed when the string is not empty at this moment.
TestEmpty(t) ==
  /\ upd[t] = "test"
  /\ upd' = [upd EXCEPT ![t] = IF shadow_status = <<>> THEN "open" ELSE "comma"]
  /\ UNCHANGED <<shadow_status, awsiot_sem, name, took, awsVars, count, newest, shadow,
                 disturbed, vain, torn>>

EndsOpen(s) == s # <<>> /\ s[Len(s)].kind = "open"

\* Two threads in one std::string is a data race: the string is what they make of it, or
\* broken.
InString(t) == upd[t] \in {"open", "comma", "close"}
CycleInString == aws \in {"prefix", "suffix", "publish", "result"}
Alone(t) == ~CycleInString /\ \A u \in Threads \ {t} : ~InString(u)
CycleAlone == \A t \in Threads : ~InString(t)
Outcomes(s, alone) == IF alone THEN {s} ELSE {s, <<Broken>>}

\* What the string is after an append by t, and what that disturbs.
Appends(t, s) ==
  /\ shadow_status' \in Outcomes(s, Alone(t))
  /\ torn' = (torn \/ shadow_status' = <<Broken>>)
  /\ disturbed' = (disturbed \/ aws \in {"publish", "send", "reconnect", "result"})
  /\ UNCHANGED <<awsiot_sem, name, took, awsVars, count, shadow, vain>>

\* The comma, if one was found to be needed, and the name: behind the name of the other
\* thread, or with a comma too many or too few, they break the string.
OpenName(t) ==
  /\ upd[t] \in {"open", "comma"}
  /\ LET fits == /\ (upd[t] = "comma") = (shadow_status # <<>>)
                 /\ shadow_status # <<Broken>> /\ ~EndsOpen(shadow_status)
     IN  Appends(t, IF fits THEN Append(shadow_status, OpenPair(name[t])) ELSE <<Broken>>)
  /\ upd' = [upd EXCEPT ![t] = "close"]
  /\ UNCHANGED newest

\* The value, behind the name if nothing has come between.
CloseValue(t) ==
  /\ upd[t] = "close"
  /\ LET n == name[t]
         last == Len(shadow_status)
         fits == EndsOpen(shadow_status) /\ shadow_status[last].name = n
     IN  /\ newest' = [newest EXCEPT ![n] = @ + 1]
         /\ Appends(t, IF fits THEN [shadow_status EXCEPT ![last] = Pair(n, newest[n] + 1)]
                               ELSE <<Broken>>)
  /\ upd' = [upd EXCEPT ![t] = "release"]

Release(t) ==
  /\ upd[t] = "release"
  /\ awsiot_sem' = Released
  /\ upd' = [upd EXCEPT ![t] = "idle"] /\ name' = [name EXCEPT ![t] = NoName]
  /\ took' = took \ {t}
  /\ UNCHANGED <<shadow_status, awsVars, count, newest, shadow, disturbed, vain, torn>>

----------------------------------------------------------------------------
(* awsiot_shadow_cycle *)

Check ==
  /\ aws = "check"
  /\ aws' = IF shadow_status = <<>> THEN "yield" ELSE "acquire"
  /\ UNCHANGED <<shadow_status, awsiot_sem, updVars, client, result, message,
                 count, newest, shadow, disturbed, vain, torn>>

Acquire ==
  /\ aws = "acquire"
  /\ awsiot_sem > 0
  /\ awsiot_sem' = awsiot_sem - 1
  /\ aws' = "prefix"
  /\ UNCHANGED <<shadow_status, updVars, client, result, message,
                 count, newest, shadow, disturbed, vain, torn>>

\* The prefix and the suffix are put around the string itself, one after the other. In
\* front of a string the prefix breaks nothing, the suffix breaks a pair that is open.
Wrap(s) ==
  /\ shadow_status' \in Outcomes(s, CycleAlone)
  /\ torn' = (torn \/ shadow_status' = <<Broken>>)
  /\ UNCHANGED <<awsiot_sem, updVars, client, result, message,
                 count, newest, shadow, disturbed, vain>>

WrapPrefix ==
  /\ aws = "prefix" /\ aws' = "suffix"
  /\ Wrap(IF shadow_status = <<Broken>> THEN <<Broken>> ELSE <<Prefix>> \o shadow_status)

WrapSuffix ==
  /\ aws = "suffix" /\ aws' = "publish"
  /\ Wrap(IF shadow_status = <<Broken>> \/ EndsOpen(shadow_status) THEN <<Broken>>
          ELSE Append(shadow_status, Suffix))

\* awsiot_publish: MQTT copies the string; without a client nothing is sent and
\* the result is the one of success.
Publish ==
  /\ aws = "publish"
  /\ IF client THEN /\ message' \in Outcomes(shadow_status, CycleAlone)
                    /\ torn' = (torn \/ message' = <<Broken>>)
                    /\ aws' = "send"
                    /\ UNCHANGED <<result, disturbed>>
               ELSE /\ result' = 1
                    /\ aws' = "result"
                    /\ disturbed' = TRUE
                    /\ UNCHANGED <<message, torn>>
  /\ UNCHANGED <<shadow_status, awsiot_sem, updVars, client, count, newest, shadow, vain>>

\* A shadow document: one prefix, pairs, one suffix. The broker refuses the rest.
WellFormed(m) ==
  /\ Len(m) >= 2
  /\ m[1] = Prefix /\ m[Len(m)] = Suffix
  /\ \A i \in 2 .. Len(m) - 1 : m[i] \in Pairs

\* The document after m: of two pairs with one name the later one counts.
IsPair(m, i, n) == m[i].kind = "pair" /\ m[i].name = n

LastPair(m, n) ==
  {i \in 1 .. Len(m) : IsPair(m, i, n) /\ \A j \in i + 1 .. Len(m) : ~IsPair(m, j, n)}

Applied(m) ==
  [n \in Names |-> IF LastPair(m, n) = {} THEN shadow[n]
                   ELSE m[CHOOSE i \in LastPair(m, n) : TRUE].id]

\* Characters of two threads may also make a document nobody meant.
Refused(m) ==
  {[n \in Names |-> IF n \in S THEN Garbled ELSE shadow[n]] :
     S \in IF m = <<Broken>> THEN SUBSET Names ELSE {{}}}

SendSucceeds ==
  /\ aws = "send"
  /\ \/ WellFormed(message) /\ shadow' = Applied(message)
     \/ ~WellFormed(message) /\ shadow' \in Refused(message)
  /\ message' = <<>>
  /\ result' = 1
  /\ aws' = "result"
  /\ UNCHANGED <<shadow_status, awsiot_sem, updVars, client, count, newest, disturbed, vain,
                 torn>>

\* awsiot_connect_thread is called with the network, or with NULL when it is down.
SendFails ==
  /\ aws = "send"
  /\ Len(shadow_status) <= MaxLength
  /\ message' = <<>>
  /\ aws' \in {"reconnect", "lost_publish"}
  /\ disturbed' = TRUE
  /\ UNCHANGED <<shadow_status, awsiot_sem, updVars, client, result, count, newest, shadow, vain,
                 torn>>

\* awsiot_connect_thread returns, with or without a client.
Reconnected ==
  /\ aws = "reconnect" /\ upd["aws"] = "idle"
  /\ client' \in BOOLEAN
  /\ result' = -1
  /\ aws' = "result"
  /\ UNCHANGED <<shadow_status, awsiot_sem, updVars, message, count, newest, shadow, disturbed,
                 vain, torn>>

\* The string is cleared after a success and left wrapped after a failure.
Cleared(s) ==
  /\ shadow_status' \in IF result = 1 THEN Outcomes(s, CycleAlone) ELSE {shadow_status}
  /\ torn' = (torn \/ shadow_status' = <<Broken>>)

\* A slip of Result: a failure keeps the semaphore.
ResultKeepsToken ==
  /\ aws = "result"
  /\ Cleared(<<>>)
  /\ awsiot_sem' = IF result = 1 THEN Released ELSE awsiot_sem
  /\ aws' = "yield"
  /\ UNCHANGED <<updVars, client, result, message, count, newest, shadow, disturbed, vain>>

\* Another: the first pair is left in the string.
ResultKeepsFirst ==
  /\ aws = "result"
  /\ Cleared(IF Len(shadow_status) > 1 THEN SubSeq(shadow_status, 2, 2) ELSE <<>>)
  /\ awsiot_sem' = Released
  /\ aws' = "yield"
  /\ UNCHANGED <<updVars, client, result, message, count, newest, shadow, disturbed, vain>>

Result ==
  /\ aws = "result"
  /\ Cleared(<<>>)
  /\ awsiot_sem' = Released
  /\ aws' = "yield"
  /\ UNCHANGED <<updVars, client, result, message, count, newest, shadow, disturbed, vain>>

\* yield returns; when it found the connection lost it has been made anew ...
Yield ==
  /\ aws = "yield" /\ upd["aws"] = "idle"
  /\ client' \in BOOLEAN
  /\ aws' = "check"
  /\ UNCHANGED <<shadow_status, awsiot_sem, updVars, result, message,
                 count, newest, shadow, disturbed, vain, torn>>

\* ... unless the network was down, too.
YieldLost ==
  /\ aws = "yield" /\ upd["aws"] = "idle"
  /\ aws' = "lost_yield"
  /\ disturbed' = TRUE
  /\ UNCHANGED <<shadow_status, awsiot_sem, updVars, client, result, message,
                 count, newest, shadow, vain, torn>>

\* Without a client, yield reads its members from address 0: it finds no connection
\* there and one is made (Yield), or the processor faults and the device halts.
YieldFaults ==
  /\ aws = "yield" /\ upd["aws"] = "idle" /\ ~client
  /\ aws' = "halted"
  /\ disturbed' = TRUE
  /\ UNCHANGED <<shadow_status, awsiot_sem, updVars, client, result, message,
                 count, newest, shadow, vain, torn>>

\* awsiot_connect_thread(NULL): network_connect is called again and again, but the
\* argument the loop looks at stays NULL.
Lost == aws \in {"lost_publish", "lost_yield"}
ConnectLoop == Lost /\ UNCHANGED vars

----------------------------------------------------------------------------
Running == aws # "halted"
Finish(t) == Running /\ (TestEmpty(t) \/ OpenName(t) \/ CloseValue(t) \/ Release(t))
Update(t) == (Running /\ \E n \in Names : TryAcquire(t, n)) \/ Finish(t)
Cycle == Check \/ Acquire \/ WrapPrefix \/ WrapSuffix \/ Publish \/ SendSucceeds \/ SendFails
         \/ Reconnected \/ Result \/ Yield \/ YieldLost
         \/ YieldFaults \/ ConnectLoop

Next == Cycle \/ \E t \in Threads : Update(t)

Spec == Init /\ [][Next]_vars

\* The AWS thread keeps running, an awsiot_update that began comes to its end, and
\* the two threads have the same priority, so neither keeps the other out.
Fairness == WF_vars(Cycle) /\ \A t \in Threads : WF_vars(Finish(t))

FairSpec == Spec /\ Fairness

----------------------------------------------------------------------------
(* Properties *)

\* Some token of awsiot_sem is always in somebody's hands or free, whatever the
\* ignored try_acquire did: acquire cannot wait for a token nobody will release.
TokenExists ==
  \/ awsiot_sem > 0
  \/ InCycle
  \/ \E t \in took : upd[t] # "idle"

\* The tokens, free or in somebody's hands, are three at most: each thread that makes
\* its ignored try_acquire in vain adds one, and only while the cycle has the first.
TokensBounded ==
  awsiot_sem + One(InCycle) + One("main" \in took) + One("aws" \in took) <= 3

\* The AWS thread never blocks for good on awsiot_sem or in its cycle, except in the
\* loop for a network or when the device halts.
CycleTurns == <>[](Lost \/ ~Running) \/ []<>(aws = "check")

\* The first attempt is a shadow document and has every update that waited: as long as each
\* try_acquire gets its token and no publish fails, what MQTT takes over is well formed and
\* brings each name it mentions to its newest value. An update made while a publish is under
\* way does not get its token, and from then on the appends of one thread may fall between
\* those of the other.
FirstAttemptComplete ==
  aws = "send" /\ ~disturbed /\ ~vain
    => WellFormed(message) /\ \A n \in Names : Applied(message)[n] = newest[n]

Updates == INSTANCE WaitingUpdates WITH made <- newest, shown <- shadow

\* What the broker shows is what WaitingUpdates promises: until the string is torn every
\* value was made, none gives way to an older one across failures, retries, tokens taken in
\* vain and updates that arrive while a message is on its way, and as long as nothing else
\* was disturbed a document brings all names up to date.
KeepsUpdates == Updates!Spec

\* Once no more updates are made the broker shows the newest value of each name, if
\* no publish was ever disturbed, the network never lost, and the string never torn.
ShadowConverges == <>[](disturbed \/ torn \/ shadow = newest)

\* awsiot.cpp's "Published shadow failure retry": after a failed publish the
\* next message is the document it tries again, not that document in another one.
RetryWellFormed == aws = "send" /\ result = -1 => WellFormed(message)
============================================================================
