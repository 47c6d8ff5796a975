-------------------------- MODULE LcdPool_proofs --------------------------
(***************************************************************************)
(* OwnText of LcdPool for any number of buffers, events and calls. The      *)
(* inductive invariant says who has a buffer: a thread between its test and *)
(* its event, one event, or the LCD thread, and never two of them; and that *)
(* a buffer somebody has holds that somebody's text, or still the marker    *)
(* when the thread has not filled it. What is drawn of a control follows    *)
(* from its last event in the queue; what becomes of a timed message from   *)
(* who has its number in hand and where its empty text is.                  *)
(***************************************************************************)
EXTENDS LcdPool, FiniteSetTheorems, TLAPS

Events == [kind : {"text", "control"}, slot : Nat, what : Int, place : Places \cup Controls]

Stages == {"idle", "scan", "fill", "post", "show", "lost"}

Shape ==
  /\ textbuffer \in [Slots -> Int]
  /\ ready \in Seq(Events)
  /\ waiting \subseteq Events
  /\ lcd \in Slots \cup {0}
  /\ at \in [Threads -> Stages]
  /\ job \in [Threads -> [what : Int, place : Places \cup Controls, timed : BOOLEAN]]
  /\ slot \in [Threads -> Nat \ {0}]
  /\ count \in Nat
  /\ raced \in BOOLEAN

\* Buffers that are in use are buffers, texts that are shown are not the marker.
Bounds ==
  /\ \A i \in ReadyTexts : ready[i].slot \in Slots /\ ready[i].what # 0
  /\ \A e \in waiting : e.kind = "text" /\ e.slot \in Slots /\ e.what # 0
  /\ \A t \in Threads : at[t] \in {"fill", "post"} => slot[t] \in Slots
  /\ \A t \in Threads : at[t] \in {"scan", "fill", "post"} => job[t].what # 0
  /\ \A t \in Threads : at[t] = "show" => job[t].what \in Nat /\ job[t].place \in Controls
  /\ \A t \in Threads : at[t] # "show" => job[t].place \in Places

\* A thread between its test and its event has the buffer.
Claims(t) == at[t] \in {"fill", "post"}

Holders ==
  /\ \A i \in ReadyTexts : textbuffer[ready[i].slot] = ready[i].what
  /\ \A e \in waiting : textbuffer[e.slot] = e.what
  /\ lcd # 0 => textbuffer[lcd] # Free
  /\ \A t \in Threads : at[t] = "fill" => textbuffer[slot[t]] = Free
  /\ \A t \in Threads : at[t] = "post" => textbuffer[slot[t]] = job[t].what

TextsApart ==
  /\ \A i, j \in ReadyTexts : i # j => ready[i].slot # ready[j].slot
  /\ \A e, f \in waiting : e # f => e.slot # f.slot
  /\ \A i \in ReadyTexts : \A e \in waiting : ready[i].slot # e.slot

LcdApart ==
  /\ \A i \in ReadyTexts : ready[i].slot # lcd
  /\ \A e \in waiting : e.slot # lcd

ClaimsApart == \A t, u \in Threads : t # u /\ Claims(t) /\ Claims(u) => slot[t] # slot[u]

PostsApart ==
  \A t \in Threads : at[t] = "post" =>
    /\ slot[t] # lcd
    /\ \A i \in ReadyTexts : ready[i].slot # slot[t]
    /\ \A e \in waiting : e.slot # slot[t]

Apart == TextsApart /\ LcdApart /\ ClaimsApart /\ PostsApart

Inv == Shape /\ Bounds /\ (~raced => Holders /\ Apart)

----------------------------------------------------------------------------
(* The queue *)

\* Taking the first event leaves the others in order.
LEMMA TailFacts ==
  ASSUME NEW E, NEW q \in Seq(E), q # <<>>
  PROVE  /\ Tail(q) \in Seq(E)
         /\ Len(Tail(q)) = Len(q) - 1
         /\ \A i \in 1 .. Len(Tail(q)) : Tail(q)[i] = q[i + 1]
         /\ Head(q) = q[1] /\ Head(q) \in E
         /\ Len(q) \in Nat \ {0}
OBVIOUS

\* Posting an event leaves the others in place.
LEMMA AppendFacts ==
  ASSUME NEW E, NEW q \in Seq(E), NEW e \in E
  PROVE  /\ Append(q, e) \in Seq(E)
         /\ Len(Append(q, e)) = Len(q) + 1
         /\ \A i \in 1 .. Len(q) : Append(q, e)[i] = q[i]
         /\ Append(q, e)[Len(q) + 1] = e
         /\ Len(q) \in Nat
OBVIOUS

----------------------------------------------------------------------------
(* The invariant is inductive *)

LEMMA InvInit == Init => Inv
<1> SUFFICES ASSUME Init PROVE Inv
  OBVIOUS
<1> USE DEF Init
<1>1. Len(ready) = 1 /\ ready[1].kind = "control"
  BY DEF ControlEvent
<1>2. Shape
  <2>1. ControlEvent("slider", StartPos) \in Events
    BY DEF ControlEvent, Events, StartPos, Controls
  <2>2. ready \in Seq(Events)
    BY <2>1
  <2>3. NoJob \in [what : Int, place : Places \cup Controls, timed : BOOLEAN]
    BY DEF NoJob, Places
  <2>4. raced \in BOOLEAN
    BY Zenon
  <2>5. /\ textbuffer \in [Slots -> Int] /\ waiting \subseteq Events /\ lcd \in Slots \cup {0}
        /\ at \in [Threads -> Stages] /\ slot \in [Threads -> Nat \ {0}] /\ count \in Nat
    BY DEF Stages, Free
  <2>6. job \in [Threads -> [what : Int, place : Places \cup Controls, timed : BOOLEAN]]
    BY <2>3, Zenon
  <2>7. QED
    BY <2>2, <2>4, <2>5, <2>6, Zenon DEF Shape
<1>3. ReadyTexts = {}
  BY <1>1 DEF ReadyTexts
<1>4. QED
  BY <1>2, <1>3 DEF Inv, Bounds, Holders, Apart, TextsApart, LcdApart, ClaimsApart, PostsApart, Claims, NoJob, Places

\* A call begins, with a text or with a control.
LEMMA ShowInv ==
  ASSUME Inv, NEW t \in Threads, NEW p \in Places, NEW timed \in BOOLEAN, Show(t, p, timed)
  PROVE  Inv'
<1> USE DEF Inv, Show
<1>1. Shape'
  BY DEF Shape, Stages
<1>2. Bounds'
  BY DEF Shape, Bounds, ReadyTexts, Stages
<1>3. ASSUME ~raced PROVE Holders' /\ Apart'
  <2>1. /\ UNCHANGED <<textbuffer, ready, waiting, lcd>>
        /\ \A u \in Threads : at'[u] \in {"fill", "post"} =>
             at'[u] = at[u] /\ job'[u] = job[u] /\ slot'[u] = slot[u]
    BY DEF Shape, Stages
  <2>2. Holders'
    BY <1>3, <2>1 DEF Holders, ReadyTexts
  <2>3. Apart'
    BY <1>3, <2>1 DEF Apart, TextsApart, LcdApart, ClaimsApart, PostsApart, Claims, ReadyTexts
  <2>4. QED
    BY <2>2, <2>3
<1>4. QED
  BY <1>1, <1>2, <1>3

LEMMA SetControlInv ==
  ASSUME Inv, NEW t \in Threads, NEW c \in Controls, NEW v \in Values(c), SetControl(t, c, v)
  PROVE  Inv'
<1> USE DEF Inv, SetControl
<1>0. v \in Nat
  BY SliderAssumption DEF Values
<1>1. Shape'
  BY <1>0 DEF Shape, Stages
<1>2. Bounds'
  BY <1>0 DEF Shape, Bounds, ReadyTexts, Stages
<1>3. ASSUME ~raced PROVE Holders' /\ Apart'
  BY <1>3 DEF Shape, Holders, Apart, TextsApart, LcdApart, ClaimsApart, PostsApart, Claims, ReadyTexts, Stages
<1>4. QED
  BY <1>1, <1>2, <1>3

\* The test claims a buffer; if the other thread has claimed it too, raced says so.
LEMMA TestSlotInv ==
  ASSUME Inv, NEW t \in Threads, TestSlot(t)
  PROVE  Inv'
<1> USE DEF Inv, TestSlot
<1>1. Shape'
  <2>1. raced' \in BOOLEAN
    BY Zenon DEF Shape
  <2>2. at' \in [Threads -> Stages] /\ slot' \in [Threads -> Nat \ {0}]
    <3>1. CASE at' = [at EXCEPT ![t] = "fill"] /\ slot' = slot
      BY <3>1 DEF Shape, Stages
    <3>2. CASE slot' = [slot EXCEPT ![t] = @ + 1] /\ at' = at
      BY <3>2 DEF Shape
    <3>3. QED
      BY <3>1, <3>2, Zenon
  <2>3. UNCHANGED <<textbuffer, ready, waiting, lcd, job, count>>
    OBVIOUS
  <2>4. QED
    BY <2>1, <2>2, <2>3, Zenon DEF Shape
<1>2. Bounds'
  BY DEF Shape, Bounds, ReadyTexts, Stages, Slots
<1>3. ASSUME ~raced' PROVE Holders' /\ Apart'
  <2>1. ~raced
    BY <1>3, Zenon
  <2>2. CASE textbuffer[slot[t]] = Free /\ at' = [at EXCEPT ![t] = "fill"] /\ slot' = slot
    <3>1. \A u \in Threads \ {t} : at[u] = "fill" => slot[u] # slot[t]
      <4>1. CASE UNCHANGED <<at, raced>>
        BY <4>1, <2>2 DEF Shape
      <4>2. CASE raced' = (raced \/ \E u \in Threads \ {t} : at[u] = "fill" /\ slot[u] = slot[t])
        BY <4>2, <1>3, Zenon
      <4>3. QED
        BY <4>1, <4>2
    <3>2. \A u \in Threads \ {t} : at[u] = "post" => slot[u] # slot[t]
      BY <2>1, <2>2 DEF Holders, Bounds, Free
    <3>3. Holders'
      BY <2>1, <2>2 DEF Shape, Holders, ReadyTexts, Stages
    <3>4. Apart'
      <4>1. \A u \in Threads \ {t} : at'[u] = at[u] /\ (Claims(u) => slot[u] # slot[t])
        BY <2>2, <3>1, <3>2 DEF Shape, Claims
      <4>2. UNCHANGED <<ready, waiting, lcd, slot>> /\ at'[t] = "fill"
        BY <2>2 DEF Shape
      <4>3. TextsApart' /\ LcdApart'
        BY <2>1, <4>2 DEF Apart, TextsApart, LcdApart, ReadyTexts
      <4>4. ClaimsApart'
        BY <2>1, <4>1, <4>2 DEF Apart, ClaimsApart, Claims
      <4>5. PostsApart'
        BY <2>1, <4>1, <4>2 DEF Apart, PostsApart, ReadyTexts
      <4>6. QED
        BY <4>3, <4>4, <4>5 DEF Apart
    <3>5. QED
      BY <3>3, <3>4
  <2>3. CASE slot' = [slot EXCEPT ![t] = @ + 1] /\ at' = at
    BY <2>1, <2>3 DEF Shape, Holders, Apart, TextsApart, LcdApart, ClaimsApart, PostsApart, Claims, ReadyTexts
  <2>4. QED
    BY <2>2, <2>3
<1>4. QED
  BY <1>1, <1>2, <1>3

\* Return leaves a thread that has no claim.
LEMMA ReturnShape ==
  ASSUME Shape, Bounds, NEW t \in Threads, at[t] \in {"scan", "fill", "post"}, Return(t)
  PROVE  /\ at' \in [Threads -> Stages]
         /\ job' \in [Threads -> [what : Int, place : Places \cup Controls, timed : BOOLEAN]]
         /\ slot' \in [Threads -> Nat \ {0}]
         /\ at'[t] \in {"idle", "scan"}
         /\ at'[t] = "scan" => job'[t].what # 0
         /\ job'[t].place \in Places
         /\ \A u \in Threads \ {t} : at'[u] = at[u] /\ job'[u] = job[u] /\ slot'[u] = slot[u]
<1> DEFINE j == job[t]
<1>1. j \in [what : Int, place : Places \cup Controls, timed : BOOLEAN]
  BY DEF Shape
<1>2. j.place \in Places /\ j.what # 0
  BY DEF Bounds
<1>3. PICK new \in [what : Int, place : Places \cup Controls, timed : BOOLEAN], to \in {"idle", "scan"} :
        /\ new.place \in Places /\ (to = "scan" => new.what # 0)
        /\ job' = [job EXCEPT ![t] = new]
        /\ at' = [at EXCEPT ![t] = to]
        /\ slot' = [slot EXCEPT ![t] = 1]
  <2>1. CASE j.timed /\ j.what > 0
    <3> DEFINE new == [what |-> - j.what, place |-> j.place, timed |-> TRUE]
    <3>1. /\ new \in [what : Int, place : Places \cup Controls, timed : BOOLEAN]
          /\ new.place \in Places /\ new.what # 0
      BY <1>1, <1>2
    <3>2. /\ job' = [job EXCEPT ![t] = new]
          /\ at' = [at EXCEPT ![t] = "scan"]
          /\ slot' = [slot EXCEPT ![t] = 1]
      BY <2>1 DEF Return
    <3>3. QED
      BY <3>1, <3>2
  <2>2. CASE ~(j.timed /\ j.what > 0)
    <3>1. /\ NoJob \in [what : Int, place : Places \cup Controls, timed : BOOLEAN]
          /\ NoJob.place \in Places
      BY DEF NoJob, Places
    <3>2. /\ job' = [job EXCEPT ![t] = NoJob]
          /\ at' = [at EXCEPT ![t] = "idle"]
          /\ slot' = [slot EXCEPT ![t] = 1]
      BY <2>2 DEF Return
    <3>3. QED
      BY <3>1, <3>2
  <2>3. QED
    BY <2>1, <2>2
<1>4. QED
  BY <1>3 DEF Shape, Stages

LEMMA DropInv ==
  ASSUME Inv, NEW t \in Threads, Drop(t)
  PROVE  Inv'
<1> USE DEF Inv, Drop
<1>0. /\ at' \in [Threads -> Stages]
      /\ job' \in [Threads -> [what : Int, place : Places \cup Controls, timed : BOOLEAN]]
      /\ slot' \in [Threads -> Nat \ {0}]
      /\ at'[t] \in {"idle", "scan"}
      /\ at'[t] = "scan" => job'[t].what # 0
      /\ job'[t].place \in Places
      /\ \A u \in Threads \ {t} : at'[u] = at[u] /\ job'[u] = job[u] /\ slot'[u] = slot[u]
  BY ReturnShape
<1>1. Shape'
  BY <1>0 DEF Shape
<1>2. Bounds'
  BY <1>0 DEF Shape, Bounds, ReadyTexts
<1>3. ASSUME ~raced PROVE Holders' /\ Apart'
  <2>1. UNCHANGED <<textbuffer, ready, waiting, lcd>>
    OBVIOUS
  <2>2. Holders'
    BY <1>0, <1>3, <2>1 DEF Holders, ReadyTexts
  <2>3. Apart'
    <3>1. /\ \A u \in Threads : Claims(u)' => u # t /\ Claims(u) /\ slot'[u] = slot[u]
          /\ \A u \in Threads : at'[u] = "post" => u # t /\ at[u] = "post" /\ slot'[u] = slot[u]
      BY <1>0 DEF Claims
    <3>2. QED
      BY <1>3, <2>1, <3>1 DEF Apart, TextsApart, LcdApart, ClaimsApart, PostsApart, ReadyTexts
  <2>4. QED
    BY <2>2, <2>3
<1>4. QED
  BY <1>1, <1>2, <1>3

LEMMA RunOnInv ==
  ASSUME Inv, NEW t \in Threads, RunOn(t)
  PROVE  Inv'
<1> USE DEF Inv, RunOn
<1>1. Shape'
  BY DEF Shape, Stages
<1>2. Bounds'
  BY DEF Shape, Bounds, ReadyTexts, Stages
<1>3. ASSUME ~raced PROVE Holders' /\ Apart'
  BY <1>3 DEF Shape, Holders, Apart, TextsApart, LcdApart, ClaimsApart, PostsApart, Claims, ReadyTexts, Stages
<1>4. QED
  BY <1>1, <1>2, <1>3

\* The buffer a thread fills was free, so nobody's text is overwritten.
LEMMA FillInv ==
  ASSUME Inv, NEW t \in Threads, Fill(t)
  PROVE  Inv'
<1> USE DEF Inv, Fill
<1>1. Shape'
  BY DEF Shape, Bounds, Stages
<1>2. Bounds'
  BY DEF Shape, Bounds, ReadyTexts, Stages
<1>3. ASSUME ~raced PROVE Holders' /\ Apart'
  <2>1. /\ \A i \in ReadyTexts : ready[i].slot # slot[t]
        /\ \A e \in waiting : e.slot # slot[t]
        /\ slot[t] # lcd
    BY <1>3 DEF Holders, Bounds, Free, Slots
  <2>2. \A u \in Threads \ {t} : Claims(u) => slot[u] # slot[t]
    BY <1>3 DEF Apart, TextsApart, LcdApart, ClaimsApart, PostsApart, Claims
  <2>3. Holders'
    BY <1>3, <2>1, <2>2 DEF Shape, Bounds, Holders, Claims, ReadyTexts, Stages, Free
  <2>4. Apart'
    BY <1>3, <2>1 DEF Shape, Apart, TextsApart, LcdApart, ClaimsApart, PostsApart, Claims, ReadyTexts, Stages
  <2>5. QED
    BY <2>3, <2>4
<1>4. QED
  BY <1>1, <1>2, <1>3
\* The event takes over the thread's claim; a refused one takes nothing.
LEMMA PostInv ==
  ASSUME Inv, NEW t \in Threads, Post(t)
  PROVE  Inv'
<1> DEFINE e == TextEvent(slot[t], job[t].what, job[t].place)
<1> USE DEF Inv
<1>0. /\ at' \in [Threads -> Stages]
      /\ job' \in [Threads -> [what : Int, place : Places \cup Controls, timed : BOOLEAN]]
      /\ slot' \in [Threads -> Nat \ {0}]
      /\ at'[t] \in {"idle", "scan"}
      /\ at'[t] = "scan" => job'[t].what # 0
      /\ job'[t].place \in Places
      /\ \A u \in Threads \ {t} : at'[u] = at[u] /\ job'[u] = job[u] /\ slot'[u] = slot[u]
  BY ReturnShape DEF Post
<1>1. /\ e \in Events /\ e.kind = "text" /\ e.slot = slot[t] /\ e.what = job[t].what
      /\ e.slot \in Slots /\ e.what # 0
  BY DEF Post, Shape, Bounds, TextEvent, Events
<1>2. UNCHANGED <<textbuffer, lcd, count, raced>> /\ at[t] = "post"
  BY DEF Post
<1>3. \/ ready' = ready /\ waiting' = waiting
      \/ ready' = Append(ready, e) /\ waiting' = waiting
      \/ ready' = ready /\ waiting' = waiting \cup {e}
  <2>0. e.what \in Int
    BY <1>1 DEF Events
  <2>1. CASE Full
    BY <2>1 DEF Post, Full
  <2>2. CASE ~Full /\ e.what > 0
    BY <2>0, <2>2 DEF Post, Full
  <2>3. CASE ~Full /\ e.what < 0
    BY <2>0, <2>3 DEF Post, Full
  <2>4. QED
    BY <1>1, <2>0, <2>1, <2>2, <2>3
<1> HIDE DEF e
<1>4. /\ \A u \in Threads : Claims(u)' => u # t /\ Claims(u) /\ slot'[u] = slot[u]
      /\ \A u \in Threads : u # t => at'[u] = at[u] /\ job'[u] = job[u] /\ slot'[u] = slot[u]
      /\ ~Claims(t)' /\ Claims(t)
  BY <1>0, <1>2 DEF Claims
<1>5. Shape'
  <2>1. ready' \in Seq(Events) /\ waiting' \subseteq Events
    <3>1. ready \in Seq(Events) /\ waiting \subseteq Events /\ e \in Events
      BY <1>1 DEF Shape
    <3>2. QED
      BY <1>3, <3>1, AppendFacts
  <2>2. raced' \in BOOLEAN
    BY <1>2, Zenon DEF Shape
  <2>3. QED
    BY <1>0, <1>2, <2>1, <2>2, Zenon DEF Shape
<1> DEFINE i == Len(ready) + 1
<1>6. CASE ready' = ready /\ waiting' = waiting
  <2>1. Bounds'
    BY <1>0, <1>6 DEF Bounds, ReadyTexts
  <2>2. ASSUME ~raced PROVE Holders' /\ Apart'
    <3>1. ReadyTexts' = ReadyTexts
      BY <1>6 DEF ReadyTexts
    <3>2. Holders'
      BY <1>0, <1>2, <1>4, <1>6, <2>2, <3>1 DEF Holders, Claims
    <3>3. Apart'
      <4>1. TextsApart'
        BY <1>0, <1>2, <1>4, <1>6, <2>2, <3>1 DEF Apart, TextsApart
      <4>2. LcdApart'
        BY <1>0, <1>2, <1>4, <1>6, <2>2, <3>1 DEF Apart, LcdApart
      <4>3. ClaimsApart'
        BY <1>0, <1>2, <1>4, <1>6, <2>2, <3>1 DEF Apart, ClaimsApart, Claims
      <4>4. PostsApart'
        BY <1>0, <1>2, <1>4, <1>6, <2>2, <3>1 DEF Apart, TextsApart, LcdApart, PostsApart, Claims
      <4>5. QED
        BY <4>1, <4>2, <4>3, <4>4 DEF Apart
    <3>4. QED
      BY <3>2, <3>3
  <2>3. QED
    BY <1>2, <1>5, <2>1, <2>2
<1>7. ASSUME ~raced
      PROVE  /\ e.slot # lcd /\ textbuffer[e.slot] = e.what
             /\ \A k \in ReadyTexts : ready[k].slot # e.slot
             /\ \A f \in waiting : f.slot # e.slot
             /\ \A u \in Threads : Claims(u)' => /\ Claims(u) /\ at'[u] = at[u] /\ job'[u] = job[u]
                                                 /\ slot'[u] = slot[u] /\ slot[u] # e.slot
  <2>1. e.slot # lcd /\ textbuffer[e.slot] = e.what
    BY <1>1, <1>2, <1>7 DEF Holders, Apart, PostsApart
  <2>2. /\ \A k \in ReadyTexts : ready[k].slot # e.slot
        /\ \A f \in waiting : f.slot # e.slot
    BY <1>1, <1>2, <1>7 DEF Apart, PostsApart
  <2>3. \A u \in Threads : Claims(u)' => /\ Claims(u) /\ at'[u] = at[u] /\ job'[u] = job[u]
                                         /\ slot'[u] = slot[u] /\ slot[u] # e.slot
    BY <1>0, <1>1, <1>4, <1>7 DEF Apart, ClaimsApart
  <2>4. QED
    BY <2>1, <2>2, <2>3
<1>8. CASE ready' = Append(ready, e) /\ waiting' = waiting
  <2>1. /\ Len(ready') = i /\ i \in Nat /\ ready'[i] = e
        /\ \A k \in 1 .. Len(ready) : ready'[k] = ready[k]
        /\ Len(ready) \in Nat
    BY <1>1, <1>8, AppendFacts DEF Shape
  <2>2. \A k \in ReadyTexts' : \/ k = i /\ ready'[k] = e
                               \/ k \in ReadyTexts /\ ready'[k] = ready[k]
    BY <2>1 DEF ReadyTexts
  <2>3. \A f \in waiting' : f \in waiting
    BY <1>8
  <2>4. Bounds'
    BY <1>0, <1>1, <2>2, <2>3 DEF Bounds
  <2>5. ASSUME ~raced PROVE Holders'
    <3>1. \A k \in ReadyTexts' : textbuffer'[ready'[k].slot] = ready'[k].what
      BY <1>2, <1>7, <2>2, <2>3, <2>5 DEF Holders
    <3>2. \A f \in waiting' : textbuffer'[f.slot] = f.what
      BY <1>2, <1>7, <2>2, <2>3, <2>5 DEF Holders
    <3>3. \A u \in Threads : at'[u] \in {"fill", "post"} => Claims(u)'
      BY DEF Claims
    <3>4. QED
      BY <1>2, <1>7, <2>5, <3>1, <3>2, <3>3 DEF Holders
  <2>6. ASSUME ~raced PROVE Apart'
    <3>1. TextsApart'
      BY <1>7, <2>2, <2>3, <2>6 DEF Apart, TextsApart
    <3>2. LcdApart'
      BY <1>2, <1>7, <2>2, <2>3, <2>6 DEF Apart, LcdApart
    <3>3. ClaimsApart'
      BY <1>7, <2>6 DEF Apart, ClaimsApart
    <3>4. \A u \in Threads : at'[u] = "post" => Claims(u)'
      BY DEF Claims
    <3>5. PostsApart'
      BY <1>2, <1>7, <2>2, <2>3, <2>6, <3>4 DEF Apart, PostsApart
    <3>6. QED
      BY <3>1, <3>2, <3>3, <3>5 DEF Apart
  <2>7. QED
    BY <1>2, <1>5, <2>4, <2>5, <2>6
<1>9. CASE ready' = ready /\ waiting' = waiting \cup {e}
  <2>2. \A k \in ReadyTexts' : k \in ReadyTexts /\ ready'[k] = ready[k]
    BY <1>9 DEF ReadyTexts
  <2>3. \A f \in waiting' : f = e \/ f \in waiting
    BY <1>9
  <2>4. Bounds'
    BY <1>0, <1>1, <2>2, <2>3 DEF Bounds
  <2>5. ASSUME ~raced PROVE Holders'
    <3>1. \A k \in ReadyTexts' : textbuffer'[ready'[k].slot] = ready'[k].what
      BY <1>2, <1>7, <2>2, <2>3, <2>5 DEF Holders
    <3>2. \A f \in waiting' : textbuffer'[f.slot] = f.what
      BY <1>2, <1>7, <2>2, <2>3, <2>5 DEF Holders
    <3>3. \A u \in Threads : at'[u] \in {"fill", "post"} => Claims(u)'
      BY DEF Claims
    <3>4. QED
      BY <1>2, <1>7, <2>5, <3>1, <3>2, <3>3 DEF Holders
  <2>6. ASSUME ~raced PROVE Apart'
    <3>1. TextsApart'
      BY <1>7, <2>2, <2>3, <2>6 DEF Apart, TextsApart
    <3>2. LcdApart'
      BY <1>2, <1>7, <2>2, <2>3, <2>6 DEF Apart, LcdApart
    <3>3. ClaimsApart'
      BY <1>7, <2>6 DEF Apart, ClaimsApart
    <3>4. \A u \in Threads : at'[u] = "post" => Claims(u)'
      BY DEF Claims
    <3>5. PostsApart'
      BY <1>2, <1>7, <2>2, <2>3, <2>6, <3>4 DEF Apart, PostsApart
    <3>6. QED
      BY <3>1, <3>2, <3>3, <3>5 DEF Apart
  <2>7. QED
    BY <1>2, <1>5, <2>4, <2>5, <2>6
<1>10. QED
  BY <1>3, <1>6, <1>8, <1>9

\* A control's event has no buffer.
LEMMA ShowControlInv ==
  ASSUME Inv, NEW t \in Threads, ShowControl(t)
  PROVE  Inv'
<1> DEFINE e == ControlEvent(job[t].place, job[t].what)
<1> USE DEF Inv
<1>1. e \in Events /\ e.kind = "control"
  BY DEF ShowControl, Shape, Bounds, ControlEvent, Events
<1>2. /\ UNCHANGED <<textbuffer, waiting, lcd, slot, count, raced>>
      /\ at[t] = "show" /\ at' = [at EXCEPT ![t] = "idle"] /\ job' = [job EXCEPT ![t] = NoJob]
      /\ ready' = ready \/ ready' = Append(ready, e)
  BY DEF ShowControl
<1>3. /\ ready' \in Seq(Events) /\ ReadyTexts' = ReadyTexts
      /\ \A k \in ReadyTexts : ready'[k] = ready[k]
  <2>1. CASE ready' = ready
    BY <2>1 DEF Shape, ReadyTexts
  <2>2. CASE ready' = Append(ready, e)
    BY <1>1, <2>2, AppendFacts DEF Shape, ReadyTexts
  <2>3. QED
    BY <1>2, <2>1, <2>2
<1>4. Shape'
  <2>1. NoJob \in [what : Int, place : Places \cup Controls, timed : BOOLEAN]
    BY DEF NoJob, Places
  <2>2. at' \in [Threads -> Stages] /\ raced' \in BOOLEAN
    BY <1>2 DEF Shape, Stages
  <2>3. job' \in [Threads -> [what : Int, place : Places \cup Controls, timed : BOOLEAN]]
    BY <1>2, <2>1 DEF Shape
  <2>4. QED
    BY <1>2, <1>3, <2>2, <2>3, Zenon DEF Shape
<1>5. Bounds'
  BY <1>2, <1>3 DEF Shape, Bounds, NoJob, Places
<1>6. ASSUME ~raced PROVE Holders' /\ Apart'
  <2>1. /\ \A u \in Threads : Claims(u)' => Claims(u) /\ at'[u] = at[u] /\ job'[u] = job[u] /\ slot'[u] = slot[u]
        /\ \A u \in Threads : at'[u] \in {"fill", "post"} => Claims(u)'
    BY <1>2 DEF Shape, Claims
  <2>2. Holders'
    BY <1>2, <1>3, <1>6, <2>1 DEF Holders, Claims
  <2>3. Apart'
    <3>1. TextsApart'
      BY <1>2, <1>3, <1>6, <2>1 DEF Apart, TextsApart
    <3>2. LcdApart'
      BY <1>2, <1>3, <1>6, <2>1 DEF Apart, LcdApart
    <3>3. ClaimsApart'
      BY <1>2, <1>3, <1>6, <2>1 DEF Apart, ClaimsApart, Claims
    <3>4. PostsApart'
      BY <1>2, <1>3, <1>6, <2>1 DEF Apart, TextsApart, LcdApart, PostsApart, Claims
    <3>5. QED
      BY <3>1, <3>2, <3>3, <3>4 DEF Apart
  <2>4. QED
    BY <2>2, <2>3
<1>7. QED
  BY <1>2, <1>4, <1>5, <1>6

\* An event whose delay is over keeps its buffer.
LEMMA DueInv ==
  ASSUME Inv, NEW e \in waiting, Due(e)
  PROVE  Inv'
<1> USE DEF Inv
<1>1. /\ waiting' = waiting \ {e} /\ ready' = Append(ready, e)
      /\ UNCHANGED <<textbuffer, lcd, at, job, slot, count, raced>>
  BY DEF Due, writer
<1>2. e \in Events /\ e.kind = "text" /\ e.slot \in Slots /\ e.what # 0
  BY DEF Shape, Bounds
<1> DEFINE i == Len(ready) + 1
<1>3. /\ Len(ready') = i /\ i \in Nat /\ ready'[i] = e /\ ready' \in Seq(Events)
      /\ \A k \in 1 .. Len(ready) : ready'[k] = ready[k]
  BY <1>1, <1>2, AppendFacts DEF Shape
<1>4. /\ ReadyTexts' = ReadyTexts \cup {i}
      /\ \A k \in ReadyTexts : ready'[k] = ready[k] /\ k # i
  BY <1>2, <1>3 DEF ReadyTexts
<1> HIDE DEF i
<1>0. /\ \A f \in waiting' : f \in waiting /\ f # e
      /\ UNCHANGED <<textbuffer, lcd, at, job, slot, count, raced>>
  BY <1>1
<1>5. Shape'
  BY <1>1, <1>3, Zenon DEF Shape
<1>6. Bounds'
  BY <1>0, <1>2, <1>3, <1>4 DEF Bounds
<1>7. ASSUME ~raced PROVE Holders'
  BY <1>0, <1>3, <1>4, <1>7 DEF Holders
<1>8. ASSUME ~raced PROVE Apart'
  <2>1. TextsApart'
    BY <1>0, <1>3, <1>4, <1>8 DEF Apart, TextsApart
  <2>2. LcdApart'
    BY <1>0, <1>3, <1>4, <1>8 DEF Apart, LcdApart
  <2>3. ClaimsApart'
    BY <1>0, <1>3, <1>4, <1>8 DEF Apart, ClaimsApart, Claims
  <2>4. PostsApart'
    BY <1>0, <1>3, <1>4, <1>8 DEF Apart, TextsApart, LcdApart, PostsApart, Claims
  <2>5. QED
    BY <2>1, <2>2, <2>3, <2>4 DEF Apart
<1>9. QED
  BY <1>0, <1>5, <1>6, <1>7, <1>8

\* Taking the first event leaves the others their buffers.
LEMMA TakeFirst ==
  ASSUME Shape, ready # <<>>, ready' = Tail(ready)
  PROVE  /\ ready' \in Seq(Events)
         /\ Head(ready) = ready[1] /\ Head(ready) \in Events
         /\ 1 \in 1 .. Len(ready)
         /\ \A i \in ReadyTexts' : /\ i + 1 \in ReadyTexts /\ ready'[i] = ready[i + 1]
                                  /\ i \in Nat \ {0}
<1>1. /\ ready' \in Seq(Events) /\ Len(ready') = Len(ready) - 1
      /\ \A i \in 1 .. Len(ready') : ready'[i] = ready[i + 1]
      /\ Head(ready) = ready[1] /\ Head(ready) \in Events
      /\ Len(ready) \in Nat \ {0}
  BY TailFacts DEF Shape
<1>2. QED
  BY <1>1 DEF ReadyTexts

\* The LCD thread takes over the event's buffer, which holds a text.
LEMMA DrawTextInv ==
  ASSUME Inv, DrawText
  PROVE  Inv'
<1> USE DEF Inv
<1>1. /\ lcd = 0 /\ ready # <<>> /\ Head(ready).kind = "text"
      /\ lcd' = Head(ready).slot /\ ready' = Tail(ready)
      /\ UNCHANGED <<textbuffer, waiting, at, job, slot, count, raced>>
  BY DEF DrawText, writer
<1>2. /\ ready' \in Seq(Events) /\ Head(ready) = ready[1] /\ 1 \in ReadyTexts
      /\ \A i \in ReadyTexts' : i + 1 \in ReadyTexts /\ ready'[i] = ready[i + 1] /\ i \in Nat \ {0}
  BY <1>1, TakeFirst DEF ReadyTexts
<1>0. /\ UNCHANGED <<textbuffer, waiting, at, job, slot, count, raced>>
      /\ lcd = 0 /\ lcd' = ready[1].slot
  BY <1>1, <1>2
<1>3. lcd' \in Slots /\ ready[1].what # 0
  BY <1>0, <1>2 DEF Bounds
<1>4. Shape'
  BY <1>0, <1>2, <1>3, Zenon DEF Shape
<1>5. Bounds'
  BY <1>0, <1>2 DEF Bounds
<1>6. ASSUME ~raced PROVE Holders'
  BY <1>0, <1>2, <1>3, <1>6 DEF Holders, Free
<1>7. ASSUME ~raced PROVE Apart'
  <2>1. TextsApart'
    BY <1>0, <1>2, <1>3, <1>7 DEF Apart, TextsApart
  <2>2. LcdApart'
    BY <1>0, <1>2, <1>3, <1>7 DEF Apart, TextsApart, LcdApart
  <2>3. ClaimsApart'
    BY <1>0, <1>2, <1>3, <1>7 DEF Apart, ClaimsApart, Claims
  <2>4. PostsApart'
    BY <1>0, <1>2, <1>3, <1>7 DEF Apart, TextsApart, LcdApart, PostsApart, Claims
  <2>5. QED
    BY <2>1, <2>2, <2>3, <2>4 DEF Apart
<1>8. QED
  BY <1>0, <1>4, <1>5, <1>6, <1>7

\* The buffer that gets its marker back is nobody else's.
LEMMA FreeSlotInv ==
  ASSUME Inv, FreeSlot
  PROVE  Inv'
<1> USE DEF Inv
<1>1. /\ lcd # 0 /\ lcd' = 0 /\ textbuffer' = [textbuffer EXCEPT ![lcd] = Free]
      /\ UNCHANGED <<ready, waiting, at, job, slot, count, raced>>
  BY DEF FreeSlot, writer
<1>2. lcd \in Slots
  BY <1>1 DEF Shape
<1>3. textbuffer' \in [Slots -> Int] /\ lcd' \in Slots \cup {0}
  BY <1>1, <1>2 DEF Shape, Free
<1>4. Shape'
  BY <1>1, <1>3, Zenon DEF Shape
<1>5. Bounds'
  BY <1>1 DEF Bounds, ReadyTexts
<1>6. ASSUME ~raced PROVE Holders'
  BY <1>1, <1>2, <1>6 DEF Shape, Bounds, Holders, Apart, TextsApart, LcdApart, ClaimsApart, PostsApart, Claims, ReadyTexts
<1>7. ASSUME ~raced PROVE Apart'
  BY <1>1, <1>2, <1>7 DEF Shape, Bounds, Apart, TextsApart, LcdApart, ClaimsApart, PostsApart, Claims, ReadyTexts, Slots
<1>8. QED
  BY <1>1, <1>4, <1>5, <1>6, <1>7

LEMMA DrawControlInv ==
  ASSUME Inv, DrawControl
  PROVE  Inv'
<1> USE DEF Inv
<1>1. /\ ready # <<>> /\ ready' = Tail(ready)
      /\ UNCHANGED <<textbuffer, waiting, lcd, at, job, slot, count, raced>>
  BY DEF DrawControl, writer
<1>2. /\ ready' \in Seq(Events)
      /\ \A i \in ReadyTexts' : i + 1 \in ReadyTexts /\ ready'[i] = ready[i + 1] /\ i \in Nat \ {0}
  BY <1>1, TakeFirst
<1>0. /\ UNCHANGED <<textbuffer, waiting, at, job, slot, count, raced>>
      /\ lcd' = lcd
  BY <1>1, <1>2
<1>3. Shape'
  BY <1>0, <1>2, Zenon DEF Shape
<1>4. Bounds'
  BY <1>0, <1>2 DEF Bounds
<1>5. ASSUME ~raced PROVE Holders'
  BY <1>0, <1>2, <1>5 DEF Holders
<1>6. ASSUME ~raced PROVE Apart'
  <2>1. TextsApart'
    BY <1>0, <1>2, <1>6 DEF Apart, TextsApart
  <2>2. LcdApart'
    BY <1>0, <1>2, <1>6 DEF Apart, LcdApart
  <2>3. ClaimsApart'
    BY <1>0, <1>2, <1>6 DEF Apart, ClaimsApart, Claims
  <2>4. PostsApart'
    BY <1>0, <1>2, <1>6 DEF Apart, TextsApart, LcdApart, PostsApart, Claims
  <2>5. QED
    BY <2>1, <2>2, <2>3, <2>4 DEF Apart
<1>7. QED
  BY <1>0, <1>3, <1>4, <1>5, <1>6

LEMMA InvStep == Inv /\ [Next]_vars => Inv'
<1> SUFFICES ASSUME Inv, [Next]_vars PROVE Inv'
  OBVIOUS
<1>1. ASSUME NEW t \in Threads, NEW p \in Places, NEW timed \in BOOLEAN, Show(t, p, timed)
      PROVE  Inv'
  BY <1>1, ShowInv
<1>2. ASSUME NEW t \in Threads, NEW c \in Controls, NEW v \in Values(c), SetControl(t, c, v)
      PROVE  Inv'
  BY <1>2, SetControlInv
<1>3. ASSUME NEW t \in Threads, Call(t)
      PROVE  Inv'
  BY <1>3, TestSlotInv, DropInv, RunOnInv, FillInv, PostInv, ShowControlInv DEF Call
<1>4. ASSUME NEW e \in waiting, Due(e)
      PROVE  Inv'
  BY <1>4, DueInv
<1>5. CASE Dispatch
  BY <1>5, DrawTextInv, FreeSlotInv, DrawControlInv DEF Dispatch
<1>6. CASE UNCHANGED vars
  BY <1>6 DEF vars, writer, Inv, Shape, Bounds, Holders, Apart, TextsApart, LcdApart, ClaimsApart, PostsApart, Claims, ReadyTexts
<1>7. QED
  BY <1>1, <1>2, <1>3, <1>4, <1>5, <1>6 DEF Next

\* Unless two threads found the same buffer free, every event that is on its way finds
\* its own text in its buffer (lcd_ui.cpp 54-246), for any number of buffers, any
\* length of the queue and any number of calls.
THEOREM OwnTextAlways == Spec => []OwnText
<1>1. Inv => OwnText
  BY DEF Inv, OwnText, Holders, Apart, TextsApart, LcdApart, ClaimsApart, PostsApart
<1>2. QED
  BY InvInit, InvStep, <1>1, PTL DEF Spec

----------------------------------------------------------------------------
(* The controls *)

ShowingControl(t, c) == at[t] = "show" /\ job[t].place = c

IsControl(i, c) == ready[i].kind = "control" /\ ready[i].place = c

\* The last event on its way for c has its value; without one it is drawn as it is.
DrawnLast(c) ==
  \/ \E i \in 1 .. Len(ready) :
       /\ IsControl(i, c) /\ ready[i].what = hw[c]
       /\ \A j \in 1 .. Len(ready) : j > i => ~IsControl(j, c)
  \/ /\ \A i \in 1 .. Len(ready) : ~IsControl(i, c)
     /\ IF c = "slider" THEN Distance(shown[c], hw[c]) < MIN_SLICE ELSE shown[c] = hw[c]

\* The one thread that has set c and not yet posted its event has its value in hand.
ControlFollows(c) ==
  /\ \A t \in Threads : ShowingControl(t, c) =>
       /\ job[t].what = hw[c]
       /\ \A u \in Threads : u # t => ~ShowingControl(u, c)
  /\ (\A t \in Threads : ~ShowingControl(t, c)) => DrawnLast(c)

ControlInv ==
  /\ hw \in [Controls -> Int] /\ shown \in [Controls -> Int]
  /\ \A c \in Controls \ spoilt : ControlFollows(c)

LEMMA ControlInit == Init => ControlInv
<1> SUFFICES ASSUME Init PROVE ControlInv
  OBVIOUS
<1>1. Len(ready) = 1 /\ ready[1].place = "slider"
  BY DEF Init, ControlEvent
<1>2. hw \in [Controls -> Int] /\ shown \in [Controls -> Int]
  BY DEF Init, Controls, NeverDrawn
<1>3. ControlFollows("button")
  <2>1. \A i \in 1 .. Len(ready) : ~IsControl(i, "button")
    BY <1>1 DEF IsControl
  <2>2. shown["button"] = hw["button"]
    BY DEF Init, Controls
  <2> QED BY <2>1, <2>2 DEF Init, ControlFollows, DrawnLast, ShowingControl
<1> QED BY <1>2, <1>3 DEF Init, ControlInv, Controls

\* Where no event and no control changes, and no thread begins or ends setting one.
LEMMA ControlFrame ==
  ASSUME ControlInv, UNCHANGED <<ready, shown, hw, spoilt>>,
         \A t \in Threads : /\ at'[t] = "show" <=> at[t] = "show"
                            /\ at[t] = "show" => job'[t] = job[t]
  PROVE  ControlInv'
<1>1. \A t \in Threads : \A c : /\ ShowingControl(t, c)' <=> ShowingControl(t, c)
                                /\ ShowingControl(t, c) => job'[t] = job[t]
  BY DEF ShowingControl
<1>2. \A c : DrawnLast(c)' <=> DrawnLast(c)
  BY DEF DrawnLast, IsControl
<1>3. \A c : ControlFollows(c) => ControlFollows(c)'
  BY <1>1, <1>2 DEF ControlFollows
<1> QED BY <1>3 DEF ControlInv

\* An event that is not for c, at the end of the queue.
LEMMA DrawnAppend ==
  ASSUME Shape, NEW c, DrawnLast(c), NEW e \in Events, e.kind = "control" => e.place # c,
         ready' = Append(ready, e), UNCHANGED <<hw, shown>>
  PROVE  DrawnLast(c)'
<1>1. /\ Len(ready') = Len(ready) + 1 /\ Len(ready) \in Nat /\ ready'[Len(ready) + 1] = e
      /\ \A i \in 1 .. Len(ready) : ready'[i] = ready[i]
  BY AppendFacts DEF Shape
<1>2. \A j \in 1 .. Len(ready') : IsControl(j, c)' => j \in 1 .. Len(ready) /\ IsControl(j, c)
  BY <1>1 DEF IsControl
<1>3. CASE \E i \in 1 .. Len(ready) :
             /\ IsControl(i, c) /\ ready[i].what = hw[c]
             /\ \A j \in 1 .. Len(ready) : j > i => ~IsControl(j, c)
  <2>1. PICK i \in 1 .. Len(ready) :
               /\ IsControl(i, c) /\ ready[i].what = hw[c]
               /\ \A j \in 1 .. Len(ready) : j > i => ~IsControl(j, c)
    BY <1>3
  <2>2. i \in 1 .. Len(ready') /\ IsControl(i, c)' /\ ready'[i].what = hw'[c]
    BY <1>1, <2>1 DEF IsControl
  <2>3. \A j \in 1 .. Len(ready') : j > i => ~IsControl(j, c)'
    BY <1>2, <2>1
  <2> QED BY <2>2, <2>3 DEF DrawnLast
<1>4. CASE /\ \A i \in 1 .. Len(ready) : ~IsControl(i, c)
           /\ IF c = "slider" THEN Distance(shown[c], hw[c]) < MIN_SLICE ELSE shown[c] = hw[c]
  BY <1>2, <1>4 DEF DrawnLast
<1> QED BY <1>3, <1>4 DEF DrawnLast

LEMMA TailShift ==
  ASSUME Shape, ready # <<>>, ready' = Tail(ready)
  PROVE  /\ Len(ready) \in Nat \ {0} /\ Len(ready') = Len(ready) - 1
         /\ \A i \in 1 .. Len(ready') : i + 1 \in 1 .. Len(ready) /\ ready'[i] = ready[i + 1]
         /\ \A i \in 1 .. Len(ready) : i # 1 => i - 1 \in 1 .. Len(ready') /\ ready'[i - 1] = ready[i]
         /\ Head(ready) = ready[1] /\ ready[1] \in Events
<1>1. /\ Len(ready) \in Nat \ {0} /\ Len(ready') = Len(ready) - 1
      /\ \A i \in 1 .. Len(ready') : ready'[i] = ready[i + 1]
      /\ Head(ready) = ready[1] /\ ready[1] \in Events
  BY TailFacts DEF Shape
<1>2. \A i \in 1 .. Len(ready') : i + 1 \in 1 .. Len(ready) /\ ready'[i] = ready[i + 1]
  BY <1>1
<1>3. ASSUME NEW i \in 1 .. Len(ready), i # 1
      PROVE  i - 1 \in 1 .. Len(ready') /\ ready'[i - 1] = ready[i]
  <2>1. i - 1 \in 1 .. Len(ready') /\ (i - 1) + 1 = i
    BY <1>1, <1>3
  <2> QED BY <1>1, <2>1
<1> QED BY <1>1, <1>2, <1>3

\* The first event is taken, and c is drawn if it was for c.
LEMMA DrawnTail ==
  ASSUME Shape, ControlInv, NEW c \in Controls, DrawnLast(c), ready # <<>>, ready' = Tail(ready),
         UNCHANGED hw,
         IsControl(1, c) => shown'[c] = Drawn(c, ready[1].what),
         ~IsControl(1, c) => shown'[c] = shown[c]
  PROVE  DrawnLast(c)'
<1>1. /\ Len(ready) \in Nat \ {0} /\ Len(ready') = Len(ready) - 1
      /\ \A i \in 1 .. Len(ready') : i + 1 \in 1 .. Len(ready) /\ ready'[i] = ready[i + 1]
      /\ \A i \in 1 .. Len(ready) : i # 1 => i - 1 \in 1 .. Len(ready') /\ ready'[i - 1] = ready[i]
  BY TailShift
<1>2. \A j \in 1 .. Len(ready') : /\ j + 1 \in 1 .. Len(ready)
                                  /\ IsControl(j, c)' <=> IsControl(j + 1, c)
  BY <1>1 DEF IsControl
<1>3. CASE /\ \A i \in 1 .. Len(ready) : ~IsControl(i, c)
           /\ IF c = "slider" THEN Distance(shown[c], hw[c]) < MIN_SLICE ELSE shown[c] = hw[c]
  <2>1. ~IsControl(1, c)
    BY <1>1, <1>3
  <2>2. \A j \in 1 .. Len(ready') : ~IsControl(j, c)'
    BY <1>2, <1>3
  <2> QED BY <1>3, <2>1, <2>2 DEF DrawnLast
<1>4. CASE \E i \in 1 .. Len(ready) :
             /\ IsControl(i, c) /\ ready[i].what = hw[c]
             /\ \A j \in 1 .. Len(ready) : j > i => ~IsControl(j, c)
  <2>1. PICK i \in 1 .. Len(ready) :
               /\ IsControl(i, c) /\ ready[i].what = hw[c]
               /\ \A j \in 1 .. Len(ready) : j > i => ~IsControl(j, c)
    BY <1>4
  <2>2. CASE i = 1
    <3>1. \A j \in 1 .. Len(ready') : ~IsControl(j, c)'
      <4> TAKE j \in 1 .. Len(ready')
      <4>1. j + 1 > 1
        BY <1>1
      <4> QED BY <1>2, <2>1, <2>2, <4>1
    <3>2. shown'[c] = Drawn(c, hw[c]) /\ hw[c] \in Int /\ shown[c] \in Int
      BY <2>1, <2>2 DEF ControlInv
    <3>3. IF c = "slider" THEN Distance(shown'[c], hw[c]) < MIN_SLICE ELSE shown'[c] = hw[c]
      BY <3>2 DEF Drawn, Distance, MIN_SLICE
    <3> QED BY <3>1, <3>3 DEF DrawnLast
  <2>3. CASE i # 1
    <3>1. i - 1 \in 1 .. Len(ready') /\ ready'[i - 1] = ready[i]
      BY <1>1, <2>3
    <3>2. IsControl(i - 1, c)' /\ ready'[i - 1].what = hw'[c]
      BY <2>1, <3>1 DEF IsControl
    <3>3. ASSUME NEW j \in 1 .. Len(ready'), j > i - 1 PROVE ~IsControl(j, c)'
      <4>1. j + 1 > i
        BY <1>1, <3>3
      <4> QED BY <1>2, <2>1, <4>1
    <3> QED BY <3>1, <3>2, <3>3 DEF DrawnLast
  <2> QED BY <2>2, <2>3
<1> QED BY <1>3, <1>4 DEF DrawnLast

\* A text event joins the queue.
LEMMA ControlAppend ==
  ASSUME Shape, ControlInv, NEW e \in Events, e.kind = "text",
         ready' = ready \/ ready' = Append(ready, e), UNCHANGED <<hw, shown, spoilt>>,
         \A t \in Threads : /\ at'[t] = "show" <=> at[t] = "show"
                            /\ at[t] = "show" => job'[t] = job[t]
  PROVE  ControlInv'
<1>1. CASE ready' = ready
  BY <1>1, ControlFrame
<1>2. CASE ready' = Append(ready, e)
  <2>1. \A t \in Threads : \A c : /\ ShowingControl(t, c)' <=> ShowingControl(t, c)
                                  /\ ShowingControl(t, c) => job'[t] = job[t]
    BY DEF ShowingControl
  <2>2. \A c : DrawnLast(c) => DrawnLast(c)'
    BY <1>2, DrawnAppend
  <2>3. \A c : ControlFollows(c) => ControlFollows(c)'
    BY <2>1, <2>2 DEF ControlFollows
  <2> QED BY <2>3 DEF ControlInv
<1> QED BY <1>1, <1>2

\* A thread that returns from showing a text was not setting a control.
LEMMA ReturnControl ==
  ASSUME Shape, NEW t \in Threads, at[t] \in {"scan", "post"}, Return(t)
  PROVE  \A u \in Threads : /\ at'[u] = "show" <=> at[u] = "show"
                            /\ at[u] = "show" => job'[u] = job[u]
<1>1. at'[t] \in {"idle", "scan"} /\ \A u \in Threads \ {t} : at'[u] = at[u] /\ job'[u] = job[u]
  BY DEF Return, Shape
<1> QED BY <1>1

LEMMA SetControlFollows ==
  ASSUME Inv, ControlInv, NEW t \in Threads, NEW c \in Controls, NEW v \in Values(c),
         SetControl(t, c, v)
  PROVE  ControlInv'
<1> DEFINE j == [what |-> v, place |-> c, timed |-> FALSE]
<1>1. /\ at[t] = "idle" /\ at' = [at EXCEPT ![t] = "show"]
      /\ job' = [job EXCEPT ![t] = j] /\ hw' = [hw EXCEPT ![c] = v]
      /\ UNCHANGED <<ready, shown>>
  BY DEF SetControl
<1>2. v \in Int /\ j.what = v /\ j.place = c
  BY SliderAssumption DEF Values
<1> HIDE DEF j
<1>3. hw' \in [Controls -> Int] /\ hw'[c] = v /\ \A d \in Controls : d # c => hw'[d] = hw[d]
  BY <1>1, <1>2 DEF ControlInv
<1>4. /\ at'[t] = "show" /\ job'[t] = j
      /\ \A u \in Threads : u # t => at'[u] = at[u] /\ job'[u] = job[u]
  BY <1>1 DEF Inv, Shape
<1>5. /\ \A d : ShowingControl(t, d)' <=> d = c
      /\ \A d : ~ShowingControl(t, d)
      /\ \A u \in Threads : u # t => \A d : ShowingControl(u, d)' <=> ShowingControl(u, d)
  BY <1>1, <1>2, <1>4 DEF ShowingControl
<1>6. ASSUME c \notin spoilt' PROVE ControlFollows(c)'
  <2>1. \A u \in Threads : u # t => ~ShowingControl(u, c)
    BY <1>6 DEF SetControl, ShowingControl
  <2> QED BY <1>2, <1>3, <1>4, <1>5, <2>1 DEF ControlFollows
<1>7. ASSUME NEW d \in Controls, d # c, d \notin spoilt' PROVE ControlFollows(d)'
  <2>1. ControlFollows(d)
    BY <1>7 DEF SetControl, ControlInv
  <2>2. hw'[d] = hw[d]
    BY <1>3, <1>7
  <2>3. DrawnLast(d) => DrawnLast(d)'
    BY <1>1, <2>2 DEF DrawnLast, IsControl
  <2>4. \A u \in Threads : ShowingControl(u, d)' => u # t /\ ShowingControl(u, d) /\ job'[u] = job[u]
    BY <1>4, <1>5, <1>7
  <2>5. \A u \in Threads : ShowingControl(u, d) => ShowingControl(u, d)'
    BY <1>5, <1>7
  <2> QED BY <2>1, <2>2, <2>3, <2>4, <2>5 DEF ControlFollows
<1>8. shown' \in [Controls -> Int]
  BY <1>1 DEF ControlInv
<1> QED BY <1>3, <1>6, <1>7, <1>8 DEF ControlInv

LEMMA ShowControlFollows ==
  ASSUME Inv, ControlInv, NEW t \in Threads, ShowControl(t)
  PROVE  ControlInv'
<1>1. PICK c, e : c = job[t].place /\ e = ControlEvent(job[t].place, job[t].what)
  OBVIOUS
<1>2. /\ at[t] = "show" /\ at' = [at EXCEPT ![t] = "idle"] /\ job' = [job EXCEPT ![t] = NoJob]
      /\ UNCHANGED <<shown, hw>>
      /\ Full => ready' = ready /\ spoilt' = spoilt \cup {c}
      /\ ~Full => ready' = Append(ready, e) /\ spoilt' = spoilt
  BY <1>1 DEF ShowControl
<1>3. /\ e \in Events /\ e.kind = "control" /\ e.place = c /\ e.what = job[t].what
      /\ c \in Controls
  BY <1>1, <1>2 DEF Inv, Shape, Bounds, ControlEvent, Events
<1>4. /\ \A d : ~ShowingControl(t, d)'
      /\ ShowingControl(t, c) /\ \A d : d # c => ~ShowingControl(t, d)
      /\ \A u \in Threads : u # t => /\ job'[u] = job[u]
                                     /\ \A d : ShowingControl(u, d)' <=> ShowingControl(u, d)
  BY <1>1, <1>2 DEF Inv, Shape, ShowingControl
<1>5. ASSUME NEW d \in Controls, d # c, d \notin spoilt PROVE ControlFollows(d)'
  <2>1. ControlFollows(d)
    BY <1>5 DEF ControlInv
  <2>2. ASSUME DrawnLast(d) PROVE DrawnLast(d)'
    <3>1. CASE Full
      BY <1>2, <2>2, <3>1 DEF DrawnLast, IsControl
    <3>2. CASE ~Full
      BY <1>2, <1>3, <1>5, <2>2, <3>2, DrawnAppend DEF Inv
    <3> QED BY <3>1, <3>2
  <2>3. \A u \in Threads : /\ ShowingControl(u, d)' => ShowingControl(u, d) /\ job'[u] = job[u]
                           /\ ShowingControl(u, d) => ShowingControl(u, d)'
    BY <1>4, <1>5
  <2> QED BY <1>2, <2>1, <2>2, <2>3 DEF ControlFollows
<1>6. ASSUME c \notin spoilt, ~Full PROVE ControlFollows(c)'
  <2>1. job[t].what = hw[c] /\ \A u \in Threads : u # t => ~ShowingControl(u, c)
    BY <1>3, <1>4, <1>6 DEF ControlInv, ControlFollows
  <2>2. ASSUME NEW u \in Threads PROVE ~ShowingControl(u, c)'
    <3>1. CASE u = t
      BY <1>4, <3>1
    <3>2. CASE u # t
      BY <1>4, <2>1, <3>2
    <3> QED BY <3>1, <3>2
  <2>3. PICK n \in Nat : Len(ready') = n /\ n \in 1 .. Len(ready') /\ ready'[n] = e
    <3>1. /\ Len(ready') = Len(ready) + 1 /\ ready'[Len(ready) + 1] = e /\ Len(ready) \in Nat
      BY <1>2, <1>3, <1>6, AppendFacts DEF Inv, Shape
    <3> QED BY <3>1
  <2>4. IsControl(n, c)' /\ ready'[n].what = hw'[c]
    BY <1>2, <1>3, <2>1, <2>3 DEF IsControl
  <2>5. \A j \in 1 .. Len(ready') : ~(j > n)
    BY <2>3
  <2>6. DrawnLast(c)'
    BY <2>3, <2>4, <2>5 DEF DrawnLast
  <2> QED BY <2>2, <2>6 DEF ControlFollows
<1>7. ASSUME NEW d \in Controls \ spoilt' PROVE ControlFollows(d)'
  <2>1. CASE Full
    BY <1>2, <1>5, <2>1
  <2>2. CASE ~Full
    BY <1>2, <1>5, <1>6, <2>2
  <2> QED BY <2>1, <2>2
<1> QED BY <1>2, <1>7 DEF ControlInv

LEMMA DispatchFollows ==
  ASSUME Inv, ControlInv, DrawText \/ DrawControl
  PROVE  ControlInv'
<1>1. /\ ready # <<>> /\ ready' = Tail(ready) /\ UNCHANGED <<hw, at, job, spoilt>>
  BY DEF DrawText, DrawControl, writer
<1>2. Head(ready) = ready[1] /\ ready[1] \in Events
  BY <1>1, TailShift DEF Inv
<1>3. /\ shown' \in [Controls -> Int]
      /\ \A c \in Controls : /\ IsControl(1, c) => shown'[c] = Drawn(c, ready[1].what)
                             /\ ~IsControl(1, c) => shown'[c] = shown[c]
  <2>1. CASE DrawText
    <3>1. ready[1].kind = "text" /\ shown' = shown
      BY <1>2, <2>1 DEF DrawText
    <3> QED BY <3>1 DEF ControlInv, IsControl
  <2>2. CASE DrawControl
    <3>1. /\ ready[1].kind = "control"
          /\ shown' = [shown EXCEPT ![ready[1].place] = Drawn(ready[1].place, ready[1].what)]
      BY <1>2, <2>2 DEF DrawControl
    <3>2. ASSUME NEW c \in Controls
          PROVE  /\ shown'[c] = IF ready[1].place = c THEN Drawn(c, ready[1].what) ELSE shown[c]
                 /\ shown'[c] \in Int
      BY <1>2, <3>1 DEF ControlInv, Drawn, Events
    <3>3. shown' \in [Controls -> Int]
      BY <3>1, <3>2 DEF ControlInv
    <3> QED BY <3>1, <3>2, <3>3 DEF IsControl
  <2> QED BY <2>1, <2>2
<1>4. ASSUME NEW c \in Controls, DrawnLast(c) PROVE DrawnLast(c)'
  BY <1>1, <1>3, <1>4, DrawnTail DEF Inv
<1>5. ASSUME NEW c \in Controls \ spoilt PROVE ControlFollows(c)'
  <2>1. ControlFollows(c)
    BY DEF ControlInv
  <2>2. \A t \in Threads : (ShowingControl(t, c)' <=> ShowingControl(t, c)) /\ job'[t] = job[t]
    BY <1>1 DEF ShowingControl
  <2> QED BY <1>1, <1>4, <2>1, <2>2 DEF ControlFollows
<1> QED BY <1>1, <1>3, <1>5 DEF ControlInv

LEMMA ControlStep == Inv /\ ControlInv /\ [Next]_vars => ControlInv'
<1> SUFFICES ASSUME Inv, ControlInv, [Next]_vars PROVE ControlInv'
  OBVIOUS
<1>1. ASSUME NEW t \in Threads, NEW p \in Places, NEW timed \in BOOLEAN, Show(t, p, timed)
      PROVE  ControlInv'
  <2>1. \A u \in Threads : /\ at'[u] = "show" <=> at[u] = "show"
                           /\ at[u] = "show" => job'[u] = job[u]
    BY <1>1 DEF Show, Inv, Shape
  <2> QED BY <1>1, <2>1, ControlFrame DEF Show
<1>2. ASSUME NEW t \in Threads, NEW c \in Controls, NEW v \in Values(c), SetControl(t, c, v)
      PROVE  ControlInv'
  BY <1>2, SetControlFollows
<1>3. ASSUME NEW t \in Threads, TestSlot(t) \/ RunOn(t) \/ Fill(t) PROVE ControlInv'
  <2>1. \A u \in Threads : /\ at'[u] = "show" <=> at[u] = "show"
                           /\ at[u] = "show" => job'[u] = job[u]
    BY <1>3 DEF TestSlot, RunOn, Fill, Inv, Shape
  <2>2. UNCHANGED <<ready, shown, hw, spoilt>>
    BY <1>3 DEF TestSlot, RunOn, Fill
  <2> QED BY <2>1, <2>2, ControlFrame
<1>4. ASSUME NEW t \in Threads, Drop(t) PROVE ControlInv'
  BY <1>4, ReturnControl, ControlFrame DEF Drop, Inv
<1>5. ASSUME NEW t \in Threads, Post(t) PROVE ControlInv'
  <2> DEFINE e == TextEvent(slot[t], job[t].what, job[t].place)
  <2>1. e \in Events /\ e.kind = "text"
    BY <1>5 DEF Post, Inv, Shape, Bounds, TextEvent, Events
  <2>2. ready' = ready \/ ready' = Append(ready, e)
    BY <1>5 DEF Post
  <2>3. /\ at[t] = "post" /\ Return(t) /\ UNCHANGED <<hw, shown, spoilt>>
    BY <1>5 DEF Post
  <2> HIDE DEF e
  <2> QED BY <2>1, <2>2, <2>3, ReturnControl, ControlAppend DEF Inv
<1>6. ASSUME NEW t \in Threads, ShowControl(t) PROVE ControlInv'
  BY <1>6, ShowControlFollows
<1>7. ASSUME NEW e \in waiting, Due(e) PROVE ControlInv'
  <2>1. e \in Events /\ e.kind = "text"
    BY DEF Inv, Shape, Bounds
  <2>2. ready' = Append(ready, e) /\ UNCHANGED <<hw, shown, spoilt, at, job>>
    BY <1>7 DEF Due, writer
  <2> QED BY <2>1, <2>2, ControlAppend DEF Inv
<1>8. CASE FreeSlot \/ UNCHANGED vars
  <2>1. UNCHANGED <<ready, shown, hw, spoilt, at, job>>
    BY <1>8 DEF FreeSlot, vars, writer
  <2> QED BY <2>1, ControlFrame
<1>9. CASE DrawText \/ DrawControl
  BY <1>9, DispatchFollows
<1> QED BY <1>1, <1>2, <1>3, <1>4, <1>5, <1>6, <1>7, <1>8, <1>9 DEF Next, Call, Dispatch

\* Once everything on its way is drawn, the button is drawn as it is and the slider within
\* MIN_SLICE of its place (lcd_ui.cpp 288-341, hw.cpp 375-413), for any positions, any length
\* of the queue and any number of changes, unless the last changes came from two threads at
\* once or an event was refused.
THEOREM ControlsShown == Spec => []ControlShown
<1>1. ControlInv => ControlShown
  <2> SUFFICES ASSUME ControlInv, NEW c \in Controls \ spoilt
               PROVE  \/ \E i \in 1 .. Len(ready) : ready[i].kind = "control" /\ ready[i].place = c
                      \/ \E t \in Threads : at[t] = "show" /\ job[t].place = c
                      \/ IF c = "slider" THEN Distance(shown[c], hw[c]) < MIN_SLICE
                                         ELSE shown[c] = hw[c]
    BY DEF ControlShown
  <2>1. ControlFollows(c)
    BY DEF ControlInv
  <2> QED BY <2>1 DEF ControlFollows, ShowingControl, DrawnLast, IsControl
<1> QED BY <1>1, InvInit, InvStep, ControlInit, ControlStep, PTL DEF Spec

----------------------------------------------------------------------------
(* Timed messages *)

Active(t) == at[t] \in {"scan", "fill", "post"}

\* A message is known by its number, and only one thread has it in hand.
Numbered ==
  /\ closing \subseteq 1 .. count
  /\ \A i \in ReadyTexts : ready[i].what <= count
  /\ \A e \in waiting : e.what < 0
  /\ \A t \in Threads : Active(t) => - count <= job[t].what /\ job[t].what <= count
  /\ \A t, u \in Threads : t # u /\ Active(t) /\ Active(u) =>
       job[t].what # job[u].what /\ job[t].what # - job[u].what

\* A thread that is about to show message k has not shown it ...
NotYet(k) ==
  /\ k \notin closing
  /\ \A i \in ReadyTexts : ready[i].what # k
  /\ \A p \in Places : screen[p] # k

\* ... and one that is about to close it has shown it at its own place, if at all.
OnlyAt(k, at0) ==
  /\ k \notin closing
  /\ \A i \in ReadyTexts : ready[i].what = k => ready[i].place = at0
  /\ \A p \in Places : screen[p] = k => p = at0

\* The empty text of message k is on its way to p, in the queue behind i.
Behind(i, k, p) ==
  \/ \E e \in waiting : e.what = - k /\ e.place = p
  \/ \E j \in ReadyTexts : j > i /\ ready[j].what = - k /\ ready[j].place = p

Holds(t) ==
  IF job[t].what > 0 THEN NotYet(job[t].what) ELSE OnlyAt(- job[t].what, job[t].place)

InHand == \A t \in Threads : Active(t) => Holds(t)

TextClosed(i) == ready[i].what \in closing => Behind(i, ready[i].what, ready[i].place)

PlaceClosed(p) == screen[p] \in closing => Behind(0, screen[p], p)

Closed == (\A i \in ReadyTexts : TextClosed(i)) /\ (\A p \in Places : PlaceClosed(p))

TimedInv ==
  /\ screen \in [Places -> Int]
  /\ Numbered
  /\ ~raced => (\A p \in Places : screen[p] <= count) /\ InHand /\ Closed

LEMMA TextsAreInts ==
  ASSUME Inv
  PROVE  /\ \A i \in ReadyTexts : ready[i].what \in Int
         /\ \A e \in waiting : e.what \in Int
         /\ \A t \in Threads : job[t].what \in Int
         /\ count \in Nat
<1>1. \A i \in ReadyTexts : ready[i] \in Events
  BY DEF Inv, Shape, ReadyTexts
<1>2. \A e \in waiting : e \in Events
  BY DEF Inv, Shape
<1>3. \A t \in Threads : job[t].what \in Int
  BY DEF Inv, Shape
<1> QED BY <1>1, <1>2, <1>3 DEF Events, Inv, Shape

LEMMA TimedInit == Init => TimedInv
<1> SUFFICES ASSUME Init PROVE TimedInv
  OBVIOUS
<1>1. ReadyTexts = {}
  BY DEF Init, ControlEvent, ReadyTexts
<1>2. /\ closing = {} /\ waiting = {} /\ count = 0 /\ \A t \in Threads : ~Active(t)
      /\ screen \in [Places -> Int] /\ \A p \in Places : screen[p] = 0
  BY DEF Init, Active, Blank
<1> QED BY <1>1, <1>2 DEF TimedInv, Numbered, InHand, Closed, PlaceClosed

\* Where no text moves and no thread takes another one in hand.
LEMMA TimedFrame ==
  ASSUME Inv, Inv', TimedInv, UNCHANGED <<screen, closing, waiting>>, count' >= count, ~raced' => ~raced,
         ReadyTexts' = ReadyTexts, \A i \in ReadyTexts : ready'[i] = ready[i],
         \A t \in Threads : Active(t)' => Active(t) /\ job'[t] = job[t]
  PROVE  TimedInv'
<1>1. /\ count \in Nat /\ count' \in Nat
      /\ \A t \in Threads : job[t].what \in Int
      /\ \A i \in ReadyTexts : ready[i].what \in Int
  BY TextsAreInts DEF Inv, Shape
<1>2. Numbered'
  BY <1>1 DEF TimedInv, Numbered
<1>3. ASSUME ~raced PROVE InHand'
  BY <1>3 DEF TimedInv, InHand, Holds, NotYet, OnlyAt
<1>4. ASSUME ~raced PROVE Closed'
  <2>1. \A i, k, p : Behind(i, k, p)' <=> Behind(i, k, p)
    BY DEF Behind
  <2> QED BY <1>4, <2>1 DEF TimedInv, Closed, TextClosed, PlaceClosed
<1>5. ASSUME ~raced PROVE \A p \in Places : screen'[p] <= count'
  BY <1>1, <1>5 DEF TimedInv
<1>6. screen' \in [Places -> Int]
  BY DEF TimedInv
<1> QED BY <1>2, <1>3, <1>4, <1>5, <1>6 DEF TimedInv

\* A new message has a new number.
LEMMA ShowTimed ==
  ASSUME Inv, TimedInv, NEW t \in Threads, NEW p \in Places, NEW timed \in BOOLEAN, Show(t, p, timed)
  PROVE  TimedInv'
<1>1. /\ UNCHANGED <<ready, waiting, screen, closing, raced>> /\ count' = count + 1
      /\ Active(t)' /\ job'[t].what = count + 1
      /\ \A u \in Threads : u # t => (Active(u)' <=> Active(u)) /\ job'[u] = job[u]
  BY DEF Show, Inv, Shape, Active
<1>2. /\ count \in Nat /\ UNCHANGED ReadyTexts
      /\ \A u \in Threads : job[u].what \in Int
      /\ \A i \in ReadyTexts : ready[i].what \in Int
  BY <1>1, TextsAreInts DEF ReadyTexts
<1>3. Numbered'
  BY <1>1, <1>2 DEF TimedInv, Numbered
<1>4. ASSUME ~raced PROVE InHand'
  <2>1. \A i \in Places : screen[i] <= count /\ screen[i] \in Int
    BY <1>4 DEF TimedInv
  <2>2. NotYet(count + 1)
    BY <1>1, <1>2, <2>1 DEF TimedInv, Numbered, NotYet
  <2>3. \A k, q : (NotYet(k)' <=> NotYet(k)) /\ (OnlyAt(k, q)' <=> OnlyAt(k, q))
    BY <1>1, <1>2 DEF NotYet, OnlyAt
  <2>5. ASSUME NEW u \in Threads, Active(u)' PROVE Holds(u)'
    <3>1. CASE u = t
      BY <1>1, <1>2, <2>2, <2>3, <3>1 DEF Holds
    <3>2. CASE u # t
      BY <1>1, <1>4, <2>3, <2>5, <3>2 DEF TimedInv, InHand, Holds
    <3> QED BY <3>1, <3>2
  <2> QED BY <2>5 DEF InHand
<1>5. ASSUME ~raced PROVE Closed'
  BY <1>1, <1>2, <1>5 DEF TimedInv, Closed, TextClosed, PlaceClosed, Behind
<1>6. ASSUME ~raced PROVE \A q \in Places : screen'[q] <= count'
  BY <1>1, <1>2, <1>6 DEF TimedInv
<1> QED BY <1>1, <1>3, <1>4, <1>5, <1>6 DEF TimedInv

\* What becomes of the message a thread had in hand.
LEMMA ReturnHands ==
  ASSUME Inv, NEW t \in Threads, Active(t), Return(t)
  PROVE  /\ Active(t)' => /\ job[t].what > 0 /\ job'[t].what = - job[t].what
                          /\ job'[t].place = job[t].place
         /\ \A u \in Threads : u # t => (Active(u)' <=> Active(u)) /\ job'[u] = job[u]
<1>1. CASE job[t].timed /\ job[t].what > 0
  BY <1>1 DEF Return, Inv, Shape, Active
<1>2. CASE ~(job[t].timed /\ job[t].what > 0)
  BY <1>2 DEF Return, Inv, Shape, Active
<1> QED BY <1>1, <1>2

\* A thread returns, and the text it had in hand is dropped, because no buffer is free or
\* because no event is.
LEMMA DropTimed ==
  ASSUME Inv, TimedInv, NEW t \in Threads, Active(t), Return(t),
         UNCHANGED <<ready, waiting, screen, closing, count, raced>>
  PROVE  TimedInv'
<1>1. /\ Active(t)' => /\ job[t].what > 0 /\ job'[t].what = - job[t].what
                       /\ job'[t].place = job[t].place
      /\ \A u \in Threads : u # t => (Active(u)' <=> Active(u)) /\ job'[u] = job[u]
  BY ReturnHands
<1>2. count \in Nat /\ UNCHANGED ReadyTexts /\ \A u \in Threads : job[u].what \in Int
  BY DEF Inv, Shape, ReadyTexts
<1>3. Numbered'
  BY <1>1, <1>2 DEF TimedInv, Numbered
<1>4. ASSUME ~raced PROVE InHand'
  <2>1. \A k, q : (NotYet(k)' <=> NotYet(k)) /\ (OnlyAt(k, q)' <=> OnlyAt(k, q))
    BY <1>2 DEF NotYet, OnlyAt
  <2>2. ASSUME NEW u \in Threads, Active(u)' PROVE Holds(u)'
    <3>1. CASE u = t
      <4>1. NotYet(job[t].what) /\ job'[t].what = - job[t].what /\ job[t].what > 0
        BY <1>1, <1>4, <2>2, <3>1 DEF TimedInv, InHand, Holds
      <4>2. OnlyAt(job[t].what, job'[t].place)
        BY <4>1 DEF NotYet, OnlyAt
      <4>3. - job'[t].what = job[t].what /\ ~(job'[t].what > 0)
        BY <1>2, <4>1
      <4> QED BY <2>1, <3>1, <4>2, <4>3 DEF Holds
    <3>2. CASE u # t
      BY <1>1, <1>4, <2>1, <2>2, <3>2 DEF TimedInv, InHand, Holds
    <3> QED BY <3>1, <3>2
  <2> QED BY <2>2 DEF InHand
<1>5. ASSUME ~raced PROVE Closed'
  BY <1>2, <1>5 DEF TimedInv, Closed, TextClosed, PlaceClosed, Behind
<1> QED BY <1>3, <1>4, <1>5 DEF TimedInv

\* A text joins the queue, at its end.
LEMMA TextJoins ==
  ASSUME Inv, NEW e \in Events, e.kind = "text", ready' = Append(ready, e)
  PROVE  \E n \in Nat \ {0} :
           /\ ReadyTexts' = ReadyTexts \cup {n} /\ ready'[n] = e
           /\ \A i \in ReadyTexts : i < n /\ i \in Nat \ {0} /\ ready'[i] = ready[i]
<1>1. /\ Len(ready') = Len(ready) + 1 /\ Len(ready) \in Nat
      /\ ready'[Len(ready) + 1] = e
      /\ \A i \in 1 .. Len(ready) : ready'[i] = ready[i]
  BY AppendFacts DEF Inv, Shape
<1>2. PICK n \in Nat : n = Len(ready) + 1
  BY <1>1
<1>3. \A i : i \in 1 .. Len(ready') <=> i \in 1 .. Len(ready) \/ i = n
  BY <1>1, <1>2
<1>4. ReadyTexts' = ReadyTexts \cup {n}
  BY <1>1, <1>2, <1>3 DEF ReadyTexts
<1>5. \A i \in ReadyTexts : i < n /\ i \in Nat \ {0} /\ ready'[i] = ready[i]
  BY <1>1, <1>2 DEF ReadyTexts
<1> QED BY <1>1, <1>2, <1>4, <1>5

\* The text of a message gets its event, and the thread may go on to close it.
LEMMA PostTextTimed ==
  ASSUME Inv, TimedInv, NEW t \in Threads, Active(t), Return(t), job[t].what > 0,
         NEW e \in Events, e.kind = "text", e.what = job[t].what, e.place = job[t].place,
         ready' = Append(ready, e),
         UNCHANGED <<waiting, screen, closing, count, raced>>
  PROVE  TimedInv'
<1>1. /\ Active(t)' => /\ job[t].what > 0 /\ job'[t].what = - job[t].what
                       /\ job'[t].place = job[t].place
      /\ \A u \in Threads : u # t => (Active(u)' <=> Active(u)) /\ job'[u] = job[u]
  BY ReturnHands
<1>2. PICK n \in Nat \ {0} :
        /\ ReadyTexts' = ReadyTexts \cup {n} /\ ready'[n] = e
        /\ \A i \in ReadyTexts : i < n /\ i \in Nat \ {0} /\ ready'[i] = ready[i]
  BY TextJoins
<1>3. PICK k \in Int : k = job[t].what
  BY TextsAreInts
<1>4. /\ count \in Nat
      /\ \A u \in Threads : job[u].what \in Int
      /\ \A i \in ReadyTexts : ready[i].what \in Int
  BY TextsAreInts
<1>5. Numbered'
  <2>1. e.what <= count /\ e.what \in Int
    BY <1>4 DEF TimedInv, Numbered, Active
  <2>2. \A i \in ReadyTexts' : ready'[i].what <= count'
    BY <1>2, <2>1 DEF TimedInv, Numbered
  <2>3. \A u \in Threads : Active(u)' => - count' <= job'[u].what /\ job'[u].what <= count'
    BY <1>1, <1>4 DEF TimedInv, Numbered
  <2>4. ASSUME NEW u \in Threads, NEW v \in Threads, u # v, Active(u)', Active(v)'
        PROVE  job'[u].what # job'[v].what /\ job'[u].what # - job'[v].what
    <3>1. job[u].what # job[v].what /\ job[u].what # - job[v].what
      BY <1>1, <2>4 DEF TimedInv, Numbered
    <3>2. /\ job'[u].what = job[u].what \/ job'[u].what = - job[u].what
          /\ job'[v].what = job[v].what \/ job'[v].what = - job[v].what
      BY <1>1, <2>4
    <3> QED BY <1>4, <3>1, <3>2
  <2> QED BY <2>2, <2>3, <2>4 DEF TimedInv, Numbered
<1>6. ASSUME ~raced PROVE NotYet(k)
  BY <1>3, <1>6 DEF TimedInv, InHand, Holds
<1>7. ASSUME ~raced PROVE InHand'
  <2>1. OnlyAt(k, e.place)'
    BY <1>2, <1>6, <1>7 DEF NotYet, OnlyAt
  <2>2. \A m, q : m # k => (NotYet(m) => NotYet(m)') /\ (OnlyAt(m, q) => OnlyAt(m, q)')
    BY <1>2, <1>3 DEF NotYet, OnlyAt
  <2>3. ASSUME NEW u \in Threads, Active(u)' PROVE Holds(u)'
    <3>1. CASE u = t
      <4>1. - job'[t].what = k /\ ~(job'[t].what > 0) /\ job'[t].place = e.place
        BY <1>1, <1>3, <2>3, <3>1
      <4> QED BY <2>1, <3>1, <4>1 DEF Holds
    <3>2. CASE u # t
      <4>1. Active(u) /\ job'[u] = job[u] /\ job[u].what # k /\ - job[u].what # k
        BY <1>1, <1>3, <1>4, <2>3, <3>2 DEF TimedInv, Numbered
      <4>2. Holds(u)
        BY <1>7, <4>1 DEF TimedInv, InHand
      <4> QED BY <2>2, <4>1, <4>2 DEF Holds
    <3> QED BY <3>1, <3>2
  <2> QED BY <2>3 DEF InHand
<1>8. ASSUME ~raced PROVE Closed'
  <2>1. k \notin closing
    BY <1>6, <1>8 DEF NotYet
  <2>2. \A i \in Nat : \A m, p : Behind(i, m, p) => Behind(i, m, p)'
    BY <1>2 DEF Behind
  <2> QED BY <1>2, <1>3, <1>8, <2>1, <2>2 DEF TimedInv, Closed, TextClosed, PlaceClosed
<1> QED BY <1>5, <1>7, <1>8 DEF TimedInv

\* The empty text of a message gets its event, whose delay begins.
LEMMA PostEmptyTimed ==
  ASSUME Inv, TimedInv, NEW t \in Threads, Active(t), Return(t), job[t].what < 0,
         NEW e \in Events, e.what = job[t].what, e.place = job[t].place,
         waiting' = waiting \cup {e}, closing' = closing \cup {- e.what},
         UNCHANGED <<ready, screen, count, raced>>
  PROVE  TimedInv'
<1>1. PICK k \in Int : k = - job[t].what
  BY TextsAreInts
<1>2. /\ count \in Nat /\ UNCHANGED ReadyTexts
      /\ \A u \in Threads : job[u].what \in Int
  BY TextsAreInts DEF ReadyTexts
<1>3. k > 0 /\ k <= count /\ closing' = closing \cup {k} /\ e.what = - k
  BY <1>1, <1>2 DEF TimedInv, Numbered
<1>4. /\ ~Active(t)'
      /\ \A u \in Threads : u # t => (Active(u)' <=> Active(u)) /\ job'[u] = job[u]
  BY <1>2, ReturnHands
<1>5. Numbered'
  BY <1>2, <1>3, <1>4 DEF TimedInv, Numbered
<1>6. ASSUME ~raced PROVE OnlyAt(k, e.place)
  BY <1>1, <1>2, <1>6 DEF TimedInv, InHand, Holds
<1>7. ASSUME ~raced PROVE InHand'
  <2>1. \A m, q : m # k => (NotYet(m) => NotYet(m)') /\ (OnlyAt(m, q) => OnlyAt(m, q)')
    BY <1>2, <1>3 DEF NotYet, OnlyAt
  <2>2. ASSUME NEW u \in Threads, Active(u)' PROVE Holds(u)'
    <3>1. Active(u) /\ job'[u] = job[u] /\ job[u].what # k /\ - job[u].what # k
      BY <1>1, <1>2, <1>4, <2>2 DEF TimedInv, Numbered
    <3>2. Holds(u)
      BY <1>7, <3>1 DEF TimedInv, InHand
    <3> QED BY <2>1, <3>1, <3>2 DEF Holds
  <2> QED BY <2>2 DEF InHand
<1>8. ASSUME ~raced PROVE Closed'
  <2>1. \A i, m, p : Behind(i, m, p) => Behind(i, m, p)'
    BY <1>2 DEF Behind
  <2>2. \A i : Behind(i, k, e.place)'
    BY <1>3 DEF Behind
  <2>3. ASSUME NEW i \in ReadyTexts', ready'[i].what \in closing'
        PROVE  TextClosed(i)'
    <3>1. CASE ready[i].what = k
      BY <1>2, <1>6, <1>8, <2>2, <3>1 DEF OnlyAt, TextClosed, PlaceClosed
    <3>2. CASE ready[i].what # k
      BY <1>2, <1>3, <1>8, <2>1, <2>3, <3>2 DEF TimedInv, Closed, TextClosed, PlaceClosed
    <3> QED BY <3>1, <3>2
  <2>4. ASSUME NEW p \in Places, screen'[p] \in closing' PROVE PlaceClosed(p)'
    <3>1. CASE screen[p] = k
      BY <1>6, <1>8, <2>2, <3>1 DEF OnlyAt, TextClosed, PlaceClosed
    <3>2. CASE screen[p] # k
      BY <1>3, <1>8, <2>1, <2>4, <3>2 DEF TimedInv, Closed, TextClosed, PlaceClosed
    <3> QED BY <3>1, <3>2
  <2> QED BY <2>3, <2>4 DEF Closed, TextClosed, PlaceClosed
<1> QED BY <1>5, <1>7, <1>8 DEF TimedInv

LEMMA PostTimed ==
  ASSUME Inv, TimedInv, NEW t \in Threads, Post(t)
  PROVE  TimedInv'
<1>1. PICK e : e = TextEvent(slot[t], job[t].what, job[t].place)
  OBVIOUS
<1>2. Active(t) /\ Return(t) /\ UNCHANGED <<screen, count, raced>>
  BY DEF Post, Active
<1>3. /\ e \in Events /\ e.kind = "text" /\ e.what = job[t].what /\ e.place = job[t].place
      /\ e.what \in Int /\ e.what # 0
  BY <1>1 DEF Post, Inv, Shape, Bounds, TextEvent, Events
<1>4. CASE Full
  BY <1>2, <1>4, DropTimed DEF Post
<1>5. CASE ~Full /\ e.what > 0
  <2>1. ready' = Append(ready, e) /\ waiting' = waiting /\ closing' = closing
    BY <1>1, <1>3, <1>5 DEF Post
  <2> QED BY <1>2, <1>3, <1>5, <2>1, PostTextTimed
<1>6. CASE ~Full /\ e.what < 0
  <2>1. ready' = ready /\ waiting' = waiting \cup {e} /\ closing' = closing \cup {- e.what}
    BY <1>1, <1>3, <1>6 DEF Post
  <2> QED BY <1>2, <1>3, <1>6, <2>1, PostEmptyTimed
<1> QED BY <1>3, <1>4, <1>5, <1>6

\* A delay is over: the empty text comes behind everything that is in the queue.
LEMMA DueTimed ==
  ASSUME Inv, TimedInv, NEW e \in waiting, Due(e)
  PROVE  TimedInv'
<1>1. /\ ready' = Append(ready, e) /\ waiting' = waiting \ {e}
      /\ UNCHANGED <<screen, closing, count, raced, at, job>>
  BY DEF Due, writer
<1>2. e \in Events /\ e.kind = "text" /\ e.what \in Int /\ e.what < 0
  BY TextsAreInts DEF Inv, Shape, Bounds, TimedInv, Numbered
<1>3. PICK n \in Nat \ {0} :
        /\ ReadyTexts' = ReadyTexts \cup {n} /\ ready'[n] = e
        /\ \A i \in ReadyTexts : i < n /\ i \in Nat \ {0} /\ ready'[i] = ready[i]
  BY <1>1, <1>2, TextJoins
<1>4. /\ count \in Nat
      /\ \A u \in Threads : job[u].what \in Int
      /\ \A i \in ReadyTexts : ready[i].what \in Int
      /\ \A u \in Threads : (Active(u)' <=> Active(u)) /\ job'[u] = job[u]
  BY <1>1, TextsAreInts DEF Active
<1>5. Numbered'
  <2>1. ASSUME NEW i \in ReadyTexts' PROVE ready'[i].what <= count'
    <3>1. CASE i = n
      <4>1. ready'[i] = e /\ count' = count
        BY <1>1, <1>3, <3>1
      <4> QED BY <1>2, <1>4, <4>1
    <3>2. CASE i # n
      BY <1>1, <1>3, <2>1, <3>2 DEF TimedInv, Numbered
    <3> QED BY <3>1, <3>2
  <2>2. closing' \subseteq 1 .. count' /\ \A f \in waiting' : f.what < 0
    BY <1>1 DEF TimedInv, Numbered
  <2> QED BY <1>1, <1>4, <2>1, <2>2 DEF TimedInv, Numbered
<1>6. ASSUME ~raced PROVE InHand'
  <2>1. ASSUME NEW m \in Int, NEW q, m >= 0
        PROVE  (NotYet(m) => NotYet(m)') /\ (OnlyAt(m, q) => OnlyAt(m, q)')
    <3>1. \A i \in ReadyTexts' : ready'[i].what = m => i \in ReadyTexts /\ ready'[i] = ready[i]
      BY <1>2, <1>3, <2>1
    <3> QED BY <1>1, <3>1 DEF NotYet, OnlyAt
  <2>2. ASSUME NEW u \in Threads, Active(u)' PROVE Holds(u)'
    <3>1. Holds(u) /\ job[u].what \in Int /\ job'[u] = job[u]
      BY <1>4, <1>6, <2>2 DEF TimedInv, InHand
    <3>2. CASE job[u].what > 0
      BY <2>1, <3>1, <3>2 DEF Holds
    <3>3. CASE ~(job[u].what > 0)
      <4>1. - job[u].what \in Int /\ - job[u].what >= 0
        BY <1>4, <3>3
      <4> QED BY <2>1, <3>1, <3>3, <4>1 DEF Holds
    <3> QED BY <3>2, <3>3
  <2> QED BY <2>2 DEF InHand
<1>7. ASSUME ~raced PROVE Closed'
  <2>1. ASSUME NEW i \in Nat, i < n, NEW m, NEW p, Behind(i, m, p) PROVE Behind(i, m, p)'
    <3>1. CASE e.what = - m /\ e.place = p
      BY <1>3, <2>1, <3>1 DEF Behind
    <3>2. CASE ~(e.what = - m /\ e.place = p)
      BY <1>1, <1>3, <2>1, <3>2 DEF Behind
    <3> QED BY <3>1, <3>2
  <2>2. ASSUME NEW i \in ReadyTexts', ready'[i].what \in closing'
        PROVE  TextClosed(i)'
    <3>1. i # n
      <4>1. \A k \in closing : k > 0
        BY <1>4 DEF TimedInv, Numbered
      <4>2. ~(e.what > 0) /\ ready'[n] = e /\ closing' = closing
        BY <1>1, <1>2, <1>3
      <4> QED BY <2>2, <4>1, <4>2
    <3>2. i \in ReadyTexts /\ i \in Nat /\ i < n /\ ready'[i] = ready[i]
      BY <1>3, <3>1
    <3>3. Behind(i, ready[i].what, ready[i].place)
      BY <1>1, <1>7, <2>2, <3>2 DEF TimedInv, Closed, TextClosed, PlaceClosed
    <3> QED BY <2>1, <3>2, <3>3 DEF TextClosed
  <2>3. ASSUME NEW p \in Places, screen'[p] \in closing' PROVE PlaceClosed(p)'
    <3>1. Behind(0, screen[p], p) /\ 0 < n
      BY <1>1, <1>7, <2>3 DEF TimedInv, Closed, TextClosed, PlaceClosed
    <3> QED BY <1>1, <2>1, <3>1 DEF PlaceClosed
  <2> QED BY <2>2, <2>3 DEF Closed, TextClosed, PlaceClosed
<1> QED BY <1>1, <1>5, <1>6, <1>7 DEF TimedInv

\* Taking the first event leaves the texts behind it in order.
LEMMA TextsShift ==
  ASSUME Inv, ready # <<>>, ready' = Tail(ready)
  PROVE  /\ \A i \in ReadyTexts' : i + 1 \in ReadyTexts /\ ready'[i] = ready[i + 1] /\ i \in Nat
         /\ \A i \in ReadyTexts : i \in Nat \ {0}
         /\ \A i \in ReadyTexts : i # 1 => i - 1 \in ReadyTexts' /\ ready'[i - 1] = ready[i]
<1>1. /\ Len(ready) \in Nat \ {0} /\ Len(ready') = Len(ready) - 1
      /\ \A i \in 1 .. Len(ready') : i + 1 \in 1 .. Len(ready) /\ ready'[i] = ready[i + 1]
      /\ \A i \in 1 .. Len(ready) : i # 1 => i - 1 \in 1 .. Len(ready') /\ ready'[i - 1] = ready[i]
  BY TailShift DEF Inv
<1>2. ASSUME NEW i \in ReadyTexts' PROVE i + 1 \in ReadyTexts /\ ready'[i] = ready[i + 1] /\ i \in Nat
  BY <1>1, <1>2 DEF ReadyTexts
<1>3. ASSUME NEW i \in ReadyTexts, i # 1
      PROVE  i - 1 \in ReadyTexts' /\ ready'[i - 1] = ready[i]
  BY <1>1, <1>3 DEF ReadyTexts
<1>4. \A i \in ReadyTexts : i \in Nat \ {0}
  BY <1>1 DEF ReadyTexts
<1> QED BY <1>2, <1>3, <1>4

\* The empty text that was behind i still is, unless it was the first event.
LEMMA BehindShift ==
  ASSUME Inv, ready # <<>>, ready' = Tail(ready), UNCHANGED waiting,
         NEW i \in Nat, NEW k, NEW p, Behind(i + 1, k, p)
  PROVE  Behind(i, k, p)'
<1>1. /\ \A j \in ReadyTexts : j \in Nat
      /\ \A j \in ReadyTexts : j # 1 => j - 1 \in ReadyTexts' /\ ready'[j - 1] = ready[j]
  BY TextsShift
<1>2. CASE \E e \in waiting : e.what = - k /\ e.place = p
  BY <1>2 DEF Behind
<1>3. CASE \E j \in ReadyTexts : j > i + 1 /\ ready[j].what = - k /\ ready[j].place = p
  <2>1. PICK j \in ReadyTexts : j > i + 1 /\ ready[j].what = - k /\ ready[j].place = p
    BY <1>3
  <2>2. j - 1 \in ReadyTexts' /\ ready'[j - 1] = ready[j] /\ j \in Nat
    <3>1. j \in Nat
      BY <1>1
    <3>2. j # 1
      BY <2>1, <3>1
    <3> QED BY <1>1, <3>1, <3>2
  <2>3. j - 1 > i
    BY <2>1, <2>2
  <2> QED BY <2>1, <2>2, <2>3 DEF Behind
<1> QED BY <1>2, <1>3 DEF Behind

\* The text that was posted is the one that is drawn, and what closes it is still behind it.
LEMMA DrawTextTimed ==
  ASSUME Inv, TimedInv, DrawText
  PROVE  TimedInv'
<1>1. PICK e, x : e = ready[1] /\ x = textbuffer[e.slot]
  OBVIOUS
<1>2. /\ ready # <<>> /\ ready' = Tail(ready) /\ 1 \in ReadyTexts /\ e \in Events
      /\ screen' = [screen EXCEPT ![e.place] = x]
      /\ UNCHANGED <<waiting, closing, count, raced, at, job>>
  <2>1. ready # <<>> /\ ready' = Tail(ready) /\ Head(ready).kind = "text"
    BY DEF DrawText
  <2>2. Head(ready) = e /\ e \in Events /\ Len(ready) \in Nat \ {0}
    BY <1>1, <2>1, TailShift DEF Inv
  <2>3. 1 \in ReadyTexts
    BY <1>1, <2>1, <2>2 DEF ReadyTexts
  <2>4. /\ screen' = [screen EXCEPT ![e.place] = x]
        /\ UNCHANGED <<waiting, closing, count, raced, at, job>>
    BY <1>1, <2>2 DEF DrawText, writer
  <2> QED BY <2>1, <2>2, <2>3, <2>4
<1>3. x \in Int /\ (~raced => x = e.what)
  BY <1>1, <1>2 DEF Inv, Shape, Bounds, Holders
<1>4. /\ screen' \in [Places -> Int]
      /\ \A p \in Places : screen'[p] = IF p = e.place THEN x ELSE screen[p]
  BY <1>2, <1>3 DEF TimedInv
<1>5. /\ \A i \in ReadyTexts' : i + 1 \in ReadyTexts /\ ready'[i] = ready[i + 1] /\ i \in Nat
      /\ \A i \in ReadyTexts : i # 1 => i - 1 \in ReadyTexts' /\ ready'[i - 1] = ready[i]
  BY <1>2, TextsShift
<1>6. Numbered'
  <2>1. \A i \in ReadyTexts' : ready'[i].what <= count'
    BY <1>2, <1>5 DEF TimedInv, Numbered
  <2> QED BY <1>2, <2>1 DEF TimedInv, Numbered, Active
<1>7. ASSUME ~raced PROVE \A p \in Places : screen'[p] <= count'
  BY <1>1, <1>2, <1>3, <1>4, <1>7 DEF TimedInv, Numbered
<1>8. ASSUME ~raced PROVE InHand'
  <2>1. ready[1] = e /\ 1 \in ReadyTexts /\ x = e.what /\ closing' = closing
    BY <1>1, <1>2, <1>3, <1>8
  <2>2. ASSUME NEW m, NotYet(m) PROVE NotYet(m)'
    <3>1. \A p \in Places : screen'[p] # m
      BY <1>4, <2>1, <2>2 DEF NotYet
    <3>2. \A i \in ReadyTexts' : ready'[i].what # m
      BY <1>5, <2>2 DEF NotYet
    <3> QED BY <2>1, <2>2, <3>1, <3>2 DEF NotYet
  <2>3. ASSUME NEW m, NEW q, OnlyAt(m, q) PROVE OnlyAt(m, q)'
    <3>1. \A p \in Places : screen'[p] = m => p = q
      BY <1>4, <2>1, <2>3 DEF OnlyAt
    <3>2. \A i \in ReadyTexts' : ready'[i].what = m => ready'[i].place = q
      BY <1>5, <2>3 DEF OnlyAt
    <3> QED BY <2>1, <2>3, <3>1, <3>2 DEF OnlyAt
  <2> QED BY <1>2, <1>8, <2>2, <2>3 DEF TimedInv, InHand, Holds, Active
<1>9. ASSUME ~raced PROVE Closed'
  <2>1. ASSUME NEW i \in ReadyTexts', ready'[i].what \in closing' PROVE TextClosed(i)'
    <3>1. i + 1 \in ReadyTexts /\ ready'[i] = ready[i + 1] /\ i \in Nat
      BY <1>5
    <3>2. Behind(i + 1, ready[i + 1].what, ready[i + 1].place)
      BY <1>2, <1>9, <2>1, <3>1 DEF TimedInv, Closed, TextClosed
    <3>3. PICK k, p : k = ready[i + 1].what /\ p = ready[i + 1].place
      OBVIOUS
    <3>4. Behind(i, k, p)'
      BY <1>2, <3>1, <3>2, <3>3, BehindShift
    <3> QED BY <3>1, <3>3, <3>4 DEF TextClosed
  <2>2. ASSUME NEW p \in Places, screen'[p] \in closing' PROVE PlaceClosed(p)'
    <3>1. PICK k : k = screen'[p]
      OBVIOUS
    <3>2. Behind(1, k, p)
      <4>1. CASE p = e.place
        <5>1. k = e.what
          BY <1>3, <1>4, <1>9, <3>1, <4>1
        <5> QED BY <1>1, <1>2, <1>9, <2>2, <3>1, <4>1, <5>1 DEF TimedInv, Closed, TextClosed
      <4>2. CASE p # e.place
        <5>1. Behind(0, k, p) /\ k = screen[p]
          BY <1>2, <1>4, <1>9, <2>2, <3>1, <4>2 DEF TimedInv, Closed, PlaceClosed
        <5>2. \A j \in ReadyTexts : ready[j].place = p => j # 1 /\ j \in Nat \ {0}
          BY <1>1, <4>2 DEF ReadyTexts
        <5> QED BY <5>1, <5>2 DEF Behind
      <4> QED BY <4>1, <4>2
    <3>3. 0 + 1 = 1 /\ 0 \in Nat
      OBVIOUS
    <3>4. Behind(0, k, p)'
      BY <1>2, <3>2, <3>3, BehindShift
    <3> QED BY <3>1, <3>4 DEF PlaceClosed
  <2> QED BY <2>1, <2>2 DEF Closed, TextClosed, PlaceClosed
<1> QED BY <1>2, <1>4, <1>6, <1>7, <1>8, <1>9 DEF TimedInv

\* A control is drawn, and no text changes.
LEMMA DrawControlTimed ==
  ASSUME Inv, TimedInv, DrawControl
  PROVE  TimedInv'
<1>1. /\ ready # <<>> /\ ready' = Tail(ready) /\ 1 \notin ReadyTexts
      /\ UNCHANGED <<screen, waiting, closing, count, raced, at, job>>
  <2>1. Head(ready) = ready[1]
    BY TailShift DEF DrawControl, Inv
  <2> QED BY <2>1 DEF DrawControl, ReadyTexts, writer
<1>2. /\ \A i \in ReadyTexts' : i + 1 \in ReadyTexts /\ ready'[i] = ready[i + 1] /\ i \in Nat
      /\ \A i \in ReadyTexts : i \in Nat \ {0}
  <2>1. \A i \in ReadyTexts : i \in Nat \ {0}
    BY DEF ReadyTexts
  <2> QED BY <1>1, <2>1, TextsShift
<1>3. Numbered'
  <2>1. \A i \in ReadyTexts' : ready'[i].what <= count'
    BY <1>1, <1>2 DEF TimedInv, Numbered
  <2> QED BY <1>1, <2>1 DEF TimedInv, Numbered, Active
<1>4. ASSUME ~raced PROVE InHand'
  <2>1. \A m, q : (NotYet(m) => NotYet(m)') /\ (OnlyAt(m, q) => OnlyAt(m, q)')
    BY <1>1, <1>2 DEF NotYet, OnlyAt
  <2> QED BY <1>1, <1>4, <2>1 DEF TimedInv, InHand, Holds, Active
<1>5. ASSUME ~raced PROVE Closed'
  <2>1. ASSUME NEW i \in ReadyTexts', ready'[i].what \in closing' PROVE TextClosed(i)'
    <3>1. i + 1 \in ReadyTexts /\ ready'[i] = ready[i + 1] /\ i \in Nat
      BY <1>2
    <3>2. Behind(i + 1, ready[i + 1].what, ready[i + 1].place)
      BY <1>1, <1>5, <2>1, <3>1 DEF TimedInv, Closed, TextClosed
    <3>3. PICK k, p : k = ready[i + 1].what /\ p = ready[i + 1].place
      OBVIOUS
    <3>4. Behind(i, k, p)'
      BY <1>1, <3>1, <3>2, <3>3, BehindShift
    <3> QED BY <3>1, <3>3, <3>4 DEF TextClosed
  <2>2. ASSUME NEW p \in Places, screen'[p] \in closing' PROVE PlaceClosed(p)'
    <3>1. PICK k : k = screen[p]
      OBVIOUS
    <3>2. Behind(0, k, p)
      BY <1>1, <1>5, <2>2, <3>1 DEF TimedInv, Closed, PlaceClosed
    <3>3. \A j \in ReadyTexts : j > 1
      BY <1>1, <1>2
    <3>4. Behind(1, k, p)
      BY <3>2, <3>3 DEF Behind
    <3>5. 0 + 1 = 1 /\ 0 \in Nat
      OBVIOUS
    <3>6. Behind(0, k, p)'
      BY <1>1, <3>4, <3>5, BehindShift
    <3> QED BY <1>1, <3>1, <3>6 DEF PlaceClosed
  <2> QED BY <2>1, <2>2 DEF Closed, TextClosed, PlaceClosed
<1> QED BY <1>1, <1>3, <1>4, <1>5 DEF TimedInv

\* An event for a control is no text.
LEMMA ShowControlTimed ==
  ASSUME Inv, Inv', TimedInv, NEW t \in Threads, ShowControl(t)
  PROVE  TimedInv'
<1>1. PICK e : e = ControlEvent(job[t].place, job[t].what)
  OBVIOUS
<1>2. /\ at[t] = "show" /\ at' = [at EXCEPT ![t] = "idle"] /\ job' = [job EXCEPT ![t] = NoJob]
      /\ UNCHANGED <<screen, waiting, closing, count, raced>>
      /\ ready' = ready \/ ready' = Append(ready, e)
  BY <1>1 DEF ShowControl
<1>3. e \in Events /\ e.kind = "control"
  BY <1>1, <1>2 DEF Inv, Shape, Bounds, ControlEvent, Events
<1>4. \A u \in Threads : Active(u)' => Active(u) /\ job'[u] = job[u]
  BY <1>2 DEF Inv, Shape, Active
<1>5. ReadyTexts' = ReadyTexts /\ \A i \in ReadyTexts : ready'[i] = ready[i]
  <2>1. CASE ready' = ready
    BY <2>1 DEF ReadyTexts
  <2>2. CASE ready' = Append(ready, e)
    <3>1. /\ Len(ready') = Len(ready) + 1 /\ Len(ready) \in Nat
          /\ ready'[Len(ready) + 1] = e
          /\ \A i \in 1 .. Len(ready) : ready'[i] = ready[i]
      BY <1>3, <2>2, AppendFacts DEF Inv, Shape
    <3> QED BY <1>3, <3>1 DEF ReadyTexts
  <2> QED BY <1>2, <2>1, <2>2
<1>6. count' >= count
  BY <1>2 DEF Inv, Shape
<1> QED BY <1>2, <1>4, <1>5, <1>6, TimedFrame

LEMMA TimedStep == Inv /\ Inv' /\ TimedInv /\ [Next]_vars => TimedInv'
<1> SUFFICES ASSUME Inv, Inv', TimedInv, [Next]_vars PROVE TimedInv'
  OBVIOUS
<1>1. ASSUME NEW t \in Threads, NEW p \in Places, NEW timed \in BOOLEAN, Show(t, p, timed)
      PROVE  TimedInv'
  BY <1>1, ShowTimed
<1>2. ASSUME NEW t \in Threads, NEW c \in Controls, NEW v \in Values(c), SetControl(t, c, v)
      PROVE  TimedInv'
  <2>1. /\ UNCHANGED <<ready, screen, closing, waiting, raced>> /\ count' >= count
        /\ \A u \in Threads : Active(u)' => Active(u) /\ job'[u] = job[u]
    BY <1>2 DEF SetControl, Inv, Shape, Active
  <2> QED BY <2>1, TimedFrame DEF ReadyTexts
<1>3. ASSUME NEW t \in Threads, TestSlot(t) \/ RunOn(t) \/ Fill(t) PROVE TimedInv'
  <2>1. UNCHANGED <<ready, screen, closing, waiting, count, job>>
    BY <1>3 DEF TestSlot, RunOn, Fill
  <2>2. ~raced' => ~raced
    BY <1>3, Zenon DEF TestSlot, RunOn, Fill
  <2>3. \A u \in Threads : Active(u)' => Active(u)
    BY <1>3 DEF TestSlot, RunOn, Fill, Inv, Shape, Active
  <2>4. count' >= count
    BY <2>1 DEF Inv, Shape
  <2> QED BY <2>1, <2>2, <2>3, <2>4, TimedFrame DEF ReadyTexts
<1>4. ASSUME NEW t \in Threads, Drop(t) PROVE TimedInv'
  BY <1>4, DropTimed DEF Drop, Active
<1>5. ASSUME NEW t \in Threads, Post(t) PROVE TimedInv'
  BY <1>5, PostTimed
<1>6. ASSUME NEW t \in Threads, ShowControl(t) PROVE TimedInv'
  BY <1>6, ShowControlTimed
<1>7. ASSUME NEW e \in waiting, Due(e) PROVE TimedInv'
  BY <1>7, DueTimed
<1>8. CASE FreeSlot \/ UNCHANGED vars
  <2>1. UNCHANGED <<ready, screen, closing, waiting, count, raced, at, job>>
    BY <1>8 DEF FreeSlot, vars, writer
  <2>2. count' >= count
    BY <2>1 DEF Inv, Shape
  <2> QED BY <2>1, <2>2, TimedFrame DEF ReadyTexts, Active
<1>9. CASE DrawText
  BY <1>9, DrawTextTimed
<1>10. CASE DrawControl
  BY <1>10, DrawControlTimed
<1> QED BY <1>1, <1>2, <1>3, <1>4, <1>5, <1>6, <1>7, <1>8, <1>9, <1>10 DEF Next, Call, Dispatch

\* A message whose empty text has been posted stands only as long as that text is on its
\* way (lcd_msg_delay_close, lcd_ui.h 86-99), for any number of buffers, places and calls,
\* unless two threads found the same buffer free.
THEOREM TimedTextsGo == Spec => []TimedTextGoes
<1>1. TimedInv => TimedTextGoes
  <2>1. \A k, p : Behind(0, k, p) => \/ \E i \in ReadyTexts : ready[i].what = - k /\ ready[i].place = p
                                     \/ \E e \in waiting : e.what = - k /\ e.place = p
    BY DEF Behind
  <2> QED BY <2>1 DEF TimedInv, Closed, PlaceClosed, TimedTextGoes
<1> QED BY <1>1, InvInit, InvStep, TimedInit, TimedStep, PTL DEF Spec

----------------------------------------------------------------------------
(* Types and the length of the queue *)

Settings == {0, 1} \cup SliderValues

Jobs == [what : Texts \cup {0, 1} \cup SliderValues, place : Places \cup Controls, timed : BOOLEAN]

ThreadsTyped ==
  /\ at \in [Threads -> {"idle", "scan", "fill", "post", "show", "lost"}]
  /\ job \in [Threads -> Jobs]
  /\ slot \in [Threads -> 1 .. SlotCount + 1]
  /\ \A t \in Threads : at[t] = "show" => job[t].what \in Settings
  /\ \A t \in Threads : at[t] \in {"scan", "fill", "post"} => job[t].what \in Texts

EventsTyped ==
  /\ ready \in Seq(TextEvents \cup ControlEvents)
  /\ waiting \subseteq TextEvents
  /\ lcd \in Slots \cup {0}

DisplayTyped ==
  /\ textbuffer \in [Slots -> Texts \cup {Free}]
  /\ screen \in [Places -> Texts \cup {Blank}]
  /\ shown \in [Controls -> {0, 1, StartPos, NeverDrawn} \cup SliderValues]
  /\ hw \in [Controls -> {0, 1} \cup SliderValues]

HistoryTyped ==
  /\ count \in 0 .. MaxCalls
  /\ raced \in BOOLEAN /\ closing \subseteq 1 .. MaxCalls
  /\ leaked \subseteq Slots /\ spoilt \subseteq Controls

TypeInv ==
  /\ ThreadsTyped /\ EventsTyped /\ DisplayTyped /\ HistoryTyped
  /\ IsFiniteSet(waiting) /\ Pending <= QueueMax

LEMMA EventSorts ==
  /\ \A s \in Slots : \A x \in Texts : \A p \in Places : TextEvent(s, x, p) \in TextEvents
  /\ \A c \in Controls : \A v \in Settings \cup {StartPos} : ControlEvent(c, v) \in ControlEvents
  /\ \A e \in TextEvents : e.kind = "text" /\ e.slot \in Slots /\ e.what \in Texts /\ e.place \in Places
  /\ \A e \in ControlEvents : /\ e.kind = "control" /\ e.place \in Controls
                              /\ e.what \in Settings \cup {StartPos}
<1>1. \A s \in Slots : \A x \in Texts : \A p \in Places : TextEvent(s, x, p) \in TextEvents
  BY DEF TextEvents
<1>2. \A c \in Controls : \A v \in Settings \cup {StartPos} : ControlEvent(c, v) \in ControlEvents
  BY DEF ControlEvents, Settings
<1>3. \A e \in TextEvents : e.kind = "text" /\ e.slot \in Slots /\ e.what \in Texts /\ e.place \in Places
  BY DEF TextEvents, TextEvent
<1>4. \A e \in ControlEvents : /\ e.kind = "control" /\ e.place \in Controls
                                /\ e.what \in Settings \cup {StartPos}
  BY DEF ControlEvents, ControlEvent, Settings
<1> QED BY <1>1, <1>2, <1>3, <1>4

LEMMA NegatedText == \A x \in Texts : - x \in Texts /\ (x < 0 => - x \in 1 .. MaxCalls)
BY CallsAssumption DEF Texts

LEMMA TypeInit == Init => TypeInv
<1> SUFFICES ASSUME Init PROVE TypeInv
  OBVIOUS
<1>1. ready \in Seq(TextEvents \cup ControlEvents) /\ Len(ready) = 1
  <2>1. ControlEvent("slider", StartPos) \in ControlEvents
    BY EventSorts DEF Controls
  <2> QED BY <2>1 DEF Init
<1>2. waiting = {} /\ lcd = 0 /\ IsFiniteSet(waiting) /\ Cardinality(waiting) = 0
  BY FS_EmptySet DEF Init
<1>3. Pending <= QueueMax
  BY <1>1, <1>2, SlotAssumption DEF Pending
<1>4. NoJob \in Jobs
  BY DEF NoJob, Places, Jobs
<1>5. ThreadsTyped
  BY <1>4, SlotAssumption DEF Init, ThreadsTyped
<1>6. DisplayTyped
  BY DEF Init, DisplayTyped
<1>7. raced \in BOOLEAN
  BY Zenon DEF Init
<1>8. HistoryTyped
  BY <1>7, CallsAssumption DEF Init, HistoryTyped, Controls
<1> QED BY <1>1, <1>2, <1>3, <1>5, <1>6, <1>8 DEF TypeInv, EventsTyped

\* Where no event comes or goes.
LEMMA PendingSame ==
  ASSUME UNCHANGED <<ready, waiting, lcd>>
  PROVE  Pending' = Pending
BY DEF Pending

\* A posted event finds room, a delayed one only changes its place, and the LCD thread
\* keeps the memory of the text it draws.
LEMMA PendingStep ==
  ASSUME Inv, TypeInv, [Next]_vars
  PROVE  IsFiniteSet(waiting') /\ Pending' <= QueueMax
<1>1. /\ IsFiniteSet(waiting) /\ Cardinality(waiting) \in Nat /\ Pending <= QueueMax
      /\ Len(ready) \in Nat /\ QueueMax \in Nat /\ (Full <=> Pending = QueueMax)
  <2>1. /\ IsFiniteSet(waiting) /\ Cardinality(waiting) \in Nat /\ Pending <= QueueMax
        /\ Len(ready) \in Nat /\ QueueMax \in Nat
    BY FS_CardinalityType, SlotAssumption DEF TypeInv, Inv, Shape
  <2>2. Pending \in Nat
    BY <2>1 DEF Pending
  <2> QED BY <2>1, <2>2 DEF Full
<1>2. CASE UNCHANGED <<ready, waiting, lcd>>
  BY <1>1, <1>2, PendingSame
<1>3. ASSUME NEW e \in Events, ~Full, ready' = Append(ready, e), UNCHANGED <<waiting, lcd>>
      PROVE  IsFiniteSet(waiting') /\ Pending' <= QueueMax
  <2>1. Len(ready') = Len(ready) + 1
    BY <1>3, AppendFacts DEF Inv, Shape
  <2> QED BY <1>1, <1>3, <2>1 DEF Pending
<1>4. ASSUME NEW e, ~Full, waiting' = waiting \cup {e}, UNCHANGED <<ready, lcd>>
      PROVE  IsFiniteSet(waiting') /\ Pending' <= QueueMax
  <2>1. IsFiniteSet(waiting') /\ Cardinality(waiting') <= Cardinality(waiting) + 1
        /\ Cardinality(waiting') \in Nat
    BY <1>1, <1>4, FS_AddElement, FS_CardinalityType
  <2> QED BY <1>1, <1>4, <2>1 DEF Pending
<1>5. ASSUME NEW e \in waiting, Due(e) PROVE IsFiniteSet(waiting') /\ Pending' <= QueueMax
  <2>1. waiting' = waiting \ {e} /\ ready' = Append(ready, e) /\ lcd' = lcd /\ e \in Events
    BY <1>5 DEF Due, Inv, Shape
  <2>2. IsFiniteSet(waiting') /\ Cardinality(waiting') = Cardinality(waiting) - 1
    BY <1>1, <2>1, FS_RemoveElement
  <2>3. Len(ready') = Len(ready) + 1
    BY <2>1, AppendFacts DEF Inv, Shape
  <2> QED BY <1>1, <2>1, <2>2, <2>3 DEF Pending
<1>6. CASE DrawText \/ DrawControl
  <2>1. /\ waiting' = waiting /\ lcd = 0
        /\ Len(ready') = Len(ready) - 1
    BY <1>6, TailShift DEF DrawText, DrawControl, Inv
  <2> QED BY <1>1, <2>1 DEF Pending
<1>7. CASE FreeSlot
  <2>1. UNCHANGED <<ready, waiting>> /\ lcd' = 0 /\ lcd # 0
    BY <1>7 DEF FreeSlot
  <2> QED BY <1>1, <2>1 DEF Pending
<1>8. ASSUME NEW t \in Threads, Post(t) PROVE IsFiniteSet(waiting') /\ Pending' <= QueueMax
  <2>1. PICK e : e = TextEvent(slot[t], job[t].what, job[t].place)
    OBVIOUS
  <2>2. e \in Events /\ e.what \in Int /\ e.what # 0
    BY <1>8, <2>1 DEF Post, Inv, Shape, Bounds, TextEvent, Events
  <2>3. lcd' = lcd
    BY <1>8 DEF Post
  <2>4. CASE Full
    <3>1. UNCHANGED <<ready, waiting>>
      BY <1>8, <2>4 DEF Post
    <3> QED BY <1>2, <2>3, <3>1
  <2>5. CASE ~Full /\ e.what > 0
    <3>1. ready' = Append(ready, e) /\ waiting' = waiting
      BY <1>8, <2>1, <2>2, <2>5 DEF Post
    <3> QED BY <1>3, <2>2, <2>3, <2>5, <3>1
  <2>6. CASE ~Full /\ e.what < 0
    <3>1. ready' = ready /\ waiting' = waiting \cup {e}
      BY <1>8, <2>1, <2>2, <2>6 DEF Post
    <3> QED BY <1>4, <2>3, <2>6, <3>1
  <2> QED BY <2>2, <2>4, <2>5, <2>6
<1>9. ASSUME NEW t \in Threads, ShowControl(t) PROVE IsFiniteSet(waiting') /\ Pending' <= QueueMax
  <2>1. PICK e : e = ControlEvent(job[t].place, job[t].what)
    OBVIOUS
  <2>2. e \in Events
    BY <1>9, <2>1 DEF ShowControl, Inv, Shape, Bounds, ControlEvent, Events
  <2>3. /\ UNCHANGED <<waiting, lcd>>
        /\ Full => ready' = ready
        /\ ~Full => ready' = Append(ready, e)
    BY <1>9, <2>1 DEF ShowControl
  <2> QED BY <1>2, <1>3, <2>2, <2>3
<1>10. ASSUME NEW t \in Threads, NEW p \in Places, NEW timed \in BOOLEAN, Show(t, p, timed)
       PROVE  UNCHANGED <<ready, waiting, lcd>>
  BY <1>10 DEF Show
<1>11. ASSUME NEW t \in Threads, NEW c \in Controls, NEW v \in Values(c), SetControl(t, c, v)
       PROVE  UNCHANGED <<ready, waiting, lcd>>
  BY <1>11 DEF SetControl
<1>12. ASSUME NEW t \in Threads, TestSlot(t) \/ Drop(t) \/ RunOn(t) \/ Fill(t)
       PROVE  UNCHANGED <<ready, waiting, lcd>>
  BY <1>12 DEF TestSlot, Drop, RunOn, Fill
<1>13. UNCHANGED vars => UNCHANGED <<ready, waiting, lcd>>
  BY DEF vars
<1> QED BY <1>2, <1>5, <1>6, <1>7, <1>8, <1>9, <1>10, <1>11, <1>12, <1>13 DEF Next, Call, Dispatch

LEMMA ReturnTyped ==
  ASSUME ThreadsTyped, NEW t \in Threads, at[t] \in {"scan", "post"}, Return(t)
  PROVE  ThreadsTyped'
<1>1. job[t] \in Jobs /\ job[t].what \in Texts
  BY DEF ThreadsTyped
<1>2. 1 \in 1 .. SlotCount + 1
  BY SlotAssumption
<1>3. CASE job[t].timed /\ job[t].what > 0
  <2>1. PICK j : j = [what |-> - job[t].what, place |-> job[t].place, timed |-> TRUE]
    OBVIOUS
  <2>2. j \in Jobs /\ j.what \in Texts
    BY <1>1, <2>1, NegatedText DEF Jobs
  <2>3. job' = [job EXCEPT ![t] = j] /\ slot' = [slot EXCEPT ![t] = 1] /\ at' = [at EXCEPT ![t] = "scan"]
    BY <1>3, <2>1 DEF Return
  <2> QED BY <1>2, <2>2, <2>3 DEF ThreadsTyped
<1>4. CASE ~(job[t].timed /\ job[t].what > 0)
  <2>1. NoJob \in Jobs
    BY DEF NoJob, Jobs, Places
  <2>2. /\ job' = [job EXCEPT ![t] = NoJob] /\ slot' = [slot EXCEPT ![t] = 1]
        /\ at' = [at EXCEPT ![t] = "idle"]
    BY <1>4 DEF Return
  <2> QED BY <1>2, <2>1, <2>2 DEF ThreadsTyped
<1> QED BY <1>3, <1>4

LEMMA ThreadsStep ==
  ASSUME Inv, TypeInv, [Next]_vars
  PROVE  ThreadsTyped'
<1> USE DEF TypeInv
<1>0. ThreadsTyped
  OBVIOUS
<1>1. ASSUME NEW t \in Threads, NEW p \in Places, NEW timed \in BOOLEAN, Show(t, p, timed)
      PROVE  ThreadsTyped'
  <2>1. PICK j : j = [what |-> count + 1, place |-> p, timed |-> timed]
    OBVIOUS
  <2>2. j \in Jobs /\ j.what \in Texts
    <3>1. count + 1 \in Texts
      BY <1>1, CallsAssumption DEF Show, HistoryTyped, Texts
    <3> QED BY <2>1, <3>1 DEF Jobs
  <2>3. job' = [job EXCEPT ![t] = j] /\ slot' = [slot EXCEPT ![t] = 1] /\ at' = [at EXCEPT ![t] = "scan"]
    BY <1>1, <2>1 DEF Show
  <2>4. 1 \in 1 .. SlotCount + 1
    BY SlotAssumption
  <2> QED BY <1>0, <2>2, <2>3, <2>4 DEF ThreadsTyped
<1>2. ASSUME NEW t \in Threads, NEW c \in Controls, NEW v \in Values(c), SetControl(t, c, v)
      PROVE  ThreadsTyped'
  <2>1. PICK j : j = [what |-> v, place |-> c, timed |-> FALSE]
    OBVIOUS
  <2>2. j \in Jobs /\ j.what \in Settings
    BY <2>1 DEF Jobs, Values, Settings
  <2>3. job' = [job EXCEPT ![t] = j] /\ slot' = slot /\ at' = [at EXCEPT ![t] = "show"]
    BY <1>2, <2>1 DEF SetControl
  <2> QED BY <1>0, <2>2, <2>3 DEF ThreadsTyped
<1>3. ASSUME NEW t \in Threads, TestSlot(t) PROVE ThreadsTyped'
  <2>1. at[t] = "scan" /\ slot[t] <= SlotCount /\ job' = job
    BY <1>3 DEF TestSlot
  <2>2. CASE at' = [at EXCEPT ![t] = "fill"] /\ slot' = slot
    BY <1>0, <2>1, <2>2 DEF ThreadsTyped
  <2>3. CASE at' = at /\ slot' = [slot EXCEPT ![t] = @ + 1]
    <3>1. slot[t] + 1 \in 1 .. SlotCount + 1
      BY <1>0, <2>1, SlotAssumption DEF ThreadsTyped
    <3> QED BY <1>0, <2>1, <2>3, <3>1 DEF ThreadsTyped
  <2> QED BY <1>3, <2>2, <2>3 DEF TestSlot
<1>4. ASSUME NEW t \in Threads, Drop(t) PROVE ThreadsTyped'
  BY <1>0, <1>4, ReturnTyped DEF Drop
<1>5. ASSUME NEW t \in Threads, RunOn(t) \/ Fill(t) PROVE ThreadsTyped'
  <2>1. UNCHANGED <<job, slot>> /\ (at' = [at EXCEPT ![t] = "lost"] \/ (at[t] = "fill" /\ at' = [at EXCEPT ![t] = "post"]))
    BY <1>5 DEF RunOn, Fill
  <2> QED BY <1>0, <2>1 DEF ThreadsTyped
<1>6. ASSUME NEW t \in Threads, Post(t) PROVE ThreadsTyped'
  BY <1>0, <1>6, ReturnTyped DEF Post
<1>7. ASSUME NEW t \in Threads, ShowControl(t) PROVE ThreadsTyped'
  <2>1. NoJob \in Jobs
    BY DEF NoJob, Jobs, Places
  <2>2. job' = [job EXCEPT ![t] = NoJob] /\ slot' = slot /\ at' = [at EXCEPT ![t] = "idle"]
    BY <1>7 DEF ShowControl
  <2> QED BY <1>0, <2>1, <2>2 DEF ThreadsTyped
<1>8. ASSUME UNCHANGED <<at, job, slot>> PROVE ThreadsTyped'
  BY <1>0, <1>8 DEF ThreadsTyped
<1>9. ASSUME (\E e \in waiting : Due(e)) \/ Dispatch \/ UNCHANGED vars PROVE UNCHANGED <<at, job, slot>>
  BY <1>9 DEF Due, Dispatch, DrawText, FreeSlot, DrawControl, vars, writer
<1> QED BY <1>1, <1>2, <1>3, <1>4, <1>5, <1>6, <1>7, <1>8, <1>9 DEF Next, Call

LEMMA EventsStep ==
  ASSUME Inv, TypeInv, [Next]_vars
  PROVE  EventsTyped'
<1>0. EventsTyped /\ ThreadsTyped
  BY DEF TypeInv
<1>1. ASSUME NEW t \in Threads, Post(t) PROVE EventsTyped'
  <2>1. PICK e : e = TextEvent(slot[t], job[t].what, job[t].place)
    OBVIOUS
  <2>2. e \in TextEvents
    BY <1>0, <1>1, <2>1, EventSorts DEF Post, Inv, Bounds, ThreadsTyped
  <2>3. /\ ready' = ready \/ ready' = Append(ready, e)
        /\ waiting' = waiting \/ waiting' = waiting \cup {e}
        /\ lcd' = lcd
    BY <1>1, <2>1 DEF Post
  <2> QED BY <1>0, <2>2, <2>3 DEF EventsTyped
<1>2. ASSUME NEW t \in Threads, ShowControl(t) PROVE EventsTyped'
  <2>1. PICK e : e = ControlEvent(job[t].place, job[t].what)
    OBVIOUS
  <2>2. e \in ControlEvents
    BY <1>0, <1>2, <2>1, EventSorts DEF ShowControl, Inv, Bounds, ThreadsTyped
  <2>3. (ready' = ready \/ ready' = Append(ready, e)) /\ UNCHANGED <<waiting, lcd>>
    BY <1>2, <2>1 DEF ShowControl
  <2> QED BY <1>0, <2>2, <2>3 DEF EventsTyped
<1>3. ASSUME NEW e \in waiting, Due(e) PROVE EventsTyped'
  BY <1>0, <1>3 DEF Due, EventsTyped
<1>4. CASE DrawText \/ DrawControl
  <2>1. ready # <<>> /\ ready' = Tail(ready) /\ waiting' = waiting
    BY <1>4 DEF DrawText, DrawControl
  <2>2. ready' \in Seq(TextEvents \cup ControlEvents)
    BY <1>0, <2>1, TailFacts DEF EventsTyped
  <2>3. lcd' \in Slots \cup {0}
    <3>1. CASE DrawText
      <4>1. Head(ready) = ready[1] /\ Head(ready).kind = "text" /\ 1 \in ReadyTexts /\ lcd' = ready[1].slot
        BY <2>1, <3>1, TailShift DEF DrawText, ReadyTexts, Inv
      <4> QED BY <4>1 DEF Inv, Bounds
    <3>2. CASE DrawControl
      BY <1>0, <3>2 DEF DrawControl, EventsTyped
    <3> QED BY <1>4, <3>1, <3>2
  <2> QED BY <1>0, <2>1, <2>2, <2>3 DEF EventsTyped
<1>5. CASE FreeSlot
  BY <1>0, <1>5 DEF FreeSlot, EventsTyped
<1>6. ASSUME UNCHANGED <<ready, waiting, lcd>> PROVE EventsTyped'
  BY <1>0, <1>6 DEF EventsTyped
<1>7. ASSUME NEW t \in Threads, NEW p \in Places, NEW timed \in BOOLEAN, Show(t, p, timed)
      PROVE  UNCHANGED <<ready, waiting, lcd>>
  BY <1>7 DEF Show
<1>8. ASSUME NEW t \in Threads, NEW c \in Controls, NEW v \in Values(c), SetControl(t, c, v)
      PROVE  UNCHANGED <<ready, waiting, lcd>>
  BY <1>8 DEF SetControl
<1>9. ASSUME NEW t \in Threads, TestSlot(t) \/ Drop(t) \/ RunOn(t) \/ Fill(t)
      PROVE  UNCHANGED <<ready, waiting, lcd>>
  BY <1>9 DEF TestSlot, Drop, RunOn, Fill
<1>10. UNCHANGED vars => UNCHANGED <<ready, waiting, lcd>>
  BY DEF vars
<1> QED BY <1>1, <1>2, <1>3, <1>4, <1>5, <1>6, <1>7, <1>8, <1>9, <1>10 DEF Next, Call, Dispatch

LEMMA DisplayStep ==
  ASSUME Inv, TypeInv, [Next]_vars
  PROVE  DisplayTyped'
<1>0. DisplayTyped /\ ThreadsTyped /\ EventsTyped
  BY DEF TypeInv
<1>1. ASSUME NEW t \in Threads, Fill(t) PROVE DisplayTyped'
  BY <1>0, <1>1 DEF Fill, DisplayTyped, ThreadsTyped
<1>2. ASSUME NEW t \in Threads, NEW c \in Controls, NEW v \in Values(c), SetControl(t, c, v)
      PROVE  DisplayTyped'
  <2>1. v \in {0, 1} \cup SliderValues /\ hw' = [hw EXCEPT ![c] = v] /\ UNCHANGED <<textbuffer, screen, shown>>
    BY <1>2 DEF SetControl, Values
  <2> QED BY <1>0, <2>1 DEF DisplayTyped
<1>3. CASE DrawText
  <2>1. PICK e : e = Head(ready)
    OBVIOUS
  <2>2. e.slot \in Slots
    <3>1. ready # <<>> /\ e.kind = "text" /\ e = ready[1] /\ 1 \in ReadyTexts
      BY <1>3, <2>1, TailShift DEF DrawText, ReadyTexts, Inv
    <3> QED BY <3>1 DEF Inv, Bounds
  <2>3. screen' = [screen EXCEPT ![e.place] = textbuffer[e.slot]] /\ UNCHANGED <<textbuffer, shown, hw>>
    BY <1>3, <2>1 DEF DrawText
  <2>4. textbuffer[e.slot] \in Texts \cup {Blank}
    BY <1>0, <2>2 DEF DisplayTyped, Free, Blank
  <2> QED BY <1>0, <2>3, <2>4 DEF DisplayTyped
<1>4. CASE FreeSlot
  BY <1>0, <1>4 DEF FreeSlot, DisplayTyped
<1>5. CASE DrawControl
  <2>1. PICK e : e = Head(ready)
    OBVIOUS
  <2>2. e.place \in Controls /\ e.what \in Settings \cup {StartPos}
    <3>1. ready # <<>> /\ e.kind = "control"
      BY <1>5, <2>1 DEF DrawControl
    <3>2. e \in TextEvents \cup ControlEvents
      BY <1>0, <2>1, <3>1, TailFacts DEF EventsTyped
    <3> QED BY <3>1, <3>2, EventSorts
  <2>3. shown' = [shown EXCEPT ![e.place] = Drawn(e.place, e.what)] /\ UNCHANGED <<textbuffer, screen, hw>>
    BY <1>5, <2>1 DEF DrawControl
  <2>4. Drawn(e.place, e.what) \in {0, 1, StartPos, NeverDrawn} \cup SliderValues
    BY <1>0, <2>2 DEF DisplayTyped, Drawn, Settings
  <2> QED BY <1>0, <2>3, <2>4 DEF DisplayTyped
<1>6. ASSUME UNCHANGED <<textbuffer, screen, shown, hw>> PROVE DisplayTyped'
  BY <1>0, <1>6 DEF DisplayTyped
<1>7. ASSUME NEW t \in Threads, NEW p \in Places, NEW timed \in BOOLEAN, Show(t, p, timed)
      PROVE  UNCHANGED <<textbuffer, screen, shown, hw>>
  BY <1>7 DEF Show
<1>8. ASSUME NEW t \in Threads, TestSlot(t) \/ Drop(t) \/ RunOn(t) \/ Post(t) \/ ShowControl(t)
      PROVE  UNCHANGED <<textbuffer, screen, shown, hw>>
  BY <1>8 DEF TestSlot, Drop, RunOn, Post, ShowControl
<1>9. ASSUME NEW e \in waiting, Due(e) PROVE UNCHANGED <<textbuffer, screen, shown, hw>>
  BY <1>9 DEF Due
<1>10. UNCHANGED vars => UNCHANGED <<textbuffer, screen, shown, hw>>
  BY DEF vars
<1> QED BY <1>1, <1>2, <1>3, <1>4, <1>5, <1>6, <1>7, <1>8, <1>9, <1>10 DEF Next, Call, Dispatch

LEMMA HistoryStep ==
  ASSUME Inv, TypeInv, [Next]_vars
  PROVE  HistoryTyped'
<1>0. HistoryTyped /\ ThreadsTyped
  BY DEF TypeInv
<1>1. ASSUME NEW t \in Threads, NEW p \in Places, NEW timed \in BOOLEAN, Show(t, p, timed)
      PROVE  HistoryTyped'
  BY <1>0, <1>1, CallsAssumption DEF Show, HistoryTyped
<1>2. ASSUME NEW t \in Threads, NEW c \in Controls, NEW v \in Values(c), SetControl(t, c, v)
      PROVE  HistoryTyped'
  <2>1. count' \in 0 .. MaxCalls
    BY <1>0, <1>2, CallsAssumption DEF SetControl, HistoryTyped
  <2>2. UNCHANGED <<raced, closing, leaked>> /\ spoilt' \subseteq Controls
    BY <1>0, <1>2 DEF SetControl, HistoryTyped
  <2> QED BY <1>0, <2>1, <2>2 DEF HistoryTyped
<1>3. ASSUME NEW t \in Threads, TestSlot(t) PROVE HistoryTyped'
  <2>1. raced' \in BOOLEAN
    BY <1>0, <1>3, Zenon DEF TestSlot, HistoryTyped
  <2>2. UNCHANGED <<count, closing, leaked, spoilt>>
    BY <1>3 DEF TestSlot
  <2> QED BY <1>0, <2>1, <2>2 DEF HistoryTyped
<1>4. ASSUME NEW t \in Threads, Post(t) PROVE HistoryTyped'
  <2>1. PICK x : x = job[t].what
    OBVIOUS
  <2>2. x \in Texts /\ slot[t] \in Slots
    BY <1>0, <1>4, <2>1 DEF Post, ThreadsTyped, Inv, Bounds
  <2>3. /\ closing' = closing \/ (x < 0 /\ closing' = closing \cup {- x})
        /\ leaked' = leaked \/ leaked' = leaked \cup {slot[t]}
        /\ UNCHANGED <<count, raced, spoilt>>
    BY <1>4, <2>1 DEF Post, TextEvent
  <2> QED BY <1>0, <2>2, <2>3, NegatedText DEF HistoryTyped
<1>5. ASSUME NEW t \in Threads, ShowControl(t) PROVE HistoryTyped'
  <2>1. /\ spoilt' = spoilt \/ spoilt' = spoilt \cup {job[t].place}
        /\ job[t].place \in Controls
        /\ UNCHANGED <<count, raced, closing, leaked>>
    BY <1>5 DEF ShowControl, Inv, Bounds
  <2> QED BY <1>0, <2>1 DEF HistoryTyped
<1>6. ASSUME UNCHANGED <<count, raced, closing, leaked, spoilt>> PROVE HistoryTyped'
  BY <1>0, <1>6 DEF HistoryTyped
<1>7. ASSUME NEW t \in Threads, Drop(t) \/ RunOn(t) \/ Fill(t)
      PROVE  UNCHANGED <<count, raced, closing, leaked, spoilt>>
  BY <1>7 DEF Drop, RunOn, Fill
<1>8. ASSUME (\E e \in waiting : Due(e)) \/ Dispatch \/ UNCHANGED vars
      PROVE  UNCHANGED <<count, raced, closing, leaked, spoilt>>
  BY <1>8 DEF Due, Dispatch, DrawText, FreeSlot, DrawControl, vars
<1> QED BY <1>1, <1>2, <1>3, <1>4, <1>5, <1>6, <1>7, <1>8 DEF Next, Call

\* The variables keep their types for any values of the constants, and lcd_queue never holds
\* more events than its memory allows, the one that is being drawn and the delayed ones
\* included (lcd_ui.cpp 43).
THEOREM TypeCorrect == Spec => []TypeOK
<1>1. TypeInv /\ Inv /\ [Next]_vars => TypeInv'
  BY PendingStep, ThreadsStep, EventsStep, DisplayStep, HistoryStep DEF TypeInv
<1>2. TypeInv => TypeOK
  BY DEF TypeInv, ThreadsTyped, Jobs, EventsTyped, DisplayTyped, HistoryTyped, TypeOK
<1> QED BY <1>1, <1>2, TypeInit, InvInit, InvStep, PTL DEF Spec

============================================================================
