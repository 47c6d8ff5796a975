------------------------------ MODULE JsonScan ------------------------------
(***************************************************************************)
(* The JSON reader of the board (json_parse of json_aws.cpp), to which every *)
(* message goes that arrives on a topic. It walks over the text once, with   *)
(* a status for what it expects next, and calls itself for a child object,   *)
(* whose end it finds by counting braces; the child is then walked again.    *)
(*                                                                         *)
(* A step is one turn of its loop. Characters are one-character strings. The *)
(* messages are external: what the shadow service, the app and lambda.py     *)
(* write, objects of strings, numbers and objects, with no white space but   *)
(* that after the first brace of lambda.py 27.                               *)
(***************************************************************************)
EXTENDS Integers, Sequences, SequencesExt

CONSTANTS
  Docs,      \* the objects that arrive, each a sequence of members
  MaxInt     \* the largest int

VARIABLES
  doc,       \* history: the object that was written
  text,      \* the payload
  stack,     \* calls of json_parse, the running one last
  found,     \* what the maps hold: a path of keys, its type and its value
  outcome    \* "reading"; "done"; "thrown" by stoi; "outside" when *it is past the text

vars == <<doc, text, stack, found, outcome>>

Quote == "\""
Digits == {"0", "1", "2", "3", "4", "5", "6", "7", "8", "9"}
DigitValue == [d \in Digits |-> CHOOSE n \in 0 .. 9 : ToString(n) = d]

----------------------------------------------------------------------------
(* The messages *)

\* A member holds a key, a type, the characters of a string or number, and the members
\* of an object.
Quoted(s) == <<Quote>> \o s \o <<Quote>>

RECURSIVE Text(_)
Text(d) ==
  LET Member(m) == Quoted(m.key) \o <<":">> \o
                     CASE m.type = "string" -> Quoted(m.chars)
                       [] m.type = "int"    -> m.chars
                       [] m.type = "child"  -> Text(m.child)
      Members == [i \in DOMAIN d |-> (IF i = 1 THEN <<>> ELSE <<",">>) \o Member(d[i])]
  IN  <<"{">> \o FlattenSeq(Members) \o <<"}">>

\* What a reader has to find in it.
RECURSIVE Meaning(_, _)
Meaning(d, path) ==
  UNION {LET m == d[i] here == Append(path, m.key) IN
           {[path |-> here, type |-> m.type, chars |-> m.chars]}
             \cup IF m.type = "child" THEN Meaning(m.child, here) ELSE {}
         : i \in DOMAIN d}

\* The value of the digits of a number, without its sign.
RECURSIVE Magnitude(_)
Magnitude(s) ==
  IF s = <<>> THEN 0
  ELSE IF Last(s) \notin Digits THEN 0 ELSE 10 * Magnitude(Front(s)) + DigitValue[Last(s)]

\* stoi: a sign or a blank, and then digits that fit into an int.
Stoi(s) ==
  LET digits == IF s[1] \in {"-", " "} THEN Tail(s) ELSE s
  IN  digits # <<>> /\ ToSet(digits) \subseteq Digits /\ Magnitude(digits) <= MaxInt

----------------------------------------------------------------------------
(* The reader *)

\* json_parse(start, end): the text from start up to end.
Call(start, end, path) ==
  [status |-> 0, it |-> start, end |-> end, first |-> start, key |-> <<>>, path |-> path]

Init ==
  /\ doc \in Docs
  /\ \E blank \in BOOLEAN :
       text = IF blank THEN <<"{", " ">> \o Tail(Text(doc)) ELSE Text(doc)
  /\ stack = <<Call(1, Len(text) + 1, <<>>)>>
  /\ found = {}
  /\ outcome = "reading"

f == Last(stack)
Reading == outcome = "reading" /\ stack # <<>>
At(c) == text[f.it] = c
After(g) == [g EXCEPT !.it = @ + 1]

\* ++it != end: the call goes on, or returns.
GoOn(g) ==
  /\ stack' = IF After(g).it = g.end THEN Front(stack) ELSE Append(Front(stack), After(g))
  /\ outcome' = IF stack' = <<>> THEN "done" ELSE outcome
  /\ UNCHANGED <<doc, text>>

\* (*m)[key] is given a type and a value.
Store(g, type, chars) ==
  LET here == Append(g.path, g.key) IN
    found' = {e \in found : ~IsPrefix(here, e.path)}
               \cup {[path |-> here, type |-> type, chars |-> chars]}

\* Status 0, 1 and 3 wait for a character and skip all others.
Expect ==
  /\ Reading
  /\ \/ f.status = 0 /\ GoOn(IF At("{") THEN [f EXCEPT !.status = 1] ELSE f)
     \/ f.status = 1 /\ GoOn(IF At(Quote) THEN [f EXCEPT !.status = 2, !.first = f.it + 1] ELSE f)
     \/ f.status = 3 /\ GoOn(IF At(":") THEN [f EXCEPT !.status = 4] ELSE f)
  /\ UNCHANGED found

Key ==
  /\ Reading
  /\ f.status = 2
  /\ GoOn(IF At(Quote) THEN [f EXCEPT !.status = 3, !.key = SubSeq(text, f.first, f.it - 1)] ELSE f)
  /\ UNCHANGED found

\* Braces open after the character at p, counted from start.
Open(start, p) ==
  LET s == SubSeq(text, start, p)
      Occurs(c) == Len(SelectSeq(s, LAMBDA x : x = c))
  IN  Occurs("{") - Occurs("}")

\* A slip of Closure: the closing brace itself is left out.
ClosureAt(start, end) ==
  LET closed == {p \in start + 1 .. end - 1 : Open(start, p) = 0}
  IN  IF closed = {} THEN end ELSE CHOOSE p \in closed : \A q \in closed : p <= q

\* Where the walk for the end of a child stops: behind the brace that closes the one at
\* start, or at end.
Closure(start, end) ==
  LET closed == {p \in start + 1 .. end - 1 : Open(start, p) = 0}
  IN  IF closed = {} THEN end
      ELSE (CHOOSE p \in closed : \A q \in closed : p <= q) + 1

\* Status 4 at a brace: the child is read by a call of its own. The turn goes on when
\* it returns, behind the child and with status 7.
Child ==
  /\ Reading /\ f.status = 4
  /\ At("{")
  /\ LET behind == Closure(f.it, f.end) IN
       /\ stack' = Append(Front(stack), [f EXCEPT !.first = f.it, !.it = behind, !.status = 7])
                     \o <<Call(f.it, behind, Append(f.path, f.key))>>
       /\ Store(f, "child", <<>>)
  /\ UNCHANGED <<doc, text, outcome>>

\* Characters whose code minus that of '0' is below 10, but for the quote.
Low == Digits \cup {"-", " ", ","}

\* Status 4 at anything else: a string, a number, or to be skipped.
Value ==
  /\ Reading
  /\ f.status = 4
  /\ ~At("{")
  /\ GoOn(IF At(Quote) THEN [f EXCEPT !.status = 5, !.first = f.it + 1]
          ELSE IF text[f.it] \in Low THEN [f EXCEPT !.status = 6, !.first = f.it] ELSE f)
  /\ UNCHANGED found

String ==
  /\ Reading
  /\ f.status = 5
  /\ IF At(Quote)
     THEN GoOn([f EXCEPT !.status = 7]) /\ Store(f, "string", SubSeq(text, f.first, f.it - 1))
     ELSE GoOn(f) /\ UNCHANGED found

\* The character behind a number is looked at again with status 7.
Number ==
  /\ Reading
  /\ f.status = 6
  /\ LET chars == SubSeq(text, f.first, f.it - 1) IN
     \/ text[f.it] \in Digits /\ GoOn(f) /\ UNCHANGED found
     \/ /\ text[f.it] \notin Digits /\ Stoi(chars)
        /\ GoOn([f EXCEPT !.status = 7, !.it = f.it - 1])
        /\ Store(f, "int", chars)
     \/ /\ text[f.it] \notin Digits /\ ~Stoi(chars)
        /\ outcome' = "thrown"
        /\ UNCHANGED <<doc, text, stack, found>>

\* Status 7 waits for the next member. Behind a child that ended with the text it looks
\* past the end.
Comma ==
  /\ Reading
  /\ f.status = 7
  /\ IF f.it \in DOMAIN text
     THEN GoOn(IF At(",") THEN [f EXCEPT !.status = 1] ELSE f)
     ELSE outcome' = "outside" /\ UNCHANGED <<doc, text, stack>>
  /\ UNCHANGED found

Next == Expect \/ Key \/ Child \/ Value \/ String \/ Number \/ Comma

Spec == Init /\ [][Next]_vars
FairSpec == Spec /\ WF_vars(Next)

----------------------------------------------------------------------------
(* Properties *)

\* Numbers that do not fit into an int, as timestamps will be from 2038 on.
RECURSIVE TooLarge(_)
TooLarge(d) ==
  \E i \in DOMAIN d :
    \/ d[i].type = "int" /\ Magnitude(d[i].chars) > MaxInt
    \/ d[i].type = "child" /\ TooLarge(d[i].child)

\* Every message is read to its end, never past it, and all that was written is found,
\* at its path and with its value, though children are cut out by counting braces and
\* blanks and signs are taken for digits. A number that is too large throws instead:
\* nothing catches it (json_aws.cpp 137-219).
EveryMessageRead ==
  <>(IF TooLarge(doc) THEN outcome = "thrown"
     ELSE outcome = "done" /\ found = Meaning(doc, <<>>))
=============================================================================
