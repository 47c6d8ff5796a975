-------------------------- MODULE WaitingUpdates --------------------------
(***************************************************************************)
(* What the board promises about the values it reports: the document at the *)
(* broker shows, for each name, a value that was made, and never an older   *)
(* one again. As long as nothing disturbed the reports, a report brings all *)
(* names to their last values at once, those made while it was under way    *)
(* excepted, which disturb it. Once a report was torn, by values put into   *)
(* it out of turn, nothing is promised of what is shown.                    *)
(***************************************************************************)
EXTENDS Integers

CONSTANT Names   \* the keys of the document

VARIABLES
  made,       \* how many values of each name were made; a value is known by its number
  shown,      \* the value the document shows
  disturbed,  \* a report failed, was added to, or found no connection
  torn        \* two values were put into a report at once, or one as it was closed

Init ==
  /\ made = [n \in Names |-> 0] /\ shown = [n \in Names |-> 0]
  /\ disturbed = FALSE /\ torn = FALSE

\* What has gone wrong stays so.
Disturbs == (disturbed => disturbed') /\ (torn => torn')

\* A new value of n waits to be reported.
Make(n) ==
  /\ made' = [made EXCEPT ![n] = @ + 1]
  /\ Disturbs
  /\ UNCHANGED shown

Disturb == Disturbs /\ UNCHANGED <<made, shown>>

\* A report of all that waits.
ShowAll == shown' = made /\ UNCHANGED <<made, disturbed, torn>>

\* A report that was disturbed shows some of it.
ShowSome ==
  /\ disturbed
  /\ shown' \in [Names -> Int]
  /\ \A n \in Names : shown[n] <= shown'[n] /\ shown'[n] <= made[n]
  /\ UNCHANGED <<made, disturbed, torn>>

ShowAnything ==
  /\ torn
  /\ shown' \in [Names -> Int]
  /\ UNCHANGED <<made, disturbed, torn>>

Next == (\E n \in Names : Make(n)) \/ Disturb \/ ShowAll \/ ShowSome \/ ShowAnything

Spec == Init /\ [][Next]_<<made, shown, disturbed, torn>>
============================================================================
