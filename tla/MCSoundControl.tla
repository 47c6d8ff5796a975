-------------------------- MODULE MCSoundControl --------------------------
(* SoundControl on a ring of 3 blocks.                                      *)
EXTENDS SoundControl

\* A take to the end of the ring, and the two pairs a recording near the end of the
\* area leaves: a start or an end beyond it.
MCTakes == {[start |-> 1, end |-> 0], [start |-> 5, end |-> 1], [start |-> 1, end |-> 3]}
============================================================================
