--------------------------- MODULE Transcription ---------------------------
(***************************************************************************)
(* What the cloud side promises about voice messages: it hears the chunks   *)
(* of a take in any order until it has as many as the take announced, and   *)
(* hands the take to speech recognition once, when it has that many.        *)
(***************************************************************************)
EXTENDS Naturals, FiniteSets

CONSTANTS
  Chunks,      \* the chunks of all takes, records with a field "take"
  Announced    \* [takes -> Nat], the total number each chunk of a take carries

Takes == DOMAIN Announced

VARIABLES
  heard,       \* the chunks the clips hold
  transcribed  \* the takes handed to speech recognition

HeardOf(k) == {c \in heard : c.take = k}

Init == heard = {} /\ transcribed = {}

\* A take that announces nothing is not known to before its first chunk came.
Hear(c) ==
  /\ c \notin heard
  /\ c.take \notin transcribed
  /\ HeardOf(c.take) = {} \/ Cardinality(HeardOf(c.take)) < Announced[c.take]
  /\ heard' = heard \cup {c}
  /\ UNCHANGED transcribed

Transcribe(k) ==
  /\ k \notin transcribed
  /\ HeardOf(k) # {} /\ Cardinality(HeardOf(k)) = Announced[k]
  /\ transcribed' = transcribed \cup {k}
  /\ UNCHANGED heard

Next == (\E c \in Chunks : Hear(c)) \/ (\E k \in Takes : Transcribe(k))

Spec == Init /\ [][Next]_<<heard, transcribed>>
============================================================================
