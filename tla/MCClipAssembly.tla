--------------------------- MODULE MCClipAssembly ---------------------------
(* ClipAssembly on a handful of takes; a unit of time is half a second.      *)
EXTENDS ClipAssembly

\* Takes far apart: one that sends a chunk more than it announced, one that sends
\* what it announced, one shorter than a chunk.
MCFarStamps == <<<<0, 1, 2>>, <<9, 10>>, <<20>>>>
MCFarAnnounced == <<2, 2, 0>>

\* Two takes closer than the gap, the second longer, and a third later than the gap.
MCNearStamps == <<<<0, 1>>, <<4, 5, 6>>, <<12>>>>
MCNearAnnounced == <<2, 3, 1>>

MCNoFaults == [f \in Faults |-> 0]
MCOneOfEach == [f \in Faults |-> 1]
=============================================================================
