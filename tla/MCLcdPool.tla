----------------------------- MODULE MCLcdPool -----------------------------
(* LcdPool with two buffers and a queue that can be full.                   *)
EXTENDS LcdPool

MCSliderValues == {8, 11}
============================================================================
