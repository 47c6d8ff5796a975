----------------------------- MODULE MCMainLoop -----------------------------
(* MainLoop with one pad and a slider of two positions.                      *)
EXTENDS MainLoop

MCWidgets == <<"button_0", "slider_0">>
=============================================================================
