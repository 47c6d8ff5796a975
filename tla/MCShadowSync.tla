---------------------------- MODULE MCShadowSync ----------------------------
(* ShadowSync with one button and one slider.                               *)
EXTENDS ShadowSync

MCKeyOrder == <<"button_0", "slider_0">>
=============================================================================
