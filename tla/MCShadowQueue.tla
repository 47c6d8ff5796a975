-------------------------- MODULE MCShadowQueue --------------------------
(* ShadowQueue with a button and a slider and a few updates.                *)
EXTENDS ShadowQueue

MCNames == {"button_0", "slider_0"}
===========================================================================
