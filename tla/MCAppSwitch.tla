----------------------------- MODULE MCAppSwitch -----------------------------
(* Instances of AppSwitch for TLC.                                         *)
EXTENDS AppSwitch
=============================================================================
