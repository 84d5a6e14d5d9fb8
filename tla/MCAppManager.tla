---------------------------- MODULE MCAppManager ----------------------------
(* Model checking of AppManager.                                           *)
EXTENDS AppManager
=============================================================================
