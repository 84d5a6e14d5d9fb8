---------------------------- MODULE MCSysStandby ----------------------------
(* Model checking of SysStandby.                                           *)
EXTENDS SysStandby
=============================================================================
