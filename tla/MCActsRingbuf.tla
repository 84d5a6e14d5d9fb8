--------------------------- MODULE MCActsRingbuf ---------------------------
(* Model checking of ActsRingbuf.                                          *)
EXTENDS ActsRingbuf
=============================================================================
