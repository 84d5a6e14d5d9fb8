------------------------------ MODULE MCNvram ------------------------------
(* Model checking of NvramRegion.                                          *)
EXTENDS NvramRegion
=============================================================================
