-------------------------- MODULE MCPropertyCache --------------------------
(* Model checking of PropertyCache.                                        *)
EXTENDS PropertyCache

CONSTANTS k1, k2

\* The shorter name is a prefix of the other: "BT_PINCODE", "BT_PINCODE_MODE".
OnePrefix == {<<k1, k2>>}
NoPrefix == {}
=============================================================================
