--------------------------- MODULE MCHomeLifetime ---------------------------
(* Instances of HomeLifetime for TLC.                                      *)
EXTENDS HomeLifetime, TLC
=============================================================================
