--------------------------- MODULE MCBackgroundWork ---------------------------
(* BackgroundWork with two replicas.                                          *)
EXTENDS BackgroundWork
=============================================================================
