--------------------------- MODULE MCOusterDriver ---------------------------
(* TLC instances of OusterDriver; every value comes from the cfgs.          *)
EXTENDS OusterDriver
=============================================================================
