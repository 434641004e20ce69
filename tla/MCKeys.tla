-------------------------------- MODULE MCKeys --------------------------------
(* Keys for TLC: two keys of one bank. *)
EXTENDS Keys
=============================================================================
