---------------------------- MODULE MCRGActions ----------------------------
(* RGActions for TLC: two actions, so that one can be requested while the  *)
(* other is in progress; they are interchangeable in the safety runs.      *)
EXTENDS RGActions, TLC

ActionSymmetry == Permutations(Actions)
=============================================================================
