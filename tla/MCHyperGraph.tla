---------------------------- MODULE MCHyperGraph ----------------------------
(***************************************************************************)
(* The life of a merged net, for three nets over three vertices: a pin has *)
(* no, one, two or three holders, and every order of contractions and      *)
(* uncontractions occurs.                                                  *)
(***************************************************************************)
EXTENDS HyperGraph, TLC

(* The nets differ only by their pins, all combinations of which are        *)
(* initial states.                                                         *)
NetSymmetry == Permutations(NetIds)
=============================================================================
