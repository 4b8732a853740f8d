----------------------------- MODULE MCFaceData -----------------------------
(***************************************************************************)
(* Model checking FaceData: the requests are interchangeable, so safety    *)
(* runs identify states that differ only in which request does what.       *)
(***************************************************************************)
EXTENDS FaceData, TLC

Symmetry == Permutations(Req)
=============================================================================
