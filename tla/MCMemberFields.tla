--------------------------- MODULE MCMemberFields ---------------------------
(***************************************************************************)
(* Model checking MemberFields: nothing in it tells one member or one code *)
(* from another.                                                           *)
(***************************************************************************)
EXTENDS MemberFields, TLC

Symmetry == Permutations(Member) \union Permutations(Code)
=============================================================================
