------------------------------ MODULE MCSession ------------------------------
(***************************************************************************)
(* Instances of Session for TLC: two accounts, and one or two taps in      *)
(* flight beside the call that initUser makes.                             *)
(***************************************************************************)
EXTENDS Session, TLC

Symmetry == Permutations(Accts) \cup Permutations(TapIds)
=============================================================================
