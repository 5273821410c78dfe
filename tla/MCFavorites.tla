---------------------------- MODULE MCFavorites ----------------------------
(***************************************************************************)
(* Instances of Favorites for TLC: interchangeable accounts, products,     *)
(* calls and sign-ins.                                                     *)
(***************************************************************************)
EXTENDS Favorites, TLC

Symmetry ==
    UNION {Permutations(S) : S \in {Accounts, Products, CallIds, SignIds}}
=============================================================================
