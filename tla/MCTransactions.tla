--------------------------- MODULE MCTransactions ---------------------------
(***************************************************************************)
(* An instance of Transactions for TLC: two calls on one document, each an *)
(* invitation, its removal or a tap on a heart.                            *)
(***************************************************************************)
EXTENDS Transactions, TLC

CONSTANT x

MCOps == {[kind |-> "send", field |-> "invitations", id |-> x],
          [kind |-> "update", field |-> "invitations", id |-> x],
          [kind |-> "toggle", field |-> "favorites", id |-> x]}
=============================================================================
