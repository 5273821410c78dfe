----------------------------- MODULE MCContacts -----------------------------
(***************************************************************************)
(* Instances of Contacts for TLC.  Ann and Bob are provisioned, Eve has    *)
(* signed up in the application: her userIndex is a hash and no document   *)
(* is stored under her uid.                                                *)
(***************************************************************************)
EXTENDS Contacts, TLC

CONSTANTS ann, bob, eve, hash, spare, t1, t2, k1, k2

MCIndexOf == [a \in Accounts |-> IF a = eve THEN hash ELSE a]

\* Bob invites ann.
OneInviter == {<<bob, ann>>}

\* Eve invites ann; ann invites eve, and nobody (the search has not answered).
OddTargets == {<<eve, ann>>, <<ann, hash>>, <<ann, Null>>}

Symmetry == Permutations(TxIds) \cup Permutations(FetchIds)
=============================================================================
