----------------------------- MODULE MCDirectory -----------------------------
(***************************************************************************)
(* An instance of Directory for TLC: two e-mails, each with one form and   *)
(* an index of its own.                                                    *)
(***************************************************************************)
EXTENDS Directory, TLC

CONSTANTS ann, bob, nick, h1, h2

MCForms == {[name |-> nick, email |-> ann], [name |-> nick, email |-> bob]}
MCHash == [f \in MCForms |-> IF f.email = ann THEN h1 ELSE h2]
MCUsers == Emails \cup {Nobody}
MCDocs == Emails \cup Indexes
MCValues == Indexes \cup Forms

\* The taps are alike, and so are the two accounts.
Swapped == ann :> bob @@ bob :> ann @@ h1 :> h2 @@ h2 :> h1

Symmetry == Permutations(TapIds) \cup {p @@ Swapped : p \in Permutations(TapIds)}
=============================================================================
