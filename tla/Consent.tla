------------------------------- MODULE Consent -------------------------------
(***************************************************************************)
(* What the contact list promises its owner.  Somebody asks, the owner     *)
(* agrees, and only then may the asker appear among the owner's friends.   *)
(* The three sets hold pairs <<owner, other>>.                             *)
(***************************************************************************)
CONSTANTS Owners, Others

VARIABLES asked, agreed, friends

vars == <<asked, agreed, friends>>

Pairs == Owners \X Others

Init == asked = {} /\ agreed = {} /\ friends = {}

Ask(p) ==
    /\ asked' = asked \cup {p}
    /\ UNCHANGED <<agreed, friends>>

Agree(p) ==
    /\ p \in asked
    /\ agreed' = agreed \cup {p}
    /\ UNCHANGED <<asked, friends>>

Befriend(p) ==
    /\ p \in agreed
    /\ friends' = friends \cup {p}
    /\ UNCHANGED <<asked, agreed>>

Unfriend(p) ==
    /\ friends' = friends \ {p}
    /\ UNCHANGED <<asked, agreed>>

Next == \E p \in Pairs : Ask(p) \/ Agree(p) \/ Befriend(p) \/ Unfriend(p)

Spec == Init /\ [][Next]_vars
=============================================================================
