------------------------------- MODULE Outbox -------------------------------
(***************************************************************************)
(* What a user of setData is promised.  A write is kept until the server's *)
(* decision on it is known, and until then it may be applied any number of *)
(* times, but never before an earlier write its maker still keeps.  A      *)
(* write that is no longer kept is never applied again, and what its       *)
(* callback is told, if it is told, is the decision.                       *)
(***************************************************************************)
EXTENDS Naturals, Sequences

CONSTANTS
    Users,        \* who makes writes
    Docs,         \* documents
    Values,       \* what they may be set to
    Null          \* no document

VARIABLES
    made,         \* the writes, in the order they were made
    kept,         \* those on which no decision is known
    applied,      \* those the server has applied
    rejected,     \* those it has refused
    told,         \* what callbacks were told
    docs          \* the documents

vars == <<made, kept, applied, rejected, told, docs>>

Init ==
    /\ made = <<>>
    /\ kept = {} /\ applied = {} /\ rejected = {} /\ told = {}
    /\ docs = [d \in Docs |-> Null]

\* The earlier writes of n's maker that are still kept.
Before(n) == {m \in kept : m < n /\ made[m].by = made[n].by}

Make ==
    /\ kept' = kept \cup {Len(made) + 1}
    /\ UNCHANGED <<applied, rejected, told, docs>>
    /\ \E u \in Users, d \in Docs, v \in Values :
          made' = Append(made, [by |-> u, doc |-> d, value |-> v])

Apply(n) ==
    /\ applied' = applied \cup {n}
    /\ UNCHANGED <<kept, rejected, told, made>>
    /\ Before(n) \subseteq applied
    /\ docs' = [docs EXCEPT ![made[n].doc] = made[n].value]

\* The decision on the first kept write of its maker becomes known.
Settles(n, result) ==
    /\ kept' = kept \ {n}
    /\ told' \in {told, told \cup {[n |-> n, result |-> result]}}
    /\ UNCHANGED <<applied, docs, made>>
    /\ Before(n) = {}

Acknowledge(n) == n \in applied /\ Settles(n, "ok") /\ UNCHANGED rejected

Refuse(n) == Settles(n, "error") /\ rejected' = rejected \cup {n}

Next == Make \/ \E n \in kept : Apply(n) \/ Acknowledge(n) \/ Refuse(n)

Spec == Init /\ [][Next]_vars
=============================================================================
