------------------------------ MODULE UserDocs ------------------------------
(***************************************************************************)
(* One document of the Firestore collection "Users", and what the          *)
(* transactions of the application do to it.                               *)
(*                                                                         *)
(* A document is a partial map.  The fields the transactions touch hold    *)
(* lists of ids that are only ever changed by arrayUnion and arrayRemove,  *)
(* so a list is a set here; "has" is the set of those fields whose value   *)
(* is a list, and a field outside "has" is missing or null.  Calling       *)
(* contains on a missing field throws inside the transaction handler: the  *)
(* transaction is abandoned and the caller's Future yields false.          *)
(* "indexed" tells whether the document has the field userIndex.           *)
(***************************************************************************)
EXTENDS FiniteSets

CONSTANT Values          \* the ids a list may hold

Fields == {"invitations", "friends", "favorites", "recommended"}

\* A field that is missing or null lists nothing, and nothing is in no document.
Doc == {doc \in [exists: BOOLEAN, indexed: BOOLEAN,
                 has: SUBSET Fields, list: [Fields -> SUBSET Values]] :
           /\ \A f \in Fields \ doc.has : doc.list[f] = {}
           /\ ~doc.exists => doc.has = {}}

NoLists == [f \in Fields |-> {}]

MissingDoc == [exists |-> FALSE, indexed |-> FALSE, has |-> {}, list |-> NoLists]

\* The document an account set up in the console has: every field, keyed by uid.
ProvisionedDoc ==
    [exists |-> TRUE, indexed |-> TRUE, has |-> Fields, list |-> NoLists]

\* The document _userLogUp writes: its list fields are null or absent, and the
\* key it stores is spelled 'useIndex', so userIndex is absent as well.
SignedUpDoc ==
    [exists |-> TRUE, indexed |-> FALSE, has |-> {}, list |-> NoLists]

\* The document tx.set creates when the transaction found none.
DocWith(f, v) ==
    [exists |-> TRUE, indexed |-> FALSE, has |-> {f},
     list |-> [NoLists EXCEPT ![f] = {v}]]

\* postSnapshot.data[field].contains(...) on a field that is not a list.
Throws(doc, f) == doc.exists /\ f \notin doc.has

\* sendInvitations: add the id, creating the document when there is none.
AfterSend(doc, f, v) ==
    IF ~doc.exists THEN DocWith(f, v)
    ELSE IF Throws(doc, f) THEN doc
    ELSE [doc EXCEPT !.list[f] = @ \cup {v}]

\* updateInvitations: remove the id; a missing document is left missing.
AfterUpdate(doc, f, v) ==
    IF ~doc.exists \/ Throws(doc, f) THEN doc
    ELSE [doc EXCEPT !.list[f] = @ \ {v}]

\* updateFavorites: add the id, or remove it if it is there.
AfterToggle(doc, f, v) ==
    IF ~doc.exists THEN DocWith(f, v)
    ELSE IF Throws(doc, f) THEN doc
    ELSE [doc EXCEPT !.list[f] = IF v \in @ THEN @ \ {v} ELSE @ \cup {v}]
=============================================================================
