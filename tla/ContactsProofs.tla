--------------------------- MODULE ContactsProofs ---------------------------
(***************************************************************************)
(* Type correctness and consent of the contact list, and that it implements*)
(* Consent, for every number of accounts, transactions and fetches.        *)
(***************************************************************************)
EXTENDS Contacts, TLAPS

LEMMA NoneIsNoTransaction == None \notin Transaction
  BY ContactsAssumption DEF Transaction, Lists

LEMMA NoneIsNoFetch == None \notin Fetch
  BY ContactsAssumption DEF Fetch

LEMMA NoneIsNoDialog == None \notin Dialog
  BY ContactsAssumption DEF Dialog

\* A document whose contact lists hold accounts only.
ContactDoc == {doc \in Doc : \A f \in Lists : doc.list[f] \subseteq Accounts}

LEMMA SendKeepsDoc ==
  ASSUME NEW doc \in ContactDoc, NEW f \in Lists, NEW x \in Accounts
  PROVE  AfterSend(doc, f, x) \in ContactDoc
<1>1. f \in Fields /\ doc \in Doc
  BY DEF Lists, Fields, ContactDoc
<1>2. CASE ~doc.exists
  BY <1>1, <1>2 DEF AfterSend, DocWith, NoLists, Doc, Fields, ContactDoc, Lists
<1>3. CASE doc.exists
  BY <1>1, <1>3 DEF AfterSend, Throws, Doc, Fields, ContactDoc, Lists
<1>4. QED
  BY <1>2, <1>3, <1>1 DEF Doc

LEMMA UpdateKeepsDoc ==
  ASSUME NEW doc \in ContactDoc, NEW f \in Lists, NEW x \in Accounts
  PROVE  AfterUpdate(doc, f, x) \in ContactDoc
BY DEF AfterUpdate, Throws, Doc, Fields, ContactDoc, Lists

LEMMA ToggleKeepsDoc ==
  ASSUME NEW doc \in ContactDoc, NEW p \in Products
  PROVE  AfterToggle(doc, "favorites", p) \in ContactDoc
<1>1. CASE ~doc.exists
  BY <1>1 DEF AfterToggle, DocWith, NoLists, Doc, Fields, ContactDoc, Lists
<1>2. CASE doc.exists
  BY <1>2 DEF AfterToggle, Throws, Doc, Fields, ContactDoc, Lists
<1>3. QED
  BY <1>1, <1>2 DEF ContactDoc, Doc

LEMMA InitialDocs ==
  ASSUME NEW d \in DocIds
  PROVE  InitialDoc(d) \in ContactDoc /\ InitialDoc(d).list = NoLists
BY DEF InitialDoc, ProvisionedDoc, SignedUpDoc, MissingDoc, NoLists, Doc, Fields,
       ContactDoc, Lists
-----------------------------------------------------------------------------
(* Type correctness.                                                       *)

LEMMA SendIsTransaction ==
  ASSUME NEW f \in Lists, NEW x \in Accounts, NEW d \in DocIds
  PROVE  /\ Send(f, x, d) \in Transaction
         /\ Update(f, x, d) \in Transaction
         /\ <<d, x>> \in Pairs
BY DEF Send, Update, Transaction, Pairs

\* The part of TypeOK about the collection, in terms of ContactDoc.
LEMMA DocsType ==
  ASSUME users \in [DocIds -> Doc]
  PROVE  (\A d \in DocIds, f \in Lists : users[d].list[f] \subseteq Accounts)
            <=> users \in [DocIds -> ContactDoc]
BY DEF ContactDoc

LEMMA TypeInit == Init => TypeOK
<1> SUFFICES ASSUME Init PROVE TypeOK
  OBVIOUS
<1>1. users \in [DocIds -> Doc]
      /\ \A d \in DocIds, f \in Lists : users[d].list[f] \subseteq Accounts
  BY InitialDocs DEF Init, ContactDoc
<1>2. \A h \in {asked, again, agreed, declined, removed, lost} : h \subseteq Pairs
  BY DEF Init
<1>3. /\ open \subseteq Viewers
      /\ tx \in [TxIds -> Transaction \cup {None}]
      /\ dialog \in [Accounts -> Dialog \cup {None}]
  BY DEF Init
<1>4. fetch \in [Accounts -> [Lists -> [FetchIds -> Fetch \cup {None}]]]
  BY DEF Init, NoFetch
<1>5. view \in [Accounts -> [Lists -> SUBSET (Accounts \cup {Null})]]
  BY DEF Init, NoView
<1>6. QED
  BY <1>1, <1>2, <1>3, <1>4, <1>5 DEF TypeOK

\* What closes or opens the delete dialog leaves the replies as they are.
LEMMA DialogCloses ==
  ASSUME TypeOK, NEW a \in Accounts, ClosesDialog(a)
  PROVE  /\ dialog' \in [Accounts -> Dialog \cup {None}]
         /\ open' = open /\ fetch' = fetch /\ view' = view
         /\ \A b \in Accounts : Shows(b, "reply")' =>
               Shows(b, "reply") /\ dialog'[b] = dialog[b]
<1>1. CASE Shows(a, "delete")
  <2>1. dialog[a] \in Dialog /\ dialog \in [Accounts -> Dialog \cup {None}]
    BY <1>1 DEF TypeOK, Shows
  <2>2. [dialog[a] EXCEPT !.kind = "details"] = [kind |-> "details", id |-> dialog[a].id]
    BY <2>1 DEF Dialog
  <2>3. /\ [kind |-> "details", id |-> dialog[a].id] \in Dialog
        /\ dialog' = [dialog EXCEPT ![a] = [kind |-> "details", id |-> dialog[a].id]]
    BY <1>1, <2>1, <2>2 DEF ClosesDialog, Dialog
  <2>4. QED
    BY <2>1, <2>3 DEF ClosesDialog, Shows
<1>2. CASE ~Shows(a, "delete")
  BY <1>2 DEF ClosesDialog, Shows, TypeOK
<1>3. QED
  BY <1>1, <1>2

LEMMA DeleteOpens ==
  ASSUME TypeOK, NEW a \in Accounts, OpenDelete(a)
  PROVE  /\ dialog' \in [Accounts -> Dialog \cup {None}]
         /\ \A b \in Accounts : Shows(b, "reply")' =>
               Shows(b, "reply") /\ dialog'[b] = dialog[b]
<1>1. dialog[a] \in Dialog /\ dialog \in [Accounts -> Dialog \cup {None}]
  BY DEF TypeOK, OpenDelete, Shows
<1>2. [dialog[a] EXCEPT !.kind = "delete"] = [kind |-> "delete", id |-> dialog[a].id]
  BY <1>1 DEF Dialog
<1>3. /\ [kind |-> "delete", id |-> dialog[a].id] \in Dialog
      /\ dialog' = [dialog EXCEPT ![a] = [kind |-> "delete", id |-> dialog[a].id]]
  BY <1>1, <1>2 DEF OpenDelete, Dialog
<1>4. QED
  BY <1>1, <1>3 DEF Shows

\* A transaction that commits, heard of or not.
LEMMA TxCommits ==
  ASSUME TypeOK, NEW i \in TxIds, Commit(i) \/ Repeats(i)
  PROVE  /\ tx[i] \in Transaction /\ tx[i].doc \in DocIds /\ tx[i].id \in Accounts
         /\ users' = [users EXCEPT ![tx[i].doc] = AfterTx(tx[i], @)]
         /\ tx' = [tx EXCEPT ![i] = None] \/ tx' = tx
         /\ UNCHANGED <<page, asked, agreed, declined, removed>>
         /\ again' \subseteq again \cup {<<tx[i].doc, tx[i].id>>}
         /\ lost' \subseteq lost \cup {<<tx[i].doc, tx[i].id>>}
         /\ again \subseteq again' /\ lost \subseteq lost'
BY DEF Commit, Repeats, Ends, TypeOK, Transaction

LEMMA TypeNext == TypeOK /\ [Next]_vars => TypeOK'
<1> SUFFICES ASSUME TypeOK, [Next]_vars PROVE TypeOK'
  OBVIOUS
<1> USE DEF TypeOK
<1>1. ASSUME NEW x \in Accounts, NEW t \in Accounts \cup Indexes \cup {Null},
             NEW d \in DocIds, NEW i \in TxIds, Invite(x, t, d, i)
      PROVE  TypeOK'
  <2>1. Send("invitations", x, d) \in Transaction /\ <<d, x>> \in Pairs
    BY SendIsTransaction DEF Lists
  <2>2. tx' \in [TxIds -> Transaction \cup {None}]
    BY <1>1, <2>1 DEF Invite
  <2>3. QED
    BY <1>1, <2>1, <2>2 DEF Invite, page
<1>2. ASSUME NEW a \in Accounts, NEW e \in Accounts, OpenReply(a, e)
      PROVE  TypeOK'
  <2>1. [kind |-> "reply", id |-> e] \in Dialog
    BY DEF Dialog
  <2>2. QED
    BY <1>2, <2>1 DEF OpenReply, history
<1>3. ASSUME NEW a \in Accounts, NEW e \in Accounts, OpenDetails(a, e)
      PROVE  TypeOK'
  <2>1. [kind |-> "details", id |-> e] \in Dialog
    BY DEF Dialog
  <2>2. QED
    BY <1>3, <2>1 DEF OpenDetails, history
<1>d. ASSUME NEW a \in Accounts, OpenDelete(a)
      PROVE  TypeOK'
  BY <1>d, DeleteOpens DEF OpenDelete, history
<1>4. ASSUME NEW a \in Accounts, NEW i \in TxIds, NEW j \in TxIds, Accept(a, i, j)
      PROVE  TypeOK'
  <2>1. dialog[a].id \in Accounts /\ a \in DocIds
    BY <1>4 DEF Accept, AcceptWith, Shows, Dialog, DocIds
  <2>2. /\ Send("friends", dialog[a].id, a) \in Transaction
        /\ Update("invitations", dialog[a].id, a) \in Transaction
        /\ <<a, dialog[a].id>> \in Pairs
    BY <2>1, SendIsTransaction DEF Lists
  <2>3. tx' \in [TxIds -> Transaction \cup {None}] /\ agreed' \subseteq Pairs
    BY <1>4, <2>2 DEF Accept, AcceptWith
  <2>4. ClosesDialog(a)
    BY <1>4 DEF Accept, AcceptWith
  <2>5. /\ dialog' \in [Accounts -> Dialog \cup {None}]
        /\ open' = open /\ fetch' = fetch /\ view' = view
    BY <2>4, DialogCloses
  <2>6. QED
    BY <1>4, <2>3, <2>5 DEF Accept, AcceptWith
<1>5. ASSUME NEW a \in Accounts, NEW i \in TxIds, Decline(a, i)
      PROVE  TypeOK'
  <2>1. dialog[a].id \in Accounts /\ a \in DocIds
    BY <1>5 DEF Decline, Shows, Dialog, DocIds
  <2>2. /\ Update("invitations", dialog[a].id, a) \in Transaction
        /\ <<a, dialog[a].id>> \in Pairs
    BY <2>1, SendIsTransaction DEF Lists
  <2>3. tx' \in [TxIds -> Transaction \cup {None}] /\ declined' \subseteq Pairs
    BY <1>5, <2>2 DEF Decline
  <2>4. ClosesDialog(a)
    BY <1>5 DEF Decline
  <2>5. /\ dialog' \in [Accounts -> Dialog \cup {None}]
        /\ open' = open /\ fetch' = fetch /\ view' = view
    BY <2>4, DialogCloses
  <2>6. QED
    BY <1>5, <2>3, <2>5 DEF Decline
<1>6. ASSUME NEW a \in Accounts, NEW i \in TxIds, Delete(a, i)
      PROVE  TypeOK'
  <2>1. dialog[a].id \in Accounts /\ a \in DocIds
    BY <1>6 DEF Delete, Shows, Dialog, DocIds
  <2>2. /\ Update("friends", dialog[a].id, a) \in Transaction
        /\ <<a, dialog[a].id>> \in Pairs
    BY <2>1, SendIsTransaction DEF Lists
  <2>3. tx' \in [TxIds -> Transaction \cup {None}] /\ removed' \subseteq Pairs
    BY <1>6, <2>2 DEF Delete
  <2>4. ClosesDialog(a)
    BY <1>6 DEF Delete
  <2>5. /\ dialog' \in [Accounts -> Dialog \cup {None}]
        /\ open' = open /\ fetch' = fetch /\ view' = view
    BY <2>4, DialogCloses
  <2>6. QED
    BY <1>6, <2>3, <2>5 DEF Delete
<1>7. ASSUME NEW a \in Accounts, Cancel(a)
      PROVE  TypeOK'
  <2>1. /\ dialog' \in [Accounts -> Dialog \cup {None}]
        /\ open' = open /\ fetch' = fetch /\ view' = view
    BY <1>7, DialogCloses DEF Cancel
  <2>2. QED
    BY <1>7, <2>1 DEF Cancel, history
<1>8. ASSUME NEW i \in TxIds, Commit(i) \/ Repeats(i)
      PROVE  TypeOK'
  <2>1. /\ tx[i] \in Transaction /\ tx[i].doc \in DocIds /\ tx[i].id \in Accounts
        /\ users' = [users EXCEPT ![tx[i].doc] = AfterTx(tx[i], @)]
        /\ UNCHANGED <<page, asked, agreed, declined, removed>>
    BY <1>8, TxCommits
  <2>2. tx' \in [TxIds -> Transaction \cup {None}]
    BY <1>8, TxCommits
  <2>3. users \in [DocIds -> ContactDoc]
    BY DocsType
  <2>4. AfterTx(tx[i], users[tx[i].doc]) \in ContactDoc
    BY <2>1, <2>3, SendKeepsDoc, UpdateKeepsDoc DEF AfterTx, Transaction
  <2>5. users' \in [DocIds -> ContactDoc]
    BY <2>1, <2>3, <2>4
  <2>6. users' \in [DocIds -> Doc]
        /\ \A d \in DocIds, f \in Lists : users'[d].list[f] \subseteq Accounts
    BY <2>5 DEF ContactDoc
  <2>7. again' \subseteq Pairs /\ lost' \subseteq Pairs
    <3>1. again \subseteq Pairs /\ lost \subseteq Pairs
      OBVIOUS
    <3>2. <<tx[i].doc, tx[i].id>> \in Pairs
      BY <2>1 DEF Pairs
    <3>3. /\ again' \subseteq again \cup {<<tx[i].doc, tx[i].id>>}
          /\ lost' \subseteq lost \cup {<<tx[i].doc, tx[i].id>>}
      BY <1>8, TxCommits
    <3>4. QED
      BY <3>1, <3>2, <3>3
  <2>8. QED
    BY <2>1, <2>2, <2>6, <2>7 DEF page
<1>9. ASSUME NEW i \in TxIds, Fail(i)
      PROVE  TypeOK'
  <2>1. tx[i] \in Transaction /\ tx' \in [TxIds -> Transaction \cup {None}]
    BY <1>9 DEF Fail, Ends
  <2>2. lost' \subseteq Pairs
    BY <1>9, <2>1 DEF Fail, Transaction, Pairs
  <2>3. QED
    BY <1>9, <2>1, <2>2 DEF Fail, page
<1>10. ASSUME NEW a \in Accounts, NEW p \in Products, Like(a, p)
       PROVE  TypeOK'
  <2>1. users \in [DocIds -> ContactDoc] /\ a \in DocIds
    BY DocsType DEF DocIds
  <2>2. users' \in [DocIds -> ContactDoc]
    BY <1>10, <2>1, ToggleKeepsDoc DEF Like
  <2>3. users' \in [DocIds -> Doc]
        /\ \A d \in DocIds, f \in Lists : users'[d].list[f] \subseteq Accounts
    BY <2>2 DEF ContactDoc
  <2>4. QED
    BY <1>10, <2>3 DEF Like, page, history
<1>11. ASSUME NEW a \in Accounts, OpenPage(a)
       PROVE  TypeOK'
  BY <1>11 DEF OpenPage, history
<1>12. ASSUME NEW a \in Accounts, ClosePage(a)
       PROVE  TypeOK'
  <2>1. NoFetch \in [Lists -> [FetchIds -> Fetch \cup {None}]]
    BY DEF NoFetch
  <2>2. NoView \in [Lists -> SUBSET (Accounts \cup {Null})]
    BY DEF NoView
  <2>3. QED
    BY <1>12, <2>1, <2>2 DEF ClosePage, history
<1>13. ASSUME NEW a \in Accounts, NEW f \in Lists, NEW k \in FetchIds,
              StartFetch(a, f, k)
       PROVE  TypeOK'
  <2>1. [todo |-> users[a].list[f], got |-> {}] \in Fetch
    BY DEF Fetch, DocIds
  <2>2. fetch' \in [Accounts -> [Lists -> [FetchIds -> Fetch \cup {None}]]]
    BY <1>13, <2>1 DEF StartFetch
  <2>3. QED
    BY <1>13, <2>2 DEF StartFetch, history
<1>14. ASSUME NEW a \in Accounts, NEW f \in Lists, NEW k \in FetchIds,
              NEW x \in Accounts, ReadEntry(a, f, k, x)
       PROVE  TypeOK'
  <2>1. fetch[a][f][k] \in Fetch
    BY <1>14 DEF ReadEntry
  <2>2. \A entry \in {x, Null} :
           [todo |-> fetch[a][f][k].todo \ {x}, got |-> fetch[a][f][k].got \cup {entry}]
              \in Fetch
    BY <2>1 DEF Fetch
  <2>3. PICK r \in Fetch \cup {None} : fetch' = [fetch EXCEPT ![a][f][k] = r]
    <3>1. CASE users[x].exists
      BY <1>14, <2>2, <3>1 DEF ReadEntry
    <3>2. CASE ~users[x].exists
      BY <1>14, <3>2 DEF ReadEntry
    <3>3. QED
      BY <3>1, <3>2
  <2>4. fetch' \in [Accounts -> [Lists -> [FetchIds -> Fetch \cup {None}]]]
    BY <2>3
  <2>5. QED
    BY <1>14, <2>4 DEF ReadEntry, history
<1>15. ASSUME NEW a \in Accounts, NEW f \in Lists, NEW k \in FetchIds,
              Publish(a, f, k)
       PROVE  TypeOK'
  <2>1. fetch[a][f][k].got \subseteq Accounts \cup {Null}
    BY <1>15 DEF Publish, Fetch
  <2>2. QED
    BY <1>15, <2>1 DEF Publish, history
<1>16. ASSUME NEW a \in Accounts, NEW f \in Lists, NEW k \in FetchIds,
              FailFetch(a, f, k)
       PROVE  TypeOK'
  BY <1>16 DEF FailFetch, history
<1>17. CASE UNCHANGED vars
  BY <1>17 DEF vars, page, history
<1>18. QED
  BY <1>1, <1>2, <1>3, <1>d, <1>4, <1>5, <1>6, <1>7, <1>8, <1>9, <1>10, <1>11, <1>12,
     <1>13, <1>14, <1>15, <1>16, <1>17 DEF Next, Server, Call, Page

\* Every reachable state of the contact list is well typed.
THEOREM ContactsTypeCorrect == Spec => []TypeOK
  BY TypeInit, TypeNext, PTL DEF Spec
-----------------------------------------------------------------------------
(* Consent.                                                                *)

LEMMA ListedIff ==
  ASSUME NEW f \in Lists, NEW d \in DocIds, NEW x \in Accounts
  PROVE  <<d, x>> \in Listed(f) <=> x \in users[d].list[f]
BY DEF Listed, Pairs

\* A transaction adds to a contact list nothing but the id it sends.
LEMMA TxAddsOnlyItsId ==
  ASSUME NEW t \in Transaction, NEW doc \in ContactDoc, NEW f \in Lists,
         NEW x \in AfterTx(t, doc).list[f]
  PROVE  x \in doc.list[f] \/ (t.op = "send" /\ t.field = f /\ x = t.id)
<1>1. t.field \in Fields /\ f \in Fields /\ doc \in Doc
  BY DEF Transaction, Lists, Fields, ContactDoc
<1>2. CASE t.op = "send" /\ ~doc.exists
  BY <1>1, <1>2 DEF AfterTx, AfterSend, DocWith, NoLists
<1>3. CASE t.op = "send" /\ doc.exists
  BY <1>1, <1>3 DEF AfterTx, AfterSend, Throws, Doc
<1>4. CASE t.op # "send"
  BY <1>1, <1>4 DEF AfterTx, AfterUpdate, Doc
<1>5. QED
  BY <1>2, <1>3, <1>4

\* Toggling a favourite leaves the contact lists as they were.
LEMMA LikeAddsNobody ==
  ASSUME NEW doc \in ContactDoc, NEW p \in Products, NEW f \in Lists
  PROVE  AfterToggle(doc, "favorites", p).list[f] \subseteq doc.list[f]
BY DEF AfterToggle, DocWith, NoLists, Throws, Doc, Fields, ContactDoc, Lists

LEMMA ConsentInit == Init => ConsentInv
<1> SUFFICES ASSUME Init PROVE ConsentInv
  OBVIOUS
<1>1. OfferedOnlyIfAsked
  BY DEF Init, OfferedOnlyIfAsked, NoView, NoFetch, Shows, Lists
<1>2. SentOnlyIfConsented
  BY DEF Init, SentOnlyIfConsented, Free
<1>3. \A f \in Lists : Listed(f) = {}
  BY InitialDocs DEF Init, Listed, Pairs, NoLists, Lists, Fields
<1>4. QED
  BY <1>1, <1>2, <1>3 DEF ConsentInv, FriendsConsented, Init, Lists
LEMMA ConsentNext == TypeOK /\ ConsentInv /\ [Next]_vars => ConsentInv'
<1> SUFFICES ASSUME TypeOK, ConsentInv, [Next]_vars PROVE ConsentInv'
  OBVIOUS
<1> USE DEF ConsentInv, FriendsConsented
<1>a. Lists = {"invitations", "friends"} /\ Accounts \subseteq DocIds
  BY DEF Lists, DocIds
\* Actions of the page: documents, transactions and histories stay.
<1>b. ASSUME UNCHANGED <<users, tx, history>>, OfferedOnlyIfAsked'
      PROVE  ConsentInv'
  <2>1. SentOnlyIfConsented'
    BY <1>b DEF SentOnlyIfConsented, Free, history
  <2>2. \A f \in Lists : Listed(f)' = Listed(f)
    BY <1>b DEF Listed
  <2>3. QED
    BY <1>a, <1>b, <2>1, <2>2 DEF history
\* Calls: the documents stay and the histories grow.
<1>c. ASSUME users' = users, asked \subseteq asked', agreed \subseteq agreed',
             agreed' \subseteq asked', SentOnlyIfConsented', OfferedOnlyIfAsked'
      PROVE  ConsentInv'
  <2>1. \A f \in Lists : Listed(f)' = Listed(f)
    BY <1>c DEF Listed
  <2>2. QED
    BY <1>a, <1>c, <2>1
\* Steps of the server: the pages stay.
<1>d. ASSUME UNCHANGED <<page, asked, agreed>>, SentOnlyIfConsented',
             Listed("invitations")' \subseteq asked, Listed("friends")' \subseteq agreed
      PROVE  ConsentInv'
  <2>1. OfferedOnlyIfAsked'
    BY <1>d DEF OfferedOnlyIfAsked, Shows, page
  <2>2. QED
    BY <1>d, <2>1
<1>1. ASSUME NEW x \in Accounts, NEW t \in Accounts \cup Indexes \cup {Null},
             NEW d \in DocIds, NEW i \in TxIds, Invite(x, t, d, i)
      PROVE  ConsentInv'
  <2>1. SentOnlyIfConsented'
    BY <1>1 DEF Invite, SentOnlyIfConsented, Send, Free, TypeOK
  <2>2. OfferedOnlyIfAsked'
    BY <1>1 DEF Invite, page, OfferedOnlyIfAsked, Shows
  <2>3. QED
    BY <1>1, <1>c, <2>1, <2>2 DEF Invite
<1>2. ASSUME NEW a \in Accounts, NEW e \in Accounts, OpenReply(a, e)
      PROVE  ConsentInv'
  <2>1. OfferedOnlyIfAsked'
    BY <1>2 DEF OpenReply, OfferedOnlyIfAsked, Shows, TypeOK, history
  <2>2. QED
    BY <1>2, <1>b, <2>1 DEF OpenReply
<1>3. ASSUME NEW a \in Accounts, NEW e \in Accounts, OpenDetails(a, e)
      PROVE  ConsentInv'
  <2>1. OfferedOnlyIfAsked'
    BY <1>3 DEF OpenDetails, OfferedOnlyIfAsked, Shows, TypeOK, history
  <2>2. QED
    BY <1>3, <1>b, <2>1 DEF OpenDetails
<1>f. ASSUME NEW a \in Accounts, OpenDelete(a)
      PROVE  ConsentInv'
  <2>1. OfferedOnlyIfAsked'
    BY <1>f, DeleteOpens DEF OpenDelete, OfferedOnlyIfAsked, history
  <2>2. QED
    BY <1>f, <1>b, <2>1 DEF OpenDelete
\* A dialog that closes takes nothing else from the page.
<1>e. ASSUME NEW a \in Accounts, ClosesDialog(a), asked' = asked
      PROVE  OfferedOnlyIfAsked'
  <2>1. \A b \in Accounts : Shows(b, "reply")' =>
            Shows(b, "reply") /\ dialog'[b] = dialog[b]
    BY <1>e, DialogCloses
  <2>2. QED
    BY <1>e, <2>1 DEF ClosesDialog, OfferedOnlyIfAsked
<1>4. ASSUME NEW a \in Accounts, NEW i \in TxIds, NEW j \in TxIds, Accept(a, i, j)
      PROVE  ConsentInv'
  <2>1. dialog[a].id \in Accounts /\ <<a, dialog[a].id>> \in asked
    BY <1>4 DEF Accept, AcceptWith, Shows, Dialog, OfferedOnlyIfAsked, TypeOK
  <2>2. SentOnlyIfConsented'
    BY <1>4 DEF Accept, AcceptWith, SentOnlyIfConsented, Send, Update, Free, TypeOK
  <2>3. QED
    BY <1>4, <1>c, <1>e, <2>1, <2>2 DEF Accept, AcceptWith
<1>5. ASSUME NEW a \in Accounts, NEW i \in TxIds, Decline(a, i)
      PROVE  ConsentInv'
  <2>1. SentOnlyIfConsented'
    BY <1>5 DEF Decline, SentOnlyIfConsented, Update, Free, TypeOK
  <2>2. QED
    BY <1>5, <1>c, <1>e, <2>1 DEF Decline
<1>6. ASSUME NEW a \in Accounts, NEW i \in TxIds, Delete(a, i)
      PROVE  ConsentInv'
  <2>1. SentOnlyIfConsented'
    BY <1>6 DEF Delete, SentOnlyIfConsented, Update, Free, TypeOK
  <2>2. QED
    BY <1>6, <1>c, <1>e, <2>1 DEF Delete
<1>7. ASSUME NEW a \in Accounts, Cancel(a)
      PROVE  ConsentInv'
  BY <1>7, <1>b, <1>e DEF Cancel, history
<1>8. ASSUME NEW i \in TxIds, Commit(i) \/ Repeats(i)
      PROVE  ConsentInv'
  <2>1. /\ tx[i] \in Transaction /\ tx[i].doc \in DocIds /\ tx[i].id \in Accounts
        /\ users' = [users EXCEPT ![tx[i].doc] = AfterTx(tx[i], @)]
        /\ UNCHANGED <<page, asked, agreed>>
    BY <1>8, TxCommits
  <2>2. SentOnlyIfConsented'
    BY <1>8, <2>1, TxCommits DEF SentOnlyIfConsented, Free, TypeOK
  <2>3. users \in [DocIds -> ContactDoc]
    BY DocsType DEF TypeOK
  <2>4. ASSUME NEW f \in Lists, NEW d \in DocIds, NEW x \in Accounts,
               <<d, x>> \in Listed(f)'
        PROVE  <<d, x>> \in Listed(f) \/ (tx[i].op = "send" /\ tx[i].field = f
                                            /\ d = tx[i].doc /\ x = tx[i].id)
    <3>1. x \in users'[d].list[f]
      BY <2>4 DEF Listed
    <3>2. CASE d = tx[i].doc
      <4>1. x \in AfterTx(tx[i], users[d]).list[f]
        BY <2>1, <2>3, <3>1, <3>2
      <4>2. QED
        BY <2>1, <2>3, <3>2, <4>1, TxAddsOnlyItsId, ListedIff
    <3>3. CASE d # tx[i].doc
      BY <2>1, <2>3, <3>1, <3>3, ListedIff
    <3>4. QED
      BY <3>2, <3>3
  <2>5. tx[i] # None
    BY <2>1, NoneIsNoTransaction
  <2>6. tx[i].op = "send" =>
            <<tx[i].doc, tx[i].id>> \in IF tx[i].field = "friends" THEN agreed ELSE asked
    BY <2>5 DEF SentOnlyIfConsented, Free
  <2>7. Listed("invitations")' \subseteq asked /\ Listed("friends")' \subseteq agreed
    BY <1>a, <2>4, <2>6 DEF Listed, Pairs
  <2>8. QED
    BY <1>d, <2>1, <2>2, <2>7
<1>9. ASSUME NEW i \in TxIds, Fail(i)
      PROVE  ConsentInv'
  <2>1. SentOnlyIfConsented'
    BY <1>9 DEF Fail, Ends, SentOnlyIfConsented, Free, TypeOK
  <2>2. \A f \in Lists : Listed(f)' = Listed(f)
    BY <1>9 DEF Fail, Listed
  <2>3. QED
    BY <1>9, <1>a, <1>d, <2>1, <2>2 DEF Fail
<1>10. ASSUME NEW a \in Accounts, NEW p \in Products, Like(a, p)
       PROVE  ConsentInv'
  <2>1. users \in [DocIds -> ContactDoc]
    BY DocsType DEF TypeOK
  <2>2. \A f \in Lists, d \in DocIds : users'[d].list[f] \subseteq users[d].list[f]
    BY <1>10, <1>a, <2>1, LikeAddsNobody DEF Like
  <2>3. \A f \in Lists : Listed(f)' \subseteq Listed(f)
    BY <2>2 DEF Listed, Pairs
  <2>4. SentOnlyIfConsented'
    BY <1>10 DEF Like, SentOnlyIfConsented, Free, history
  <2>5. QED
    BY <1>10, <1>a, <1>d, <2>3, <2>4 DEF Like, history
<1>11. ASSUME NEW a \in Accounts, OpenPage(a)
       PROVE  ConsentInv'
  <2>1. OfferedOnlyIfAsked'
    BY <1>11 DEF OpenPage, OfferedOnlyIfAsked, Shows, history
  <2>2. QED
    BY <1>11, <1>b, <2>1 DEF OpenPage
<1>12. ASSUME NEW a \in Accounts, ClosePage(a)
       PROVE  ConsentInv'
  <2>1. OfferedOnlyIfAsked'
    BY <1>12, <1>a
       DEF ClosePage, OfferedOnlyIfAsked, Shows, NoFetch, NoView, TypeOK, history
  <2>2. QED
    BY <1>12, <1>b, <2>1 DEF ClosePage
<1>13. ASSUME NEW a \in Accounts, NEW f \in Lists, NEW k \in FetchIds,
              StartFetch(a, f, k)
       PROVE  ConsentInv'
  <2>1. \A x \in Accounts : x \in users[a].list["invitations"] => <<a, x>> \in asked
    BY <1>a, ListedIff
  <2>2. OfferedOnlyIfAsked'
    BY <1>13, <1>a, <2>1 DEF StartFetch, OfferedOnlyIfAsked, Shows, TypeOK, history
  <2>3. QED
    BY <1>13, <1>b, <2>2 DEF StartFetch
<1>14. ASSUME NEW a \in Accounts, NEW f \in Lists, NEW k \in FetchIds,
              NEW x \in Accounts, ReadEntry(a, f, k, x)
       PROVE  ConsentInv'
  <2> DEFINE old == fetch[a][f][k]
  <2>1. PICK r : /\ fetch' = [fetch EXCEPT ![a][f][k] = r]
                 /\ r # None => (r.todo \cup r.got) \ {Null} \subseteq old.todo \cup old.got
    <3> DEFINE entry == IF users[x].indexed THEN x ELSE Null
               read == [todo |-> old.todo \ {x}, got |-> old.got \cup {entry}]
    <3>1. /\ x \in old.todo
          /\ fetch' = [fetch EXCEPT ![a][f][k] = IF users[x].exists THEN read ELSE None]
      BY <1>14 DEF ReadEntry
    <3>2. (read.todo \cup read.got) \ {Null} \subseteq old.todo \cup old.got
      BY <3>1
    <3>3. QED
      BY <3>1, <3>2
  <2>2. fetch[a][f][k] # None /\ Null \notin Accounts
    BY <1>14, ContactsAssumption DEF ReadEntry, DocIds
  <2>3. \A b \in Accounts, l \in FetchIds :
           fetch'[b]["invitations"][l] =
              IF b = a /\ f = "invitations" /\ l = k THEN r ELSE fetch[b]["invitations"][l]
    <3>1. fetch' = [fetch EXCEPT ![a] = [fetch[a] EXCEPT ![f] = [fetch[a][f] EXCEPT ![k] = r]]]
      BY <2>1
    <3>2. /\ fetch[a] \in [Lists -> [FetchIds -> Fetch \cup {None}]]
          /\ fetch[a][f] \in [FetchIds -> Fetch \cup {None}]
          /\ a \in DOMAIN fetch
      BY DEF TypeOK
    <3>3. /\ fetch'[a]["invitations"] = [fetch[a] EXCEPT ![f] =
                                           [fetch[a][f] EXCEPT ![k] = r]]["invitations"]
          /\ \A b \in Accounts \ {a} : fetch'[b] = fetch[b]
      BY <3>1, <3>2 DEF TypeOK
    <3>4. QED
      BY <3>2, <3>3 DEF Lists
  <2>4. \A b, y \in Accounts, l \in FetchIds :
           /\ fetch'[b]["invitations"][l] # None
           /\ y \in fetch'[b]["invitations"][l].todo \cup fetch'[b]["invitations"][l].got
           => <<b, y>> \in asked
    BY <1>a, <2>1, <2>2, <2>3 DEF OfferedOnlyIfAsked
  <2>5. OfferedOnlyIfAsked'
    BY <1>14, <1>a, <2>4 DEF ReadEntry, OfferedOnlyIfAsked, Shows, history
  <2>6. QED
    BY <1>14, <1>b, <2>5 DEF ReadEntry
<1>15. ASSUME NEW a \in Accounts, NEW f \in Lists, NEW k \in FetchIds,
              Publish(a, f, k)
       PROVE  ConsentInv'
  <2>1. OfferedOnlyIfAsked'
    BY <1>15, <1>a DEF Publish, OfferedOnlyIfAsked, Shows, TypeOK, history
  <2>2. QED
    BY <1>15, <1>b, <2>1 DEF Publish
<1>16. ASSUME NEW a \in Accounts, NEW f \in Lists, NEW k \in FetchIds,
              FailFetch(a, f, k)
       PROVE  ConsentInv'
  <2>1. OfferedOnlyIfAsked'
    BY <1>16, <1>a DEF FailFetch, OfferedOnlyIfAsked, Shows, TypeOK, history
  <2>2. QED
    BY <1>16, <1>b, <2>1 DEF FailFetch
<1>17. CASE UNCHANGED vars
  <2>1. OfferedOnlyIfAsked'
    BY <1>17 DEF vars, page, history, OfferedOnlyIfAsked, Shows
  <2>2. QED
    BY <1>17, <1>b, <2>1 DEF vars
<1>18. QED
  BY <1>1, <1>2, <1>3, <1>f, <1>4, <1>5, <1>6, <1>7, <1>8, <1>9, <1>10, <1>11, <1>12,
     <1>13, <1>14, <1>15, <1>16, <1>17 DEF Next, Server, Call, Page

\* In every behaviour nobody is a friend who was not accepted, and nobody is
\* accepted who did not invite; ConsentInv is the reason and holds as well.
THEOREM ContactsConsent == Spec => [](ConsentInv /\ FriendsConsented)
<1>1. ConsentInv => FriendsConsented
  BY DEF ConsentInv
<1>2. QED
  BY TypeInit, TypeNext, ConsentInit, ConsentNext, <1>1, PTL DEF Spec
-----------------------------------------------------------------------------
(* The contact list implements Consent.                                    *)

\* What a transaction makes of one list of its document.
LEMMA TxEffect ==
  ASSUME NEW t \in Transaction, NEW doc \in ContactDoc, NEW f \in Lists
  PROVE  \/ AfterTx(t, doc).list[f] = doc.list[f]
         \/ /\ t.op = "send" /\ t.field = f
            /\ AfterTx(t, doc).list[f] = doc.list[f] \cup {t.id}
         \/ AfterTx(t, doc).list[f] = doc.list[f] \ {t.id}
<1>1. t.field \in Fields /\ f \in Fields /\ doc \in Doc
  BY DEF Transaction, Lists, Fields, ContactDoc
<1>2. CASE t.op = "send" /\ ~doc.exists
  <2>1. doc.list[f] = {}
    BY <1>1, <1>2 DEF Doc
  <2>2. QED
    BY <1>1, <1>2, <2>1 DEF AfterTx, AfterSend, DocWith, NoLists
<1>3. CASE t.op = "send" /\ doc.exists
  BY <1>1, <1>3 DEF AfterTx, AfterSend, Throws, Doc
<1>4. CASE t.op # "send"
  BY <1>1, <1>4 DEF AfterTx, AfterUpdate, Doc
<1>5. QED
  BY <1>2, <1>3, <1>4

LEMMA LikeEffect ==
  ASSUME NEW doc \in ContactDoc, NEW p \in Products, NEW f \in Lists
  PROVE  AfterToggle(doc, "favorites", p).list[f] = doc.list[f]
<1>1. CASE ~doc.exists
  <2>1. doc.list[f] = {}
    BY <1>1 DEF Doc, ContactDoc, Lists, Fields
  <2>2. QED
    BY <1>1, <2>1 DEF AfterToggle, DocWith, NoLists, Lists, Fields
<1>2. CASE doc.exists
  BY <1>2 DEF AfterToggle, Throws, Doc, Fields, ContactDoc, Lists
<1>3. QED
  BY <1>1, <1>2 DEF ContactDoc, Doc

LEMMA PromiseInit == Init => Promise!Init
  BY InitialDocs DEF Init, Promise!Init, Listed, Pairs, NoLists, Lists, Fields

LEMMA PromiseStep ==
  TypeOK /\ ConsentInv /\ [Next]_vars => [Promise!Next]_(Promise!vars)
<1> SUFFICES ASSUME TypeOK, ConsentInv, [Next]_vars
             PROVE  Promise!Next \/ UNCHANGED Promise!vars
  OBVIOUS
<1>a. "friends" \in Lists /\ Promise!Pairs = Pairs
  BY DEF Lists, Promise!Pairs, Pairs
<1>b. ASSUME users' = users, asked' = asked, agreed' = agreed
      PROVE  UNCHANGED Promise!vars
  BY <1>b DEF Listed, Promise!vars
<1>1. ASSUME NEW x \in Accounts, NEW t \in Accounts \cup Indexes \cup {Null},
             NEW d \in DocIds, NEW i \in TxIds, Invite(x, t, d, i)
      PROVE  Promise!Next
  <2>1. Promise!Ask(<<d, x>>)
    BY <1>1 DEF Invite, Promise!Ask, Listed
  <2>2. <<d, x>> \in Promise!Pairs
    BY <1>a DEF Pairs
  <2>3. QED
    BY <2>1, <2>2 DEF Promise!Next
<1>2. ASSUME NEW a \in Accounts, NEW i \in TxIds, NEW j \in TxIds, Accept(a, i, j)
      PROVE  Promise!Next
  <2>1. dialog[a].id \in Accounts /\ a \in DocIds /\ <<a, dialog[a].id>> \in asked
    BY <1>2 DEF Accept, AcceptWith, Shows, Dialog, DocIds, ConsentInv, OfferedOnlyIfAsked, TypeOK
  <2>2. Promise!Agree(<<a, dialog[a].id>>)
    BY <1>2, <2>1 DEF Accept, AcceptWith, Promise!Agree, Listed
  <2>3. <<a, dialog[a].id>> \in Promise!Pairs
    BY <1>a, <2>1 DEF Pairs
  <2>4. QED
    BY <2>2, <2>3 DEF Promise!Next
<1>3. ASSUME NEW i \in TxIds, Commit(i) \/ Repeats(i)
      PROVE  Promise!Next \/ UNCHANGED Promise!vars
  <2> DEFINE p == <<tx[i].doc, tx[i].id>>
  <2>1. /\ tx[i] \in Transaction /\ tx[i].doc \in DocIds /\ tx[i].id \in Accounts
        /\ users' = [users EXCEPT ![tx[i].doc] = AfterTx(tx[i], @)]
    BY <1>3, TxCommits
  <2>2. p \in Promise!Pairs
    BY <1>a, <2>1 DEF Pairs
  <2>3. users \in [DocIds -> ContactDoc]
    BY DocsType DEF TypeOK
  <2>4. UNCHANGED <<asked, agreed>>
    BY <1>3, TxCommits
  <2>5. \A d \in DocIds : d # tx[i].doc => users'[d] = users[d]
    BY <2>1, <2>3
  <2>6. users'[tx[i].doc].list["friends"]
            = AfterTx(tx[i], users[tx[i].doc]).list["friends"]
    BY <2>1, <2>3
  <2>7. CASE users'[tx[i].doc].list["friends"] = users[tx[i].doc].list["friends"]
    <3>1. Listed("friends")' = Listed("friends")
      BY <2>5, <2>7 DEF Listed, Pairs
    <3>2. QED
      BY <2>4, <3>1 DEF Promise!vars
  <2>8. CASE /\ tx[i].op = "send" /\ tx[i].field = "friends"
             /\ users'[tx[i].doc].list["friends"]
                   = users[tx[i].doc].list["friends"] \cup {tx[i].id}
    <3>1. Listed("friends")' = Listed("friends") \cup {p}
      BY <2>1, <2>5, <2>8 DEF Listed, Pairs
    <3>2. p \in agreed
      BY <2>1, <2>8, NoneIsNoTransaction DEF ConsentInv, SentOnlyIfConsented, Free
    <3>3. Promise!Befriend(p)
      BY <2>4, <3>1, <3>2 DEF Promise!Befriend
    <3>4. QED
      BY <2>2, <3>3 DEF Promise!Next
  <2>9. CASE users'[tx[i].doc].list["friends"]
                = users[tx[i].doc].list["friends"] \ {tx[i].id}
    <3>1. Listed("friends")' = Listed("friends") \ {p}
      BY <2>1, <2>5, <2>9 DEF Listed, Pairs
    <3>2. Promise!Unfriend(p)
      BY <2>4, <3>1 DEF Promise!Unfriend
    <3>3. QED
      BY <2>2, <3>2 DEF Promise!Next
  <2>10. QED
    BY <1>a, <2>1, <2>3, <2>6, <2>7, <2>8, <2>9, TxEffect
<1>4. ASSUME NEW a \in Accounts, NEW p \in Products, Like(a, p)
      PROVE  UNCHANGED Promise!vars
  <2>1. users \in [DocIds -> ContactDoc]
    BY DocsType DEF TypeOK
  <2>2. \A d \in DocIds : users'[d].list["friends"] = users[d].list["friends"]
    BY <1>4, <1>a, <2>1, LikeEffect DEF Like
  <2>3. Listed("friends")' = Listed("friends")
    BY <2>2 DEF Listed, Pairs
  <2>4. QED
    BY <1>4, <2>3 DEF Like, history, Promise!vars
<1>5. ASSUME NEW a \in Accounts, NEW e \in Accounts,
             OpenReply(a, e) \/ OpenDetails(a, e) \/ OpenDelete(a)
      PROVE  UNCHANGED Promise!vars
  BY <1>5, <1>b DEF OpenReply, OpenDetails, OpenDelete, history
<1>6. ASSUME NEW a \in Accounts, NEW i \in TxIds, Decline(a, i) \/ Delete(a, i)
      PROVE  UNCHANGED Promise!vars
  BY <1>6, <1>b DEF Decline, Delete
<1>7. ASSUME NEW a \in Accounts, Cancel(a) \/ OpenPage(a) \/ ClosePage(a)
      PROVE  UNCHANGED Promise!vars
  BY <1>7, <1>b DEF Cancel, OpenPage, ClosePage, history
<1>8. ASSUME NEW i \in TxIds, Fail(i)
      PROVE  UNCHANGED Promise!vars
  BY <1>8, <1>b DEF Fail
<1>9. ASSUME NEW a \in Accounts, NEW f \in Lists, NEW k \in FetchIds,
             \/ StartFetch(a, f, k)
             \/ \E x \in Accounts : ReadEntry(a, f, k, x)
             \/ Publish(a, f, k)
             \/ FailFetch(a, f, k)
      PROVE  UNCHANGED Promise!vars
  BY <1>9, <1>b DEF StartFetch, ReadEntry, Publish, FailFetch, history
<1>10. CASE UNCHANGED vars
  BY <1>10, <1>b DEF vars, history
<1>11. QED
  BY <1>1, <1>2, <1>3, <1>4, <1>5, <1>6, <1>7, <1>8, <1>9, <1>10
     DEF Next, Server, Call, Page

\* Every behaviour of the contact list is one of Consent, with the pairs listed
\* as friends for its friends and the histories for its requests and consents.
THEOREM ContactsImplementConsent == Spec => ImplementsConsent
  BY TypeInit, TypeNext, ConsentInit, ConsentNext, PromiseInit, PromiseStep, PTL
     DEF Spec, ImplementsConsent, Promise!Spec
=============================================================================
