------------------------ MODULE ContactsCutOffProofs ------------------------
(***************************************************************************)
(* An account made by sign-up stays cut off from the contact list, for     *)
(* every number of accounts, transactions and fetches.                     *)
(*                                                                         *)
(* Two documents could let it in.  That of its index exists and has no     *)
(* list, so every transaction on it throws; that of its uid may come to    *)
(* exist, but nobody's search leads to it and it never has a userIndex.    *)
(***************************************************************************)
EXTENDS ContactsProofs

\* The documents of an account that is not provisioned.
DocsStayOdd(x) ==
    /\ ~users[x].indexed
    /\ users[x].has \subseteq {"favorites"}
    /\ IndexOf[x] \in Indexes => users[IndexOf[x]] = SignedUpDoc

\* Nothing is under way to its document, and its page has nothing to show.
PageStaysEmpty(x) ==
    /\ \A i \in TxIds : ~Free(i) => tx[i].doc # x
    /\ view[x] = NoView /\ fetch[x] = NoFetch /\ dialog[x] = None

\* Nobody's page has it in a tile that can be tapped, or in a dialog.
NeverOffered(x) ==
    /\ \A a \in Accounts, f \in Lists :
          /\ x \notin view[a][f]
          /\ \A k \in FetchIds : fetch[a][f][k] # None => x \notin fetch[a][f][k].got
    /\ \A a \in Accounts : dialog[a] # None => dialog[a].id # x
    /\ \A d \in DocIds : <<d, x>> \notin agreed \cup declined

CutOffInv ==
    \A x \in Accounts : ~Provisioned(x) =>
        DocsStayOdd(x) /\ PageStaysEmpty(x) /\ NeverOffered(x)

LEMMA CutOffInit == Init => CutOffInv
<1> SUFFICES ASSUME Init, NEW x \in Accounts, ~Provisioned(x)
             PROVE  DocsStayOdd(x) /\ PageStaysEmpty(x) /\ NeverOffered(x)
  BY DEF CutOffInv
<1>1. DocsStayOdd(x)
  <2>1. \A a \in Accounts : IndexOf[a] # x
    BY ContactsAssumption DEF Provisioned
  <2>2. users[x] = MissingDoc
    BY <2>1 DEF Init, InitialDoc, DocIds
  <2>3. ASSUME IndexOf[x] \in Indexes PROVE users[IndexOf[x]] = SignedUpDoc
    <3>1. IndexOf[x] \in DocIds /\ IndexOf[x] \notin Accounts
      BY <2>3, ContactsAssumption DEF DocIds
    <3>2. QED
      BY <3>1 DEF Init, InitialDoc
  <2>4. QED
    BY <2>2, <2>3 DEF DocsStayOdd, MissingDoc
<1>2. PageStaysEmpty(x)
  BY DEF Init, PageStaysEmpty, Free
<1>3. NeverOffered(x)
  BY DEF Init, NeverOffered, NoView, NoFetch
<1>4. QED
  BY <1>1, <1>2, <1>3

\* A transaction on a document of the account changes nothing that matters here.
LEMMA DocsKept ==
  ASSUME TypeOK, CutOffInv, NEW x \in Accounts, ~Provisioned(x),
         NEW i \in TxIds, ~Free(i),
         users' = [users EXCEPT ![tx[i].doc] = AfterTx(tx[i], @)]
  PROVE  DocsStayOdd(x)'
<1>1. DocsStayOdd(x) /\ PageStaysEmpty(x)
  BY DEF CutOffInv
<1>2. tx[i] \in Transaction /\ tx[i].doc # x
  BY <1>1 DEF TypeOK, Free, PageStaysEmpty
<1>3. users'[x] = users[x] /\ x \in DocIds
  BY <1>2 DEF TypeOK, DocIds, Transaction
<1>4. ASSUME IndexOf[x] \in Indexes PROVE users'[IndexOf[x]] = SignedUpDoc
  <2>1. users[IndexOf[x]] = SignedUpDoc /\ IndexOf[x] \in DocIds
    BY <1>1, <1>4 DEF DocsStayOdd, DocIds
  <2>2. AfterTx(tx[i], SignedUpDoc) = SignedUpDoc
    BY <1>2 DEF AfterTx, AfterSend, AfterUpdate, Throws, SignedUpDoc
  <2>3. QED
    BY <1>2, <2>1, <2>2 DEF TypeOK, Transaction
<1>5. QED
  BY <1>1, <1>3, <1>4 DEF DocsStayOdd

LEMMA DocsKeptByLike ==
  ASSUME TypeOK, CutOffInv, NEW x \in Accounts, ~Provisioned(x),
         NEW a \in Accounts, NEW p \in Products, Like(a, p)
  PROVE  DocsStayOdd(x)'
<1>1. DocsStayOdd(x) /\ users[x] \in Doc /\ x \in DocIds /\ a \in DocIds
  BY DEF CutOffInv, TypeOK, DocIds
<1>2. IndexOf[x] \in Indexes => users'[IndexOf[x]] = users[IndexOf[x]]
  BY ContactsAssumption DEF Like, TypeOK, DocIds
<1>3. CASE a = x
  <2>1. users'[x] = AfterToggle(users[x], "favorites", p)
    BY <1>1, <1>3 DEF Like, TypeOK
  <2>2. /\ ~AfterToggle(users[x], "favorites", p).indexed
        /\ AfterToggle(users[x], "favorites", p).has \subseteq {"favorites"}
    <3>1. CASE ~users[x].exists
      BY <1>1, <3>1 DEF AfterToggle, DocWith
    <3>2. CASE users[x].exists
      BY <1>1, <3>2 DEF AfterToggle, DocsStayOdd, Doc
    <3>3. QED
      BY <3>1, <3>2
  <2>3. QED
    BY <1>1, <1>2, <2>1, <2>2 DEF DocsStayOdd
<1>4. CASE a # x
  <2>1. users'[x] = users[x]
    BY <1>1, <1>4 DEF Like, TypeOK
  <2>2. QED
    BY <1>1, <1>2, <2>1 DEF DocsStayOdd
<1>5. QED
  BY <1>3, <1>4

LEMMA CutOffServer ==
  ASSUME TypeOK, CutOffInv, Server
  PROVE  CutOffInv'
<1> SUFFICES ASSUME NEW x \in Accounts, ~Provisioned(x)
             PROVE  (DocsStayOdd(x) /\ PageStaysEmpty(x) /\ NeverOffered(x))'
  BY DEF CutOffInv, Provisioned
<1>1. DocsStayOdd(x) /\ PageStaysEmpty(x) /\ NeverOffered(x)
  BY DEF CutOffInv
<1>2. /\ UNCHANGED <<page, agreed, declined>>
      /\ \A i \in TxIds : tx'[i] = tx[i] \/ tx'[i] = None
  <2>1. UNCHANGED <<page, agreed, declined>>
    BY DEF Server, Commit, Repeats, Fail, Like, history
  <2>2. tx' = tx \/ \E j \in TxIds : tx' = [tx EXCEPT ![j] = None]
    BY DEF Server, Commit, Repeats, Fail, Ends, Like
  <2>3. QED
    BY <2>1, <2>2 DEF TypeOK
<1>3. PageStaysEmpty(x)' /\ NeverOffered(x)'
  BY <1>1, <1>2 DEF PageStaysEmpty, NeverOffered, page, Free
<1>4. DocsStayOdd(x)'
  <2>1. CASE UNCHANGED users
    BY <1>1, <2>1 DEF DocsStayOdd
  <2>2. ASSUME NEW i \in TxIds, Commit(i) \/ Repeats(i) PROVE DocsStayOdd(x)'
    BY <2>2, DocsKept DEF Commit, Repeats, Ends, Free
  <2>3. ASSUME NEW a \in Accounts, NEW p \in Products, Like(a, p) PROVE DocsStayOdd(x)'
    BY <2>3, DocsKeptByLike
  <2>4. QED
    BY <2>1, <2>2, <2>3 DEF Server, Fail
<1>5. QED
  BY <1>3, <1>4

\* The account makes no call of a dialog, and none is about it.
LEMMA CutOffCall ==
  ASSUME TypeOK, CutOffInv, NEW a \in Accounts, Call(a)
  PROVE  CutOffInv'
<1> SUFFICES ASSUME NEW x \in Accounts, ~Provisioned(x)
             PROVE  (DocsStayOdd(x) /\ PageStaysEmpty(x) /\ NeverOffered(x))'
  BY DEF CutOffInv, Provisioned
<1>1. DocsStayOdd(x) /\ PageStaysEmpty(x) /\ NeverOffered(x)
  BY DEF CutOffInv
<1>2. UNCHANGED <<users, open, fetch, view>>
  BY DEF Call, Invite, OpenReply, OpenDetails, OpenDelete, Accept, AcceptWith, Decline,
         Delete, Cancel, ClosesDialog, page
<1>3. DocsStayOdd(x)'
  BY <1>1, <1>2 DEF DocsStayOdd
<1>4. \A i \in TxIds : tx'[i] = tx[i] \/ tx'[i].doc # x
  <2>1. ASSUME NEW t \in Accounts \cup Indexes \cup {Null}, NEW d \in DocIds,
               NEW j \in TxIds, Invite(a, t, d, j), NEW i \in TxIds
        PROVE  tx'[i] = tx[i] \/ tx'[i].doc # x
    <3>1. d # x
      BY <2>1, ContactsAssumption DEF Invite, TargetDoc
    <3>2. QED
      BY <2>1, <3>1 DEF Invite, Send, TypeOK
  <2>2. ASSUME NEW i \in TxIds, NEW j \in TxIds, Accept(a, i, j), NEW k \in TxIds
        PROVE  tx'[k] = tx[k] \/ tx'[k].doc # x
    <3>1. a # x
      BY <1>1, <2>2 DEF Accept, AcceptWith, Shows, PageStaysEmpty
    <3>2. QED
      BY <2>2, <3>1 DEF Accept, AcceptWith, Send, Update, TypeOK
  <2>3. ASSUME NEW j \in TxIds, Decline(a, j) \/ Delete(a, j), NEW i \in TxIds
        PROVE  tx'[i] = tx[i] \/ tx'[i].doc # x
    <3>1. a # x
      BY <1>1, <2>3 DEF Decline, Delete, Shows, PageStaysEmpty
    <3>2. QED
      BY <2>3, <3>1 DEF Decline, Delete, Update, TypeOK
  <2>4. CASE UNCHANGED tx
    BY <2>4
  <2>5. QED
    BY <2>1, <2>2, <2>3, <2>4 DEF Call, OpenReply, OpenDetails, OpenDelete, Cancel
<1>5. /\ dialog'[x] = None
      /\ \A b \in Accounts : dialog'[b] # None => dialog'[b].id # x
  <2>1. ASSUME NEW e \in Accounts, OpenReply(a, e) \/ OpenDetails(a, e)
        PROVE  /\ dialog'[x] = None
               /\ \A b \in Accounts : dialog'[b] # None => dialog'[b].id # x
    <3>1. e \in view[a]["invitations"] \cup view[a]["friends"]
          /\ {"invitations", "friends"} = Lists
      BY <2>1 DEF OpenReply, OpenDetails, Lists
    <3>2. e # x /\ a # x
      BY <1>1, <3>1 DEF NeverOffered, PageStaysEmpty, NoView
    <3>3. \A b \in Accounts : dialog'[b] = dialog[b] \/ (b = a /\ dialog'[b].id = e)
      BY <2>1 DEF OpenReply, OpenDetails, TypeOK
    <3>4. QED
      BY <1>1, <3>2, <3>3 DEF NeverOffered, PageStaysEmpty
  <2>2. CASE OpenDelete(a)
    <3>1. dialog[a] \in Dialog /\ a # x /\ dialog[a] # None
      BY <1>1, <2>2 DEF OpenDelete, Shows, PageStaysEmpty, TypeOK
    <3>2. \A b \in Accounts : dialog'[b] = dialog[b]
                             \/ (b = a /\ dialog'[b].id = dialog[a].id)
      BY <2>2, <3>1 DEF OpenDelete, TypeOK, Dialog
    <3>3. QED
      BY <1>1, <3>1, <3>2 DEF NeverOffered, PageStaysEmpty
  <2>3. CASE ClosesDialog(a)
    <3>1. \A b \in Accounts : \/ dialog'[b] = dialog[b]
                              \/ dialog'[b] = None
                              \/ /\ dialog[b] # None /\ dialog'[b].id = dialog[b].id
      <4>1. CASE Shows(a, "delete")
        <5>1. dialog[a] \in Dialog /\ dialog[a] # None
          BY <4>1 DEF TypeOK, Shows
        <5>2. QED
          BY <2>3, <4>1, <5>1 DEF ClosesDialog, TypeOK, Dialog
      <4>2. CASE ~Shows(a, "delete")
        BY <2>3, <4>2 DEF ClosesDialog, TypeOK
      <4>3. QED
        BY <4>1, <4>2
    <3>2. QED
      BY <1>1, <3>1 DEF NeverOffered, PageStaysEmpty
  <2>4. CASE UNCHANGED dialog
    BY <1>1, <2>4 DEF NeverOffered, PageStaysEmpty
  <2>5. QED
    BY <2>1, <2>2, <2>3, <2>4 DEF Call, Invite, Accept, AcceptWith, Decline, Delete, Cancel,
       page
<1>6. \A d \in DocIds : <<d, x>> \notin agreed' \cup declined'
  <2>1. dialog[a] # None => dialog[a].id # x
    BY <1>1 DEF NeverOffered
  <2>2. \A p \in (agreed' \cup declined') \ (agreed \cup declined) :
            dialog[a] # None /\ p = <<a, dialog[a].id>>
    BY DEF Call, Invite, OpenReply, OpenDetails, OpenDelete, Accept, AcceptWith, Decline,
           Delete, Cancel, history, Shows
  <2>3. QED
    BY <1>1, <2>1, <2>2 DEF NeverOffered
<1>7. PageStaysEmpty(x)'
  BY <1>1, <1>2, <1>4, <1>5 DEF PageStaysEmpty, Free
<1>8. NeverOffered(x)'
  BY <1>1, <1>2, <1>5, <1>6 DEF NeverOffered
<1>9. QED
  BY <1>3, <1>7, <1>8

LEMMA CutOffPage ==
  ASSUME TypeOK, CutOffInv, NEW a \in Accounts, Page(a)
  PROVE  CutOffInv'
<1> SUFFICES ASSUME NEW x \in Accounts, ~Provisioned(x)
             PROVE  (DocsStayOdd(x) /\ PageStaysEmpty(x) /\ NeverOffered(x))'
  BY DEF CutOffInv, Provisioned
<1>1. DocsStayOdd(x) /\ PageStaysEmpty(x) /\ NeverOffered(x)
  BY DEF CutOffInv
<1>2. UNCHANGED <<users, tx, history>>
  BY DEF Page, OpenPage, ClosePage, StartFetch, ReadEntry, Publish, FailFetch
<1>3. DocsStayOdd(x)'
  BY <1>1, <1>2 DEF DocsStayOdd
<1>4. CASE OpenPage(a)
  BY <1>1, <1>2, <1>3, <1>4 DEF OpenPage, PageStaysEmpty, NeverOffered, Free, history
<1>5. CASE ClosePage(a)
  <2>1. /\ \A b \in Accounts : /\ fetch'[b] = IF b = a THEN NoFetch ELSE fetch[b]
                               /\ view'[b] = IF b = a THEN NoView ELSE view[b]
                               /\ dialog'[b] = IF b = a THEN None ELSE dialog[b]
    BY <1>5 DEF ClosePage, TypeOK
  <2>2. PageStaysEmpty(x)'
    BY <1>1, <1>2, <2>1 DEF PageStaysEmpty, Free
  <2>3. NeverOffered(x)'
    BY <1>1, <1>2, <2>1 DEF NeverOffered, NoView, NoFetch, history
  <2>4. QED
    BY <1>3, <2>2, <2>3
<1>6. ASSUME NEW f \in Lists, NEW k \in FetchIds, StartFetch(a, f, k)
      PROVE  (PageStaysEmpty(x) /\ NeverOffered(x))'
  <2>1. a # x
    BY <1>1, <1>6 DEF StartFetch, DocsStayOdd, Lists
  <2>2. /\ UNCHANGED <<view, dialog>>
        /\ fetch'[x] = fetch[x]
        /\ \A b \in Accounts, g \in Lists, m \in FetchIds :
              fetch'[b][g][m] = fetch[b][g][m] \/ fetch'[b][g][m].got = {}
    BY <1>6, <2>1 DEF StartFetch, TypeOK
  <2>3. QED
    BY <1>1, <1>2, <2>2 DEF PageStaysEmpty, NeverOffered, Free, history
<1>7. ASSUME NEW f \in Lists, NEW k \in FetchIds,
             \/ \E e \in Accounts : ReadEntry(a, f, k, e)
             \/ Publish(a, f, k)
             \/ FailFetch(a, f, k)
      PROVE  (PageStaysEmpty(x) /\ NeverOffered(x))'
  <2>1. fetch[a][f][k] # None /\ fetch[a][f][k] \in Fetch
    BY <1>7 DEF ReadEntry, Publish, FailFetch, TypeOK
  <2>2. a # x /\ x \notin fetch[a][f][k].got
    BY <1>1, <2>1 DEF PageStaysEmpty, NoFetch, NeverOffered
  <2>3. /\ dialog' = dialog /\ fetch'[x] = fetch[x] /\ view'[x] = view[x]
    BY <1>7, <2>2 DEF ReadEntry, Publish, FailFetch, TypeOK
  <2>4. \A b \in Accounts, g \in Lists : x \notin view'[b][g]
    <3>1. CASE Publish(a, f, k)
      <4>1. \A b \in Accounts, g \in Lists :
                view'[b][g] = view[b][g] \/ view'[b][g] = fetch[a][f][k].got
        BY <3>1 DEF Publish, TypeOK
      <4>2. QED
        BY <1>1, <2>2, <4>1 DEF NeverOffered
    <3>2. CASE view' = view
      BY <1>1, <3>2 DEF NeverOffered
    <3>3. QED
      BY <1>7, <3>1, <3>2 DEF ReadEntry, FailFetch
  <2>5. \A b \in Accounts, g \in Lists, m \in FetchIds :
            fetch'[b][g][m] # None => x \notin fetch'[b][g][m].got
    <3>1. PICK s : /\ fetch' = [fetch EXCEPT ![a][f][k] = s]
                   /\ s # None => x \notin s.got
      <4>1. CASE Publish(a, f, k) \/ FailFetch(a, f, k)
        BY <4>1 DEF Publish, FailFetch
      <4>2. ASSUME NEW e \in Accounts, ReadEntry(a, f, k, e)
            PROVE  \E s : /\ fetch' = [fetch EXCEPT ![a][f][k] = s]
                          /\ s # None => x \notin s.got
        <5> DEFINE entry == IF users[e].indexed THEN e ELSE Null
                   next == [todo |-> fetch[a][f][k].todo \ {e},
                            got |-> fetch[a][f][k].got \cup {entry}]
        <5>1. x \notin next.got
          BY <1>1, <2>2, ContactsAssumption DEF DocsStayOdd, DocIds
        <5>2. fetch' = [fetch EXCEPT ![a][f][k] = IF users[e].exists THEN next ELSE None]
          BY <4>2 DEF ReadEntry
        <5> HIDE DEF next
        <5>3. QED
          BY <5>1, <5>2
      <4>3. QED
        BY <1>7, <4>1, <4>2
    <3>2. \A b \in Accounts, g \in Lists, m \in FetchIds :
              fetch'[b][g][m] = s \/ fetch'[b][g][m] = fetch[b][g][m]
      BY <3>1 DEF TypeOK
    <3>3. QED
      BY <1>1, <3>1, <3>2 DEF NeverOffered
  <2>6. QED
    BY <1>1, <1>2, <2>3, <2>4, <2>5 DEF PageStaysEmpty, NeverOffered, Free, history
<1>8. QED
  BY <1>3, <1>4, <1>5, <1>6, <1>7 DEF Page

LEMMA CutOffNext == TypeOK /\ CutOffInv /\ [Next]_vars => CutOffInv'
<1>1. ASSUME UNCHANGED vars, CutOffInv PROVE CutOffInv'
  BY <1>1 DEF vars, page, history, CutOffInv, Provisioned, DocsStayOdd, PageStaysEmpty,
              NeverOffered, Free
<1>2. QED
  BY <1>1, CutOffServer, CutOffCall, CutOffPage DEF Next

\* An account made by sign-up is cut off from the contact list for ever.
THEOREM SignedUpStaysCutOff == Spec => []SignedUpAccountIsCutOff
<1>1. CutOffInv => SignedUpAccountIsCutOff
  BY DEF CutOffInv, DocsStayOdd, PageStaysEmpty, NeverOffered, SignedUpAccountIsCutOff,
         SignedUpDoc
<1>2. QED
  BY TypeInit, TypeNext, CutOffInit, CutOffNext, <1>1, PTL DEF Spec
=============================================================================
