------------------------------ MODULE Contacts ------------------------------
(***************************************************************************)
(* The contact list: ContactPage, the search page's invitation, the friend *)
(* details page and the two transactions sendInvitations and               *)
(* updateInvitations, for all accounts at once, over the documents of the  *)
(* collection "Users".                                                     *)
(*                                                                         *)
(* No caller awaits a transaction: tx holds those in flight, and they      *)
(* commit or fail in any order.  Every build of the page starts getFriends *)
(* and getInvitations again, so several fetches of one list overlap and    *)
(* each publishes what it read when its own last read has come back.       *)
(* A pair <<d, x>> is account x in a list of document d.                   *)
(***************************************************************************)
EXTENDS FiniteSets

CONSTANTS
    Accounts,     \* FirebaseAuth uids
    Indexes,      \* the hash codes _userLogUp makes userIndex of
    Spares,       \* the ids document(null) draws
    IndexOf,      \* account -> the userIndex its e-mail record leads to
    Products,     \* product ids, the other kind of id a document lists
    Null,         \* Dart's null
    None,         \* a free slot
    TxIds,        \* slots for transactions in flight (bound)
    FetchIds,     \* slots for the fetches of one list of one page (bound)
    Searches,     \* <<account, target>>: the invitations users may send (bound)
    Viewers,      \* the accounts that open their contact page (bound)
    Shoppers,     \* the accounts that use their product list (bound)
    MayFail       \* whether calls to the server may fail

DocIds == Accounts \cup Indexes \cup Spares

INSTANCE UserDocs WITH Values <- Accounts \cup Products

\* An account whose document is stored under its own uid, as the pages expect.
Provisioned(a) == IndexOf[a] = a

ASSUME ContactsAssumption ==
    /\ IndexOf \in [Accounts -> Accounts \cup Indexes]
    /\ \A a \in Accounts : IndexOf[a] \in Accounts => Provisioned(a)
    /\ Searches \subseteq Accounts \X (Accounts \cup Indexes \cup {Null})
    /\ \A s \in Searches : s[2] \in Accounts => Provisioned(s[2])
    /\ Viewers \subseteq Accounts /\ Shoppers \subseteq Accounts
    /\ MayFail \in BOOLEAN
    /\ Null \notin DocIds
    /\ \A S \in {Indexes, Spares} : Accounts \cap S = {}
    /\ Indexes \cap Spares = {}
    /\ None \notin [op : {"send", "update"}, field : {"invitations", "friends"},
                    doc : DocIds, id : Accounts]
    /\ None \notin [kind : {"reply", "details", "delete"}, id : Accounts]
    /\ None \notin [todo : SUBSET Accounts, got : SUBSET (Accounts \cup {Null})]

Lists == {"invitations", "friends"}
Transaction == [op : {"send", "update"}, field : Lists, doc : DocIds, id : Accounts]
Fetch == [todo : SUBSET Accounts, got : SUBSET (Accounts \cup {Null})]
Dialog == [kind : {"reply", "details", "delete"}, id : Accounts]
Pairs == DocIds \X Accounts

VARIABLES
    users,        \* the collection "Users"
    tx,           \* the transactions in flight
    open,         \* the accounts whose contact page is on the screen
    fetch,        \* fetch[a][f][k]: a fetch of list f by the page of account a
    view,         \* view[a][f]: the tiles shown (_friends and _notif)
    dialog,       \* what is over the page of an account: the reply dialog, the
                  \* details of a friend, or these and the delete dialog
    asked,        \* history: invitations sent
    again,        \* history: entries sent more than once, by the user or the client
    agreed,       \* history: invitations accepted
    declined,     \* history: invitations declined
    removed,      \* history: friends deleted
    lost          \* history: pairs one of whose transactions had no effect

page == <<open, fetch, view, dialog>>
history == <<asked, again, agreed, declined, removed, lost>>
vars == <<users, tx, page, history>>

NoView == [f \in Lists |-> {}]
NoFetch == [f \in Lists |-> [k \in FetchIds |-> None]]

\* Mutant: sign-up initialises the lists.
InitialDocComplete(d) ==
    IF d \in Accounts /\ Provisioned(d) THEN ProvisionedDoc
    ELSE IF \E a \in Accounts : IndexOf[a] = d THEN ProvisionedDoc
    ELSE MissingDoc

\* The documents before the contact list is used: those set up in the console
\* and those that sign-up wrote.
InitialDoc(d) ==
    IF d \in Accounts /\ Provisioned(d) THEN ProvisionedDoc
    ELSE IF \E a \in Accounts : IndexOf[a] = d THEN SignedUpDoc
    ELSE MissingDoc

Init ==
    /\ users = [d \in DocIds |-> InitialDoc(d)]
    /\ tx = [i \in TxIds |-> None]
    /\ open = {}
    /\ fetch = [a \in Accounts |-> NoFetch]
    /\ view = [a \in Accounts |-> NoView]
    /\ dialog = [a \in Accounts |-> None]
    /\ asked = {} /\ again = {} /\ agreed = {}
    /\ declined = {} /\ removed = {} /\ lost = {}
-----------------------------------------------------------------------------
(* Calls: each puts a transaction in flight and returns at once.           *)

Send(f, x, d) == [op |-> "send", field |-> f, doc |-> d, id |-> x]
Update(f, x, d) == [op |-> "update", field |-> f, doc |-> d, id |-> x]

Free(i) == tx[i] = None

\* document(target): with no target, a reference with a new id.
TargetDoc(t, d) ==
    IF t = Null
    THEN /\ d \in Spares
         /\ ~users[d].exists
         /\ {i \in TxIds : ~Free(i) /\ tx[i].doc = d} = {}
    ELSE d = t

\* Mutant: sendInvitations is called with the mode of friends.
InviteAsFriend(x, t, d, i) ==
    /\ <<x, t>> \in Searches
    /\ TargetDoc(t, d)
    /\ Free(i)
    /\ tx' = [tx EXCEPT ![i] = Send("friends", x, d)]
    /\ asked' = asked \cup {<<d, x>>}
    /\ again' = IF <<d, x>> \in asked THEN again \cup {<<d, x>>} ELSE again
    /\ UNCHANGED <<users, page, agreed, declined, removed, lost>>

\* _sendInvitation of account x, the target being what the search found.
Invite(x, t, d, i) ==
    /\ <<x, t>> \in Searches
    /\ TargetDoc(t, d)
    /\ Free(i)
    /\ tx' = [tx EXCEPT ![i] = Send("invitations", x, d)]
    /\ asked' = asked \cup {<<d, x>>}
    /\ again' = IF <<d, x>> \in asked THEN again \cup {<<d, x>>} ELSE again
    /\ UNCHANGED <<users, page, agreed, declined, removed, lost>>

\* Mutant: a tile with no index offers a reply.
OpenReplyAny(a, e) ==
    /\ a \in open
    /\ dialog[a] = None
    /\ view[a]["invitations"] # {}
    /\ \E n \in view[a]["invitations"] :
          dialog' = [dialog EXCEPT ![a] = [kind |-> "reply", id |-> n]]
    /\ UNCHANGED <<users, tx, open, fetch, view, history>>

\* Reply on a notification tile, or a tap on either kind of tile.  The tile of an
\* entry whose userIndex is null fails to build, its name being null too, and
\* offers neither.
OpenReply(a, e) ==
    /\ a \in open
    /\ dialog[a] = None
    /\ e \in view[a]["invitations"] \ {Null}
    /\ dialog' = [dialog EXCEPT ![a] = [kind |-> "reply", id |-> e]]
    /\ UNCHANGED <<users, tx, open, fetch, view, history>>

OpenDetails(a, e) ==
    /\ a \in open
    /\ dialog[a] = None
    /\ e \in (view[a]["invitations"] \cup view[a]["friends"]) \ {Null}
    /\ dialog' = [dialog EXCEPT ![a] = [kind |-> "details", id |-> e]]
    /\ UNCHANGED <<users, tx, open, fetch, view, history>>

Shows(a, kind) == dialog[a] # None /\ dialog[a].kind = kind

\* The delete button, however long the details have been on the screen.
OpenDelete(a) ==
    /\ Shows(a, "details")
    /\ dialog' = [dialog EXCEPT ![a].kind = "delete"]
    /\ UNCHANGED <<users, tx, open, fetch, view, history>>

\* One route is popped: under the delete dialog are the details.
ClosesDialog(a) ==
    /\ dialog' = [dialog EXCEPT ![a] =
                     IF Shows(a, "delete") THEN [@ EXCEPT !.kind = "details"] ELSE None]
    /\ UNCHANGED <<open, fetch, view>>

\* Accept in the reply dialog: the two transactions of _acceptReq start, both on
\* the account's own document, and the dialog closes.
AcceptWith(a, i, j, first, second) ==
    /\ Shows(a, "reply")
    /\ Free(i) /\ Free(j) /\ i # j
    /\ tx' = [tx EXCEPT ![i] = first, ![j] = second]
    /\ agreed' = agreed \cup {<<a, dialog[a].id>>}
    /\ ClosesDialog(a)
    /\ UNCHANGED <<users, asked, again, declined, removed, lost>>

\* Mutants: the invitation is not taken off; the arguments of the send are
\* swapped; the update has the mode of friends.
AcceptOnlySends(a, i, j) ==
    AcceptWith(a, i, j, Send("friends", dialog[a].id, a), None)

AcceptSwapped(a, i, j) ==
    AcceptWith(a, i, j, Send("friends", a, dialog[a].id),
                        Update("invitations", dialog[a].id, a))

AcceptWrongMode(a, i, j) ==
    AcceptWith(a, i, j, Send("friends", dialog[a].id, a),
                        Update("friends", dialog[a].id, a))

Accept(a, i, j) ==
    AcceptWith(a, i, j, Send("friends", dialog[a].id, a),
                        Update("invitations", dialog[a].id, a))

\* Mutant: _declineReq sends, as _acceptReq does.
DeclineSends(a, i) ==
    /\ Shows(a, "reply")
    /\ Free(i)
    /\ LET x == dialog[a].id IN
        /\ tx' = [tx EXCEPT ![i] = Send("friends", x, a)]
        /\ declined' = declined \cup {<<a, x>>}
    /\ ClosesDialog(a)
    /\ UNCHANGED <<users, asked, again, agreed, removed, lost>>

\* _declineReq
Decline(a, i) ==
    /\ Shows(a, "reply")
    /\ Free(i)
    /\ LET x == dialog[a].id IN
        /\ tx' = [tx EXCEPT ![i] = Update("invitations", x, a)]
        /\ declined' = declined \cup {<<a, x>>}
    /\ ClosesDialog(a)
    /\ UNCHANGED <<users, asked, again, agreed, removed, lost>>

\* _delete
Delete(a, i) ==
    /\ Shows(a, "delete")
    /\ Free(i)
    /\ LET x == dialog[a].id IN
        /\ tx' = [tx EXCEPT ![i] = Update("friends", x, a)]
        /\ removed' = removed \cup {<<a, x>>}
    /\ ClosesDialog(a)
    /\ UNCHANGED <<users, asked, again, agreed, declined, lost>>

\* Cancel, a tap beside the dialog, or the back button.
Cancel(a) ==
    /\ dialog[a] # None
    /\ ClosesDialog(a)
    /\ UNCHANGED <<users, tx, history>>
-----------------------------------------------------------------------------
(* The server.                                                             *)

\* Mutant: sendInvitations removes an id it finds, as the branch commented out
\* in its source would.
AfterTxToggling(t, doc) ==
    IF t.op = "send" THEN AfterToggle(doc, t.field, t.id)
    ELSE AfterUpdate(doc, t.field, t.id)

AfterTx(t, doc) ==
    IF t.op = "send" THEN AfterSend(doc, t.field, t.id)
    ELSE AfterUpdate(doc, t.field, t.id)

Ends(i) == tx[i] # None /\ tx' = [tx EXCEPT ![i] = None]

\* The transaction runs to its end; when its handler throws it writes nothing.
Commit(i) ==
    /\ Ends(i)
    /\ LET t == tx[i] IN
        /\ users' = [users EXCEPT ![t.doc] = AfterTx(t, @)]
        /\ lost' = IF Throws(users[t.doc], t.field)
                   THEN lost \cup {<<t.doc, t.id>>} ELSE lost
    /\ UNCHANGED <<page, asked, again, agreed, declined, removed>>

\* It commits and the client does not hear of it: the transaction is run again,
\* now or after others (Transactions.tla).
Repeats(i) ==
    /\ MayFail
    /\ tx[i] # None
    /\ LET t == tx[i] IN
        /\ ~Throws(users[t.doc], t.field)
        /\ users' = [users EXCEPT ![t.doc] = AfterTx(t, @)]
        /\ again' = IF t.op = "send" THEN again \cup {<<t.doc, t.id>>} ELSE again
    /\ UNCHANGED <<tx, page, asked, agreed, declined, removed, lost>>

\* It is given up: offline, out of attempts, or the process was killed.
Fail(i) ==
    /\ MayFail
    /\ Ends(i)
    /\ lost' = lost \cup {<<tx[i].doc, tx[i].id>>}
    /\ UNCHANGED <<users, page, asked, again, agreed, declined, removed>>

\* updateFavorites from the product list of account a, which may create the
\* document that the contact pages of others then read.
Like(a, p) ==
    /\ a \in Shoppers
    /\ users' = [users EXCEPT ![a] = AfterToggle(@, "favorites", p)]
    /\ UNCHANGED <<tx, page, history>>
-----------------------------------------------------------------------------
(* The page.                                                               *)

OpenPage(a) ==
    /\ a \in Viewers \ open
    /\ open' = open \cup {a}
    /\ UNCHANGED <<users, tx, fetch, view, dialog, history>>

\* The tab is left or the process killed: the State is disposed of with its
\* lists, and the fetches under way have nothing to publish to.
ClosePage(a) ==
    /\ a \in open
    /\ open' = open \ {a}
    /\ fetch' = [fetch EXCEPT ![a] = NoFetch]
    /\ view' = [view EXCEPT ![a] = NoView]
    /\ dialog' = [dialog EXCEPT ![a] = None]
    /\ UNCHANGED <<users, tx, history>>

\* A build starts getFriends and getInvitations.  On a document that does not
\* exist or lacks the list the method throws: nothing is started.
StartFetch(a, f, k) ==
    /\ a \in open
    /\ fetch[a][f][k] = None
    /\ f \in users[a].has
    /\ fetch' = [fetch EXCEPT ![a][f][k] =
                    [todo |-> users[a].list[f], got |-> {}]]
    /\ UNCHANGED <<users, tx, open, view, dialog, history>>

\* One more document of the list is read; one that does not exist ends the fetch.
ReadEntry(a, f, k, x) ==
    /\ fetch[a][f][k] # None
    /\ x \in fetch[a][f][k].todo
    /\ LET s == fetch[a][f][k]
           entry == IF users[x].indexed THEN x ELSE Null
       IN  fetch' = [fetch EXCEPT ![a][f][k] =
                        IF users[x].exists
                        THEN [todo |-> s.todo \ {x}, got |-> s.got \cup {entry}]
                        ELSE None]
    /\ UNCHANGED <<users, tx, open, view, dialog, history>>

\* Mutant: getInvitations publishes to _friends.
PublishToFriends(a, f, k) ==
    /\ fetch[a][f][k] # None
    /\ fetch[a][f][k].todo = {}
    /\ view' = [view EXCEPT ![a]["friends"] = fetch[a][f][k].got]
    /\ fetch' = [fetch EXCEPT ![a][f][k] = None]
    /\ UNCHANGED <<users, tx, open, dialog, history>>

\* setState with the list that was put together.
Publish(a, f, k) ==
    /\ fetch[a][f][k] # None
    /\ fetch[a][f][k].todo = {}
    /\ view' = [view EXCEPT ![a][f] = fetch[a][f][k].got]
    /\ fetch' = [fetch EXCEPT ![a][f][k] = None]
    /\ UNCHANGED <<users, tx, open, dialog, history>>

\* A get fails: nothing catches it and the fetch ends.
FailFetch(a, f, k) ==
    /\ MayFail
    /\ fetch[a][f][k] # None
    /\ fetch' = [fetch EXCEPT ![a][f][k] = None]
    /\ UNCHANGED <<users, tx, open, view, dialog, history>>
-----------------------------------------------------------------------------
Call(a) ==
    \/ \E t \in Accounts \cup Indexes \cup {Null}, d \in DocIds, i \in TxIds :
          Invite(a, t, d, i)
    \/ \E e \in Accounts : OpenReply(a, e) \/ OpenDetails(a, e)
    \/ OpenDelete(a)
    \/ \E i, j \in TxIds : Accept(a, i, j)
    \/ \E i \in TxIds : Decline(a, i) \/ Delete(a, i)
    \/ Cancel(a)

Server ==
    \/ \E i \in TxIds : Commit(i) \/ Repeats(i) \/ Fail(i)
    \/ \E a \in Accounts, p \in Products : Like(a, p)

Page(a) ==
    \/ OpenPage(a)
    \/ ClosePage(a)
    \/ \E f \in Lists, k \in FetchIds :
          \/ StartFetch(a, f, k)
          \/ \E x \in Accounts : ReadEntry(a, f, k, x)
          \/ Publish(a, f, k)
          \/ FailFetch(a, f, k)

Next == Server \/ \E a \in Accounts : Call(a) \/ Page(a)

Spec == Init /\ [][Next]_vars

Fairness ==
    /\ \A i \in TxIds : WF_vars(Commit(i))
    /\ \A a \in Accounts, f \in Lists, k \in FetchIds :
          /\ WF_vars(StartFetch(a, f, k))
          /\ WF_vars(\E x \in Accounts : ReadEntry(a, f, k, x))
          /\ WF_vars(Publish(a, f, k))

\* The server answers, and the page keeps rebuilding: each publication is a
\* setState, hence a build, hence two further fetches.
FairSpec == Spec /\ Fairness
-----------------------------------------------------------------------------
(* Properties.                                                             *)

\* Every variable has its type; a list the contact pages use holds accounts.
TypeOK ==
    /\ users \in [DocIds -> Doc]
    /\ \A d \in DocIds, f \in Lists : users[d].list[f] \subseteq Accounts
    /\ tx \in [TxIds -> Transaction \cup {None}]
    /\ open \subseteq Viewers
    /\ fetch \in [Accounts -> [Lists -> [FetchIds -> Fetch \cup {None}]]]
    /\ view \in [Accounts -> [Lists -> SUBSET (Accounts \cup {Null})]]
    /\ dialog \in [Accounts -> Dialog \cup {None}]
    /\ \A h \in {asked, again, agreed, declined, removed, lost} : h \subseteq Pairs

Listed(f) == {p \in Pairs : p[2] \in users[p[1]].list[f]}

InFlight(p) == \E i \in TxIds : ~Free(i) /\ p = <<tx[i].doc, tx[i].id>>

\* Consent: whatever the order of invitations, answers, refreshes and
\* transactions, nobody is listed as a friend in a document whose owner did not
\* accept them, and nobody is accepted who did not invite (send.dart,
\* contactPage.dart _acceptReq).
FriendsConsented ==
    /\ Listed("friends") \subseteq agreed
    /\ agreed \subseteq asked

\* Why it holds: an owner is offered an answer only to those who asked, in
\* every stage an invitation passes between the document and the dialog, and a
\* send in flight was asked for, or agreed to when it makes a friend.
OfferedOnlyIfAsked ==
    \A a, x \in Accounts :
        \/ x \in view[a]["invitations"]
        \/ Shows(a, "reply") /\ dialog[a].id = x
        \/ \E k \in FetchIds :
              /\ fetch[a]["invitations"][k] # None
              /\ x \in fetch[a]["invitations"][k].todo \cup fetch[a]["invitations"][k].got
        => <<a, x>> \in asked

SentOnlyIfConsented ==
    \A i \in TxIds : ~Free(i) /\ tx[i].op = "send" =>
        <<tx[i].doc, tx[i].id>> \in IF tx[i].field = "friends" THEN agreed ELSE asked

ConsentInv ==
    /\ OfferedOnlyIfAsked
    /\ SentOnlyIfConsented
    /\ Listed("invitations") \subseteq asked
    /\ FriendsConsented

\* No pair falls between two un-awaited transactions: an invitation is in the
\* list, on its way or answered, and an accepted friend is in the list, on the
\* way or deleted, unless one of the pair's own transactions failed.
NothingFallsThrough ==
    /\ asked \subseteq Listed("invitations") \cup agreed \cup declined
                        \cup lost \cup {p \in Pairs : InFlight(p)}
    /\ agreed \subseteq Listed("friends") \cup removed
                        \cup lost \cup {p \in Pairs : InFlight(p)}

\* Once its transactions have ended, an answered invitation is off the list, if
\* none of them failed and nothing invited a second time: neither the friend nor a
\* client that runs an invitation again whose first commit it did not hear of (a
\* second sendInvitations may commit after the answer).
AnsweredInvitationIsGone ==
    \A p \in (agreed \cup declined) \ (lost \cup again) :
        InFlight(p) \/ p \notin Listed("invitations")

\* An account made by sign-up is cut off.  Nothing ever shows on its contact
\* page and no invitation to it is ever stored, because the pages read the
\* document of its uid while sign-up and search use that of its index, whose
\* lists no transaction can start.  Nobody can answer an invitation it sends:
\* as long as its uid has no document the reader's fetch ends in an exception,
\* and once its product list has created one the tile has no name and no index.
SignedUpAccountIsCutOff ==
    \A x \in Accounts : ~Provisioned(x) =>
        /\ view[x] = NoView
        /\ IndexOf[x] \in Indexes => users[IndexOf[x]].list = NoLists
        /\ \A d \in DocIds : <<d, x>> \notin agreed \cup declined

\* An invitation leaves a list, and a friend leaves a list, only after the
\* owner answered it or deleted them: no send or failure undoes another.
OnlyTheOwnerTakesOff ==
    [][ \A p \in Pairs :
          /\ p \in Listed("invitations") /\ p \notin Listed("invitations")'
                => p \in agreed \cup declined
          /\ p \in Listed("friends") /\ p \notin Listed("friends")'
                => p \in removed ]_vars

\* Comment of sendInvitations: "Create a document for the current user in collection
\* 'users'" (send.dart 34).  Then a document it created would be its sender's.
SendCreatesOwnDocument ==
    \A d \in DocIds : users[d].exists /\ users[d].has = {"invitations"}
        => users[d].list["invitations"] \subseteq {d}

\* An invitation between provisioned accounts reaches the owner's eyes: it is
\* shown at some time, or answered from an older tile, or the owner leaves the
\* page (contactPage.dart getInvitations, build).
InvitationIsSeen ==
    \A a, x \in Accounts :
        ( <<a, x>> \in asked /\ a \in open )
        ~> ( \/ x \in view[a]["invitations"]
             \/ <<a, x>> \in agreed \cup declined \cup lost
             \/ a \notin open )

\* The contact list keeps the promise of Consent.
Promise == INSTANCE Consent WITH
    Owners <- DocIds, Others <- Accounts, friends <- Listed("friends")

ImplementsConsent == Promise!Spec
=============================================================================
