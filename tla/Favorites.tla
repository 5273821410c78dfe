----------------------------- MODULE Favorites -----------------------------
(***************************************************************************)
(* Favourites: the hearts on the list page and on the detail page, the     *)
(* transactions of updateFavorites they start without waiting, and the     *)
(* copy of a list that the StateModel keeps, which a sign-in reads.        *)
(*                                                                         *)
(* A page learns the result of a transaction in a callback that runs after *)
(* any number of other steps: its page may be gone, the StateModel may be  *)
(* another one, or the same one with a list read meanwhile, of the same    *)
(* account or of another.  Nobody reads the list back after a tap: each    *)
(* copy follows the server only by repeating the toggles it is told of.    *)
(***************************************************************************)
EXTENDS Naturals, FiniteSets

CONSTANTS
    Accounts,     \* FirebaseAuth uids
    Products,     \* product ids
    Stranger,     \* an account that may send an invitation
    Null,         \* Dart's null: no user, no list, no product on a detail page
    None,         \* a free slot
    CallIds,      \* slots for transactions not ended or not answered (bound)
    SignIds,      \* slots for the sign-ins in flight (bound)
    Debug,        \* whether setState asserts that its page is there
    MayFail       \* whether transactions, reads and answers may be lost

INSTANCE UserDocs WITH Values <- Products \cup {Stranger}

\* A call of updateFavorites: for which account and from which page, whether that
\* page is still mounted and its StateModel still the shared one, and whether the
\* transaction has committed.
Call == [acct : Accounts, item : Products, from : {"list", "detail"},
         mounted : BOOLEAN, current : BOOLEAN, done : BOOLEAN]

\* A sign-in: what it waits for, the list it has read and, as history, the
\* products that list missed a toggle of.
SignInCall == [acct : Accounts, at : {"auth", "favorites", "recommended"},
               list : SUBSET Products, missed : SUBSET Products]

ASSUME FavoritesAssumption ==
    /\ IsFiniteSet(CallIds)
    /\ Null \notin Products /\ Null \notin Accounts /\ Stranger \notin Products
    /\ None \notin Call /\ None \notin SignInCall
    /\ {Debug, MayFail} \subseteq BOOLEAN

VARIABLES
    docs,       \* the documents of the collection "Users", by uid
    user,       \* StateModel.user
    signedIn,   \* StateModel.isSignedIn
    mem,        \* StateModel.favorites ...
    owner,      \* ... and, as history, whose list it is: Null where it is null
    signIns,    \* the sign-ins in flight
    page,       \* the page on the screen
    item,       \* the product of the detail page ...
    heart,      \* ... and its _inFavorites
    calls,      \* the calls in flight
    stale,      \* history: products whose heart on the list page missed a toggle
    heartStale  \* history: whether the heart of the detail page missed one

state == <<user, signedIn, mem, owner>>
screen == <<page, item, heart>>
vars == <<docs, state, signIns, screen, calls, stale, heartStale>>

Pages == {"out", "other", "list", "detail"}

Loaded == owner # Null

Init ==
    /\ docs \in [Accounts -> {ProvisionedDoc, MissingDoc}]
    /\ user = Null /\ signedIn = FALSE /\ mem = {} /\ owner = Null
    /\ signIns = [s \in SignIds |-> None]
    /\ page = "out" /\ item = Null /\ heart = FALSE
    /\ calls = [i \in CallIds |-> None]
    /\ stale = {} /\ heartStale = FALSE
-----------------------------------------------------------------------------
(* Moving between the pages.                                               *)

NoDetail == item' = Null /\ heart' = FALSE /\ heartStale' = FALSE

\* The State of a page that is left is unmounted; its calls go on.
Unmounts(from) ==
    calls' = [i \in CallIds |->
                 IF calls[i] # None /\ calls[i].from = from
                 THEN [calls[i] EXCEPT !.mounted = FALSE] ELSE calls[i]]

OpenList ==
    /\ page = "other"
    /\ page' = "list"
    /\ UNCHANGED <<docs, state, signIns, item, heart, calls, stale, heartStale>>

\* Another tab, or Back from the home page to the login page under it, where
\* nobody is signed out.
LeaveList ==
    /\ page = "list"
    /\ page' \in {"other", "out"}
    /\ Unmounts("list")
    /\ UNCHANGED <<docs, state, signIns, item, heart, stale, heartStale>>

Back ==
    /\ page = "other"
    /\ page' = "out"
    /\ UNCHANGED <<docs, state, signIns, item, heart, calls, stale, heartStale>>

\* The toggles of product p on their way to the list page, or to the detail page.
ToList(p) ==
    {i \in CallIds : /\ calls[i] # None
                     /\ calls[i].item = p /\ calls[i].from = "list"
                     /\ calls[i].current /\ calls[i].done}

ToDetail ==
    {i \in CallIds : /\ calls[i] # None
                     /\ calls[i].from = "detail" /\ calls[i].mounted /\ calls[i].done}

OnTheWay == {p \in Products : ToList(p) # {}}

\* The detail page copies the heart of the tile.  It lies over the list page.
\* With no list in the state no tile is built.
OpenDetail(p) ==
    /\ page = "list" /\ Loaded
    /\ page' = "detail" /\ item' = p
    /\ heart' = (p \in mem)
    /\ heartStale' = (user # owner \/ p \in stale \cup OnTheWay)
    /\ UNCHANGED <<docs, state, signIns, calls, stale>>

\* Mutant: the page is popped and its product kept.
CloseDetailKeepsItem ==
    /\ page = "detail"
    /\ page' = "list"
    /\ heart' = FALSE /\ heartStale' = FALSE
    /\ Unmounts("detail")
    /\ UNCHANGED <<docs, state, signIns, item, stale>>

CloseDetail ==
    /\ page = "detail"
    /\ page' = "list"
    /\ NoDetail
    /\ Unmounts("detail")
    /\ UNCHANGED <<docs, state, signIns, stale>>
-----------------------------------------------------------------------------
(* Signing in and out, which writes to the StateModel under every page.    *)

\* A login button, and initUser.  Its Future may go on when its page is gone, or
\* beside that of another tap.
TapLogin(s, a) ==
    /\ page = "out"
    /\ signIns[s] = None
    /\ signIns' = [signIns EXCEPT ![s] =
                     [acct |-> a, at |-> "auth", list |-> {}, missed |-> {}]]
    /\ UNCHANGED <<docs, state, screen, calls, stale, heartStale>>

At(s, await) == signIns[s] # None /\ signIns[s].at = await

Returns(s) == signIns' = [signIns EXCEPT ![s] = None]

\* FirebaseAuth refuses, a read throws, or getRecommended finds no user.
SignInFails(s) ==
    /\ signIns[s] # None
    /\ At(s, "auth") \/ user = Null \/ MayFail
    /\ Returns(s)
    /\ UNCHANGED <<docs, state, screen, calls, stale, heartStale>>

\* The heart of an open detail page is of the user it was opened for.
TurnsUserTo(a) ==
    /\ user' = a
    /\ heartStale' = (heartStale \/ (page = "detail" /\ a # user))

\* The home page opens, if the login page is still there.  What is pushed over
\* another page is not followed: that page stays mounted under it.
OpensHome == page' \in IF page = "out" THEN {"out", "other"} ELSE {page}

\* The user is in the state before the list is asked for: taps are for it now.
SignInSetsUser(s) ==
    /\ At(s, "auth")
    /\ TurnsUserTo(signIns[s].acct)
    /\ signIns' = [signIns EXCEPT ![s].at = "favorites"]
    /\ UNCHANGED <<docs, signedIn, mem, owner, screen, calls, stale>>

\* signInWithEmail of an unverified account takes the user out again.
Unverified(s) ==
    /\ At(s, "auth")
    /\ TurnsUserTo(Null)
    /\ IF signedIn THEN OpensHome ELSE UNCHANGED page
    /\ Returns(s)
    /\ UNCHANGED <<docs, signedIn, mem, owner, item, heart, calls, stale>>

\* signInWithTwitter reads no list, and leaves the one that is there.
Twitter(s) ==
    /\ At(s, "auth")
    /\ TurnsUserTo(signIns[s].acct)
    /\ signedIn' = TRUE
    /\ OpensHome
    /\ Returns(s)
    /\ UNCHANGED <<docs, mem, owner, item, heart, calls, stale>>

\* So does signUpWithEmail, after which nobody is signed in.
SignsUp(s) ==
    /\ At(s, "auth")
    /\ TurnsUserTo(signIns[s].acct)
    /\ Returns(s)
    /\ UNCHANGED <<docs, signedIn, mem, owner, screen, calls, stale>>

\* getFavorites reads the list: a field that is not a list, or a document that is
\* missing, counts as an empty one.  What is on its way to the StateModel is in
\* it already.  Without a network the client answers from its cache, with a list
\* of any age.
SignInReads(s) ==
    /\ At(s, "favorites")
    /\ \/ signIns' = [signIns EXCEPT ![s].at = "recommended",
                           ![s].list = docs[signIns[s].acct].list["favorites"],
                           ![s].missed = OnTheWay]
       \/ /\ MayFail
          /\ \E list \in SUBSET Products :
                signIns' = [signIns EXCEPT ![s].at = "recommended",
                               ![s].list = list, ![s].missed = Products]
    /\ UNCHANGED <<docs, state, screen, calls, stale, heartStale>>

\* getRecommended answers: what was read goes into the StateModel of the moment.
SignInPublishes(s) ==
    /\ At(s, "recommended")
    /\ TurnsUserTo(signIns[s].acct)
    /\ signedIn' = TRUE
    /\ mem' = signIns[s].list /\ owner' = signIns[s].acct
    /\ stale' = signIns[s].missed
    /\ OpensHome
    /\ Returns(s)
    /\ UNCHANGED <<docs, item, heart, calls>>

\* A list that was read for account a and is not published yet misses the toggles
\* of the products in missed[a].
ReadsMiss(missed) ==
    signIns' = [s \in SignIds |->
                   IF At(s, "recommended")
                   THEN [signIns[s] EXCEPT !.missed = @ \cup missed[signIns[s].acct]]
                   ELSE signIns[s]]

\* A sign-out ends, on whatever page, and a fresh StateModel replaces the old
\* one.  A page that is still mounted is built again with it; the calls of the
\* others keep the old one.  The button opens the login page if its own is there.
SignOut ==
    /\ user' = Null /\ signedIn' = FALSE /\ mem' = {} /\ owner' = Null /\ stale' = {}
    /\ page' \in {page, "out"}
    /\ IF page' = page
       THEN /\ heartStale' = (page = "detail")
            /\ UNCHANGED <<item, heart>>
       ELSE NoDetail
    /\ calls' = [i \in CallIds |->
                    IF calls[i] = None THEN None
                    ELSE LET stays == calls[i].mounted /\ page' = page
                         IN  [calls[i] EXCEPT !.mounted = stays, !.current = stays]]
    /\ ReadsMiss([a \in Accounts |-> OnTheWay])
    /\ UNCHANGED docs
-----------------------------------------------------------------------------
(* Taps on a heart, and what becomes of them.                              *)

NewCall(p, from) ==
    [acct |-> user, item |-> p, from |-> from,
     mounted |-> TRUE, current |-> TRUE, done |-> FALSE]

\* The uid is the one the state has at the tap; with no user the tap throws.
Starts(i, p, from) ==
    /\ calls[i] = None
    /\ user # Null
    /\ calls' = [calls EXCEPT ![i] = NewCall(p, from)]
    /\ UNCHANGED <<docs, state, signIns, screen, stale, heartStale>>

TapHeart(i, p) == page = "list" /\ Loaded /\ Starts(i, p, "list")

TapDetail(i) == page = "detail" /\ Starts(i, item, "detail")

Ends(i) == calls' = [calls EXCEPT ![i] = None]

\* Mutant: a new document is given every list.
AfterCallComplete(c) ==
    IF ~docs[c.acct].exists THEN [DocWith("favorites", c.item) EXCEPT !.has = Fields]
    ELSE AfterToggle(docs[c.acct], "favorites", c.item)

AfterCall(c) == AfterToggle(docs[c.acct], "favorites", c.item)

\* Whether a list kept for account a is not told of this toggle of a's, or is
\* told of one of another account's.
Misses(c, a, lostAnswer) ==
    LET told == c.from = "list" /\ c.current /\ ~lostAnswer
    IN  told # (c.acct = a)

Missed(c, a, lostAnswer) == IF Misses(c, a, lostAnswer) THEN {c.item} ELSE {}

\* Call i commits.
Toggles(i, lostAnswer) ==
    LET c == calls[i] IN
    /\ c # None /\ ~c.done
    /\ ~Throws(docs[c.acct], "favorites")
    /\ docs' = [docs EXCEPT ![c.acct] = AfterCall(c)]
    /\ stale' = IF Loaded THEN stale \cup Missed(c, owner, lostAnswer) ELSE stale
    /\ ReadsMiss([a \in Accounts |-> Missed(c, a, lostAnswer)])
    /\ heartStale' = \/ heartStale
                     \/ /\ page = "detail" /\ c.item = item /\ c.acct = user
                        /\ ~(c.from = "detail" /\ c.mounted) \/ lostAnswer
    /\ UNCHANGED <<state, screen>>

\* The transaction commits, and its answer is on the way.
Commit(i) ==
    /\ Toggles(i, FALSE)
    /\ calls' = [calls EXCEPT ![i].done = TRUE]

\* It commits, the client does not hear of it and runs it again: it is toggled
\* back, and whatever the Future yields is not what happened (Transactions.tla).
Repeats(i) ==
    /\ MayFail
    /\ Toggles(i, TRUE)
    /\ UNCHANGED calls

\* It commits, and no answer is heard in any attempt: the Future yields false.
LoseAnswer(i) ==
    /\ MayFail
    /\ Toggles(i, TRUE)
    /\ Ends(i)

\* It does not commit: it is given up, or its handler throws.  The Future yields
\* false, and either page then leaves its heart alone.
RefusedWith(i, newHeart) ==
    /\ calls[i] # None /\ ~calls[i].done
    /\ MayFail \/ Throws(docs[calls[i].acct], "favorites")
    /\ heart' = newHeart
    /\ Ends(i)
    /\ UNCHANGED <<docs, state, signIns, page, item, stale, heartStale>>

\* Mutant: the detail page does not look at the result.
RefusedUnseen(i) ==
    RefusedWith(i, IF calls[i] # None /\ calls[i].from = "detail" /\ calls[i].mounted
                   THEN ~heart ELSE heart)

Refused(i) == RefusedWith(i, heart)

\* Whether the answer is for the list of the shared StateModel, and whether it is
\* applied to it: the function throws where the list is null, and setState on a
\* page that is gone runs it only where asserts are off.
ForList(c) == c.from = "list" /\ c.current

Applies(c) == ForList(c) /\ Loaded /\ (c.mounted \/ ~Debug)

\* Mutant: the product is added whether or not it is there.
ToggledAdds(p) == mem \cup {p}

Toggled(p) == IF p \in mem THEN mem \ {p} ELSE mem \cup {p}

Answer(i) ==
    /\ calls[i] # None /\ calls[i].done
    /\ Ends(i)
    /\ LET c == calls[i] IN
        /\ mem' = IF Applies(c) THEN Toggled(c.item) ELSE mem
        /\ stale' = IF ForList(c) /\ Loaded /\ ~Applies(c)
                    THEN stale \cup {c.item} ELSE stale
        /\ ReadsMiss([a \in Accounts |-> IF ForList(c) THEN {c.item} ELSE {}])
        /\ heart' = IF c.from = "detail" /\ c.mounted THEN ~heart ELSE heart
    /\ UNCHANGED <<docs, user, signedIn, owner, page, item, heartStale>>

\* sendInvitations of somebody else creates the document.
Invited(a) ==
    /\ ~docs[a].exists
    /\ docs' = [docs EXCEPT ![a] = DocWith("invitations", Stranger)]
    /\ UNCHANGED <<state, signIns, screen, calls, stale, heartStale>>

Next ==
    \/ OpenList
    \/ LeaveList
    \/ Back
    \/ \E p \in Products : OpenDetail(p)
    \/ CloseDetail
    \/ \E s \in SignIds :
          \/ \E a \in Accounts : TapLogin(s, a)
          \/ SignInFails(s)
          \/ SignInSetsUser(s)
          \/ Unverified(s)
          \/ Twitter(s)
          \/ SignsUp(s)
          \/ SignInReads(s)
          \/ SignInPublishes(s)
    \/ SignOut
    \/ \E i \in CallIds, p \in Products : TapHeart(i, p)
    \/ \E i \in CallIds :
          \/ TapDetail(i)
          \/ Commit(i)
          \/ Repeats(i)
          \/ LoseAnswer(i)
          \/ Refused(i)
          \/ Answer(i)
    \/ \E a \in Accounts : Invited(a)

Spec == Init /\ [][Next]_vars
-----------------------------------------------------------------------------
(* Properties.                                                             *)

\* Every variable has its type, and there is a product where there is a detail
\* page.
TypeOK ==
    /\ docs \in [Accounts -> Doc]
    /\ user \in Accounts \cup {Null} /\ owner \in Accounts \cup {Null}
    /\ mem \subseteq Products /\ stale \subseteq Products
    /\ {signedIn, heart, heartStale} \subseteq BOOLEAN
    /\ signIns \in [SignIds -> SignInCall \cup {None}]
    /\ page \in Pages
    /\ item \in Products \cup {Null} /\ (item # Null <=> page = "detail")
    /\ calls \in [CallIds -> Call \cup {None}]

\* A list follows the server in product p: it has it where account a's list has
\* it exactly when an even number of toggles is on its way.
Follows(list, a, p) ==
    (p \in list <=> p \in docs[a].list["favorites"]) <=> Cardinality(ToList(p)) % 2 = 0

\* The hearts of the list page follow the server, though the list is not read
\* back and answers come in any order, also when a sign-in reads and publishes a
\* list while toggles are in flight.  What breaks this: a toggle the StateModel
\* is not told of (from the detail page, of a StateModel that was signed out, one
\* whose answer is lost, one that the client repeats or, in a debug build, one
\* that finds the list page gone); one of another account that it is told of; and
\* one whose answer crosses a sign-in, arriving after the list was read that has
\* it already, or before the list is published that lacks it (listPage.dart
\* 134-146, state_widget.dart 98-111, store.dart).
ListFollowsServer ==
    Loaded => \A p \in Products \ stale : Follows(mem, owner, p)

\* So does the heart of the detail page, if it was right when the page opened,
\* the user is the same since and no toggle from elsewhere arrived (detail.dart
\* 99-105).
HeartFollowsServer ==
    (page = "detail" /\ ~heartStale) =>
        ( (heart <=> item \in docs[user].list["favorites"])
            <=> Cardinality(ToDetail) % 2 = 0 )

\* A document that a first tap or a first invitation created has that one list
\* for ever, as the transactions on every other list throw: an account without a
\* document gets favourites or invitations, whichever was written first.
CreatedDocumentHasOneList ==
    \A a \in Accounts : LET doc == docs[a] IN
        doc.exists /\ ~doc.indexed => Cardinality(doc.has) = 1
=============================================================================
