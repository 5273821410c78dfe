--------------------------- MODULE FavoritesProofs ---------------------------
(***************************************************************************)
(* The hearts of both pages follow the server, for every number of         *)
(* accounts, products, sign-ins and calls in flight.                       *)
(*                                                                         *)
(* Each copy differs from the server's list exactly by the toggles on      *)
(* their way to it, so what has to be followed is the parity of their      *)
(* number, from the tap through the commit to the answer.  A list that a   *)
(* sign-in has read is such a copy before it is published.                 *)
(***************************************************************************)
EXTENDS Favorites, FiniteSetTheorems, TLAPS

Even(S) == Cardinality(S) % 2 = 0

LEMMA EvenEmpty == Even({})
BY FS_EmptySet DEF Even

LEMMA EvenFlips ==
  ASSUME NEW S, NEW x, IsFiniteSet(S), x \notin S
  PROVE  Even(S \cup {x}) <=> ~Even(S)
<1>1. Cardinality(S) \in Nat /\ Cardinality(S \cup {x}) = Cardinality(S) + 1
  BY FS_AddElement, FS_CardinalityType
<1>2. \A n \in Nat : (n + 1) % 2 = 0 <=> ~(n % 2 = 0)
  OBVIOUS
<1>3. QED
  BY <1>1, <1>2 DEF Even

LEMMA CallsAreFinite ==
  /\ \A p \in Products : IsFiniteSet(ToList(p))
  /\ IsFiniteSet(ToDetail)
BY FS_Subset, FavoritesAssumption DEF ToList, ToDetail

LEMMA CallsAreFiniteLater ==
  /\ \A p \in Products : IsFiniteSet(ToList(p)')
  /\ IsFiniteSet(ToDetail')
BY FS_Subset, FavoritesAssumption DEF ToList, ToDetail

LEMMA NoneIsNoCall == None \notin Call /\ None \notin SignInCall
BY FavoritesAssumption

LEMMA ToggleKeepsDoc ==
  ASSUME NEW d \in Doc, NEW p \in Products
  PROVE  /\ AfterToggle(d, "favorites", p) \in Doc
         /\ d.list["favorites"] \subseteq Products =>
                AfterToggle(d, "favorites", p).list["favorites"] \subseteq Products
<1>1. CASE ~d.exists
  BY <1>1 DEF AfterToggle, DocWith, NoLists, Doc, Fields
<1>2. CASE d.exists
  BY <1>2 DEF AfterToggle, Throws, Doc, Fields
<1>3. QED
  BY <1>1, <1>2

\* A toggle changes whether its own product is listed and no other.
LEMMA ToggleFlips ==
  ASSUME NEW d \in Doc, NEW p \in Products, NEW q \in Products, ~Throws(d, "favorites")
  PROVE  q \in AfterToggle(d, "favorites", p).list["favorites"]
            <=> IF q = p THEN q \notin d.list["favorites"] ELSE q \in d.list["favorites"]
<1>1. CASE ~d.exists
  <2>1. d.list["favorites"] = {}
    BY <1>1 DEF Doc, Fields
  <2>2. AfterToggle(d, "favorites", p).list["favorites"] = {p}
    BY <1>1 DEF AfterToggle, DocWith, NoLists, Fields
  <2>3. QED
    BY <2>1, <2>2
<1>2. CASE d.exists
  BY <1>2 DEF AfterToggle, Throws, Doc, Fields
<1>3. QED
  BY <1>1, <1>2
-----------------------------------------------------------------------------
(* Type correctness, and what is true of the calls in flight.              *)

\* A mounted page has the shared StateModel; a call of a mounted detail page is
\* for the product it shows and, unless it missed something, the present user.
CallsFitPages ==
    \A i \in CallIds : calls[i] # None =>
        /\ calls[i].mounted => calls[i].current
        /\ calls[i].from = "detail" /\ calls[i].mounted =>
               /\ page = "detail" /\ calls[i].item = item
               /\ ~heartStale => calls[i].acct = user

\* A detail page that missed nothing is somebody's.
HeartHasUser == page = "detail" /\ ~heartStale => user # Null

\* A list of favourites has products only, and no account of another list.
LikesProducts == \A a \in Accounts : docs[a].list["favorites"] \subseteq Products

Sound == TypeOK /\ CallsFitPages /\ HeartHasUser /\ LikesProducts

\* What Unmounts makes of the calls.
LEMMA UnmountsCalls ==
  ASSUME TypeOK, NEW from, Unmounts(from)
  PROVE  /\ calls' \in [CallIds -> Call \cup {None}]
         /\ \A i \in CallIds :
               /\ calls'[i] = None <=> calls[i] = None
               /\ calls[i] # None =>
                     /\ calls'[i].acct = calls[i].acct
                     /\ calls'[i].item = calls[i].item
                     /\ calls'[i].from = calls[i].from
                     /\ calls'[i].current = calls[i].current
                     /\ calls'[i].done = calls[i].done
                     /\ calls'[i].mounted = (calls[i].mounted /\ calls[i].from # from)
<1> SUFFICES ASSUME NEW i \in CallIds
             PROVE  /\ calls'[i] \in Call \cup {None}
                    /\ calls'[i] = None <=> calls[i] = None
                    /\ calls[i] # None =>
                          /\ calls'[i].acct = calls[i].acct
                     /\ calls'[i].item = calls[i].item
                          /\ calls'[i].from = calls[i].from
                          /\ calls'[i].current = calls[i].current
                          /\ calls'[i].done = calls[i].done
                          /\ calls'[i].mounted = (calls[i].mounted /\ calls[i].from # from)
  BY DEF Unmounts
<1>1. CASE calls[i] = None
  BY <1>1 DEF Unmounts
<1>2. CASE calls[i] # None
  <2>1. calls[i] \in Call
    BY <1>2 DEF TypeOK
  <2>2. CASE calls[i].from = from
    BY <1>2, <2>1, <2>2, NoneIsNoCall DEF Unmounts, Call
  <2>3. CASE calls[i].from # from
    BY <1>2, <2>1, <2>3, NoneIsNoCall DEF Unmounts, Call
  <2>4. QED
    BY <2>2, <2>3
<1>3. QED
  BY <1>1, <1>2

\* A call made, dropped or marked.
LEMMA SlotType ==
  ASSUME TypeOK, NEW i \in CallIds, NEW c \in Call \cup {None},
         calls' = [calls EXCEPT ![i] = c]
  PROVE  /\ calls' \in [CallIds -> Call \cup {None}]
         /\ \A j \in CallIds : calls'[j] = IF j = i THEN c ELSE calls[j]
BY DEF TypeOK

\* The same of a sign-in.
LEMMA SignSlotType ==
  ASSUME TypeOK, NEW s \in SignIds, NEW c \in SignInCall \cup {None},
         signIns' = [signIns EXCEPT ![s] = c]
  PROVE  /\ signIns' \in [SignIds -> SignInCall \cup {None}]
         /\ \A t \in SignIds : signIns'[t] = IF t = s THEN c ELSE signIns[t]
BY DEF TypeOK

LEMMA NewCallType ==
  ASSUME TypeOK, user # Null, NEW p \in Products, NEW from \in {"list", "detail"}
  PROVE  /\ NewCall(p, from) \in Call
         /\ NewCall(p, from) # None
         /\ NewCall(p, from).acct = user
         /\ NewCall(p, from).item = p /\ NewCall(p, from).from = from
         /\ ~NewCall(p, from).done /\ NewCall(p, from).current /\ NewCall(p, from).mounted
<1>1. NewCall(p, from) \in Call
  BY DEF NewCall, Call, TypeOK
<1>2. QED
  BY <1>1, NoneIsNoCall DEF NewCall

\* A tap, from either page.
LEMMA TapStarts ==
  ASSUME TypeOK, NEW i \in CallIds, TapDetail(i) \/ \E q \in Products : TapHeart(i, q)
  PROVE  \E c \in Call :
            /\ c # None /\ ~c.done /\ c.mounted /\ c.current /\ c.acct = user
            /\ c.from = "detail" => page = "detail" /\ c.item = item
            /\ calls[i] = None
            /\ calls' \in [CallIds -> Call \cup {None}]
            /\ \A j \in CallIds : calls'[j] = IF j = i THEN c ELSE calls[j]
            /\ UNCHANGED <<docs, state, signIns, screen, stale, heartStale>>
<1>1. CASE TapDetail(i)
  <2>1. Starts(i, item, "detail") /\ item \in Products /\ page = "detail"
    BY <1>1 DEF TapDetail, TypeOK
  <2>2. NewCall(item, "detail") \in Call
    BY <2>1, NewCallType DEF Starts
  <2>3. QED
    BY <2>1, <2>2, NewCallType, SlotType DEF Starts
<1>2. ASSUME NEW q \in Products, TapHeart(i, q)
      PROVE  \E c \in Call :
                /\ c # None /\ ~c.done /\ c.mounted /\ c.current /\ c.acct = user
                /\ c.from = "detail" => page = "detail" /\ c.item = item
                /\ calls[i] = None
                /\ calls' \in [CallIds -> Call \cup {None}]
                /\ \A j \in CallIds : calls'[j] = IF j = i THEN c ELSE calls[j]
                /\ UNCHANGED <<docs, state, signIns, screen, stale, heartStale>>
  <2>1. Starts(i, q, "list")
    BY <1>2 DEF TapHeart
  <2>2. NewCall(q, "list") \in Call
    BY <2>1, NewCallType DEF Starts
  <2>3. NewCall(q, "list").from # "detail"
    BY DEF NewCall
  <2>4. QED
    BY <2>1, <2>2, <2>3, NewCallType, SlotType DEF Starts
<1>3. QED
  BY <1>1, <1>2

\* The commit that is answered: only the mark changes.
LEMMA MarkDone ==
  ASSUME TypeOK, NEW i \in CallIds, calls[i] # None,
         calls' = [calls EXCEPT ![i].done = TRUE]
  PROVE  /\ calls' \in [CallIds -> Call \cup {None}]
         /\ calls'[i] # None /\ calls'[i].done
         /\ calls'[i].acct = calls[i].acct
         /\ calls'[i].item = calls[i].item /\ calls'[i].from = calls[i].from
         /\ calls'[i].mounted = calls[i].mounted /\ calls'[i].current = calls[i].current
         /\ \A j \in CallIds : j # i => calls'[j] = calls[j]
<1> DEFINE new == [calls[i] EXCEPT !.done = TRUE]
<1>1. calls[i] \in Call
  BY DEF TypeOK
<1>2. calls' = [calls EXCEPT ![i] = new]
  OBVIOUS
<1>3. /\ new \in Call /\ new.done
      /\ new.acct = calls[i].acct /\ new.item = calls[i].item
      /\ new.from = calls[i].from
      /\ new.mounted = calls[i].mounted /\ new.current = calls[i].current
  BY <1>1 DEF Call
<1> HIDE DEF new
<1>4. /\ calls' \in [CallIds -> Call \cup {None}]
      /\ calls'[i] = new
      /\ \A j \in CallIds : j # i => calls'[j] = calls[j]
  BY <1>2, <1>3, SlotType
<1>5. QED
  BY <1>3, <1>4, NoneIsNoCall

LEMMA SignOutCalls ==
  ASSUME TypeOK, SignOut
  PROVE  /\ calls' \in [CallIds -> Call \cup {None}]
         /\ \A i \in CallIds :
               /\ calls'[i] = None <=> calls[i] = None
               /\ calls[i] # None =>
                     /\ calls'[i].item = calls[i].item /\ calls'[i].from = calls[i].from
                     /\ calls'[i].done = calls[i].done
                     /\ calls'[i].mounted = (calls[i].mounted /\ page' = page)
                     /\ calls'[i].current = calls'[i].mounted
<1> SUFFICES ASSUME NEW i \in CallIds
             PROVE  /\ calls'[i] \in Call \cup {None}
                    /\ calls'[i] = None <=> calls[i] = None
                    /\ calls[i] # None =>
                          /\ calls'[i].item = calls[i].item
                          /\ calls'[i].from = calls[i].from
                          /\ calls'[i].done = calls[i].done
                          /\ calls'[i].mounted = (calls[i].mounted /\ page' = page)
                          /\ calls'[i].current = calls'[i].mounted
  BY DEF SignOut
<1>1. CASE calls[i] = None
  BY <1>1 DEF SignOut
<1>2. CASE calls[i] # None
  <2> DEFINE stays == calls[i].mounted /\ page' = page
  <2>1. calls[i] \in Call
    BY <1>2 DEF TypeOK
  <2>2. calls'[i] = [calls[i] EXCEPT !.mounted = stays, !.current = stays]
    BY <1>2 DEF SignOut
  <2>3. stays \in BOOLEAN
    OBVIOUS
  <2> HIDE DEF stays
  <2>4. /\ calls'[i] \in Call
        /\ calls'[i].item = calls[i].item /\ calls'[i].from = calls[i].from
        /\ calls'[i].done = calls[i].done
        /\ calls'[i].mounted = stays /\ calls'[i].current = stays
    BY <2>1, <2>2, <2>3 DEF Call
  <2>5. QED
    BY <1>2, <2>4, NoneIsNoCall DEF stays
<1>3. QED
  BY <1>1, <1>2

\* The lists that were read stay what they are; what they missed grows.
LEMMA ReadsMissed ==
  ASSUME TypeOK, NEW m \in [Accounts -> SUBSET Products], ReadsMiss(m)
  PROVE  /\ signIns' \in [SignIds -> SignInCall \cup {None}]
         /\ \A s \in SignIds :
               /\ At(s, "recommended")' <=> At(s, "recommended")
               /\ At(s, "recommended") =>
                     /\ signIns'[s].acct = signIns[s].acct
                     /\ signIns'[s].list = signIns[s].list
                     /\ signIns'[s].missed = signIns[s].missed \cup m[signIns[s].acct]
<1> SUFFICES ASSUME NEW s \in SignIds
             PROVE  /\ signIns'[s] \in SignInCall \cup {None}
                    /\ At(s, "recommended")' <=> At(s, "recommended")
                    /\ At(s, "recommended") =>
                          /\ signIns'[s].acct = signIns[s].acct
                          /\ signIns'[s].list = signIns[s].list
                          /\ signIns'[s].missed
                                = signIns[s].missed \cup m[signIns[s].acct]
  BY DEF ReadsMiss
<1>1. CASE ~At(s, "recommended")
  BY <1>1 DEF ReadsMiss, At, TypeOK
<1>2. CASE At(s, "recommended")
  <2> DEFINE new == signIns[s].missed \cup m[signIns[s].acct]
  <2>1. signIns[s] \in SignInCall /\ signIns[s].at = "recommended"
    BY <1>2 DEF At, TypeOK
  <2>2. signIns'[s] = [signIns[s] EXCEPT !.missed = new]
    BY <1>2 DEF ReadsMiss
  <2>3. new \in SUBSET Products
    BY <2>1 DEF SignInCall
  <2> HIDE DEF new
  <2>4. signIns'[s] \in SignInCall /\ signIns'[s].at = "recommended"
    BY <2>1, <2>2, <2>3 DEF SignInCall
  <2>5. /\ signIns'[s].acct = signIns[s].acct /\ signIns'[s].list = signIns[s].list
        /\ signIns'[s].missed = new
    BY <2>1, <2>2 DEF SignInCall
  <2>6. QED
    BY <1>2, <2>4, <2>5, NoneIsNoCall DEF At, new
<1>3. QED
  BY <1>1, <1>2

\* What a commit does, heard of or not.
LEMMA TogglesFacts ==
  ASSUME Sound, NEW i \in CallIds, NEW lost \in BOOLEAN, Toggles(i, lost)
  PROVE  /\ calls[i] \in Call /\ calls[i] # None /\ ~calls[i].done
         /\ docs' \in [Accounts -> Doc] /\ LikesProducts'
         /\ \A a \in Accounts, p \in Products :
               p \in docs'[a].list["favorites"]
                  <=> IF a = calls[i].acct /\ p = calls[i].item
                      THEN p \notin docs[a].list["favorites"]
                      ELSE p \in docs[a].list["favorites"]
         /\ \A a \in Accounts : Missed(calls[i], a, lost) \in SUBSET Products
         /\ ReadsMiss([a \in Accounts |-> Missed(calls[i], a, lost)])
         /\ stale' \subseteq Products
         /\ UNCHANGED <<state, screen>>
<1> DEFINE c == calls[i]
           new == AfterToggle(docs[c.acct], "favorites", c.item)
<1>1. /\ c \in Call /\ c # None /\ ~c.done
      /\ c.acct \in Accounts /\ c.item \in Products
      /\ docs[c.acct] \in Doc
      /\ ~Throws(docs[c.acct], "favorites")
  BY DEF Toggles, Sound, TypeOK, Call
<1>2. docs' = [docs EXCEPT ![c.acct] = new]
  BY DEF Toggles, AfterCall
<1>3. new \in Doc /\ new.list["favorites"] \subseteq Products
  BY <1>1, ToggleKeepsDoc DEF Sound, LikesProducts
<1>4. \A p \in Products : p \in new.list["favorites"]
          <=> IF p = c.item THEN p \notin docs[c.acct].list["favorites"]
              ELSE p \in docs[c.acct].list["favorites"]
  BY <1>1, ToggleFlips
<1>5. \A a \in Accounts : Missed(c, a, lost) \in SUBSET Products
  BY <1>1 DEF Missed
<1>6. ReadsMiss([a \in Accounts |-> Missed(c, a, lost)]) /\ UNCHANGED <<state, screen>>
  BY DEF Toggles
<1>7. stale' \subseteq Products
  BY <1>5 DEF Toggles, Sound, TypeOK, Loaded
<1> HIDE DEF c, new
<1>8. docs' \in [Accounts -> Doc]
  BY <1>1, <1>2, <1>3 DEF Sound, TypeOK
<1>9. \A a \in Accounts : docs'[a] = IF a = c.acct THEN new ELSE docs[a]
  BY <1>2 DEF Sound, TypeOK
<1>10. LikesProducts'
  BY <1>3, <1>9 DEF Sound, LikesProducts
<1>11. \A a \in Accounts, p \in Products :
          p \in docs'[a].list["favorites"]
             <=> IF a = c.acct /\ p = c.item
                 THEN p \notin docs[a].list["favorites"]
                 ELSE p \in docs[a].list["favorites"]
  BY <1>4, <1>9
<1>12. QED
  BY <1>1, <1>5, <1>6, <1>7, <1>8, <1>10, <1>11 DEF c

LEMMA ToggledReads ==
  ASSUME Sound, NEW i \in CallIds, NEW lost \in BOOLEAN, Toggles(i, lost)
  PROVE  /\ signIns' \in [SignIds -> SignInCall \cup {None}]
         /\ \A s \in SignIds :
               /\ At(s, "recommended")' <=> At(s, "recommended")
               /\ At(s, "recommended") =>
                     /\ signIns'[s].acct = signIns[s].acct
                     /\ signIns'[s].list = signIns[s].list
                     /\ signIns'[s].missed = signIns[s].missed
                                \cup Missed(calls[i], signIns[s].acct, lost)
<1> DEFINE m == [a \in Accounts |-> Missed(calls[i], a, lost)]
<1>1. m \in [Accounts -> SUBSET Products] /\ ReadsMiss(m)
  BY TogglesFacts
<1>2. \A s \in SignIds : At(s, "recommended") => signIns[s].acct \in Accounts
  BY DEF At, Sound, TypeOK, SignInCall
<1>3. \A a \in Accounts : m[a] = Missed(calls[i], a, lost)
  OBVIOUS
<1> HIDE DEF m
<1>4. QED
  BY <1>1, <1>2, <1>3, ReadsMissed DEF Sound

LEMMA SoundInit == Init => Sound
<1>1. MissingDoc \in Doc /\ ProvisionedDoc \in Doc
  BY DEF MissingDoc, ProvisionedDoc, NoLists, Doc, Fields
<1>2. MissingDoc.list["favorites"] = {} /\ ProvisionedDoc.list["favorites"] = {}
  BY DEF MissingDoc, ProvisionedDoc, NoLists, Fields
<1> SUFFICES ASSUME Init PROVE Sound
  OBVIOUS
<1>3. docs \in [Accounts -> Doc] /\ LikesProducts
  BY <1>1, <1>2 DEF Init, LikesProducts
<1>4. QED
  BY <1>3 DEF Init, Sound, TypeOK, CallsFitPages, HeartHasUser, Pages

\* A step of a sign-in that is no read: at most the user, the flag, the page and
\* the slot change.
LEMMA SignInSteps ==
  ASSUME Sound, NEW s \in SignIds,
         \/ \E a \in Accounts : TapLogin(s, a)
         \/ SignInFails(s) \/ SignInSetsUser(s) \/ Unverified(s)
         \/ Twitter(s) \/ SignsUp(s)
  PROVE  /\ UNCHANGED <<docs, mem, owner, item, heart, calls, stale>>
         /\ signIns' \in [SignIds -> SignInCall \cup {None}]
         /\ \A t \in SignIds : At(t, "recommended")' =>
                /\ At(t, "recommended") /\ signIns'[t] = signIns[t]
         /\ signedIn' \in BOOLEAN
         /\ page' \in Pages /\ (page' = "detail" <=> page = "detail")
         /\ \/ user' = user /\ heartStale' = heartStale
            \/ \E a \in Accounts \cup {Null} : TurnsUserTo(a)
<1> USE DEF Sound
<1>1. ASSUME NEW c \in SignInCall \cup {None}, signIns' = [signIns EXCEPT ![s] = c],
             c # None => c.at # "recommended"
      PROVE  /\ signIns' \in [SignIds -> SignInCall \cup {None}]
             /\ \A t \in SignIds : At(t, "recommended")' =>
                    /\ At(t, "recommended") /\ signIns'[t] = signIns[t]
  <2>1. /\ signIns' \in [SignIds -> SignInCall \cup {None}]
        /\ \A t \in SignIds : signIns'[t] = IF t = s THEN c ELSE signIns[t]
    BY <1>1, SignSlotType
  <2>2. ~(At(s, "recommended")')
    BY <1>1, <2>1 DEF At
  <2>3. QED
    BY <2>1, <2>2 DEF At
<1>2. ASSUME Returns(s)
      PROVE  /\ signIns' \in [SignIds -> SignInCall \cup {None}]
             /\ \A t \in SignIds : At(t, "recommended")' =>
                    /\ At(t, "recommended") /\ signIns'[t] = signIns[t]
  BY <1>1, <1>2 DEF Returns
<1>3. ASSUME NEW a \in Accounts, TapLogin(s, a)
      PROVE  /\ signIns' \in [SignIds -> SignInCall \cup {None}]
             /\ \A t \in SignIds : At(t, "recommended")' =>
                    /\ At(t, "recommended") /\ signIns'[t] = signIns[t]
  <2> DEFINE c == [acct |-> a, at |-> "auth", list |-> {}, missed |-> {}]
  <2>1. c \in SignInCall /\ c.at # "recommended"
    BY DEF SignInCall
  <2>2. signIns' = [signIns EXCEPT ![s] = c]
    BY <1>3 DEF TapLogin
  <2> HIDE DEF c
  <2>3. QED
    BY <1>1, <2>1, <2>2
<1>4. ASSUME SignInSetsUser(s)
      PROVE  /\ signIns' \in [SignIds -> SignInCall \cup {None}]
             /\ \A t \in SignIds : At(t, "recommended")' =>
                    /\ At(t, "recommended") /\ signIns'[t] = signIns[t]
  <2> DEFINE c == [signIns[s] EXCEPT !.at = "favorites"]
  <2>1. signIns[s] \in SignInCall
    BY <1>4 DEF SignInSetsUser, At, TypeOK
  <2>2. c \in SignInCall /\ c.at # "recommended"
    BY <2>1 DEF SignInCall
  <2>3. signIns' = [signIns EXCEPT ![s] = c]
    BY <1>4 DEF SignInSetsUser
  <2> HIDE DEF c
  <2>4. QED
    BY <1>1, <2>2, <2>3
<1>5. At(s, "auth") => signIns[s].acct \in Accounts
  BY DEF At, TypeOK, SignInCall
<1>6. page \in Pages /\ signedIn \in BOOLEAN
  BY DEF TypeOK
<1>7. CASE \E a \in Accounts : TapLogin(s, a)
  BY <1>3, <1>6, <1>7 DEF TapLogin, state, screen
<1>8. CASE SignInFails(s)
  BY <1>2, <1>6, <1>8 DEF SignInFails, state, screen
<1>9. CASE SignInSetsUser(s)
  BY <1>4, <1>5, <1>6, <1>9 DEF SignInSetsUser, screen
<1>10. CASE Unverified(s)
  BY <1>2, <1>6, <1>10 DEF Unverified, OpensHome, Pages
<1>11. CASE Twitter(s)
  BY <1>2, <1>5, <1>6, <1>11 DEF Twitter, OpensHome, Pages
<1>12. CASE SignsUp(s)
  BY <1>2, <1>5, <1>6, <1>12 DEF SignsUp, screen
<1>13. QED
  BY <1>7, <1>8, <1>9, <1>10, <1>11, <1>12

\* What getFavorites brings.
LEMMA ReadFacts ==
  ASSUME Sound, NEW s \in SignIds, SignInReads(s)
  PROVE  /\ UNCHANGED <<docs, state, screen, calls, stale, heartStale>>
         /\ signIns' \in [SignIds -> SignInCall \cup {None}]
         /\ \A t \in SignIds : t # s => signIns'[t] = signIns[t]
         /\ signIns'[s].acct = signIns[s].acct /\ signIns[s].acct \in Accounts
         /\ \/ /\ signIns'[s].list = docs[signIns[s].acct].list["favorites"]
               /\ signIns'[s].missed = OnTheWay
            \/ signIns'[s].missed = Products
<1> USE DEF Sound
<1>1. signIns[s] \in SignInCall /\ signIns[s].acct \in Accounts
  BY DEF SignInReads, At, TypeOK, SignInCall
<1>2. docs[signIns[s].acct].list["favorites"] \in SUBSET Products
  BY <1>1 DEF LikesProducts
<1>3. OnTheWay \in SUBSET Products
  BY DEF OnTheWay
<1>4. PICK list \in SUBSET Products, missed \in SUBSET Products :
          /\ signIns' = [signIns EXCEPT ![s].at = "recommended",
                             ![s].list = list, ![s].missed = missed]
          /\ \/ /\ list = docs[signIns[s].acct].list["favorites"]
                /\ missed = OnTheWay
             \/ missed = Products
  BY <1>2, <1>3 DEF SignInReads
<1> DEFINE c == [signIns[s] EXCEPT !.at = "recommended", !.list = list, !.missed = missed]
<1>5. /\ c \in SignInCall /\ c.acct = signIns[s].acct
      /\ c.list = list /\ c.missed = missed
  BY <1>1 DEF SignInCall
<1>6. signIns' = [signIns EXCEPT ![s] = c]
  BY <1>4 DEF TypeOK
<1> HIDE DEF c
<1>7. /\ signIns' \in [SignIds -> SignInCall \cup {None}]
      /\ \A t \in SignIds : signIns'[t] = IF t = s THEN c ELSE signIns[t]
  BY <1>5, <1>6, SignSlotType
<1>8. QED
  BY <1>1, <1>4, <1>5, <1>7 DEF SignInReads

\* Publishing a list, and answering a call.
LEMMA PublishFacts ==
  ASSUME Sound, NEW s \in SignIds, SignInPublishes(s)
  PROVE  /\ signIns[s] \in SignInCall
         /\ signIns' \in [SignIds -> SignInCall \cup {None}]
         /\ \A t \in SignIds : At(t, "recommended")' =>
                /\ At(t, "recommended") /\ signIns'[t] = signIns[t]
<1>1. signIns[s] \in SignInCall
  BY DEF SignInPublishes, At, Sound, TypeOK
<1>2. /\ signIns' \in [SignIds -> SignInCall \cup {None}]
      /\ \A t \in SignIds : signIns'[t] = IF t = s THEN None ELSE signIns[t]
  BY SignSlotType DEF SignInPublishes, Returns, Sound
<1>3. QED
  BY <1>1, <1>2 DEF At

LEMMA AnswerFacts ==
  ASSUME Sound, NEW i \in CallIds, Answer(i)
  PROVE  /\ calls[i] \in Call /\ calls[i] # None /\ calls[i].done
         /\ calls' \in [CallIds -> Call \cup {None}]
         /\ \A j \in CallIds : calls'[j] = IF j = i THEN None ELSE calls[j]
         /\ signIns' \in [SignIds -> SignInCall \cup {None}]
         /\ \A s \in SignIds :
               /\ At(s, "recommended")' <=> At(s, "recommended")
               /\ At(s, "recommended") =>
                     /\ signIns'[s].acct = signIns[s].acct
                     /\ signIns'[s].list = signIns[s].list
                     /\ signIns'[s].missed = signIns[s].missed
                                \cup (IF ForList(calls[i]) THEN {calls[i].item} ELSE {})
<1> DEFINE told == IF ForList(calls[i]) THEN {calls[i].item} ELSE {}
           m == [a \in Accounts |-> told]
<1>1. calls[i] \in Call /\ calls[i] # None /\ calls[i].done
  BY DEF Answer, Sound, TypeOK
<1>2. told \in SUBSET Products
  BY <1>1 DEF Call
<1>3. ReadsMiss(m)
  BY DEF Answer
<1> HIDE DEF told
<1>4. m \in [Accounts -> SUBSET Products] /\ \A a \in Accounts : m[a] = told
  BY <1>2
<1>5. \A s \in SignIds : At(s, "recommended") => signIns[s].acct \in Accounts
  BY DEF At, Sound, TypeOK, SignInCall
<1> HIDE DEF m
<1>6. /\ signIns' \in [SignIds -> SignInCall \cup {None}]
      /\ \A s \in SignIds :
            /\ At(s, "recommended")' <=> At(s, "recommended")
            /\ At(s, "recommended") =>
                  /\ signIns'[s].acct = signIns[s].acct
                  /\ signIns'[s].list = signIns[s].list
                  /\ signIns'[s].missed = signIns[s].missed \cup told
  BY <1>3, <1>4, <1>5, ReadsMissed DEF Sound
<1>7. /\ calls' \in [CallIds -> Call \cup {None}]
      /\ \A j \in CallIds : calls'[j] = IF j = i THEN None ELSE calls[j]
  BY SlotType DEF Answer, Ends, Sound
<1>8. QED
  BY <1>1, <1>6, <1>7 DEF told

LEMMA SoundNext == Sound /\ [Next]_vars => Sound'
<1> SUFFICES ASSUME Sound, [Next]_vars PROVE Sound'
  OBVIOUS
<1> USE DEF Sound
<1>1. CASE OpenList \/ Back
  BY <1>1 DEF OpenList, Back, state, TypeOK, CallsFitPages, HeartHasUser, LikesProducts, Pages
<1>2. CASE LeaveList
  <2>1. /\ calls' \in [CallIds -> Call \cup {None}]
        /\ \A i \in CallIds : calls'[i] # None =>
               /\ calls[i] # None
               /\ calls'[i].from = calls[i].from /\ calls'[i].item = calls[i].item
               /\ calls'[i].acct = calls[i].acct /\ calls'[i].current = calls[i].current
               /\ calls'[i].mounted => calls[i].mounted
    BY <1>2, UnmountsCalls DEF LeaveList
  <2>2. TypeOK' /\ HeartHasUser' /\ LikesProducts'
    BY <1>2, <2>1 DEF LeaveList, state, TypeOK, HeartHasUser, LikesProducts, Pages
  <2>3. CallsFitPages'
    BY <1>2, <2>1 DEF LeaveList, state, CallsFitPages
  <2>4. QED
    BY <2>2, <2>3
<1>3. ASSUME NEW p \in Products, OpenDetail(p) PROVE Sound'
  <2>1. TypeOK' /\ LikesProducts'
    BY <1>3, FavoritesAssumption DEF OpenDetail, state, TypeOK, LikesProducts, Pages
  <2>2. CallsFitPages' /\ HeartHasUser'
    BY <1>3 DEF OpenDetail, state, Loaded, CallsFitPages, HeartHasUser
  <2>3. QED
    BY <2>1, <2>2
<1>4. CASE CloseDetail
  <2>1. /\ calls' \in [CallIds -> Call \cup {None}]
        /\ \A i \in CallIds : calls'[i] # None =>
               /\ ~(calls'[i].from = "detail" /\ calls'[i].mounted)
               /\ calls[i] # None /\ calls'[i].current = calls[i].current
               /\ calls'[i].mounted => calls[i].mounted
    <3>1. Unmounts("detail")
      BY <1>4 DEF CloseDetail
    <3>2. /\ calls' \in [CallIds -> Call \cup {None}]
          /\ \A i \in CallIds :
                /\ calls'[i] = None <=> calls[i] = None
                /\ calls[i] # None =>
                      /\ calls'[i].from = calls[i].from
                      /\ calls'[i].current = calls[i].current
                      /\ calls'[i].mounted = (calls[i].mounted /\ calls[i].from # "detail")
      BY <3>1, UnmountsCalls
    <3>3. QED
      BY <3>2
  <2>2. /\ page' = "list" /\ item' = Null /\ heart' = FALSE /\ heartStale' = FALSE
        /\ UNCHANGED <<docs, user, signedIn, mem, owner, signIns, stale>>
    BY <1>4 DEF CloseDetail, NoDetail, state
  <2>3. TypeOK'
    BY <2>1, <2>2 DEF TypeOK, Pages
  <2>4. HeartHasUser' /\ LikesProducts'
    BY <2>2 DEF HeartHasUser, LikesProducts
  <2>5. CallsFitPages'
    <3>1. \A i \in CallIds : calls[i] # None => (calls[i].mounted => calls[i].current)
      BY DEF CallsFitPages
    <3>2. \A i \in CallIds : calls'[i] # None => (calls'[i].mounted => calls'[i].current)
      BY <2>1, <3>1
    <3>3. QED
      BY <2>1, <3>2 DEF CallsFitPages
  <2>6. QED
    BY <2>3, <2>4, <2>5
<1>5. ASSUME NEW s \in SignIds,
             \/ \E a \in Accounts : TapLogin(s, a)
             \/ SignInFails(s) \/ SignInSetsUser(s) \/ Unverified(s)
             \/ Twitter(s) \/ SignsUp(s)
      PROVE  Sound'
  <2>1. /\ UNCHANGED <<docs, mem, owner, item, heart, calls, stale>>
        /\ signIns' \in [SignIds -> SignInCall \cup {None}]
        /\ signedIn' \in BOOLEAN
        /\ page' \in Pages /\ (page' = "detail" <=> page = "detail")
        /\ \/ user' = user /\ heartStale' = heartStale
           \/ \E a \in Accounts \cup {Null} : TurnsUserTo(a)
    BY <1>5, SignInSteps
  <2>2. /\ user' \in Accounts \cup {Null} /\ heartStale' \in BOOLEAN
        /\ page = "detail" /\ ~heartStale' => user' = user /\ ~heartStale
    <3>1. user \in Accounts \cup {Null} /\ heartStale \in BOOLEAN
      BY DEF TypeOK
    <3>2. CASE user' = user /\ heartStale' = heartStale
      BY <3>1, <3>2
    <3>3. ASSUME NEW a \in Accounts \cup {Null}, TurnsUserTo(a)
          PROVE  /\ user' \in Accounts \cup {Null} /\ heartStale' \in BOOLEAN
                 /\ page = "detail" /\ ~heartStale' => user' = user /\ ~heartStale
      BY <3>1, <3>3 DEF TurnsUserTo
    <3>4. QED
      BY <2>1, <3>2, <3>3
  <2>3. TypeOK' /\ LikesProducts'
    BY <2>1, <2>2 DEF TypeOK, LikesProducts
  <2>4. CallsFitPages' /\ HeartHasUser'
    BY <2>1, <2>2 DEF CallsFitPages, HeartHasUser
  <2>5. QED
    BY <2>3, <2>4
<1>6. ASSUME NEW s \in SignIds, SignInReads(s) PROVE Sound'
  <2>1. /\ UNCHANGED <<docs, state, screen, calls, stale, heartStale>>
        /\ signIns' \in [SignIds -> SignInCall \cup {None}]
    BY <1>6, ReadFacts
  <2>2. QED
    BY <2>1 DEF state, screen, TypeOK, CallsFitPages, HeartHasUser, LikesProducts
<1>7. ASSUME NEW s \in SignIds, SignInPublishes(s) PROVE Sound'
  <2>1. /\ signIns[s] \in SignInCall
        /\ signIns' \in [SignIds -> SignInCall \cup {None}]
    BY <1>7, PublishFacts
  <2>2. /\ user' \in Accounts /\ heartStale' \in BOOLEAN
        /\ page = "detail" /\ ~heartStale' => user' = user /\ ~heartStale
    BY <1>7, <2>1 DEF SignInPublishes, TurnsUserTo, SignInCall, TypeOK
  <2>3. /\ mem' \subseteq Products /\ stale' \subseteq Products /\ owner' \in Accounts
        /\ signedIn' \in BOOLEAN
    BY <1>7, <2>1 DEF SignInPublishes, SignInCall
  <2>4. /\ page' \in Pages /\ (page' = "detail" <=> page = "detail")
        /\ UNCHANGED <<docs, item, heart, calls>>
    BY <1>7 DEF SignInPublishes, OpensHome, TypeOK, Pages
  <2>5. TypeOK' /\ LikesProducts'
    BY <2>1, <2>2, <2>3, <2>4 DEF TypeOK, LikesProducts
  <2>6. CallsFitPages' /\ HeartHasUser'
    BY <2>2, <2>4 DEF CallsFitPages, HeartHasUser
  <2>7. QED
    BY <2>5, <2>6
<1>8. CASE SignOut
  <2>1. /\ calls' \in [CallIds -> Call \cup {None}]
        /\ \A i \in CallIds :
              /\ calls'[i] = None <=> calls[i] = None
              /\ calls[i] # None =>
                    /\ calls'[i].item = calls[i].item /\ calls'[i].from = calls[i].from
                    /\ calls'[i].mounted = (calls[i].mounted /\ page' = page)
                    /\ calls'[i].current = calls'[i].mounted
    BY <1>8, SignOutCalls
  <2>2. signIns' \in [SignIds -> SignInCall \cup {None}]
    <3> DEFINE m == [a \in Accounts |-> OnTheWay]
    <3>1. ReadsMiss(m)
      BY <1>8 DEF SignOut
    <3>2. m \in [Accounts -> SUBSET Products]
      BY DEF OnTheWay
    <3> HIDE DEF m
    <3>3. QED
      BY <3>1, <3>2, ReadsMissed
  <2>3. /\ user' = Null /\ owner' = Null /\ mem' = {} /\ stale' = {} /\ signedIn' = FALSE
        /\ docs' = docs
        /\ \/ page' = page /\ item' = item /\ heart' = heart /\ heartStale' = (page = "detail")
           \/ page' # page /\ page' = "out" /\ item' = Null /\ heart' = FALSE
              /\ heartStale' = FALSE
    BY <1>8 DEF SignOut, NoDetail
  <2>4. TypeOK'
    BY <2>1, <2>2, <2>3 DEF TypeOK, Pages
  <2>5. HeartHasUser' /\ LikesProducts'
    BY <2>3 DEF HeartHasUser, LikesProducts
  <2>6. CallsFitPages'
    BY <2>1, <2>3 DEF CallsFitPages
  <2>7. QED
    BY <2>4, <2>5, <2>6
<1>9. ASSUME NEW i \in CallIds, TapDetail(i) \/ \E q \in Products : TapHeart(i, q)
      PROVE  Sound'
  <2>1. PICK c \in Call :
            /\ c # None /\ c.mounted /\ c.current /\ c.acct = user
            /\ c.from = "detail" => page = "detail" /\ c.item = item
            /\ calls' \in [CallIds -> Call \cup {None}]
            /\ \A j \in CallIds : calls'[j] = IF j = i THEN c ELSE calls[j]
            /\ UNCHANGED <<docs, state, signIns, screen, stale, heartStale>>
    BY <1>9, TapStarts
  <2>2. TypeOK' /\ HeartHasUser' /\ LikesProducts'
    BY <2>1 DEF state, screen, TypeOK, HeartHasUser, LikesProducts
  <2>3. CallsFitPages'
    BY <2>1 DEF state, screen, CallsFitPages
  <2>4. QED
    BY <2>2, <2>3
<1>10. ASSUME NEW i \in CallIds, NEW lost \in BOOLEAN, Toggles(i, lost),
              calls' \in [CallIds -> Call \cup {None}],
              \A j \in CallIds : calls'[j] # None =>
                  /\ calls[j] # None
                  /\ calls'[j].item = calls[j].item /\ calls'[j].from = calls[j].from
                  /\ calls'[j].acct = calls[j].acct
                  /\ calls'[j].mounted = calls[j].mounted
                  /\ calls'[j].current = calls[j].current
       PROVE  Sound'
  <2>1. /\ docs' \in [Accounts -> Doc] /\ LikesProducts'
        /\ stale' \subseteq Products
        /\ UNCHANGED <<state, screen>>
    BY <1>10, TogglesFacts
  <2>2. signIns' \in [SignIds -> SignInCall \cup {None}]
    BY <1>10, ToggledReads
  <2>3. heartStale' \in BOOLEAN /\ (~heartStale' => ~heartStale)
    BY <1>10 DEF Toggles, TypeOK
  <2>4. TypeOK'
    BY <1>10, <2>1, <2>2, <2>3 DEF state, screen, TypeOK
  <2>5. CallsFitPages' /\ HeartHasUser'
    BY <1>10, <2>1, <2>3 DEF state, screen, CallsFitPages, HeartHasUser
  <2>6. QED
    BY <2>1, <2>4, <2>5
<1>11. ASSUME NEW i \in CallIds, Commit(i) PROVE Sound'
  <2>1. Toggles(i, FALSE) /\ calls[i] # None
    BY <1>11 DEF Commit, Toggles
  <2>2. /\ calls' \in [CallIds -> Call \cup {None}]
        /\ calls'[i].acct = calls[i].acct
        /\ calls'[i].item = calls[i].item /\ calls'[i].from = calls[i].from
        /\ calls'[i].mounted = calls[i].mounted /\ calls'[i].current = calls[i].current
        /\ \A j \in CallIds : j # i => calls'[j] = calls[j]
    BY <1>11, <2>1, MarkDone DEF Commit
  <2>3. QED
    BY <1>10, <2>1, <2>2
<1>12. ASSUME NEW i \in CallIds, Repeats(i) PROVE Sound'
  BY <1>10, <1>12 DEF Repeats, TypeOK
<1>13. ASSUME NEW i \in CallIds, LoseAnswer(i) PROVE Sound'
  BY <1>10, <1>13, SlotType DEF LoseAnswer, Ends
<1>14. ASSUME NEW i \in CallIds, Refused(i) PROVE Sound'
  <2>1. /\ calls' \in [CallIds -> Call \cup {None}]
        /\ \A j \in CallIds : calls'[j] = IF j = i THEN None ELSE calls[j]
    BY <1>14, SlotType DEF Refused, RefusedWith, Ends
  <2>2. QED
    BY <1>14, <2>1 DEF Refused, RefusedWith, state, TypeOK, CallsFitPages, HeartHasUser,
       LikesProducts
<1>15. ASSUME NEW i \in CallIds, Answer(i) PROVE Sound'
  <2>1. /\ calls[i] \in Call
        /\ calls' \in [CallIds -> Call \cup {None}]
        /\ \A j \in CallIds : calls'[j] = IF j = i THEN None ELSE calls[j]
        /\ signIns' \in [SignIds -> SignInCall \cup {None}]
    BY <1>15, AnswerFacts
  <2>2. mem' \subseteq Products /\ stale' \subseteq Products /\ heart' \in BOOLEAN
    BY <1>15, <2>1 DEF Answer, Toggled, TypeOK, Call
  <2>3. UNCHANGED <<docs, user, signedIn, owner, page, item, heartStale>>
    BY <1>15 DEF Answer
  <2>4. QED
    BY <2>1, <2>2, <2>3 DEF TypeOK, CallsFitPages, HeartHasUser, LikesProducts
<1>16. ASSUME NEW a \in Accounts, Invited(a) PROVE Sound'
  <2> DEFINE new == DocWith("invitations", Stranger)
  <2>1. new \in Doc /\ new.list["favorites"] = {}
    BY DEF DocWith, NoLists, Doc, Fields
  <2>2. docs' = [docs EXCEPT ![a] = new]
    BY <1>16 DEF Invited
  <2> HIDE DEF new
  <2>3. docs' \in [Accounts -> Doc] /\ LikesProducts'
    BY <2>1, <2>2 DEF TypeOK, LikesProducts
  <2>4. QED
    BY <1>16, <2>3 DEF Invited, state, screen, TypeOK, CallsFitPages, HeartHasUser
<1>17. CASE UNCHANGED vars
  BY <1>17 DEF vars, state, screen, TypeOK, CallsFitPages, HeartHasUser, LikesProducts
<1>18. QED
  BY <1>1, <1>2, <1>3, <1>4, <1>5, <1>6, <1>7, <1>8, <1>9, <1>11, <1>12, <1>13,
     <1>14, <1>15, <1>16, <1>17 DEF Next

\* Every reachable state is well typed.
THEOREM FavoritesTypeCorrect == Spec => []TypeOK
<1>1. Sound => TypeOK
  BY DEF Sound
<1>2. QED
  BY SoundInit, SoundNext, <1>1, PTL DEF Spec
-----------------------------------------------------------------------------
(* The hearts of the list page.                                            *)

\* A list that was read and is not published yet follows the server as well.
ReadsFollow ==
    \A s \in SignIds : At(s, "recommended") =>
        \A p \in Products \ signIns[s].missed : Follows(signIns[s].list, signIns[s].acct, p)

ListInv == ListFollowsServer /\ ReadsFollow

\* A step is balanced for account a and product p if it changes the server's list
\* exactly when it changes whether the toggles on their way are even.
Balanced(a, p) ==
    (p \in docs'[a].list["favorites"] <=> p \in docs[a].list["favorites"])
        <=> (Even(ToList(p)') <=> Even(ToList(p)))

FollowsLater(list, a, p) ==
    (p \in list <=> p \in docs'[a].list["favorites"]) <=> Even(ToList(p)')

LEMMA Carried ==
  ASSUME NEW a, NEW p, NEW before, NEW after, Balanced(a, p), Follows(before, a, p),
         p \in after <=> p \in before
  PROVE  FollowsLater(after, a, p)
BY DEF Balanced, Follows, FollowsLater, Even

\* What most steps do: nothing to either side.
Quiet ==
    /\ \A a \in Accounts : docs'[a].list["favorites"] = docs[a].list["favorites"]
    /\ \A p \in Products : ToList(p)' = ToList(p)

LEMMA QuietBalances ==
  ASSUME Quiet, NEW a \in Accounts, NEW p \in Products
  PROVE  Balanced(a, p)
BY DEF Quiet, Balanced

LEMMA UnchangedIsQuiet ==
  ASSUME UNCHANGED <<docs, calls>>
  PROVE  Quiet /\ ToDetail' = ToDetail
BY DEF Quiet, ToList, ToDetail

LEMMA UnmountsIsQuiet ==
  ASSUME TypeOK, NEW from, Unmounts(from), UNCHANGED docs
  PROVE  Quiet
BY UnmountsCalls DEF Quiet, ToList

LEMMA TapIsQuiet ==
  ASSUME TypeOK, NEW i \in CallIds, TapDetail(i) \/ \E q \in Products : TapHeart(i, q)
  PROVE  /\ Quiet /\ ToDetail' = ToDetail
         /\ UNCHANGED <<docs, state, signIns, screen, stale, heartStale>>
<1>1. PICK c \in Call :
          /\ c # None /\ ~c.done
          /\ calls[i] = None
          /\ \A j \in CallIds : calls'[j] = IF j = i THEN c ELSE calls[j]
          /\ UNCHANGED <<docs, state, signIns, screen, stale, heartStale>>
  BY TapStarts
<1>2. \A p \in Products : ToList(p)' = ToList(p)
  BY <1>1 DEF ToList
<1>3. ToDetail' = ToDetail
  BY <1>1 DEF ToDetail
<1>4. QED
  BY <1>1, <1>2, <1>3 DEF Quiet

LEMMA RefusedIsQuiet ==
  ASSUME TypeOK, NEW i \in CallIds, Refused(i)
  PROVE  /\ Quiet /\ ToDetail' = ToDetail
         /\ UNCHANGED <<docs, state, signIns, screen, stale, heartStale>>
<1>1. /\ calls[i] # None /\ ~calls[i].done
      /\ \A j \in CallIds : calls'[j] = IF j = i THEN None ELSE calls[j]
  BY SlotType DEF Refused, RefusedWith, Ends
<1>2. \A p \in Products : ToList(p)' = ToList(p)
  BY <1>1 DEF ToList
<1>3. ToDetail' = ToDetail
  BY <1>1 DEF ToDetail
<1>4. QED
  BY <1>2, <1>3 DEF Quiet, Refused, RefusedWith, state, screen

LEMMA InvitedIsQuiet ==
  ASSUME TypeOK, NEW a \in Accounts, Invited(a)
  PROVE  /\ Quiet /\ ToDetail' = ToDetail
         /\ UNCHANGED <<state, signIns, screen, stale, heartStale>>
<1> DEFINE new == DocWith("invitations", Stranger)
<1>1. new.list["favorites"] = {}
  BY DEF DocWith, NoLists, Fields
<1>2. docs[a].list["favorites"] = {}
  BY DEF Invited, TypeOK, Doc, Fields
<1>3. docs' = [docs EXCEPT ![a] = new]
  BY DEF Invited
<1> HIDE DEF new
<1>4. \A b \in Accounts : docs'[b].list["favorites"] = docs[b].list["favorites"]
  BY <1>1, <1>2, <1>3 DEF TypeOK
<1>5. UNCHANGED <<calls, state, signIns, screen, stale, heartStale>>
  BY DEF Invited
<1>6. QED
  BY <1>4, <1>5 DEF Quiet, ToList, ToDetail

\* A commit that is heard of: each copy is told of it, or has missed it.
LEMMA CommitBalances ==
  ASSUME Sound, NEW i \in CallIds, Commit(i), NEW a \in Accounts, NEW p \in Products,
         p \notin Missed(calls[i], a, FALSE)
  PROVE  Balanced(a, p)
<1>1. /\ calls[i] \in Call /\ calls[i] # None /\ ~calls[i].done
      /\ p \in docs'[a].list["favorites"]
            <=> IF a = calls[i].acct /\ p = calls[i].item
                THEN p \notin docs[a].list["favorites"]
                ELSE p \in docs[a].list["favorites"]
  BY TogglesFacts DEF Commit
<1>2. /\ calls'[i] # None /\ calls'[i].done
      /\ calls'[i].item = calls[i].item /\ calls'[i].from = calls[i].from
      /\ calls'[i].current = calls[i].current
      /\ \A j \in CallIds : j # i => calls'[j] = calls[j]
  BY <1>1, MarkDone DEF Commit, Sound
<1>3. i \notin ToList(p)
  BY <1>1 DEF ToList
<1>4. CASE calls[i].item = p /\ calls[i].from = "list" /\ calls[i].current
  <2>1. ToList(p)' = ToList(p) \cup {i}
    BY <1>2, <1>4 DEF ToList
  <2>2. Even(ToList(p)') <=> ~Even(ToList(p))
    BY <1>3, <2>1, CallsAreFinite, EvenFlips
  <2>3. calls[i].acct = a
    BY <1>4 DEF Missed, Misses
  <2>4. QED
    BY <1>1, <1>4, <2>2, <2>3 DEF Balanced
<1>5. CASE ~(calls[i].item = p /\ calls[i].from = "list" /\ calls[i].current)
  <2>1. ToList(p)' = ToList(p)
    BY <1>2, <1>3, <1>5 DEF ToList
  <2>2. ~(a = calls[i].acct /\ p = calls[i].item)
    BY <1>5 DEF Missed, Misses
  <2>3. QED
    BY <1>1, <2>1, <2>2 DEF Balanced
<1>6. QED
  BY <1>4, <1>5

\* One that is not: the account's own copies have missed it.
LEMMA UnheardBalances ==
  ASSUME Sound, NEW i \in CallIds, Repeats(i) \/ LoseAnswer(i),
         NEW a \in Accounts, NEW p \in Products, p \notin Missed(calls[i], a, TRUE)
  PROVE  Balanced(a, p)
<1>1. /\ calls[i] # None /\ ~calls[i].done
      /\ p \in docs'[a].list["favorites"]
            <=> IF a = calls[i].acct /\ p = calls[i].item
                THEN p \notin docs[a].list["favorites"]
                ELSE p \in docs[a].list["favorites"]
  BY TogglesFacts DEF Repeats, LoseAnswer
<1>2. ~(a = calls[i].acct /\ p = calls[i].item)
  BY DEF Missed, Misses
<1>3. ToList(p)' = ToList(p)
  <2>1. CASE Repeats(i)
    BY <2>1 DEF Repeats, ToList
  <2>2. CASE LoseAnswer(i)
    BY <1>1, <2>2, SlotType DEF LoseAnswer, Ends, ToList, Sound
  <2>3. QED
    BY <2>1, <2>2
<1>4. QED
  BY <1>1, <1>2, <1>3 DEF Balanced

\* An answer to the list page changes how many are on the way, and no other does.
LEMMA AnswerFlips ==
  ASSUME Sound, NEW i \in CallIds, Answer(i), NEW p \in Products
  PROVE  Even(ToList(p)')
            <=> IF ForList(calls[i]) /\ calls[i].item = p
                THEN ~Even(ToList(p)) ELSE Even(ToList(p))
<1>1. /\ calls[i] # None /\ calls[i].done
      /\ \A j \in CallIds : calls'[j] = IF j = i THEN None ELSE calls[j]
  BY AnswerFacts
<1>2. i \in ToList(p) <=> ForList(calls[i]) /\ calls[i].item = p
  BY <1>1 DEF ToList, ForList
<1>3. CASE i \in ToList(p)
  <2>1. ToList(p) = ToList(p)' \cup {i} /\ i \notin ToList(p)'
    BY <1>1, <1>3 DEF ToList
  <2>2. Even(ToList(p)') <=> ~Even(ToList(p))
    BY <2>1, CallsAreFiniteLater, EvenFlips
  <2>3. QED
    BY <1>2, <1>3, <2>2
<1>4. CASE i \notin ToList(p)
  <2>1. ToList(p)' = ToList(p)
    BY <1>1, <1>4 DEF ToList
  <2>2. QED
    BY <1>2, <1>4, <2>1
<1>5. QED
  BY <1>3, <1>4

LEMMA ListInit == Init => ListInv
BY DEF Init, ListInv, ListFollowsServer, Loaded, ReadsFollow, At

\* The steps after which a copy that was right is right by being left alone.
LEMMA MemCarried ==
  ASSUME Sound, ListInv, UNCHANGED <<mem, owner>>, stale \subseteq stale',
         Loaded => \A p \in Products \ stale' : Balanced(owner, p)
  PROVE  ListFollowsServer'
<1> SUFFICES ASSUME Loaded, NEW p \in Products, p \notin stale'
             PROVE  FollowsLater(mem, owner, p)
  BY DEF ListFollowsServer, Loaded, Follows, FollowsLater, Even
<1>1. Follows(mem, owner, p)
  BY DEF ListInv, ListFollowsServer
<1>2. QED
  BY <1>1, Carried

LEMMA MemNext == Sound /\ ListInv /\ [Next]_vars => ListFollowsServer'
<1> SUFFICES ASSUME Sound, ListInv, [Next]_vars PROVE ListFollowsServer'
  OBVIOUS
<1>1. Loaded => owner \in Accounts
  BY DEF Loaded, Sound, TypeOK
<1>2. ASSUME Quiet, UNCHANGED <<mem, owner, stale>> PROVE ListFollowsServer'
  BY <1>1, <1>2, QuietBalances, MemCarried
<1>3. CASE \/ OpenList \/ Back \/ UNCHANGED vars
           \/ \E p \in Products : OpenDetail(p)
           \/ \E s \in SignIds : SignInReads(s)
  <2>1. UNCHANGED <<docs, calls, mem, owner, stale>>
    BY <1>3 DEF OpenList, Back, OpenDetail, SignInReads, vars, state, screen
  <2>2. QED
    BY <1>2, <2>1, UnchangedIsQuiet
<1>4. CASE LeaveList \/ CloseDetail
  <2>1. UNCHANGED <<docs, mem, owner, stale>> /\ (Unmounts("list") \/ Unmounts("detail"))
    BY <1>4 DEF LeaveList, CloseDetail, state
  <2>2. QED
    BY <1>2, <2>1, UnmountsIsQuiet DEF Sound
<1>5. ASSUME NEW s \in SignIds,
             \/ \E a \in Accounts : TapLogin(s, a)
             \/ SignInFails(s) \/ SignInSetsUser(s) \/ Unverified(s)
             \/ Twitter(s) \/ SignsUp(s)
      PROVE  ListFollowsServer'
  <2>1. UNCHANGED <<docs, calls, mem, owner, stale>>
    BY <1>5, SignInSteps
  <2>2. QED
    BY <1>2, <2>1, UnchangedIsQuiet
<1>6. ASSUME NEW s \in SignIds, SignInPublishes(s) PROVE ListFollowsServer'
  <2>1. /\ mem' = signIns[s].list /\ owner' = signIns[s].acct /\ stale' = signIns[s].missed
        /\ At(s, "recommended")
        /\ UNCHANGED <<docs, calls>>
    BY <1>6 DEF SignInPublishes
  <2>2. signIns[s].acct \in Accounts
    BY <1>6, PublishFacts DEF SignInCall
  <2>3. ASSUME NEW p \in Products, p \notin stale'
        PROVE  FollowsLater(mem', owner', p)
    <3>1. Follows(signIns[s].list, signIns[s].acct, p)
      BY <2>1, <2>3 DEF ListInv, ReadsFollow
    <3>2. Balanced(signIns[s].acct, p)
      BY <2>1, <2>2, UnchangedIsQuiet, QuietBalances
    <3>3. QED
      BY <2>1, <3>1, <3>2, Carried
  <2>4. QED
    BY <2>3 DEF ListFollowsServer, Follows, FollowsLater, Even
<1>7. CASE SignOut
  BY <1>7 DEF SignOut, ListFollowsServer, Loaded
<1>8. ASSUME NEW i \in CallIds, TapDetail(i) \/ \E q \in Products : TapHeart(i, q)
      PROVE  ListFollowsServer'
  BY <1>2, <1>8, TapIsQuiet DEF Sound, state
<1>9. ASSUME NEW i \in CallIds, NEW lost \in BOOLEAN, Toggles(i, lost),
             \A a \in Accounts, p \in Products :
                 p \notin Missed(calls[i], a, lost) => Balanced(a, p)
      PROVE  ListFollowsServer'
  <2>1. UNCHANGED <<mem, owner>> /\ stale \subseteq stale'
    BY <1>9 DEF Toggles, state
  <2>2. Loaded => \A p \in Products \ stale' : p \notin Missed(calls[i], owner, lost)
    BY <1>9 DEF Toggles
  <2>3. QED
    BY <1>1, <1>9, <2>1, <2>2, MemCarried
<1>10. ASSUME NEW i \in CallIds, Commit(i) PROVE ListFollowsServer'
  <2>1. Toggles(i, FALSE)
    BY <1>10 DEF Commit
  <2>2. QED
    BY <1>9, <1>10, <2>1, CommitBalances
<1>11. ASSUME NEW i \in CallIds, Repeats(i) \/ LoseAnswer(i) PROVE ListFollowsServer'
  <2>1. Toggles(i, TRUE)
    BY <1>11 DEF Repeats, LoseAnswer
  <2>2. QED
    BY <1>9, <1>11, <2>1, UnheardBalances
<1>12. ASSUME NEW i \in CallIds, Refused(i) PROVE ListFollowsServer'
  BY <1>2, <1>12, RefusedIsQuiet DEF Sound, state
<1>13. ASSUME NEW i \in CallIds, Answer(i) PROVE ListFollowsServer'
  <2>1. /\ UNCHANGED <<docs, owner>>
        /\ mem' = IF Applies(calls[i]) THEN Toggled(calls[i].item) ELSE mem
        /\ stale' = IF ForList(calls[i]) /\ Loaded /\ ~Applies(calls[i])
                    THEN stale \cup {calls[i].item} ELSE stale
    BY <1>13 DEF Answer
  <2>2. ASSUME Loaded, NEW p \in Products, p \notin stale'
        PROVE  FollowsLater(mem', owner, p)
    <3>1. Follows(mem, owner, p)
      BY <2>1, <2>2 DEF ListInv, ListFollowsServer
    <3>2. p \in mem' <=> IF ForList(calls[i]) /\ calls[i].item = p THEN p \notin mem ELSE p \in mem
      <4>1. CASE Applies(calls[i])
        BY <2>1, <4>1 DEF Applies, Toggled
      <4>2. CASE ~Applies(calls[i])
        BY <2>1, <2>2, <4>2
      <4>3. QED
        BY <4>1, <4>2
    <3>3. Even(ToList(p)')
            <=> IF ForList(calls[i]) /\ calls[i].item = p
                THEN ~Even(ToList(p)) ELSE Even(ToList(p))
      BY <1>13, AnswerFlips
    <3>4. QED
      BY <2>1, <3>1, <3>2, <3>3 DEF Follows, FollowsLater, Even
  <2>3. QED
    BY <2>1, <2>2 DEF ListFollowsServer, Loaded, Follows, FollowsLater, Even
<1>14. ASSUME NEW a \in Accounts, Invited(a) PROVE ListFollowsServer'
  BY <1>2, <1>14, InvitedIsQuiet DEF Sound, state
<1>15. QED
  BY <1>3, <1>4, <1>5, <1>6, <1>7, <1>8, <1>10, <1>11, <1>12, <1>13, <1>14 DEF Next

\* A list that was read, over a step that leaves it alone but for what it missed.
LEMMA ReadCarried ==
  ASSUME Sound, ListInv, NEW s \in SignIds, At(s, "recommended"),
         signIns'[s].list = signIns[s].list, signIns'[s].acct = signIns[s].acct,
         signIns[s].missed \subseteq signIns'[s].missed,
         NEW p \in Products, p \notin signIns'[s].missed, Balanced(signIns[s].acct, p)
  PROVE  FollowsLater(signIns'[s].list, signIns'[s].acct, p)
<1>1. Follows(signIns[s].list, signIns[s].acct, p)
  BY DEF ListInv, ReadsFollow
<1>2. QED
  BY <1>1, Carried

LEMMA ReadsNext == Sound /\ ListInv /\ [Next]_vars => ReadsFollow'
<1> SUFFICES ASSUME Sound, ListInv, [Next]_vars,
                    NEW s \in SignIds, At(s, "recommended")',
                    NEW p \in Products, p \notin signIns'[s].missed
             PROVE  FollowsLater(signIns'[s].list, signIns'[s].acct, p)
  BY DEF ReadsFollow, Follows, FollowsLater, Even
<1> DEFINE Goal == FollowsLater(signIns'[s].list, signIns'[s].acct, p)
<1>1. At(s, "recommended") => signIns[s].acct \in Accounts
  BY DEF At, Sound, TypeOK, SignInCall
<1>2. ASSUME Quiet, At(s, "recommended"), signIns'[s] = signIns[s] PROVE Goal
  BY <1>1, <1>2, QuietBalances, ReadCarried
<1>3. ASSUME Quiet, UNCHANGED signIns PROVE Goal
  <2>1. At(s, "recommended")
    BY <1>3 DEF At
  <2>2. QED
    BY <1>2, <1>3, <2>1
<1>4. CASE \/ OpenList \/ Back \/ UNCHANGED vars
           \/ \E q \in Products : OpenDetail(q)
  <2>1. UNCHANGED <<docs, calls, signIns>>
    BY <1>4 DEF OpenList, Back, OpenDetail, vars
  <2>2. QED
    BY <1>3, <2>1, UnchangedIsQuiet
<1>5. CASE LeaveList \/ CloseDetail
  <2>1. UNCHANGED <<docs, signIns>> /\ (Unmounts("list") \/ Unmounts("detail"))
    BY <1>5 DEF LeaveList, CloseDetail
  <2>2. QED
    BY <1>3, <2>1, UnmountsIsQuiet DEF Sound
<1>6. ASSUME NEW t \in SignIds,
             \/ \E a \in Accounts : TapLogin(t, a)
             \/ SignInFails(t) \/ SignInSetsUser(t) \/ Unverified(t)
             \/ Twitter(t) \/ SignsUp(t)
      PROVE  Goal
  <2>1. UNCHANGED <<docs, calls>> /\ At(s, "recommended") /\ signIns'[s] = signIns[s]
    BY <1>6, SignInSteps
  <2>2. QED
    BY <1>2, <2>1, UnchangedIsQuiet
<1>7. ASSUME NEW t \in SignIds, SignInReads(t) PROVE Goal
  <2>1. Quiet
    BY <1>7, ReadFacts, UnchangedIsQuiet
  <2>2. CASE t # s
    <3>1. signIns'[s] = signIns[s]
      BY <1>7, <2>2, ReadFacts
    <3>2. At(s, "recommended")
      BY <3>1 DEF At
    <3>3. QED
      BY <1>2, <2>1, <3>1, <3>2
  <2>3. CASE t = s
    <3>1. /\ signIns'[s].list = docs[signIns'[s].acct].list["favorites"]
          /\ signIns'[s].missed = OnTheWay /\ docs' = docs
      BY <1>7, <2>3, ReadFacts
    <3>2. ToList(p) = {}
      BY <3>1 DEF OnTheWay
    <3>3. Even(ToList(p)')
      BY <2>1, <3>2, EvenEmpty DEF Quiet
    <3>4. QED
      BY <3>1, <3>3 DEF FollowsLater
  <2>4. QED
    BY <2>2, <2>3
<1>8. ASSUME NEW t \in SignIds, SignInPublishes(t) PROVE Goal
  <2>1. UNCHANGED <<docs, calls>> /\ At(s, "recommended") /\ signIns'[s] = signIns[s]
    BY <1>8, PublishFacts DEF SignInPublishes
  <2>2. QED
    BY <1>2, <2>1, UnchangedIsQuiet
<1>9. CASE SignOut
  <2> DEFINE m == [a \in Accounts |-> OnTheWay]
  <2>1. ReadsMiss(m) /\ m \in [Accounts -> SUBSET Products] /\ docs' = docs
    BY <1>9 DEF SignOut, OnTheWay
  <2>2. At(s, "recommended") => m[signIns[s].acct] = OnTheWay
    BY <1>1
  <2> HIDE DEF m
  <2>3. /\ At(s, "recommended")
        /\ signIns'[s].acct = signIns[s].acct /\ signIns'[s].list = signIns[s].list
        /\ signIns'[s].missed = signIns[s].missed \cup OnTheWay
    BY <2>1, <2>2, ReadsMissed DEF Sound
  <2>4. ToList(p) = {}
    BY <2>3 DEF OnTheWay
  <2>5. ToList(p)' = {}
    <3>1. \A i \in CallIds : calls'[i] # None /\ calls'[i].current =>
              /\ calls[i] # None /\ calls[i].current
              /\ calls'[i].item = calls[i].item /\ calls'[i].from = calls[i].from
              /\ calls'[i].done = calls[i].done
      BY <1>9, SignOutCalls DEF Sound, CallsFitPages
    <3>2. \A i \in CallIds : i \in ToList(p)' => i \in ToList(p)
      BY <3>1 DEF ToList
    <3>3. QED
      BY <2>4, <3>2 DEF ToList
  <2>6. Balanced(signIns[s].acct, p)
    BY <2>1, <2>4, <2>5 DEF Balanced
  <2>7. QED
    BY <2>3, <2>6, ReadCarried
<1>10. ASSUME NEW i \in CallIds, TapDetail(i) \/ \E q \in Products : TapHeart(i, q)
       PROVE  Goal
  BY <1>3, <1>10, TapIsQuiet DEF Sound
<1>11. ASSUME NEW i \in CallIds, NEW lost \in BOOLEAN, Toggles(i, lost),
              \A a \in Accounts, q \in Products :
                  q \notin Missed(calls[i], a, lost) => Balanced(a, q)
       PROVE  Goal
  <2>1. /\ At(s, "recommended")
        /\ signIns'[s].acct = signIns[s].acct /\ signIns'[s].list = signIns[s].list
        /\ signIns'[s].missed
              = signIns[s].missed \cup Missed(calls[i], signIns[s].acct, lost)
    BY <1>11, ToggledReads
  <2>2. Balanced(signIns[s].acct, p)
    BY <1>1, <1>11, <2>1
  <2>3. QED
    BY <2>1, <2>2, ReadCarried
<1>12. ASSUME NEW i \in CallIds, Commit(i) PROVE Goal
  <2>1. Toggles(i, FALSE)
    BY <1>12 DEF Commit
  <2>2. QED
    BY <1>11, <1>12, <2>1, CommitBalances
<1>13. ASSUME NEW i \in CallIds, Repeats(i) \/ LoseAnswer(i) PROVE Goal
  <2>1. Toggles(i, TRUE)
    BY <1>13 DEF Repeats, LoseAnswer
  <2>2. QED
    BY <1>11, <1>13, <2>1, UnheardBalances
<1>14. ASSUME NEW i \in CallIds, Refused(i) PROVE Goal
  BY <1>3, <1>14, RefusedIsQuiet DEF Sound
<1>15. ASSUME NEW i \in CallIds, Answer(i) PROVE Goal
  <2>1. /\ At(s, "recommended")
        /\ signIns'[s].acct = signIns[s].acct /\ signIns'[s].list = signIns[s].list
        /\ signIns'[s].missed = signIns[s].missed
                  \cup (IF ForList(calls[i]) THEN {calls[i].item} ELSE {})
    BY <1>15, AnswerFacts
  <2>2. docs' = docs
    BY <1>15 DEF Answer
  <2>3. ~(ForList(calls[i]) /\ calls[i].item = p)
    BY <2>1
  <2>4. Balanced(signIns[s].acct, p)
    BY <1>15, <2>2, <2>3, AnswerFlips DEF Balanced
  <2>5. QED
    BY <2>1, <2>4, ReadCarried
<1>16. ASSUME NEW a \in Accounts, Invited(a) PROVE Goal
  BY <1>3, <1>16, InvitedIsQuiet DEF Sound
<1>17. QED
  BY <1>4, <1>5, <1>6, <1>7, <1>8, <1>9, <1>10, <1>12, <1>13, <1>14, <1>15, <1>16 DEF Next

LEMMA ListNext == Sound /\ ListInv /\ [Next]_vars => ListInv'
BY MemNext, ReadsNext DEF ListInv

\* The hearts of the list page follow the server, whatever the order of commits,
\* answers, reads and sign-ins, but for the products a toggle was missed of.
THEOREM ListPageFollows == Spec => []ListFollowsServer
<1>1. ListInv => ListFollowsServer
  BY DEF ListInv
<1>2. QED
  BY SoundInit, SoundNext, ListInit, ListNext, <1>1, PTL DEF Spec
-----------------------------------------------------------------------------
(* The heart of the detail page.                                           *)

LEMMA HeartInit == Init => HeartFollowsServer
BY DEF Init, HeartFollowsServer

HeartFollowsLater == (heart' <=> item' \in docs'[user'].list["favorites"]) <=> Even(ToDetail')

\* The same steps seen from the detail page.
LEMMA HeartUnmoved ==
  ASSUME HeartFollowsServer, page = "detail", ~heartStale, item' = item,
         heart' <=> heart, user' = user,
         item \in docs'[user].list["favorites"] <=> item \in docs[user].list["favorites"],
         ToDetail' = ToDetail
  PROVE  HeartFollowsLater
BY DEF HeartFollowsServer, HeartFollowsLater, Even

LEMMA HeartNext ==
  Sound /\ ListInv /\ HeartFollowsServer /\ [Next]_vars => HeartFollowsServer'
<1> SUFFICES ASSUME Sound, ListInv, HeartFollowsServer, [Next]_vars,
                    page' = "detail", ~heartStale'
             PROVE  HeartFollowsLater
  BY DEF HeartFollowsServer, HeartFollowsLater, Even
<1> USE DEF Sound
<1>1. page = "detail" /\ ~heartStale => user \in Accounts /\ item \in Products
  BY DEF HeartHasUser, TypeOK
<1>2. ASSUME page = "detail", ~heartStale, user' = user, item' = item, heart' = heart,
             Quiet, ToDetail' = ToDetail
      PROVE  HeartFollowsLater
  BY <1>1, <1>2, HeartUnmoved DEF Quiet
<1>3. ASSUME UNCHANGED <<docs, calls>>, page = "detail", ~heartStale,
             UNCHANGED <<user, item, heart>>
      PROVE  HeartFollowsLater
  BY <1>2, <1>3, UnchangedIsQuiet
<1>4. CASE OpenList \/ LeaveList \/ Back \/ CloseDetail
  BY <1>4 DEF OpenList, LeaveList, Back, CloseDetail
<1>5. ASSUME NEW p \in Products, OpenDetail(p) PROVE HeartFollowsLater
  <2>1. /\ p \notin stale /\ ToList(p) = {} /\ user = owner /\ Loaded
        /\ item' = p /\ docs' = docs /\ user' = user /\ (heart' <=> p \in mem)
    BY <1>5 DEF OpenDetail, OnTheWay, state
  <2>2. ToDetail' = {}
    BY <1>5 DEF OpenDetail, ToDetail, CallsFitPages
  <2>3. p \in mem <=> p \in docs[user].list["favorites"]
    BY <2>1, EvenEmpty DEF ListInv, ListFollowsServer, Follows, Even
  <2>4. QED
    BY <2>1, <2>2, <2>3, EvenEmpty DEF HeartFollowsLater
<1>6. ASSUME NEW s \in SignIds,
             \/ \E a \in Accounts : TapLogin(s, a)
             \/ SignInFails(s) \/ SignInSetsUser(s) \/ Unverified(s)
             \/ Twitter(s) \/ SignsUp(s)
      PROVE  HeartFollowsLater
  <2>1. /\ UNCHANGED <<docs, calls, item, heart>> /\ page = "detail"
        /\ \/ user' = user /\ heartStale' = heartStale
           \/ \E a \in Accounts \cup {Null} : TurnsUserTo(a)
    BY <1>6, SignInSteps
  <2>2. heartStale \in BOOLEAN
    BY DEF TypeOK
  <2>3. ASSUME NEW a \in Accounts \cup {Null}, TurnsUserTo(a)
        PROVE  user' = user /\ ~heartStale
    BY <2>1, <2>2, <2>3 DEF TurnsUserTo
  <2>4. user' = user /\ ~heartStale
    BY <2>1, <2>3
  <2>5. QED
    BY <1>3, <2>1, <2>4
<1>7. CASE (\E s \in SignIds : SignInReads(s)) \/ UNCHANGED vars
  <2>1. UNCHANGED <<docs, calls, user, page, item, heart, heartStale>>
    BY <1>7 DEF SignInReads, vars, state, screen
  <2>2. QED
    BY <1>3, <2>1
<1>8. ASSUME NEW s \in SignIds, SignInPublishes(s) PROVE HeartFollowsLater
  <2>1. UNCHANGED <<docs, calls, item, heart>> /\ page = "detail" /\ TurnsUserTo(signIns[s].acct)
    BY <1>8 DEF SignInPublishes, OpensHome
  <2>2. user' = user /\ ~heartStale
    BY <2>1 DEF TurnsUserTo
  <2>3. QED
    BY <1>3, <2>1, <2>2
<1>9. CASE SignOut
  BY <1>9 DEF SignOut
<1>10. ASSUME NEW i \in CallIds, TapDetail(i) \/ \E q \in Products : TapHeart(i, q)
       PROVE  HeartFollowsLater
  BY <1>2, <1>10, TapIsQuiet DEF state, screen
<1>11. ASSUME NEW i \in CallIds, Commit(i) PROVE HeartFollowsLater
  <2>1. /\ calls[i] \in Call /\ calls[i] # None /\ ~calls[i].done
        /\ \A a \in Accounts, p \in Products :
              p \in docs'[a].list["favorites"]
                 <=> IF a = calls[i].acct /\ p = calls[i].item
                     THEN p \notin docs[a].list["favorites"]
                     ELSE p \in docs[a].list["favorites"]
    BY <1>11, TogglesFacts DEF Commit
  <2>2. /\ page = "detail" /\ ~heartStale /\ UNCHANGED <<item, heart, user>>
        /\ calls[i].item = item /\ calls[i].acct = user
              => calls[i].from = "detail" /\ calls[i].mounted
    BY <1>11 DEF Commit, Toggles, state, screen
  <2>3. calls[i].from = "detail" /\ calls[i].mounted
            => calls[i].item = item /\ calls[i].acct = user
    BY <2>1, <2>2 DEF CallsFitPages
  <2>4. /\ calls'[i] # None /\ calls'[i].done
        /\ calls'[i].from = calls[i].from /\ calls'[i].mounted = calls[i].mounted
        /\ \A j \in CallIds : j # i => calls'[j] = calls[j]
    BY <1>11, <2>1, MarkDone DEF Commit
  <2>5. i \notin ToDetail
    BY <2>1 DEF ToDetail
  <2>6. CASE calls[i].from = "detail" /\ calls[i].mounted
    <3>1. ToDetail' = ToDetail \cup {i}
      BY <2>4, <2>6 DEF ToDetail
    <3>2. Even(ToDetail') <=> ~Even(ToDetail)
      BY <2>5, <3>1, CallsAreFinite, EvenFlips
    <3>3. item \in docs'[user].list["favorites"] <=> item \notin docs[user].list["favorites"]
      BY <1>1, <2>1, <2>2, <2>3, <2>6
    <3>4. QED
      BY <2>2, <3>2, <3>3 DEF HeartFollowsServer, HeartFollowsLater, Even
  <2>7. CASE ~(calls[i].from = "detail" /\ calls[i].mounted)
    <3>1. ToDetail' = ToDetail
      BY <2>4, <2>5, <2>7 DEF ToDetail
    <3>2. item \in docs'[user].list["favorites"] <=> item \in docs[user].list["favorites"]
      BY <1>1, <2>1, <2>2, <2>7
    <3>3. QED
      BY <2>2, <3>1, <3>2, HeartUnmoved
  <2>8. QED
    BY <2>6, <2>7
<1>12. ASSUME NEW i \in CallIds, Repeats(i) \/ LoseAnswer(i) PROVE HeartFollowsLater
  <2>1. /\ calls[i] # None /\ ~calls[i].done
        /\ \A a \in Accounts, p \in Products :
              p \in docs'[a].list["favorites"]
                 <=> IF a = calls[i].acct /\ p = calls[i].item
                     THEN p \notin docs[a].list["favorites"]
                     ELSE p \in docs[a].list["favorites"]
    BY <1>12, TogglesFacts DEF Repeats, LoseAnswer
  <2>2. /\ page = "detail" /\ ~heartStale /\ UNCHANGED <<item, heart, user>>
        /\ ~(calls[i].item = item /\ calls[i].acct = user)
    BY <1>12 DEF Repeats, LoseAnswer, Toggles, state, screen
  <2>3. item \in docs'[user].list["favorites"] <=> item \in docs[user].list["favorites"]
    BY <1>1, <2>1, <2>2
  <2>4. ToDetail' = ToDetail
    <3>1. CASE Repeats(i)
      BY <3>1 DEF Repeats, ToDetail
    <3>2. CASE LoseAnswer(i)
      BY <2>1, <3>2, SlotType DEF LoseAnswer, Ends, ToDetail
    <3>3. QED
      BY <1>12, <3>1, <3>2
  <2>5. QED
    BY <2>2, <2>3, <2>4, HeartUnmoved
<1>13. ASSUME NEW i \in CallIds, Refused(i) PROVE HeartFollowsLater
  BY <1>2, <1>13, RefusedIsQuiet DEF state, screen
<1>14. ASSUME NEW i \in CallIds, Answer(i) PROVE HeartFollowsLater
  <2>1. /\ calls[i] # None /\ calls[i].done
        /\ \A j \in CallIds : calls'[j] = IF j = i THEN None ELSE calls[j]
    BY <1>14, AnswerFacts
  <2>2. /\ page = "detail" /\ ~heartStale /\ UNCHANGED <<docs, item, user>>
        /\ heart' = IF calls[i].from = "detail" /\ calls[i].mounted THEN ~heart ELSE heart
    BY <1>14 DEF Answer
  <2>3. CASE i \in ToDetail
    <3>1. heart' = ~heart
      BY <2>2, <2>3 DEF ToDetail
    <3>2. ToDetail = ToDetail' \cup {i} /\ i \notin ToDetail'
      BY <2>1, <2>3 DEF ToDetail
    <3>3. Even(ToDetail') <=> ~Even(ToDetail)
      BY <3>2, CallsAreFiniteLater, EvenFlips
    <3>4. QED
      BY <2>2, <3>1, <3>3 DEF HeartFollowsServer, HeartFollowsLater, Even
  <2>4. CASE i \notin ToDetail
    <3>1. heart' = heart
      BY <2>1, <2>2, <2>4 DEF ToDetail
    <3>2. ToDetail' = ToDetail
      BY <2>1, <2>4 DEF ToDetail
    <3>3. QED
      BY <2>2, <3>1, <3>2, HeartUnmoved
  <2>5. QED
    BY <2>3, <2>4
<1>15. ASSUME NEW a \in Accounts, Invited(a) PROVE HeartFollowsLater
  BY <1>2, <1>15, InvitedIsQuiet DEF state, screen
<1>16. QED
  BY <1>4, <1>5, <1>6, <1>7, <1>8, <1>9, <1>10, <1>11, <1>12, <1>13, <1>14, <1>15 DEF Next

\* The heart of the detail page follows the server, if it was right when the page
\* opened, the user is the same since and no toggle from elsewhere has arrived.
THEOREM DetailPageFollows == Spec => []HeartFollowsServer
BY SoundInit, SoundNext, ListInit, ListNext, HeartInit, HeartNext, PTL DEF Spec
-----------------------------------------------------------------------------
(* What becomes of a document that a tap or an invitation created.         *)

Poor(doc) == doc.exists /\ ~doc.indexed => Cardinality(doc.has) = 1

LEMMA OneListInit == Init => CreatedDocumentHasOneList
BY DEF Init, CreatedDocumentHasOneList, MissingDoc, ProvisionedDoc

LEMMA CreatedIsPoor ==
  ASSUME NEW f, NEW v
  PROVE  Poor(DocWith(f, v))
<1>1. DocWith(f, v).has = {f} /\ Cardinality({f}) = 1
  BY FS_Singleton DEF DocWith
<1>2. QED
  BY <1>1 DEF Poor

LEMMA ToggledStaysPoor ==
  ASSUME NEW d \in Doc, Poor(d), NEW p, ~Throws(d, "favorites")
  PROVE  Poor(AfterToggle(d, "favorites", p))
<1> DEFINE new == AfterToggle(d, "favorites", p)
<1>1. CASE ~d.exists
  BY <1>1, CreatedIsPoor DEF AfterToggle
<1>2. CASE d.exists
  <2>1. new.exists = d.exists /\ new.indexed = d.indexed /\ new.has = d.has
    BY <1>2 DEF AfterToggle, Doc
  <2>2. QED
    BY <2>1 DEF Poor
<1>3. QED
  BY <1>1, <1>2

LEMMA OneListNext ==
  TypeOK /\ CreatedDocumentHasOneList /\ [Next]_vars => CreatedDocumentHasOneList'
<1> SUFFICES ASSUME TypeOK, CreatedDocumentHasOneList, [Next]_vars
             PROVE  CreatedDocumentHasOneList'
  OBVIOUS
<1>1. ASSUME NEW a \in Accounts, NEW new, docs' = [docs EXCEPT ![a] = new], Poor(new)
      PROVE  CreatedDocumentHasOneList'
  <2>1. \A b \in Accounts : docs'[b] = IF b = a THEN new ELSE docs[b]
    BY <1>1 DEF TypeOK
  <2>2. QED
    BY <1>1, <2>1 DEF Poor, CreatedDocumentHasOneList
<1>2. CASE docs' = docs
  BY <1>2 DEF CreatedDocumentHasOneList
<1>3. ASSUME NEW a \in Accounts, Invited(a) PROVE CreatedDocumentHasOneList'
  BY <1>1, <1>3, CreatedIsPoor DEF Invited
<1>4. ASSUME NEW i \in CallIds, NEW lost \in BOOLEAN, Toggles(i, lost)
      PROVE  CreatedDocumentHasOneList'
  <2> DEFINE new == AfterToggle(docs[calls[i].acct], "favorites", calls[i].item)
  <2>1. /\ calls[i].acct \in Accounts /\ docs[calls[i].acct] \in Doc
        /\ ~Throws(docs[calls[i].acct], "favorites")
        /\ docs' = [docs EXCEPT ![calls[i].acct] = new]
    BY <1>4 DEF Toggles, AfterCall, TypeOK, Call
  <2>2. Poor(docs[calls[i].acct])
    BY <2>1 DEF Poor, CreatedDocumentHasOneList
  <2>3. Poor(new)
    BY <2>1, <2>2, ToggledStaysPoor
  <2> HIDE DEF new
  <2>4. QED
    BY <1>1, <2>1, <2>3
<1>5. ASSUME NEW i \in CallIds, Commit(i) \/ Repeats(i) \/ LoseAnswer(i)
      PROVE  CreatedDocumentHasOneList'
  BY <1>4, <1>5 DEF Commit, Repeats, LoseAnswer
<1>6. QED
  BY <1>2, <1>3, <1>5 DEF Next, vars, OpenList, LeaveList, Back, OpenDetail, CloseDetail,
     TapLogin, SignInFails, SignInSetsUser, Unverified, Twitter, SignsUp, SignInReads,
     SignInPublishes, SignOut, TapHeart, TapDetail, Starts, Refused, RefusedWith, Answer

\* A document created by a first write keeps to that one list.
THEOREM CreatedDocumentsStayPoor == Spec => []CreatedDocumentHasOneList
<1>1. Sound => TypeOK
  BY DEF Sound
<1>2. QED
  BY SoundInit, SoundNext, OneListInit, OneListNext, <1>1, PTL DEF Spec
=============================================================================
