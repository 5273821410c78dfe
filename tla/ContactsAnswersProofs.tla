----------------------- MODULE ContactsAnswersProofs -----------------------
(***************************************************************************)
(* What becomes of invitations and answers on the contact list, for every  *)
(* number of accounts, transactions and fetches: none falls through, only  *)
(* the owner takes off, and what was answered is gone.                     *)
(*                                                                         *)
(* Everything rests on the transactions in flight: each update stands for  *)
(* an answer, and an invitation that was seen is no longer on its way      *)
(* unless it was sent again.                                               *)
(***************************************************************************)
EXTENDS ContactsProofs

Sends(i, f, p) ==
    ~Free(i) /\ tx[i].op = "send" /\ tx[i].field = f /\ p = <<tx[i].doc, tx[i].id>>

Updates(i, f, p) ==
    ~Free(i) /\ tx[i].op = "update" /\ tx[i].field = f /\ p = <<tx[i].doc, tx[i].id>>

Answered == agreed \cup declined

\* An invitation that may be answered, in one of the stages it passes through.
Offered(a, x) ==
    \/ x \in view[a]["invitations"]
    \/ Shows(a, "reply") /\ dialog[a].id = x
    \/ \E k \in FetchIds :
          /\ fetch[a]["invitations"][k] # None
          /\ x \in fetch[a]["invitations"][k].todo \cup fetch[a]["invitations"][k].got

UpdatedOnlyIfAnswered ==
    \A i \in TxIds, p \in Pairs :
        /\ Updates(i, "invitations", p) => p \in Answered
        /\ Updates(i, "friends", p) => p \in removed

NoneFalls ==
    \A p \in Pairs :
        /\ p \in asked => \/ p \in Listed("invitations") \cup Answered \cup lost
                          \/ \E i \in TxIds : Sends(i, "invitations", p)
        /\ p \in agreed => \/ p \in Listed("friends") \cup removed \cup lost
                           \/ \E i \in TxIds : Sends(i, "friends", p)

Arrived(p) ==
    \/ p \in Listed("invitations") \cup Answered
    \/ p[1] \in Accounts /\ Offered(p[1], p[2])

SentOnce ==
    \A p \in Pairs \ again, i \in TxIds : Sends(i, "invitations", p) =>
        /\ ~Arrived(p)
        /\ \A j \in TxIds : Sends(j, "invitations", p) => i = j

GoneOrGoing ==
    \A p \in Pairs \ (again \cup lost) :
        p \in Answered \cap Listed("invitations") =>
            \E i \in TxIds : Updates(i, "invitations", p)

AnswersInv ==
    /\ declined \subseteq asked
    /\ UpdatedOnlyIfAnswered
    /\ NoneFalls
    /\ SentOnce
    /\ GoneOrGoing
-----------------------------------------------------------------------------
(* What a step does to the lists.                                          *)

\* What a transaction makes of a list that is not the one it is for, and of the
\* other entries of the one it is for.
LEMMA TxTouches ==
  ASSUME NEW t \in Transaction, NEW doc \in ContactDoc, NEW f \in Lists, NEW x \in Accounts
  PROVE  /\ x \in AfterTx(t, doc).list[f] /\ x \notin doc.list[f]
               => t.op = "send" /\ t.field = f /\ t.id = x
         /\ x \in doc.list[f] /\ x \notin AfterTx(t, doc).list[f]
               => t.op = "update" /\ t.field = f /\ t.id = x
         /\ ~Throws(doc, t.field) /\ t.field = f /\ t.id = x =>
               /\ t.op = "send" => x \in AfterTx(t, doc).list[f]
               /\ t.op = "update" => x \notin AfterTx(t, doc).list[f]
<1>1. /\ t.field \in Fields /\ f \in Fields /\ doc \in Doc
      /\ t.op \in {"send", "update"}
  BY DEF Transaction, Lists, Fields, ContactDoc
<1>2. doc.list \in [Fields -> SUBSET (Accounts \cup Products)] /\ (~doc.exists => doc.list[f] = {})
  BY <1>1 DEF Doc
<1>3. CASE t.op = "send" /\ ~doc.exists
  BY <1>1, <1>2, <1>3 DEF AfterTx, AfterSend, DocWith, NoLists, Throws
<1>4. CASE t.op = "send" /\ doc.exists
  BY <1>1, <1>2, <1>4 DEF AfterTx, AfterSend, Throws, Doc
<1>5. CASE t.op = "update"
  BY <1>1, <1>2, <1>5 DEF AfterTx, AfterUpdate, Throws, Doc
<1>6. QED
  BY <1>1, <1>3, <1>4, <1>5

\* A commit, heard of or not, and the lists.
LEMMA CommitLists ==
  ASSUME TypeOK, NEW i \in TxIds, Commit(i) \/ Repeats(i),
         NEW f \in Lists, NEW p \in Pairs
  PROVE  /\ p \in Listed(f)' /\ p \notin Listed(f) => Sends(i, f, p)
         /\ p \in Listed(f) /\ p \notin Listed(f)' => Updates(i, f, p)
         /\ Sends(i, f, p) => p \in Listed(f)' \cup lost'
         /\ Updates(i, f, p) => p \notin Listed(f)' \/ p \in lost'
<1>1. PICK d \in DocIds, x \in Accounts : p = <<d, x>>
  BY DEF Pairs
<1>2. /\ tx[i] \in Transaction /\ tx[i].doc \in DocIds
      /\ users' = [users EXCEPT ![tx[i].doc] = AfterTx(tx[i], @)]
      /\ ~Free(i)
  BY TxCommits, NoneIsNoTransaction DEF Free
<1>3. users \in [DocIds -> ContactDoc]
  BY DocsType DEF TypeOK
<1>4. /\ p \in Listed(f) <=> x \in users[d].list[f]
      /\ p \in Listed(f)' <=> x \in users'[d].list[f]
  BY <1>1 DEF Listed, Pairs
<1>5. CASE d # tx[i].doc
  <2>1. users'[d] = users[d]
    BY <1>2, <1>3, <1>5
  <2>2. QED
    BY <1>1, <1>4, <1>5, <2>1 DEF Sends, Updates
<1>6. CASE d = tx[i].doc
  <2>1. users'[d] = AfterTx(tx[i], users[d]) /\ users[d] \in ContactDoc
    BY <1>2, <1>3, <1>6
  <2>2. Throws(users[d], tx[i].field) /\ p = <<tx[i].doc, tx[i].id>> => p \in lost'
    BY <1>6 DEF Commit, Repeats
  <2>3. QED
    BY <1>1, <1>2, <1>4, <1>6, <2>1, <2>2, TxTouches DEF Sends, Updates
<1>7. QED
  BY <1>5, <1>6

LEMMA LikeLists ==
  ASSUME TypeOK, NEW a \in Accounts, NEW p \in Products, Like(a, p), NEW f \in Lists
  PROVE  Listed(f)' = Listed(f)
<1>1. users \in [DocIds -> ContactDoc]
  BY DocsType DEF TypeOK
<1>2. \A d \in DocIds : users'[d].list[f] = users[d].list[f]
  BY <1>1, LikeEffect DEF Like
<1>3. QED
  BY <1>2 DEF Listed, Pairs
-----------------------------------------------------------------------------
(* What a step does to the pages and to the transactions.                  *)

\* An invitation is offered from the list alone.
OffersNothingNew ==
    \A a, x \in Accounts :
        Offered(a, x)' => Offered(a, x) \/ <<a, x>> \in Listed("invitations")

LEMMA ClosingOffersNothing ==
  ASSUME TypeOK, NEW a \in Accounts, ClosesDialog(a)
  PROVE  OffersNothingNew
<1>1. \A b \in Accounts : Shows(b, "reply")' => Shows(b, "reply") /\ dialog'[b] = dialog[b]
  BY DialogCloses
<1>2. QED
  BY <1>1 DEF ClosesDialog, OffersNothingNew, Offered

\* The actions of a page that neither call nor answer.
PageStep ==
    \/ UNCHANGED vars
    \/ \E a \in Accounts :
          \/ \E e \in Accounts : OpenReply(a, e) \/ OpenDetails(a, e)
          \/ OpenDelete(a)
          \/ Cancel(a)
          \/ Page(a)

LEMMA PageSteps ==
  ASSUME TypeOK, PageStep
  PROVE  UNCHANGED <<users, tx, history>> /\ OffersNothingNew
<1>1. CASE UNCHANGED vars
  BY <1>1 DEF vars, page, OffersNothingNew, Offered, Shows
<1>2. ASSUME NEW a \in Accounts, NEW e \in Accounts, OpenReply(a, e)
      PROVE  UNCHANGED <<users, tx, history>> /\ OffersNothingNew
  BY <1>2 DEF OpenReply, OffersNothingNew, Offered, Shows, TypeOK
<1>3. ASSUME NEW a \in Accounts, NEW e \in Accounts, OpenDetails(a, e)
      PROVE  UNCHANGED <<users, tx, history>> /\ OffersNothingNew
  BY <1>3 DEF OpenDetails, OffersNothingNew, Offered, Shows, TypeOK
<1>4. ASSUME NEW a \in Accounts, OpenDelete(a)
      PROVE  UNCHANGED <<users, tx, history>> /\ OffersNothingNew
  BY <1>4, DeleteOpens DEF OpenDelete, OffersNothingNew, Offered
<1>5. ASSUME NEW a \in Accounts, Cancel(a)
      PROVE  UNCHANGED <<users, tx, history>> /\ OffersNothingNew
  BY <1>5, ClosingOffersNothing DEF Cancel
<1>6. ASSUME NEW a \in Accounts, OpenPage(a)
      PROVE  UNCHANGED <<users, tx, history>> /\ OffersNothingNew
  BY <1>6 DEF OpenPage, OffersNothingNew, Offered, Shows
<1>7. ASSUME NEW a \in Accounts, ClosePage(a)
      PROVE  UNCHANGED <<users, tx, history>> /\ OffersNothingNew
  <2>1. "invitations" \in Lists
    BY DEF Lists
  <2>2. QED
    BY <1>7, <2>1 DEF ClosePage, OffersNothingNew, Offered, Shows, NoFetch, NoView, TypeOK
<1>8. ASSUME NEW a \in Accounts, NEW f \in Lists, NEW k \in FetchIds, StartFetch(a, f, k)
      PROVE  UNCHANGED <<users, tx, history>> /\ OffersNothingNew
  <2>1. "invitations" \in Lists /\ a \in DocIds
    BY DEF Lists, DocIds
  <2>2. \A x \in Accounts : x \in users[a].list["invitations"] => <<a, x>> \in Listed("invitations")
    BY <2>1, ListedIff
  <2>3. QED
    BY <1>8, <2>1, <2>2 DEF StartFetch, OffersNothingNew, Offered, Shows, TypeOK
<1>9. ASSUME NEW a \in Accounts, NEW f \in Lists, NEW k \in FetchIds,
             NEW x \in Accounts, ReadEntry(a, f, k, x)
      PROVE  UNCHANGED <<users, tx, history>> /\ OffersNothingNew
  <2> DEFINE old == fetch[a][f][k]
  <2>1. PICK r : /\ fetch' = [fetch EXCEPT ![a][f][k] = r]
                 /\ r # None => (r.todo \cup r.got) \ {Null} \subseteq old.todo \cup old.got
    <3> DEFINE entry == IF users[x].indexed THEN x ELSE Null
               read == [todo |-> old.todo \ {x}, got |-> old.got \cup {entry}]
    <3>1. /\ x \in old.todo
          /\ fetch' = [fetch EXCEPT ![a][f][k] = IF users[x].exists THEN read ELSE None]
      BY <1>9 DEF ReadEntry
    <3>2. (read.todo \cup read.got) \ {Null} \subseteq old.todo \cup old.got
      BY <3>1
    <3>3. QED
      BY <3>1, <3>2
  <2>2. old # None /\ Null \notin Accounts
    BY <1>9, ContactsAssumption DEF ReadEntry, DocIds
  <2>3. \A b \in Accounts, l \in FetchIds :
           fetch'[b]["invitations"][l] =
              IF b = a /\ f = "invitations" /\ l = k THEN r ELSE fetch[b]["invitations"][l]
    <3>1. fetch' = [fetch EXCEPT ![a] = [fetch[a] EXCEPT ![f] = [fetch[a][f] EXCEPT ![k] = r]]]
      BY <2>1
    <3>2. /\ fetch[a] \in [Lists -> [FetchIds -> Fetch \cup {None}]]
          /\ fetch[a][f] \in [FetchIds -> Fetch \cup {None}]
          /\ fetch \in [Accounts -> [Lists -> [FetchIds -> Fetch \cup {None}]]]
          /\ "invitations" \in Lists
      BY DEF TypeOK, Lists
    <3>3. /\ fetch'[a] = [fetch[a] EXCEPT ![f] = [fetch[a][f] EXCEPT ![k] = r]]
          /\ \A b \in Accounts \ {a} : fetch'[b] = fetch[b]
      BY <3>1, <3>2
    <3>4. fetch'[a]["invitations"] = IF f = "invitations" THEN [fetch[a][f] EXCEPT ![k] = r]
                                     ELSE fetch[a]["invitations"]
      BY <3>2, <3>3
    <3>5. TAKE b \in Accounts, l \in FetchIds
    <3>6. CASE b = a /\ f = "invitations"
      BY <3>2, <3>4, <3>6
    <3>7. CASE b = a /\ f # "invitations"
      BY <3>4, <3>7
    <3>8. CASE b # a
      BY <3>3, <3>8
    <3>9. QED
      BY <3>6, <3>7, <3>8
  <2>4. \A b, y \in Accounts, l \in FetchIds :
           /\ fetch'[b]["invitations"][l] # None
           /\ y \in fetch'[b]["invitations"][l].todo \cup fetch'[b]["invitations"][l].got
           => /\ fetch[b]["invitations"][l] # None
              /\ y \in fetch[b]["invitations"][l].todo \cup fetch[b]["invitations"][l].got
    BY <2>1, <2>2, <2>3
  <2>5. UNCHANGED <<users, tx, history, view, dialog>>
    BY <1>9 DEF ReadEntry
  <2>6. QED
    BY <2>4, <2>5 DEF OffersNothingNew, Offered, Shows
<1>10. ASSUME NEW a \in Accounts, NEW f \in Lists, NEW k \in FetchIds, Publish(a, f, k)
       PROVE  UNCHANGED <<users, tx, history>> /\ OffersNothingNew
  <2>1. "invitations" \in Lists
    BY DEF Lists
  <2>2. QED
    BY <1>10, <2>1 DEF Publish, OffersNothingNew, Offered, Shows, TypeOK
<1>11. ASSUME NEW a \in Accounts, NEW f \in Lists, NEW k \in FetchIds, FailFetch(a, f, k)
       PROVE  UNCHANGED <<users, tx, history>> /\ OffersNothingNew
  <2>1. "invitations" \in Lists
    BY DEF Lists
  <2>2. QED
    BY <1>11, <2>1 DEF FailFetch, OffersNothingNew, Offered, Shows, TypeOK
<1>12. QED
  BY <1>1, <1>2, <1>3, <1>4, <1>5, <1>6, <1>7, <1>8, <1>9, <1>10, <1>11 DEF PageStep, Page
-----------------------------------------------------------------------------
(* The invariant.                                                          *)

LEMMA AnswersInit == Init => AnswersInv
<1> SUFFICES ASSUME Init PROVE AnswersInv
  OBVIOUS
<1>1. \A f \in Lists : Listed(f) = {}
  BY InitialDocs DEF Init, Listed, Pairs, NoLists, Lists, Fields
<1>2. \A i \in TxIds, f \in Lists, p \in Pairs : ~Sends(i, f, p) /\ ~Updates(i, f, p)
  BY DEF Init, Sends, Updates, Free
<1>3. QED
  BY <1>1, <1>2 DEF Init, AnswersInv, UpdatedOnlyIfAnswered, NoneFalls, SentOnce,
       GoneOrGoing, Answered, Lists

\* Steps that start, end and commit nothing.
LEMMA AnswersQuiet ==
  ASSUME AnswersInv, UNCHANGED <<tx, history>>, \A f \in Lists : Listed(f)' = Listed(f),
         OffersNothingNew
  PROVE  AnswersInv'
<1>1. \A i \in TxIds, f \in Lists, p \in Pairs :
          (Sends(i, f, p)' <=> Sends(i, f, p)) /\ (Updates(i, f, p)' <=> Updates(i, f, p))
  BY DEF Sends, Updates, Free
<1>2. UNCHANGED <<asked, again, agreed, declined, removed, lost, Answered>>
  BY DEF history, Answered
<1>3. Listed("invitations")' = Listed("invitations") /\ Listed("friends")' = Listed("friends")
  BY DEF Lists
<1>4. \A p \in Pairs : Arrived(p)' => Arrived(p)
  <2>1. SUFFICES ASSUME NEW p \in Pairs, Arrived(p)' PROVE Arrived(p)
    OBVIOUS
  <2>2. p = <<p[1], p[2]>> /\ p[2] \in Accounts
    BY DEF Pairs
  <2>3. QED
    BY <1>2, <1>3, <2>1, <2>2 DEF Arrived, OffersNothingNew
<1>5. "invitations" \in Lists /\ "friends" \in Lists
  BY DEF Lists
<1>6. UpdatedOnlyIfAnswered'
  BY <1>1, <1>2, <1>5 DEF AnswersInv, UpdatedOnlyIfAnswered
<1>7. NoneFalls'
  BY <1>1, <1>2, <1>3, <1>5 DEF AnswersInv, NoneFalls
<1>8. SentOnce'
  BY <1>1, <1>2, <1>4, <1>5 DEF AnswersInv, SentOnce
<1>9. GoneOrGoing'
  BY <1>1, <1>2, <1>3, <1>5 DEF AnswersInv, GoneOrGoing
<1>10. QED
  BY <1>2, <1>6, <1>7, <1>8, <1>9 DEF AnswersInv

LEMMA AnswersInvite ==
  ASSUME TypeOK, ConsentInv, AnswersInv,
         NEW x \in Accounts, NEW t \in Accounts \cup Indexes \cup {Null},
         NEW d \in DocIds, NEW i \in TxIds, Invite(x, t, d, i)
  PROVE  AnswersInv'
<1> DEFINE new == <<d, x>>
<1>1. /\ Free(i) /\ "invitations" \in Lists /\ "friends" \in Lists /\ new \in Pairs
      /\ tx' = [tx EXCEPT ![i] = Send("invitations", x, d)]
  BY DEF Invite, Lists, Pairs
<1>2. \A j \in TxIds, g \in Lists, p \in Pairs :
         /\ Sends(j, g, p)' <=> Sends(j, g, p) \/ (j = i /\ g = "invitations" /\ p = new)
         /\ Updates(j, g, p)' <=> Updates(j, g, p)
  <2>1. Send("invitations", x, d) # None
    BY <1>1, SendIsTransaction, NoneIsNoTransaction
  <2>2. QED
    BY <1>1, <2>1 DEF Sends, Updates, Free, Send, TypeOK
<1>3. /\ UNCHANGED <<users, page, agreed, declined, removed, lost>>
      /\ asked' = asked \cup {new}
      /\ again' = IF new \in asked THEN again \cup {new} ELSE again
  BY DEF Invite
<1>4. /\ Listed("invitations")' = Listed("invitations") /\ Listed("friends")' = Listed("friends")
      /\ Answered' = Answered
      /\ \A p \in Pairs : Arrived(p)' <=> Arrived(p)
  BY <1>3 DEF Listed, Answered, Arrived, Offered, Shows, page
<1>5. ASSUME new \notin asked
      PROVE  ~Arrived(new) /\ \A j \in TxIds : ~Sends(j, "invitations", new)
  <2>1. \A j \in TxIds : ~Sends(j, "invitations", new)
    BY <1>5 DEF ConsentInv, SentOnlyIfConsented, Sends
  <2>2. new \notin Listed("invitations") \cup Answered
    BY <1>5 DEF ConsentInv, FriendsConsented, AnswersInv, Answered
  <2>3. d \in Accounts => ~Offered(d, x)
    BY <1>5 DEF ConsentInv, OfferedOnlyIfAsked, Offered
  <2>4. QED
    BY <2>1, <2>2, <2>3 DEF Arrived
<1>6. UpdatedOnlyIfAnswered'
  BY <1>1, <1>2, <1>3, <1>4 DEF AnswersInv, UpdatedOnlyIfAnswered
<1>7. NoneFalls'
  BY <1>1, <1>2, <1>3, <1>4 DEF AnswersInv, NoneFalls
<1>8. SentOnce'
  <2>1. SUFFICES ASSUME NEW p \in Pairs \ again', NEW j \in TxIds, Sends(j, "invitations", p)'
                 PROVE  /\ ~Arrived(p)
                        /\ \A k \in TxIds : Sends(k, "invitations", p)' => j = k
    BY <1>4 DEF SentOnce
  <2>2. CASE p = new
    BY <1>1, <1>2, <1>3, <1>5, <2>1, <2>2
  <2>3. CASE p # new
    BY <1>1, <1>2, <1>3, <2>1, <2>3 DEF AnswersInv, SentOnce
  <2>4. QED
    BY <2>2, <2>3
<1>9. GoneOrGoing'
  BY <1>1, <1>2, <1>3, <1>4 DEF AnswersInv, GoneOrGoing
<1>10. QED
  BY <1>3, <1>6, <1>7, <1>8, <1>9 DEF AnswersInv

LEMMA AnswersCommit ==
  ASSUME TypeOK, AnswersInv, NEW i \in TxIds, Commit(i) \/ Repeats(i)
  PROVE  AnswersInv'
<1>1. /\ "invitations" \in Lists /\ "friends" \in Lists
      /\ UNCHANGED <<page, asked, agreed, declined, removed>>
      /\ again \subseteq again' /\ lost \subseteq lost'
  BY TxCommits DEF Lists
<1>2. \A f \in Lists, p \in Pairs :
         /\ p \in Listed(f)' /\ p \notin Listed(f) => Sends(i, f, p)
         /\ p \in Listed(f) /\ p \notin Listed(f)' => Updates(i, f, p)
         /\ Sends(i, f, p) => p \in Listed(f)' \cup lost'
         /\ Updates(i, f, p) => p \notin Listed(f)' \/ p \in lost'
  BY CommitLists
<1>3. \A j \in TxIds, f \in Lists, p \in Pairs :
         /\ Sends(j, f, p)' => Sends(j, f, p)
         /\ Updates(j, f, p)' => Updates(j, f, p)
         /\ j # i => (Sends(j, f, p)' <=> Sends(j, f, p)) /\ (Updates(j, f, p)' <=> Updates(j, f, p))
  <2>1. tx' = [tx EXCEPT ![i] = None] \/ tx' = tx
    BY TxCommits
  <2>2. tx \in [TxIds -> Transaction \cup {None}]
    BY DEF TypeOK
  <2>3. CASE tx' = tx
    BY <2>3 DEF Sends, Updates, Free
  <2>4. CASE tx' = [tx EXCEPT ![i] = None]
    BY <2>2, <2>4 DEF Sends, Updates, Free
  <2>5. QED
    BY <2>1, <2>3, <2>4
<1>4. Answered' = Answered /\ \A a, x \in Accounts : Offered(a, x)' <=> Offered(a, x)
  BY <1>1 DEF Answered, Offered, Shows, page
<1>5. Commit(i) => \A p \in Pairs, f \in Lists : ~Sends(i, f, p)'
  BY DEF Commit, Ends, Sends, Free, TypeOK
<1>6. Repeats(i) => \A p \in Pairs : Sends(i, "invitations", p) => p \in again'
  BY DEF Repeats, Sends
<1>7. UpdatedOnlyIfAnswered'
  BY <1>1, <1>3, <1>4 DEF AnswersInv, UpdatedOnlyIfAnswered
<1>8. NoneFalls'
  <2>1. SUFFICES ASSUME NEW p \in Pairs
        PROVE  /\ p \in asked => \/ p \in Listed("invitations")' \cup Answered \cup lost'
                                 \/ \E j \in TxIds : Sends(j, "invitations", p)'
               /\ p \in agreed => \/ p \in Listed("friends")' \cup removed \cup lost'
                                  \/ \E j \in TxIds : Sends(j, "friends", p)'
    BY <1>1, <1>4 DEF NoneFalls
  <2>2. ASSUME p \in asked
        PROVE  \/ p \in Listed("invitations")' \cup Answered \cup lost'
               \/ \E j \in TxIds : Sends(j, "invitations", p)'
    <3>1. CASE p \in Listed("invitations")
      BY <1>1, <1>2, <3>1 DEF AnswersInv, UpdatedOnlyIfAnswered
    <3>2. CASE p \in Answered \cup lost
      BY <1>1, <3>2
    <3>3. ASSUME NEW j \in TxIds, Sends(j, "invitations", p)
          PROVE  \/ p \in Listed("invitations")' \cup Answered \cup lost'
                 \/ Sends(j, "invitations", p)'
      BY <1>1, <1>2, <1>3, <3>3
    <3>4. QED
      BY <2>2, <3>1, <3>2, <3>3 DEF AnswersInv, NoneFalls
  <2>3. ASSUME p \in agreed
        PROVE  \/ p \in Listed("friends")' \cup removed \cup lost'
               \/ \E j \in TxIds : Sends(j, "friends", p)'
    <3>1. CASE p \in Listed("friends")
      BY <1>1, <1>2, <3>1 DEF AnswersInv, UpdatedOnlyIfAnswered
    <3>2. CASE p \in removed \cup lost
      BY <1>1, <3>2
    <3>3. ASSUME NEW j \in TxIds, Sends(j, "friends", p)
          PROVE  \/ p \in Listed("friends")' \cup removed \cup lost'
                 \/ Sends(j, "friends", p)'
      BY <1>1, <1>2, <1>3, <3>3
    <3>4. QED
      BY <2>3, <3>1, <3>2, <3>3 DEF AnswersInv, NoneFalls
  <2>4. QED
    BY <2>2, <2>3
<1>9. SentOnce'
  <2>1. SUFFICES ASSUME NEW p \in Pairs \ again', NEW j \in TxIds, Sends(j, "invitations", p)'
                 PROVE  /\ ~Arrived(p)'
                        /\ \A k \in TxIds : Sends(k, "invitations", p)' => j = k
    BY DEF SentOnce
  <2>2. /\ p \notin again /\ Sends(j, "invitations", p) /\ ~Arrived(p)
        /\ \A k \in TxIds : Sends(k, "invitations", p) => j = k
    BY <1>1, <1>3, <2>1 DEF AnswersInv, SentOnce
  <2>3. ~Sends(i, "invitations", p)
    BY <1>1, <1>5, <1>6, <2>1, <2>2
  <2>4. p \notin Listed("invitations")'
    BY <1>1, <1>2, <2>2, <2>3 DEF Arrived
  <2>5. ~Arrived(p)'
    <3>1. p[2] \in Accounts
      BY DEF Pairs
    <3>2. QED
      BY <1>4, <2>2, <2>4, <3>1 DEF Arrived
  <2>6. QED
    BY <1>1, <1>3, <2>2, <2>5
<1>10. GoneOrGoing'
  <2>1. SUFFICES ASSUME NEW p \in Pairs \ (again' \cup lost'),
                        p \in Answered, p \in Listed("invitations")'
                 PROVE  \E j \in TxIds : Updates(j, "invitations", p)'
    BY <1>4 DEF GoneOrGoing
  <2>2. CASE p \in Listed("invitations")
    <3>1. PICK j \in TxIds : Updates(j, "invitations", p)
      BY <1>1, <2>1, <2>2 DEF AnswersInv, GoneOrGoing
    <3>2. j # i
      BY <1>1, <1>2, <2>1, <3>1
    <3>3. QED
      BY <1>1, <1>3, <3>1, <3>2
  <2>3. CASE p \notin Listed("invitations")
    <3>1. Sends(i, "invitations", p) /\ p \notin again
      BY <1>1, <1>2, <2>1, <2>3
    <3>2. QED
      BY <2>1, <3>1 DEF AnswersInv, SentOnce, Arrived
  <2>4. QED
    BY <2>2, <2>3
<1>11. QED
  BY <1>1, <1>7, <1>8, <1>9, <1>10 DEF AnswersInv

LEMMA AnswersFail ==
  ASSUME TypeOK, AnswersInv, NEW i \in TxIds, Fail(i)
  PROVE  AnswersInv'
<1>1. /\ "invitations" \in Lists /\ "friends" \in Lists
      /\ UNCHANGED <<users, page, asked, again, agreed, declined, removed>>
      /\ lost' = lost \cup {<<tx[i].doc, tx[i].id>>}
      /\ tx' = [tx EXCEPT ![i] = None] /\ tx \in [TxIds -> Transaction \cup {None}]
  BY DEF Fail, Ends, Lists, TypeOK
<1>2. \A j \in TxIds, f \in Lists, p \in Pairs :
         /\ Sends(j, f, p)' => Sends(j, f, p)
         /\ Updates(j, f, p)' => Updates(j, f, p)
         /\ p \notin lost' => /\ Sends(j, f, p) => Sends(j, f, p)'
                              /\ Updates(j, f, p) => Updates(j, f, p)'
  BY <1>1 DEF Sends, Updates, Free
<1>3. /\ Listed("invitations")' = Listed("invitations") /\ Listed("friends")' = Listed("friends")
      /\ Answered' = Answered
      /\ \A p \in Pairs : Arrived(p)' <=> Arrived(p)
  BY <1>1 DEF Listed, Answered, Arrived, Offered, Shows, page
<1>4. UpdatedOnlyIfAnswered'
  BY <1>1, <1>2, <1>3 DEF AnswersInv, UpdatedOnlyIfAnswered
<1>5. NoneFalls'
  BY <1>1, <1>2, <1>3 DEF AnswersInv, NoneFalls
<1>6. SentOnce'
  BY <1>1, <1>2, <1>3 DEF AnswersInv, SentOnce
<1>7. GoneOrGoing'
  BY <1>1, <1>2, <1>3 DEF AnswersInv, GoneOrGoing
<1>8. QED
  BY <1>1, <1>4, <1>5, <1>6, <1>7 DEF AnswersInv

\* An answer is to an invitation that was offered.
LEMMA AnswersReply ==
  ASSUME TypeOK, ConsentInv, NEW a \in Accounts, Shows(a, "reply")
  PROVE  /\ dialog[a].id \in Accounts /\ a \in DocIds
         /\ <<a, dialog[a].id>> \in Pairs /\ <<a, dialog[a].id>> \in asked
         /\ Arrived(<<a, dialog[a].id>>)
BY DEF Shows, Dialog, DocIds, Pairs, ConsentInv, OfferedOnlyIfAsked, TypeOK, Arrived, Offered

\* Accept starts two transactions.
LEMMA AnswersAccept ==
  ASSUME TypeOK, ConsentInv, AnswersInv,
         NEW a \in Accounts, NEW i \in TxIds, NEW j \in TxIds, Accept(a, i, j)
  PROVE  AnswersInv'
<1> DEFINE x == dialog[a].id
           new == <<a, x>>
<1>1. /\ Shows(a, "reply") /\ Free(i) /\ Free(j) /\ i # j /\ ClosesDialog(a)
      /\ tx' = [tx EXCEPT ![i] = Send("friends", x, a), ![j] = Update("invitations", x, a)]
      /\ agreed' = agreed \cup {new}
      /\ UNCHANGED <<users, asked, again, declined, removed, lost>>
      /\ tx \in [TxIds -> Transaction \cup {None}]
      /\ "invitations" \in Lists /\ "friends" \in Lists
  BY DEF Accept, AcceptWith, TypeOK, Lists
<1>2. x \in Accounts /\ a \in DocIds /\ new \in Pairs /\ new \in asked /\ Arrived(new)
  BY <1>1, AnswersReply
<1>3. Send("friends", x, a) # None /\ Update("invitations", x, a) # None
  BY <1>1, <1>2, SendIsTransaction, NoneIsNoTransaction
<1>4. \A k \in TxIds, f \in Lists, p \in Pairs :
         /\ Sends(k, f, p)' <=> Sends(k, f, p) \/ (k = i /\ f = "friends" /\ p = new)
         /\ Updates(k, f, p)' <=> Updates(k, f, p) \/ (k = j /\ f = "invitations" /\ p = new)
  BY <1>1, <1>3 DEF Sends, Updates, Free, Send, Update
<1>5. /\ Listed("invitations")' = Listed("invitations") /\ Listed("friends")' = Listed("friends")
      /\ Answered' = Answered \cup {new}
  BY <1>1 DEF Listed, Answered
<1>6. \A p \in Pairs : Arrived(p)' => Arrived(p)
  <2>1. SUFFICES ASSUME NEW p \in Pairs, Arrived(p)' PROVE Arrived(p)
    OBVIOUS
  <2>2. p = <<p[1], p[2]>> /\ p[2] \in Accounts
    BY DEF Pairs
  <2>3. OffersNothingNew
    BY <1>1, ClosingOffersNothing
  <2>4. QED
    BY <1>2, <1>5, <2>1, <2>2, <2>3 DEF Arrived, OffersNothingNew
<1>7. UpdatedOnlyIfAnswered'
  BY <1>1, <1>4, <1>5 DEF AnswersInv, UpdatedOnlyIfAnswered
<1>8. NoneFalls'
  BY <1>1, <1>4, <1>5 DEF AnswersInv, NoneFalls
<1>9. SentOnce'
  BY <1>1, <1>4, <1>6 DEF AnswersInv, SentOnce
<1>10. GoneOrGoing'
  BY <1>1, <1>4, <1>5 DEF AnswersInv, GoneOrGoing
<1>11. QED
  BY <1>1, <1>7, <1>8, <1>9, <1>10 DEF AnswersInv

\* Decline and Delete each start one update.
LEMMA AnswersDecline ==
  ASSUME TypeOK, ConsentInv, AnswersInv,
         NEW a \in Accounts, NEW i \in TxIds, Decline(a, i)
  PROVE  AnswersInv'
<1> DEFINE x == dialog[a].id
           new == <<a, x>>
<1>1. /\ Shows(a, "reply") /\ Free(i) /\ ClosesDialog(a)
      /\ tx' = [tx EXCEPT ![i] = Update("invitations", x, a)]
      /\ declined' = declined \cup {new}
      /\ UNCHANGED <<users, asked, again, agreed, removed, lost>>
      /\ "invitations" \in Lists /\ "friends" \in Lists
  BY DEF Decline, Lists
<1>2. x \in Accounts /\ a \in DocIds /\ new \in Pairs /\ new \in asked /\ Arrived(new)
  BY <1>1, AnswersReply
<1>3. \A k \in TxIds, f \in Lists, p \in Pairs :
         /\ Sends(k, f, p)' <=> Sends(k, f, p)
         /\ Updates(k, f, p)' <=> Updates(k, f, p) \/ (k = i /\ f = "invitations" /\ p = new)
  <2>1. Update("invitations", x, a) # None
    BY <1>1, <1>2, SendIsTransaction, NoneIsNoTransaction
  <2>2. QED
    BY <1>1, <2>1 DEF Sends, Updates, Free, Update, TypeOK
<1>4. /\ Listed("invitations")' = Listed("invitations") /\ Listed("friends")' = Listed("friends")
      /\ Answered' = Answered \cup {new}
  BY <1>1 DEF Listed, Answered
<1>5. \A p \in Pairs : Arrived(p)' => Arrived(p)
  <2>1. SUFFICES ASSUME NEW p \in Pairs, Arrived(p)' PROVE Arrived(p)
    OBVIOUS
  <2>2. p = <<p[1], p[2]>> /\ p[2] \in Accounts
    BY DEF Pairs
  <2>3. OffersNothingNew
    BY <1>1, ClosingOffersNothing
  <2>4. QED
    BY <1>2, <1>4, <2>1, <2>2, <2>3 DEF Arrived, OffersNothingNew
<1>6. UpdatedOnlyIfAnswered'
  BY <1>1, <1>3, <1>4 DEF AnswersInv, UpdatedOnlyIfAnswered
<1>7. NoneFalls'
  BY <1>1, <1>3, <1>4 DEF AnswersInv, NoneFalls
<1>8. SentOnce'
  BY <1>1, <1>3, <1>5 DEF AnswersInv, SentOnce
<1>9. GoneOrGoing'
  BY <1>1, <1>3, <1>4 DEF AnswersInv, GoneOrGoing
<1>10. QED
  BY <1>1, <1>2, <1>6, <1>7, <1>8, <1>9 DEF AnswersInv

LEMMA AnswersDelete ==
  ASSUME TypeOK, AnswersInv, NEW a \in Accounts, NEW i \in TxIds, Delete(a, i)
  PROVE  AnswersInv'
<1> DEFINE x == dialog[a].id
           new == <<a, x>>
<1>1. /\ Shows(a, "delete") /\ Free(i) /\ ClosesDialog(a)
      /\ tx' = [tx EXCEPT ![i] = Update("friends", x, a)]
      /\ removed' = removed \cup {new}
      /\ UNCHANGED <<users, asked, again, agreed, declined, lost>>
      /\ "invitations" \in Lists /\ "friends" \in Lists
  BY DEF Delete, Lists
<1>2. x \in Accounts /\ a \in DocIds
  BY <1>1 DEF Shows, Dialog, DocIds, TypeOK
<1>3. \A k \in TxIds, f \in Lists, p \in Pairs :
         /\ Sends(k, f, p)' <=> Sends(k, f, p)
         /\ Updates(k, f, p)' <=> Updates(k, f, p) \/ (k = i /\ f = "friends" /\ p = new)
  <2>1. Update("friends", x, a) # None
    BY <1>1, <1>2, SendIsTransaction, NoneIsNoTransaction
  <2>2. QED
    BY <1>1, <2>1 DEF Sends, Updates, Free, Update, TypeOK
<1>4. /\ Listed("invitations")' = Listed("invitations") /\ Listed("friends")' = Listed("friends")
      /\ Answered' = Answered
  BY <1>1 DEF Listed, Answered
<1>5. \A p \in Pairs : Arrived(p)' => Arrived(p)
  <2>1. SUFFICES ASSUME NEW p \in Pairs, Arrived(p)' PROVE Arrived(p)
    OBVIOUS
  <2>2. p = <<p[1], p[2]>> /\ p[2] \in Accounts
    BY DEF Pairs
  <2>3. OffersNothingNew
    BY <1>1, ClosingOffersNothing
  <2>4. QED
    BY <1>4, <2>1, <2>2, <2>3 DEF Arrived, OffersNothingNew
<1>6. UpdatedOnlyIfAnswered'
  BY <1>1, <1>3, <1>4 DEF AnswersInv, UpdatedOnlyIfAnswered
<1>7. NoneFalls'
  BY <1>1, <1>3, <1>4 DEF AnswersInv, NoneFalls
<1>8. SentOnce'
  BY <1>1, <1>3, <1>5 DEF AnswersInv, SentOnce
<1>9. GoneOrGoing'
  BY <1>1, <1>3, <1>4 DEF AnswersInv, GoneOrGoing
<1>10. QED
  BY <1>1, <1>6, <1>7, <1>8, <1>9 DEF AnswersInv

LEMMA AnswersNext == TypeOK /\ ConsentInv /\ AnswersInv /\ [Next]_vars => AnswersInv'
<1> SUFFICES ASSUME TypeOK, ConsentInv, AnswersInv, [Next]_vars PROVE AnswersInv'
  OBVIOUS
<1>1. CASE PageStep
  <2>1. UNCHANGED <<users, tx, history>> /\ OffersNothingNew
    BY <1>1, PageSteps
  <2>2. \A f \in Lists : Listed(f)' = Listed(f)
    BY <2>1 DEF Listed
  <2>3. QED
    BY <2>1, <2>2, AnswersQuiet
<1>2. ASSUME NEW a \in Accounts, NEW p \in Products, Like(a, p)
      PROVE  AnswersInv'
  <2>1. UNCHANGED <<tx, page, history>>
    BY <1>2 DEF Like
  <2>2. OffersNothingNew
    BY <2>1 DEF OffersNothingNew, Offered, Shows, page
  <2>3. \A f \in Lists : Listed(f)' = Listed(f)
    BY <1>2, LikeLists
  <2>4. QED
    BY <2>1, <2>2, <2>3, AnswersQuiet
<1>3. ASSUME NEW x \in Accounts, NEW t \in Accounts \cup Indexes \cup {Null},
             NEW d \in DocIds, NEW i \in TxIds, Invite(x, t, d, i)
      PROVE  AnswersInv'
  BY <1>3, AnswersInvite
<1>4. ASSUME NEW a \in Accounts, NEW i \in TxIds, NEW j \in TxIds, Accept(a, i, j)
      PROVE  AnswersInv'
  BY <1>4, AnswersAccept
<1>5. ASSUME NEW a \in Accounts, NEW i \in TxIds, Decline(a, i) \/ Delete(a, i)
      PROVE  AnswersInv'
  BY <1>5, AnswersDecline, AnswersDelete
<1>6. ASSUME NEW i \in TxIds, Commit(i) \/ Repeats(i) \/ Fail(i)
      PROVE  AnswersInv'
  BY <1>6, AnswersCommit, AnswersFail
<1>7. QED
  BY <1>1, <1>2, <1>3, <1>4, <1>5, <1>6 DEF Next, Server, Call, PageStep

\* Whatever the order of the transactions that nobody awaits, no invitation and
\* no friend falls between two of them, unless one of the pair's own failed.
THEOREM NothingFalls == Spec => []NothingFallsThrough
<1>1. TypeOK /\ AnswersInv => NothingFallsThrough
  BY DEF TypeOK, AnswersInv, NoneFalls, Sends, InFlight, Answered, NothingFallsThrough, Pairs
<1>2. QED
  BY TypeInit, TypeNext, ConsentInit, ConsentNext, AnswersInit, AnswersNext, <1>1, PTL DEF Spec

\* An answered invitation goes off the list and stays off, unless it was sent
\* again or one of its transactions failed.
THEOREM AnswersAreCarriedOut == Spec => []AnsweredInvitationIsGone
<1>1. TypeOK /\ AnswersInv => AnsweredInvitationIsGone
  BY DEF TypeOK, Pairs, AnswersInv, GoneOrGoing, Updates, InFlight, Answered,
         AnsweredInvitationIsGone
<1>2. QED
  BY TypeInit, TypeNext, ConsentInit, ConsentNext, AnswersInit, AnswersNext, <1>1, PTL DEF Spec

\* Nothing but the owner's answer takes an invitation off, and nothing but the
\* owner's deletion a friend.
THEOREM OwnersTakeOff == Spec => OnlyTheOwnerTakesOff
<1> DEFINE Step == \A p \in Pairs :
             /\ p \in Listed("invitations") /\ p \notin Listed("invitations")'
                   => p \in agreed \cup declined
             /\ p \in Listed("friends") /\ p \notin Listed("friends")' => p \in removed
<1>1. TypeOK /\ ConsentInv /\ AnswersInv /\ [Next]_vars => [Step]_vars
  <2> SUFFICES ASSUME TypeOK, AnswersInv, [Next]_vars, NEW p \in Pairs
               PROVE  /\ p \in Listed("invitations") /\ p \notin Listed("invitations")'
                            => p \in agreed \cup declined
                      /\ p \in Listed("friends") /\ p \notin Listed("friends")'
                            => p \in removed
    OBVIOUS
  <2>1. "invitations" \in Lists /\ "friends" \in Lists
    BY DEF Lists
  <2>2. CASE UNCHANGED users
    BY <2>2 DEF Listed
  <2>3. ASSUME NEW i \in TxIds, Commit(i) \/ Repeats(i)
        PROVE  /\ p \in Listed("invitations") /\ p \notin Listed("invitations")'
                     => p \in agreed \cup declined
               /\ p \in Listed("friends") /\ p \notin Listed("friends")'
                     => p \in removed
    <3>1. \A f \in Lists : p \in Listed(f) /\ p \notin Listed(f)' => Updates(i, f, p)
      BY <2>3, CommitLists
    <3>2. QED
      BY <2>1, <3>1 DEF AnswersInv, UpdatedOnlyIfAnswered, Answered
  <2>4. ASSUME NEW a \in Accounts, NEW q \in Products, Like(a, q)
        PROVE  \A f \in Lists : Listed(f)' = Listed(f)
    BY <2>4, LikeLists
  <2>5. CASE PageStep
    BY <2>2, <2>5, PageSteps
  <2>6. QED
    BY <2>1, <2>2, <2>3, <2>4, <2>5
       DEF Next, Server, Call, PageStep, Invite, Accept, AcceptWith, Decline, Delete, Fail
<1>2. QED
  BY TypeInit, TypeNext, ConsentInit, ConsentNext, AnswersInit, AnswersNext, <1>1, PTL
     DEF Spec, OnlyTheOwnerTakesOff
=============================================================================
