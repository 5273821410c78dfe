------------------------- MODULE TransactionsProofs -------------------------
(***************************************************************************)
(* What the repeated transactions of the Firestore client keep, for every  *)
(* number of calls and of retries, and that they implement AtomicUpdate.   *)
(*                                                                         *)
(* The heart of the matter is which commits can still take effect: those   *)
(* whose precondition is the version of the moment.  A call has at most    *)
(* one such commit that counts, for any write makes all others fail.       *)
(***************************************************************************)
EXTENDS Transactions, TLAPS

At(c) == run[c].at

\* What an attempt has read is the document, unless it was written since.
ReadsInv(c) ==
    /\ At(c) # "idle" => run[c].op \in Op
    /\ At(c) \in {"handler", "commit"} =>
          /\ run[c].snapshot \in Doc
          /\ run[c].read <= version
          /\ run[c].read = version => run[c].snapshot = doc
    /\ At(c) = "commit" =>
          /\ ~Throws(run[c].snapshot, run[c].op.field)
          /\ Write(run[c].op, run[c].snapshot) # "none"

\* Effects are matched by lost answers, refusals by writes of others.
CountsInv(c) ==
    /\ applied[c] <= 1 + unheard[c]
    /\ At(c) \in {"idle", "lookup", "handler", "commit", "refused", "false"} =>
          applied[c] <= unheard[c]
    /\ At(c) \in {"applied", "true"} => applied[c] >= 1
    /\ refused[c] + applied[c] <= version + unheard[c]
    /\ At(c) \in {"idle", "lookup", "false"} => refused[c] <= version
    /\ At(c) \in {"handler", "commit"} => refused[c] <= run[c].read
    /\ At(c) \in {"refused", "applied", "true"} => refused[c] + 1 <= version

Live(r) == r.precondition = version

Awaited(r) == At(r.call) = "commit" /\ run[r.call].left = r.left

\* A commit on its way is one its call made, in this attempt or an earlier one.
SentInv(r) ==
    /\ r.precondition \in Nat /\ r.precondition <= version
    /\ At(r.call) # "idle"
    /\ r.op = run[r.call].op
    /\ r.left >= run[r.call].left
    /\ At(r.call) \in {"lookup", "handler", "applied", "refused"} =>
          r.left > run[r.call].left
    /\ Awaited(r) =>
          /\ r.precondition = run[r.call].read
          /\ r.write = Write(r.op, run[r.call].snapshot)

\* If it can still take effect, it does what the call is for, and an answer
\* that was lost makes up for it.
LiveInv(r) ==
    Live(r) =>
      /\ r.write = Write(r.op, doc) /\ r.write # "none"
      /\ ~Throws(doc, r.op.field)
      /\ At(r.call) \notin {"applied", "true"}
      /\ At(r.call) \in {"lookup", "handler", "commit", "refused", "false"} /\ ~Awaited(r)
            => applied[r.call] + 1 <= unheard[r.call]
      /\ At(r.call) = "gone" => applied[r.call] <= unheard[r.call]

IInv ==
    /\ TypeOK
    /\ \A c \in Calls : ReadsInv(c) /\ CountsInv(c)
    /\ \A r \in requests : SentInv(r) /\ LiveInv(r)
-----------------------------------------------------------------------------
(* The operations on the document.                                         *)

\* What a handler writes for a document on which it does not throw is what the
\* operation is for, and leaves a document.
LEMMA WriteDoes ==
  ASSUME NEW o \in Op, NEW d \in Doc, ~Throws(d, o.field), Write(o, d) # "none"
  PROVE  /\ Write(o, d) \in {"set", "union", "remove"}
         /\ Written(o, Write(o, d), d) = Promise!AfterOp(o, d)
         /\ Written(o, Write(o, d), d) \in Doc
<1>1. /\ o.field \in Fields /\ o.id \in Values
      /\ o.kind \in {"send", "update", "toggle"}
  BY DEF Op
<1>2. CASE Adds(o, d) /\ ~d.exists
  <2>1. Write(o, d) = "set"
    BY <1>2 DEF Write, Adds, Takes
  <2>2. Promise!AfterOp(o, d) = DocWith(o.field, o.id)
    BY <1>1, <1>2 DEF Adds, Promise!AfterOp, Promise!AfterSend, Promise!AfterToggle,
         Promise!DocWith, DocWith, Promise!NoLists, NoLists, Promise!Fields, Fields
  <2>3. DocWith(o.field, o.id) \in Doc
    BY <1>1 DEF DocWith, NoLists, Doc
  <2>4. QED
    BY <2>1, <2>2, <2>3 DEF Written
<1>3. CASE Adds(o, d) /\ d.exists
  <2>1. Write(o, d) = "union"
    BY <1>3 DEF Write, Adds, Takes
  <2>2. Promise!AfterOp(o, d) = [d EXCEPT !.list[o.field] = @ \cup {o.id}]
    BY <1>1, <1>3 DEF Adds, Promise!AfterOp, Promise!AfterSend, Promise!AfterToggle,
         Promise!Throws, Throws
  <2>3. [d EXCEPT !.list[o.field] = @ \cup {o.id}] \in Doc
    BY <1>1, <1>3 DEF Doc, Throws
  <2>4. QED
    BY <2>1, <2>2, <2>3 DEF Written
<1>4. CASE ~Adds(o, d) /\ Takes(o, d)
  <2>1. Write(o, d) = "remove" /\ d.exists
    BY <1>1, <1>4 DEF Write, Takes, Doc
  <2>2. Promise!AfterOp(o, d) = [d EXCEPT !.list[o.field] = @ \ {o.id}]
    BY <1>1, <1>4, <2>1 DEF Takes, Promise!AfterOp, Promise!AfterUpdate,
         Promise!AfterToggle, Promise!Throws, Throws
  <2>3. [d EXCEPT !.list[o.field] = @ \ {o.id}] \in Doc
    BY <1>1, <2>1 DEF Doc, Throws
  <2>4. QED
    BY <2>1, <2>2, <2>3 DEF Written
<1>5. QED
  BY <1>2, <1>3, <1>4 DEF Write

LEMMA FirstDocs == {MissingDoc, ProvisionedDoc, SignedUpDoc} \subseteq Doc
  BY DEF MissingDoc, ProvisionedDoc, SignedUpDoc, NoLists, Doc

LEMMA IdleIsRun == Idle \in Run
  BY TransactionsAssumption DEF Idle, Fresh, Run
-----------------------------------------------------------------------------
(* The invariant.                                                          *)

LEMMA InvInit == Init => IInv
<1> SUFFICES ASSUME Init PROVE IInv
  OBVIOUS
<1>1. TypeOK
  BY FirstDocs, IdleIsRun DEF Init, TypeOK
<1>2. ASSUME NEW c \in Calls
      PROVE  ReadsInv(c) /\ CountsInv(c)
  <2>1. /\ At(c) = "idle" /\ version = 0
        /\ applied[c] = 0 /\ unheard[c] = 0 /\ refused[c] = 0
    BY DEF Init, At, Idle, Fresh
  <2>2. QED
    BY <2>1 DEF ReadsInv, CountsInv
<1>3. QED
  BY <1>1, <1>2 DEF IInv, Init

\* A step of one call that sends nothing and leaves the document alone.
LEMMA ClientFrame ==
  ASSUME IInv, NEW c \in Calls, NEW R \in Run,
         run' = [run EXCEPT ![c] = R],
         UNCHANGED <<doc, version, signUp, requests, applied>>,
         unheard' \in [Calls -> Nat], refused' \in [Calls -> Nat],
         \A b \in Calls \ {c} : unheard'[b] = unheard[b] /\ refused'[b] = refused[b],
         ReadsInv(c)', CountsInv(c)',
         \A r \in requests : r.call = c => SentInv(r)' /\ LiveInv(r)'
  PROVE  IInv'
<1>1. TypeOK'
  BY DEF IInv, TypeOK
<1>2. run'[c] = R /\ \A b \in Calls \ {c} : run'[b] = run[b]
  BY DEF IInv, TypeOK
<1>3. ASSUME NEW b \in Calls, b # c
      PROVE  ReadsInv(b)' /\ CountsInv(b)'
  BY <1>2, <1>3 DEF IInv, ReadsInv, CountsInv, At
<1>4. ASSUME NEW r \in requests, r.call # c
      PROVE  SentInv(r)' /\ LiveInv(r)'
  <2>1. r.call \in Calls \ {c}
    BY <1>4 DEF IInv, TypeOK, Request
  <2>2. run'[r.call] = run[r.call] /\ unheard'[r.call] = unheard[r.call]
    BY <1>2, <2>1
  <2>3. QED
    BY <2>2 DEF IInv, SentInv, LiveInv, Live, Awaited, At
<1>5. QED
  BY <1>1, <1>3, <1>4 DEF IInv

Ended == {"true", "false", "gone"}

\* A call that ends: with false or gone, or with true once it was applied.
LEMMA CallEnds ==
  ASSUME IInv, NEW c \in Calls, NEW result \in Ended, Ends(c, result),
         At(c) # "idle",
         UNCHANGED <<doc, version, signUp, requests, applied>>,
         unheard' \in [Calls -> Nat], refused' \in [Calls -> Nat],
         \A b \in Calls \ {c} : unheard'[b] = unheard[b] /\ refused'[b] = refused[b],
         applied[c] <= 1 + unheard'[c], refused'[c] + applied[c] <= version + unheard'[c],
         result = "false" => applied[c] <= unheard'[c] /\ refused'[c] <= version,
         result = "true" => applied[c] >= 1 /\ refused'[c] + 1 <= version,
         \A r \in requests : r.call = c /\ Live(r) =>
            /\ result # "true"
            /\ result = "false" => applied[c] + 1 <= unheard'[c]
            /\ result = "gone" => applied[c] <= unheard'[c]
  PROVE  IInv'
<1> DEFINE R == [run[c] EXCEPT !.at = result, !.snapshot = None]
<1>1. /\ run[c] \in Run /\ R \in Run
      /\ R.at = result /\ R.op = run[c].op /\ R.left = run[c].left /\ R.read = run[c].read
  BY DEF IInv, TypeOK, Run, Ended
<1>2. run' = [run EXCEPT ![c] = R] /\ run'[c] = R
  BY DEF Ends, IInv, TypeOK
<1>3. ReadsInv(c)'
  BY <1>1, <1>2 DEF IInv, ReadsInv, At, Ended
<1>4. CountsInv(c)'
  BY <1>1, <1>2 DEF IInv, CountsInv, At, Ended
<1>5. ASSUME NEW r \in requests, r.call = c
      PROVE  SentInv(r)' /\ LiveInv(r)'
  BY <1>1, <1>2, <1>5 DEF IInv, SentInv, LiveInv, Live, Awaited, At, Ended
<1> HIDE DEF R
<1>6. QED
  BY <1>1, <1>2, <1>3, <1>4, <1>5, ClientFrame

\* Another attempt, or the last has failed.
LEMMA CallGoesAgain ==
  ASSUME IInv, NEW c \in Calls, Again(c), At(c) \notin {"idle", "true", "gone"},
         UNCHANGED <<doc, version, signUp, requests, applied>>,
         unheard' \in [Calls -> Nat], refused' \in [Calls -> Nat],
         \A b \in Calls \ {c} : unheard'[b] = unheard[b] /\ refused'[b] = refused[b],
         applied[c] <= unheard'[c], refused'[c] <= version,
         \A r \in requests : r.call = c /\ Live(r) => applied[c] + 1 <= unheard'[c]
  PROVE  IInv'
<1>1. applied[c] \in Nat /\ unheard'[c] \in Nat /\ refused'[c] \in Nat /\ version \in Nat
  BY DEF IInv, TypeOK
<1>2. CASE run[c].left = 0
  <2>1. Ends(c, "false")
    BY <1>2 DEF Again
  <2>2. QED
    BY <1>1, <2>1, CallEnds DEF Ended
<1>3. CASE run[c].left # 0
  <2> DEFINE R == [Attempt(c, "lookup") EXCEPT !.snapshot = None]
  <2>a. run \in [Calls -> Run] /\ run[c] \in Run
    BY DEF IInv, TypeOK
  <2>b. run[c].left \in 0 .. Retries
    BY <2>a DEF Run
  <2>c. run[c].left - 1 \in 0 .. Retries /\ run[c].left \in Nat
    BY <1>3, <2>b, TransactionsAssumption
  <2>1. /\ R \in Run
        /\ R.at = "lookup" /\ R.op = run[c].op /\ R.read = run[c].read
        /\ R.left = run[c].left - 1 /\ run[c].left \in Nat
    BY <2>a, <2>c DEF Attempt, Run, Waiting
  <2>2. run' = [run EXCEPT ![c] = R] /\ run'[c] = R
    BY <1>3, <2>a DEF Again
  <2>3. ReadsInv(c)'
    BY <2>1, <2>2 DEF IInv, ReadsInv, At
  <2>4. CountsInv(c)'
    <3>1. /\ At(c)' = "lookup" /\ applied'[c] = applied[c] /\ version' = version
      BY <2>1, <2>2 DEF At
    <3>2. QED
      BY <1>1, <3>1 DEF CountsInv
  <2>5. ASSUME NEW r \in requests, r.call = c
        PROVE  SentInv(r)' /\ LiveInv(r)'
    <3>1. r.left \in Nat
      BY TransactionsAssumption DEF IInv, TypeOK, Request
    <3>2. QED
      BY <2>1, <2>2, <2>5, <3>1 DEF IInv, SentInv, LiveInv, Live, Awaited, At
  <2> HIDE DEF R
  <2>6. QED
    BY <2>1, <2>2, <2>3, <2>4, <2>5, ClientFrame
<1>4. QED
  BY <1>2, <1>3

LEMMA RunKeepsInv ==
  ASSUME IInv, NEW c \in Calls, NEW o \in Ops, RunTransaction(c, o)
  PROVE  IInv'
<1> DEFINE R == Fresh("lookup", o, Retries)
<1>a. o \in Op /\ Retries \in 0 .. Retries
  BY TransactionsAssumption
<1>1. R \in Run /\ R.at = "lookup" /\ R.op = o /\ o \in Op
  BY <1>a DEF Fresh, Run, Waiting
<1>2. run' = [run EXCEPT ![c] = R] /\ run'[c] = R
  BY DEF RunTransaction, IInv, TypeOK
<1>3. At(c) = "idle" /\ (\A r \in requests : r.call # c)
  BY DEF RunTransaction, At, IInv, SentInv
<1>4. ReadsInv(c)' /\ CountsInv(c)'
  BY <1>1, <1>2, <1>3 DEF RunTransaction, history, IInv, ReadsInv, CountsInv, At
<1> HIDE DEF R
<1>5. QED
  BY <1>1, <1>2, <1>3, <1>4, ClientFrame DEF RunTransaction, history, IInv, TypeOK

LEMMA LookupKeepsInv ==
  ASSUME IInv, NEW c \in Calls, Lookup(c)
  PROVE  IInv'
<1> DEFINE R == [run[c] EXCEPT !.at = "handler", !.snapshot = doc, !.read = version]
<1>1. /\ run[c] \in Run /\ R \in Run /\ run[c].at = "lookup"
      /\ R.at = "handler" /\ R.op = run[c].op /\ R.left = run[c].left
      /\ R.read = version /\ R.snapshot = doc /\ doc \in Doc /\ version \in Nat
  BY DEF Lookup, IInv, TypeOK, Run, Waiting
<1>2. run' = [run EXCEPT ![c] = R] /\ run'[c] = R
  BY DEF Lookup, IInv, TypeOK
<1>3. ReadsInv(c)'
  BY <1>1, <1>2 DEF Lookup, history, IInv, ReadsInv, At
<1>4. CountsInv(c)'
  BY <1>1, <1>2 DEF Lookup, history, IInv, CountsInv, At
<1>5. ASSUME NEW r \in requests, r.call = c
      PROVE  SentInv(r)' /\ LiveInv(r)'
  BY <1>1, <1>2, <1>5 DEF Lookup, history, IInv, SentInv, LiveInv, Live, Awaited, At
<1> HIDE DEF R
<1>6. QED
  BY <1>1, <1>2, <1>3, <1>4, <1>5, ClientFrame DEF Lookup, history, IInv, TypeOK

\* The steps that end a call or an attempt.
LEMMA EndingKeepsInv ==
  ASSUME IInv, NEW c \in Calls,
         \/ HandlerFails(c) \/ HandlerThrows(c) \/ CommitUnwritten(c)
         \/ Succeeds(c) \/ IsRefused(c) \/ CommitLost(c) \/ Killed(c)
  PROVE  IInv'
<1>a. /\ unheard \in [Calls -> Nat] /\ refused \in [Calls -> Nat]
      /\ applied \in [Calls -> Nat] /\ version \in Nat
      /\ applied[c] \in Nat /\ unheard[c] \in Nat /\ refused[c] \in Nat
  BY DEF IInv, TypeOK
<1>b. ReadsInv(c) /\ CountsInv(c) /\ (run[c].read \in Nat)
  BY DEF IInv, TypeOK, Run
<1>c. \A r \in requests : r.call = c => SentInv(r) /\ LiveInv(r)
  BY DEF IInv
<1>1. CASE HandlerFails(c) \/ HandlerThrows(c)
  <2>1. /\ At(c) \in {"lookup", "handler"} /\ Ends(c, "false")
        /\ UNCHANGED <<doc, version, signUp, requests, history>>
    BY <1>1 DEF HandlerFails, HandlerThrows, At
  <2>2. applied[c] <= unheard[c] /\ refused[c] <= version
    BY <1>a, <1>b, <2>1 DEF CountsInv, ReadsInv
  <2>3. \A r \in requests : r.call = c /\ Live(r) => applied[c] + 1 <= unheard[c]
    BY <1>c, <2>1 DEF LiveInv, Awaited
  <2>4. QED
    BY <1>a, <1>b, <2>1, <2>2, <2>3, CallEnds DEF Ended, history, CountsInv
<1>2. CASE CommitUnwritten(c)
  <2>1. /\ At(c) = "handler" /\ Again(c)
        /\ UNCHANGED <<doc, version, signUp, requests, history>>
    BY <1>2 DEF CommitUnwritten, At
  <2>2. applied[c] <= unheard[c] /\ refused[c] <= version
    BY <1>a, <1>b, <2>1 DEF CountsInv, ReadsInv
  <2>3. \A r \in requests : r.call = c /\ Live(r) => applied[c] + 1 <= unheard[c]
    BY <1>c, <2>1 DEF LiveInv, Awaited
  <2>4. QED
    BY <1>a, <2>1, <2>2, <2>3, CallGoesAgain DEF history
<1>3. CASE Succeeds(c)
  <2>1. /\ At(c) = "applied" /\ Ends(c, "true")
        /\ UNCHANGED <<doc, version, signUp, requests, history>>
    BY <1>3 DEF Succeeds, At
  <2>2. \A r \in requests : r.call = c => ~Live(r)
    BY <1>c, <2>1 DEF LiveInv
  <2>3. QED
    BY <1>a, <1>b, <2>1, <2>2, CallEnds DEF Ended, history, CountsInv
<1>4. CASE IsRefused(c)
  <2>1. /\ At(c) = "refused" /\ Again(c)
        /\ UNCHANGED <<doc, version, signUp, requests, applied, unheard>>
        /\ refused' = [refused EXCEPT ![c] = @ + 1]
    BY <1>4 DEF IsRefused, At
  <2>2. /\ refused' \in [Calls -> Nat] /\ refused'[c] = refused[c] + 1
        /\ \A b \in Calls \ {c} : refused'[b] = refused[b]
    BY <1>a, <2>1
  <2>3. applied[c] <= unheard[c] /\ refused'[c] <= version
    BY <1>a, <1>b, <2>1, <2>2 DEF CountsInv
  <2>4. \A r \in requests : r.call = c /\ Live(r) => applied[c] + 1 <= unheard[c]
    BY <1>c, <2>1 DEF LiveInv, Awaited
  <2>5. QED
    BY <1>a, <2>1, <2>2, <2>3, <2>4, CallGoesAgain
<1>5. CASE CommitLost(c)
  <2>1. /\ At(c) \in {"commit", "applied", "refused"} /\ Again(c)
        /\ UNCHANGED <<doc, version, signUp, requests, applied, refused>>
        /\ unheard' = [unheard EXCEPT ![c] = @ + 1]
    BY <1>5 DEF CommitLost, At
  <2>2. /\ unheard' \in [Calls -> Nat] /\ unheard'[c] = unheard[c] + 1
        /\ \A b \in Calls \ {c} : unheard'[b] = unheard[b]
    BY <1>a, <2>1
  <2>3. applied[c] <= unheard'[c] /\ refused[c] <= version
    BY <1>a, <1>b, <2>1, <2>2 DEF CountsInv, ReadsInv
  <2>4. \A r \in requests : r.call = c /\ Live(r) => applied[c] + 1 <= unheard'[c]
    BY <1>a, <1>b, <1>c, <2>1, <2>2 DEF LiveInv, CountsInv
  <2>5. QED
    BY <1>a, <2>1, <2>2, <2>3, <2>4, CallGoesAgain
<1>6. CASE Killed(c)
  <2>1. /\ At(c) \in Waiting /\ Ends(c, "gone")
        /\ UNCHANGED <<doc, version, signUp, requests, history>>
    BY <1>6 DEF Killed, At
  <2>2. \A r \in requests : r.call = c /\ Live(r) => applied[c] <= unheard[c]
    BY <1>a, <1>b, <1>c, <2>1 DEF LiveInv, CountsInv, Waiting
  <2>3. QED
    BY <1>a, <1>b, <2>1, <2>2, CallEnds DEF Ended, history, CountsInv, Waiting
<1>7. QED
  BY <1>1, <1>2, <1>3, <1>4, <1>5, <1>6

LEMMA CommitKeepsInv ==
  ASSUME IInv, NEW c \in Calls, Commit(c)
  PROVE  IInv'
<1> DEFINE R == [run[c] EXCEPT !.at = "commit"]
           sent == [call |-> c, left |-> run[c].left, op |-> run[c].op,
                    write |-> Write(run[c].op, run[c].snapshot), precondition |-> run[c].read]
<1>1. /\ run \in [Calls -> Run] /\ run[c] \in Run /\ R \in Run /\ run[c].at = "handler"
      /\ R.at = "commit" /\ R.op = run[c].op /\ R.left = run[c].left
      /\ R.read = run[c].read /\ R.snapshot = run[c].snapshot
  BY DEF Commit, IInv, TypeOK, Run, Waiting
<1>2. /\ run' = [run EXCEPT ![c] = R] /\ requests' = requests \cup {sent}
      /\ UNCHANGED <<doc, version, signUp, applied, unheard, refused>>
  BY DEF Commit, history, PreconditionFor
<1>3. /\ run'[c] = R /\ \A b \in Calls \ {c} : run'[b] = run[b]
  BY <1>1, <1>2
<1>4. /\ run[c].op \in Op /\ run[c].snapshot \in Doc /\ run[c].read <= version
      /\ run[c].read = version => run[c].snapshot = doc
      /\ ~Throws(run[c].snapshot, run[c].op.field)
      /\ Write(run[c].op, run[c].snapshot) # "none"
  BY <1>1 DEF Commit, IInv, ReadsInv, At
<1>a. run[c].left \in 0 .. Retries /\ run[c].read \in Nat
  BY <1>1 DEF Run
<1>b. run[c].left \in Nat
  BY <1>a, TransactionsAssumption
<1>5. PICK q \in Request :
         /\ requests' = requests \cup {q}
         /\ q.call = c /\ q.left = run[c].left /\ q.op = run[c].op
         /\ q.write = Write(run[c].op, run[c].snapshot) /\ q.precondition = run[c].read
  <2>1. sent \in Request
    BY <1>4, <1>a, WriteDoes DEF Request
  <2>2. QED
    BY <1>2, <2>1
<1> HIDE DEF R, sent
<1>6. TypeOK'
  BY <1>1, <1>2, <1>5 DEF IInv, TypeOK
<1>7. ASSUME NEW b \in Calls
      PROVE  ReadsInv(b)' /\ CountsInv(b)'
  <2>1. CASE b = c
    BY <1>1, <1>2, <1>3, <1>4, <2>1 DEF IInv, ReadsInv, CountsInv, At
  <2>2. CASE b # c
    BY <1>2, <1>3, <2>2 DEF IInv, ReadsInv, CountsInv, At
  <2>3. QED
    BY <2>1, <2>2
<1>8. ASSUME NEW r \in requests
      PROVE  SentInv(r)' /\ LiveInv(r)'
  <2>1. r.call \in Calls /\ SentInv(r) /\ LiveInv(r)
    BY DEF IInv, TypeOK, Request
  <2>2. CASE r.call = c
    <3>1. /\ At(c) = "handler" /\ At(c)' = "commit" /\ r.left > run[c].left
      BY <1>1, <1>3, <2>1, <2>2 DEF SentInv, At
    <3>2. ~Awaited(r) /\ ~Awaited(r)'
      BY <1>1, <1>3, <1>b, <2>2, <3>1 DEF Awaited
    <3>3. QED
      BY <1>1, <1>2, <1>3, <2>1, <2>2, <3>1, <3>2 DEF SentInv, LiveInv, Live
  <2>3. CASE r.call # c
    BY <1>2, <1>3, <2>1, <2>3 DEF SentInv, LiveInv, Live, Awaited, At
  <2>4. QED
    BY <2>2, <2>3
<1>9. SentInv(q)' /\ LiveInv(q)'
  <2>1. At(c)' = "commit" /\ Awaited(q)'
    BY <1>1, <1>3, <1>5 DEF At, Awaited
  <2>2. SentInv(q)'
    BY <1>1, <1>2, <1>3, <1>4, <1>5, <1>a, <1>b, <2>1 DEF SentInv
  <2>3. LiveInv(q)'
    BY <1>2, <1>4, <1>5, <2>1 DEF LiveInv, Live
  <2>4. QED
    BY <2>2, <2>3
<1>10. QED
  BY <1>5, <1>6, <1>7, <1>8, <1>9 DEF IInv

\* At most one commit on its way is the one its call waits for.
LEMMA AwaitedIsOne ==
  ASSUME IInv, NEW r \in requests, NEW q \in requests, Awaited(r), Awaited(q),
         r.call = q.call
  PROVE  r = q
<1>1. r \in Request /\ q \in Request
  BY DEF IInv, TypeOK
<1>2. /\ r.left = q.left /\ r.op = q.op /\ r.write = q.write
      /\ r.precondition = q.precondition
  BY DEF IInv, SentInv, Awaited
<1>3. QED
  BY <1>1, <1>2 DEF Request

\* The answer goes to the call that waits for it, and to no other.
LEMMA AnswerReaches ==
  ASSUME IInv, NEW r \in requests, NEW result \in {"applied", "refused"},
         AnswersWith(r, result)
  PROVE  /\ r.call \in Calls /\ run' \in [Calls -> Run]
         /\ At(r.call)' = IF Awaited(r) THEN result ELSE At(r.call)
         /\ \A b \in Calls : /\ b # r.call => run'[b] = run[b]
                             /\ run'[b].op = run[b].op /\ run'[b].left = run[b].left
                             /\ run'[b].read = run[b].read
                             /\ run'[b].snapshot = run[b].snapshot
<1> DEFINE c == r.call
           at == IF run[c].at = "commit" /\ run[c].left = r.left THEN result ELSE run[c].at
           R == [run[c] EXCEPT !.at = at]
<1>1. c \in Calls /\ run \in [Calls -> Run] /\ run[c] \in Run
  BY DEF IInv, TypeOK, Request
<1>2. run' = [run EXCEPT ![c] = R]
  BY DEF AnswersWith
<1>3. /\ R \in Run /\ R.at = at /\ R.op = run[c].op /\ R.left = run[c].left
      /\ R.read = run[c].read /\ R.snapshot = run[c].snapshot
  BY <1>1 DEF Run, Waiting
<1>4. at = IF Awaited(r) THEN result ELSE At(c)
  BY DEF Awaited, At
<1> HIDE DEF R, at
<1>5. QED
  BY <1>1, <1>2, <1>3, <1>4 DEF At

LEMMA ServerCommitsKeepsInv ==
  ASSUME IInv, NEW r \in requests, ServerCommits(r)
  PROVE  IInv'
<1> DEFINE c == r.call
<1>1. /\ doc' = Written(r.op, r.write, doc) /\ version' = version + 1
      /\ requests' = requests \ {r} /\ UNCHANGED <<signUp, unheard, refused>>
      /\ applied' = [applied EXCEPT ![c] = @ + 1]
  BY DEF ServerCommits
<1>2. /\ c \in Calls /\ run' \in [Calls -> Run]
      /\ At(c)' = IF Awaited(r) THEN "applied" ELSE At(c)
      /\ \A b \in Calls : /\ b # c => run'[b] = run[b]
                          /\ run'[b].op = run[b].op /\ run'[b].left = run[b].left
                          /\ run'[b].read = run[b].read
                          /\ run'[b].snapshot = run[b].snapshot
  BY AnswerReaches DEF ServerCommits
<1>3. /\ version \in Nat /\ applied \in [Calls -> Nat] /\ unheard \in [Calls -> Nat]
      /\ refused \in [Calls -> Nat] /\ \A b \in Calls : run[b].read \in Nat
  BY DEF IInv, TypeOK, Run
<1>4. SentInv(r) /\ LiveInv(r) /\ Live(r)
  BY TransactionsAssumption DEF IInv, ServerCommits, Meets, SentInv, Live
<1>5. /\ applied' \in [Calls -> Nat] /\ applied'[c] = applied[c] + 1
      /\ \A b \in Calls \ {c} : applied'[b] = applied[b]
  BY <1>1, <1>2, <1>3
<1>6. TypeOK'
  <2>1. r \in Request /\ r.op \in Op /\ doc \in Doc
    BY DEF IInv, TypeOK, Request
  <2>2. doc' \in Doc
    BY <1>1, <1>4, <2>1, WriteDoes DEF LiveInv
  <2>3. QED
    BY <1>1, <1>2, <1>3, <1>5, <2>2 DEF IInv, TypeOK
<1>7. ASSUME NEW b \in Calls
      PROVE  ReadsInv(b)'
  <2>1. At(b)' = At(b) \/ (At(b) = "commit" /\ At(b)' = "applied")
    BY <1>2 DEF At, Awaited
  <2>2. ReadsInv(b)
    BY DEF IInv
  <2>3. QED
    BY <1>1, <1>2, <1>3, <2>1, <2>2 DEF ReadsInv
<1>8. ASSUME NEW b \in Calls, b # c
      PROVE  CountsInv(b)'
  <2>1. At(b)' = At(b) /\ CountsInv(b)
    BY <1>2, <1>8 DEF At, IInv
  <2>2. QED
    BY <1>1, <1>2, <1>3, <1>5, <1>8, <2>1 DEF CountsInv
<1>9. CountsInv(c)'
  <2>1. CountsInv(c) /\ ReadsInv(c) /\ At(c) \notin {"idle", "applied", "true"}
    BY <1>2, <1>4 DEF IInv, SentInv, LiveInv
  <2>2. CASE Awaited(r)
    <3>1. At(c) = "commit" /\ At(c)' = "applied"
      BY <1>2, <2>2 DEF Awaited
    <3>2. QED
      BY <1>1, <1>2, <1>3, <1>5, <2>1, <3>1 DEF CountsInv, ReadsInv
  <2>3. CASE ~Awaited(r)
    <3>1. At(c)' = At(c)
      BY <1>2, <2>3
    <3>2. At(c) \in {"lookup", "handler", "commit", "refused", "false", "gone"}
      BY <1>2, <2>1 DEF At, IInv, TypeOK, Run, Waiting
    <3>3. /\ At(c) # "gone" => applied[c] + 1 <= unheard[c]
          /\ At(c) = "gone" => applied[c] <= unheard[c]
      BY <1>4, <2>3, <3>2 DEF LiveInv
    <3>4. QED
      BY <1>1, <1>2, <1>3, <1>5, <2>1, <3>1, <3>2, <3>3 DEF CountsInv
  <2>4. QED
    BY <2>2, <2>3
<1>10. ASSUME NEW q \in requests \ {r}
       PROVE  SentInv(q)' /\ LiveInv(q)'
  <2>1. q.call \in Calls /\ SentInv(q)
    BY DEF IInv, TypeOK, Request
  <2>2. LiveInv(q)'
    BY <1>1, <1>3, <2>1 DEF SentInv, Live, LiveInv
  <2>3. CASE At(q.call)' = At(q.call)
    <3>1. Awaited(q)' <=> Awaited(q)
      BY <1>2, <2>1, <2>3 DEF Awaited
    <3>2. QED
      BY <1>1, <1>2, <1>3, <2>1, <2>2, <2>3, <3>1 DEF SentInv
  <2>4. CASE q.call = c /\ Awaited(r) /\ At(c)' = "applied"
    <3>1. ~Awaited(q)
      BY <2>4, AwaitedIsOne
    <3>2. At(c) = "commit" /\ q.left # run[c].left
      BY <2>4, <3>1 DEF Awaited
    <3>3. q.left \in 0 .. Retries /\ run[c].left \in 0 .. Retries
      BY <1>2 DEF IInv, TypeOK, Request, Run
    <3>4. q.left > run[c].left
      BY <2>1, <2>4, <3>2, <3>3, TransactionsAssumption DEF SentInv
    <3>5. SentInv(q)'
      BY <1>1, <1>2, <1>3, <2>1, <2>4, <3>4 DEF SentInv, Awaited
    <3>6. QED
      BY <2>2, <3>5
  <2>5. QED
    BY <1>2, <2>1, <2>3, <2>4 DEF At
<1>11. QED
  BY <1>1, <1>6, <1>7, <1>8, <1>9, <1>10 DEF IInv

LEMMA ServerRefusesKeepsInv ==
  ASSUME IInv, NEW r \in requests, ServerRefuses(r)
  PROVE  IInv'
<1> DEFINE c == r.call
<1>1. /\ UNCHANGED <<doc, version, signUp, applied, unheard, refused>>
      /\ requests' = requests \ {r}
  BY DEF ServerRefuses, history
<1>2. /\ c \in Calls /\ run' \in [Calls -> Run]
      /\ At(c)' = IF Awaited(r) THEN "refused" ELSE At(c)
      /\ \A b \in Calls : /\ b # c => run'[b] = run[b]
                          /\ run'[b].op = run[b].op /\ run'[b].left = run[b].left
                          /\ run'[b].read = run[b].read
                          /\ run'[b].snapshot = run[b].snapshot
  BY AnswerReaches DEF ServerRefuses
<1>3. /\ version \in Nat /\ applied \in [Calls -> Nat] /\ unheard \in [Calls -> Nat]
      /\ refused \in [Calls -> Nat] /\ \A b \in Calls : run[b].read \in Nat
  BY DEF IInv, TypeOK, Run
<1>4. SentInv(r) /\ ~Live(r)
  BY DEF IInv, ServerRefuses, Meets, Live
<1>5. TypeOK'
  BY <1>1, <1>2 DEF IInv, TypeOK
<1>6. ASSUME NEW b \in Calls
      PROVE  ReadsInv(b)' /\ CountsInv(b)'
  <2>1. ReadsInv(b) /\ CountsInv(b)
    BY DEF IInv
  <2>2. CASE At(b)' = At(b)
    BY <1>1, <1>2, <2>1, <2>2 DEF ReadsInv, CountsInv
  <2>3. CASE b = c /\ Awaited(r) /\ At(b)' = "refused"
    <3>1. At(b) = "commit" /\ r.precondition = run[b].read
      BY <1>4, <2>3 DEF Awaited, SentInv
    <3>2. run[b].read < version
      BY <1>3, <1>4, <3>1 DEF SentInv, Live
    <3>3. QED
      BY <1>1, <1>2, <1>3, <2>1, <2>3, <3>1, <3>2 DEF ReadsInv, CountsInv
  <2>4. QED
    BY <1>2, <2>2, <2>3 DEF At
<1>7. ASSUME NEW q \in requests \ {r}
      PROVE  SentInv(q)' /\ LiveInv(q)'
  <2>1. q.call \in Calls /\ SentInv(q) /\ LiveInv(q)
    BY DEF IInv, TypeOK, Request
  <2>2. CASE At(q.call)' = At(q.call)
    <3>1. Awaited(q)' <=> Awaited(q)
      BY <1>2, <2>1, <2>2 DEF Awaited
    <3>2. SentInv(q)'
      BY <1>1, <1>2, <2>1, <2>2, <3>1 DEF SentInv
    <3>3. LiveInv(q)'
      BY <1>1, <2>1, <2>2, <3>1 DEF LiveInv, Live
    <3>4. QED
      BY <3>2, <3>3
  <2>3. CASE q.call = c /\ Awaited(r) /\ At(c)' = "refused"
    <3>1. ~Awaited(q)
      BY <2>3, AwaitedIsOne
    <3>2. At(c) = "commit" /\ q.left # run[c].left
      BY <2>3, <3>1 DEF Awaited
    <3>3. q.left \in 0 .. Retries /\ run[c].left \in 0 .. Retries
      BY <1>2 DEF IInv, TypeOK, Request, Run
    <3>4. q.left > run[c].left
      BY <2>1, <2>3, <3>2, <3>3, TransactionsAssumption DEF SentInv
    <3>5. SentInv(q)'
      BY <1>1, <1>2, <1>3, <2>1, <2>3, <3>4 DEF SentInv, Awaited
    <3>6. LiveInv(q)'
      BY <1>1, <1>2, <1>3, <2>1, <2>3, <3>1, <3>2 DEF LiveInv, Live
    <3>7. QED
      BY <3>5, <3>6
  <2>4. QED
    BY <1>2, <2>1, <2>2, <2>3 DEF At
<1>8. QED
  BY <1>1, <1>5, <1>6, <1>7 DEF IInv

LEMMA SignUpKeepsInv ==
  ASSUME IInv, SignUpWrites
  PROVE  IInv'
<1>1. /\ doc' = SignedUpDoc /\ version' = version + 1 /\ signUp' = FALSE
      /\ UNCHANGED <<run, requests, applied, unheard, refused>>
  BY DEF SignUpWrites, history
<1>2. /\ version \in Nat /\ \A b \in Calls : run[b].read \in Nat
      /\ \A h \in {applied, unheard, refused} : \A b \in Calls : h[b] \in Nat
  BY DEF IInv, TypeOK, Run
<1>3. TypeOK'
  <2>1. SignedUpDoc \in Doc /\ version + 1 \in Nat
    BY <1>2, FirstDocs
  <2>2. QED
    BY <1>1, <2>1 DEF IInv, TypeOK
<1>4. ASSUME NEW b \in Calls
      PROVE  ReadsInv(b)' /\ CountsInv(b)'
  <2>1. ReadsInv(b) /\ CountsInv(b) /\ At(b)' = At(b)
    BY <1>1 DEF IInv, At
  <2>2. ReadsInv(b)'
    BY <1>1, <1>2, <2>1 DEF ReadsInv
  <2>3. CountsInv(b)'
    BY <1>1, <1>2, <2>1 DEF CountsInv
  <2>4. QED
    BY <2>2, <2>3
<1>5. ASSUME NEW q \in requests
      PROVE  SentInv(q)' /\ LiveInv(q)'
  <2>1. SentInv(q) /\ At(q.call)' = At(q.call)
    BY <1>1 DEF IInv, At
  <2>2. SentInv(q)' /\ ~Live(q)'
    BY <1>1, <1>2, <2>1 DEF SentInv, Awaited, Live
  <2>3. QED
    BY <2>2 DEF LiveInv
<1>6. QED
  BY <1>1, <1>3, <1>4, <1>5 DEF IInv

LEMMA InvNext == IInv /\ [Next]_vars => IInv'
<1> SUFFICES ASSUME IInv, [Next]_vars PROVE IInv'
  OBVIOUS
<1>1. ASSUME NEW c \in Calls, NEW o \in Ops, RunTransaction(c, o)
      PROVE  IInv'
  BY <1>1, RunKeepsInv
<1>2. ASSUME NEW c \in Calls, Client(c)
      PROVE  IInv'
  BY <1>2, LookupKeepsInv, EndingKeepsInv, CommitKeepsInv DEF Client
<1>3. ASSUME NEW r \in requests, Server(r)
      PROVE  IInv'
  BY <1>3, ServerCommitsKeepsInv, ServerRefusesKeepsInv DEF Server
<1>4. CASE SignUpWrites
  BY <1>4, SignUpKeepsInv
<1>5. CASE UNCHANGED vars
  BY <1>5 DEF vars, history, IInv, TypeOK, ReadsInv, CountsInv, SentInv, LiveInv,
       Live, Awaited, At
<1>6. QED
  BY <1>1, <1>2, <1>3, <1>4, <1>5 DEF Next

\* Every reachable state is well typed, retries below zero included.
THEOREM TransactionsTypeCorrect == Spec => []TypeOK
<1>1. IInv => TypeOK
  BY DEF IInv
<1>2. QED
  BY InvInit, InvNext, <1>1, PTL DEF Spec

\* A transaction takes effect at most once more than its client lost an answer.
THEOREM EffectsAreAccountedFor == Spec => []RepeatedOnlyIfUnheard
<1>1. IInv => RepeatedOnlyIfUnheard
  BY DEF IInv, CountsInv, RepeatedOnlyIfUnheard
<1>2. QED
  BY InvInit, InvNext, <1>1, PTL DEF Spec

\* The server refuses no more of a call's commits than others have written, lost
\* answers aside.
THEOREM RefusalsAreAccountedFor == Spec => []RefusedOnlyForOthers
<1>1. IInv => RefusedOnlyForOthers
  <2> SUFFICES ASSUME IInv, NEW c \in Calls
               PROVE  refused[c] <= version - applied[c] + unheard[c]
    BY DEF RefusedOnlyForOthers
  <2>1. /\ refused[c] \in Nat /\ applied[c] \in Nat /\ unheard[c] \in Nat
        /\ version \in Nat /\ refused[c] + applied[c] <= version + unheard[c]
    BY DEF IInv, TypeOK, CountsInv
  <2>2. QED
    BY <2>1
<1>2. QED
  BY InvInit, InvNext, <1>1, PTL DEF Spec
-----------------------------------------------------------------------------
(* The transactions implement AtomicUpdate.                                *)

LEMMA PromiseInit == Init => Promise!Init
  BY DEF Init, Promise!Init, At, Idle, Fresh, Status, Waiting, MissingDoc, ProvisionedDoc,
     SignedUpDoc, NoLists, Fields, Promise!MissingDoc, Promise!ProvisionedDoc,
     Promise!SignedUpDoc, Promise!NoLists, Promise!Fields

\* Seen from outside, a step of the client goes on with the call or reports.
LEMMA ClientReports ==
  ASSUME IInv, NEW c \in Calls, Client(c)
  PROVE  /\ UNCHANGED <<doc, applied>> /\ run[c].at \in Waiting
         /\ \E R \in Run : /\ run' = [run EXCEPT ![c] = R] /\ R.op = run[c].op
                           /\ R.at \in Waiting \cup Ended
                           /\ R.at = "true" => applied[c] > 0
<1>1. run[c] \in Run /\ doc \in Doc /\ version \in Nat
  BY DEF IInv, TypeOK
<1>a. run[c].left \in 0 .. Retries
  BY <1>1 DEF Run
<1>b. run[c].left # 0 => run[c].left - 1 \in 0 .. Retries
  BY <1>a, TransactionsAssumption
<1>2. ASSUME NEW result \in Ended, Ends(c, result),
             result = "true" => applied[c] > 0
      PROVE  \E R \in Run : /\ run' = [run EXCEPT ![c] = R] /\ R.op = run[c].op
                            /\ R.at \in Waiting \cup Ended
                            /\ R.at = "true" => applied[c] > 0
  <2> DEFINE R == [run[c] EXCEPT !.at = result, !.snapshot = None]
  <2>1. R \in Run /\ R.op = run[c].op /\ R.at = result
    BY <1>1 DEF Run, Ended
  <2>2. run' = [run EXCEPT ![c] = R]
    BY <1>2 DEF Ends
  <2> HIDE DEF R
  <2>3. QED
    BY <1>2, <2>1, <2>2
<1>3. ASSUME Again(c)
      PROVE  \E R \in Run : /\ run' = [run EXCEPT ![c] = R] /\ R.op = run[c].op
                            /\ R.at \in Waiting \cup Ended
                            /\ R.at = "true" => applied[c] > 0
  <2>1. CASE run[c].left = 0
    BY <1>2, <1>3, <2>1 DEF Again, Ended
  <2>2. CASE run[c].left # 0
    <3> DEFINE R == [Attempt(c, "lookup") EXCEPT !.snapshot = None]
    <3>1. R \in Run /\ R.op = run[c].op /\ R.at = "lookup"
      BY <1>1, <1>b, <2>2 DEF Attempt, Run, Waiting
    <3>2. run' = [run EXCEPT ![c] = R]
      BY <1>3, <2>2 DEF Again
    <3> HIDE DEF R
    <3>3. QED
      BY <3>1, <3>2 DEF Waiting
  <2>3. QED
    BY <2>1, <2>2
<1>4. CASE Lookup(c)
  <2> DEFINE R == [run[c] EXCEPT !.at = "handler", !.snapshot = doc, !.read = version]
  <2>1. R \in Run /\ R.op = run[c].op /\ R.at = "handler"
    BY <1>1 DEF Run, Waiting
  <2>2. run' = [run EXCEPT ![c] = R] /\ UNCHANGED <<doc, applied>> /\ run[c].at \in Waiting
    BY <1>4 DEF Lookup, history, Waiting
  <2> HIDE DEF R
  <2>3. QED
    BY <2>1, <2>2 DEF Waiting
<1>5. CASE Commit(c)
  <2> DEFINE R == [run[c] EXCEPT !.at = "commit"]
  <2>1. R \in Run /\ R.op = run[c].op /\ R.at = "commit"
    BY <1>1 DEF Run, Waiting
  <2>2. run' = [run EXCEPT ![c] = R] /\ UNCHANGED <<doc, applied>> /\ run[c].at \in Waiting
    BY <1>5 DEF Commit, history, Waiting
  <2> HIDE DEF R
  <2>3. QED
    BY <2>1, <2>2 DEF Waiting
<1>6. CASE HandlerFails(c) \/ HandlerThrows(c)
  BY <1>2, <1>6 DEF HandlerFails, HandlerThrows, history, Ended, Waiting
<1>7. CASE CommitUnwritten(c) \/ IsRefused(c) \/ CommitLost(c)
  BY <1>3, <1>7 DEF CommitUnwritten, IsRefused, CommitLost, history, Waiting
<1>8. CASE Succeeds(c)
  <2>1. applied[c] > 0
    BY <1>8 DEF Succeeds, IInv, TypeOK, CountsInv, At
  <2>2. QED
    BY <1>2, <1>8, <2>1 DEF Succeeds, history, Ended, Waiting
<1>9. CASE Killed(c)
  BY <1>2, <1>9 DEF Killed, history, Ended
<1>10. QED
  BY <1>4, <1>5, <1>6, <1>7, <1>8, <1>9 DEF Client

LEMMA PromiseStep == IInv /\ [Next]_vars => [Promise!Next]_(Promise!vars)
<1> SUFFICES ASSUME IInv, [Next]_vars
             PROVE  Promise!Next \/ UNCHANGED Promise!vars
  OBVIOUS
<1> DEFINE ops == [c \in Calls |-> run[c].op]
           statuses == [c \in Calls |-> Status(c)]
<1>t. run \in [Calls -> Run] /\ version \in Nat /\ applied \in [Calls -> Nat]
  BY DEF IInv, TypeOK
<1>1. ASSUME NEW c \in Calls, NEW o \in Ops, RunTransaction(c, o)
      PROVE  Promise!Next
  <2>1. run' = [run EXCEPT ![c] = Fresh("lookup", o, Retries)] /\ run[c].at = "idle"
        /\ UNCHANGED <<doc, applied>>
    BY <1>1 DEF RunTransaction, history
  <2>2. ops' = [ops EXCEPT ![c] = o]
    BY <1>t, <2>1 DEF Fresh
  <2>3. statuses[c] = "idle" /\ statuses' = [statuses EXCEPT ![c] = "running"]
    BY <1>t, <2>1 DEF Fresh, Status, Waiting
  <2>4. Promise!Start(c)
    BY <2>1, <2>2, <2>3 DEF Promise!Start
  <2>5. QED
    BY <2>4 DEF Promise!Next
<1>2. ASSUME NEW c \in Calls, Client(c)
      PROVE  Promise!Next \/ UNCHANGED Promise!vars
  <2>1. /\ UNCHANGED <<doc, applied>> /\ run[c].at \in Waiting
    BY <1>2, ClientReports
  <2>2. PICK R \in Run : /\ run' = [run EXCEPT ![c] = R] /\ R.op = run[c].op
                         /\ R.at \in Waiting \cup Ended
                         /\ R.at = "true" => applied[c] > 0
    BY <1>2, ClientReports
  <2>3. ops' = ops
    BY <1>t, <2>2
  <2>4. statuses[c] = "running"
    BY <2>1 DEF Status
  <2>5. CASE R.at \in Waiting
    <3>1. statuses' = statuses
      BY <1>t, <2>1, <2>2, <2>5 DEF Status
    <3>2. QED
      BY <2>1, <2>3, <3>1 DEF Promise!vars
  <2>6. CASE R.at \in Ended
    <3>1. statuses' = [statuses EXCEPT ![c] = R.at]
      BY <1>t, <2>2, <2>6 DEF Status, Waiting, Ended
    <3>2. Promise!Report(c, R.at)
      BY <2>1, <2>2, <2>3, <2>4, <3>1 DEF Promise!Report
    <3>3. QED
      BY <2>6, <3>2 DEF Promise!Next, Ended
  <2>7. QED
    BY <2>2, <2>5, <2>6
<1>3. ASSUME NEW r \in requests, ServerCommits(r)
      PROVE  Promise!Next
  <2> DEFINE c == r.call
  <2>1. /\ SentInv(r) /\ LiveInv(r) /\ Live(r) /\ r.op \in Op /\ doc \in Doc
    BY <1>3, TransactionsAssumption
       DEF IInv, TypeOK, Request, ServerCommits, Meets, SentInv, Live
  <2>2. /\ c \in Calls
        /\ At(c)' = IF Awaited(r) THEN "applied" ELSE At(c)
        /\ \A b \in Calls : /\ b # c => run'[b] = run[b]
                            /\ run'[b].op = run[b].op
    BY <1>3, AnswerReaches DEF ServerCommits
  <2>3. ops' = ops /\ ops[c] = r.op
    BY <2>1, <2>2 DEF SentInv
  <2>4. At(c) \in {"lookup", "handler", "commit", "refused", "false", "gone"}
    BY <1>t, <2>1, <2>2 DEF SentInv, LiveInv, At, Run, Waiting
  <2>5. statuses[c] \in {"running", "false", "gone"}
    BY <2>2, <2>4 DEF Status, Waiting, At
  <2>6. statuses' = statuses
    <3>1. ASSUME NEW b \in Calls PROVE Status(b)' = Status(b)
      BY <2>2 DEF Status, Waiting, At, Awaited
    <3>2. QED
      BY <3>1
  <2>7. /\ doc' = Promise!AfterOp(r.op, doc) /\ ~Promise!Throws(doc, r.op.field)
        /\ applied' = [applied EXCEPT ![c] = @ + 1]
    BY <1>3, <2>1, WriteDoes DEF ServerCommits, LiveInv, Promise!Throws, Throws
  <2>8. Promise!Apply(c)
    BY <2>3, <2>5, <2>6, <2>7 DEF Promise!Apply
  <2>9. QED
    BY <2>2, <2>8 DEF Promise!Next
<1>4. ASSUME NEW r \in requests, ServerRefuses(r)
      PROVE  UNCHANGED Promise!vars
  <2>1. /\ r.call \in Calls
        /\ At(r.call)' = IF Awaited(r) THEN "refused" ELSE At(r.call)
        /\ \A b \in Calls : /\ b # r.call => run'[b] = run[b]
                            /\ run'[b].op = run[b].op
    BY <1>4, AnswerReaches DEF ServerRefuses
  <2>2. ops' = ops
    BY <2>1
  <2>3. statuses' = statuses
    <3>1. ASSUME NEW b \in Calls PROVE Status(b)' = Status(b)
      BY <2>1 DEF Status, Waiting, At, Awaited
    <3>2. QED
      BY <3>1
  <2>4. QED
    BY <1>4, <2>2, <2>3 DEF ServerRefuses, history, Promise!vars
<1>5. CASE SignUpWrites
  <2>1. doc' = SignedUpDoc /\ UNCHANGED <<run, applied>>
    BY <1>5 DEF SignUpWrites, history
  <2>2. ops' = ops /\ statuses' = statuses
    BY <2>1 DEF Status
  <2>3. Promise!Overwrite
    BY <2>1, <2>2 DEF Promise!Overwrite, SignedUpDoc, NoLists, Fields,
       Promise!SignedUpDoc, Promise!NoLists, Promise!Fields
  <2>4. QED
    BY <2>3 DEF Promise!Next
<1>6. CASE UNCHANGED vars
  BY <1>6 DEF vars, history, Promise!vars, Status
<1>7. QED
  BY <1>1, <1>2, <1>3, <1>4, <1>5, <1>6 DEF Next, Server

\* Every behaviour of the transactions is one of AtomicUpdate: each commit that
\* takes effect is one step that does what its call is for to the document of the
\* moment, and a call told true has had its effect.
THEOREM TransactionsImplementAtomicUpdate == Spec => ImplementsAtomicUpdate
  BY InvInit, InvNext, PromiseInit, PromiseStep, PTL
     DEF Spec, ImplementsAtomicUpdate, Promise!Spec
=============================================================================
