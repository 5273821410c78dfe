---------------------------- MODULE Transactions ----------------------------
(***************************************************************************)
(* How a transaction of the application runs on iOS: the vendored          *)
(* Firestore client, FSTSyncEngine's transactionWithRetries over           *)
(* FSTTransaction, with the handlers of sendInvitations, updateInvitations *)
(* and updateFavorites, all calls being on one document of "Users".        *)
(*                                                                         *)
(* An attempt reads the document and its version, runs the handler and     *)
(* sends a commit with that version for its precondition.  Any error of a  *)
(* commit leads to another attempt, also one that says nothing of what the *)
(* server did; the commit of an attempt given up may still arrive.         *)
(***************************************************************************)
EXTENDS Integers

CONSTANTS
    Calls,        \* calls of runTransaction
    Values,       \* the ids a list may hold
    Ops,          \* what the calls may be for
    None,         \* no purpose, no document, no precondition
    Retries,      \* how often an attempt is repeated (5 in FIRFirestore)
    MayFail       \* whether calls to the server may fail

INSTANCE UserDocs

Op == [kind : {"send", "update", "toggle"}, field : Fields, id : Values]

ASSUME TransactionsAssumption ==
    /\ Ops \subseteq Op
    /\ Retries \in Nat
    /\ MayFail \in BOOLEAN
    /\ None \notin Op /\ None \notin Doc /\ None \notin Nat

VARIABLES
    doc,          \* the document
    version,      \* how often it was written: its update time
    signUp,       \* whether a sign-up may still write it over
    run,          \* the calls
    requests,     \* commits on their way to the server
    applied,      \* history: how often a call's commit was applied
    unheard,      \* history: how many of a call's commits it lost sight of
    refused       \* history: how many of them the server refused

history == <<applied, unheard, refused>>
vars == <<doc, version, signUp, run, requests, history>>

\* A call: retries left, and the snapshot and version its attempt has read.
Waiting == {"lookup", "handler", "commit", "applied", "refused"}

Run == [at : {"idle", "true", "false", "gone"} \cup Waiting, op : Op \cup {None},
        left : 0 .. Retries, snapshot : Doc \cup {None}, read : Nat]

Request == [call : Calls, left : 0 .. Retries, op : Op,
            write : {"set", "union", "remove"}, precondition : Nat \cup {None}]

Fresh(at, o, left) ==
    [at |-> at, op |-> o, left |-> left, snapshot |-> None, read |-> 0]

Idle == Fresh("idle", None, 0)

Init ==
    /\ doc \in {MissingDoc, ProvisionedDoc, SignedUpDoc}
    /\ version = 0
    /\ signUp \in BOOLEAN
    /\ run = [c \in Calls |-> Idle]
    /\ requests = {}
    /\ applied = [c \in Calls |-> 0]
    /\ unheard = [c \in Calls |-> 0]
    /\ refused = [c \in Calls |-> 0]
-----------------------------------------------------------------------------
(* The handlers.                                                           *)

\* What the handler writes, from the snapshot it was given.
Adds(o, d) == o.kind # "update" /\ o.id \notin d.list[o.field]

Takes(o, d) == o.kind # "send" /\ o.id \in d.list[o.field]

Write(o, d) ==
    CASE ~Adds(o, d) /\ ~Takes(o, d) -> "none"
      [] Adds(o, d) /\ ~d.exists     -> "set"
      [] Adds(o, d) /\ d.exists      -> "union"
      [] Takes(o, d)                 -> "remove"

\* What the server makes of it: set replaces the document, the transforms apply
\* to the list that is there.
Written(o, write, d) ==
    CASE write = "set"    -> DocWith(o.field, o.id)
      [] write = "union"  -> [d EXCEPT !.list[o.field] = @ \cup {o.id}]
      [] write = "remove" -> [d EXCEPT !.list[o.field] = @ \ {o.id}]
-----------------------------------------------------------------------------
(* The client.                                                             *)

Ends(c, result) == run' = [run EXCEPT ![c] = [@ EXCEPT !.at = result, !.snapshot = None]]

\* One retry less.
Attempt(c, at) == [run[c] EXCEPT !.at = at, !.left = run[c].left - 1]

\* Mutants: another round whether or not a retry is left; no round is counted;
\* the object of the failed attempt is used again, with what it read.
AgainOnceMore(c) ==
    run' = [run EXCEPT ![c] = [Attempt(c, "lookup") EXCEPT !.snapshot = None]]

AgainForEver(c) ==
    run' = [run EXCEPT ![c] = [@ EXCEPT !.at = "lookup", !.snapshot = None]]

AgainWithOldReads(c) ==
    IF run[c].left = 0 THEN Ends(c, "false")
    ELSE run' = [run EXCEPT ![c] = Attempt(c, "handler")]

\* The completion of a commit that failed: another attempt, or none is left.
Again(c) ==
    IF run[c].left = 0 THEN Ends(c, "false")
    ELSE run' = [run EXCEPT ![c] = [Attempt(c, "lookup") EXCEPT !.snapshot = None]]

RunTransaction(c, o) ==
    /\ run[c].at = "idle"
    /\ run' = [run EXCEPT ![c] = Fresh("lookup", o, Retries)]
    /\ UNCHANGED <<doc, version, signUp, requests, history>>

\* tx.get: the document as the server has it, and its version is recorded.
Lookup(c) ==
    /\ run[c].at = "lookup"
    /\ run' = [run EXCEPT ![c] =
                  [@ EXCEPT !.at = "handler", !.snapshot = doc, !.read = version]]
    /\ UNCHANGED <<doc, version, signUp, requests, history>>

\* The read fails, or the plugin gives the handler up: that error is not retried.
HandlerFails(c) ==
    /\ MayFail
    /\ run[c].at \in {"lookup", "handler"}
    /\ Ends(c, "false")
    /\ UNCHANGED <<doc, version, signUp, requests, history>>

\* contains is called on a field that is not a list.
HandlerThrows(c) ==
    /\ run[c].at = "handler"
    /\ Throws(run[c].snapshot, run[c].op.field)
    /\ Ends(c, "false")
    /\ UNCHANGED <<doc, version, signUp, requests, history>>

\* Mutant: the commit carries no precondition.
NoPrecondition(c) == None

\* preconditionForDocumentKey: the version the attempt has read.
PreconditionFor(c) == run[c].read

Commit(c) ==
    /\ run[c].at = "handler"
    /\ ~Throws(run[c].snapshot, run[c].op.field)
    /\ Write(run[c].op, run[c].snapshot) # "none"
    /\ requests' = requests \cup
          {[call |-> c, left |-> run[c].left, op |-> run[c].op,
            write |-> Write(run[c].op, run[c].snapshot),
            precondition |-> PreconditionFor(c)]}
    /\ run' = [run EXCEPT ![c].at = "commit"]
    /\ UNCHANGED <<doc, version, signUp, history>>

\* A document was read and not written: the client itself refuses the commit, and
\* the attempt is repeated like any other that failed.
CommitUnwritten(c) ==
    /\ run[c].at = "handler"
    /\ ~Throws(run[c].snapshot, run[c].op.field)
    /\ Write(run[c].op, run[c].snapshot) = "none"
    /\ Again(c)
    /\ UNCHANGED <<doc, version, signUp, requests, history>>

\* Mutant: success is taken for an error.
SucceedsNot(c) ==
    /\ run[c].at = "applied"
    /\ Again(c)
    /\ UNCHANGED <<doc, version, signUp, requests, history>>

Succeeds(c) ==
    /\ run[c].at = "applied"
    /\ Ends(c, "true")
    /\ UNCHANGED <<doc, version, signUp, requests, history>>

IsRefused(c) ==
    /\ run[c].at = "refused"
    /\ Again(c)
    /\ refused' = [refused EXCEPT ![c] = @ + 1]
    /\ UNCHANGED <<doc, version, signUp, requests, applied, unheard>>

\* The call to the server ends in an error of the connection, before or after
\* the server has decided.
CommitLost(c) ==
    /\ MayFail
    /\ run[c].at \in {"commit", "applied", "refused"}
    /\ Again(c)
    /\ unheard' = [unheard EXCEPT ![c] = @ + 1]
    /\ UNCHANGED <<doc, version, signUp, requests, applied, refused>>

\* The process is killed.
Killed(c) ==
    /\ MayFail
    /\ run[c].at \in Waiting
    /\ Ends(c, "gone")
    /\ UNCHANGED <<doc, version, signUp, requests, history>>
-----------------------------------------------------------------------------
(* The server.                                                             *)

Meets(r) == r.precondition \in {None, version}

\* It answers the attempt that waits; the answer to an earlier one is nobody's.
AnswersWith(r, result) ==
    run' = [run EXCEPT ![r.call].at =
               IF @ = "commit" /\ run[r.call].left = r.left THEN result ELSE @]

ServerCommits(r) ==
    /\ Meets(r)
    /\ doc' = Written(r.op, r.write, doc)
    /\ version' = version + 1
    /\ requests' = requests \ {r}
    /\ AnswersWith(r, "applied")
    /\ applied' = [applied EXCEPT ![r.call] = @ + 1]
    /\ UNCHANGED <<signUp, unheard, refused>>

ServerRefuses(r) ==
    /\ ~Meets(r)
    /\ requests' = requests \ {r}
    /\ AnswersWith(r, "refused")
    /\ UNCHANGED <<doc, version, signUp, history>>

\* _userLogUp of an account whose index is this document's id.
SignUpWrites ==
    /\ signUp
    /\ signUp' = FALSE
    /\ doc' = SignedUpDoc
    /\ version' = version + 1
    /\ UNCHANGED <<run, requests, history>>

Client(c) ==
    \/ Lookup(c)
    \/ HandlerFails(c)
    \/ HandlerThrows(c)
    \/ Commit(c)
    \/ CommitUnwritten(c)
    \/ Succeeds(c)
    \/ IsRefused(c)
    \/ CommitLost(c)
    \/ Killed(c)

Server(r) == ServerCommits(r) \/ ServerRefuses(r)

Next ==
    \/ \E c \in Calls, o \in Ops : RunTransaction(c, o)
    \/ \E c \in Calls : Client(c)
    \/ \E r \in requests : Server(r)
    \/ SignUpWrites

Spec == Init /\ [][Next]_vars

\* The client goes on with a call that has something to go on with, and every
\* call to the server ends: in an answer, or in an error of the connection.
FairSpec ==
    /\ Spec
    /\ \A c \in Calls :
          WF_vars(Client(c) \/ \E r \in requests : r.call = c /\ Server(r))
-----------------------------------------------------------------------------
(* Properties.                                                             *)

\* Every variable has its type; the retries of a call never run below zero.
TypeOK ==
    /\ doc \in Doc
    /\ version \in Nat
    /\ signUp \in BOOLEAN
    /\ run \in [Calls -> Run]
    /\ requests \subseteq Request
    /\ \A h \in {applied, unheard, refused} : h \in [Calls -> Nat]

\* A transaction takes effect more than once only if the client lost sight of one
\* of its commits: the repetition of any failed commit (FSTSyncEngine.mm 296-317)
\* repeats an effect only where an answer was lost, but then it does.
RepeatedOnlyIfUnheard ==
    \A c \in Calls : applied[c] <= 1 + unheard[c]

\* The server refuses a call no more often than others have written since it
\* began, so that five retries lose only against as many other writes: each
\* attempt reads anew (FSTSyncEngine.mm 288, FSTTransaction.mm 147-154).
RefusedOnlyForOthers ==
    \A c \in Calls : refused[c] <= version - applied[c] + unheard[c]

\* Every call comes to an end, a call that has nothing to write included, whose
\* attempts all fail in the client (FSTTransaction.mm 223-240).
EveryCallEnds ==
    \A c \in Calls : run[c].at \in Waiting ~> run[c].at \in {"true", "false", "gone"}

\* Transactions are updates of the document of the moment.
Status(c) == IF run[c].at \in Waiting THEN "running" ELSE run[c].at

Promise == INSTANCE AtomicUpdate WITH
    op <- [c \in Calls |-> run[c].op],
    status <- [c \in Calls |-> Status(c)],
    times <- applied

ImplementsAtomicUpdate == Promise!Spec
=============================================================================
