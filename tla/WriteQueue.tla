----------------------------- MODULE WriteQueue -----------------------------
(***************************************************************************)
(* What becomes of a setData that nobody awaits: the write queue of the    *)
(* vendored Firestore client on one iOS device.                            *)
(*                                                                         *)
(* A write is kept on disk in the queue of the user of the moment.  The    *)
(* first writes of the present user's queue are the pipeline, which is     *)
(* sent in order on the write stream; an answer belongs to the first write *)
(* of the pipeline, whatever it says.  Whenever the stream ends, for an    *)
(* error, another user or a restart, a new one is sent the whole pipeline  *)
(* again, applied or not.                                                  *)
(***************************************************************************)
EXTENDS Integers, SequencesExt

CONSTANTS
    Users,        \* FirebaseAuth uids, and the user nobody is signed in as
    Docs,         \* document references
    Values,       \* what a document may be set to
    Null,         \* no document
    MaxPending,   \* kMaxPendingWrites (10 in the client)
    MaxWrites,    \* how many writes are made (bound)
    MayFail       \* whether streams may break and writes be refused

ASSUME WriteQueueAssumption ==
    /\ MaxPending \in Nat \ {0}
    /\ MaxWrites \in Nat
    /\ MayFail \in BOOLEAN
    /\ Null \notin Values

VARIABLES
    user,         \* the user of the moment
    queue,        \* the mutation queues on disk
    nextId,       \* nextBatchID
    callbacks,    \* the completion blocks kept, by user and batch id
    pipeline,     \* writePipeline
    stream,       \* the write stream
    answers,      \* how many of the pipeline this stream's server has answered
    docs,         \* the documents at the server
    issued,       \* history: the writes made, in their order
    by,           \* history: who made each
    applied,      \* history: those the server has applied
    rejected,     \* history: those it has refused
    told          \* history: what callbacks were told

local == <<user, queue, nextId, callbacks, pipeline, stream>>
history == <<issued, by, applied, rejected, told>>
queueVars == <<local, answers, docs, history>>

\* A batch has one write; n is its place in the history.
Batch == [id : Nat, n : Nat, doc : Docs, value : Values]

Streams == {"initial", "starting", "ready", "error", "backoff"}

QueueInit ==
    /\ user \in Users
    /\ queue = [u \in Users |-> <<>>]
    /\ nextId = 0
    /\ callbacks = {}
    /\ pipeline = <<>>
    /\ stream = "initial"
    /\ answers = 0
    /\ issued = <<>> /\ by = <<>>
    /\ applied = {} /\ rejected = {} /\ told = {}
-----------------------------------------------------------------------------
(* The pipeline and the stream.                                            *)

LastId(p) == IF p = <<>> THEN -1 ELSE p[Len(p)].id

\* nextMutationBatchAfterBatchID: where the first batch with a higher id is, if any.
NextAfter(q, id) == SelectInSeq(q, LAMBDA b : b.id > id)

\* Mutant: the newest batches fill the pipeline.
FilledFromEnd(p, q) ==
    LET next == NextAfter(q, LastId(p))
        from == Len(q) - (MaxPending - Len(p)) + 1
    IN  IF next = 0 THEN p
        ELSE p \o SubSeq(q, IF from < next THEN next ELSE from, Len(q))

\* fillWritePipeline: batches with higher ids, until the pipeline is full.
Filled(p, q) ==
    LET next == NextAfter(q, LastId(p))
        last == next + (MaxPending - Len(p)) - 1
    IN  IF next = 0 THEN p
        ELSE p \o SubSeq(q, next, IF last < Len(q) THEN last ELSE Len(q))

IsStarted(s) == s \in {"starting", "ready", "backoff"}

\* Mutant: a stream that ended in an error is not started again.
StartedUnlessError(s, p) ==
    IF IsStarted(s) \/ p = <<>> \/ s = "error" THEN s ELSE "starting"

\* shouldStartWriteStream, and Start: after an error it backs off first.
Started(s, p) ==
    CASE IsStarted(s) \/ p = <<>>            -> s
      [] p # <<>> /\ s = "initial"           -> "starting"
      [] p # <<>> /\ s = "error"             -> "backoff"

\* The pipeline becomes p, topped up from q, and the stream s is started if need be.
Goes(p, q, s) ==
    /\ pipeline' = Filled(p, q)
    /\ stream' = Started(s, Filled(p, q))

\* Mutant: batch ids start anew, whatever is on disk.
NextIdAnew(queues) == 0

\* loadNextBatchIDFromDB: one more than any id on disk.
NextIdOf(queues) ==
    LET ids == UNION {{b.id : b \in ToSet(queues[u])} : u \in Users}
    IN  CHOOSE i \in {0} \cup {j + 1 : j \in ids} : \A j \in ids : i > j

Stopped(s) == IF IsStarted(s) THEN "initial" ELSE s

\* writeMutations of a setData made now: on disk, and perhaps under way.
Issues(d, v) ==
    /\ Len(issued) < MaxWrites
    /\ LET b == [id |-> nextId, n |-> Len(issued) + 1, doc |-> d, value |-> v] IN
        /\ queue' = [queue EXCEPT ![user] = Append(@, b)]
        /\ callbacks' = {c \in callbacks : ~(c.user = user /\ c.id = nextId)}
                           \cup {[user |-> user, id |-> nextId, n |-> b.n]}
        /\ Goes(pipeline, queue'[user], stream)
        /\ issued' = Append(issued, b)
        /\ by' = Append(by, user)
    /\ nextId' = nextId + 1
    /\ UNCHANGED <<user, answers, docs, applied, rejected, told>>

\* Mutants of TurnsTo: the pipeline is kept; answers still count for the new
\* stream; the queue of the user who leaves is deleted.
TurnsKeepingPipeline(u) ==
    /\ user' = u
    /\ nextId' = IF u = user THEN nextId ELSE NextIdOf(queue)
    /\ Goes(pipeline, queue[u], Stopped(stream))
    /\ answers' = 0
    /\ UNCHANGED <<queue, callbacks, docs, history>>

TurnsKeepingAnswers(u) ==
    /\ user' = u
    /\ nextId' = IF u = user THEN nextId ELSE NextIdOf(queue)
    /\ Goes(<<>>, queue[u], Stopped(stream))
    /\ UNCHANGED <<queue, callbacks, answers, docs, history>>

TurnsDeletingQueue(u) ==
    /\ user' = u
    /\ queue' = [queue EXCEPT ![user] = <<>>]
    /\ nextId' = IF u = user THEN nextId ELSE NextIdOf(queue)
    /\ Goes(<<>>, queue[u], Stopped(stream))
    /\ answers' = 0
    /\ UNCHANGED <<callbacks, docs, history>>

\* credentialDidChangeWithUser: the queue is swapped and the streams restart.
TurnsTo(u) ==
    /\ user' = u
    /\ nextId' = IF u = user THEN nextId ELSE NextIdOf(queue)
    /\ Goes(<<>>, queue[u], Stopped(stream))
    /\ answers' = 0
    /\ UNCHANGED <<queue, callbacks, docs, history>>

\* The process is killed and started again: the queues are on disk, and so is
\* the user, in FirebaseAuth's keychain.
Restarts ==
    /\ nextId' = NextIdOf(queue)
    /\ callbacks' = {}
    /\ Goes(<<>>, queue[user], "initial")
    /\ answers' = 0
    /\ UNCHANGED <<user, queue, docs, history>>

\* The stream has opened and shaken hands: the whole pipeline is sent, and what
\* is added to it from now on.
HandshakeCompletes ==
    /\ stream = "starting"
    /\ stream' = "ready"
    /\ UNCHANGED <<user, queue, nextId, callbacks, pipeline, answers, docs, history>>

\* kIdleTimeout after the pipeline ran empty.
IdleStops ==
    /\ stream = "ready" /\ pipeline = <<>>
    /\ stream' = "initial"
    /\ UNCHANGED <<user, queue, nextId, callbacks, pipeline, answers, docs, history>>

BackoffElapses ==
    /\ stream = "backoff"
    /\ stream' = "starting"
    /\ UNCHANGED <<user, queue, nextId, callbacks, pipeline, answers, docs, history>>

\* An error that says nothing of a write: offline, no token, the server is busy.
StreamBreaks ==
    /\ MayFail
    /\ stream \in {"starting", "ready"}
    /\ stream' = Started("error", pipeline)
    /\ answers' = 0
    /\ UNCHANGED <<user, queue, nextId, callbacks, pipeline, docs, history>>

\* processUserCallbacks, for the present user.
Tells(id, result) ==
    LET mine == {c \in callbacks : c.user = user /\ c.id = id} IN
    /\ callbacks' = callbacks \ mine
    /\ told' = told \cup {[n |-> c.n, result |-> result] : c \in mine}

\* Mutant: it leaves the pipeline alone.
DropsFromPipeline(id, s) ==
    /\ UNCHANGED queue
    /\ Goes(Tail(pipeline), queue[user], s)

\* The first batch of the pipeline leaves it and the queue.
Drops(id, s) ==
    /\ queue' = [queue EXCEPT ![user] = RemoveFirstMatch(@, LAMBDA b : b.id = id)]
    /\ Goes(Tail(pipeline), queue'[user], s)

\* writeStreamDidReceiveResponse
Acknowledged ==
    /\ stream = "ready" /\ answers > 0
    /\ answers' = answers - 1
    /\ LET b == Head(pipeline) IN Tells(b.id, "ok") /\ Drops(b.id, stream)
    /\ UNCHANGED <<user, nextId, docs, issued, by, applied, rejected>>

\* handleWriteError: the stream ended in an error that lays the blame on a write,
\* which is taken to be the first one not answered.
Refused ==
    /\ MayFail
    /\ stream = "ready" /\ answers = 0 /\ pipeline # <<>>
    /\ LET b == Head(pipeline) IN
        /\ Tells(b.id, "error")
        /\ Drops(b.id, "initial")
        /\ rejected' = rejected \cup {b.n}
    /\ UNCHANGED <<user, nextId, answers, docs, issued, by, applied>>

\* The server applies the next write of the stream.
ServerApplies ==
    /\ stream = "ready" /\ answers < Len(pipeline)
    /\ LET b == pipeline[answers + 1] IN
        /\ docs' = [docs EXCEPT ![b.doc] = b.value]
        /\ applied' = applied \cup {b.n}
    /\ answers' = answers + 1
    /\ UNCHANGED <<local, issued, by, rejected, told>>

QueueNext ==
    \/ HandshakeCompletes
    \/ IdleStops
    \/ BackoffElapses
    \/ StreamBreaks
    \/ Acknowledged
    \/ Refused
    \/ ServerApplies
-----------------------------------------------------------------------------
(* Properties.                                                             *)

QueueTypeOK ==
    /\ user \in Users
    /\ queue \in [Users -> Seq(Batch)]
    /\ nextId \in Nat
    /\ callbacks \subseteq [user : Users, id : Nat, n : Nat]
    /\ pipeline \in Seq(Batch)
    /\ stream \in Streams
    /\ answers \in 0 .. Len(pipeline)
    /\ docs \in [Docs -> Values \cup {Null}]
    /\ issued \in Seq(Batch)
    /\ by \in Seq(Users)
    /\ applied \subseteq Nat /\ rejected \subseteq Nat
    /\ told \subseteq [n : Nat, result : {"ok", "error"}]

Beginning(q) == SubSeq(q, 1, IF Len(q) < MaxPending THEN Len(q) ELSE MaxPending)

Pending == UNION {ToSet(queue[u]) : u \in Users}

\* The stream is linked to the queue by order alone ("purely based on order",
\* FSTRemoteStore.mm 108-110): the pipeline is the beginning of the present
\* user's queue, as long as it may be, whatever broke, restarted or changed.
PipelineIsPrefix == pipeline = Beginning(queue[user])

\* A callback is told what became of the write it was given for, though batch
\* ids are given out anew after a restart or a change of the user, and it is
\* told once (FSTSyncEngine.mm 260-268, 446-460).
CallbacksTellTheTruth ==
    /\ \A t \in told : t.n \in IF t.result = "ok" THEN applied ELSE rejected
    /\ \A t, s \in told : t.n = s.n => t = s

\* No write is lost: it is applied, refused or still on disk.
NoWriteIsLost ==
    1 .. Len(issued) \subseteq applied \cup rejected \cup {b.n : b \in Pending}

\* A user's writes arrive in the order they were made: whatever is resent, none
\* is applied before an earlier one was, unless that was refused.
AppliedInOrder ==
    \A m, n \in 1 .. Len(issued) :
        m < n /\ by[m] = by[n] /\ n \in applied => m \in applied \cup rejected

\* No write waits for an event that will not come: while the present user's queue
\* has a write, a stream is being opened, is open or waits for its backoff, however
\* the last one ended (FSTRemoteStore.mm 445-485, 546-574).
SomethingIsUnderWay ==
    queue[user] # <<>> => IsStarted(stream)

\* A write as its maker knows it.
Made == [n \in 1 .. Len(issued) |->
            [by |-> by[n], doc |-> issued[n].doc, value |-> issued[n].value]]

\* The queue keeps the promise of Outbox: a write is kept as long as it is on disk.
Promise == INSTANCE Outbox WITH made <- Made, kept <- {b.n : b \in Pending}
=============================================================================
