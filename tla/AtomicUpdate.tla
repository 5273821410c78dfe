---------------------------- MODULE AtomicUpdate ----------------------------
(***************************************************************************)
(* What a caller of runTransaction is promised, in the terms of the        *)
(* application: the call changes the document of the moment in one step,   *)
(* whatever happens to it meanwhile, and is told true only if it did.      *)
(* Told false, it may have changed the document all the same, and may      *)
(* still.  How often it does is the history variable times.                *)
(***************************************************************************)
EXTENDS Naturals

CONSTANTS
    Calls,        \* calls of runTransaction
    Values,       \* the ids a list may hold
    Ops,          \* what the calls may be for
    None          \* the purpose of a call not made

INSTANCE UserDocs

VARIABLES doc, op, status, times

vars == <<doc, op, status, times>>

AfterOp(o, d) ==
    CASE o.kind = "send"   -> AfterSend(d, o.field, o.id)
      [] o.kind = "update" -> AfterUpdate(d, o.field, o.id)
      [] o.kind = "toggle" -> AfterToggle(d, o.field, o.id)

Init ==
    /\ doc \in {MissingDoc, ProvisionedDoc, SignedUpDoc}
    /\ op = [c \in Calls |-> None]
    /\ status = [c \in Calls |-> "idle"]
    /\ times = [c \in Calls |-> 0]

Start(c) ==
    /\ status[c] = "idle"
    /\ \E o \in Ops : op' = [op EXCEPT ![c] = o]
    /\ status' = [status EXCEPT ![c] = "running"]
    /\ UNCHANGED <<doc, times>>

\* Nothing is left to come once the caller was told true.
Apply(c) ==
    /\ status[c] \in {"running", "false", "gone"}
    /\ ~Throws(doc, op[c].field)
    /\ doc' = AfterOp(op[c], doc)
    /\ times' = [times EXCEPT ![c] = @ + 1]
    /\ UNCHANGED <<op, status>>

Report(c, result) ==
    /\ status[c] = "running"
    /\ result = "true" => times[c] > 0
    /\ status' = [status EXCEPT ![c] = result]
    /\ UNCHANGED <<doc, op, times>>

\* A sign-up writes the document over.
Overwrite ==
    /\ doc' = SignedUpDoc
    /\ UNCHANGED <<op, status, times>>

Next ==
    \/ \E c \in Calls : Start(c) \/ Apply(c)
    \/ \E c \in Calls, result \in {"true", "false", "gone"} : Report(c, result)
    \/ Overwrite

Spec == Init /\ [][Next]_vars
=============================================================================
