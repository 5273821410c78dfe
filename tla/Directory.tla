------------------------------ MODULE Directory ------------------------------
(***************************************************************************)
(* The directory that sign-up writes: the record of an e-mail, which leads *)
(* to an index, and the record of the index, which has the name.           *)
(*                                                                         *)
(* The button of the sign-up page waits for the account and only then      *)
(* looks at the fields of the form, which another tap may have saved anew. *)
(* It waits for neither of its two writes: they go through the write queue *)
(* of the user of the moment.                                              *)
(***************************************************************************)
EXTENDS WriteQueue

CONSTANTS
    Emails,       \* e-mail addresses; an account is known by its own
    Nobody,       \* the user while nobody is signed in
    Forms,        \* what may be typed: records with a name and an e-mail
    Hash,         \* hashCode of name and e-mail run together, as a document id
    Indexes,      \* the ids it yields
    TapIds,       \* the taps on SIGN UP (bound)
    None          \* a tap not made

Tap == [at : {"auth", "made", "second", "done"}, email : Emails, form : Forms]

ASSUME DirectoryAssumption ==
    /\ Users = Emails \cup {Nobody}
    /\ \A f \in Forms : f.email \in Emails
    /\ Hash \in [Forms -> Indexes]
    /\ Docs = Emails \cup Indexes
    /\ Values = Indexes \cup Forms
    /\ Nobody \notin Emails /\ Emails \cap Indexes = {}
    /\ None \notin Forms /\ None \notin Tap

VARIABLES
    form,         \* the fields as they were last saved
    taps,         \* the taps: where each is, the e-mail it signs up, its form
    accounts,     \* the accounts FirebaseAuth has
    retyped,      \* history: accounts whose form was changed before it was read
    cut           \* history: accounts whose sign-up broke off half-way

signUpVars == <<form, taps, accounts, retyped, cut>>
vars == <<queueVars, signUpVars>>

Init ==
    /\ QueueInit
    /\ docs = [d \in Docs |-> Null]
    /\ form = None
    /\ taps = [t \in TapIds |-> None]
    /\ accounts = {}
    /\ user = Nobody
    /\ retyped = {} /\ cut = {}
-----------------------------------------------------------------------------
At(t, at) == taps[t] # None /\ taps[t].at = at

Moves(t, at) == taps' = [taps EXCEPT ![t].at = at]

\* The accounts of taps that have not read the form yet.
Reading == {taps[t].email : t \in {s \in TapIds : At(s, "auth") \/ At(s, "made")}}

\* The fields are saved, and signUpWithEmail is called with them.
TapSignUp(t, f) ==
    /\ taps[t] = None
    /\ taps' = [taps EXCEPT ![t] = [at |-> "auth", email |-> f.email, form |-> f]]
    /\ form' = f
    /\ retyped' = IF f = form THEN retyped ELSE retyped \cup Reading
    /\ UNCHANGED <<queueVars, accounts, cut>>

\* FirebaseAuth makes the account, which is signed in at once.
AccountMade(t) ==
    /\ At(t, "auth")
    /\ taps[t].email \notin accounts
    /\ accounts' = accounts \cup {taps[t].email}
    /\ Moves(t, "made")
    /\ TurnsTo(taps[t].email)
    /\ UNCHANGED <<form, retyped, cut>>

\* It refuses, or something after it throws: the dialog says the address exists.
SignUpThrows(t) ==
    /\ \/ At(t, "auth") /\ (MayFail \/ taps[t].email \in accounts)
       \/ At(t, "made") /\ MayFail
    /\ cut' = IF At(t, "made") THEN cut \cup {taps[t].email} ELSE cut
    /\ Moves(t, "done")
    /\ UNCHANGED <<queueVars, form, accounts, retyped>>

\* _userLogUp with what the form has now; its first write.
WritesEmail(t) ==
    /\ At(t, "made")
    /\ taps' = [taps EXCEPT ![t].at = "second", ![t].form = form]
    /\ Issues(form.email, Hash[form])
    /\ UNCHANGED <<form, accounts, retyped, cut>>

\* Mutant: the second write reads the form anew.
WritesUserAnew(t) ==
    /\ At(t, "second")
    /\ Moves(t, "done")
    /\ Issues(Hash[form], form)
    /\ UNCHANGED <<form, accounts, retyped, cut>>

\* Its second, which reaches the client as a call of its own.
WritesUser(t) ==
    /\ At(t, "second")
    /\ Moves(t, "done")
    /\ Issues(Hash[taps[t].form], taps[t].form)
    /\ UNCHANGED <<form, accounts, retyped, cut>>

\* Another account, or nobody, is signed in on the login page or the profile.
SignsInAs(u) ==
    /\ u \in (accounts \cup {Nobody}) \ {user}
    /\ TurnsTo(u)
    /\ UNCHANGED signUpVars

\* The process is killed.
Restart ==
    /\ MayFail
    /\ Restarts
    /\ taps' = [t \in TapIds |-> IF taps[t] = None THEN None ELSE [taps[t] EXCEPT !.at = "done"]]
    /\ cut' = cut \cup {taps[t].email : t \in {s \in TapIds : At(s, "made")}}
                  \cup {taps[t].form.email : t \in {s \in TapIds : At(s, "second")}}
    /\ UNCHANGED <<form, accounts, retyped>>

Next ==
    \/ \E t \in TapIds :
          \/ \E f \in Forms : TapSignUp(t, f)
          \/ AccountMade(t)
          \/ SignUpThrows(t)
          \/ WritesEmail(t)
          \/ WritesUser(t)
    \/ \E u \in Users : SignsInAs(u)
    \/ Restart
    \/ QueueNext /\ UNCHANGED signUpVars

Spec == Init /\ [][Next]_vars
-----------------------------------------------------------------------------
TypeOK ==
    /\ QueueTypeOK
    /\ form \in Forms \cup {None}
    /\ taps \in [TapIds -> Tap \cup {None}]
    /\ accounts \subseteq Emails
    /\ retyped \subseteq Emails /\ cut \subseteq Emails

\* What search makes of an e-mail: the name under the index under the e-mail.
Found(e) ==
    /\ docs[e] # Null
    /\ docs[docs[e]] # Null
    /\ docs[docs[e]].email = e

\* A write of one of the two records of e.
IsAbout(b, e) == b.doc = e \/ (b.value \in Forms /\ b.value.email = e)

\* Records about e that the server has not taken, or will not.
Underway(e) ==
    \/ \E t \in TapIds : At(t, "made") /\ taps[t].email = e
    \/ \E t \in TapIds : At(t, "second") /\ taps[t].form.email = e
    \/ \E b \in Pending : IsAbout(b, e)
    \/ \E n \in rejected : IsAbout(issued[n], e)

\* The index of a form of e was written for another e-mail too: run together, or hashed,
\* the two came to the same.
Shared(e) ==
    \E m, n \in 1 .. Len(issued) :
        /\ issued[m].doc = issued[n].doc
        /\ {issued[m].value, issued[n].value} \subseteq Forms
        /\ issued[m].value.email = e /\ issued[n].value.email # e

\* Search finds an account that signed up, under its own e-mail, whatever was
\* queued, resent, parked under another user or restarted in between, unless the
\* form was changed before the sign-up read it, the sign-up broke off, another account
\* was given the same index, or a record is on its way or was refused
\* (signUpModule.dart 185-239).
AccountIsFound ==
    \A e \in accounts : Found(e) \/ e \in retyped \cup cut \/ Shared(e) \/ Underway(e)

\* Whatever breaks, restarts or is signed out under it, each step of the write queue is
\* one of Outbox: in particular nothing is applied again once its answer has come, though
\* every new stream is sent all that is on disk (FSTRemoteStore.mm 449-544).
ImplementsOutbox == Promise!Spec
=============================================================================
