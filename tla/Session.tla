------------------------------ MODULE Session ------------------------------
(***************************************************************************)
(* Who is signed in: the one StateModel that StateWidget shares with every *)
(* page, the sign-in and sign-out methods that write to it between their   *)
(* awaits, and the pages that call them.                                   *)
(*                                                                         *)
(* Nothing keeps two calls apart.  A call is a record that says where it   *)
(* waits (pc); the native side of FirebaseAuth and of Google sign-in acts  *)
(* in steps of its own, and the Dart code between two awaits is one step.  *)
(* Lists are modelled by the account they were read for.                   *)
(***************************************************************************)
EXTENDS Naturals, Sequences, FiniteSets

CONSTANTS
    Accts,        \* FirebaseAuth uids
    Null,         \* Dart's null
    None,         \* no call in a slot
    boot,         \* the slot of the call initUser makes at start-up
    TapIds,       \* slots for the calls taps start: one slot, one call at a time
    MaxDepth,     \* routes on the navigator (bound on the taps that push one)
    Debug,        \* whether asserts are evaluated, as in a debug build
    SlowStart,    \* whether initUser may take longer than the loading page
    MayLeave,     \* whether users leave a page or a tab whose call is out
    MayFail       \* whether native calls and reads may throw

ASSUME SessionAssumption ==
    /\ MaxDepth \in Nat
    /\ {Debug, SlowStart, MayLeave, MayFail} \subseteq BOOLEAN
    /\ Null \notin Accts
    /\ boot \notin TapIds

Slots == TapIds \cup {boot}
MaybeAcct == Accts \cup {Null}
Types == {"unset", "google", "email", "twitter"}
Pages == {"loading", "login", "home"}
SignIns == {"google", "email", "twitter"}
Logouts == {"logout", "googleLogout"}

\* StateModel
StateModel == [isLoading : BOOLEAN, isSignedIn : BOOLEAN, type : Types,
               user : MaybeAcct, uuser : MaybeAcct,
               favorites : MaybeAcct, recommended : MaybeAcct]

\* A call: acct is the account it signs in, verified what its FirebaseUser says
\* of the e-mail, current what auth.currentUser() returned for the assert,
\* reading the account whose document it is reading, favorites whose list it has
\* read, at the depth of the route it was made from (0: its context is gone).
Call == [op : {"init", "google", "email", "twitter", "signup",
                "logout", "googleLogout"},
         pc : {"silent", "picker", "auth", "current", "resume", "favorites",
               "recommended", "out", "googleOut"},
         acct : MaybeAcct, verified : BOOLEAN, current : MaybeAcct,
         reading : MaybeAcct, favorites : MaybeAcct, at : Nat]

ASSUME NoneIsNoCall == None \notin Call

VARIABLES
    state,          \* _StateWidgetState.state
    googleAccount,  \* _StateWidgetState.googleAccount
    calls,          \* the calls in flight
    routes,         \* the navigator's stack, the visible page last
    authUser,       \* FirebaseAuth: its current user, kept on the device
    googleUser,     \* GoogleSignIn: the account it remembers on the device
    mail            \* e-mail accounts: "none", "unverified" or "verified"

native == <<authUser, googleUser, mail>>
vars == <<state, googleAccount, calls, routes, native>>

FreshState == [isLoading |-> FALSE, isSignedIn |-> FALSE, type |-> "unset",
               user |-> Null, uuser |-> Null, favorites |-> Null, recommended |-> Null]

NewCall(op, pc, a, at) ==
    [op |-> op, pc |-> pc, acct |-> a, verified |-> TRUE, current |-> Null,
     reading |-> Null, favorites |-> Null, at |-> at]

Depth == Len(routes)
Top == routes[Depth]

\* initState of StateWidget: loading, and initUser waits for signInSilently.
LoadingState == [FreshState EXCEPT !.isLoading = TRUE]

BootCall ==
    [c \in Slots |-> IF c = boot THEN NewCall("init", "silent", Null, 0) ELSE None]

Init ==
    /\ state = LoadingState
    /\ googleAccount = Null
    /\ calls = BootCall
    /\ routes = <<"loading">>
    /\ authUser \in MaybeAcct
    /\ googleUser \in MaybeAcct
    /\ mail \in [Accts -> {"none", "unverified", "verified"}]
-----------------------------------------------------------------------------
At(c, pc) == calls[c] # None /\ calls[c].pc = pc

GoesTo(c, pc) == calls' = [calls EXCEPT ![c].pc = pc]

Ends(c) == calls' = [calls EXCEPT ![c] = None]

\* Navigator.pushNamed from the route the call was made from: the context of a
\* route that is gone makes StateWidget.of throw, and nothing is pushed.
Pushes(c, page) ==
    routes' = IF calls[c].at # 0 THEN Append(routes, page) ELSE routes

\* Mutant: only the sign-in that signs somebody in leads home.
LoginReturnsIfNew(c) ==
    IF state'.isSignedIn /\ ~state.isSignedIn THEN Pushes(c, "home") ELSE UNCHANGED routes

\* After its await a login button pushes the home page if somebody is signed in.
LoginReturns(c) ==
    IF state'.isSignedIn THEN Pushes(c, "home") ELSE UNCHANGED routes

\* Taps on the login page and on the profile's button, one call per free slot.
Tap(c, page, call) ==
    /\ calls[c] = None
    /\ Top = page
    /\ page = "login" => Depth + Cardinality({d \in TapIds : calls[d] # None}) < MaxDepth
    /\ calls' = [calls EXCEPT ![c] = call]
    /\ UNCHANGED <<state, googleAccount, routes, native>>

\* An account chosen once is used again without asking.
TapGoogle(c) ==
    Tap(c, "login", IF googleAccount = Null
                    THEN NewCall("google", "picker", Null, Depth)
                    ELSE NewCall("google", "auth", googleAccount, Depth))

TapTwitter(c, a) == Tap(c, "login", NewCall("twitter", "auth", a, Depth))

TapEmail(c, a) == Tap(c, "login", NewCall("email", "auth", a, Depth))

TapSignUp(c, a) == Tap(c, "login", NewCall("signup", "auth", a, Depth))

\* The profile's button calls the sign-out of the type.
TapLogout(c) ==
    /\ state.type # "unset"
    /\ Tap(c, "home", NewCall(IF state.type = "google" THEN "googleLogout" ELSE "logout",
                              "out", Null, Depth))

\* The calls made from routes that are removed go on, without their context.
Orphaned == [d \in Slots |-> IF calls[d] = None THEN None ELSE [calls[d] EXCEPT !.at = 0]]

\* With no type set none of the three is called.
TapLogoutUnset ==
    /\ Top = "home"
    /\ state.type = "unset" /\ ~state.isSignedIn
    /\ routes' = <<"login">>
    /\ calls' = Orphaned
    /\ UNCHANGED <<state, googleAccount, native>>
-----------------------------------------------------------------------------
(* Signing in.                                                             *)

\* initUser: signInSilently answers; an error counts as nobody.
SilentReturns(a) ==
    /\ At(boot, "silent")
    /\ a = googleUser \/ (MayFail /\ a = Null)
    /\ googleAccount' = a
    /\ IF a = Null
       THEN /\ state' = [state EXCEPT !.isLoading = FALSE]
            /\ Ends(boot)
       ELSE /\ calls' = [calls EXCEPT ![boot].pc = "auth", ![boot].acct = a]
            /\ UNCHANGED state
    /\ UNCHANGED <<routes, native>>

\* The Google account picker answers, or is cancelled: then handleSignInGoogle
\* is called with null and throws.
Picks(c, a) ==
    /\ At(c, "picker")
    /\ googleAccount' = a
    /\ IF a = Null
       THEN Ends(c) /\ UNCHANGED googleUser
       ELSE /\ calls' = [calls EXCEPT ![c].pc = "auth", ![c].acct = a]
            /\ googleUser' = a
    /\ UNCHANGED <<state, routes, authUser, mail>>

\* FirebaseAuth signs the account in, or creates it and signs it in.
AuthSignsIn(c) ==
    /\ At(c, "auth")
    /\ LET call == calls[c] IN
        /\ call.op = "email" => mail[call.acct] # "none"
        /\ call.op = "signup" => mail[call.acct] = "none"
        /\ authUser' = call.acct
        /\ mail' = IF call.op = "signup"
                   THEN [mail EXCEPT ![call.acct] = "unverified"] ELSE mail
        /\ calls' = [calls EXCEPT
              ![c].pc = IF call.op = "email" THEN "current" ELSE "resume",
              ![c].verified = (call.op = "email" => mail[call.acct] = "verified")]
    /\ UNCHANGED <<state, googleAccount, routes, googleUser>>

\* ... or refuses: no such account, the e-mail is taken, Twitter's page was left.
AuthRefuses(c) ==
    /\ At(c, "auth")
    /\ \/ calls[c].op = "email" /\ mail[calls[c].acct] = "none"
       \/ calls[c].op = "signup" /\ mail[calls[c].acct] # "none"
       \/ calls[c].op = "twitter"
    /\ Ends(c)
    /\ UNCHANGED <<state, googleAccount, routes, native>>

\* handleSignInEmail: auth.currentUser() answers; the assert alone looks at it.
CurrentReturns(c) ==
    /\ At(c, "current")
    /\ calls' = [calls EXCEPT ![c].pc = "resume",
                              ![c].current = IF Debug THEN authUser ELSE Null]
    /\ UNCHANGED <<state, googleAccount, routes, native>>

\* assert(user.uid == currentUser.uid)
AssertFails(c) == calls[c].op = "email" /\ calls[c].current # calls[c].acct

ResumeAsserted(c) ==
    /\ At(c, "resume")
    /\ Debug
    /\ AssertFails(c)
    /\ Ends(c)
    /\ UNCHANGED <<state, googleAccount, routes, native>>

\* The FirebaseUser is put into the state and its favourites are asked for, by
\* the uid the state has at that moment.
LoadsFor(c, a) ==
    /\ At(c, "resume")
    /\ calls[c].op \in {"init", "google", "email"}
    /\ calls[c].verified
    /\ ~(Debug /\ AssertFails(c))
    /\ state' = [state EXCEPT !.user = calls[c].acct]
    /\ calls' = [calls EXCEPT ![c].pc = "favorites", ![c].current = Null,
                              ![c].reading = a]
    /\ UNCHANGED <<googleAccount, routes, native>>

\* Mutant: by the uid FirebaseAuth has.
ResumeLoadingByAuth(c) == LoadsFor(c, authUser)

ResumeLoading(c) == LoadsFor(c, calls[c].acct)

\* signInWithEmail of an account whose e-mail is not verified: the user is put
\* into the state and taken out again.  FirebaseAuth stays signed in.
ResumeUnverified(c) ==
    /\ At(c, "resume")
    /\ ~calls[c].verified
    /\ ~(Debug /\ AssertFails(c))
    /\ state' = [state EXCEPT !.user = Null]
    /\ LoginReturns(c)
    /\ Ends(c)
    /\ UNCHANGED <<googleAccount, native>>

\* signInWithTwitter: no list is read.
TwitterSets(c, profile) ==
    /\ At(c, "resume")
    /\ calls[c].op = "twitter"
    /\ state' = [state EXCEPT !.isLoading = FALSE, !.isSignedIn = TRUE, !.type = "twitter",
                              !.user = calls[c].acct, !.uuser = profile]
    /\ LoginReturns(c)
    /\ Ends(c)
    /\ UNCHANGED <<googleAccount, native>>

\* Mutant: the profile is left as it was.
ResumeTwitterNoProfile(c) == TwitterSets(c, state.uuser)

ResumeTwitter(c) == TwitterSets(c, calls[c].acct)

\* signUpWithEmail: the state gets a user and a type, and nobody is signed in.
\* The records _userLogUp writes are not part of the session.
ResumeSignUp(c) ==
    /\ At(c, "resume")
    /\ calls[c].op = "signup"
    /\ state' = [state EXCEPT !.type = "email", !.user = calls[c].acct,
                              !.uuser = calls[c].acct]
    /\ Pushes(c, "login")
    /\ Ends(c)
    /\ UNCHANGED <<googleAccount, native>>

\* getFavorites answers, and getRecommended reads state.user again, which
\* throws when there is none.
FavoritesAre(c, a) ==
    /\ At(c, "favorites")
    /\ IF state.user = Null
       THEN Ends(c)
       ELSE calls' = [calls EXCEPT ![c].pc = "recommended",
                                   ![c].favorites = a,
                                   ![c].reading = state.user]
    /\ UNCHANGED <<state, googleAccount, routes, native>>

\* Mutant: the uid is looked up after the await.
FavoritesReturnLate(c) == FavoritesAre(c, state.user)

FavoritesReturn(c) == FavoritesAre(c, calls[c].reading)

\* getRecommended answers: the sign-in completes.  getIndex and loadUserInfo,
\* which it starts, look up a null e-mail and a null index: the documents with
\* fresh ids they read instead do not exist, and they throw before they assign.
RecommendedReturns(c) ==
    /\ At(c, "recommended")
    /\ LET call == calls[c] IN
        state' = [isLoading |-> FALSE, isSignedIn |-> TRUE,
                  type |-> IF call.op = "email" THEN "email" ELSE "google",
                  user |-> call.acct, uuser |-> call.acct,
                  favorites |-> call.favorites, recommended |-> call.reading]
    /\ LoginReturns(c)
    /\ Ends(c)
    /\ UNCHANGED <<googleAccount, native>>
-----------------------------------------------------------------------------
(* Signing out.                                                            *)

AuthSignsOut(c) ==
    /\ At(c, "out")
    /\ authUser' = Null
    /\ GoesTo(c, IF calls[c].op = "googleLogout" THEN "googleOut" ELSE "resume")
    /\ UNCHANGED <<state, googleAccount, routes, googleUser, mail>>

GoogleSignsOut(c) ==
    /\ At(c, "googleOut")
    /\ googleUser' = Null
    /\ GoesTo(c, "resume")
    /\ UNCHANGED <<state, googleAccount, routes, authUser, mail>>

\* The method clears its variables and a new StateModel replaces the old one.
\* The button, if its page is still there, then goes to the login page and
\* removes every other route.
SignsOutTo(c, cleared, leaves) ==
    /\ At(c, "resume")
    /\ calls[c].op \in Logouts
    /\ state' = cleared
    /\ googleAccount' = IF calls[c].op = "googleLogout" THEN Null ELSE googleAccount
    /\ IF calls[c].at # 0 /\ leaves
       THEN routes' = <<"login">> /\ calls' = [Orphaned EXCEPT ![c] = None]
       ELSE Ends(c) /\ UNCHANGED routes
    /\ UNCHANGED native

\* Mutants: the flag, or the lists, outlive the session; the type is cleared rather
\* than unset; the page stays.
LogoutKeepsFlag(c) ==
    SignsOutTo(c, [FreshState EXCEPT !.isSignedIn = state.isSignedIn], TRUE)

LogoutKeepsLists(c) ==
    SignsOutTo(c, [state EXCEPT !.isSignedIn = FALSE, !.type = "unset", !.user = Null,
                               !.uuser = Null], TRUE)

LogoutClearsType(c) == SignsOutTo(c, [FreshState EXCEPT !.type = Null], TRUE)

LogoutStays(c) == SignsOutTo(c, FreshState, FALSE)

ResumeLogout(c) == SignsOutTo(c, FreshState, TRUE)
-----------------------------------------------------------------------------
(* Everything else.                                                        *)

\* A native call or a read throws, before or after it had its effect.
Throws(c) ==
    /\ MayFail
    /\ calls[c] # None /\ calls[c].pc # "silent"
    /\ Ends(c)
    /\ UNCHANGED <<state, googleAccount, routes, native>>

\* Three seconds after its start the loading page makes way for another.
LoadingEndsWith(next) ==
    /\ Top = "loading"
    /\ SlowStart \/ calls[boot] = None
    /\ routes' = <<next>>
    /\ UNCHANGED <<state, googleAccount, calls, native>>

\* Mutant: the user alone decides.
LoadingEndsByUser == LoadingEndsWith(IF state.user # Null THEN "home" ELSE "login")

LoadingEnds ==
    LoadingEndsWith(IF state.user # Null /\ state.isSignedIn THEN "home" ELSE "login")

\* The system's back button.
Back ==
    /\ MayLeave
    /\ Depth > 1
    /\ routes' = SubSeq(routes, 1, Depth - 1)
    /\ calls' = [d \in Slots |-> IF calls[d] # None /\ calls[d].at = Depth
                                 THEN [calls[d] EXCEPT !.at = 0] ELSE calls[d]]
    /\ UNCHANGED <<state, googleAccount, native>>

\* Swiping between sign-in and sign-up, and choosing another tab than the profile,
\* unmounts what made the calls: their context is gone, the route is not.
LeaveSide(ops) ==
    /\ MayLeave
    /\ calls' = [d \in Slots |->
                    IF calls[d] # None /\ calls[d].at = Depth /\ calls[d].op \in ops
                    THEN [calls[d] EXCEPT !.at = 0] ELSE calls[d]]
    /\ UNCHANGED <<state, googleAccount, routes, native>>

\* The process is killed and started again: what the device keeps remains.
Restart ==
    /\ state' = LoadingState
    /\ googleAccount' = Null
    /\ calls' = BootCall
    /\ routes' = <<"loading">>
    /\ UNCHANGED native

\* The link in the verification message is followed.
Verify(a) ==
    /\ mail[a] = "unverified"
    /\ mail' = [mail EXCEPT ![a] = "verified"]
    /\ UNCHANGED <<state, googleAccount, calls, routes, authUser, googleUser>>

Taps(c) ==
    \/ TapGoogle(c)
    \/ \E a \in Accts : TapTwitter(c, a) \/ TapEmail(c, a) \/ TapSignUp(c, a)
    \/ TapLogout(c)

Steps(c) ==
    \/ AuthSignsIn(c)
    \/ AuthRefuses(c)
    \/ CurrentReturns(c)
    \/ ResumeAsserted(c)
    \/ ResumeLoading(c)
    \/ ResumeUnverified(c)
    \/ ResumeTwitter(c)
    \/ ResumeSignUp(c)
    \/ FavoritesReturn(c)
    \/ RecommendedReturns(c)
    \/ AuthSignsOut(c)
    \/ GoogleSignsOut(c)
    \/ ResumeLogout(c)
    \/ Throws(c)

Next ==
    \/ \E c \in TapIds : Taps(c)
    \/ \E c \in TapIds, a \in MaybeAcct : Picks(c, a)
    \/ \E c \in Slots : Steps(c)
    \/ \E a \in MaybeAcct : SilentReturns(a)
    \/ TapLogoutUnset
    \/ LoadingEnds
    \/ Back
    \/ \E ops \in {SignIns, {"signup"}, Logouts} : LeaveSide(ops)
    \/ Restart
    \/ \E a \in Accts : Verify(a)

Spec == Init /\ [][Next]_vars

\* Every native call answers, and so does the picker; the timer fires.
FairSpec ==
    /\ Spec
    /\ WF_vars(LoadingEnds)
    /\ WF_vars(\E a \in MaybeAcct : SilentReturns(a))
    /\ \A c \in Slots : WF_vars(Steps(c))
    /\ \A c \in TapIds : WF_vars(\E a \in MaybeAcct : Picks(c, a))
-----------------------------------------------------------------------------
(* Properties.                                                             *)

\* Every variable has its type.
TypeOK ==
    /\ state \in StateModel
    /\ googleAccount \in MaybeAcct
    /\ calls \in [Slots -> Call \cup {None}]
    /\ routes \in Seq(Pages) /\ routes # <<>>
    /\ authUser \in MaybeAcct /\ googleUser \in MaybeAcct
    /\ mail \in [Accts -> {"none", "unverified", "verified"}]

\* However sign-ins, sign-outs and sign-ups overlap, a state that says somebody
\* is signed in has a profile and a type and is not loading: HomePage and
\* ProfilePage read uuser, and Log out looks for the type.
SignedInHasProfile ==
    state.isSignedIn => /\ state.uuser # Null
                        /\ state.type # "unset"
                        /\ ~state.isLoading

\* Why it and the two below hold: a call past its choice of an account has one,
\* and reads the favourites of that account whatever becomes of the state.
CallsKeepTheirAccount ==
    \A c \in Slots : calls[c] # None =>
        LET call == calls[c] IN
        /\ call.op \in Logouts => call.pc \in {"out", "googleOut", "resume"}
        /\ call.op \notin Logouts /\ call.pc \notin {"silent", "picker"}
              => call.acct \in Accts
        /\ call.pc = "favorites" => call.reading = call.acct
        /\ call.pc = "recommended" => call.favorites = call.acct

\* Only one thing takes the user from a session that goes on: an e-mail sign-in
\* of an unverified account made over it (signInWithEmail).
UserLostOnlyToUnverified ==
    [][ (/\ state.isSignedIn /\ state.user # Null
         /\ state'.isSignedIn /\ state'.user = Null)
        => \E c \in Slots : At(c, "resume") /\ ~calls[c].verified ]_vars

\* The favourites a state is given are those of the user it is given with them,
\* although the read takes its uid from the shared state (getFavorites).
FavoritesComeWithTheirUser ==
    [][ state'.favorites # state.favorites
        => state'.favorites \in {Null, state'.user} ]_vars

\* One call at a time, a start that ends before the loading page does, nobody
\* going back to the login page: then the session is one account throughout,
\* its user, profile and lists agree with FirebaseAuth, which at worst has
\* signed out ahead of a Log out that failed half-way.  Twitter loads no lists.
SessionConsistent ==
    state.isSignedIn =>
        /\ state.uuser = state.user
        /\ authUser \in {state.user, Null}
        /\ LET lists == IF state.type = "twitter" THEN Null ELSE state.user
           IN  state.favorites = lists /\ state.recommended = lists

\* ... the home page is never on the screen without somebody signed in, and the
\* login page is on it only when nobody is.
PagesMatchSession ==
    /\ Top = "home" => state.isSignedIn
    /\ Top = "login" => ~state.isSignedIn

\* A sign-in that FirebaseAuth has made ends on the home page, also one made while the
\* start's own call is still out and signs somebody in behind the login page: with one
\* tap at a time, unless its module is left or the process killed meanwhile
\* (loadingPage.dart 22-44, signInModule.dart 284-294).
SignInReachesHome ==
    \A c \in TapIds :
        (/\ calls[c] # None /\ calls[c].op \in SignIns /\ calls[c].verified
         /\ calls[c].pc \in {"current", "resume", "favorites", "recommended"})
        ~> \/ Top = "home" /\ state.isSignedIn
           \/ Top = "loading"
           \/ calls[c] # None /\ calls[c].at = 0

\* Log out ends with nobody signed in and the home page gone, for a user who waits
\* for it on the profile: when the tab is left or swiped away in the meantime the
\* call has lost the context it would navigate with (profilePage.dart 316-329).
LogoutCompletes ==
    \A c \in TapIds :
        (calls[c] # None /\ calls[c].op \in Logouts)
        ~> \/ Top # "home" /\ ~state.isSignedIn
           \/ calls[c] # None /\ calls[c].at = 0

\* assert(user.uid == currentUser.uid) (auth.dart 37).
AssertHolds ==
    \A c \in Slots : At(c, "resume") => ~AssertFails(c)
=============================================================================
