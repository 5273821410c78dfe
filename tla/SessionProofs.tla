---------------------------- MODULE SessionProofs ----------------------------
(***************************************************************************)
(* Type correctness of the session, and what holds of it however its calls *)
(* overlap, for every number of accounts and calls.                        *)
(***************************************************************************)
EXTENDS Session, TLAPS

\* What a step may do to one slot: the others keep their call.
LEMMA SlotChange ==
  ASSUME TypeOK, NEW c \in Slots, NEW r \in Call \cup {None},
         calls' = [calls EXCEPT ![c] = r]
  PROVE  /\ calls' \in [Slots -> Call \cup {None}]
         /\ calls'[c] = r
         /\ \A d \in Slots \ {c} : calls'[d] = calls[d]
BY DEF TypeOK

LEMMA NewCallType ==
  ASSUME NEW op \in {"init", "google", "email", "twitter", "signup",
                     "logout", "googleLogout"},
         NEW pc \in {"silent", "picker", "auth", "out"},
         NEW a \in MaybeAcct, NEW n \in Nat
  PROVE  NewCall(op, pc, a, n) \in Call
BY DEF NewCall, Call, MaybeAcct

LEMMA OrphanedType == TypeOK => Orphaned \in [Slots -> Call \cup {None}]
BY DEF TypeOK, Orphaned, Call

LEMMA PushesType ==
  ASSUME TypeOK, NEW c \in Slots, NEW page \in Pages,
         Pushes(c, page) \/ UNCHANGED routes
  PROVE  routes' \in Seq(Pages) /\ routes' # <<>>
<1>1. CASE routes' = Append(routes, page)
  <2>1. routes' \in Seq(Pages) /\ Len(routes') = Len(routes) + 1
    BY <1>1 DEF TypeOK
  <2>2. Len(routes') # 0
    BY <2>1 DEF TypeOK
  <2>3. QED
    BY <2>1, <2>2
<1>2. CASE routes' = routes
  BY <1>2 DEF TypeOK
<1>3. QED
  BY <1>1, <1>2 DEF Pushes

\* What is left when the last of at least two routes is popped.
LEMMA PopType ==
  ASSUME NEW s \in Seq(Pages), Len(s) >= 2
  PROVE  SubSeq(s, 1, Len(s) - 1) \in Seq(Pages) /\ SubSeq(s, 1, Len(s) - 1) # <<>>
<1>1. /\ SubSeq(s, 1, Len(s) - 1) \in Seq(Pages)
      /\ Len(SubSeq(s, 1, Len(s) - 1)) = Len(s) - 1
  BY SMT
<1>2. Len(s) \in Nat
  OBVIOUS
<1>3. \A n \in Nat : n >= 2 => n - 1 # 0
  OBVIOUS
<1>4. Len(s) - 1 # 0
  BY <1>2, <1>3, Zenon
<1>5. QED
  BY <1>1, <1>4

LEMMA BootType ==
  /\ BootCall \in [Slots -> Call \cup {None}]
  /\ LoadingState \in StateModel /\ FreshState \in StateModel
  /\ <<"loading">> \in Seq(Pages) /\ <<"loading">> # <<>>
  /\ <<"login">> \in Seq(Pages) /\ <<"login">> # <<>>
  /\ <<"home">> \in Seq(Pages) /\ <<"home">> # <<>>
<1>1. BootCall \in [Slots -> Call \cup {None}]
  BY NewCallType DEF BootCall, MaybeAcct
<1>2. LoadingState \in StateModel /\ FreshState \in StateModel
  BY DEF LoadingState, FreshState, StateModel, MaybeAcct, Types
<1>3. QED
  BY <1>1, <1>2 DEF Pages
-----------------------------------------------------------------------------
(* Type correctness.                                                       *)

LEMMA TypeInit == Init => TypeOK
  BY BootType DEF Init, TypeOK, MaybeAcct

LEMMA TapType ==
  ASSUME TypeOK, NEW c \in Slots, NEW page, NEW call \in Call, Tap(c, page, call)
  PROVE  TypeOK'
<1>1. calls' \in [Slots -> Call \cup {None}]
  BY DEF Tap, TypeOK
<1>2. QED
  BY <1>1 DEF Tap, TypeOK, native

\* The four kinds of tap on the login page and the one on the home page.
LEMMA TapsType ==
  ASSUME TypeOK, NEW c \in TapIds, Taps(c)
  PROVE  TypeOK'
<1>1. Depth \in Nat /\ c \in Slots /\ Null \in MaybeAcct
  BY DEF TypeOK, Depth, Slots, MaybeAcct
<1>2. CASE TapGoogle(c)
  <2>1. googleAccount \in MaybeAcct
    BY DEF TypeOK
  <2>2. \A call \in {NewCall("google", "picker", Null, Depth),
                     NewCall("google", "auth", googleAccount, Depth)} : call \in Call
    BY <1>1, <2>1, NewCallType
  <2>3. QED
    BY <1>1, <1>2, <2>2, TapType DEF TapGoogle
<1>3. ASSUME NEW a \in Accts, TapTwitter(c, a) \/ TapEmail(c, a) \/ TapSignUp(c, a)
      PROVE  TypeOK'
  <2>1. a \in MaybeAcct
    BY DEF MaybeAcct
  <2>2. \A op \in {"twitter", "email", "signup"} : NewCall(op, "auth", a, Depth) \in Call
    BY <1>1, <2>1, NewCallType
  <2>3. QED
    BY <1>1, <1>3, <2>2, TapType DEF TapTwitter, TapEmail, TapSignUp
<1>4. CASE TapLogout(c)
  <2>1. \A op \in Logouts : NewCall(op, "out", Null, Depth) \in Call
    BY <1>1, NewCallType DEF Logouts
  <2>2. QED
    BY <1>1, <1>4, <2>1, TapType DEF TapLogout, Logouts
<1>5. QED
  BY <1>2, <1>3, <1>4 DEF Taps

LEMMA StepsType ==
  ASSUME TypeOK, NEW c \in Slots, Steps(c)
  PROVE  TypeOK'
<1> USE DEF TypeOK, native, At, Ends, GoesTo
<1>a. ASSUME calls[c] # None
      PROVE  calls[c] \in Call
  BY <1>a
<1>1. CASE AuthSignsIn(c)
  <2>1. calls[c] \in Call
    BY <1>1, <1>a DEF AuthSignsIn
  <2>2. calls' \in [Slots -> Call \cup {None}]
    BY <1>1, <2>1 DEF AuthSignsIn, Call
  <2>3. mail' \in [Accts -> {"none", "unverified", "verified"}]
    BY <1>1 DEF AuthSignsIn
  <2>4. authUser' \in MaybeAcct
    BY <1>1, <2>1 DEF AuthSignsIn, Call
  <2>5. QED
    BY <1>1, <2>2, <2>3, <2>4 DEF AuthSignsIn
<1>2. CASE AuthRefuses(c) \/ ResumeAsserted(c) \/ Throws(c)
  BY <1>2 DEF AuthRefuses, ResumeAsserted, Throws
<1>3. CASE CurrentReturns(c)
  <2>1. calls' \in [Slots -> Call \cup {None}]
    BY <1>3, <1>a DEF CurrentReturns, Call, MaybeAcct
  <2>2. QED
    BY <1>3, <2>1 DEF CurrentReturns
<1>4. CASE ResumeLoading(c)
  <2>1. calls[c] \in Call /\ calls[c].acct \in MaybeAcct
    BY <1>4, <1>a DEF ResumeLoading, LoadsFor, Call
  <2>2. calls' \in [Slots -> Call \cup {None}]
    <3>1. [calls[c] EXCEPT !.pc = "favorites", !.current = Null,
                           !.reading = calls[c].acct] \in Call
      BY <2>1 DEF Call, MaybeAcct
    <3>2. QED
      BY <1>4, <3>1 DEF ResumeLoading, LoadsFor
  <2>3. state' \in StateModel
    BY <1>4, <2>1 DEF ResumeLoading, LoadsFor, StateModel
  <2>4. QED
    BY <1>4, <2>2, <2>3 DEF ResumeLoading, LoadsFor
<1>5. CASE ResumeUnverified(c)
  <2>1. state' \in StateModel
    BY <1>5 DEF ResumeUnverified, StateModel, MaybeAcct
  <2>2. routes' \in Seq(Pages) /\ routes' # <<>>
    BY <1>5, PushesType DEF ResumeUnverified, LoginReturns, Pages
  <2>3. QED
    BY <1>5, <2>1, <2>2 DEF ResumeUnverified
<1>6. CASE ResumeTwitter(c)
  <2>1. calls[c].acct \in MaybeAcct
    BY <1>6, <1>a DEF ResumeTwitter, TwitterSets, Call
  <2>2. state' \in StateModel
    BY <1>6, <2>1 DEF ResumeTwitter, TwitterSets, StateModel, Types
  <2>3. routes' \in Seq(Pages) /\ routes' # <<>>
    BY <1>6, PushesType DEF ResumeTwitter, TwitterSets, LoginReturns, Pages
  <2>4. QED
    BY <1>6, <2>2, <2>3 DEF ResumeTwitter, TwitterSets
<1>7. CASE ResumeSignUp(c)
  <2>1. calls[c].acct \in MaybeAcct
    BY <1>7, <1>a DEF ResumeSignUp, Call
  <2>2. state' \in StateModel
    BY <1>7, <2>1 DEF ResumeSignUp, StateModel, Types
  <2>3. routes' \in Seq(Pages) /\ routes' # <<>>
    BY <1>7, PushesType DEF ResumeSignUp, Pages
  <2>4. QED
    BY <1>7, <2>2, <2>3 DEF ResumeSignUp
<1>8. CASE FavoritesReturn(c)
  <2>1. calls[c] \in Call /\ state.user \in MaybeAcct
    BY <1>8, <1>a DEF FavoritesReturn, FavoritesAre, StateModel
  <2>2. calls' \in [Slots -> Call \cup {None}]
    BY <1>8, <2>1 DEF FavoritesReturn, FavoritesAre, Call
  <2>3. QED
    BY <1>8, <2>2 DEF FavoritesReturn, FavoritesAre
<1>9. CASE RecommendedReturns(c)
  <2>1. calls[c] \in Call
    BY <1>9, <1>a DEF RecommendedReturns
  <2>2. state' \in StateModel
    BY <1>9, <2>1 DEF RecommendedReturns, StateModel, Call, Types
  <2>3. routes' \in Seq(Pages) /\ routes' # <<>>
    BY <1>9, PushesType DEF RecommendedReturns, LoginReturns, Pages
  <2>4. QED
    BY <1>9, <2>2, <2>3 DEF RecommendedReturns
<1>10. CASE AuthSignsOut(c) \/ GoogleSignsOut(c)
  <2>1. PICK pc \in {"googleOut", "resume"} : calls' = [calls EXCEPT ![c].pc = pc]
    BY <1>10 DEF AuthSignsOut, GoogleSignsOut
  <2>2. calls[c] \in Call
    BY <1>10, <1>a DEF AuthSignsOut, GoogleSignsOut
  <2>3. [calls[c] EXCEPT !.pc = pc] \in Call
    BY <2>1, <2>2 DEF Call
  <2>4. calls' \in [Slots -> Call \cup {None}]
    BY <2>1, <2>3
  <2>5. authUser' \in MaybeAcct /\ googleUser' \in MaybeAcct
    BY <1>10 DEF AuthSignsOut, GoogleSignsOut, MaybeAcct
  <2>6. QED
    BY <1>10, <2>4, <2>5 DEF AuthSignsOut, GoogleSignsOut
<1>11. CASE ResumeLogout(c)
  <2>1. calls' \in [Slots -> Call \cup {None}]
    BY <1>11, OrphanedType DEF ResumeLogout, SignsOutTo
  <2>2. QED
    BY <1>11, <2>1, BootType DEF ResumeLogout, SignsOutTo, MaybeAcct
<1>12. QED
  BY <1>1, <1>2, <1>3, <1>4, <1>5, <1>6, <1>7, <1>8, <1>9, <1>10, <1>11 DEF Steps

LEMMA TypeNext == TypeOK /\ [Next]_vars => TypeOK'
<1> SUFFICES ASSUME TypeOK, [Next]_vars PROVE TypeOK'
  OBVIOUS
<1>1. ASSUME NEW c \in TapIds, NEW a \in MaybeAcct, Picks(c, a)
      PROVE  TypeOK'
  <2>1. calls' \in [Slots -> Call \cup {None}]
    BY <1>1 DEF Picks, At, Ends, TypeOK, Call, Slots
  <2>2. QED
    BY <1>1, <2>1 DEF Picks, TypeOK
<1>2. ASSUME NEW a \in MaybeAcct, SilentReturns(a)
      PROVE  TypeOK'
  <2>1. calls' \in [Slots -> Call \cup {None}]
    BY <1>2 DEF SilentReturns, At, Ends, TypeOK, Call, Slots
  <2>2. state' \in StateModel
    BY <1>2 DEF SilentReturns, TypeOK, StateModel
  <2>3. QED
    BY <1>2, <2>1, <2>2 DEF SilentReturns, TypeOK, native
<1>3. CASE TapLogoutUnset
  BY <1>3, OrphanedType, BootType DEF TapLogoutUnset, TypeOK, native
<1>4. CASE LoadingEnds
  BY <1>4, BootType DEF LoadingEnds, LoadingEndsWith, TypeOK, native
<1>5. CASE Back
  <2>1. Len(routes) \in Nat /\ Len(routes) >= 2 /\ routes \in Seq(Pages)
    BY <1>5 DEF Back, Depth, TypeOK
  <2>2. routes' = SubSeq(routes, 1, Len(routes) - 1)
    BY <1>5 DEF Back, Depth
  <2>3. routes' \in Seq(Pages) /\ routes' # <<>>
    BY <2>1, <2>2, PopType
  <2>4. calls' \in [Slots -> Call \cup {None}]
    <3>1. \A call \in Call : [call EXCEPT !.at = 0] \in Call
      BY DEF Call
    <3>2. QED
      BY <1>5, <3>1 DEF Back, TypeOK
  <2>5. QED
    BY <1>5, <2>3, <2>4 DEF Back, TypeOK, native
<1>6. CASE Restart
  BY <1>6, BootType DEF Restart, TypeOK, native, MaybeAcct
<1>7. ASSUME NEW a \in Accts, Verify(a)
      PROVE  TypeOK'
  BY <1>7 DEF Verify, TypeOK
<1>8. ASSUME NEW ops, LeaveSide(ops)
      PROVE  TypeOK'
  <2>1. \A call \in Call : [call EXCEPT !.at = 0] \in Call
    BY DEF Call
  <2>2. QED
    BY <1>8, <2>1 DEF LeaveSide, TypeOK, native
<1>9. CASE UNCHANGED vars
  BY <1>9 DEF vars, native, TypeOK
<1>10. QED
  BY <1>1, <1>2, <1>3, <1>4, <1>5, <1>6, <1>7, <1>8, <1>9, TapsType, StepsType DEF Next

\* Every reachable state of the session is well typed.
THEOREM SessionTypeCorrect == Spec => []TypeOK
  BY TypeInit, TypeNext, PTL DEF Spec
-----------------------------------------------------------------------------
(* What a call keeps through its awaits, and the session with a profile.   *)

\* CallsKeepTheirAccount, for one call.
Keeps(call) ==
    /\ call.op \in Logouts => call.pc \in {"out", "googleOut", "resume"}
    /\ call.op \notin Logouts /\ call.pc \notin {"silent", "picker"} => call.acct \in Accts
    /\ call.pc = "favorites" => call.reading = call.acct
    /\ call.pc = "recommended" => call.favorites = call.acct

LEMMA KeepsIff ==
  CallsKeepTheirAccount <=> \A c \in Slots : calls[c] # None => Keeps(calls[c])
BY DEF CallsKeepTheirAccount, Keeps

\* It is enough to look at the calls a step changes.
LEMMA CallsKept ==
  ASSUME TypeOK, CallsKeepTheirAccount, NEW c \in Slots,
         \A d \in Slots \ {c} : calls'[d] = calls[d],
         calls'[c] # None => Keeps(calls'[c])
  PROVE  CallsKeepTheirAccount'
BY KeepsIff DEF CallsKeepTheirAccount, Keeps

\* Losing its route changes nothing that Keeps speaks of.
LEMMA CallsOrphaned ==
  ASSUME TypeOK, CallsKeepTheirAccount,
         \A d \in Slots : \/ calls'[d] = None
                          \/ calls[d] # None /\ calls'[d] = calls[d]
                          \/ calls[d] # None /\ calls'[d] = [calls[d] EXCEPT !.at = 0]
  PROVE  CallsKeepTheirAccount'
<1>1. \A call \in Call : Keeps(call) => Keeps([call EXCEPT !.at = 0])
  BY DEF Keeps, Call
<1>2. ASSUME NEW d \in Slots, calls'[d] # None
      PROVE  Keeps(calls'[d])
  <2>1. calls[d] # None
    BY <1>2
  <2>2. Keeps(calls[d])
    BY <2>1, KeepsIff
  <2>3. calls[d] \in Call
    BY <2>1 DEF TypeOK
  <2>4. QED
    BY <1>1, <1>2, <2>2, <2>3
<1>3. QED
  BY <1>2 DEF CallsKeepTheirAccount, Keeps

LEMMA KeepsInit == Init => CallsKeepTheirAccount
BY DEF Init, BootCall, NewCall, CallsKeepTheirAccount, Logouts

LEMMA KeepsTaps ==
  ASSUME TypeOK, CallsKeepTheirAccount, NEW c \in TapIds, Taps(c)
  PROVE  CallsKeepTheirAccount'
<1>1. c \in Slots
  BY DEF Slots
<1>2. ASSUME NEW page, NEW call, Tap(c, page, call), Keeps(call)
      PROVE  CallsKeepTheirAccount'
  <2>1. calls' = [calls EXCEPT ![c] = call]
    BY <1>2 DEF Tap
  <2>2. QED
    BY <1>1, <1>2, <2>1, CallsKept DEF TypeOK
<1>3. CASE TapGoogle(c)
  <2>1. /\ Keeps(NewCall("google", "picker", Null, Depth))
        /\ googleAccount # Null => Keeps(NewCall("google", "auth", googleAccount, Depth))
    BY DEF Keeps, NewCall, TypeOK, MaybeAcct, Logouts
  <2>2. QED
    BY <1>2, <1>3, <2>1 DEF TapGoogle
<1>4. ASSUME NEW a \in Accts, TapTwitter(c, a) \/ TapEmail(c, a) \/ TapSignUp(c, a)
      PROVE  CallsKeepTheirAccount'
  <2>1. \A op \in {"twitter", "email", "signup"} : Keeps(NewCall(op, "auth", a, Depth))
    BY DEF Keeps, NewCall, Logouts
  <2>2. QED
    BY <1>2, <1>4, <2>1 DEF TapTwitter, TapEmail, TapSignUp
<1>5. CASE TapLogout(c)
  <2>1. \A op \in Logouts : Keeps(NewCall(op, "out", Null, Depth))
    BY DEF Keeps, NewCall, Logouts
  <2>2. QED
    BY <1>2, <1>5, <2>1 DEF TapLogout, Logouts
<1>6. QED
  BY <1>3, <1>4, <1>5 DEF Taps

LEMMA KeepsSteps ==
  ASSUME TypeOK, CallsKeepTheirAccount, NEW c \in Slots, Steps(c)
  PROVE  CallsKeepTheirAccount'
<1>1. ASSUME calls[c] # None
      PROVE  calls[c] \in Call /\ Keeps(calls[c])
  BY <1>1, KeepsIff DEF TypeOK
<1>2. ASSUME Ends(c)
      PROVE  CallsKeepTheirAccount'
  <2>1. calls'[c] = None /\ \A d \in Slots \ {c} : calls'[d] = calls[d]
    BY <1>2 DEF Ends, TypeOK
  <2>2. QED
    BY <2>1, CallsKept
<1>3. ASSUME NEW r, calls' = [calls EXCEPT ![c] = r], Keeps(r)
      PROVE  CallsKeepTheirAccount'
  <2>1. calls'[c] = r /\ \A d \in Slots \ {c} : calls'[d] = calls[d]
    BY <1>3 DEF TypeOK
  <2>2. QED
    BY <1>3, <2>1, CallsKept
<1>4. CASE \/ AuthRefuses(c) \/ ResumeAsserted(c) \/ Throws(c) \/ ResumeUnverified(c)
           \/ ResumeTwitter(c) \/ ResumeSignUp(c) \/ RecommendedReturns(c)
  BY <1>2, <1>4 DEF AuthRefuses, ResumeAsserted, Throws, ResumeUnverified,
     ResumeTwitter, TwitterSets, ResumeSignUp, RecommendedReturns
<1>5. CASE AuthSignsIn(c)
  <2> DEFINE r == [calls[c] EXCEPT
           !.pc = IF calls[c].op = "email" THEN "current" ELSE "resume",
           !.verified = (calls[c].op = "email" => mail[calls[c].acct] = "verified")]
  <2>1. calls[c] \in Call /\ Keeps(calls[c]) /\ calls[c].pc = "auth"
    BY <1>1, <1>5 DEF AuthSignsIn, At
  <2>2. Keeps(r)
    BY <2>1 DEF Keeps, Call
  <2>3. calls' = [calls EXCEPT ![c] = r]
    BY <1>5, <2>1 DEF AuthSignsIn, TypeOK, Call
  <2>4. QED
    BY <1>3, <2>2, <2>3
<1>6. CASE CurrentReturns(c)
  <2> DEFINE r == [calls[c] EXCEPT !.pc = "resume",
                                   !.current = IF Debug THEN authUser ELSE Null]
  <2>1. calls[c] \in Call /\ Keeps(calls[c]) /\ calls[c].pc = "current"
    BY <1>1, <1>6 DEF CurrentReturns, At
  <2>2. Keeps(r)
    BY <2>1 DEF Keeps, Call
  <2>3. calls' = [calls EXCEPT ![c] = r]
    BY <1>6, <2>1 DEF CurrentReturns, TypeOK, Call
  <2>4. QED
    BY <1>3, <2>2, <2>3
<1>7. CASE ResumeLoading(c)
  <2> DEFINE r == [calls[c] EXCEPT !.pc = "favorites", !.current = Null,
                                   !.reading = calls[c].acct]
  <2>1. /\ calls[c] \in Call /\ Keeps(calls[c])
        /\ calls[c].pc = "resume" /\ calls[c].op \in {"init", "google", "email"}
    BY <1>1, <1>7 DEF ResumeLoading, LoadsFor, At
  <2>2. Keeps(r)
    BY <2>1 DEF Keeps, Call, Logouts
  <2>3. calls' = [calls EXCEPT ![c] = r]
    BY <1>7, <2>1 DEF ResumeLoading, LoadsFor, TypeOK, Call
  <2>4. QED
    BY <1>3, <2>2, <2>3
<1>8. CASE FavoritesReturn(c)
  <2> DEFINE r == [calls[c] EXCEPT !.pc = "recommended", !.favorites = calls[c].reading,
                                   !.reading = state.user]
  <2>1. calls[c] \in Call /\ Keeps(calls[c]) /\ calls[c].pc = "favorites"
    BY <1>1, <1>8 DEF FavoritesReturn, FavoritesAre, At
  <2>2. Keeps(r)
    BY <2>1 DEF Keeps, Call
  <2>3. calls' = [calls EXCEPT ![c] = r] \/ Ends(c)
    BY <1>8, <2>1 DEF FavoritesReturn, FavoritesAre, TypeOK, Call
  <2>4. QED
    BY <1>2, <1>3, <2>2, <2>3
<1>9. CASE AuthSignsOut(c) \/ GoogleSignsOut(c)
  <2>1. calls[c] \in Call /\ Keeps(calls[c]) /\ calls[c].pc \in {"out", "googleOut"}
    BY <1>1, <1>9 DEF AuthSignsOut, GoogleSignsOut, At
  <2>2. \A pc \in {"googleOut", "resume"} : Keeps([calls[c] EXCEPT !.pc = pc])
    BY <2>1 DEF Keeps, Call
  <2>3. \E pc \in {"googleOut", "resume"} :
            calls' = [calls EXCEPT ![c] = [calls[c] EXCEPT !.pc = pc]]
    BY <1>9 DEF AuthSignsOut, GoogleSignsOut, GoesTo, TypeOK
  <2>4. QED
    BY <1>3, <2>2, <2>3
<1>10. CASE ResumeLogout(c)
  <2>1. CASE Ends(c)
    BY <1>2, <2>1
  <2>2. CASE calls' = [Orphaned EXCEPT ![c] = None]
    BY <2>2, CallsOrphaned DEF Orphaned
  <2>3. QED
    BY <1>10, <2>1, <2>2 DEF ResumeLogout, SignsOutTo
<1>11. QED
  BY <1>4, <1>5, <1>6, <1>7, <1>8, <1>9, <1>10 DEF Steps

LEMMA KeepsNext == TypeOK /\ CallsKeepTheirAccount /\ [Next]_vars => CallsKeepTheirAccount'
<1> SUFFICES ASSUME TypeOK, CallsKeepTheirAccount, [Next]_vars
             PROVE  CallsKeepTheirAccount'
  OBVIOUS
<1>1. ASSUME NEW c \in Slots, NEW a \in MaybeAcct, Picks(c, a) \/ (c = boot /\ SilentReturns(a))
      PROVE  CallsKeepTheirAccount'
  <2> DEFINE r == [calls[c] EXCEPT !.pc = "auth", !.acct = a]
  <2>1. /\ calls[c] \in Call /\ Keeps(calls[c]) /\ calls[c].pc \in {"picker", "silent"}
        /\ \/ Ends(c)
           \/ a # Null /\ calls' = [calls EXCEPT ![c].pc = "auth", ![c].acct = a]
    BY <1>1, KeepsIff DEF Picks, SilentReturns, At, TypeOK
  <2>2. CASE Ends(c)
    BY <2>2, CallsKept DEF Ends, TypeOK
  <2>3. CASE a # Null /\ calls' = [calls EXCEPT ![c].pc = "auth", ![c].acct = a]
    <3>1. Keeps(r)
      BY <2>1, <2>3 DEF Keeps, Call, MaybeAcct
    <3>2. calls'[c] = r /\ \A d \in Slots \ {c} : calls'[d] = calls[d]
      BY <2>1, <2>3 DEF TypeOK, Call
    <3>3. QED
      BY <3>1, <3>2, CallsKept
  <2>4. QED
    BY <2>1, <2>2, <2>3
<1>2. CASE TapLogoutUnset
  BY <1>2, CallsOrphaned DEF TapLogoutUnset, Orphaned
<1>3. ASSUME Back \/ \E ops \in {SignIns, {"signup"}, Logouts} : LeaveSide(ops)
      PROVE  CallsKeepTheirAccount'
  BY <1>3, CallsOrphaned DEF Back, LeaveSide
<1>4. CASE Restart
  BY <1>4 DEF Restart, BootCall, NewCall, CallsKeepTheirAccount, Logouts
<1>5. CASE UNCHANGED calls
  BY <1>5 DEF CallsKeepTheirAccount
<1>6. QED
  BY <1>1, <1>2, <1>3, <1>4, <1>5, KeepsTaps, KeepsSteps
     DEF Next, Slots, LoadingEnds, LoadingEndsWith, Verify, vars

\* How a step may change the shared state.
LEMMA StateChange ==
  ASSUME TypeOK, CallsKeepTheirAccount, [Next]_vars
  PROVE  \/ state' = state
         \/ state' = FreshState
         \/ state' = LoadingState
         \/ state' = [state EXCEPT !.isLoading = FALSE]
         \/ \E a \in Accts : state' = [state EXCEPT !.user = a]
         \/ /\ \E c \in Slots : At(c, "resume") /\ ~calls[c].verified
            /\ state' = [state EXCEPT !.user = Null]
         \/ \E a \in Accts :
              state' = [state EXCEPT !.isLoading = FALSE, !.isSignedIn = TRUE,
                                     !.type = "twitter", !.user = a, !.uuser = a]
         \/ \E a \in Accts :
              state' = [state EXCEPT !.type = "email", !.user = a, !.uuser = a]
         \/ \E a \in Accts, t \in {"email", "google"}, r \in MaybeAcct :
              state' = [isLoading |-> FALSE, isSignedIn |-> TRUE, type |-> t,
                        user |-> a, uuser |-> a, favorites |-> a, recommended |-> r]
<1>1. ASSUME NEW c \in Slots, calls[c] # None
      PROVE  calls[c] \in Call /\ Keeps(calls[c])
  BY <1>1, KeepsIff DEF TypeOK
<1>2. ASSUME NEW c \in Slots, Steps(c), state' # state, state' # FreshState
      PROVE  \/ \E a \in Accts : state' = [state EXCEPT !.user = a]
             \/ /\ At(c, "resume") /\ ~calls[c].verified
                /\ state' = [state EXCEPT !.user = Null]
             \/ \E a \in Accts :
                  state' = [state EXCEPT !.isLoading = FALSE, !.isSignedIn = TRUE,
                                         !.type = "twitter", !.user = a, !.uuser = a]
             \/ \E a \in Accts :
                  state' = [state EXCEPT !.type = "email", !.user = a, !.uuser = a]
             \/ \E a \in Accts, t \in {"email", "google"}, r \in MaybeAcct :
                  state' = [isLoading |-> FALSE, isSignedIn |-> TRUE, type |-> t,
                            user |-> a, uuser |-> a, favorites |-> a, recommended |-> r]
  <2>1. CASE ResumeLoading(c)
    <3>1. calls[c].acct \in Accts
      BY <1>1, <2>1 DEF ResumeLoading, LoadsFor, At, Keeps, Logouts
    <3>2. QED
      BY <2>1, <3>1 DEF ResumeLoading, LoadsFor
  <2>2. CASE ResumeUnverified(c)
    BY <2>2 DEF ResumeUnverified
  <2>3. CASE ResumeTwitter(c)
    <3>1. calls[c].acct \in Accts
      BY <1>1, <2>3 DEF ResumeTwitter, TwitterSets, At, Keeps, Logouts
    <3>2. QED
      BY <2>3, <3>1 DEF ResumeTwitter, TwitterSets
  <2>4. CASE ResumeSignUp(c)
    <3>1. calls[c].acct \in Accts
      BY <1>1, <2>4 DEF ResumeSignUp, At, Keeps, Logouts
    <3>2. QED
      BY <2>4, <3>1 DEF ResumeSignUp
  <2>5. CASE RecommendedReturns(c)
    <3>1. /\ calls[c] \in Call /\ calls[c].acct \in Accts
          /\ calls[c].favorites = calls[c].acct /\ calls[c].reading \in MaybeAcct
      BY <1>1, <2>5 DEF RecommendedReturns, At, Keeps, Logouts, Call
    <3>2. QED
      BY <2>5, <3>1 DEF RecommendedReturns
  <2>6. CASE ResumeLogout(c)
    BY <1>2, <2>6 DEF ResumeLogout, SignsOutTo
  <2>7. QED
    BY <1>2, <2>1, <2>2, <2>3, <2>4, <2>5, <2>6
       DEF Steps, AuthSignsIn, AuthRefuses, CurrentReturns, ResumeAsserted,
           FavoritesReturn, FavoritesAre, AuthSignsOut, GoogleSignsOut, Throws
<1>3. ASSUME NEW c \in TapIds, Taps(c)
      PROVE  state' = state
  BY <1>3 DEF Taps, TapGoogle, TapTwitter, TapEmail, TapSignUp, TapLogout, Tap
<1>4. QED
  BY <1>2, <1>3 DEF Next, Picks, SilentReturns, TapLogoutUnset, LoadingEnds,
     LoadingEndsWith, Back, LeaveSide, Restart, Verify, vars

\* The same, field by field.
FieldsChange ==
    /\ \/ state'.isSignedIn = FALSE
       \/ /\ state'.isSignedIn = state.isSignedIn
          /\ state'.isLoading \in {state.isLoading, FALSE}
          /\ state'.type \in {state.type, "email"}
          /\ state'.uuser = state.uuser \/ state'.uuser \in Accts
       \/ /\ ~state'.isLoading
          /\ state'.type \in {"twitter", "email", "google"}
          /\ state'.uuser \in Accts
    /\ \/ state'.user \in Accts \cup {state.user}
       \/ state'.isSignedIn = FALSE
       \/ \E c \in Slots : At(c, "resume") /\ ~calls[c].verified
    /\ state'.favorites \in {state.favorites, Null, state'.user}

LEMMA FieldChange ==
  ASSUME TypeOK, CallsKeepTheirAccount, [Next]_vars
  PROVE  FieldsChange
<1>1. state \in StateModel
  BY DEF TypeOK
<1>2. CASE state' = state
  BY <1>2 DEF FieldsChange
<1>3. CASE state' = FreshState \/ state' = LoadingState
  <2>1. state'.isSignedIn = FALSE /\ state'.favorites = Null
    BY <1>3 DEF FreshState, LoadingState
  <2>2. QED
    BY <2>1 DEF FieldsChange
<1>4. CASE state' = [state EXCEPT !.isLoading = FALSE]
  <2>1. /\ state'.isSignedIn = state.isSignedIn /\ state'.isLoading = FALSE
        /\ state'.type = state.type /\ state'.uuser = state.uuser
        /\ state'.favorites = state.favorites /\ state'.user = state.user
    BY <1>1, <1>4 DEF StateModel
  <2>2. QED
    BY <2>1 DEF FieldsChange
<1>5. ASSUME NEW a \in MaybeAcct, state' = [state EXCEPT !.user = a],
             a = Null => \E c \in Slots : At(c, "resume") /\ ~calls[c].verified
      PROVE  FieldsChange
  <2>1. /\ state'.isSignedIn = state.isSignedIn /\ state'.isLoading = state.isLoading
        /\ state'.type = state.type /\ state'.uuser = state.uuser
        /\ state'.favorites = state.favorites /\ state'.user = a
    BY <1>1, <1>5 DEF StateModel
  <2>2. QED
    BY <1>5, <2>1 DEF FieldsChange, MaybeAcct
<1>6. ASSUME NEW a \in Accts,
             state' = [state EXCEPT !.type = "email", !.user = a, !.uuser = a]
      PROVE  FieldsChange
  <2>1. /\ state'.isSignedIn = state.isSignedIn /\ state'.isLoading = state.isLoading
        /\ state'.type = "email" /\ state'.uuser = a
        /\ state'.favorites = state.favorites /\ state'.user = a
    BY <1>1, <1>6 DEF StateModel
  <2>2. QED
    BY <2>1 DEF FieldsChange
<1>7. ASSUME NEW a \in Accts,
             state' = [state EXCEPT !.isLoading = FALSE, !.isSignedIn = TRUE,
                                    !.type = "twitter", !.user = a, !.uuser = a]
      PROVE  FieldsChange
  <2>1. /\ ~state'.isLoading /\ state'.type = "twitter" /\ state'.uuser = a
        /\ state'.favorites = state.favorites /\ state'.user = a
    BY <1>1, <1>7 DEF StateModel
  <2>2. QED
    BY <2>1 DEF FieldsChange
<1>8. ASSUME NEW a \in Accts, NEW t \in {"email", "google"}, NEW r \in MaybeAcct,
             state' = [isLoading |-> FALSE, isSignedIn |-> TRUE, type |-> t,
                       user |-> a, uuser |-> a, favorites |-> a, recommended |-> r]
      PROVE  FieldsChange
  BY <1>8 DEF FieldsChange
<1>9. CASE \E a \in Accts : state' = [state EXCEPT !.user = a]
  <2>1. PICK a \in Accts : state' = [state EXCEPT !.user = a]
    BY <1>9
  <2>2. a \in MaybeAcct /\ a # Null
    BY SessionAssumption DEF MaybeAcct
  <2>3. QED
    BY <1>5, <2>1, <2>2
<1>10. CASE /\ \E c \in Slots : At(c, "resume") /\ ~calls[c].verified
            /\ state' = [state EXCEPT !.user = Null]
  BY <1>5, <1>10 DEF MaybeAcct
<1>11. QED
  BY <1>2, <1>3, <1>4, <1>6, <1>7, <1>8, <1>9, <1>10, StateChange

LEMMA ProfileInit == Init => SignedInHasProfile
BY DEF Init, LoadingState, FreshState, SignedInHasProfile

LEMMA ProfileNext ==
  TypeOK /\ CallsKeepTheirAccount /\ SignedInHasProfile /\ [Next]_vars
    => SignedInHasProfile'
<1> SUFFICES ASSUME TypeOK, CallsKeepTheirAccount, SignedInHasProfile, [Next]_vars
             PROVE  SignedInHasProfile'
  OBVIOUS
<1>1. Null \notin Accts
  BY SessionAssumption
<1>2. QED
  BY <1>1, FieldChange DEF FieldsChange, SignedInHasProfile

\* Whatever overlaps, a session has a profile and a type and is not loading, and
\* each call keeps the account it is for.
THEOREM SessionHasProfile == Spec => [](SignedInHasProfile /\ CallsKeepTheirAccount)
  BY TypeInit, TypeNext, KeepsInit, KeepsNext, ProfileInit, ProfileNext, PTL DEF Spec

\* Whatever overlaps, only an unverified e-mail sign-in takes the user from a
\* session that goes on.
THEOREM SessionUserLoss == Spec => UserLostOnlyToUnverified
<1> DEFINE Loss == /\ state.isSignedIn /\ state.user # Null
                   /\ state'.isSignedIn /\ state'.user = Null
           Reason == \E c \in Slots : At(c, "resume") /\ ~calls[c].verified
<1>1. TypeOK /\ CallsKeepTheirAccount /\ [Next]_vars => [Loss => Reason]_vars
  <2> SUFFICES ASSUME TypeOK, CallsKeepTheirAccount, [Next]_vars, Loss
               PROVE  Reason
    OBVIOUS
  <2>1. Null \notin Accts
    BY SessionAssumption
  <2>2. QED
    BY <2>1, FieldChange DEF FieldsChange
<1>2. QED
  BY TypeInit, TypeNext, KeepsInit, KeepsNext, <1>1, PTL
     DEF Spec, UserLostOnlyToUnverified

\* Whatever overlaps, a state that gets favourites gets its own user's.
THEOREM SessionOwnFavorites == Spec => FavoritesComeWithTheirUser
<1> DEFINE Own == state'.favorites # state.favorites
                    => state'.favorites \in {Null, state'.user}
<1>1. TypeOK /\ CallsKeepTheirAccount /\ [Next]_vars => [Own]_vars
  <2> SUFFICES ASSUME TypeOK, CallsKeepTheirAccount, [Next]_vars
               PROVE  Own
    OBVIOUS
  <2>1. QED
    BY FieldChange DEF FieldsChange
<1>2. QED
  BY TypeInit, TypeNext, KeepsInit, KeepsNext, <1>1, PTL
     DEF Spec, FavoritesComeWithTheirUser
-----------------------------------------------------------------------------
(* One call at a time: then the session is one account throughout.         *)

\* One tap at a time, a start-up that ends before its loading page does, and nobody
\* leaving the page that waits.
OneAtATime ==
    /\ \A c, d \in TapIds : c = d
    /\ ~SlowStart
    /\ ~MayLeave

\* A call is out only on the page it was made from.
CallsOnTheirPage ==
    /\ calls[boot] # None => Top = "loading" /\ calls[boot].op = "init"
    /\ Top = "loading" => \A c \in TapIds : calls[c] = None
    /\ \A c \in TapIds : calls[c] # None =>
          /\ calls[c].at # 0
          /\ calls[c].op # "init"
          /\ calls[c].op \in SignIns \cup {"signup"} => Top = "login"
          /\ calls[c].op \in Logouts => Top = "home"

\* The pages that need a session have it, and nothing of it is left without it.
SessionIsWhole ==
    /\ state.isSignedIn => /\ state.user # Null
                           /\ Top \in {"home", "loading"}
                           /\ calls[boot] = None
    /\ ~state.isSignedIn => /\ state.favorites = Null /\ state.recommended = Null
                            /\ Top # "home"

\* A sign-in is for the account FirebaseAuth has, and then for the one the state has;
\* a sign-out does not go the way of an unverified e-mail.
SignsInOne(call, auth, user) ==
    /\ call.op \in Logouts => call.verified
    /\ call.op \notin Logouts =>
        /\ call.pc \notin {"out", "googleOut"}
        /\ call.pc \in {"current", "resume", "favorites", "recommended"} => auth = call.acct
        /\ call.pc = "favorites" => user = call.acct
        /\ call.pc = "recommended" => call.reading = call.acct

SignInsAgree == \A c \in Slots : calls[c] # None => SignsInOne(calls[c], authUser, state.user)

OneAccount == CallsOnTheirPage /\ SessionIsWhole /\ SignInsAgree /\ SessionConsistent

SessionInv == TypeOK /\ CallsKeepTheirAccount /\ OneAccount

\* The one call there is.
LEMMA OnlyCall ==
  ASSUME SessionInv, OneAtATime, NEW c \in Slots, calls[c] # None
  PROVE  /\ calls[c] \in Call /\ Keeps(calls[c])
         /\ SignsInOne(calls[c], authUser, state.user)
         /\ \A d \in Slots : d # c => calls[d] = None
         /\ calls[c].op \notin Logouts =>
               /\ ~state.isSignedIn
               /\ \/ c = boot /\ Top = "loading" /\ calls[c].op = "init"
                  \/ c # boot /\ Top = "login" /\ calls[c].at # 0
         /\ calls[c].op \in Logouts => c # boot /\ Top = "home" /\ calls[c].at # 0
<1>1. calls[c] \in Call /\ Keeps(calls[c])
  BY KeepsIff DEF SessionInv, TypeOK
<1>2. SignsInOne(calls[c], authUser, state.user)
  BY DEF SessionInv, OneAccount, SignInsAgree
<1>3. c = boot \/ c \in TapIds
  BY DEF Slots
<1>4. \A d \in Slots : d # c => calls[d] = None
  BY <1>3 DEF SessionInv, OneAccount, CallsOnTheirPage, OneAtATime, Slots, SignIns, Logouts, Call, TypeOK
<1>5. calls[c].op \in SignIns \cup {"signup", "init"} <=> calls[c].op \notin Logouts
  BY <1>1 DEF Call, SignIns, Logouts
<1>6. state.isSignedIn => Top \in {"home", "loading"} /\ calls[boot] = None
  BY DEF SessionInv, OneAccount, SessionIsWhole
<1>7. CASE c = boot
  BY <1>1, <1>2, <1>4, <1>6, <1>7 DEF SessionInv, OneAccount, CallsOnTheirPage, Logouts
<1>8. CASE c \in TapIds
  <2>1. c # boot
    BY <1>8, SessionAssumption
  <2>2. /\ calls[c].at # 0 /\ calls[c].op # "init"
        /\ calls[c].op \in SignIns \cup {"signup"} => Top = "login"
        /\ calls[c].op \in Logouts => Top = "home"
    BY <1>8 DEF SessionInv, OneAccount, CallsOnTheirPage
  <2>3. QED
    BY <1>1, <1>2, <1>4, <1>5, <1>6, <2>1, <2>2
<1>9. QED
  BY <1>3, <1>7, <1>8

\* The call goes on or ends, and the page stays.
LEMMA CallGoesOn ==
  ASSUME SessionInv, OneAtATime, NEW c \in Slots, calls[c] # None,
         NEW r \in Call \cup {None}, calls' = [calls EXCEPT ![c] = r],
         r # None => /\ r.op = calls[c].op /\ r.at = calls[c].at
                     /\ SignsInOne(r, authUser', state'.user),
         UNCHANGED routes,
         \/ state' = state
         \/ /\ ~state.isSignedIn /\ ~state'.isSignedIn
            /\ state'.favorites = state.favorites /\ state'.recommended = state.recommended,
         state.isSignedIn => authUser' \in {authUser, Null}
  PROVE  OneAccount'
<1>1. /\ \A d \in Slots : d # c => calls[d] = None
      /\ calls[c].op \in Logouts => c # boot
  BY OnlyCall
<1>2. /\ calls'[c] = r
      /\ \A d \in Slots : d # c => calls'[d] = None
  BY <1>1 DEF SessionInv, TypeOK
<1>3. Top' = Top
  BY DEF Top, Depth
<1>4. boot \in Slots /\ (\A d \in TapIds : d \in Slots)
  BY DEF Slots
<1>5. CallsOnTheirPage'
  BY <1>2, <1>3, <1>4 DEF SessionInv, OneAccount, CallsOnTheirPage
<1>6. SessionIsWhole'
  BY <1>2, <1>3, <1>4 DEF SessionInv, OneAccount, SessionIsWhole
<1>7. SignInsAgree'
  BY <1>2 DEF SignInsAgree
<1>8. SessionConsistent'
  BY DEF SessionInv, OneAccount, SessionConsistent
<1>9. QED
  BY <1>5, <1>6, <1>7, <1>8 DEF OneAccount

\* The pages after a push.
LEMMA TopPushed ==
  ASSUME TypeOK, NEW page \in Pages, routes' = Append(routes, page)
  PROVE  Top' = page
BY DEF TypeOK, Top, Depth

\* A sign-in completes for its account, and a login button goes home.
LEMMA SignInCompletes ==
  ASSUME SessionInv, OneAtATime, NEW c \in Slots, calls[c] # None,
         calls[c].op \notin Logouts, Ends(c), LoginReturns(c),
         state'.isSignedIn, state'.user = calls[c].acct, state'.uuser = calls[c].acct,
         calls[c].acct \in Accts, authUser' = calls[c].acct,
         LET lists == IF state'.type = "twitter" THEN Null ELSE calls[c].acct
         IN  state'.favorites = lists /\ state'.recommended = lists
  PROVE  OneAccount'
<1>1. /\ \A d \in Slots : d # c => calls[d] = None
      /\ \/ c = boot /\ Top = "loading" /\ calls[c].op = "init"
         \/ c # boot /\ Top = "login" /\ calls[c].at # 0
  BY OnlyCall
<1>2. \A d \in Slots : calls'[d] = None
  BY <1>1 DEF SessionInv, TypeOK, Ends
<1>3. Top' \in {"home", "loading"}
  <2>1. CASE routes' = Append(routes, "home")
    <3>1. TypeOK /\ "home" \in Pages
      BY DEF SessionInv, Pages
    <3>2. Top' = "home"
      BY <2>1, <3>1, TopPushed
    <3>3. QED
      BY <3>2
  <2>2. CASE routes' = routes /\ calls[c].at = 0
    <3>1. Top' = Top
      BY <2>2 DEF Top, Depth
    <3>2. QED
      BY <1>1, <2>2, <3>1
  <2>3. QED
    BY <2>1, <2>2 DEF LoginReturns, Pushes
<1>4. boot \in Slots /\ (\A d \in TapIds : d \in Slots)
  BY DEF Slots
<1>5. CallsOnTheirPage' /\ SignInsAgree'
  BY <1>2, <1>4 DEF CallsOnTheirPage, SignInsAgree
<1>6. SessionIsWhole'
  BY <1>2, <1>3, <1>4, SessionAssumption DEF SessionIsWhole
<1>7. SessionConsistent'
  BY DEF SessionConsistent
<1>8. QED
  BY <1>5, <1>6, <1>7 DEF OneAccount

\* Nobody is signed in and no call is out, on a page that may be so.
LEMMA NobodyIsIn ==
  ASSUME \A d \in Slots : calls'[d] = None,
         ~state'.isSignedIn, state'.favorites = Null, state'.recommended = Null, Top' # "home"
  PROVE  OneAccount'
<1>1. boot \in Slots /\ (\A d \in TapIds : d \in Slots)
  BY DEF Slots
<1>2. CallsOnTheirPage' /\ SignInsAgree' /\ SessionIsWhole' /\ SessionConsistent'
  BY <1>1 DEF CallsOnTheirPage, SignInsAgree, SessionIsWhole, SessionConsistent
<1>3. QED
  BY <1>2 DEF OneAccount

LEMMA OneAccountSteps ==
  ASSUME SessionInv, OneAtATime, NEW c \in Slots, Steps(c)
  PROVE  OneAccount'
<1>1. calls[c] # None
  BY DEF Steps, AuthSignsIn, AuthRefuses, CurrentReturns, ResumeAsserted, ResumeLoading,
         LoadsFor, ResumeUnverified, ResumeTwitter, TwitterSets, ResumeSignUp,
         FavoritesReturn, FavoritesAre, RecommendedReturns, AuthSignsOut, GoogleSignsOut,
         ResumeLogout, SignsOutTo, Throws, At
<1>2. /\ calls[c] \in Call /\ Keeps(calls[c])
      /\ SignsInOne(calls[c], authUser, state.user)
      /\ \A d \in Slots : d # c => calls[d] = None
      /\ calls[c].op \notin Logouts =>
            /\ ~state.isSignedIn
            /\ \/ c = boot /\ Top = "loading" /\ calls[c].op = "init"
               \/ c # boot /\ Top = "login" /\ calls[c].at # 0
      /\ calls[c].op \in Logouts => c # boot /\ Top = "home" /\ calls[c].at # 0
  BY <1>1, OnlyCall
<1>3. /\ TypeOK /\ state \in StateModel /\ routes \in Seq(Pages)
      /\ calls \in [Slots -> Call \cup {None}]
  BY DEF SessionInv, TypeOK
<1>4. ASSUME Ends(c), UNCHANGED <<state, routes, authUser>>
      PROVE  OneAccount'
  BY <1>1, <1>4, CallGoesOn DEF Ends
<1>5. ASSUME NEW r \in Call, calls' = [calls EXCEPT ![c] = r],
             r.op = calls[c].op, r.at = calls[c].at, SignsInOne(r, authUser', state'.user),
             UNCHANGED <<state, routes>>,
             state.isSignedIn => authUser' \in {authUser, Null}
      PROVE  OneAccount'
  BY <1>1, <1>5, CallGoesOn, NoneIsNoCall
<1>6. CASE AuthRefuses(c) \/ ResumeAsserted(c) \/ Throws(c)
  BY <1>4, <1>6 DEF AuthRefuses, ResumeAsserted, Throws, native
<1>7. CASE AuthSignsIn(c)
  <2> DEFINE r == [calls[c] EXCEPT
              !.pc = IF calls[c].op = "email" THEN "current" ELSE "resume",
              !.verified = (calls[c].op = "email" => mail[calls[c].acct] = "verified")]
  <2>1. calls[c].pc = "auth" /\ calls[c].op \notin Logouts
    BY <1>2, <1>7 DEF AuthSignsIn, At, Keeps
  <2>2. calls' = [calls EXCEPT ![c] = r] /\ authUser' = calls[c].acct /\ UNCHANGED <<state, routes>>
    BY <1>3, <1>7 DEF AuthSignsIn
  <2>3. /\ r \in Call /\ r.op = calls[c].op /\ r.at = calls[c].at /\ r.acct = calls[c].acct
        /\ r.pc \in {"current", "resume"}
    BY <1>2 DEF Call
  <2> HIDE DEF r
  <2>4. QED
    BY <1>2, <1>5, <2>1, <2>2, <2>3 DEF SignsInOne
<1>8. CASE CurrentReturns(c)
  <2> DEFINE r == [calls[c] EXCEPT !.pc = "resume",
                                   !.current = IF Debug THEN authUser ELSE Null]
  <2>1. calls[c].pc = "current"
    BY <1>8 DEF CurrentReturns, At
  <2>2. calls' = [calls EXCEPT ![c] = r] /\ UNCHANGED <<state, routes, authUser>>
    BY <1>3, <1>8 DEF CurrentReturns, native
  <2>3. /\ r \in Call /\ r.op = calls[c].op /\ r.at = calls[c].at /\ r.acct = calls[c].acct
        /\ r.pc = "resume"
    BY <1>2, <1>3 DEF Call, TypeOK, MaybeAcct
  <2> HIDE DEF r
  <2>4. r.verified = calls[c].verified
    BY <1>2 DEF r, Call
  <2>5. QED
    BY <1>2, <1>5, <2>1, <2>2, <2>3, <2>4 DEF SignsInOne
<1>9. CASE ResumeLoading(c)
  <2> DEFINE r == [calls[c] EXCEPT !.pc = "favorites", !.current = Null,
                                   !.reading = calls[c].acct]
  <2>1. calls[c].pc = "resume" /\ calls[c].op \notin Logouts
    BY <1>9 DEF ResumeLoading, LoadsFor, At, Logouts
  <2>2. /\ calls' = [calls EXCEPT ![c] = r] /\ UNCHANGED <<routes, authUser>>
        /\ state' = [state EXCEPT !.user = calls[c].acct]
    BY <1>3, <1>9 DEF ResumeLoading, LoadsFor, native
  <2>3. /\ r \in Call /\ r.op = calls[c].op /\ r.at = calls[c].at /\ r.acct = calls[c].acct
        /\ r.pc = "favorites"
    BY <1>2 DEF Call, MaybeAcct
  <2>4. /\ state'.isSignedIn = state.isSignedIn /\ state'.user = calls[c].acct
        /\ state'.favorites = state.favorites /\ state'.recommended = state.recommended
    BY <1>3, <2>2 DEF StateModel
  <2> HIDE DEF r
  <2>5. SignsInOne(r, authUser', state'.user)
    BY <1>2, <2>1, <2>2, <2>3, <2>4 DEF SignsInOne
  <2>6. QED
    BY <1>1, <1>2, <2>1, <2>2, <2>3, <2>4, <2>5, CallGoesOn
<1>10. CASE ResumeUnverified(c)
  <2>1. calls[c].pc = "resume"
    BY <1>10 DEF ResumeUnverified, At
  <2>2. /\ state' = [state EXCEPT !.user = Null] /\ Ends(c) /\ LoginReturns(c)
        /\ UNCHANGED authUser /\ ~calls[c].verified
    BY <1>10 DEF ResumeUnverified, native
  <2>3. /\ state'.isSignedIn = state.isSignedIn
        /\ state'.favorites = state.favorites /\ state'.recommended = state.recommended
    BY <1>3, <2>2 DEF StateModel
  <2>4. calls[c].op \notin Logouts
    BY <1>2, <2>2 DEF SignsInOne
  <2>5. UNCHANGED routes
    BY <1>2, <2>2, <2>3, <2>4 DEF LoginReturns
  <2>6. QED
    BY <1>1, <1>2, <2>2, <2>3, <2>4, <2>5, CallGoesOn DEF Ends
<1>11. CASE ResumeTwitter(c)
  <2>1. calls[c].pc = "resume" /\ calls[c].op = "twitter" /\ calls[c].op \notin Logouts
    BY <1>11 DEF ResumeTwitter, TwitterSets, At, Logouts
  <2>2. calls[c].acct \in Accts /\ authUser = calls[c].acct
    BY <1>2, <2>1 DEF Keeps, SignsInOne
  <2>3. /\ state'.isSignedIn /\ state'.type = "twitter"
        /\ state'.user = calls[c].acct /\ state'.uuser = calls[c].acct
        /\ state'.favorites = state.favorites /\ state'.recommended = state.recommended
    BY <1>3, <1>11 DEF ResumeTwitter, TwitterSets, StateModel
  <2>4. state'.favorites = Null /\ state'.recommended = Null
    BY <1>2, <2>1, <2>3 DEF SessionInv, OneAccount, SessionIsWhole
  <2>5. Ends(c) /\ LoginReturns(c) /\ UNCHANGED authUser
    BY <1>11 DEF ResumeTwitter, TwitterSets, native
  <2>6. QED
    BY <1>1, <2>1, <2>2, <2>3, <2>4, <2>5, SignInCompletes
<1>12. CASE ResumeSignUp(c)
  <2>1. calls[c].op = "signup" /\ calls[c].op \notin Logouts
    BY <1>12 DEF ResumeSignUp, Logouts
  <2>2. ~state.isSignedIn /\ calls[c].at # 0
    BY <1>2, <2>1
  <2>3. /\ state' = [state EXCEPT !.type = "email", !.user = calls[c].acct,
                                   !.uuser = calls[c].acct]
        /\ routes' = Append(routes, "login") /\ Ends(c)
    BY <1>12, <2>2 DEF ResumeSignUp, Pushes
  <2>4. /\ state'.isSignedIn = state.isSignedIn
        /\ state'.favorites = state.favorites /\ state'.recommended = state.recommended
    BY <1>3, <2>3 DEF StateModel
  <2>5. state'.favorites = Null /\ state'.recommended = Null
    BY <2>2, <2>4 DEF SessionInv, OneAccount, SessionIsWhole
  <2>6. Top' = "login"
    BY <1>3, <2>3, TopPushed DEF Pages
  <2>7. \A d \in Slots : calls'[d] = None
    BY <1>2, <1>3, <2>3 DEF Ends
  <2>8. QED
    BY <2>2, <2>4, <2>5, <2>6, <2>7, NobodyIsIn
<1>13. CASE FavoritesReturn(c)
  <2> DEFINE r == [calls[c] EXCEPT !.pc = "recommended", !.favorites = calls[c].reading,
                                   !.reading = state.user]
  <2>1. calls[c].pc = "favorites" /\ UNCHANGED <<state, routes, authUser>>
    BY <1>13 DEF FavoritesReturn, FavoritesAre, At, native
  <2>2. calls' = [calls EXCEPT ![c] = r] \/ Ends(c)
    BY <1>3, <1>13 DEF FavoritesReturn, FavoritesAre
  <2>3. /\ r \in Call /\ r.op = calls[c].op /\ r.at = calls[c].at /\ r.acct = calls[c].acct
        /\ r.pc = "recommended" /\ r.reading = state.user
    BY <1>2, <1>3 DEF Call, StateModel
  <2> HIDE DEF r
  <2>4. r.verified = calls[c].verified
    BY <1>2 DEF r, Call
  <2>5. SignsInOne(r, authUser', state'.user)
    BY <1>2, <2>1, <2>3, <2>4 DEF SignsInOne
  <2>6. QED
    BY <1>4, <1>5, <2>1, <2>2, <2>3, <2>5
<1>14. CASE RecommendedReturns(c)
  <2>1. calls[c].pc = "recommended" /\ calls[c].op \notin Logouts
    BY <1>2, <1>14 DEF RecommendedReturns, At, Keeps
  <2>2. /\ calls[c].acct \in Accts /\ authUser = calls[c].acct
        /\ calls[c].favorites = calls[c].acct /\ calls[c].reading = calls[c].acct
    BY <1>2, <2>1 DEF Keeps, SignsInOne
  <2>3. /\ state'.isSignedIn /\ state'.type # "twitter"
        /\ state'.user = calls[c].acct /\ state'.uuser = calls[c].acct
        /\ state'.favorites = calls[c].acct /\ state'.recommended = calls[c].acct
    BY <1>14, <2>2 DEF RecommendedReturns
  <2>4. Ends(c) /\ LoginReturns(c) /\ UNCHANGED authUser
    BY <1>14 DEF RecommendedReturns, native
  <2>5. QED
    BY <1>1, <2>1, <2>2, <2>3, <2>4, SignInCompletes
<1>15. CASE AuthSignsOut(c) \/ GoogleSignsOut(c)
  <2>1. calls[c].pc \in {"out", "googleOut"} /\ UNCHANGED <<state, routes>>
        /\ authUser' \in {authUser, Null}
    BY <1>15 DEF AuthSignsOut, GoogleSignsOut, At
  <2>2. calls[c].op \in Logouts
    BY <1>2, <2>1 DEF SignsInOne
  <2>3. PICK pc \in {"googleOut", "resume"} :
            calls' = [calls EXCEPT ![c] = [calls[c] EXCEPT !.pc = pc]]
    BY <1>3, <1>15 DEF AuthSignsOut, GoogleSignsOut, GoesTo
  <2>4. QED
    <3> DEFINE r == [calls[c] EXCEPT !.pc = pc]
    <3>1. r \in Call /\ r.op = calls[c].op /\ r.at = calls[c].at /\ r.verified = calls[c].verified
      BY <1>2 DEF Call
    <3> HIDE DEF r
    <3>2. calls' = [calls EXCEPT ![c] = r]
      BY <2>3 DEF r
    <3>3. SignsInOne(r, authUser', state'.user)
      BY <1>2, <2>2, <3>1 DEF SignsInOne
    <3>4. QED
      BY <1>5, <2>1, <3>1, <3>2, <3>3
<1>16. CASE ResumeLogout(c)
  <2>1. calls[c].op \in Logouts /\ state' = FreshState
    BY <1>16 DEF ResumeLogout, SignsOutTo
  <2>2. routes' = <<"login">> /\ calls' = [Orphaned EXCEPT ![c] = None]
    BY <1>2, <1>16, <2>1 DEF ResumeLogout, SignsOutTo
  <2>3. \A d \in Slots : calls'[d] = None
    BY <1>2, <2>2 DEF Orphaned
  <2>4. Top' = "login"
    BY <2>2 DEF Top, Depth
  <2>5. QED
    BY <2>1, <2>3, <2>4, NobodyIsIn DEF FreshState
<1>17. QED
  BY <1>6, <1>7, <1>8, <1>9, <1>10, <1>11, <1>12, <1>13, <1>14, <1>15, <1>16 DEF Steps

\* A new call from its page.
LEMMA OneAccountTap ==
  ASSUME SessionInv, OneAtATime, NEW c \in TapIds,
         NEW page \in {"login", "home"}, NEW call, Tap(c, page, call),
         call # None, call.at # 0, call.verified, call.op # "init",
         call.op \in SignIns \cup {"signup"} => page = "login",
         call.op \in Logouts => page = "home",
         call.pc \in {"picker", "auth"} \/ (call.op \in Logouts /\ call.pc = "out")
  PROVE  OneAccount'
<1>1. /\ Top = page /\ calls' = [calls EXCEPT ![c] = call]
      /\ UNCHANGED <<state, routes, authUser>>
  BY DEF Tap, native
<1>2. c \in Slots /\ boot \in Slots /\ c # boot /\ \A d \in TapIds : d = c
  BY SessionAssumption DEF Slots, OneAtATime
<1>3. calls' \in [Slots -> {calls[d] : d \in Slots} \cup {call}] /\ calls'[c] = call
      /\ \A d \in Slots : d # c => calls'[d] = calls[d]
  BY <1>1, <1>2 DEF SessionInv, TypeOK
<1>4. Top' = Top
  BY <1>1 DEF Top, Depth
<1>5. CallsOnTheirPage'
  BY <1>1, <1>2, <1>3, <1>4 DEF SessionInv, OneAccount, CallsOnTheirPage
<1>6. SessionIsWhole'
  BY <1>1, <1>2, <1>3, <1>4 DEF SessionInv, OneAccount, SessionIsWhole
<1>7. SignsInOne(call, authUser, state.user)
  BY DEF SignsInOne
<1>8. SignInsAgree'
  BY <1>1, <1>3, <1>7 DEF SessionInv, OneAccount, SignInsAgree
<1>9. SessionConsistent'
  BY <1>1 DEF SessionInv, OneAccount, SessionConsistent
<1>10. QED
  BY <1>5, <1>6, <1>8, <1>9 DEF OneAccount

LEMMA OneAccountTaps ==
  ASSUME SessionInv, OneAtATime, NEW c \in TapIds, Taps(c)
  PROVE  OneAccount'
<1>1. Depth \in Nat /\ Depth # 0 /\ Null \in MaybeAcct
  BY DEF SessionInv, TypeOK, Depth, MaybeAcct
<1>2. ASSUME NEW op \in {"google", "email", "twitter", "signup", "logout", "googleLogout"},
             NEW pc \in {"picker", "auth", "out"}, NEW a \in MaybeAcct
      PROVE  LET call == NewCall(op, pc, a, Depth) IN
             /\ call # None /\ call.at # 0 /\ call.verified
             /\ call.op = op /\ call.pc = pc
  <2>1. NewCall(op, pc, a, Depth) \in Call
    BY <1>1, NewCallType
  <2>2. NewCall(op, pc, a, Depth) # None
    BY <2>1, NoneIsNoCall
  <2>3. QED
    BY <1>1, <2>2 DEF NewCall
<1>3. ASSUME NEW op \in {"google", "email", "twitter", "signup"},
             NEW pc \in {"picker", "auth"}, NEW a \in MaybeAcct,
             Tap(c, "login", NewCall(op, pc, a, Depth))
      PROVE  OneAccount'
  <2> DEFINE call == NewCall(op, pc, a, Depth)
  <2>1. /\ call # None /\ call.at # 0 /\ call.verified /\ call.op = op /\ call.pc = pc
        /\ Tap(c, "login", call)
    BY <1>2, <1>3
  <2>2. op \notin Logouts /\ op # "init"
    BY DEF Logouts
  <2> HIDE DEF call
  <2>3. QED
    BY <2>1, <2>2, OneAccountTap
<1>4. ASSUME NEW op \in Logouts, Tap(c, "home", NewCall(op, "out", Null, Depth))
      PROVE  OneAccount'
  <2> DEFINE call == NewCall(op, "out", Null, Depth)
  <2>1. /\ call # None /\ call.at # 0 /\ call.verified /\ call.op = op /\ call.pc = "out"
        /\ Tap(c, "home", call)
    BY <1>1, <1>2, <1>4 DEF Logouts
  <2>2. op \notin SignIns \cup {"signup"} /\ op # "init"
    BY DEF Logouts, SignIns
  <2> HIDE DEF call
  <2>3. QED
    BY <2>1, <2>2, OneAccountTap
<1>5. CASE TapGoogle(c)
  <2>1. googleAccount \in MaybeAcct
    BY DEF SessionInv, TypeOK
  <2>2. \/ Tap(c, "login", NewCall("google", "picker", Null, Depth))
        \/ Tap(c, "login", NewCall("google", "auth", googleAccount, Depth))
    BY <1>5 DEF TapGoogle
  <2>3. QED
    BY <1>1, <1>3, <2>1, <2>2
<1>6. CASE \E a \in Accts : TapTwitter(c, a) \/ TapEmail(c, a) \/ TapSignUp(c, a)
  <2>1. PICK a \in Accts : TapTwitter(c, a) \/ TapEmail(c, a) \/ TapSignUp(c, a)
    BY <1>6
  <2>2. a \in MaybeAcct
    BY DEF MaybeAcct
  <2>3. QED
    BY <1>3, <2>1, <2>2 DEF TapTwitter, TapEmail, TapSignUp
<1>7. CASE TapLogout(c)
  <2>1. \E op \in Logouts : Tap(c, "home", NewCall(op, "out", Null, Depth))
    BY <1>7 DEF TapLogout, Logouts
  <2>2. QED
    BY <1>4, <2>1
<1>8. QED
  BY <1>5, <1>6, <1>7 DEF Taps

\* The picker or signInSilently answers.
LEMMA OneAccountChoices ==
  ASSUME SessionInv, OneAtATime, NEW c \in Slots, NEW a \in MaybeAcct,
         Picks(c, a) \/ (c = boot /\ SilentReturns(a))
  PROVE  OneAccount'
<1> DEFINE r == [calls[c] EXCEPT !.pc = "auth", !.acct = a]
<1>1. /\ calls[c] # None /\ UNCHANGED <<routes, authUser>>
      /\ calls[c].pc \in {"picker", "silent"}
      /\ \/ Ends(c)
         \/ calls' = [calls EXCEPT ![c].pc = "auth", ![c].acct = a]
      /\ \/ state' = state
         \/ c = boot /\ state' = [state EXCEPT !.isLoading = FALSE]
  BY DEF Picks, SilentReturns, At, native
<1>2. /\ calls[c] \in Call /\ SignsInOne(calls[c], authUser, state.user)
      /\ c = boot => ~state.isSignedIn
  BY <1>1, OnlyCall DEF Logouts
<1>3. calls \in [Slots -> Call \cup {None}] /\ state \in StateModel
  BY DEF SessionInv, TypeOK
<1>4. calls' = [calls EXCEPT ![c] = None] \/ calls' = [calls EXCEPT ![c] = r]
  BY <1>1, <1>3 DEF Ends
<1>5. /\ r \in Call /\ r.op = calls[c].op /\ r.at = calls[c].at
      /\ r.pc = "auth" /\ r.verified = calls[c].verified
  BY <1>2 DEF Call, MaybeAcct
<1> HIDE DEF r
<1>6. SignsInOne(r, authUser', state'.user)
  BY <1>2, <1>5 DEF SignsInOne
<1>7. \/ state' = state
      \/ /\ ~state.isSignedIn /\ ~state'.isSignedIn
         /\ state'.favorites = state.favorites /\ state'.recommended = state.recommended
  BY <1>1, <1>2, <1>3 DEF StateModel
<1>8. CASE calls' = [calls EXCEPT ![c] = None]
  BY <1>1, <1>7, <1>8, CallGoesOn
<1>9. CASE calls' = [calls EXCEPT ![c] = r]
  BY <1>1, <1>5, <1>6, <1>7, <1>9, CallGoesOn
<1>10. QED
  BY <1>4, <1>8, <1>9

\* The call initUser makes is the only one at the start.
LEMMA BootCallAlone ==
  /\ BootCall[boot].op = "init" /\ BootCall[boot].pc = "silent"
  /\ \A c \in Slots : BootCall[c] # None => c = boot
  /\ \A c \in TapIds : BootCall[c] = None
BY SessionAssumption DEF BootCall, NewCall, Slots

LEMMA OneAccountInit ==
  ASSUME state = LoadingState, calls = BootCall, routes = <<"loading">>
  PROVE  OneAccount
<1>1. Top = "loading"
  BY DEF Top, Depth
<1>2. CallsOnTheirPage
  BY <1>1, BootCallAlone DEF CallsOnTheirPage
<1>3. SessionIsWhole /\ SessionConsistent
  BY <1>1 DEF SessionIsWhole, SessionConsistent, LoadingState, FreshState
<1>4. SignInsAgree
  BY BootCallAlone DEF SignInsAgree, SignsInOne, Logouts
<1>5. QED
  BY <1>2, <1>3, <1>4 DEF OneAccount

LEMMA OneAccountRestart ==
  ASSUME state' = LoadingState, calls' = BootCall, routes' = <<"loading">>
  PROVE  OneAccount'
<1>1. Top' = "loading"
  BY DEF Top, Depth
<1>2. CallsOnTheirPage'
  BY <1>1, BootCallAlone DEF CallsOnTheirPage
<1>3. SessionIsWhole' /\ SessionConsistent'
  BY <1>1 DEF SessionIsWhole, SessionConsistent, LoadingState, FreshState
<1>4. SignInsAgree'
  BY BootCallAlone DEF SignInsAgree, SignsInOne, Logouts
<1>5. QED
  BY <1>2, <1>3, <1>4 DEF OneAccount

LEMMA OneAccountNext ==
  ASSUME OneAtATime
  PROVE  SessionInv /\ [Next]_vars => SessionInv'
<1> SUFFICES ASSUME SessionInv, [Next]_vars PROVE SessionInv'
  OBVIOUS
<1>1. TypeOK' /\ CallsKeepTheirAccount'
  BY TypeNext, KeepsNext DEF SessionInv
<1> SUFFICES OneAccount'
  BY <1>1 DEF SessionInv
<1>2. CASE \E c \in TapIds : Taps(c)
  BY <1>2, OneAccountTaps
<1>3. CASE \E c \in TapIds, a \in MaybeAcct : Picks(c, a)
  BY <1>3, OneAccountChoices DEF Slots
<1>4. CASE \E c \in Slots : Steps(c)
  BY <1>4, OneAccountSteps
<1>5. CASE \E a \in MaybeAcct : SilentReturns(a)
  BY <1>5, OneAccountChoices DEF Slots
<1>6. ~TapLogoutUnset
  BY DEF TapLogoutUnset, SessionInv, OneAccount, SessionIsWhole
<1>7. CASE LoadingEnds
  <2>1. /\ calls[boot] = None /\ \A c \in TapIds : calls[c] = None
        /\ UNCHANGED <<state, calls, authUser>>
    BY <1>7 DEF LoadingEnds, LoadingEndsWith, OneAtATime, SessionInv, OneAccount,
                CallsOnTheirPage, native
  <2>2. routes' = IF state.isSignedIn THEN <<"home">> ELSE <<"login">>
    BY <1>7 DEF LoadingEnds, LoadingEndsWith, SessionInv, OneAccount, SessionIsWhole
  <2>3. Top' = IF state.isSignedIn THEN "home" ELSE "login"
    BY <2>2 DEF Top, Depth
  <2>4. CallsOnTheirPage' /\ SignInsAgree'
    BY <2>1 DEF CallsOnTheirPage, SignInsAgree, Slots
  <2>5. SessionIsWhole' /\ SessionConsistent'
    BY <2>1, <2>3 DEF SessionInv, OneAccount, SessionIsWhole, SessionConsistent
  <2>6. QED
    BY <2>4, <2>5 DEF OneAccount
<1>8. ~Back /\ ~\E ops \in {SignIns, {"signup"}, Logouts} : LeaveSide(ops)
  BY DEF Back, LeaveSide, OneAtATime
<1>9. CASE Restart
  <2>1. state' = LoadingState /\ calls' = BootCall /\ routes' = <<"loading">>
    BY <1>9 DEF Restart
  <2>2. QED
    BY <2>1, OneAccountRestart
<1>10. CASE (\E a \in Accts : Verify(a)) \/ UNCHANGED vars
  <2>1. UNCHANGED <<state, calls, routes, authUser>>
    BY <1>10 DEF Verify, vars, native
  <2>2. QED
    BY <2>1 DEF SessionInv, OneAccount, CallsOnTheirPage, SessionIsWhole, SignInsAgree,
                SessionConsistent, Top, Depth
<1>11. QED
  BY <1>2, <1>3, <1>4, <1>5, <1>6, <1>7, <1>8, <1>9, <1>10 DEF Next

\* One call at a time, a start that ends before its page does and nobody leaving the page
\* that waits: then, whatever fails and wherever the process dies, the session is one
\* account throughout, in the shared state, in its lists and at FirebaseAuth
\* (auth.dart 20-140, state_widget.dart).
THEOREM SessionIsOneAccount ==
  ASSUME OneAtATime
  PROVE  Spec => []SessionConsistent
<1>1. Init => SessionInv
  BY TypeInit, KeepsInit, OneAccountInit DEF Init, SessionInv
<1>2. SessionInv /\ [Next]_vars => SessionInv'
  BY OneAccountNext
<1>3. SessionInv => SessionConsistent
  BY DEF SessionInv, OneAccount
<1>4. QED
  BY <1>1, <1>2, <1>3, PTL DEF Spec

\* ... and the screen agrees with it: no home page without a session, no login page over one.
THEOREM PagesAgreeWithSession ==
  ASSUME OneAtATime
  PROVE  Spec => []PagesMatchSession
<1>1. Init => SessionInv
  BY TypeInit, KeepsInit, OneAccountInit DEF Init, SessionInv
<1>2. SessionInv /\ [Next]_vars => SessionInv'
  BY OneAccountNext
<1>3. SessionInv => PagesMatchSession
  BY DEF SessionInv, OneAccount, SessionIsWhole, PagesMatchSession
<1>4. QED
  BY <1>1, <1>2, <1>3, PTL DEF Spec
=============================================================================
