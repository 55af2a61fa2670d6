------------------------- MODULE AuthService_proofs -------------------------
(* Theorems about AuthService, for any number of calls, tokens, changes of  *)
(* the password and links to reset it, wherever calls fail; and about       *)
(* MobileClient, its client, for any number of requests.                    *)
EXTENDS AuthService, MobileClient, FiniteSetTheorems, TLAPS

-----------------------------------------------------------------------------
(* Type correctness.                                                        *)

(* The fields of what a call has in hand, and of what a token says.         *)
LEMMA Fields ==
  /\ \A q \in CallState :
        /\ q.pc \in {"idle", "rehash", "check", "version", "store", "write", "bump",
                     "ip", "link"}
        /\ q.token \in Tokens \union {None} /\ q.session \in Tokens \union {None}
        /\ q.version \in Versions
  /\ \A d \in TokenData : d.session \in Tokens /\ d.version \in Versions /\ d # NoToken
  /\ NoToken.session = None /\ None \notin Tokens
  BY AuthAssumption DEF CallState, TokenData, NoToken, Tokens, None

(* A call that nothing is known of has its type.                            *)
LEMMA IdleType ==
  Idle \in CallState /\ Idle.pc = "idle" /\ Idle.session = None /\ Idle.token = None
  BY AuthAssumption DEF Idle, CallState, Versions, None

(* Counting a request keeps the type of the counters.                       *)
LEMMA CountedType ==
  ASSUME TypeOK, NEW k \in Limits
  PROVE  Counted(k) \in [Limits -> [hits : 0 .. MaxRequests + 1, lapses : BOOLEAN]]
  <1>1. limit[k].hits \in 0 .. MaxRequests + 1
    BY DEF TypeOK
  <1>2. (IF limit[k].hits > MaxRequests THEN limit[k].hits ELSE limit[k].hits + 1)
            \in 0 .. MaxRequests + 1
    BY <1>1, AuthAssumption
  <1> QED BY <1>2 DEF TypeOK, Counted

(* At the start every variable has its type.                                *)
LEMMA TypeInit == Init => TypeOK
  BY AuthAssumption, IdleType DEF Init, TypeOK, Tokens, Versions, TokenData

(* What a step of a call leaves in its hands is what a call may have.       *)
LEMMA CallType ==
  ASSUME TypeOK, NEW c \in Callers,
         \/ Register(c) \/ Login(c) \/ Rehash(c) \/ ReadVersion(c) \/ Store(c)
         \/ Exchange(c) \/ Check(c) \/ Change(c) \/ Reset(c) \/ Write(c) \/ Bump(c)
         \/ Forgot(c) \/ CountAddress(c) \/ SendLink(c) \/ Fail(c)
  PROVE  call' \in [Callers -> CallState]
  <1> USE DEF CallState
  <1>0. call \in [Callers -> CallState] /\ version \in Versions /\ None \in Versions
        /\ \A t \in Tokens : Live(t) => token[t] \in TokenData
    BY AuthAssumption DEF TypeOK, Versions, None, Live
  <1>1. CASE Register(c) \/ Login(c) \/ Rehash(c) \/ Change(c) \/ Reset(c) \/ Write(c)
    BY <1>0, <1>1 DEF Register, Login, Rehash, Change, Reset, Write
  <1>2. CASE ReadVersion(c)
    <2> DEFINE q == [call[c] EXCEPT !.pc = "store", !.token = None, !.version = version]
    <2>1. q \in CallState
      BY <1>0
    <2>2. call' = [call EXCEPT ![c] = q]
      BY <1>0, <1>2 DEF ReadVersion
    <2> HIDE DEF q
    <2> QED BY <1>0, <2>1, <2>2
  <1>3. CASE Exchange(c)
    <2>1. PICK t \in Tokens :
            /\ Live(t)
            /\ call' = [call EXCEPT ![c] = [Idle EXCEPT !.pc = "check", !.token = t,
                        !.session = token[t].session, !.version = token[t].version]]
      BY <1>3 DEF Exchange
    <2>2. token[t].session \in Tokens /\ token[t].version \in Versions
      BY <1>0, <2>1, Fields
    <2> QED BY <1>0, <2>1, <2>2, IdleType
  <1>4. CASE Check(c)
    BY <1>0, <1>4, IdleType DEF Check
  <1>5. CASE Store(c) \/ Bump(c) \/ SendLink(c) \/ Fail(c)
    BY <1>0, <1>5, IdleType DEF Store, Bump, SendLink, Fail
  <1>6. CASE Forgot(c) \/ CountAddress(c)
    BY <1>0, <1>6 DEF Forgot, CountAddress
  <1> QED BY <1>1, <1>2, <1>3, <1>4, <1>5, <1>6

(* Every step of a call, and every expiry of a key, keeps the types.        *)
LEMMA TypeStep == TypeOK /\ [Next]_vars => TypeOK'
  <1> SUFFICES ASSUME TypeOK, [Next]_vars PROVE TypeOK'
    OBVIOUS
  <1>1. CASE UNCHANGED vars
    BY <1>1 DEF TypeOK, vars
  <1>2. ASSUME NEW c \in Callers,
               \/ Register(c) \/ Login(c) \/ Rehash(c) \/ ReadVersion(c) \/ Store(c)
               \/ Exchange(c) \/ Check(c) \/ Change(c) \/ Reset(c) \/ Write(c) \/ Bump(c)
               \/ Forgot(c) \/ CountAddress(c) \/ SendLink(c) \/ Fail(c)
        PROVE  TypeOK'
    <2>1. call' \in [Callers -> CallState]
      BY <1>2, CallType
    <2>2. CASE Register(c) \/ Login(c) \/ Rehash(c) \/ ReadVersion(c) \/ Check(c)
               \/ Change(c) \/ Write(c) \/ Fail(c)
      BY <2>1, <2>2 DEF TypeOK, Register, Login, Rehash, ReadVersion, Check, Change, Write, Fail
    <2>3. CASE Exchange(c)
      <3>1. token' \in [Tokens -> TokenData \union {NoToken}]
        BY <2>3 DEF TypeOK, Exchange
      <3> QED BY <2>1, <2>3, <3>1 DEF TypeOK, Exchange
    <2>4. CASE Store(c)
      <3> DEFINE t == issued + 1
                 session == IF call[c].session = None THEN t ELSE call[c].session
      <3>1. t \in Tokens /\ t \in 0 .. MaxTokens
        BY <2>4, AuthAssumption DEF Store, TypeOK, Tokens
      <3>2. [session |-> session, version |-> call[c].version] \in TokenData
        BY <3>1, Fields DEF TypeOK, TokenData
      <3>3. token' \in [Tokens -> TokenData \union {NoToken}]
        BY <2>4, <3>1, <3>2 DEF TypeOK, Store
      <3> QED BY <2>1, <2>4, <3>1, <3>3 DEF TypeOK, Store
    <2>5. CASE Bump(c)
      BY <2>1, <2>5, AuthAssumption DEF TypeOK, Bump, Versions
    <2>6. CASE Reset(c) \/ SendLink(c)
      <3>1. links' \in 0 .. MaxLinks
        BY <2>6, AuthAssumption DEF TypeOK, Reset, SendLink
      <3> QED BY <2>1, <2>6, <3>1 DEF TypeOK, Reset, SendLink
    <2>7. CASE Forgot(c) \/ CountAddress(c)
      BY <2>1, <2>7, CountedType DEF TypeOK, Forgot, CountAddress, Limits
    <2> QED BY <1>2, <2>2, <2>3, <2>4, <2>5, <2>6, <2>7
  <1>3. ASSUME NEW t \in Tokens, Drop(t) PROVE TypeOK'
    BY <1>3 DEF TypeOK, Drop
  <1>4. CASE LinkExpires
    BY <1>4, AuthAssumption DEF TypeOK, LinkExpires
  <1>5. ASSUME NEW k \in Limits, WindowEnds(k) PROVE TypeOK'
    BY <1>5, AuthAssumption DEF TypeOK, WindowEnds
  <1> QED BY <1>1, <1>2, <1>3, <1>4, <1>5 DEF Next

(* The type invariant: whatever calls overlap and fail, the account, every  *)
(* key that services/auth.py writes and every call have the shape the code  *)
(* gives them, and nothing is deleted that is not there.                    *)
THEOREM TypeCorrect == Spec => []TypeOK
  BY TypeInit, TypeStep, PTL DEF Spec

-----------------------------------------------------------------------------
(* Sessions and versions.                                                   *)

(* Only a call that rotates a token has a session, and only while it checks *)
(* the version does it hold the token that it was given.                    *)
Bound ==
    /\ \A c \in Callers :
        /\ Exchanging(c) => call[c].pc \in {"check", "version", "store"}
        /\ call[c].session <= issued /\ call[c].token <= issued
        /\ At(c, "check") => Exchanging(c)
    /\ \A t \in Tokens : Live(t) => t <= issued /\ token[t].session <= issued

(* Nothing was issued under a version that is yet to come; and what was     *)
(* stored before the last change ended has an older version than now.       *)
Dated ==
    /\ revoked <= issued
    /\ \A t \in Tokens : Live(t) =>
        /\ token[t].version <= version
        /\ t <= revoked => token[t].version < version
    /\ \A c \in Callers :
        /\ call[c].version <= version
        /\ At(c, "check") /\ call[c].token <= revoked => call[c].version < version

IInv == TypeOK /\ Bound /\ Dated /\ OneTokenPerSession

(* A call that is not about to rotate a token goes on to something else.    *)
Elsewhere(c) ==
    \/ Register(c) \/ Login(c) \/ Rehash(c) \/ Change(c) \/ Reset(c) \/ Write(c)
    \/ Forgot(c) \/ CountAddress(c)

(* Such a step takes up no token.                                           *)
LEMMA ElsewhereKeeps ==
  ASSUME TypeOK, NEW c \in Callers, Elsewhere(c)
  PROVE  /\ call[c].pc \notin {"check", "version", "store"}
         /\ call'[c].pc # "check"
         /\ call'[c].session = call[c].session /\ call'[c].token = call[c].token
         /\ call'[c].version = call[c].version
         /\ \A d \in Callers \ {c} : call'[d] = call[d]
         /\ UNCHANGED <<version, token, issued, revoked>>
  <1>1. call \in [Callers -> CallState]
    BY DEF TypeOK
  <1> QED
    BY <1>1 DEF Elsewhere, Register, Login, Rehash, Change, Reset, Write, Forgot,
                CountAddress, At, CallState

(* A call that is over has nothing in hand.                                 *)
Over(c) ==
    /\ call'[c] = Idle
    /\ \A d \in Callers \ {c} : call'[d] = call[d]
    /\ UNCHANGED <<token, issued>>

(* The ways in which a call may be over.                                    *)
LEMMA OverSteps ==
  ASSUME TypeOK, NEW c \in Callers,
         Bump(c) \/ SendLink(c) \/ Fail(c) \/ (Check(c) /\ call[c].version # version)
  PROVE  Over(c) /\ (~Bump(c) => UNCHANGED <<version, revoked>>)
  BY DEF TypeOK, Over, Bump, SendLink, Fail, Check

(* A check that passes.                                                     *)
LEMMA CheckPasses ==
  ASSUME TypeOK, NEW c \in Callers, Check(c), call[c].version = version
  PROVE  /\ call[c].pc = "check" /\ call'[c].pc = "version"
         /\ call'[c].session = call[c].session /\ call'[c].token = call[c].token
         /\ call'[c].version = None
         /\ \A d \in Callers \ {c} : call'[d] = call[d]
         /\ UNCHANGED <<version, token, issued, revoked>>
  <1>1. call \in [Callers -> CallState]
    BY DEF TypeOK
  <1>2. call'[c] = [call[c] EXCEPT !.pc = "version", !.version = None]
    BY <1>1 DEF Check
  <1> QED BY <1>1, <1>2 DEF Check, At, CallState

(* Reading the version.                                                     *)
LEMMA ReadVersionTakes ==
  ASSUME TypeOK, NEW c \in Callers, ReadVersion(c)
  PROVE  /\ call[c].pc = "version" /\ call'[c].pc = "store"
         /\ call'[c].session = call[c].session /\ call'[c].token = None
         /\ call'[c].version = version
         /\ \A d \in Callers \ {c} : call'[d] = call[d]
         /\ UNCHANGED <<version, token, issued, revoked>>
  <1>1. call \in [Callers -> CallState]
    BY DEF TypeOK
  <1>2. call'[c] = [call[c] EXCEPT !.pc = "store", !.token = None, !.version = version]
    BY <1>1 DEF ReadVersion
  <1> QED BY <1>1, <1>2 DEF ReadVersion, At, CallState

(* A GETDEL that returns a token.                                           *)
LEMMA ExchangeTakes ==
  ASSUME TypeOK, NEW c \in Callers, Exchange(c)
  PROVE  \E t \in Tokens :
           /\ Live(t) /\ ~Live(t)' /\ \A u \in Tokens \ {t} : token'[u] = token[u]
           /\ call[c].pc = "idle" /\ call'[c].pc = "check" /\ call'[c].token = t
           /\ call'[c].session = token[t].session /\ call'[c].version = token[t].version
           /\ \A d \in Callers \ {c} : call'[d] = call[d]
           /\ UNCHANGED <<version, issued, revoked>>
  <1>1. call \in [Callers -> CallState] /\ token \in [Tokens -> TokenData \union {NoToken}]
    BY DEF TypeOK
  <1>2. PICK t \in Tokens :
            /\ Live(t) /\ token' = [token EXCEPT ![t] = NoToken]
            /\ call' = [call EXCEPT ![c] = [Idle EXCEPT !.pc = "check", !.token = t,
                        !.session = token[t].session, !.version = token[t].version]]
    BY DEF Exchange
  <1>3. call'[c] = [Idle EXCEPT !.pc = "check", !.token = t,
                        !.session = token[t].session, !.version = token[t].version]
    BY <1>1, <1>2
  <1>4. /\ call'[c].pc = "check" /\ call'[c].token = t
        /\ call'[c].session = token[t].session /\ call'[c].version = token[t].version
    BY <1>3 DEF Idle
  <1> QED BY <1>1, <1>2, <1>4 DEF Exchange, At, Live

(* A SET of a token: of a session of its own, or of the one it continues.   *)
LEMMA StoreAdds ==
  ASSUME TypeOK, Bound, NEW c \in Callers, Store(c)
  PROVE  \E t \in Tokens :
           /\ t = issued + 1 /\ issued' = t /\ ~Live(t) /\ Live(t)'
           /\ token'[t].version = call[c].version
           /\ token'[t].session = IF Exchanging(c) THEN call[c].session ELSE t
           /\ \A u \in Tokens \ {t} : token'[u] = token[u]
           /\ call[c].pc = "store" /\ call'[c] = Idle
           /\ \A d \in Callers \ {c} : call'[d] = call[d]
           /\ UNCHANGED <<version, revoked>>
  <1> DEFINE t == issued + 1
  <1>1. t \in Tokens /\ issued \in Nat
    BY AuthAssumption DEF Store, TypeOK, Tokens
  <1>2. ~Live(t)
    BY <1>1 DEF Bound
  <1>3. call \in [Callers -> CallState] /\ token \in [Tokens -> TokenData \union {NoToken}]
    BY DEF TypeOK
  <1>4. token'[t] = [session |-> IF call[c].session = None THEN t ELSE call[c].session,
                     version |-> call[c].version]
    BY <1>1, <1>3 DEF Store
  <1>5. token'[t] # NoToken
    BY <1>1, <1>3, <1>4, Fields DEF NoToken
  <1> QED BY <1>1, <1>2, <1>3, <1>4, <1>5 DEF Store, At, Exchanging, Live

(* The numbers of the state.                                                *)
LEMMA Numbers ==
  ASSUME TypeOK
  PROVE  /\ issued \in Nat /\ revoked \in Nat /\ version \in Nat
         /\ Tokens \subseteq Nat \ {0} /\ None = 0
         /\ \A c \in Callers : /\ call[c].session \in Nat /\ call[c].token \in Nat
                               /\ call[c].version \in Nat
         /\ \A t \in Tokens : token[t].session \in Nat /\ token[t].version \in Nat
         /\ \A t \in Tokens : Live(t) => token[t].session # None
  BY AuthAssumption, Fields DEF TypeOK, Tokens, Versions, None, NoToken, Live

(* At the start nothing was issued. *)
LEMMA Initially == Init => IInv
  <1> SUFFICES ASSUME Init PROVE Bound /\ Dated /\ OneTokenPerSession
    BY TypeInit DEF IInv
  <1>1. \A t \in Tokens : ~Live(t)
    BY DEF Init, Live
  <1>2. \A c \in Callers : call[c] = Idle /\ ~Exchanging(c) /\ call[c].pc = "idle"
    BY DEF Init, Idle, Exchanging
  <1> QED BY <1>1, <1>2 DEF Init, Bound, Dated, OneTokenPerSession, At, Idle, None

(* Every step keeps the invariant. *)
LEMMA IInvStep == IInv /\ [Next]_vars => IInv'
  <1> SUFFICES ASSUME IInv, [Next]_vars PROVE Bound' /\ Dated' /\ OneTokenPerSession'
    BY TypeStep DEF IInv
  <1>1. TypeOK /\ Bound /\ Dated /\ OneTokenPerSession
    BY DEF IInv
  <1>2. ASSUME UNCHANGED <<version, token, issued, revoked, call>>
        PROVE  Bound' /\ Dated' /\ OneTokenPerSession'
    BY <1>1, <1>2 DEF Bound, Dated, OneTokenPerSession, Exchanging, Live, At
  <1>3. ASSUME NEW c \in Callers, Elsewhere(c)
        PROVE  Bound' /\ Dated' /\ OneTokenPerSession'
    <2>1. ~Exchanging(c)
      BY <1>1, <1>3, ElsewhereKeeps DEF Bound
    <2>2. \A d \in Callers : /\ Exchanging(d)' <=> Exchanging(d)
                             /\ At(d, "check")' => At(d, "check")
                             /\ call'[d].session = call[d].session
                             /\ call'[d].token = call[d].token
                             /\ call'[d].version = call[d].version
      BY <1>1, <1>3, ElsewhereKeeps DEF Exchanging, At
    <2>3. \A t \in Tokens : Live(t)' <=> Live(t)
      BY <1>1, <1>3, ElsewhereKeeps DEF Live
    <2>4. \A d \in Callers : Exchanging(d) => call'[d] = call[d]
      BY <1>1, <1>3, <2>1, ElsewhereKeeps
    <2> QED BY <1>1, <1>3, <2>2, <2>3, <2>4, ElsewhereKeeps
            DEF Bound, Dated, OneTokenPerSession
  <1>4. ASSUME NEW c \in Callers, Over(c), UNCHANGED <<version, revoked>>
        PROVE  Bound' /\ Dated' /\ OneTokenPerSession'
    <2>1. ~Exchanging(c)' /\ ~At(c, "check")' /\ call'[c].session = None
          /\ call'[c].token = None /\ call'[c].version = 0
      BY <1>4 DEF Over, Exchanging, At, Idle, None
    <2>2. \A d \in Callers \ {c} : /\ Exchanging(d)' <=> Exchanging(d)
                                   /\ At(d, "check")' <=> At(d, "check")
                                   /\ call'[d] = call[d]
      BY <1>4 DEF Over, Exchanging, At
    <2>3. token' = token /\ issued' = issued /\ \A t \in Tokens : Live(t)' <=> Live(t)
      BY <1>4 DEF Over, Live
    <2> QED BY <1>1, <1>4, <2>1, <2>2, <2>3, Numbers DEF Bound, Dated, OneTokenPerSession
  <1>5. ASSUME NEW c \in Callers, Check(c), call[c].version = version
        PROVE  Bound' /\ Dated' /\ OneTokenPerSession'
    <2>1. \A d \in Callers : /\ Exchanging(d)' <=> Exchanging(d)
                             /\ At(d, "check")' => d # c /\ At(d, "check")
                             /\ call'[d].session = call[d].session
                             /\ call'[d].token = call[d].token
      BY <1>1, <1>5, CheckPasses DEF Exchanging, At
    <2>2. \A t \in Tokens : Live(t)' <=> Live(t)
      BY <1>1, <1>5, CheckPasses DEF Live
    <2>3. \A d \in Callers : call'[d].version = call[d].version \/ call'[d].version = 0
      BY <1>1, <1>5, CheckPasses DEF None
    <2> QED BY <1>1, <1>5, <2>1, <2>2, <2>3, CheckPasses, Numbers
            DEF Bound, Dated, OneTokenPerSession
  <1>6. ASSUME NEW c \in Callers, ReadVersion(c)
        PROVE  Bound' /\ Dated' /\ OneTokenPerSession'
    <2>1. \A d \in Callers : /\ Exchanging(d)' <=> Exchanging(d)
                             /\ At(d, "check")' => d # c /\ At(d, "check")
                             /\ call'[d].session = call[d].session
                             /\ call'[d].token \in {call[d].token, 0}
                             /\ call'[d].version \in {call[d].version, version}
      BY <1>1, <1>6, ReadVersionTakes DEF Exchanging, At, None
    <2>2. \A t \in Tokens : Live(t)' <=> Live(t)
      BY <1>1, <1>6, ReadVersionTakes DEF Live
    <2> QED BY <1>1, <1>6, <2>1, <2>2, ReadVersionTakes, Numbers
            DEF Bound, Dated, OneTokenPerSession
  <1>7. ASSUME NEW c \in Callers, Exchange(c)
        PROVE  Bound' /\ Dated' /\ OneTokenPerSession'
    <2>1. PICK t \in Tokens :
           /\ Live(t) /\ ~Live(t)' /\ \A u \in Tokens \ {t} : token'[u] = token[u]
           /\ call[c].pc = "idle" /\ call'[c].pc = "check" /\ call'[c].token = t
           /\ call'[c].session = token[t].session /\ call'[c].version = token[t].version
           /\ \A d \in Callers \ {c} : call'[d] = call[d]
           /\ UNCHANGED <<version, issued, revoked>>
      BY <1>1, <1>7, ExchangeTakes
    <2>2. Exchanging(c)' /\ At(c, "check")'
      BY <1>1, <2>1, Numbers DEF Exchanging, At
    <2>3. \A d \in Callers \ {c} : /\ Exchanging(d)' <=> Exchanging(d)
                                   /\ At(d, "check")' <=> At(d, "check")
      BY <2>1 DEF Exchanging, At
    <2>4. \A u \in Tokens : Live(u)' => u # t /\ Live(u) /\ token'[u] = token[u]
      BY <2>1 DEF Live
    <2>5. Bound' /\ Dated'
      BY <1>1, <2>1, <2>2, <2>3, <2>4 DEF Bound, Dated
    <2>6. OneTokenPerSession'
      BY <1>1, <2>1, <2>3, <2>4 DEF OneTokenPerSession
    <2> QED BY <2>5, <2>6
  <1>8. ASSUME NEW c \in Callers, Store(c)
        PROVE  Bound' /\ Dated' /\ OneTokenPerSession'
    <2>1. PICK t \in Tokens :
           /\ t = issued + 1 /\ issued' = t /\ ~Live(t) /\ Live(t)'
           /\ token'[t].version = call[c].version
           /\ token'[t].session = IF Exchanging(c) THEN call[c].session ELSE t
           /\ \A u \in Tokens \ {t} : token'[u] = token[u]
           /\ call[c].pc = "store" /\ call'[c] = Idle
           /\ \A d \in Callers \ {c} : call'[d] = call[d]
           /\ UNCHANGED <<version, revoked>>
      BY <1>1, <1>8, StoreAdds
    <2>2. ~Exchanging(c)' /\ ~At(c, "check")' /\ call'[c].session = 0
          /\ call'[c].token = 0 /\ call'[c].version = 0
      BY <2>1 DEF Exchanging, At, Idle, None
    <2>3. \A d \in Callers \ {c} : /\ Exchanging(d)' <=> Exchanging(d)
                                   /\ At(d, "check")' <=> At(d, "check")
      BY <2>1 DEF Exchanging, At
    <2>4. \A u \in Tokens \ {t} : Live(u)' <=> Live(u)
      BY <2>1 DEF Live
    <2>5. Bound' /\ Dated'
      BY <1>1, <2>1, <2>2, <2>3, <2>4, Numbers DEF Bound, Dated
    <2>6. \A u \in Tokens \ {t} : Live(u)' => token'[u].session # token'[t].session
      BY <1>1, <2>1, <2>4, Numbers DEF Bound, OneTokenPerSession
    <2>7. \A d \in Callers : Exchanging(d)' => call'[d].session # token'[t].session
      BY <1>1, <2>1, <2>2, <2>3, Numbers DEF Bound, OneTokenPerSession
    <2>8. OneTokenPerSession'
      BY <1>1, <2>1, <2>2, <2>3, <2>4, <2>6, <2>7 DEF OneTokenPerSession
    <2> QED BY <2>5, <2>8
  <1>9. ASSUME NEW c \in Callers, Bump(c)
        PROVE  Bound' /\ Dated' /\ OneTokenPerSession'
    <2>1. Over(c) /\ version' = version + 1 /\ revoked' = issued
      BY <1>1, <1>9, OverSteps DEF Bump
    <2>2. ~Exchanging(c)' /\ ~At(c, "check")' /\ call'[c].session = 0
          /\ call'[c].token = 0 /\ call'[c].version = 0
      BY <2>1 DEF Over, Exchanging, At, Idle, None
    <2>3. \A d \in Callers \ {c} : /\ Exchanging(d)' <=> Exchanging(d)
                                   /\ At(d, "check")' <=> At(d, "check")
                                   /\ call'[d] = call[d]
      BY <2>1 DEF Over, Exchanging, At
    <2>4. token' = token /\ issued' = issued /\ \A t \in Tokens : Live(t)' <=> Live(t)
      BY <2>1 DEF Over, Live
    <2> QED BY <1>1, <2>1, <2>2, <2>3, <2>4, Numbers DEF Bound, Dated, OneTokenPerSession
  <1>10. ASSUME NEW t \in Tokens, Drop(t)
         PROVE  Bound' /\ Dated' /\ OneTokenPerSession'
    <2>1. \A u \in Tokens : Live(u)' => Live(u) /\ token'[u] = token[u]
      BY <1>1, <1>10 DEF Drop, Live, TypeOK
    <2>2. UNCHANGED <<call, version, issued, revoked>>
      BY <1>10 DEF Drop
    <2> QED BY <1>1, <2>1, <2>2 DEF Bound, Dated, OneTokenPerSession, Exchanging, At
  <1>11. CASE UNCHANGED vars \/ LinkExpires \/ \E k \in Limits : WindowEnds(k)
    BY <1>2, <1>11 DEF vars, LinkExpires, WindowEnds
  <1>12. ASSUME NEW c \in Callers, Check(c) \/ SendLink(c) \/ Fail(c)
         PROVE  Bound' /\ Dated' /\ OneTokenPerSession'
    <2>1. CASE Check(c) /\ call[c].version = version
      BY <2>1, <1>5
    <2>2. CASE ~(Check(c) /\ call[c].version = version)
      BY <2>2, <1>1, <1>4, <1>12, OverSteps DEF SendLink, Fail, Check
    <2> QED BY <2>1, <2>2
  <1> QED
    BY <1>3, <1>6, <1>7, <1>8, <1>9, <1>10, <1>11, <1>12 DEF Next, Elsewhere

(* "Refresh rotation uses GETDEL (atomic read-and-delete) so concurrent     *)
(* refreshes cannot both succeed": however calls overlap and fail, a        *)
(* session never has two refresh tokens, nor two calls that may store its   *)
(* next one.                                                                *)
THEOREM RotationIsSingleUse == Spec => []OneTokenPerSession
  <1>1. IInv => OneTokenPerSession
    BY DEF IInv
  <1> QED BY <1>1, Initially, IInvStep, PTL DEF Spec

(* "any refresh token issued under a previous version becomes invalid": no  *)
(* token that was stored before a change of the password ended is accepted  *)
(* after it, also if a refresh had taken it by then.                        *)
THEOREM ChangesRevoke == Spec => RevokedStayRevoked
  <1>1. IInv /\ [Next]_vars =>
            \A c \in Callers : Check(c) /\ At(c, "version")' => call[c].token > revoked
    <2> SUFFICES ASSUME IInv, NEW c \in Callers, Check(c), At(c, "version")'
                 PROVE  call[c].token > revoked
      OBVIOUS
    <2>1. call[c].version = version
      <3> SUFFICES ASSUME call[c].version # version PROVE FALSE
        OBVIOUS
      <3>1. call'[c] = Idle
        BY OverSteps DEF IInv, Over
      <3> QED BY <3>1, IdleType DEF At
    <2> QED BY <2>1, Numbers DEF IInv, Dated, Check, At
  <1> QED BY <1>1, Initially, IInvStep, PTL DEF Spec, RevokedStayRevoked

-----------------------------------------------------------------------------
(* The interceptor and the auth store of the mobile app: theorems about     *)
(* MobileClient.                                                            *)

(* Where a task is, and its pair. What one task does leaves the others      *)
(* alone, or sends or rejects those that wait for a refresh.                *)
Rests(u) == u \in Requests /\ ~Changing(u) /\ ~Changing(u)'

Moves(t, p, n) ==
    /\ task' \in [Tasks -> TaskState]
    /\ task'[t].pc = p /\ task'[t].pair = n
    /\ \A u \in Tasks : u # t => task'[u] = task[u] \/ Rests(u)

(* What a task has in hand.                                                 *)
LEMMA TaskFields ==
  ASSUME AppTypeOK
  PROVE  /\ \A t \in Tasks : /\ task[t] \in TaskState /\ task[t].pc \in Steps
                             /\ task[t].pair \in Pairs \union {NoPair}
         /\ DOMAIN task = Tasks
  BY DEF AppTypeOK, TaskState

(* A task that goes on has a state of its type.                             *)
LEMMA Cells ==
  ASSUME NEW c \in TaskState, NEW p \in Steps, NEW n \in Pairs \union {NoPair}
  PROVE  /\ [c EXCEPT !.pc = p] \in TaskState
         /\ [c EXCEPT !.pc = p, !.retried = TRUE] \in TaskState
         /\ [c EXCEPT !.pc = p, !.pair = n] \in TaskState
         /\ [c EXCEPT !.pc = p, !.retried = TRUE, !.pair = n] \in TaskState
  BY DEF TaskState

(* A task that has nothing in hand is idle.                                 *)
LEMMA IdleCell == IdleTask \in TaskState /\ IdleTask.pc = "idle" /\ IdleTask.pair = NoPair
  BY DEF TaskState, IdleTask, Steps

(* A task goes on with a state.                                             *)
LEMMA MovesInto ==
  ASSUME AppTypeOK, NEW t \in Tasks, NEW c \in TaskState, task' = [task EXCEPT ![t] = c]
  PROVE  Moves(t, c.pc, c.pair)
  BY TaskFields DEF Moves, AppTypeOK

(* A task goes on with a new state.                                         *)
LEMMA MovesFromIdle ==
  ASSUME AppTypeOK, NEW t \in Tasks, NEW p \in Steps, NEW n \in Pairs \union {NoPair},
         NEW k \in {"data", "login"}
  PROVE  /\ task' = [task EXCEPT ![t] = [IdleTask EXCEPT !.pc = p, !.pair = n]] => Moves(t, p, n)
         /\ task' = [task EXCEPT ![t] = [IdleTask EXCEPT !.pc = p, !.kind = k, !.pair = n]] =>
                Moves(t, p, n)
         /\ task' = [task EXCEPT ![t] = [IdleTask EXCEPT !.pc = p]] => Moves(t, p, NoPair)
         /\ task' = [task EXCEPT ![t] = IdleTask] => Moves(t, "idle", NoPair)
  <1> DEFINE c == [IdleTask EXCEPT !.pc = p, !.pair = n]
             d == [IdleTask EXCEPT !.pc = p, !.kind = k, !.pair = n]
             e == [IdleTask EXCEPT !.pc = p]
  <1>1. c \in TaskState /\ c.pc = p /\ c.pair = n
    BY DEF IdleTask, TaskState
  <1>2. d \in TaskState /\ d.pc = p /\ d.pair = n
    BY DEF IdleTask, TaskState
  <1>3. e \in TaskState /\ e.pc = p /\ e.pair = NoPair
    BY DEF IdleTask, TaskState
  <1> HIDE DEF c, d, e
  <1>4. task' = [task EXCEPT ![t] = c] => Moves(t, p, n)
    BY <1>1, MovesInto
  <1>5. task' = [task EXCEPT ![t] = d] => Moves(t, p, n)
    BY <1>2, MovesInto
  <1>6. task' = [task EXCEPT ![t] = e] => Moves(t, p, NoPair)
    BY <1>3, MovesInto
  <1>7. task' = [task EXCEPT ![t] = IdleTask] => Moves(t, "idle", NoPair)
    BY IdleCell, MovesInto
  <1> QED
    BY <1>4, <1>5, <1>6, <1>7, Zenon DEF c, d, e

(* A task goes on to a step and keeps its pair.                             *)
LEMMA MovesTo ==
  ASSUME AppTypeOK, NEW t \in Tasks, NEW p \in Steps, task' = [task EXCEPT ![t].pc = p]
  PROVE  Moves(t, p, task[t].pair)
  <1> DEFINE c == [task[t] EXCEPT !.pc = p]
  <1>1. c \in TaskState /\ c.pc = p /\ c.pair = task[t].pair
    BY TaskFields, Cells DEF TaskState
  <1>2. task' = [task EXCEPT ![t] = c]
    BY TaskFields
  <1> HIDE DEF c
  <1> QED
    BY <1>1, <1>2, MovesInto

(* A task goes on to a step with a pair.                                    *)
LEMMA MovesWith ==
  ASSUME AppTypeOK, NEW t \in Tasks, NEW p \in Steps, NEW n \in Pairs \union {NoPair},
         task' = [task EXCEPT ![t].pc = p, ![t].pair = n]
  PROVE  Moves(t, p, n)
  <1> DEFINE c == [task[t] EXCEPT !.pc = p, !.pair = n]
  <1>1. c \in TaskState /\ c.pc = p /\ c.pair = n
    BY TaskFields, Cells DEF TaskState
  <1>2. task' = [task EXCEPT ![t] = c]
    BY TaskFields
  <1> HIDE DEF c
  <1> QED
    BY <1>1, <1>2, MovesInto

(* A request has been denied and keeps its pair.                            *)
LEMMA MovesAgain ==
  ASSUME AppTypeOK, NEW t \in Tasks, NEW p \in Steps,
         task' = [task EXCEPT ![t].pc = p, ![t].retried = TRUE]
  PROVE  Moves(t, p, task[t].pair)
  <1> DEFINE c == [task[t] EXCEPT !.pc = p, !.retried = TRUE]
  <1>1. c \in TaskState /\ c.pc = p /\ c.pair = task[t].pair
    BY TaskFields, Cells DEF TaskState
  <1>2. task' = [task EXCEPT ![t] = c]
    BY TaskFields
  <1> HIDE DEF c
  <1> QED
    BY <1>1, <1>2, MovesInto

(* A request has been denied and begins a refresh.                          *)
LEMMA MovesAgainWith ==
  ASSUME AppTypeOK, NEW t \in Tasks, NEW p \in Steps, NEW n \in Pairs \union {NoPair},
         task' = [task EXCEPT ![t].pc = p, ![t].retried = TRUE, ![t].pair = n]
  PROVE  Moves(t, p, n)
  <1> DEFINE c == [task[t] EXCEPT !.pc = p, !.retried = TRUE, !.pair = n]
  <1>0. task[t] \in TaskState
    BY TaskFields
  <1>1. c \in TaskState /\ c.pc = p /\ c.pair = n
    <2>1. c \in TaskState
      BY <1>0, Cells
    <2> QED
      BY <1>0, <2>1 DEF TaskState
  <1>2. task' = [task EXCEPT ![t] = c]
    BY TaskFields
  <1> HIDE DEF c
  <1> QED
    BY <1>1, <1>2, MovesInto

(* A task goes on, and the waiters are sent again or rejected.              *)
LEMMA MovesDraining ==
  ASSUME AppTypeOK, NEW t \in Tasks, NEW c \in TaskState, NEW after,
         \A u \in Waiters : after[u] \in TaskState /\ after[u].pc \in {"idle", "wire"},
         task' = Drained(t, c, after)
  PROVE  Moves(t, c.pc, c.pair)
  <1>1. \A u \in Waiters : u # t => task'[u] = after[u] /\ Rests(u)
    BY TaskFields DEF Drained, Waiters, Tasks, Rests, Changing, TaskAt
  <1>2. \A u \in Tasks \ Waiters : u # t => task'[u] = task[u]
    BY DEF Drained
  <1>3. task'[t] = c /\ task' \in [Tasks -> TaskState]
    BY TaskFields DEF Drained
  <1> QED
    BY <1>1, <1>2, <1>3 DEF Moves

(* The steps of the interceptor from a 401 to the end of its refresh or of  *)
(* the sign-out that follows: isRefreshing is set on all of them, so that   *)
(* one request at most is there. Nothing runs before the app starts.        *)
Path == {"refreshing", "rotated", "saved", "refused", "forgotten", "leaving", "cleared"}
OnPath(r) == task[r].pc \in Path
BootSteps == {"idle", "refreshing", "granted", "kept", "refused", "forgotten"}
OutSteps == {"idle", "logout", "logged", "cleared"}

PathInv ==
    /\ \A r \in Requests : task[r].pc \notin {"logout", "logged"}
    /\ task["boot"].pc \in BootSteps /\ task["out"].pc \in OutSteps
    /\ \A r \in Requests : OnPath(r) => isRefreshing
    /\ \A r, s \in Requests : OnPath(r) /\ OnPath(s) => r = s
    /\ status = "idle" => refresh = NoPair /\ \A t \in Tasks : TaskAt(t, "idle")

(* A task goes on: what its step must respect for PathInv.                  *)
LEMMA PathMoves ==
  ASSUME AppTypeOK, PathInv, NEW t \in Tasks, NEW p, NEW n, Moves(t, p, n), status' # "idle",
         t \in Requests => p \notin {"logout", "logged"},
         t = "boot" => p \in BootSteps, t = "out" => p \in OutSteps,
         t \in Requests /\ p \in Path => isRefreshing' /\ (OnPath(t) \/ ~isRefreshing),
         isRefreshing => isRefreshing' \/ (t \in Requests /\ OnPath(t) /\ p \notin Path)
  PROVE  PathInv'
  <1>0. "boot" \notin Requests /\ "out" \notin Requests /\ {"boot", "out"} \subseteq Tasks
        /\ Requests \subseteq Tasks
    BY MobileAssumption DEF Tasks
  <1>1. \A u \in Tasks : u # t => task'[u].pc = task[u].pc
                               \/ task'[u].pc \in {"idle", "wire", "denied", "queued"}
    BY DEF Moves, Rests, Changing
  <1>2. \A u \in Requests : u # t /\ OnPath(u)' => OnPath(u)
    BY <1>0, <1>1 DEF OnPath, Path
  <1>3. OnPath(t)' <=> p \in Path
    BY DEF Moves, OnPath
  <1>4. \A r \in Requests : task'[r].pc \notin {"logout", "logged"}
    BY <1>0, <1>1 DEF PathInv, Moves
  <1>5. task'["boot"].pc \in BootSteps /\ task'["out"].pc \in OutSteps
    BY <1>0 DEF PathInv, Moves, Rests
  <1>6. \A r \in Requests : OnPath(r)' => isRefreshing'
    BY <1>2, <1>3, Zenon DEF PathInv
  <1>7. \A r, s \in Requests : OnPath(r)' /\ OnPath(s)' => r = s
    BY <1>2, <1>3, Zenon DEF PathInv
  <1> QED
    BY <1>4, <1>5, <1>6, <1>7 DEF PathInv

(* A step that leaves whoever changes the session, and the session, alone.  *)
Quiet ==
    /\ UNCHANGED <<issuedPairs, live, store, stored, isRefreshing, presented, torn>>
    /\ task' \in [Tasks -> TaskState]
    /\ \A u \in Tasks : task'[u] = task[u] \/ (Rests(u) /\ status # "idle")
    
(* A quiet step keeps PathInv.                                              *)
LEMMA PathQuiet ==
  ASSUME AppTypeOK, PathInv, Quiet
  PROVE  PathInv'
  <1>0. "boot" \notin Requests /\ "out" \notin Requests /\ {"boot", "out"} \subseteq Tasks
        /\ Requests \subseteq Tasks
    BY MobileAssumption DEF Tasks
  <1>1. \A u \in Tasks : task'[u].pc = task[u].pc
                        \/ (task'[u].pc \in {"idle", "wire", "denied", "queued"} /\ status # "idle")
    BY DEF Quiet, Rests, Changing
  <1>2. \A u \in Requests : OnPath(u)' => OnPath(u)
    BY <1>0, <1>1 DEF OnPath, Path
  <1>3. isRefreshing' = isRefreshing /\ status' = status /\ refresh' = refresh
    BY DEF Quiet, store
  <1>4. \A r \in Requests : OnPath(r)' => isRefreshing'
    BY <1>2, <1>3, Zenon DEF PathInv
  <1>5. \A r, s \in Requests : OnPath(r)' /\ OnPath(s)' => r = s
    BY <1>2, <1>3, Zenon DEF PathInv
  <1>6. \A r \in Requests : task'[r].pc \notin {"logout", "logged"}
    BY <1>0, <1>1 DEF PathInv
  <1>7. task'["boot"] = task["boot"] /\ task'["out"] = task["out"]
    BY <1>0 DEF Quiet, Rests
  <1> QED
    BY <1>1, <1>3, <1>4, <1>5, <1>6, <1>7 DEF PathInv, TaskAt

(* A coroutine that has a new pair in hand: nobody else has it, nobody has  *)
(* presented it, and it is not yet in memory.                               *)
Fresh == {"rotated", "saved", "granted", "kept"}
Holds(t) == task[t].pc \in Fresh
(* A token that has been presented may stay in memory while the request     *)
(* that presented it is under way, and in the secure store while its        *)
(* successor is not stored: unless an answer was torn.                      *)
RefreshOut == {"refreshing", "rotated", "saved", "refused", "forgotten"}
StoredOut == {"refreshing", "rotated", "refused"}

HeldPairsAreNew ==
    /\ \A t \in Tasks : Holds(t) => /\ task[t].pair \in 1 .. issuedPairs
                                    /\ task[t].pair \notin presented
                                    /\ task[t].pair # refresh
    /\ \A t, u \in Tasks : Holds(t) /\ Holds(u) /\ task[t].pair = task[u].pair => t = u

PresentedAreReplaced ==
    ~torn => /\ refresh \in presented => \E r \in Requests : task[r].pc \in RefreshOut
             /\ stored \in presented => \/ \E t \in Tasks : task[t].pc \in StoredOut
                                        \/ TaskAt("boot", "granted")

OnceInv ==
    /\ presented \subseteq 1 .. issuedPairs /\ refresh <= issuedPairs /\ stored <= issuedPairs
    /\ HeldPairsAreNew
    /\ PresentedAreReplaced

(* Pairs are numbers.                                                       *)
LEMMA IssuedIsNat == AppTypeOK => /\ issuedPairs \in Nat /\ refresh \in Nat /\ stored \in Nat
                                  /\ \A t \in Tasks : task[t].pair \in Nat
  BY TaskFields, MobileAssumption DEF AppTypeOK, Pairs, NoPair

(* A task goes on: the pairs in hand stay new if its pair is the one it had *)
(* in hand, or a new one, and if nothing was presented or taken into the    *)
(* store but what was there.                                                *)
LEMMA HeldMoves ==
  ASSUME AppTypeOK, OnceInv, NEW t \in Tasks, NEW p, NEW n, Moves(t, p, n),
         issuedPairs' \in Nat, issuedPairs <= issuedPairs',
         presented' \subseteq presented \union {refresh},
         \/ refresh' = refresh \/ refresh' = NoPair
         \/ Holds(t) /\ refresh' = task[t].pair,
         p \in Fresh => /\ n \in 1 .. issuedPairs' /\ n \notin presented' /\ n # refresh'
                        /\ (Holds(t) /\ n = task[t].pair) \/ n > issuedPairs
  PROVE  HeldPairsAreNew'
  <1>1. Holds(t)' <=> p \in Fresh
    BY DEF Holds, Moves
  <1>2. ASSUME NEW u \in Tasks, u # t, Holds(u)'
        PROVE  task'[u] = task[u] /\ Holds(u)
    BY <1>2 DEF Moves, Holds, Rests, Changing, Fresh
  <1>3. ASSUME NEW u \in Tasks, Holds(u)'
        PROVE  /\ task'[u].pair \in 1 .. issuedPairs' /\ task'[u].pair \notin presented'
               /\ task'[u].pair # refresh'
    <2>1. CASE u = t
      <3>1. p \in Fresh /\ task'[u].pair = n
        BY <2>1, <1>1, <1>3, Zenon DEF Moves
      <3>2. n \in 1 .. issuedPairs' /\ n \notin presented' /\ n # refresh'
        BY <3>1, Zenon
      <3> QED
        BY <3>1, <3>2, Zenon
    <2>2. CASE u # t
      <3>1. task'[u] = task[u] /\ Holds(u)
        BY <1>2, <1>3, <2>2
      <3>2. task[u].pair \in 1 .. issuedPairs /\ task[u].pair \notin presented
            /\ task[u].pair # refresh
        BY <3>1 DEF OnceInv, HeldPairsAreNew
      <3>3. Holds(t) => task[u].pair # task[t].pair
        BY <3>1, <2>2 DEF OnceInv, HeldPairsAreNew
      <3> QED
        BY <3>1, <3>2, <3>3, IssuedIsNat DEF NoPair
    <2> QED
      BY <2>1, <2>2
  <1>4. ASSUME NEW u \in Tasks, NEW v \in Tasks, Holds(u)', Holds(v)',
               task'[u].pair = task'[v].pair, u # v
        PROVE  FALSE
    <2>1. ASSUME NEW w \in Tasks, w # t, Holds(w)', Holds(t)', task'[w].pair = task'[t].pair
          PROVE  FALSE
      <3>1. task'[w] = task[w] /\ Holds(w) /\ task'[t].pair = n /\ p \in Fresh
        BY <2>1, <1>1, <1>2 DEF Moves
      <3>2. task[w].pair \in 1 .. issuedPairs
        BY <3>1 DEF OnceInv, HeldPairsAreNew
      <3>3. Holds(t) => task[w].pair # task[t].pair
        BY <3>1, <2>1 DEF OnceInv, HeldPairsAreNew
      <3> QED
        BY <3>1, <3>2, <3>3, <2>1, IssuedIsNat
    <2>2. u # t /\ v # t
      BY <2>1, <1>4
    <2>3. Holds(u) /\ Holds(v) /\ task[u].pair = task[v].pair
      BY <2>2, <1>2, <1>4
    <2> QED
      BY <2>3, <1>4 DEF OnceInv, HeldPairsAreNew
  <1> QED
    BY <1>3, <1>4, Zenon DEF HeldPairsAreNew

(* Whoever answers for a presented token goes on answering for it.          *)
LEMMA ReplacedMoves ==
  ASSUME AppTypeOK, OnceInv, NEW t \in Tasks, NEW p, NEW n, Moves(t, p, n), ~torn' => ~torn,
         ~torn' /\ refresh' \in presented' =>
            \/ t \in Requests /\ p \in RefreshOut
            \/ /\ refresh \in presented
               /\ t \in Requests /\ task[t].pc \in RefreshOut => p \in RefreshOut,
         ~torn' /\ stored' \in presented' =>
            \/ p \in StoredOut \/ (t = "boot" /\ p = "granted")
            \/ /\ stored \in presented
               /\ task[t].pc \in StoredOut \/ (t = "boot" /\ TaskAt(t, "granted")) =>
                    p \in StoredOut \/ (t = "boot" /\ p = "granted")
  PROVE  PresentedAreReplaced'
  <1>1. \A u \in Tasks : u # t =>
           /\ task[u].pc \in RefreshOut => task'[u].pc \in RefreshOut
           /\ task[u].pc \in StoredOut => task'[u].pc \in StoredOut
           /\ task[u].pc = "granted" => task'[u].pc = "granted"
    BY DEF Moves, Rests, Changing, RefreshOut, StoredOut
  <1>2. Requests \subseteq Tasks /\ "boot" \in Tasks /\ task'[t].pc = p
    BY DEF Tasks, Moves
  <1>3. ASSUME ~torn', refresh' \in presented'
        PROVE  \E r \in Requests : task'[r].pc \in RefreshOut
    <2>1. CASE t \in Requests /\ p \in RefreshOut
      BY <2>1, <1>2
    <2>2. CASE /\ refresh \in presented
               /\ t \in Requests /\ task[t].pc \in RefreshOut => p \in RefreshOut
      BY <2>2, <1>1, <1>2, <1>3 DEF OnceInv, PresentedAreReplaced
    <2> QED
      BY <2>1, <2>2, <1>3
  <1>4. ASSUME ~torn', stored' \in presented'
        PROVE  (\E u \in Tasks : task'[u].pc \in StoredOut) \/ TaskAt("boot", "granted")'
    <2>1. CASE p \in StoredOut \/ (t = "boot" /\ p = "granted")
      BY <2>1, <1>2 DEF TaskAt
    <2>2. CASE /\ stored \in presented
               /\ task[t].pc \in StoredOut \/ (t = "boot" /\ TaskAt(t, "granted")) =>
                    p \in StoredOut \/ (t = "boot" /\ p = "granted")
      <3>1. CASE TaskAt("boot", "granted")
        BY <3>1, <2>2, <1>1, <1>2 DEF TaskAt
      <3>2. ASSUME NEW u \in Tasks, task[u].pc \in StoredOut
            PROVE  (\E v \in Tasks : task'[v].pc \in StoredOut) \/ TaskAt("boot", "granted")'
        <4>1. CASE u = t
          <5>1. p \in StoredOut \/ (t = "boot" /\ p = "granted")
            BY <4>1, <3>2, <2>2
          <5> QED
            BY <5>1, <1>2, Zenon DEF TaskAt
        <4>2. CASE u # t
          BY <4>2, <3>2, <1>1
        <4> QED
          BY <4>1, <4>2
      <3> QED
        BY <3>1, <3>2, <2>2, <1>4, Zenon DEF OnceInv, PresentedAreReplaced
    <2> QED
      BY <2>1, <2>2, <1>4
  <1> QED
    BY <1>3, <1>4, Zenon DEF PresentedAreReplaced

(* A quiet step keeps OnceInv.                                              *)
LEMMA OnceQuiet ==
  ASSUME AppTypeOK, OnceInv, Quiet
  PROVE  OnceInv'
  <1>1. \A u \in Tasks : \/ task'[u] = task[u]
                         \/ /\ task[u].pc \in {"idle", "wire", "denied", "queued"}
                            /\ task'[u].pc \in {"idle", "wire", "denied", "queued"}
    BY DEF Quiet, Rests, Changing
  <1>2. /\ issuedPairs' = issuedPairs /\ refresh' = refresh /\ stored' = stored
        /\ presented' = presented /\ torn' = torn
    BY DEF Quiet, store
  <1>3. \A u \in Tasks : Holds(u)' => Holds(u) /\ task'[u] = task[u]
    BY <1>1 DEF Holds, Fresh
  <1>4. HeldPairsAreNew'
    BY <1>2, <1>3 DEF OnceInv, HeldPairsAreNew
  <1>5. \A u \in Tasks : /\ task[u].pc \in RefreshOut => task'[u].pc \in RefreshOut
                         /\ task[u].pc \in StoredOut => task'[u].pc \in StoredOut
                         /\ task[u].pc = "granted" => task'[u].pc = "granted"
    BY <1>1 DEF RefreshOut, StoredOut
  <1>6. PresentedAreReplaced'
    <2>1. Requests \subseteq Tasks /\ "boot" \in Tasks
      BY DEF Tasks
    <2>2. TaskAt("boot", "granted") => TaskAt("boot", "granted")'
      BY <1>5, <2>1, Zenon DEF TaskAt
    <2> QED
      BY <1>2, <1>5, <2>1, <2>2, Zenon DEF OnceInv, PresentedAreReplaced
  <1> QED
    BY <1>2, <1>4, <1>6 DEF OnceInv

(* The two stores and the server agree.                                     *)
Agree ==
    /\ status = "authenticated" <=> refresh # NoPair
    /\ stored = refresh /\ stored \in live \union {NoPair}

(* What the only coroutine that changes the session may count on: a login   *)
(* began when the stores agreed, a refresh when the app was signed in; the  *)
(* pair in hand is live, and the secure store has what the coroutine wrote  *)
(* to it.                                                                   *)
Right(t) ==
    /\ TaskAt(t, "granted") /\ t # "boot" => status # "idle" /\ Agree
    /\ t # "boot" /\ task[t].pc \in {"refreshing", "rotated", "saved"} => status = "authenticated"
    /\ Holds(t) => task[t].pair \in live /\ task[t].pair # NoPair
    /\ task[t].pc \in {"kept", "saved"} => stored = task[t].pair
    /\ task[t].pc \in {"forgotten", "cleared"} => stored = NoPair

AgreeInv ==
    ~overlap =>
        /\ \A t, u \in Tasks : Changing(t) /\ Changing(u) => t = u
        /\ (\A t \in Tasks : ~Changing(t)) /\ status # "idle" => Agree
        /\ \A t \in Tasks : Right(t)

(* The conjunct of AppNext that notices overlaps.                           *)
Noticed == overlap' = (overlap \/ Cardinality({t \in Tasks : Changing(t)'}) > 1)

(* As long as no overlap was noticed, at most one task changes the session. *)
LEMMA NoOverlap ==
  ASSUME Noticed, ~overlap'
  PROVE  ~overlap /\ \A t, u \in Tasks : Changing(t)' /\ Changing(u)' => t = u
  <1> DEFINE C == {t \in Tasks : Changing(t)'}
  <1>1. ~overlap /\ ~(Cardinality(C) > 1)
    BY DEF Noticed
  <1>2. ASSUME NEW t \in C, NEW u \in C, t # u
        PROVE  FALSE
    <2>1. IsFiniteSet(C)
      <3>1. IsFiniteSet({"boot", "out"})
        <4>1. IsFiniteSet({"boot"}) /\ {"boot", "out"} = {"boot"} \union {"out"}
          BY FS_Singleton
        <4> QED
          BY <4>1, FS_AddElement
      <3>2. IsFiniteSet(Tasks)
        BY <3>1, MobileAssumption, FS_Union DEF Tasks
      <3> QED
        BY <3>2, FS_Subset, C \subseteq Tasks
    <2>2. Cardinality({t, u}) = 2 /\ {t, u} \subseteq C
      <3>1. Cardinality({t}) = 1 /\ IsFiniteSet({t})
        BY FS_Singleton
      <3> HIDE DEF C
      <3>2. Cardinality({t} \union {u}) = 2
        BY <3>1, <1>2, FS_AddElement
      <3> QED
        BY <3>2, {t} \union {u} = {t, u}
    <2> HIDE DEF C
    <2>3. Cardinality({t, u}) <= Cardinality(C)
      BY <2>1, <2>2, FS_Subset
    <2> QED
      BY <1>1, <2>1, <2>2, <2>3, FS_CardinalityType
  <1>3. \A t, u \in Tasks : Changing(t)' /\ Changing(u)' => t \in C /\ u \in C
    OBVIOUS
  <1> HIDE DEF C
  <1> QED
    BY <1>1, <1>2, <1>3, Zenon

(* A task that changes the session goes on: as long as it is the only one,  *)
(* it has to show nothing but what it leaves itself, or the stores if it is *)
(* done.                                                                    *)
LEMMA AgreeMoves ==
  ASSUME AppTypeOK, AgreeInv, Noticed, NEW t \in Tasks, NEW p, NEW n, Moves(t, p, n),
         Changing(t) \/ Changing(t)',
         Right(t) /\ (~Changing(t) /\ status # "idle" => Agree) =>
            IF Changing(t)' THEN Right(t)' ELSE status' # "idle" => Agree'
  PROVE  AgreeInv'
  <1> SUFFICES ASSUME ~overlap'
               PROVE  /\ \A u, v \in Tasks : Changing(u)' /\ Changing(v)' => u = v
                      /\ (\A u \in Tasks : ~Changing(u)') /\ status' # "idle" => Agree'
                      /\ \A u \in Tasks : Right(u)'
    BY Zenon DEF AgreeInv
  <1>1. ~overlap /\ \A u, v \in Tasks : Changing(u)' /\ Changing(v)' => u = v
    BY NoOverlap
  <1>2. \A u \in Tasks : u # t => (Changing(u)' <=> Changing(u))
    BY DEF Moves, Rests, Changing
  <1>3. Right(t) /\ (~Changing(t) /\ (\A u \in Tasks : ~Changing(u)) /\ status # "idle" => Agree)
        /\ \A u \in Tasks : Changing(t) /\ Changing(u) => u = t
    BY <1>1, Zenon DEF AgreeInv
  <1>4. ASSUME NEW u \in Tasks, ~Changing(u)'
        PROVE  Right(u)'
    BY <1>4 DEF Changing, Right, TaskAt, Holds, Fresh
  <1>5. CASE Changing(t)'
    <2>1. \A u \in Tasks : u # t => ~Changing(u)' /\ ~Changing(u)
      BY <1>1, <1>2, <1>5, Zenon
    <2>2. Right(t)'
      BY <1>3, <1>5, <2>1, Zenon
    <2> QED
      BY <1>1, <1>4, <1>5, <2>1, <2>2, Zenon
  <1>6. CASE ~Changing(t)'
    <2>1. CASE \A u \in Tasks : ~Changing(u)'
      <3>1. \A u \in Tasks : u # t => ~Changing(u)
        BY <1>2, <2>1, Zenon
      <3>2. status' # "idle" => Agree'
        BY <1>3, <1>6, <3>1, Zenon
      <3> QED
        BY <1>1, <1>4, <2>1, <3>2, Zenon
    <2>2. ASSUME NEW v \in Tasks, Changing(v)'
          PROVE  FALSE
      BY <1>2, <1>3, <1>6, <2>2, Zenon
    <2> QED
      BY <1>1, <2>1, <2>2, Zenon
  <1> QED
    BY <1>5, <1>6

(* A quiet step keeps AgreeInv.                                             *)
LEMMA AgreeQuiet ==
  ASSUME AppTypeOK, AgreeInv, Noticed, Quiet
  PROVE  AgreeInv'
  <1> SUFFICES ASSUME ~overlap'
               PROVE  /\ \A u, v \in Tasks : Changing(u)' /\ Changing(v)' => u = v
                      /\ (\A u \in Tasks : ~Changing(u)') /\ status' # "idle" => Agree'
                      /\ \A u \in Tasks : Right(u)'
    BY Zenon DEF AgreeInv
  <1>1. ~overlap /\ \A u, v \in Tasks : Changing(u)' /\ Changing(v)' => u = v
    BY NoOverlap
  <1>2. \A u \in Tasks : (Changing(u)' <=> Changing(u)) /\ (Changing(u) => task'[u] = task[u])
    BY DEF Quiet, Rests, Changing
  <1>3. status' = status /\ (Agree <=> Agree')
    BY DEF Quiet, store, Agree
  <1>4. ASSUME NEW u \in Tasks
        PROVE  Right(u)'
    <2>1. CASE ~Changing(u)
      BY <2>1, <1>2 DEF Changing, Right, TaskAt, Holds, Fresh
    <2>2. CASE Changing(u)
      <3>1. Right(u) /\ task'[u] = task[u] /\ live' = live /\ stored' = stored
        BY <1>1, <1>2, <2>2 DEF AgreeInv, Quiet
      <3> QED
        BY <3>1, <1>3, Zenon DEF Right, TaskAt, Holds
    <2> QED
      BY <2>1, <2>2
  <1>5. (\A u \in Tasks : ~Changing(u)') /\ status' # "idle" => Agree'
    BY <1>1, <1>2, <1>3, Zenon DEF AgreeInv
  <1> QED
    BY <1>1, <1>4, <1>5, Zenon

(* The inductive invariant.                                                 *)
AppInv == AppTypeOK /\ PathInv /\ OnceInv /\ AgreeInv

(* hydrate() and signOut() are not requests.                                *)
LEMMA TaskNames ==
  /\ "boot" \in Tasks /\ "out" \in Tasks /\ "boot" \notin Requests /\ "out" \notin Requests
  /\ Requests \subseteq Tasks /\ \A t \in Tasks : t \notin Requests => t \in {"boot", "out"}
  BY MobileAssumption DEF Tasks

(* A quiet step keeps the invariant.                                        *)
LEMMA QuietKeeps ==
  ASSUME AppInv, Noticed, Quiet, valid' \subseteq Pairs, gaveUp' \in BOOLEAN, access' = access
  PROVE  AppInv'
  <1>1. AppTypeOK'
    <2>1. overlap' \in BOOLEAN /\ torn' \in BOOLEAN
      BY Zenon DEF Noticed, Quiet, AppInv, AppTypeOK
    <2>2. isRefreshing' \in BOOLEAN
      BY Zenon DEF Quiet, AppInv, AppTypeOK
    <2> QED
      BY <2>1, <2>2 DEF Quiet, AppInv, AppTypeOK, store
  <1> QED
    BY <1>1, PathQuiet, OnceQuiet, AgreeQuiet, Zenon DEF AppInv

(* The start of the app keeps the invariant: it may present the stored      *)
(* token.                                                                   *)
LEMMA BootStep ==
  ASSUME AppInv, Noticed, Boot
  PROVE  AppInv'
  <1> USE DEF AppInv
  <1>1. /\ \A t \in Tasks : TaskAt(t, "idle")
        /\ refresh = NoPair /\ status = "idle"
        /\ UNCHANGED <<server, access, refresh, stored, torn, gaveUp>>
        /\ isRefreshing' = isRefreshing
    BY Zenon DEF Boot, PathInv
  <1>2. \A r \in Requests : ~OnPath(r)
    BY <1>1, TaskNames DEF TaskAt, OnPath, Path
  <1>3. CASE stored = NoPair
    <2>1. status' = "unauthenticated" /\ task' = task /\ presented' = presented
      BY <1>3 DEF Boot
    <2>2. AppTypeOK'
      <3>1. {torn', gaveUp', overlap'} \subseteq BOOLEAN /\ isRefreshing' \in BOOLEAN
        BY <1>1, Zenon DEF Noticed, AppTypeOK
      <3> QED
        BY <1>1, <2>1, <3>1 DEF AppTypeOK, server
    <2>3. PathInv'
      BY <1>1, <2>1, Zenon DEF PathInv, OnPath
    <2>4. OnceInv'
      BY <1>1, <2>1, Zenon DEF OnceInv, HeldPairsAreNew, PresentedAreReplaced, Holds, TaskAt, server
    <2>5. AgreeInv'
      <3>1. \A t \in Tasks : ~Changing(t)' /\ Right(t)'
        BY <1>1, <2>1 DEF Changing, TaskAt, Right, Holds, Fresh
      <3>2. Agree'
        BY <1>1, <1>3, <2>1 DEF Agree
      <3> QED
        BY <3>1, <3>2, Zenon DEF AgreeInv
    <2> QED
      BY <2>2, <2>3, <2>4, <2>5
  <1>4. CASE stored # NoPair
    <2>1. status' = "hydrating" /\ presented' = presented \union {stored} /\ stored \in Pairs
      BY <1>4 DEF Boot, Present, AppTypeOK
    <2>2. Moves("boot", "refreshing", stored)
      <3>1. "refreshing" \in Steps /\ "boot" \in Tasks /\ stored \in Pairs \union {NoPair}
        BY <2>1, TaskNames DEF Steps
      <3> QED
        BY <1>4, <3>1, MovesFromIdle, Zenon DEF Boot
    <2>3. AppTypeOK'
      <3>1. {torn', gaveUp', overlap'} \subseteq BOOLEAN /\ isRefreshing' \in BOOLEAN
        BY <1>1, Zenon DEF Noticed, AppTypeOK
      <3> QED
        BY <1>1, <2>1, <2>2, <3>1 DEF AppTypeOK, server, Moves
    <2>4. PathInv'
      BY <1>1, <2>1, <2>2, TaskNames, PathMoves DEF BootSteps
    <2>5. OnceInv'
      <3>1. /\ issuedPairs' = issuedPairs /\ refresh' = refresh /\ stored' = stored /\ torn' = torn
            /\ presented' = presented \union {stored} /\ stored \in 1 .. issuedPairs
            /\ "refreshing" \notin Fresh /\ "refreshing" \in StoredOut
        BY <1>1, <1>4, <2>1, IssuedIsNat DEF server, OnceInv, NoPair, Fresh, StoredOut
      <3>2. HeldPairsAreNew'
        <4>1. \A t \in Tasks : ~Holds(t)'
          BY <1>1, <2>2, <3>1 DEF Moves, Holds, TaskAt, Fresh, Rests, Changing
        <4> QED
          BY <4>1, Zenon DEF HeldPairsAreNew
      <3>3. PresentedAreReplaced'
        BY <1>1, <2>2, <3>1, TaskNames, ReplacedMoves DEF OnceInv, RefreshOut, NoPair
      <3> QED
        BY <3>1, <3>2, <3>3 DEF OnceInv
    <2>6. AgreeInv'
      <3>1. Changing("boot")' /\ Right("boot")'
        BY <2>2 DEF Moves, Changing, Right, TaskAt, Holds, Fresh
      <3> QED
        BY <2>2, <3>1, TaskNames, AgreeMoves
    <2> QED
      BY <2>3, <2>4, <2>5, <2>6
  <1> QED
    BY <1>3, <1>4

(* A request that does not change the session goes on quietly.              *)
LEMMA QuietMoves ==
  ASSUME AppInv, NEW r \in Requests, NEW p, NEW n, Moves(r, p, n), ~Changing(r), ~Changing(r)',
         status # "idle",
         UNCHANGED <<issuedPairs, live, store, stored, isRefreshing, presented, torn>>
  PROVE  Quiet
  BY DEF Moves, Rests, Quiet

(* A call of the API keeps it.                                              *)
LEMMA SendStep ==
  ASSUME AppInv, Noticed, NEW r \in Requests, Send(r)
  PROVE  AppInv'
  <1>1. Moves(r, "wire", access)
    <2>1. "wire" \in Steps /\ r \in Tasks /\ access \in Pairs \union {NoPair}
      BY TaskNames DEF Steps, AppInv, AppTypeOK
    <2> QED
      BY <2>1, MovesFromIdle, Zenon DEF Send, AppInv
  <1>2. Quiet
    BY <1>1, QuietMoves DEF Send, Moves, Changing, TaskAt, server, history
  <1> QED
    BY <1>2, QuietKeeps DEF Send, server, store, history, AppInv, AppTypeOK

(* So does an access token that expires.                                    *)
LEMMA ExpireStep ==
  ASSUME AppInv, Noticed, Expire
  PROVE  AppInv'
  BY QuietKeeps DEF Expire, Quiet, history, store, AppInv, AppTypeOK

(* A pair is issued.                                                        *)
LEMMA IssueTypes ==
  ASSUME AppTypeOK, Noticed, task' \in [Tasks -> TaskState], issuedPairs < MaxPairs,
         issuedPairs' = issuedPairs + 1, NEW used, live' = (live \ used) \union {issuedPairs'},
         valid' = valid \union {issuedPairs'}, UNCHANGED <<store, stored, isRefreshing, history>>
  PROVE  AppTypeOK'
  <1>1. {torn', gaveUp', overlap'} \subseteq BOOLEAN /\ isRefreshing' \in BOOLEAN
    BY Zenon DEF Noticed, AppTypeOK, history
  <1>2. issuedPairs' \in 0 .. MaxPairs /\ issuedPairs' \in Pairs
    BY MobileAssumption DEF AppTypeOK, Pairs
  <1> QED
    BY <1>1, <1>2 DEF AppTypeOK, store, history

(* Whoever it is issued to holds it, and nobody has presented it.           *)
LEMMA IssueOnce ==
  ASSUME AppTypeOK, OnceInv, NEW t \in Tasks, NEW p \in Fresh, Moves(t, p, issuedPairs'),
         issuedPairs' = issuedPairs + 1, UNCHANGED <<store, stored, presented, torn>>,
         t \in Requests /\ task[t].pc \in RefreshOut => p \in RefreshOut,
         task[t].pc \in StoredOut => p \in StoredOut \/ (t = "boot" /\ p = "granted"),
         ~TaskAt(t, "granted")
  PROVE  OnceInv'
  <1>1. /\ issuedPairs \in Nat /\ refresh \in Nat /\ stored \in Nat
        /\ refresh' = refresh /\ stored' = stored
    BY IssuedIsNat DEF store
  <1>2. /\ issuedPairs' \in Nat /\ issuedPairs <= issuedPairs' /\ issuedPairs' \in 1 .. issuedPairs'
        /\ issuedPairs' > issuedPairs
    BY <1>1
  <1>3. issuedPairs' \notin presented' /\ issuedPairs' # refresh'
    BY <1>1, <1>2 DEF OnceInv
  <1>4. HeldPairsAreNew'
    BY <1>1, <1>2, <1>3, HeldMoves
  <1>5. PresentedAreReplaced'
    BY <1>1, ReplacedMoves
  <1> QED
    BY <1>1, <1>2, <1>4, <1>5 DEF OnceInv

(* An answer to a request keeps it; a login is issued a pair.               *)
LEMMA ServeStep ==
  ASSUME AppInv, Noticed, NEW r \in Requests, Serve(r)
  PROVE  AppInv'
  <1> USE DEF AppInv
  <1>1. r \in Tasks /\ r # "boot" /\ r # "out" /\ status # "idle" /\ task[r].pc = "wire"
    BY TaskNames DEF Serve, PathInv, TaskAt
  <1>2. UNCHANGED <<store, stored, isRefreshing, history>>
    BY DEF Serve
  <1>3. CASE /\ task' = [task EXCEPT ![r] = IdleTask]
             /\ UNCHANGED server
    <2>1. Moves(r, "idle", NoPair)
      BY <1>1, <1>3, MovesInto, IdleCell
    <2>2. Quiet
      BY <1>1, <1>2, <1>3, <2>1, QuietMoves DEF Moves, Changing, TaskAt, server, history
    <2> QED
      BY <1>2, <1>3, <2>2, QuietKeeps DEF server, store, history, AppTypeOK
  <1>4. CASE /\ task' = [task EXCEPT ![r].pc = "denied"]
             /\ UNCHANGED server
    <2>1. Moves(r, "denied", task[r].pair)
      BY <1>1, <1>4, MovesTo DEF Steps
    <2>2. Quiet
      BY <1>1, <1>2, <1>4, <2>1, QuietMoves DEF Moves, Changing, TaskAt, server, history
    <2> QED
      BY <1>2, <1>4, <2>2, QuietKeeps DEF server, store, history, AppTypeOK
  <1>5. CASE /\ issuedPairs < MaxPairs
             /\ issuedPairs' = issuedPairs + 1
             /\ live' = live \union {issuedPairs'} /\ valid' = valid \union {issuedPairs'}
             /\ task' = [task EXCEPT ![r].pc = "granted", ![r].pair = issuedPairs']
    <2>0. issuedPairs' \in Pairs /\ issuedPairs' # NoPair
      BY <1>5, MobileAssumption DEF AppTypeOK, Pairs, NoPair
    <2>1. Moves(r, "granted", issuedPairs')
      BY <1>1, <1>5, <2>0, MovesWith DEF Steps
    <2>2. AppTypeOK'
      <3>1. live' = (live \ {}) \union {issuedPairs'}
        BY <1>5
      <3> QED
        BY <1>2, <1>5, <2>1, <3>1, IssueTypes DEF Moves
    <2>3. PathInv'
      BY <1>1, <1>2, <2>1, TaskNames, PathMoves DEF Path, store
    <2>4. OnceInv'
      BY <1>1, <1>2, <1>5, <2>1, IssueOnce DEF Fresh, RefreshOut, StoredOut, history, TaskAt
    <2>5. AgreeInv'
      <3>1. Changing(r)' /\ ~Changing(r)
        BY <1>1, <2>1 DEF Changing, Moves
      <3>2. Agree => Right(r)'
        BY <1>1, <1>2, <1>5, <2>0, <2>1 DEF Right, Agree, TaskAt, Holds, Fresh, Moves, store
      <3> QED
        BY <1>1, <2>1, <3>1, <3>2, AgreeMoves
    <2> QED
      BY <2>2, <2>3, <2>4, <2>5
  <1> QED
    BY <1>3, <1>4, <1>5, Zenon DEF Serve

(* An answer to a refresh keeps it: the only step that uses a pair up.      *)
LEMMA ServeRefreshStep ==
  ASSUME AppInv, Noticed, NEW t \in Tasks, ServeRefresh(t)
  PROVE  AppInv'
  <1> USE DEF AppInv
  <1>1. /\ status # "idle" /\ task[t].pc = "refreshing" /\ t # "out" /\ Changing(t)
        /\ t \in Requests => OnPath(t) /\ isRefreshing
    BY TaskNames DEF ServeRefresh, PathInv, TaskAt, OutSteps, Changing, OnPath, Path
  <1>2. UNCHANGED <<store, stored, isRefreshing, history>>
    BY DEF ServeRefresh
  <1>0. status' # "idle" /\ isRefreshing' = isRefreshing
    BY <1>1, <1>2 DEF store
  <1>3. CASE /\ issuedPairs < MaxPairs
             /\ issuedPairs' = issuedPairs + 1
             /\ live' = (live \ {task[t].pair}) \union {issuedPairs'}
             /\ valid' = valid \union {issuedPairs'}
             /\ task' = [task EXCEPT ![t].pc = IF t = "boot" THEN "granted" ELSE "rotated",
                                     ![t].pair = issuedPairs']
    <2> DEFINE p == IF t = "boot" THEN "granted" ELSE "rotated"
    <2>0. issuedPairs' \in Pairs /\ issuedPairs' # NoPair
      BY <1>3, MobileAssumption DEF AppTypeOK, Pairs, NoPair
    <2>p. p \in Steps /\ p \in Fresh
          /\ (t # "boot" => p = "rotated") /\ (t = "boot" => p = "granted")
      BY DEF Steps, Fresh
    <2>1. Moves(t, p, issuedPairs')
      <3> HIDE DEF p
      <3> QED
        BY <1>3, <2>0, <2>p, MovesWith DEF p
    <2> HIDE DEF p
    <2>2. AppTypeOK'
      BY <1>2, <1>3, <2>1, IssueTypes DEF Moves
    <2>3. PathInv'
      BY <1>0, <1>1, <2>1, <2>p, TaskNames, PathMoves DEF BootSteps, Path
    <2>4. OnceInv'
      BY <1>1, <1>2, <1>3, <2>1, <2>p, TaskNames, IssueOnce
         DEF RefreshOut, StoredOut, history, TaskAt
    <2>5. AgreeInv'
      <3>1. Right(t) => Right(t)' /\ Changing(t)'
        BY <1>1, <1>2, <1>3, <2>0, <2>1, <2>p
           DEF Right, TaskAt, Holds, Fresh, Moves, Changing, store
      <3> QED
        BY <1>1, <2>1, <3>1, AgreeMoves
    <2> QED
      BY <2>2, <2>3, <2>4, <2>5
  <1>4. CASE /\ task' = [task EXCEPT ![t].pc = "refused"]
             /\ UNCHANGED server
    <2>1. Moves(t, "refused", task[t].pair)
      BY <1>4, MovesTo DEF Steps
    <2>2. AppTypeOK'
      <3>1. {torn', gaveUp', overlap'} \subseteq BOOLEAN /\ isRefreshing' \in BOOLEAN
        BY <1>2, Zenon DEF Noticed, AppTypeOK, history
      <3> QED
        BY <1>2, <1>4, <2>1, <3>1 DEF AppTypeOK, store, history, server, Moves
    <2>3. PathInv'
      BY <1>0, <1>1, <2>1, TaskNames, PathMoves DEF BootSteps, Path
    <2>4. OnceInv'
      <3>1. UNCHANGED <<issuedPairs, refresh, stored, presented, torn>>
        BY <1>2, <1>4 DEF server, store, history
      <3>2. HeldPairsAreNew'
        BY <2>1, <3>1, HeldMoves, IssuedIsNat DEF Fresh
      <3>3. PresentedAreReplaced'
        BY <1>1, <2>1, <3>1, ReplacedMoves DEF RefreshOut, StoredOut
      <3> QED
        BY <3>1, <3>2, <3>3 DEF OnceInv
    <2>5. AgreeInv'
      <3>1. Right(t)' /\ Changing(t)'
        BY <2>1 DEF Right, TaskAt, Holds, Fresh, Moves, Changing
      <3> QED
        BY <1>1, <2>1, <3>1, AgreeMoves
    <2> QED
      BY <2>2, <2>3, <2>4, <2>5
  <1> QED
    BY <1>3, <1>4, Zenon DEF ServeRefresh

(* A step that changes neither what was issued nor what was presented.      *)
LEMMA OthersKeepTypes ==
  ASSUME AppTypeOK, Noticed, task' \in [Tasks -> TaskState], issuedPairs' = issuedPairs,
         live' \subseteq live, valid' = valid,
         status' \in {"idle", "hydrating", "authenticated", "unauthenticated"},
         {access', refresh', stored'} \subseteq Pairs \union {NoPair},
         isRefreshing' \in {isRefreshing, TRUE, FALSE}, presented' \subseteq Pairs,
         torn' \in {torn, TRUE}, gaveUp' \in {gaveUp, TRUE}
  PROVE  AppTypeOK'
  <1>1. {torn', gaveUp', overlap'} \subseteq BOOLEAN /\ isRefreshing' \in BOOLEAN
    BY Zenon DEF Noticed, AppTypeOK
  <1> QED
    BY <1>1 DEF AppTypeOK

(* The server's part of a logout keeps it.                                  *)
LEMMA LogoutStep ==
  ASSUME AppInv, Noticed, ServeLogout
  PROVE  AppInv'
  <1> USE DEF AppInv
  <1>1. "out" \in Tasks /\ status # "idle" /\ task["out"].pc = "logout" /\ Changing("out")
    BY TaskNames DEF ServeLogout, PathInv, TaskAt, Changing
  <1>2. UNCHANGED <<issuedPairs, valid, store, stored, isRefreshing, history>>
        /\ live' = live \ {task["out"].pair}
    BY DEF ServeLogout
  <1>3. Moves("out", "logged", task["out"].pair)
    BY <1>1, MovesTo DEF ServeLogout, Steps
  <1>4. AppTypeOK'
    BY <1>2, <1>3, OthersKeepTypes DEF Moves, store, history, AppTypeOK
  <1>5. PathInv'
    BY <1>1, <1>2, <1>3, TaskNames, PathMoves DEF OutSteps, store
  <1>6. OnceInv'
    <2>1. UNCHANGED <<issuedPairs, refresh, stored, presented, torn>>
      BY <1>2 DEF store, history
    <2>2. HeldPairsAreNew'
      BY <1>1, <1>3, <2>1, HeldMoves, IssuedIsNat DEF Fresh
    <2>3. PresentedAreReplaced'
      BY <1>1, <1>3, <2>1, TaskNames, ReplacedMoves DEF RefreshOut, StoredOut
    <2> QED
      BY <2>1, <2>2, <2>3 DEF OnceInv
  <1>7. AgreeInv'
    <2>1. Right("out")' /\ Changing("out")'
      BY <1>3 DEF Right, TaskAt, Holds, Fresh, Moves, Changing
    <2> QED
      BY <1>1, <1>3, <2>1, AgreeMoves
  <1> QED
    BY <1>4, <1>5, <1>6, <1>7

(* A task goes on, and nothing is issued or presented: OnceInv stays if the *)
(* token in memory and the stored one are left alone, cleared, or replaced  *)
(* by the pair in hand.                                                     *)
LEMMA OnceKeeps ==
  ASSUME AppTypeOK, OnceInv, NEW t \in Tasks, NEW p, NEW n, Moves(t, p, n),
         issuedPairs' = issuedPairs, presented' = presented, ~torn' => ~torn,
         p \in Fresh => Holds(t) /\ n = task[t].pair /\ refresh' = refresh,
         \/ refresh' = refresh /\ (~torn' /\ t \in Requests /\ task[t].pc \in RefreshOut =>
                                        p \in RefreshOut)
         \/ refresh' = NoPair \/ (Holds(t) /\ refresh' = task[t].pair),
         \/ stored' = stored /\ (~torn' /\ (\/ task[t].pc \in StoredOut
                                            \/ t = "boot" /\ TaskAt(t, "granted")) =>
                                        p \in StoredOut)
         \/ stored' = NoPair \/ (Holds(t) /\ stored' = task[t].pair)
  PROVE  OnceInv'
  <1>1. /\ issuedPairs \in Nat /\ task[t].pair \in Nat /\ refresh \in Nat /\ stored \in Nat
        /\ NoPair \notin presented /\ NoPair = 0
        /\ presented \subseteq 1 .. issuedPairs /\ refresh <= issuedPairs /\ stored <= issuedPairs
    BY IssuedIsNat DEF OnceInv, NoPair
  <1>2. Holds(t) => task[t].pair \in 1 .. issuedPairs /\ task[t].pair \notin presented
                    /\ task[t].pair # refresh
    BY DEF OnceInv, HeldPairsAreNew
  <1>3. HeldPairsAreNew'
    BY <1>1, <1>2, HeldMoves
  <1>4. PresentedAreReplaced'
    <2>1. refresh' \in presented' => refresh' = refresh /\ refresh' # NoPair
                                     /\ ~(Holds(t) /\ refresh' = task[t].pair)
      BY <1>1, <1>2
    <2>2. stored' \in presented' => stored' = stored /\ stored' # NoPair
                                    /\ ~(Holds(t) /\ stored' = task[t].pair)
      BY <1>1, <1>2
    <2>3. ~torn' /\ stored' \in presented' /\ (\/ task[t].pc \in StoredOut
                                               \/ t = "boot" /\ TaskAt(t, "granted"))
          => p \in StoredOut
      BY <2>2
    <2>4. ~torn' /\ refresh' \in presented' =>
            refresh \in presented
            /\ (t \in Requests /\ task[t].pc \in RefreshOut => p \in RefreshOut)
      BY <2>1
    <2> QED
      BY <2>2, <2>3, <2>4, ReplacedMoves
  <1>5. refresh' <= issuedPairs' /\ stored' <= issuedPairs'
    BY <1>1, <1>2
  <1> QED
    BY <1>1, <1>3, <1>4, <1>5 DEF OnceInv

(* A call that is lost keeps it.                                            *)
LEMMA LoseStep ==
  ASSUME AppInv, Noticed, NEW t \in Tasks, Lose(t)
  PROVE  AppInv'
  <1> USE DEF AppInv
  <1>1. UNCHANGED <<server, store, stored, isRefreshing, presented, gaveUp>>
    BY DEF Lose
  <1>2. /\ issuedPairs' = issuedPairs /\ live' = live /\ valid' = valid /\ status' = status
        /\ access' = access /\ refresh' = refresh /\ stored' = stored
        /\ isRefreshing' = isRefreshing /\ presented' = presented /\ gaveUp' = gaveUp
    BY <1>1 DEF server, store
  <1>3. CASE /\ TaskAt(t, "wire") \/ TaskAt(t, "denied")
             /\ task' = [task EXCEPT ![t] = IdleTask] /\ UNCHANGED torn
    <2>1. t \in Requests /\ status # "idle"
      BY <1>3, TaskNames DEF PathInv, TaskAt, BootSteps, OutSteps
    <2>2. Moves(t, "idle", NoPair)
      BY <1>3, MovesInto, IdleCell
    <2>3. Quiet
      BY <1>2, <1>3, <2>1, <2>2, QuietMoves DEF Moves, Changing, TaskAt, store
    <2> QED
      BY <1>2, <2>3, QuietKeeps DEF AppTypeOK
  <1>4. CASE /\ TaskAt(t, "granted") /\ t # "boot"
             /\ task' = [task EXCEPT ![t] = IdleTask] /\ UNCHANGED torn
    <2>1. /\ t \in Requests /\ status # "idle" /\ Changing(t) /\ task[t].pc = "granted"
          /\ t # "out" /\ t # "boot" /\ ~OnPath(t)
      BY <1>4, TaskNames DEF PathInv, TaskAt, OutSteps, Changing, OnPath, Path
    <2>2. Moves(t, "idle", NoPair)
      BY <1>4, MovesInto, IdleCell
    <2>3. AppTypeOK'
      BY <1>2, <1>4, <2>2, OthersKeepTypes DEF Moves, AppTypeOK
    <2>4. PathInv'
      BY <1>2, <2>1, <2>2, PathMoves DEF Path
    <2>5. OnceInv'
      BY <1>2, <1>4, <2>1, <2>2, OnceKeeps DEF Fresh, RefreshOut, StoredOut
    <2>6. AgreeInv'
      <3>1. ~Changing(t)'
        BY <2>2 DEF Moves, Changing
      <3>2. Right(t) => Agree'
        BY <1>2, <1>4 DEF Right, Agree
      <3> QED
        BY <2>1, <2>2, <3>1, <3>2, AgreeMoves
    <2> QED
      BY <2>3, <2>4, <2>5, <2>6
  <1>5. CASE /\ \/ TaskAt(t, "refreshing") \/ TaskAt(t, "rotated")
                \/ (TaskAt(t, "granted") /\ t = "boot")
             /\ task' = [task EXCEPT ![t].pc = "refused"] /\ torn' = TRUE
    <2>1. /\ status # "idle" /\ Changing(t) /\ t # "out"
          /\ t \in Requests => OnPath(t) /\ isRefreshing
      BY <1>5, TaskNames DEF PathInv, TaskAt, OutSteps, Changing, OnPath, Path
    <2>2. Moves(t, "refused", task[t].pair)
      BY <1>5, MovesTo DEF Steps
    <2>3. AppTypeOK'
      BY <1>2, <1>5, <2>2, OthersKeepTypes DEF Moves, AppTypeOK
    <2>4. PathInv'
      BY <1>2, <2>1, <2>2, PathMoves DEF Path, BootSteps
    <2>5. OnceInv'
      BY <1>2, <1>5, <2>1, <2>2, OnceKeeps DEF Fresh, RefreshOut, StoredOut
    <2>6. AgreeInv'
      <3>1. Right(t)' /\ Changing(t)'
        BY <2>2 DEF Right, TaskAt, Holds, Fresh, Moves, Changing
      <3> QED
        BY <2>1, <2>2, <3>1, AgreeMoves
    <2> QED
      BY <2>3, <2>4, <2>5, <2>6
  <1>6. CASE TaskAt(t, "logout") /\ task' = [task EXCEPT ![t].pc = "logged"] /\ UNCHANGED torn
    <2>1. status # "idle" /\ Changing(t) /\ t = "out" /\ task[t].pc = "logout"
      BY <1>6, TaskNames DEF PathInv, TaskAt, BootSteps, Changing
    <2>2. Moves(t, "logged", task[t].pair)
      BY <1>6, MovesTo DEF Steps
    <2>3. AppTypeOK'
      BY <1>2, <1>6, <2>2, OthersKeepTypes DEF Moves, AppTypeOK
    <2>4. PathInv'
      BY <1>2, <2>1, <2>2, TaskNames, PathMoves DEF Path, OutSteps
    <2>5. OnceInv'
      BY <1>2, <1>6, <2>1, <2>2, TaskNames, OnceKeeps DEF Fresh, RefreshOut, StoredOut
    <2>6. AgreeInv'
      <3>1. Right(t)' /\ Changing(t)'
        BY <2>2 DEF Right, TaskAt, Holds, Fresh, Moves, Changing
      <3> QED
        BY <2>1, <2>2, <3>1, AgreeMoves
    <2> QED
      BY <2>3, <2>4, <2>5, <2>6
  <1> QED
    BY <1>3, <1>4, <1>5, <1>6, Zenon DEF Lose

(* A 401 keeps it: the other step that presents a token.                    *)
LEMMA DeniedStep ==
  ASSUME AppInv, Noticed, NEW r \in Requests, Denied(r)
  PROVE  AppInv'
  <1> USE DEF AppInv
  <1>1. /\ r \in Tasks /\ r # "boot" /\ r # "out" /\ status # "idle" /\ task[r].pc = "denied"
        /\ ~Changing(r) /\ ~OnPath(r)
    BY TaskNames DEF Denied, PathInv, TaskAt, Changing, OnPath, Path
  <1>2. /\ issuedPairs' = issuedPairs /\ live' = live /\ valid' = valid /\ status' = status
        /\ access' = access /\ refresh' = refresh /\ stored' = stored /\ torn' = torn
    BY DEF Denied, server, store
  <1>3. CASE /\ task' = [task EXCEPT ![r] = IdleTask]
             /\ UNCHANGED <<isRefreshing, presented, gaveUp>>
    <2>1. Moves(r, "idle", NoPair)
      BY <1>1, <1>3, MovesInto, IdleCell
    <2>2. Quiet
      BY <1>1, <1>2, <1>3, <2>1, QuietMoves DEF Moves, Changing, store
    <2> QED
      BY <1>2, <1>3, <2>2, QuietKeeps DEF AppTypeOK
  <1>4. CASE /\ task' = [task EXCEPT ![r].pc = "queued", ![r].retried = TRUE]
             /\ UNCHANGED <<isRefreshing, presented, gaveUp>>
    <2>1. Moves(r, "queued", task[r].pair)
      BY <1>1, <1>4, MovesAgain DEF Steps
    <2>2. Quiet
      BY <1>1, <1>2, <1>4, <2>1, QuietMoves DEF Moves, Changing, store
    <2> QED
      BY <1>2, <1>4, <2>2, QuietKeeps DEF AppTypeOK
  <1>5. CASE /\ ~isRefreshing /\ refresh # NoPair /\ isRefreshing' = TRUE
             /\ task' = [task EXCEPT ![r].pc = "refreshing", ![r].retried = TRUE,
                                     ![r].pair = refresh]
             /\ Present(refresh) /\ UNCHANGED gaveUp
    <2>1. refresh \in Pairs /\ presented' = presented \union {refresh}
      BY <1>5 DEF AppTypeOK, Present
    <2>2. Moves(r, "refreshing", refresh)
      BY <1>1, <1>5, <2>1, MovesAgainWith DEF Steps
    <2>3. AppTypeOK'
      BY <1>2, <1>5, <2>1, <2>2, OthersKeepTypes DEF Moves, AppTypeOK
    <2>4. PathInv'
      BY <1>1, <1>2, <1>5, <2>2, PathMoves
    <2>5. OnceInv'
      <3>1. refresh \in 1 .. issuedPairs
        BY <1>5, IssuedIsNat DEF OnceInv, NoPair
      <3>2. HeldPairsAreNew'
        <4>1. /\ issuedPairs' \in Nat /\ issuedPairs <= issuedPairs' /\ refresh' = refresh
              /\ presented' \subseteq presented \union {refresh} /\ "refreshing" \notin Fresh
          BY <1>2, <2>1, IssuedIsNat DEF Fresh
        <4> QED
          BY <1>1, <2>2, <4>1, HeldMoves
      <3>3. PresentedAreReplaced'
        BY <1>1, <1>2, <2>2, ReplacedMoves DEF RefreshOut, StoredOut
      <3> QED
        BY <1>2, <2>1, <3>1, <3>2, <3>3 DEF OnceInv
    <2>6. AgreeInv'
      <3>1. Changing(r)'
        BY <2>2 DEF Moves, Changing
      <3>2. Agree => Right(r)'
        BY <1>2, <1>5, <2>2 DEF Right, TaskAt, Holds, Fresh, Moves, Agree
      <3> QED
        BY <1>1, <2>2, <3>1, <3>2, AgreeMoves
    <2> QED
      BY <2>3, <2>4, <2>5, <2>6
  <1>6. CASE /\ ~isRefreshing /\ isRefreshing' = TRUE
             /\ task' = Drained(r, [task[r] EXCEPT !.pc = "leaving", !.retried = TRUE], Rejected)
             /\ gaveUp' = TRUE /\ UNCHANGED presented
    <2> DEFINE c == [task[r] EXCEPT !.pc = "leaving", !.retried = TRUE]
    <2>1. c \in TaskState /\ c.pc = "leaving" /\ c.pair = task[r].pair
      BY <1>1, TaskFields DEF TaskState, Steps
    <2>2. Moves(r, "leaving", task[r].pair)
      <3>1. \A u \in Waiters : Rejected[u] \in TaskState /\ Rejected[u].pc \in {"idle", "wire"}
        BY IdleCell DEF Rejected
      <3>2. task' = Drained(r, c, Rejected)
        BY <1>6
      <3> HIDE DEF c
      <3> QED
        BY <1>1, <2>1, <3>1, <3>2, MovesDraining
    <2>3. AppTypeOK'
      BY <1>2, <1>6, <2>2, OthersKeepTypes DEF Moves, AppTypeOK
    <2>4. PathInv'
      BY <1>1, <1>2, <1>6, <2>2, PathMoves
    <2>5. OnceInv'
      BY <1>1, <1>2, <1>6, <2>2, OnceKeeps DEF Fresh, RefreshOut, StoredOut
    <2>6. AgreeInv'
      <3>1. Right(r)' /\ Changing(r)'
        BY <2>2 DEF Right, TaskAt, Holds, Fresh, Moves, Changing
      <3> QED
        BY <1>1, <2>2, <3>1, AgreeMoves
    <2> QED
      BY <2>3, <2>4, <2>5, <2>6
  <1> QED
    BY <1>3, <1>4, <1>5, <1>6, Zenon DEF Denied

(* A refresh that worked stores its token,                                  *)
LEMMA SaveStep ==
  ASSUME AppInv, Noticed, NEW r \in Requests, Save(r)
  PROVE  AppInv'
  <1> USE DEF AppInv
  <1>1. /\ r \in Tasks /\ r # "boot" /\ r # "out" /\ status # "idle" /\ task[r].pc = "rotated"
        /\ Changing(r) /\ OnPath(r) /\ isRefreshing /\ Holds(r)
    BY TaskNames DEF Save, PathInv, TaskAt, Changing, OnPath, Path, Holds, Fresh
  <1>2. /\ issuedPairs' = issuedPairs /\ live' = live /\ valid' = valid /\ status' = status
        /\ access' = access /\ refresh' = refresh /\ isRefreshing' = isRefreshing
        /\ presented' = presented /\ torn' = torn /\ gaveUp' = gaveUp
        /\ stored' = task[r].pair
    BY DEF Save, server, store, history
  <1>3. Moves(r, "saved", task[r].pair)
    BY <1>1, MovesTo DEF Save, Steps
  <1>4. AppTypeOK'
    BY <1>1, <1>2, <1>3, TaskFields, OthersKeepTypes DEF Moves, AppTypeOK
  <1>5. PathInv'
    BY <1>1, <1>2, <1>3, PathMoves
  <1>6. OnceInv'
    BY <1>1, <1>2, <1>3, OnceKeeps DEF RefreshOut, StoredOut
  <1>7. AgreeInv'
    <2>1. Changing(r)' /\ (Right(r) => Right(r)')
      BY <1>1, <1>2, <1>3 DEF Right, TaskAt, Holds, Fresh, Moves, Changing
    <2> QED
      BY <1>1, <1>3, <2>1, AgreeMoves
  <1> QED
    BY <1>4, <1>5, <1>6, <1>7

(* puts it in memory and sends the waiters again.                           *)
LEMMA ResumeStep ==
  ASSUME AppInv, Noticed, NEW r \in Requests, Resume(r)
  PROVE  AppInv'
  <1> USE DEF AppInv
  <1>1. /\ r \in Tasks /\ r # "boot" /\ r # "out" /\ status # "idle" /\ task[r].pc = "saved"
        /\ Changing(r) /\ OnPath(r) /\ isRefreshing /\ Holds(r)
        /\ task[r].pair \in Pairs \union {NoPair}
    BY TaskNames, TaskFields DEF Resume, PathInv, TaskAt, Changing, OnPath, Path, Holds, Fresh
  <1>2. /\ issuedPairs' = issuedPairs /\ live' = live /\ valid' = valid /\ status' = status
        /\ stored' = stored /\ isRefreshing' = FALSE
        /\ presented' = presented /\ torn' = torn /\ gaveUp' = gaveUp
        /\ access' = task[r].pair /\ refresh' = task[r].pair
    BY DEF Resume, server, history
  <1>3. Moves(r, "wire", task[r].pair)
    <2> DEFINE again == [u \in Requests |-> [task[u] EXCEPT !.pc = "wire", !.pair = task[r].pair]]
    <2>1. ASSUME NEW u \in Requests
          PROVE  again[u] \in TaskState /\ again[u].pc = "wire" /\ again[u].pair = task[r].pair
      <3>1. u \in Tasks /\ task[u] \in TaskState /\ "wire" \in Steps
        BY TaskFields, TaskNames DEF Steps
      <3>2. [task[u] EXCEPT !.pc = "wire", !.pair = task[r].pair] \in TaskState
        BY <1>1, <3>1, Cells
      <3>3. again[u] = [task[u] EXCEPT !.pc = "wire", !.pair = task[r].pair]
        OBVIOUS
      <3> QED
        BY <3>1, <3>2, <3>3 DEF TaskState
    <2>2. task' = Drained(r, again[r], again)
      BY DEF Resume
    <2> HIDE DEF again
    <2> QED
      BY <1>1, <2>1, <2>2, MovesDraining DEF Waiters
  <1>4. AppTypeOK'
    BY <1>1, <1>2, <1>3, OthersKeepTypes DEF Moves, AppTypeOK
  <1>5. PathInv'
    BY <1>1, <1>2, <1>3, PathMoves DEF Path
  <1>6. OnceInv'
    BY <1>1, <1>2, <1>3, OnceKeeps DEF RefreshOut, StoredOut, Fresh
  <1>7. AgreeInv'
    <2>1. ~Changing(r)'
      BY <1>3 DEF Moves, Changing
    <2>2. Right(r) => Agree'
      BY <1>1, <1>2 DEF Right, Agree
    <2> QED
      BY <1>1, <1>3, <2>1, <2>2, AgreeMoves
  <1> QED
    BY <1>4, <1>5, <1>6, <1>7

(* A refresh that failed clears the secure store,                           *)
LEMMA ForgetStep ==
  ASSUME AppInv, Noticed, NEW t \in Tasks, Forget(t)
  PROVE  AppInv'
  <1> USE DEF AppInv
  <1>1. /\ t # "out" /\ status # "idle" /\ task[t].pc = "refused" /\ Changing(t)
        /\ t \in Requests => OnPath(t) /\ isRefreshing
    BY TaskNames DEF Forget, PathInv, TaskAt, Changing, OnPath, Path, OutSteps
  <1>2. /\ issuedPairs' = issuedPairs /\ live' = live /\ valid' = valid /\ status' = status
        /\ access' = access /\ refresh' = refresh /\ isRefreshing' = isRefreshing
        /\ presented' = presented /\ torn' = torn /\ gaveUp' = gaveUp /\ stored' = NoPair
    BY DEF Forget, server, store, history
  <1>3. Moves(t, "forgotten", task[t].pair)
    BY MovesTo DEF Forget, Steps
  <1>4. AppTypeOK'
    BY <1>2, <1>3, OthersKeepTypes DEF Moves, AppTypeOK
  <1>5. PathInv'
    BY <1>1, <1>2, <1>3, TaskNames, PathMoves DEF BootSteps
  <1>6. OnceInv'
    BY <1>1, <1>2, <1>3, OnceKeeps DEF RefreshOut, StoredOut, Fresh
  <1>7. AgreeInv'
    <2>1. Changing(t)' /\ Right(t)'
      BY <1>2, <1>3 DEF Right, TaskAt, Holds, Fresh, Moves, Changing
    <2> QED
      BY <1>1, <1>3, <2>1, AgreeMoves
  <1> QED
    BY <1>4, <1>5, <1>6, <1>7

(* clears the memory and rejects the waiters.                               *)
LEMMA GiveUpStep ==
  ASSUME AppInv, Noticed, NEW t \in Tasks, GiveUp(t)
  PROVE  AppInv'
  <1> USE DEF AppInv
  <1>1. /\ t # "out" /\ status # "idle" /\ task[t].pc = "forgotten" /\ Changing(t)
        /\ t \in Requests => OnPath(t) /\ isRefreshing
    BY TaskNames DEF GiveUp, PathInv, TaskAt, Changing, OnPath, Path, OutSteps
  <1>2. /\ issuedPairs' = issuedPairs /\ live' = live /\ valid' = valid
        /\ status' = "unauthenticated" /\ access' = NoPair /\ refresh' = NoPair
        /\ isRefreshing' = isRefreshing /\ stored' = stored
        /\ presented' = presented /\ torn' = torn
    BY DEF GiveUp, SignedOut, server
  <1>g. gaveUp' \in {gaveUp, TRUE}
    BY Zenon DEF GiveUp, AppTypeOK
  <1>3. CASE t = "boot"
    <2>1. Moves(t, "idle", NoPair)
      BY <1>3, MovesInto, IdleCell DEF GiveUp
    <2>2. AppTypeOK'
      BY <1>2, <1>g, <2>1, OthersKeepTypes DEF Moves, AppTypeOK
    <2>3. PathInv'
      BY <1>1, <1>2, <1>3, <2>1, TaskNames, PathMoves DEF BootSteps
    <2>4. OnceInv'
      BY <1>1, <1>2, <2>1, OnceKeeps DEF TaskAt, StoredOut, Fresh
    <2>5. AgreeInv'
      <3>1. ~Changing(t)' /\ (Right(t) => Agree')
        BY <1>1, <1>2, <2>1 DEF Right, Agree, Moves, Changing
      <3> QED
        BY <1>1, <2>1, <3>1, AgreeMoves
    <2> QED
      BY <2>2, <2>3, <2>4, <2>5
  <1>4. CASE t # "boot"
    <2> DEFINE c == [task[t] EXCEPT !.pc = "leaving"]
    <2>1. Moves(t, "leaving", task[t].pair)
      <3>1. \A u \in Waiters : Rejected[u] \in TaskState /\ Rejected[u].pc \in {"idle", "wire"}
        BY IdleCell DEF Rejected
      <3>2. task' = Drained(t, c, Rejected)
        BY <1>4 DEF GiveUp
      <3>3. c \in TaskState /\ c.pc = "leaving" /\ c.pair = task[t].pair
        BY TaskFields DEF TaskState, Steps
      <3> HIDE DEF c
      <3> QED
        BY <3>1, <3>2, <3>3, MovesDraining
    <2>2. AppTypeOK'
      BY <1>2, <1>g, <2>1, OthersKeepTypes DEF Moves, AppTypeOK
    <2>3. PathInv'
      BY <1>1, <1>2, <1>4, <2>1, TaskNames, PathMoves
    <2>4. OnceInv'
      BY <1>1, <1>2, <2>1, OnceKeeps DEF TaskAt, StoredOut, Fresh
    <2>5. AgreeInv'
      <3>1. Changing(t)' /\ Right(t)'
        BY <2>1 DEF Right, TaskAt, Holds, Fresh, Moves, Changing
      <3> QED
        BY <1>1, <2>1, <3>1, AgreeMoves
    <2> QED
      BY <2>2, <2>3, <2>4, <2>5
  <1> QED
    BY <1>3, <1>4

(* A sign-out, by the interceptor or the user, clears the one               *)
LEMMA ClearStep ==
  ASSUME AppInv, Noticed, NEW t \in Tasks, Clear(t)
  PROVE  AppInv'
  <1> USE DEF AppInv
  <1>1. /\ t # "boot" /\ status # "idle" /\ task[t].pc \in {"leaving", "logged"} /\ Changing(t)
        /\ t \in Requests => OnPath(t) /\ isRefreshing
    BY TaskNames DEF Clear, PathInv, TaskAt, Changing, OnPath, Path, BootSteps
  <1>2. /\ issuedPairs' = issuedPairs /\ live' = live /\ valid' = valid /\ status' = status
        /\ access' = access /\ refresh' = refresh /\ isRefreshing' = isRefreshing
        /\ presented' = presented /\ torn' = torn /\ gaveUp' = gaveUp /\ stored' = NoPair
    BY DEF Clear, server, store, history
  <1>3. Moves(t, "cleared", task[t].pair)
    BY MovesTo DEF Clear, Steps
  <1>4. AppTypeOK'
    BY <1>2, <1>3, OthersKeepTypes DEF Moves, AppTypeOK
  <1>5. PathInv'
    BY <1>1, <1>2, <1>3, TaskNames, PathMoves DEF OutSteps
  <1>6. OnceInv'
    BY <1>1, <1>2, <1>3, OnceKeeps DEF RefreshOut, StoredOut, Fresh
  <1>7. AgreeInv'
    <2>1. Changing(t)' /\ Right(t)'
      BY <1>2, <1>3 DEF Right, TaskAt, Holds, Fresh, Moves, Changing
    <2> QED
      BY <1>1, <1>3, <2>1, AgreeMoves
  <1> QED
    BY <1>4, <1>5, <1>6, <1>7

(* and then the other.                                                      *)
LEMMA LeaveStep ==
  ASSUME AppInv, Noticed, NEW t \in Tasks, Leave(t)
  PROVE  AppInv'
  <1> USE DEF AppInv
  <1>1. /\ t # "boot" /\ status # "idle" /\ task[t].pc = "cleared" /\ Changing(t)
        /\ t \in Requests => OnPath(t)
    BY TaskNames DEF Leave, PathInv, TaskAt, Changing, OnPath, Path, BootSteps
  <1>2. /\ issuedPairs' = issuedPairs /\ live' = live /\ valid' = valid
        /\ status' = "unauthenticated" /\ access' = NoPair /\ refresh' = NoPair
        /\ presented' = presented /\ torn' = torn /\ gaveUp' = gaveUp /\ stored' = stored
    BY DEF Leave, SignedOut, server, history
  <1>i. /\ isRefreshing' \in {isRefreshing, TRUE, FALSE}
        /\ t \notin Requests => isRefreshing' = isRefreshing
    <2>1. t = "out" => isRefreshing' = isRefreshing
      BY DEF Leave
    <2>2. t # "out" => isRefreshing' = FALSE
      BY DEF Leave
    <2>3. t \notin Requests => t = "out"
      BY <1>1, TaskNames
    <2> QED
      BY <2>1, <2>2, <2>3, Zenon
  <1>3. Moves(t, "idle", NoPair)
    BY MovesInto, IdleCell DEF Leave
  <1>4. AppTypeOK'
    BY <1>2, <1>i, <1>3, OthersKeepTypes DEF Moves, AppTypeOK
  <1>5. PathInv'
    BY <1>1, <1>2, <1>i, <1>3, TaskNames, PathMoves DEF OutSteps, Path
  <1>6. OnceInv'
    BY <1>1, <1>2, <1>3, OnceKeeps DEF TaskAt, StoredOut, Fresh
  <1>7. AgreeInv'
    <2>1. ~Changing(t)' /\ (Right(t) => Agree')
      BY <1>1, <1>2, <1>3 DEF Right, Agree, Moves, Changing
    <2> QED
      BY <1>1, <1>3, <2>1, AgreeMoves
  <1> QED
    BY <1>4, <1>5, <1>6, <1>7

(* Signing in, by the user or hydrate(), stores the token                   *)
LEMMA KeepStep ==
  ASSUME AppInv, Noticed, NEW t \in Tasks, Keep(t)
  PROVE  AppInv'
  <1> USE DEF AppInv
  <1>1. /\ t # "out" /\ status # "idle" /\ task[t].pc = "granted" /\ Changing(t) /\ Holds(t)
        /\ ~OnPath(t)
    BY TaskNames DEF Keep, PathInv, TaskAt, Changing, OnPath, Path, OutSteps, Holds, Fresh
  <1>2. /\ issuedPairs' = issuedPairs /\ live' = live /\ valid' = valid /\ status' = status
        /\ access' = access /\ refresh' = refresh /\ isRefreshing' = isRefreshing
        /\ presented' = presented /\ torn' = torn /\ gaveUp' = gaveUp /\ stored' = task[t].pair
    BY DEF Keep, server, store, history
  <1>3. Moves(t, "kept", task[t].pair)
    BY MovesTo DEF Keep, Steps
  <1>4. AppTypeOK'
    BY <1>2, <1>3, TaskFields, OthersKeepTypes DEF Moves, AppTypeOK
  <1>5. PathInv'
    BY <1>1, <1>2, <1>3, TaskNames, PathMoves DEF BootSteps, Path
  <1>6. OnceInv'
    BY <1>1, <1>2, <1>3, OnceKeeps DEF RefreshOut, StoredOut
  <1>7. AgreeInv'
    <2>1. Changing(t)' /\ (Right(t) => Right(t)')
      BY <1>1, <1>2, <1>3 DEF Right, TaskAt, Holds, Fresh, Moves, Changing
    <2> QED
      BY <1>1, <1>3, <2>1, AgreeMoves
  <1> QED
    BY <1>4, <1>5, <1>6, <1>7

(* and then puts it in memory.                                              *)
LEMMA SignedInStep ==
  ASSUME AppInv, Noticed, NEW t \in Tasks, SignedIn(t)
  PROVE  AppInv'
  <1> USE DEF AppInv
  <1>1. /\ t # "out" /\ status # "idle" /\ task[t].pc = "kept" /\ Changing(t) /\ Holds(t)
        /\ ~OnPath(t) /\ task[t].pair \in Pairs \union {NoPair}
    BY TaskNames, TaskFields
       DEF SignedIn, PathInv, TaskAt, Changing, OnPath, Path, OutSteps, Holds, Fresh
  <1>2. /\ issuedPairs' = issuedPairs /\ live' = live /\ valid' = valid
        /\ status' = "authenticated" /\ access' = task[t].pair /\ refresh' = task[t].pair
        /\ isRefreshing' = isRefreshing /\ presented' = presented /\ torn' = torn
        /\ gaveUp' = gaveUp /\ stored' = stored
    BY DEF SignedIn, server, history
  <1>3. Moves(t, "idle", NoPair)
    BY MovesInto, IdleCell DEF SignedIn
  <1>4. AppTypeOK'
    BY <1>1, <1>2, <1>3, OthersKeepTypes DEF Moves, AppTypeOK
  <1>5. PathInv'
    BY <1>1, <1>2, <1>3, TaskNames, PathMoves DEF BootSteps, Path
  <1>6. OnceInv'
    BY <1>1, <1>2, <1>3, OnceKeeps DEF TaskAt, StoredOut, Fresh
  <1>7. AgreeInv'
    <2>1. ~Changing(t)' /\ (Right(t) => Agree')
      BY <1>1, <1>2, <1>3 DEF Right, Agree, Moves, Changing
    <2> QED
      BY <1>1, <1>3, <2>1, AgreeMoves
  <1> QED
    BY <1>4, <1>5, <1>6, <1>7

(* The button of the settings screen keeps the invariant.                   *)
LEMMA SignOutStep ==
  ASSUME AppInv, Noticed, SignOut
  PROVE  AppInv'
  <1> USE DEF AppInv
  <1>1. /\ "out" \in Tasks /\ "out" \notin Requests /\ status # "idle" /\ task["out"].pc = "idle"
        /\ refresh \in Pairs \union {NoPair}
    BY TaskNames DEF SignOut, TaskAt, AppTypeOK
  <1>2. /\ issuedPairs' = issuedPairs /\ live' = live /\ valid' = valid /\ status' = status
        /\ access' = access /\ refresh' = refresh /\ isRefreshing' = isRefreshing
        /\ presented' = presented /\ torn' = torn /\ gaveUp' = gaveUp /\ stored' = stored
    BY DEF SignOut, server, store, history
  <1>3. PICK p \in {"logout", "logged"}, n \in Pairs \union {NoPair} : Moves("out", p, n)
    <2>0. "logout" \in Steps /\ "logged" \in Steps /\ NoPair \in Pairs \union {NoPair}
      BY DEF Steps
    <2>1. CASE refresh = NoPair
      <3>1. Moves("out", "logged", NoPair)
        BY <1>1, <2>0, <2>1, MovesFromIdle, Zenon DEF SignOut
      <3> QED
        BY <3>1
    <2>2. CASE refresh # NoPair
      <3>1. Moves("out", "logout", refresh)
        BY <1>1, <2>0, <2>2, MovesFromIdle, Zenon DEF SignOut
      <3> QED
        BY <1>1, <3>1
    <2> QED
      BY <2>1, <2>2
  <1>4. AppTypeOK'
    BY <1>2, <1>3, OthersKeepTypes DEF Moves, AppTypeOK
  <1>5. PathInv'
    BY <1>1, <1>2, <1>3, PathMoves DEF OutSteps, Path
  <1>6. OnceInv'
    BY <1>1, <1>2, <1>3, OnceKeeps DEF TaskAt, StoredOut, Fresh
  <1>7. AgreeInv'
    <2>1. Changing("out")' /\ Right("out")'
      BY <1>3 DEF Right, TaskAt, Holds, Fresh, Moves, Changing
    <2> QED
      BY <1>1, <1>3, <2>1, AgreeMoves
  <1> QED
    BY <1>4, <1>5, <1>6, <1>7

(* So does the end of the app, at any time.                                 *)
LEMMA RestartStep ==
  ASSUME AppInv, Noticed, Restart
  PROVE  AppInv'
  <1> USE DEF AppInv
  <1>1. /\ issuedPairs' = issuedPairs /\ live' = live /\ valid' = valid /\ status' = "idle"
        /\ access' = NoPair /\ refresh' = NoPair /\ isRefreshing' = FALSE
        /\ presented' = presented /\ gaveUp' = gaveUp /\ stored' = stored
    BY DEF Restart, server
  <1>2. \A t \in Tasks : task'[t] = IdleTask /\ task'[t].pc = "idle"
    BY IdleCell DEF Restart
  <1>3. task' \in [Tasks -> TaskState]
    BY IdleCell DEF Restart
  <1>4. ~torn' => ~torn /\ \A t \in Tasks : ~Changing(t)
    BY Zenon DEF Restart
  <1>5. AppTypeOK'
    <2>1. {torn', gaveUp', overlap'} \subseteq BOOLEAN
      BY <1>1, Zenon DEF Noticed, AppTypeOK, Restart
    <2> QED
      BY <1>1, <1>3, <2>1 DEF AppTypeOK
  <1>6. PathInv'
    BY <1>1, <1>2, TaskNames DEF PathInv, OnPath, Path, BootSteps, OutSteps, TaskAt
  <1>7. OnceInv'
    <2>1. HeldPairsAreNew'
      BY <1>2 DEF HeldPairsAreNew, Holds, Fresh
    <2>2. NoPair \notin presented /\ NoPair <= issuedPairs
      BY IssuedIsNat DEF OnceInv, NoPair
    <2>3. ~torn' => stored \notin presented
      <3>1. ASSUME \A t \in Tasks : ~Changing(t)
            PROVE  \A t \in Tasks : task[t].pc \notin StoredOut /\ ~TaskAt(t, "granted")
        BY <3>1 DEF Changing, StoredOut, TaskAt
      <3> QED
        BY <1>4, <3>1, TaskNames, Zenon DEF OnceInv, PresentedAreReplaced
    <2>4. PresentedAreReplaced'
      BY <1>1, <2>2, <2>3 DEF PresentedAreReplaced
    <2> QED
      BY <1>1, <2>1, <2>2, <2>4 DEF OnceInv
  <1>8. AgreeInv'
    <2>1. \A t \in Tasks : ~Changing(t)' /\ Right(t)'
      BY <1>2 DEF Changing, Right, TaskAt, Holds, Fresh
    <2> QED
      BY <1>1, <2>1 DEF AgreeInv
  <1> QED
    BY <1>5, <1>6, <1>7, <1>8

(* The invariant holds when the app is installed.                           *)
LEMMA AppInvInit == InitApp => AppInv
  <1> SUFFICES ASSUME InitApp
               PROVE  AppInv
    OBVIOUS
  <1>1. \A t \in Tasks : task[t].pc = "idle" /\ task[t] = IdleTask
    BY IdleCell DEF InitApp
  <1>2. AppTypeOK
    <2>1. {torn, gaveUp, overlap} \subseteq BOOLEAN /\ isRefreshing \in BOOLEAN
      BY Zenon DEF InitApp
    <2>2. task \in [Tasks -> TaskState] /\ issuedPairs \in 0 .. MaxPairs
      BY IdleCell, MobileAssumption DEF InitApp
    <2> QED
      BY <2>1, <2>2 DEF InitApp, AppTypeOK
  <1>3. PathInv
    BY <1>1, TaskNames DEF InitApp, PathInv, OnPath, Path, BootSteps, OutSteps, TaskAt
  <1>4. OnceInv
    <2>1. HeldPairsAreNew
      BY <1>1 DEF HeldPairsAreNew, Holds, Fresh
    <2> QED
      BY <2>1 DEF OnceInv, PresentedAreReplaced, InitApp, NoPair
  <1>5. AgreeInv
    <2>1. \A t \in Tasks : ~Changing(t) /\ Right(t)
      BY <1>1 DEF Changing, Right, TaskAt, Holds, Fresh
    <2> QED
      BY <2>1 DEF AgreeInv, InitApp
  <1> QED
    BY <1>2, <1>3, <1>4, <1>5 DEF AppInv

(* Every step keeps it.                                                     *)
LEMMA AppInvStep ==
  ASSUME AppInv, [AppNext]_appVars
  PROVE  AppInv'
  <1>1. CASE AppNext
    <2>1. Noticed
      BY <1>1 DEF AppNext, Noticed
    <2>2. ASSUME NEW t \in Tasks, Handle(t)
          PROVE  AppInv'
      BY <2>1, <2>2, ServeStep, DeniedStep, SaveStep, ResumeStep, ServeRefreshStep, LoseStep,
         ForgetStep, GiveUpStep, ClearStep, LeaveStep, KeepStep, SignedInStep, LogoutStep, Zenon
         DEF Handle
    <2> QED
      BY <1>1, <2>1, <2>2, BootStep, SignOutStep, ExpireStep, RestartStep, SendStep, Zenon
         DEF AppNext
  <1>2. CASE UNCHANGED appVars
    <2>1. /\ UNCHANGED <<issuedPairs, live, valid, status, access, refresh, stored>>
          /\ UNCHANGED <<isRefreshing, task, presented, torn, gaveUp, overlap>>
      BY <1>2 DEF appVars, server, store, history
    <2>2. AppTypeOK'
      BY <2>1, Zenon DEF AppInv, AppTypeOK
    <2>3. PathInv' /\ OnceInv'
      BY <2>1, Zenon DEF AppInv, PathInv, OnPath, TaskAt, OnceInv, HeldPairsAreNew, Holds,
                         PresentedAreReplaced
    <2>4. AgreeInv'
      BY <2>1, Zenon DEF AppInv, AgreeInv, Changing, Right, TaskAt, Agree, Holds
    <2> QED
      BY <2>2, <2>3, <2>4 DEF AppInv
  <1> QED
    BY <1>1, <1>2

(* So it always holds.                                                      *)
LEMMA AppInvHolds == AppSpec => []AppInv
  BY AppInvInit, AppInvStep, PTL DEF AppSpec

(* Whenever no coroutine is changing the session, and none ever ran into    *)
(* another one that was, the app is signed in exactly if it has a refresh   *)
(* token, has the same one in memory and in the secure store, and the       *)
(* server will take it: for any number of requests and pairs, wherever      *)
(* calls are lost and the app is killed. With it the type invariant.        *)
THEOREM TokensAgree == AppSpec => [](AppTypeOK /\ StoresAgree)
  <1>1. AppInv => AppTypeOK /\ StoresAgree
    BY TaskNames DEF AppInv, AgreeInv, PathInv, StoresAgree, Agree
  <1> QED
    BY <1>1, AppInvHolds, PTL

(* As long as no answer to a refresh was lost and the app was not killed in *)
(* mid-change, the app presents every refresh token once only, however many *)
(* requests are denied at once and however signing in and out overlaps with *)
(* them.                                                                    *)
THEOREM RefreshesOnce == AppSpec => PresentedOnce
  <1> DEFINE Once == \A t \in Tasks : ~TaskAt(t, "refreshing") /\ TaskAt(t, "refreshing")' =>
                        task'[t].pair \notin presented \/ torn
  <1>1. ASSUME AppInv, AppNext, NEW t \in Tasks, ~TaskAt(t, "refreshing"), TaskAt(t, "refreshing")'
        PROVE  task'[t].pair \notin presented \/ torn
    <2> SUFFICES ASSUME ~torn
                 PROVE  task'[t].pair \notin presented
      OBVIOUS
    <2> USE DEF TaskAt
    <2>0. task \in [Tasks -> TaskState] /\ t \in Tasks /\ task[t].pc # "refreshing"
          /\ task'[t].pc = "refreshing" /\ IdleTask.pc = "idle"
      BY <1>1, IdleCell DEF AppInv, AppTypeOK
    <2>1. CASE Boot
      <3>1. \A u \in Tasks : task[u].pc = "idle"
        BY <1>1, <2>1 DEF Boot, AppInv, PathInv
      <3>2. stored \notin presented
        BY <1>1, <3>1, TaskNames DEF AppInv, OnceInv, PresentedAreReplaced, StoredOut
      <3>3. task'[t].pair = stored
        BY <2>0, <2>1, TaskNames DEF Boot, IdleTask
      <3> QED
        BY <3>2, <3>3
    <2>2. CASE SignOut
      BY <2>0, <2>2 DEF SignOut, IdleTask
    <2>3. CASE Expire
      BY <2>0, <2>3 DEF Expire
    <2>4. CASE Restart
      BY <2>0, <2>4 DEF Restart
    <2>5. ASSUME NEW r \in Requests, Send(r) PROVE FALSE
      BY <2>0, <2>5 DEF Send, IdleTask
    <2>6. ASSUME NEW r \in Requests, Serve(r) PROVE FALSE
      BY <2>0, <2>6 DEF Serve, TaskState
    <2>7. ASSUME NEW r \in Requests, Save(r) \/ Resume(r) PROVE FALSE
      <3>1. CASE Save(r)
        BY <2>0, <3>1, TaskNames DEF Save, TaskState
      <3>2. CASE Resume(r)
        <4> DEFINE again == [u \in Requests |->
                                [task[u] EXCEPT !.pc = "wire", !.pair = task[r].pair]]
        <4>1. ASSUME NEW u \in Requests PROVE again[u].pc = "wire"
          <5>1. task[u] \in TaskState
            BY <2>0, TaskNames
          <5>2. again[u] = [task[u] EXCEPT !.pc = "wire", !.pair = task[r].pair]
            OBVIOUS
          <5> QED
            BY <5>1, <5>2 DEF TaskState
        <4>2. task' = Drained(r, again[r], again)
          BY <3>2 DEF Resume
        <4> HIDE DEF again
        <4> QED
          BY <2>0, <4>1, <4>2 DEF Drained, Waiters
      <3> QED
        BY <2>7, <3>1, <3>2
    <2>8. ASSUME NEW u \in Tasks, ServeRefresh(u) \/ Lose(u) PROVE FALSE
      <3>1. CASE Lose(u)
        BY <2>0, <3>1 DEF Lose, TaskState
      <3>2. CASE ServeRefresh(u)
        <4>1. task'[u].pc \in {"granted", "rotated", "refused"}
          BY <2>0, <3>2 DEF ServeRefresh, TaskState
        <4>2. \A v \in Tasks : v # u => task'[v] = task[v]
          BY <2>0, <3>2 DEF ServeRefresh
        <4> QED
          BY <2>0, <4>1, <4>2
      <3> QED
        BY <2>8, <3>1, <3>2
    <2>9. ASSUME NEW u \in Tasks, Forget(u) \/ Clear(u) \/ Leave(u) \/ Keep(u) \/ SignedIn(u)
          PROVE  FALSE
      BY <2>0, <2>9 DEF Forget, Clear, Leave, Keep, SignedIn, TaskState
    <2>10. ASSUME NEW u \in Tasks, GiveUp(u) PROVE FALSE
      BY <2>0, <2>10 DEF GiveUp, TaskState, Drained, Rejected
    <2>11. CASE ServeLogout
      BY <2>0, <2>11, TaskNames DEF ServeLogout, TaskState
    <2>12. ASSUME NEW r \in Requests, Denied(r) PROVE task'[t].pair \notin presented
      <3>0. r \in Tasks /\ task[r] \in TaskState
        BY <2>0, TaskNames
      <3>1. CASE ~isRefreshing /\ refresh # NoPair /\
                 task' = [task EXCEPT ![r].pc = "refreshing", ![r].retried = TRUE,
                                      ![r].pair = refresh]
        <4>1. task'[t].pair = refresh
          BY <2>0, <3>0, <3>1 DEF TaskState
        <4>2. \A u \in Requests : task[u].pc \notin RefreshOut
          BY <1>1, <3>1, Zenon DEF AppInv, PathInv, OnPath, Path, RefreshOut
        <4>3. refresh \notin presented
          BY <1>1, <4>2 DEF AppInv, OnceInv, PresentedAreReplaced
        <4> QED
          BY <4>1, <4>3
      <3>2. CASE task' = [task EXCEPT ![r] = IdleTask]
        BY <2>0, <3>0, <3>2
      <3>3. CASE task' = [task EXCEPT ![r].pc = "queued", ![r].retried = TRUE]
        BY <2>0, <3>0, <3>3 DEF TaskState
      <3>4. CASE task' = Drained(r, [task[r] EXCEPT !.pc = "leaving", !.retried = TRUE], Rejected)
        BY <2>0, <3>0, <3>4 DEF TaskState, Drained, Rejected
      <3> QED
        BY <2>12, <3>1, <3>2, <3>3, <3>4, Zenon DEF Denied
    <2> QED
      BY <1>1, <2>1, <2>2, <2>3, <2>4, <2>5, <2>6, <2>7, <2>8, <2>9, <2>10, <2>11, <2>12, Zenon
         DEF AppNext, Handle
  <1>2. AppInv /\ [AppNext]_appVars => [Once]_appVars
    BY <1>1, Zenon
  <1> QED
    BY <1>2, AppInvHolds, PTL DEF AppSpec, PresentedOnce
=============================================================================
