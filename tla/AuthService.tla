---------------------------- MODULE AuthService ----------------------------
(***************************************************************************)
(* The sessions of one account: AuthService (backend/app/services/auth.py) *)
(* as the routes of backend/app/api/auth.py call it. The account is a row  *)
(* of users in Postgres; refresh tokens, links to reset the password, the  *)
(* version of the password and the counters of requests are keys in Redis. *)
(*                                                                         *)
(* An action is what a call does up to its next await. What a call does    *)
(* when it is refused changes nothing and is not an action of its own.     *)
(* Users are never deactivated or deleted by the code. What the password   *)
(* is does not matter here.                                                *)
(***************************************************************************)
EXTENDS Naturals

CONSTANTS
    Callers,      \* concurrent calls of the routes
    MaxTokens,    \* bound: refresh tokens that are issued
    MaxVersion,   \* bound: bumps of the version
    MaxLinks,     \* bound: links to reset the password that are live at once
    MaxRequests,  \* password_reset_rate_limit_max
    CallsFail     \* can a call die, or an await in it raise?

ASSUME AuthAssumption ==
    /\ MaxTokens \in Nat /\ MaxVersion \in Nat /\ MaxLinks \in Nat
    /\ MaxRequests \in Nat /\ CallsFail \in BOOLEAN

Tokens == 1 .. MaxTokens   \* in the order in which they are stored
Versions == 0 .. MaxVersion
None == 0
Limits == {"email", "ip"}

VARIABLES
    account,  \* Postgres: is there a row, and is its password_hash made with
              \* the parameters of an earlier deployment?
    version,  \* Redis: auth:pwv
    token,    \* Redis: auth:rt, what each refresh token says
    links,    \* Redis: auth:pwreset, how many there are
    limit,    \* Redis: auth:pwreset:rl, and whether the key has a time to live
    call,     \* what each call has in hand
    issued,   \* history: how many refresh tokens were stored
    revoked   \* history: how many were when the last change of password ended

vars == <<account, version, token, links, limit, call, issued, revoked>>

(* The token that the session began with names the session: a rotation     *)
(* keeps it. The code does not store it.                                   *)
TokenData == [session : Tokens, version : Versions]
NoToken == [session |-> None, version |-> None]

CallState ==
    [pc : {"idle", "rehash", "check", "version", "store", "write", "bump", "ip", "link"},
     token    : Tokens \union {None},     \* that GETDEL returned
     session  : Tokens \union {None},     \* it belongs to
     version  : Versions]

Idle == [pc |-> "idle", token |-> None, session |-> None, version |-> None]

At(c, s) == call[c].pc = s
Live(t) == token[t] # NoToken

Init ==
    /\ account \in {"absent", "stale"}
    /\ version = 0 /\ token = [t \in Tokens |-> NoToken]
    /\ links = 0 /\ limit = [k \in Limits |-> [hits |-> 0, lapses |-> FALSE]]
    /\ call = [c \in Callers |-> Idle]
    /\ issued = 0 /\ revoked = 0

-----------------------------------------------------------------------------
(* Signing in.                                                             *)

(* INSERT and COMMIT; a second row with the email violates the constraint. *)
Register(c) ==
    /\ At(c, "idle") /\ account = "absent"
    /\ account' = "fresh"
    /\ call' = [call EXCEPT ![c].pc = "version"]
    /\ UNCHANGED <<version, token, links, limit, issued, revoked>>

(* The SELECT, and a password that verifies against what it returned.      *)
Login(c) ==
    /\ At(c, "idle") /\ account # "absent"
    /\ call' = [call EXCEPT ![c].pc = IF account = "stale" THEN "rehash" ELSE "version"]
    /\ UNCHANGED <<account, version, token, links, limit, issued, revoked>>

(* UPDATE and COMMIT of the password that was given.                       *)
Rehash(c) ==
    /\ At(c, "rehash")
    /\ account' = "fresh"
    /\ call' = [call EXCEPT ![c].pc = "version"]
    /\ UNCHANGED <<version, token, links, limit, issued, revoked>>

(* _issue_tokens: GET of the version ...                                   *)
ReadVersion(c) ==
    /\ At(c, "version")
    /\ call' = [call EXCEPT ![c].pc = "store", ![c].token = None,
                            ![c].version = version]
    /\ UNCHANGED <<account, version, token, links, limit, issued, revoked>>

(* ... and SET of the token.                                               *)
Store(c) ==
    LET t == issued + 1
        session == IF call[c].session = None THEN t ELSE call[c].session IN
    /\ At(c, "store") /\ issued < MaxTokens
    /\ token' = [token EXCEPT ![t] = [session |-> session, version |-> call[c].version]]
    /\ issued' = t
    /\ call' = [call EXCEPT ![c] = Idle]
    /\ UNCHANGED <<account, version, links, limit, revoked>>

-----------------------------------------------------------------------------
(* Rotation, and the end of a session.                                     *)

(* Mutant of Exchange: GET, and not GETDEL.                                *)
ExchangeKeeping(c) ==
    /\ At(c, "idle")
    /\ \E t \in Tokens :
        /\ Live(t)
        /\ call' = [call EXCEPT ![c] = [Idle EXCEPT !.pc = "check", !.token = t,
                        !.session = token[t].session, !.version = token[t].version]]
    /\ UNCHANGED <<account, version, token, links, limit, issued, revoked>>

(* refresh: GETDEL.                                                        *)
Exchange(c) ==
    /\ At(c, "idle")
    /\ \E t \in Tokens :
        /\ Live(t)
        /\ token' = [token EXCEPT ![t] = NoToken]
        /\ call' = [call EXCEPT ![c] = [Idle EXCEPT !.pc = "check", !.token = t,
                        !.session = token[t].session, !.version = token[t].version]]
    /\ UNCHANGED <<account, version, links, limit, issued, revoked>>

(* Mutant of Check: an older version will do.                              *)
CheckOlder(c) ==
    /\ At(c, "check")
    /\ call' = [call EXCEPT ![c] = IF @.version <= version
                                   THEN [@ EXCEPT !.pc = "version", !.version = None]
                                   ELSE Idle]
    /\ UNCHANGED <<account, version, token, links, limit, issued, revoked>>

(* GET of the version. The user it then loads is there.                    *)
Check(c) ==
    /\ At(c, "check")
    /\ call' = [call EXCEPT ![c] = IF @.version = version
                                   THEN [@ EXCEPT !.pc = "version", !.version = None]
                                   ELSE Idle]
    /\ UNCHANGED <<account, version, token, links, limit, issued, revoked>>

(* The DEL of a logout, or the token's time to live.                       *)
Drop(t) ==
    /\ Live(t)
    /\ token' = [token EXCEPT ![t] = NoToken]
    /\ UNCHANGED <<account, version, links, limit, call, issued, revoked>>

-----------------------------------------------------------------------------
(* A new password.                                                         *)

(* change_password: the current password verifies against the row that     *)
(* get_current_user has loaded.                                            *)
Change(c) ==
    /\ At(c, "idle") /\ account # "absent"
    /\ call' = [call EXCEPT ![c].pc = "write"]
    /\ UNCHANGED <<account, version, token, links, limit, issued, revoked>>

(* Mutant of Reset: that GETDEL may return nothing is forgotten.           *)
ResetUnchecked(c) ==
    /\ At(c, "idle") /\ links' = links - 1
    /\ call' = [call EXCEPT ![c].pc = "write"]
    /\ UNCHANGED <<account, version, token, limit, issued, revoked>>

(* reset_password: GETDEL of the link; the user is loaded.                 *)
Reset(c) ==
    /\ At(c, "idle") /\ links > 0
    /\ links' = links - 1
    /\ call' = [call EXCEPT ![c].pc = "write"]
    /\ UNCHANGED <<account, version, token, limit, issued, revoked>>

(* UPDATE and COMMIT, whatever the row says by now ...                     *)
Write(c) ==
    /\ At(c, "write")
    /\ account' = "fresh"
    /\ call' = [call EXCEPT ![c].pc = "bump"]
    /\ UNCHANGED <<version, token, links, limit, issued, revoked>>

(* ... and INCR.                                                           *)
Bump(c) ==
    /\ At(c, "bump") /\ version < MaxVersion
    /\ version' = version + 1
    /\ call' = [call EXCEPT ![c] = Idle]
    /\ revoked' = issued
    /\ UNCHANGED <<account, token, links, limit, issued>>

-----------------------------------------------------------------------------
(* A link to reset the password.                                           *)

(* Mutant of Counted: EXPIRE is left to the next request.                  *)
CountedFirst(k) ==
    [limit EXCEPT ![k] = [hits |-> IF @.hits > MaxRequests THEN @.hits ELSE @.hits + 1,
                          lapses |-> @.hits > 0]]

(* INCR and EXPIRE NX in one transaction. Counts over the maximum are one. *)
Counted(k) ==
    [limit EXCEPT ![k] = [hits |-> IF @.hits > MaxRequests THEN @.hits ELSE @.hits + 1,
                          lapses |-> TRUE]]

Refused(k) == limit'[k].hits > MaxRequests

(* The limit by email ...                                                  *)
Forgot(c) ==
    /\ At(c, "idle")
    /\ limit' = Counted("email")
    /\ \E next \in {"ip", "link"} :   \* a peer without an address is not counted
        call' = IF Refused("email") THEN call ELSE [call EXCEPT ![c].pc = next]
    /\ UNCHANGED <<account, version, token, links, issued, revoked>>

(* ... by address ...                                                      *)
CountAddress(c) ==
    /\ At(c, "ip")
    /\ limit' = Counted("ip")
    /\ call' = [call EXCEPT ![c].pc = IF Refused("ip") THEN "idle" ELSE "link"]
    /\ UNCHANGED <<account, version, token, links, issued, revoked>>

(* ... and, if there is an account, SET of the link. The mail leaves after *)
(* the answer.                                                             *)
SendLink(c) ==
    /\ At(c, "link")
    /\ IF account = "absent" THEN UNCHANGED links
       ELSE links < MaxLinks /\ links' = links + 1
    /\ call' = [call EXCEPT ![c] = Idle]
    /\ UNCHANGED <<account, version, token, limit, issued, revoked>>

(* Redis: times to live.                                                   *)
LinkExpires ==
    /\ links > 0 /\ links' = links - 1
    /\ UNCHANGED <<account, version, token, limit, call, issued, revoked>>

WindowEnds(k) ==
    /\ limit[k].lapses
    /\ limit' = [limit EXCEPT ![k] = [hits |-> 0, lapses |-> FALSE]]
    /\ UNCHANGED <<account, version, token, links, call, issued, revoked>>

-----------------------------------------------------------------------------
(* A call dies, or an await raises: what it committed stays.               *)
Fail(c) ==
    /\ CallsFail /\ ~At(c, "idle")
    /\ call' = [call EXCEPT ![c] = Idle]
    /\ UNCHANGED <<account, version, token, links, limit, issued, revoked>>

Next ==
    \/ \E c \in Callers :
        \/ Register(c) \/ Login(c) \/ Rehash(c) \/ ReadVersion(c) \/ Store(c)
        \/ Exchange(c) \/ Check(c)
        \/ Change(c) \/ Reset(c) \/ Write(c) \/ Bump(c)
        \/ Forgot(c) \/ CountAddress(c) \/ SendLink(c)
        \/ Fail(c)
    \/ \E t \in Tokens : Drop(t)
    \/ LinkExpires
    \/ \E k \in Limits : WindowEnds(k)

Spec == Init /\ [][Next]_vars

(* Redis expires the keys that have a time to live. Nothing is asked of    *)
(* the calls.                                                              *)
FairSpec == Spec /\ \A k \in Limits : WF_vars(WindowEnds(k))

-----------------------------------------------------------------------------
(* The account, every key in Redis and every call have the shape that the  *)
(* code of AuthService gives them; no key is deleted that is not there.    *)
TypeOK ==
    /\ account \in {"absent", "stale", "fresh"}
    /\ version \in Versions
    /\ token \in [Tokens -> TokenData \union {NoToken}]
    /\ links \in 0 .. MaxLinks
    /\ limit \in [Limits -> [hits : 0 .. MaxRequests + 1, lapses : BOOLEAN]]
    /\ call \in [Callers -> CallState]
    /\ issued \in 0 .. MaxTokens /\ revoked \in 0 .. MaxTokens

(* "Refresh rotation uses GETDEL (atomic read-and-delete) so concurrent    *)
(* refreshes cannot both succeed": a session has one live refresh token,   *)
(* or one call that is about to exchange it, never two of either.          *)
Exchanging(c) == call[c].session # None

OneTokenPerSession ==
    /\ \A t, u \in Tokens :
        Live(t) /\ Live(u) /\ token[t].session = token[u].session => t = u
    /\ \A c, d \in Callers :
        Exchanging(c) /\ Exchanging(d) /\ call[c].session = call[d].session => c = d
    /\ \A c \in Callers, t \in Tokens :
        Exchanging(c) /\ Live(t) => call[c].session # token[t].session

(* "On password change we bump a per-user pw_v counter so any refresh      *)
(* token issued under a previous version becomes invalid": no token that   *)
(* was stored before a change ended is accepted after it, also if it was   *)
(* presented before.                                                       *)
RevokedStayRevoked ==
    [][\A c \in Callers :
        Check(c) /\ At(c, "version")' => call[c].token > revoked]_vars

(* "the window key can never end up without a TTL (which would otherwise   *)
(* block an email/IP forever if the process died between the two           *)
(* commands)": every count of requests goes back to none.                  *)
LimitsLapse == \A k \in Limits : limit[k].hits > 0 ~> limit[k].hits = 0
=============================================================================
