---------------------------- MODULE MobileClient ----------------------------
(***************************************************************************)
(* One installation of the mobile app: the interceptor that answers a 401  *)
(* with one refresh for all requests (mobile/src/api/client.ts), the auth  *)
(* store that keeps the tokens in memory and, the refresh token only, in   *)
(* the secure store (mobile/src/store/auth.ts), and the server's single-   *)
(* use refresh tokens (backend/app/services/auth.py).                      *)
(*                                                                         *)
(* The app runs one thread: what a coroutine does between two awaits is    *)
(* one step. A token pair is the number of the pair. Any call may be lost, *)
(* before or after the server has handled it, or outlast the 15 seconds    *)
(* that axios waits, which is the same to the app.                         *)
(***************************************************************************)
EXTENDS Naturals, FiniteSets

CONSTANTS
    Requests,   \* concurrent calls of the API by screens
    MaxPairs,   \* bound: token pairs the server issues
    Loses       \* can calls be lost?

ASSUME MobileAssumption ==
    /\ IsFiniteSet(Requests) /\ {"boot", "out"} \intersect Requests = {}
    /\ MaxPairs \in Nat /\ Loses \in BOOLEAN

Pairs == 1 .. MaxPairs
NoPair == 0

(* hydrate() and the "Sign out" button run once at a time.                 *)
Tasks == Requests \union {"boot", "out"}

VARIABLES
    \* the server
    issuedPairs, \* how many pairs were issued
    live,       \* Redis: refresh tokens that nobody has used
    valid,      \* access tokens that have not expired
    \* the app
    status, access, refresh,  \* the auth store
    stored,                   \* the secure store
    isRefreshing,             \* of the interceptor
    task,                     \* what each coroutine has in hand
    \* history
    presented,  \* refresh tokens that a POST to /api/auth/refresh carried
    torn,       \* the answer to such a POST was lost, or the app was killed
                \* while a coroutine was changing the session
    gaveUp,     \* waiters were rejected
    overlap     \* two coroutines were changing the session at once

server == <<issuedPairs, live, valid>>
store == <<status, access, refresh>>
history == <<presented, torn, gaveUp>>
appVars == <<server, store, stored, isRefreshing, task, history, overlap>>

Steps == {"idle", "wire", "denied", "queued",            \* a request
          "refreshing", "rotated", "saved",              \* the refresh of a 401
          "refused", "forgotten", "leaving",             \* its failure
          "granted", "kept",                             \* signing in
          "logout", "logged", "cleared"}                 \* signing out

TaskState == [pc : Steps, kind : {"data", "login"}, pair : Pairs \union {NoPair},
              retried : BOOLEAN]

IdleTask == [pc |-> "idle", kind |-> "data", pair |-> NoPair, retried |-> FALSE]
TaskAt(t, s) == task[t].pc = s
(* A coroutine that may still write the store or the secure store.         *)
Changing(t) == task[t].pc \notin {"idle", "wire", "denied", "queued"}
Waiters == {r \in Requests : TaskAt(r, "queued")}

(* What becomes of the tasks when t goes on with what and the waiters are  *)
(* drained: after says what each of them goes on with.                     *)
Drained(t, what, after) ==
    [u \in Tasks |-> IF u = t THEN what ELSE IF u \in Waiters THEN after[u] ELSE task[u]]

Rejected == [u \in Waiters |-> IdleTask]

(* A task's POST to /api/auth/refresh leaves.                              *)
Present(token) ==
    presented' = presented \union {token}

-----------------------------------------------------------------------------
InitApp ==
    /\ issuedPairs = 0 /\ live = {} /\ valid = {}
    /\ status = "idle" /\ access = NoPair /\ refresh = NoPair /\ stored = NoPair
    /\ isRefreshing = FALSE
    /\ task = [t \in Tasks |-> IdleTask]
    /\ presented = {} /\ torn = FALSE /\ gaveUp = FALSE /\ overlap = FALSE

(* The app starts: hydrate().                                              *)
Boot ==
    /\ status = "idle"
    /\ IF stored = NoPair
       THEN /\ status' = "unauthenticated"
            /\ UNCHANGED <<task, presented>>
       ELSE /\ status' = "hydrating"
            /\ task' = [task EXCEPT !["boot"] =
                            [IdleTask EXCEPT !.pc = "refreshing", !.pair = stored]]
            /\ Present(stored)
    /\ UNCHANGED <<server, access, refresh, stored, isRefreshing, torn, gaveUp>>

(* A screen calls the API, or the sign-in screen calls /api/auth/login,    *)
(* whose button is disabled while it waits.                                *)
Send(r) ==
    /\ TaskAt(r, "idle")
    /\ \/ /\ status = "authenticated"
          /\ task' = [task EXCEPT ![r] = [IdleTask EXCEPT !.pc = "wire", !.pair = access]]
       \/ /\ status = "unauthenticated"
          /\ \A u \in Requests : TaskAt(u, "idle") \/ task[u].kind = "data"
          /\ task' = [task EXCEPT ![r] =
                        [IdleTask EXCEPT !.pc = "wire", !.kind = "login", !.pair = access]]
    /\ UNCHANGED <<server, store, stored, isRefreshing, history>>

-----------------------------------------------------------------------------
(* The server.                                                             *)

(* A data request is answered for a valid access token, a login for the    *)
(* right password; anything else is a 401.                                 *)
Serve(r) ==
    /\ TaskAt(r, "wire")
    /\ \/ /\ task[r].kind = "data" /\ task[r].pair \in valid
          /\ task' = [task EXCEPT ![r] = IdleTask]
          /\ UNCHANGED server
       \/ /\ task[r].kind = "login" /\ issuedPairs < MaxPairs
          /\ issuedPairs' = issuedPairs + 1
          /\ live' = live \union {issuedPairs'} /\ valid' = valid \union {issuedPairs'}
          /\ task' = [task EXCEPT ![r].pc = "granted", ![r].pair = issuedPairs']
       \/ /\ task[r].kind = "data" => task[r].pair \notin valid
          /\ task' = [task EXCEPT ![r].pc = "denied"]
          /\ UNCHANGED server
    /\ UNCHANGED <<store, stored, isRefreshing, history>>

(* AuthService.refresh: GETDEL of the token, and a new pair.               *)
ServeRefresh(t) ==
    /\ TaskAt(t, "refreshing")
    /\ \/ /\ task[t].pair \in live /\ issuedPairs < MaxPairs
          /\ issuedPairs' = issuedPairs + 1
          /\ live' = (live \ {task[t].pair}) \union {issuedPairs'}
          /\ valid' = valid \union {issuedPairs'}
          /\ task' = [task EXCEPT ![t].pc = IF t = "boot" THEN "granted" ELSE "rotated",
                                  ![t].pair = issuedPairs']
       \/ /\ task[t].pair \notin live
          /\ task' = [task EXCEPT ![t].pc = "refused"]
          /\ UNCHANGED server
    /\ UNCHANGED <<store, stored, isRefreshing, history>>

(* AuthService.logout.                                                     *)
ServeLogout ==
    /\ TaskAt("out", "logout")
    /\ live' = live \ {task["out"].pair}
    /\ task' = [task EXCEPT !["out"].pc = "logged"]
    /\ UNCHANGED <<issuedPairs, valid, store, stored, isRefreshing, history>>

(* No answer: to a request, to a refresh that the server may have handled, *)
(* to a logout.                                                            *)
Lose(t) ==
    /\ Loses
    /\ \/ /\ TaskAt(t, "wire") \/ TaskAt(t, "denied") \/ (TaskAt(t, "granted") /\ t # "boot")
          /\ task' = [task EXCEPT ![t] = IdleTask]
          /\ UNCHANGED torn
       \/ /\ TaskAt(t, "refreshing") \/ TaskAt(t, "rotated") \/ (TaskAt(t, "granted") /\ t = "boot")
          /\ task' = [task EXCEPT ![t].pc = "refused"]
          /\ torn' = TRUE
       \/ /\ TaskAt(t, "logout")
          /\ task' = [task EXCEPT ![t].pc = "logged"]
          /\ UNCHANGED torn
    /\ UNCHANGED <<server, store, stored, isRefreshing, presented, gaveUp>>

Expire ==
    /\ \E n \in valid : valid' = valid \ {n}
    /\ UNCHANGED <<issuedPairs, live, store, stored, isRefreshing, task, history>>

-----------------------------------------------------------------------------
(* The interceptor and refresh().                                          *)

(* Mutant of Denied: every 401 begins a refresh of its own.                *)
DeniedAlone(r) ==
    /\ TaskAt(r, "denied")
    /\ \/ /\ task[r].retried
          /\ task' = [task EXCEPT ![r] = IdleTask]
          /\ UNCHANGED presented
       \/ /\ ~task[r].retried /\ refresh # NoPair
          /\ task' = [task EXCEPT ![r].pc = "refreshing", ![r].retried = TRUE,
                                  ![r].pair = refresh]
          /\ Present(refresh)
    /\ UNCHANGED <<server, store, stored, isRefreshing, torn, gaveUp>>

(* A 401 arrives. It is final for a request that was sent again; it waits  *)
(* for a refresh under way, or begins one. Without a refresh token there   *)
(* is none: the waiters are rejected and the app signs out.                *)
Denied(r) ==
    /\ TaskAt(r, "denied")
    /\ \/ /\ task[r].retried
          /\ task' = [task EXCEPT ![r] = IdleTask]
          /\ UNCHANGED <<isRefreshing, presented, gaveUp>>
       \/ /\ ~task[r].retried /\ isRefreshing
          /\ task' = [task EXCEPT ![r].pc = "queued", ![r].retried = TRUE]
          /\ UNCHANGED <<isRefreshing, presented, gaveUp>>
       \/ /\ ~task[r].retried /\ ~isRefreshing /\ refresh # NoPair
          /\ isRefreshing' = TRUE
          /\ task' = [task EXCEPT ![r].pc = "refreshing", ![r].retried = TRUE,
                                  ![r].pair = refresh]
          /\ Present(refresh) /\ UNCHANGED gaveUp
       \/ /\ ~task[r].retried /\ ~isRefreshing /\ refresh = NoPair
          /\ isRefreshing' = TRUE
          /\ task' = Drained(r, [task[r] EXCEPT !.pc = "leaving", !.retried = TRUE],
                             Rejected)
          /\ gaveUp' = TRUE
          /\ UNCHANGED presented
    /\ UNCHANGED <<server, store, stored, torn>>

(* Mutant of Save: the rotated token stays in memory.                      *)
SaveNothing(r) ==
    /\ TaskAt(r, "rotated")
    /\ task' = [task EXCEPT ![r].pc = "saved"]
    /\ UNCHANGED <<server, store, stored, isRefreshing, history>>

(* await saveRefreshToken(pair.refresh_token)                              *)
Save(r) ==
    /\ TaskAt(r, "rotated")
    /\ stored' = task[r].pair
    /\ task' = [task EXCEPT ![r].pc = "saved"]
    /\ UNCHANGED <<server, store, isRefreshing, history>>

(* Mutant of Resume: the waiters are not drained.                          *)
ResumeAlone(r) ==
    /\ TaskAt(r, "saved")
    /\ access' = task[r].pair /\ refresh' = task[r].pair
    /\ task' = [task EXCEPT ![r].pc = "wire"]
    /\ isRefreshing' = FALSE
    /\ UNCHANGED <<server, status, stored, history>>

(* set(...), and everything up to the finally: the waiters and the request *)
(* itself are sent again.                                                  *)
Resume(r) ==
    LET again == [u \in Requests |->
                    [task[u] EXCEPT !.pc = "wire", !.pair = task[r].pair]] IN
    /\ TaskAt(r, "saved")
    /\ access' = task[r].pair /\ refresh' = task[r].pair
    /\ task' = Drained(r, again[r], again)
    /\ isRefreshing' = FALSE
    /\ UNCHANGED <<server, status, stored, history>>

(* The catch of refresh() and of hydrate(): await saveRefreshToken(null).  *)
Forget(t) ==
    /\ TaskAt(t, "refused")
    /\ stored' = NoPair
    /\ task' = [task EXCEPT ![t].pc = "forgotten"]
    /\ UNCHANGED <<server, store, isRefreshing, history>>

(* Mutant of SignedOut: a status that no screen knows.                     *)
SignedOutMisspelt ==
    status' = "signed_out" /\ access' = NoPair /\ refresh' = NoPair

SignedOut ==
    status' = "unauthenticated" /\ access' = NoPair /\ refresh' = NoPair

(* Their set(...). The interceptor rejects the waiters and calls signOut,  *)
(* which finds no refresh token to log out.                                *)
GiveUp(t) ==
    /\ TaskAt(t, "forgotten")
    /\ SignedOut
    /\ task' = IF t = "boot" THEN [task EXCEPT ![t] = IdleTask]
               ELSE Drained(t, [task[t] EXCEPT !.pc = "leaving"], Rejected)
    /\ gaveUp' = (gaveUp \/ t # "boot")
    /\ UNCHANGED <<server, stored, isRefreshing, presented, torn>>

(* signOut's await saveRefreshToken(null), by the interceptor or the user. *)
Clear(t) ==
    /\ TaskAt(t, "leaving") \/ TaskAt(t, "logged")
    /\ stored' = NoPair
    /\ task' = [task EXCEPT ![t].pc = "cleared"]
    /\ UNCHANGED <<server, store, isRefreshing, history>>

(* signOut's set(...), and the finally of the interceptor.                 *)
Leave(t) ==
    /\ TaskAt(t, "cleared")
    /\ SignedOut
    /\ isRefreshing' = IF t = "out" THEN isRefreshing ELSE FALSE
    /\ task' = [task EXCEPT ![t] = IdleTask]
    /\ UNCHANGED <<server, stored, history>>

-----------------------------------------------------------------------------
(* Signing in and out.                                                     *)

(* signIn and hydrate: await saveRefreshToken(pair.refresh_token), then    *)
(* set(...).                                                               *)
Keep(t) ==
    /\ TaskAt(t, "granted")
    /\ stored' = task[t].pair
    /\ task' = [task EXCEPT ![t].pc = "kept"]
    /\ UNCHANGED <<server, store, isRefreshing, history>>

SignedIn(t) ==
    /\ TaskAt(t, "kept")
    /\ status' = "authenticated" /\ access' = task[t].pair /\ refresh' = task[t].pair
    /\ task' = [task EXCEPT ![t] = IdleTask]
    /\ UNCHANGED <<server, stored, isRefreshing, history>>

(* The button of the settings screen.                                      *)
SignOut ==
    /\ status = "authenticated" /\ TaskAt("out", "idle")
    /\ task' = [task EXCEPT !["out"] =
                    IF refresh = NoPair THEN [IdleTask EXCEPT !.pc = "logged"]
                    ELSE [IdleTask EXCEPT !.pc = "logout", !.pair = refresh]]
    /\ UNCHANGED <<server, store, stored, isRefreshing, history>>

(* The app is closed, or the phone kills it.                               *)
Restart ==
    /\ status # "idle"
    /\ status' = "idle" /\ access' = NoPair /\ refresh' = NoPair
    /\ isRefreshing' = FALSE
    /\ task' = [t \in Tasks |-> IdleTask]
    /\ torn' = (torn \/ \E t \in Tasks : Changing(t))
    /\ UNCHANGED <<server, stored, presented, gaveUp>>

Handle(t) ==
    \/ t \in Requests /\ (Serve(t) \/ Denied(t) \/ Save(t) \/ Resume(t))
    \/ ServeRefresh(t) \/ Lose(t) \/ Forget(t) \/ GiveUp(t)
    \/ Clear(t) \/ Leave(t) \/ Keep(t) \/ SignedIn(t)
    \/ t = "out" /\ ServeLogout

AppNext ==
    /\ \/ Boot \/ SignOut \/ Expire \/ Restart
       \/ \E r \in Requests : Send(r)
       \/ \E t \in Tasks : Handle(t)
    /\ overlap' = (overlap \/ Cardinality({t \in Tasks : Changing(t)'}) > 1)

AppSpec == InitApp /\ [][AppNext]_appVars

(* Coroutines go on; every call is answered or times out.                  *)
FairAppSpec ==
    AppSpec /\ \A t \in Tasks : WF_<<server, store, stored, isRefreshing, task>>(Handle(t))

-----------------------------------------------------------------------------
(* The app's two stores hold pairs that were issued, every task is at one  *)
(* of the steps of api.ts, and the status is one AuthGuard.tsx knows.      *)
AppTypeOK ==
    /\ issuedPairs \in 0 .. MaxPairs /\ live \subseteq Pairs /\ valid \subseteq Pairs
    /\ status \in {"idle", "hydrating", "authenticated", "unauthenticated"}
    /\ {access, refresh, stored} \subseteq Pairs \union {NoPair}
    /\ isRefreshing \in BOOLEAN
    /\ task \in [Tasks -> TaskState]
    /\ presented \subseteq Pairs
    /\ {torn, gaveUp, overlap} \subseteq BOOLEAN

(* "on 401, refresh once": as long as no answer was lost, and the app was  *)
(* not killed with one on its way, a refresh token is presented once only. *)
PresentedOnce ==
    [][\A t \in Tasks : ~TaskAt(t, "refreshing") /\ TaskAt(t, "refreshing")' =>
            task'[t].pair \notin presented \/ torn]_appVars

(* "Refresh token persisted in expo-secure-store [...] Access token held   *)
(* in memory": when nothing is changing the session, and signing in and    *)
(* out, refreshing and failing never ran into each other, the app is       *)
(* signed in exactly if it has a token, has it in both places, and the     *)
(* server will take it.                                                    *)
StoresAgree ==
    (\A t \in Tasks : ~Changing(t)) /\ ~overlap =>
        /\ status = "authenticated" <=> refresh # NoPair
        /\ status # "idle" => stored = refresh /\ stored \in live \union {NoPair}

(* "queue this request [...] replay original + queued requests": a request *)
(* that waits for a refresh is sent again or rejected.                     *)
QueuedRequestsEnd == \A r \in Requests : TaskAt(r, "queued") ~> ~TaskAt(r, "queued")

(* So they are until the first refresh fails.                              *)
ReplayedOrGaveUp ==
    \A r \in Requests : TaskAt(r, "queued") ~> ~TaskAt(r, "queued") \/ gaveUp
=============================================================================
