------------------------------ MODULE Sessions ------------------------------
(***************************************************************************)
(* The session of one user in one browser: the token half of AuthService   *)
(* (login's last step, refresh, logout) behind JwtStrategy, and the        *)
(* AuthInterceptor, AuthService and AuthGuard of the tabs that share the   *)
(* browser's cookies.                                                      *)
(*                                                                         *)
(* The server takes a call of /auth/ as it is sent and the answer arrives  *)
(* later.  refresh() reads the user and writes the new hash later still,   *)
(* with other requests in between.                                         *)
(* Set-Cookie takes effect when the answer arrives.  An answer may be lost,*)
(* and a tab sees that as an error.                                        *)
(*                                                                         *)
(* bcrypt compares the first 72 bytes of what it is given.  In a token that*)
(* is its header and the start of {"sub": id, so the comparison says yes   *)
(* for every token of the user whose token the hash was made from: of the  *)
(* stored hash the model keeps whether there is one.                       *)
(***************************************************************************)
CONSTANTS
  Tabs,      \* tabs of the browser with the application open
  Requests,  \* requests of pages, to anything but /auth/
  TabOf      \* the tab that makes each request

ASSUME TabsAssumption == TabOf \in [Requests -> Tabs]

VARIABLES
  stored,      \* the server: the user has a refreshTokenHash
  access,      \* the browser holds an access_token cookie
  refresh,     \* the browser holds a refresh_token cookie
  auth,        \* isAuthenticated() of each tab
  refreshing,  \* isRefreshing of each tab's interceptor
  call,        \* the answer each tab awaits of a getMe, login or logout
  st,          \* where each request is
  ended,       \* history: the hash was removed since the last login
  overlapped,  \* history: a refresh had read the hash before it was removed
  cut,         \* history: a failed retry reset isRefreshing under another refresh
  stranded     \* history: requests queued when a refresh failed

jar == <<access, refresh>>
history == <<ended, overlapped, cut, stranded>>
vars == <<stored, jar, auth, refreshing, call, st, history>>

CallState == {"none", "known", "signedIn", "signedOut", "refused"}

(* A request that will be answered 401 was sent; then it waits in the queue*)
(* of its tab or refreshes, and is sent again: by the queue or by the      *)
(* refresh it made.  A request answered at once changes nothing here.      *)
InRefresh == {"refreshing", "rotating", "renewed", "denied"}
RequestState == {"idle", "sent", "queued", "resent", "retrying"} \cup InRefresh

RequestsOf(t) == {r \in Requests : TabOf[r] = t}
Refreshers(t) == {r \in RequestsOf(t) : st[r] \in InRefresh}
Queued(t) == {r \in RequestsOf(t) : st[r] = "queued"}

TypeOK ==
  /\ stored \in BOOLEAN
  /\ access \in BOOLEAN /\ refresh \in BOOLEAN
  /\ auth \in [Tabs -> BOOLEAN]
  /\ refreshing \in [Tabs -> BOOLEAN]
  /\ call \in [Tabs -> CallState]
  /\ st \in [Requests -> RequestState]
  /\ ended \in BOOLEAN /\ overlapped \in BOOLEAN
  /\ cut \in [Tabs -> BOOLEAN]
  /\ stranded \in SUBSET Requests

Init ==
  /\ stored = FALSE
  /\ access = FALSE /\ refresh = FALSE
  /\ auth = [t \in Tabs |-> FALSE]
  /\ refreshing = [t \in Tabs |-> FALSE]
  /\ call = [t \in Tabs |-> "none"]
  /\ st = [r \in Requests |-> "idle"]
  /\ ended = TRUE /\ overlapped = FALSE
  /\ cut = [t \in Tabs |-> FALSE]
  /\ stranded = {}

-----------------------------------------------------------------------------
SetAuth(t, b) == auth' = [auth EXCEPT ![t] = b]
Await(t, answer) == call[t] = "none" /\ call' = [call EXCEPT ![t] = answer]
Receive(t, answers) == call[t] \in answers /\ call' = [call EXCEPT ![t] = "none"]
SetTokenCookies == access' = TRUE /\ refresh' = TRUE

(* The hash is removed: by a logout or a password reset.                   *)
RemoveHash ==
  /\ stored' = FALSE
  /\ ended' = TRUE
  /\ overlapped' = \E r \in Requests : st[r] = "rotating"

-----------------------------------------------------------------------------
(* The guards of both applications: a tab that is not signed in asks who   *)
(* the user is.  The url is /auth/me, so a 401 is not refreshed and leaves *)
(* everything as it is.                                                    *)

canActivate(t) ==
  /\ ~auth[t] /\ access
  /\ Await(t, "known")
  /\ UNCHANGED <<stored, jar, auth, refreshing, st, history>>

MeKnown(t) ==
  /\ Receive(t, {"known"})
  /\ SetAuth(t, TRUE)
  /\ UNCHANGED <<stored, jar, refreshing, st, history>>

(* Signing in.  Whether login accepts the password is for Accounts.        *)

login(t) ==
  /\ ~auth[t]
  /\ Await(t, "signedIn")
  /\ stored' = TRUE
  /\ ended' = FALSE
  /\ overlapped' = FALSE
  /\ UNCHANGED <<jar, auth, refreshing, st, cut, stranded>>

SignedIn(t) ==
  /\ Receive(t, {"signedIn"})
  /\ SetTokenCookies
  /\ SetAuth(t, TRUE)
  /\ UNCHANGED <<stored, refreshing, st, history>>

(* The answer of a getMe or a login is lost.                               *)
StaysOut(t) ==
  /\ Receive(t, {"known", "signedIn"})
  /\ UNCHANGED <<stored, jar, auth, refreshing, st, history>>

(* Signing out.  The controller's guard refuses an expired access token,   *)
(* and then neither the hash nor the cookies go; the tab signs out anyway. *)

logout(t) ==
  /\ auth[t]
  /\ IF access
     THEN Await(t, "signedOut") /\ RemoveHash
     ELSE Await(t, "refused") /\ UNCHANGED <<stored, ended, overlapped>>
  /\ UNCHANGED <<jar, auth, refreshing, st, cut, stranded>>

SignedOut(t) ==
  /\ Receive(t, {"signedOut"})
  /\ access' = FALSE /\ refresh' = FALSE
  /\ SetAuth(t, FALSE)
  /\ UNCHANGED <<stored, refreshing, st, history>>

SignOutFails(t) ==
  /\ Receive(t, {"signedOut", "refused"})
  /\ SetAuth(t, FALSE)
  /\ UNCHANGED <<stored, jar, refreshing, st, history>>

-----------------------------------------------------------------------------
(* AuthInterceptor.intercept and handle401.                                *)

Goto(r, s) == st' = [st EXCEPT ![r] = s]

(* Without an access token, or with one that expires on the way.           *)
Send(r) ==
  /\ st[r] = "idle" /\ auth[TabOf[r]]
  /\ Goto(r, "sent")
  /\ UNCHANGED <<stored, jar, auth, refreshing, call, history>>

(* Mutant: a 401 waits for refreshDone$ though no refresh is under way.    *)
QueueAlways(r) ==
  /\ st[r] = "sent"
  /\ Goto(r, "queued")
  /\ UNCHANGED <<stored, jar, auth, refreshing, call, history>>

Queue(r) ==
  /\ st[r] = "sent" /\ refreshing[TabOf[r]]
  /\ Goto(r, "queued")
  /\ UNCHANGED <<stored, jar, auth, refreshing, call, history>>

(* Mutant: without a refresh token the request is forgotten.               *)
DropWithoutToken(r) ==
  /\ st[r] = "sent" /\ ~refreshing[TabOf[r]]
  /\ Goto(r, IF refresh THEN "refreshing" ELSE "dropped")
  /\ refreshing' = [refreshing EXCEPT ![TabOf[r]] = TRUE]
  /\ UNCHANGED <<stored, jar, auth, call, history>>

(* Mutant: isRefreshing is not looked at.                                  *)
RefreshEach401(r) ==
  /\ st[r] = "sent"
  /\ Goto(r, IF refresh THEN "refreshing" ELSE "denied")
  /\ refreshing' = [refreshing EXCEPT ![TabOf[r]] = TRUE]
  /\ UNCHANGED <<stored, jar, auth, call, history>>

(* Without a refresh token the controller cannot decode one, and throws.   *)
handle401(r) ==
  /\ st[r] = "sent" /\ ~refreshing[TabOf[r]]
  /\ Goto(r, IF refresh THEN "refreshing" ELSE "denied")
  /\ refreshing' = [refreshing EXCEPT ![TabOf[r]] = TRUE]
  /\ UNCHANGED <<stored, jar, auth, call, history>>

(* AuthService.refresh reads the user and compares, and writes the hash of *)
(* the new token once that is made.  The user's status is not looked at.   *)

(* Mutant: a token is taken for good because it can be decoded.            *)
RefreshUnchecked(r) ==
  /\ st[r] = "refreshing"
  /\ Goto(r, "rotating")
  /\ UNCHANGED <<stored, jar, auth, refreshing, call, history>>

(* Mutant: the hash is consumed when it is read.                           *)
RefreshConsumes(r) ==
  /\ st[r] = "refreshing"
  /\ Goto(r, IF stored THEN "rotating" ELSE "denied")
  /\ stored' = FALSE
  /\ UNCHANGED <<jar, auth, refreshing, call, history>>

RefreshRead(r) ==
  /\ st[r] = "refreshing"
  /\ Goto(r, IF stored THEN "rotating" ELSE "denied")
  /\ UNCHANGED <<stored, jar, auth, refreshing, call, history>>

RefreshWrite(r) ==
  /\ st[r] = "rotating"
  /\ Goto(r, "renewed")
  /\ stored' = TRUE
  /\ UNCHANGED <<jar, auth, refreshing, call, history>>

(* cut[t] lasts as long as two refreshes of the tab may be under way.      *)
Settle(t, r) == cut' = [cut EXCEPT ![t] = @ /\ Refreshers(t) # {r}]

(* Mutant: refreshDone$ is not told.                                       *)
RefreshDoneUntold(r) ==
  LET t == TabOf[r] IN
  /\ st[r] = "renewed"
  /\ SetTokenCookies
  /\ refreshing' = [refreshing EXCEPT ![t] = FALSE]
  /\ Goto(r, "retrying")
  /\ Settle(t, r)
  /\ UNCHANGED <<stored, auth, call, ended, overlapped, stranded>>

(* The answer arrives: refreshDone$ releases the queue, and both the queued*)
(* requests and the one that refreshed are sent again.                     *)
RefreshDone(r) ==
  LET t == TabOf[r] IN
  /\ st[r] = "renewed"
  /\ SetTokenCookies
  /\ refreshing' = [refreshing EXCEPT ![t] = FALSE]
  /\ st' = [q \in Requests |-> IF q = r THEN "retrying"
                               ELSE IF q \in Queued(t) THEN "resent" ELSE st[q]]
  /\ stranded' = stranded \ Queued(t)
  /\ Settle(t, r)
  /\ UNCHANGED <<stored, auth, call, ended, overlapped>>

(* Refused, or the answer lost: the tab signs out.  The queue is not       *)
(* released.                                                               *)
RefreshFails(r) ==
  LET t == TabOf[r] IN
  /\ st[r] \in {"refreshing", "denied", "renewed"}
  /\ Goto(r, "idle")
  /\ refreshing' = [refreshing EXCEPT ![t] = FALSE]
  /\ SetAuth(t, FALSE)
  /\ stranded' = stranded \cup Queued(t)
  /\ Settle(t, r)
  /\ UNCHANGED <<stored, jar, call, ended, overlapped>>

(* The second answer of a request.                                         *)

RetryServed(r) ==
  /\ st[r] = "retrying"
  /\ Goto(r, "idle")
  /\ UNCHANGED <<stored, jar, auth, refreshing, call, history>>

(* The catchError of handle401 is below its switchMap: it takes any error  *)
(* of the retried request, a 404 as well as a 401, for a failed refresh.   *)
RetryFails(r) ==
  LET t == TabOf[r] IN
  /\ st[r] = "retrying"
  /\ Goto(r, "idle")
  /\ refreshing' = [refreshing EXCEPT ![t] = FALSE]
  /\ SetAuth(t, FALSE)
  /\ cut' = [cut EXCEPT ![t] = Refreshers(t) # {}]
  /\ UNCHANGED <<stored, jar, call, ended, overlapped, stranded>>

(* What the queue sent again ends with its answer, whatever that is; so    *)
(* does a request whose first answer is lost.                              *)
Answered(r) ==
  /\ st[r] \in {"sent", "resent"}
  /\ Goto(r, "idle")
  /\ UNCHANGED <<stored, jar, auth, refreshing, call, history>>

-----------------------------------------------------------------------------
(* Time, and a reset from elsewhere.                                       *)

(* 15 minutes.                                                             *)
AccessExpires ==
  /\ access
  /\ access' = FALSE
  /\ UNCHANGED <<stored, refresh, auth, refreshing, call, st, history>>

(* 7 days without a refresh.                                               *)
RefreshExpires ==
  /\ ~access /\ refresh
  /\ refresh' = FALSE
  /\ UNCHANGED <<stored, access, auth, refreshing, call, st, history>>

(* resetPassword, or an administrator's resetClientPassword.               *)
PasswordReset ==
  /\ stored
  /\ RemoveHash
  /\ UNCHANGED <<jar, auth, refreshing, call, st, cut, stranded>>

-----------------------------------------------------------------------------
TabNext(t) ==
  \/ canActivate(t) \/ MeKnown(t) \/ login(t) \/ SignedIn(t) \/ StaysOut(t)
  \/ logout(t) \/ SignedOut(t) \/ SignOutFails(t)

(* What the network and the server bring about for a request once sent.    *)
RequestProgress(r) ==
  \/ Queue(r) \/ handle401(r)
  \/ RefreshRead(r) \/ RefreshWrite(r) \/ RefreshDone(r) \/ RefreshFails(r)
  \/ RetryServed(r) \/ RetryFails(r) \/ Answered(r)

Next ==
  \/ \E t \in Tabs : TabNext(t)
  \/ \E r \in Requests : Send(r) \/ RequestProgress(r)
  \/ AccessExpires \/ RefreshExpires \/ PasswordReset

(* A browser gives every request an answer or an error.                    *)
Fairness == \A r \in Requests : WF_vars(RequestProgress(r))

Spec == Init /\ [][Next]_vars /\ Fairness

-----------------------------------------------------------------------------
(* Once a logout or a password reset has removed the hash, no refresh puts *)
(* it back before the next login, except one that had read it before.      *)
RemovedHashStaysRemoved == ended /\ ~overlapped => ~stored

(* Refreshes of several tabs do not lock one another out: a browser that   *)
(* holds a refresh token can use it until a logout or a reset.             *)
RefreshTokenUsable == refresh /\ ~ended => stored

(* A tab has one refresh under way, unless a retried request failed under  *)
(* another refresh and reset isRefreshing.                                 *)
OneRefreshPerTab ==
  \A t \in Tabs : ~cut[t] => \A q, r \in Refreshers(t) : q = r

(* A queued request has a refresh to wait for, unless one failed meanwhile.*)
QueuedBehindRefresh ==
  \A r \in Requests : st[r] = "queued" => r \in stranded \/ Refreshers(TabOf[r]) # {}

(* Every request of a page ends in an answer or an error, but the queue of *)
(* a refresh that failed waits for a later refresh that may never come.    *)
RequestsEnd ==
  \A r \in Requests : (st[r] # "idle") ~> (st[r] = "idle" \/ r \in stranded)
=============================================================================
