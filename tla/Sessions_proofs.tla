---------------------------- MODULE Sessions_proofs ----------------------------
(***************************************************************************)
(* Proofs about Sessions for any number of tabs and requests.  That every  *)
(* request ends is liveness, and stays with TLC; that it takes five steps  *)
(* at most is proved here.                                                 *)
(***************************************************************************)
EXTENDS Sessions, Integers, TLAPS

LEMMA TypeInit == Init => TypeOK
  BY DEF Init, TypeOK, CallState, RequestState

LEMMA TypeNext == TypeOK /\ [Next]_vars => TypeOK'
<1> SUFFICES ASSUME TypeOK, [Next]_vars PROVE TypeOK'
  OBVIOUS
<1> USE TabsAssumption DEF TypeOK, CallState, RequestState, InRefresh, jar, history
<1>1. ASSUME NEW t \in Tabs, TabNext(t) PROVE TypeOK'
  BY <1>1 DEF TabNext, canActivate, MeKnown, login, SignedIn, StaysOut, logout, SignedOut, SignOutFails,
     Await, Receive, SetAuth, SetTokenCookies, RemoveHash
<1>2. ASSUME NEW r \in Requests, Send(r) PROVE TypeOK'
  BY <1>2 DEF Send, Goto
<1>3. ASSUME NEW r \in Requests, RequestProgress(r) PROVE TypeOK'
  <2>1. CASE Queue(r) \/ RefreshRead(r) \/ RetryServed(r) \/ Answered(r)
    BY <2>1 DEF Queue, RefreshRead, RetryServed, Answered, Goto
  <2>2. CASE handle401(r)
    BY <2>2 DEF handle401, Goto
  <2>3. CASE RefreshWrite(r)
    BY <2>3 DEF RefreshWrite, Goto
  <2>4. CASE RefreshDone(r)
    BY <2>4 DEF RefreshDone, Settle, SetTokenCookies
  <2>5. CASE RefreshFails(r)
    BY <2>5 DEF RefreshFails, Goto, Settle, SetAuth, Queued, RequestsOf
  <2>6. CASE RetryFails(r)
    BY <2>6 DEF RetryFails, Goto, SetAuth
  <2> QED
    BY <1>3, <2>1, <2>2, <2>3, <2>4, <2>5, <2>6 DEF RequestProgress
<1>4. CASE AccessExpires \/ RefreshExpires \/ PasswordReset
  BY <1>4 DEF AccessExpires, RefreshExpires, PasswordReset, RemoveHash
<1>5. CASE UNCHANGED vars
  BY <1>5 DEF vars
<1> QED
  BY <1>1, <1>2, <1>3, <1>4, <1>5 DEF Next

(* Every variable keeps to its type.                                       *)
THEOREM TypeCorrect == Spec => []TypeOK
  BY TypeInit, TypeNext, PTL DEF Spec

-----------------------------------------------------------------------------
(* The stored hash: there from a login until it is removed, and when it    *)
(* has been removed with no refresh about to write, none becomes so.       *)
HashInv ==
  /\ ~ended => stored
  /\ ended /\ ~overlapped => ~stored /\ \A r \in Requests : st[r] # "rotating"

LEMMA HashNext == TypeOK /\ HashInv /\ [Next]_vars => HashInv'
<1> SUFFICES ASSUME TypeOK, HashInv, [Next]_vars PROVE HashInv'
  OBVIOUS
<1> USE DEF TypeOK, HashInv, jar, history
<1>1. ASSUME NEW t \in Tabs, TabNext(t) PROVE HashInv'
  <2>1. CASE login(t)
    BY <2>1 DEF login
  <2>2. CASE logout(t) /\ RemoveHash
    BY <2>2 DEF logout, RemoveHash
  <2>3. CASE UNCHANGED <<stored, ended, overlapped, st>>
    BY <2>3
  <2> QED
    BY <1>1, <2>1, <2>2, <2>3
       DEF TabNext, canActivate, MeKnown, SignedIn, StaysOut, logout, SignedOut, SignOutFails
<1>2. ASSUME NEW r \in Requests, Send(r) PROVE HashInv'
  BY <1>2 DEF Send, Goto
<1>3. ASSUME NEW r \in Requests, RequestProgress(r) PROVE HashInv'
  <2>1. CASE RefreshRead(r)
    BY <2>1 DEF RefreshRead, Goto
  <2>2. CASE RefreshWrite(r)
    BY <2>2 DEF RefreshWrite, Goto
  <2>3. CASE RefreshDone(r)
    BY <2>3 DEF RefreshDone
  <2>4. CASE Queue(r) \/ handle401(r) \/ RefreshFails(r) \/ RetryServed(r) \/ RetryFails(r) \/ Answered(r)
    <3>1. UNCHANGED <<stored, ended, overlapped>>
      BY <2>4 DEF Queue, handle401, RefreshFails, RetryServed, RetryFails, Answered
    <3>2. \E s \in RequestState \ {"rotating"} : st' = [st EXCEPT ![r] = s]
      BY <2>4 DEF Queue, handle401, RefreshFails, RetryServed, RetryFails, Answered, Goto,
         RequestState, InRefresh
    <3>3. \A q \in Requests : st'[q] = "rotating" => st[q] = "rotating"
      BY <3>2
    <3> QED
      BY <3>1, <3>3
  <2> QED
    BY <1>3, <2>1, <2>2, <2>3, <2>4 DEF RequestProgress
<1>4. CASE AccessExpires \/ RefreshExpires \/ PasswordReset
  <2>1. CASE PasswordReset
    BY <2>1 DEF PasswordReset, RemoveHash
  <2>2. CASE AccessExpires \/ RefreshExpires
    BY <2>2 DEF AccessExpires, RefreshExpires
  <2> QED
    BY <1>4, <2>1, <2>2
<1>5. CASE UNCHANGED vars
  BY <1>5 DEF vars
<1> QED
  BY <1>1, <1>2, <1>3, <1>4, <1>5 DEF Next

LEMMA HashLemma == Spec => []HashInv
<1>1. Init => HashInv
  BY DEF Init, HashInv
<1> QED
  BY <1>1, TypeInit, TypeNext, HashNext, PTL DEF Spec

(* After a logout or a password reset no refresh puts the hash back, in    *)
(* whatever order tabs and requests come, unless it had read it before.    *)
THEOREM RemovedHashStaysRemovedAlways == Spec => []RemovedHashStaysRemoved
<1>1. HashInv => RemovedHashStaysRemoved
  BY DEF HashInv, RemovedHashStaysRemoved
<1> QED
  BY <1>1, HashLemma, PTL

(* Tabs that refresh at once never lock one another out.                   *)
THEOREM RefreshTokenUsableAlways == Spec => []RefreshTokenUsable
<1>1. HashInv => RefreshTokenUsable
  BY DEF HashInv, RefreshTokenUsable
<1> QED
  BY <1>1, HashLemma, PTL

-----------------------------------------------------------------------------
(* isRefreshing is true only under a refresh, and false, unless it was     *)
(* reset by a failed retry, only when there is none.                       *)
RefreshInv ==
  \A t \in Tabs :
    /\ refreshing[t] => Refreshers(t) # {}
    /\ ~refreshing[t] /\ ~cut[t] => Refreshers(t) = {}

LockInv == RefreshInv /\ OneRefreshPerTab /\ QueuedBehindRefresh

LEMMA LockFrame ==
  ASSUME TypeOK, LockInv, UNCHANGED <<refreshing, cut, stranded>>,
         \A q \in Requests : st'[q] = st[q] \/ (st[q] \notin InRefresh /\ st'[q] \notin InRefresh \cup {"queued"})
                                           \/ (st[q] \in InRefresh /\ st'[q] \in InRefresh)
  PROVE  LockInv'
<1>1. \A t \in Tabs : Refreshers(t)' = Refreshers(t)
  BY DEF Refreshers, RequestsOf
<1>2. \A q \in Requests : st'[q] = "queued" => st[q] = "queued"
  BY DEF InRefresh
<1> QED
  BY <1>1, <1>2, TabsAssumption DEF LockInv, RefreshInv, OneRefreshPerTab, QueuedBehindRefresh

LEMMA LockNext == TypeOK /\ LockInv /\ [Next]_vars => LockInv'
<1> SUFFICES ASSUME TypeOK, LockInv, [Next]_vars PROVE LockInv'
  OBVIOUS
<1> USE TabsAssumption
<1>1. ASSUME NEW t \in Tabs, TabNext(t) PROVE LockInv'
  <2>1. UNCHANGED <<st, refreshing, cut, stranded>>
    BY <1>1 DEF TabNext, canActivate, MeKnown, login, SignedIn, StaysOut, logout, SignedOut, SignOutFails,
       RemoveHash, history
  <2> QED
    BY <2>1, LockFrame
<1>2. ASSUME NEW r \in Requests,
             Send(r) \/ RefreshRead(r) \/ RefreshWrite(r) \/ RetryServed(r) \/ Answered(r)
      PROVE  LockInv'
  <2>1. UNCHANGED <<refreshing, cut, stranded>>
    BY <1>2 DEF Send, RefreshRead, RefreshWrite, RetryServed, Answered, history
  <2>2. \/ st[r] \notin InRefresh /\ \E s \in {"idle", "sent"} : st' = [st EXCEPT ![r] = s]
        \/ st[r] \in InRefresh /\ \E s \in InRefresh : st' = [st EXCEPT ![r] = s]
    BY <1>2 DEF Send, RefreshRead, RefreshWrite, RetryServed, Answered, Goto, InRefresh
  <2>3. \A q \in Requests : st'[q] = st[q] \/ (st[q] \notin InRefresh /\ st'[q] \notin InRefresh \cup {"queued"})
                                          \/ (st[q] \in InRefresh /\ st'[q] \in InRefresh)
    BY <2>2 DEF TypeOK, InRefresh
  <2> QED
    BY <2>1, <2>3, LockFrame
<1>3. ASSUME NEW r \in Requests, Queue(r) PROVE LockInv'
  <2>1. /\ UNCHANGED <<refreshing, cut, stranded>> /\ refreshing[TabOf[r]]
        /\ st[r] = "sent" /\ st' = [st EXCEPT ![r] = "queued"]
    BY <1>3 DEF Queue, Goto, history
  <2>2. \A t \in Tabs : Refreshers(t)' = Refreshers(t)
    BY <2>1 DEF Refreshers, RequestsOf, InRefresh, TypeOK
  <2>3. \A q \in Requests : q # r => st'[q] = st[q]
    BY <2>1 DEF TypeOK
  <2> QED
    BY <2>1, <2>2, <2>3 DEF LockInv, RefreshInv, OneRefreshPerTab, QueuedBehindRefresh
<1>4. ASSUME NEW r \in Requests, handle401(r) PROVE LockInv'
  <2>1. /\ UNCHANGED <<cut, stranded>> /\ ~refreshing[TabOf[r]]
        /\ refreshing' = [refreshing EXCEPT ![TabOf[r]] = TRUE]
        /\ \E s \in InRefresh : st' = [st EXCEPT ![r] = s]
    BY <1>4 DEF handle401, Goto, history, InRefresh
  <2>2. \A t \in Tabs : Refreshers(t)' = IF t = TabOf[r] THEN Refreshers(t) \cup {r} ELSE Refreshers(t)
    BY <2>1 DEF Refreshers, RequestsOf, TypeOK
  <2>3. \A q \in Requests : st'[q] = "queued" => st[q] = "queued"
    BY <2>1 DEF TypeOK, InRefresh
  <2>4. \A t \in Tabs : refreshing'[t] = (refreshing[t] \/ t = TabOf[r])
    BY <2>1 DEF TypeOK
  <2>5. RefreshInv'
    BY <2>1, <2>2, <2>4 DEF LockInv, RefreshInv
  <2>6. OneRefreshPerTab'
    BY <2>1, <2>2 DEF LockInv, RefreshInv, OneRefreshPerTab
  <2>7. QueuedBehindRefresh'
    BY <2>1, <2>2, <2>3 DEF LockInv, QueuedBehindRefresh
  <2> QED
    BY <2>5, <2>6, <2>7 DEF LockInv
<1>5. ASSUME NEW r \in Requests, RefreshDone(r) \/ RefreshFails(r) PROVE LockInv'
  <2> DEFINE t == TabOf[r]
  <2>1. /\ refreshing' = [refreshing EXCEPT ![t] = FALSE]
        /\ cut' = [cut EXCEPT ![t] = @ /\ Refreshers(t) # {r}]
        /\ r \in Refreshers(t) /\ t \in Tabs
    BY <1>5 DEF RefreshDone, RefreshFails, Settle, Refreshers, RequestsOf, InRefresh
  <2>2. \A q \in Requests \ {r} : st'[q] = st[q] \/ (q \in Queued(t) /\ st'[q] = "resent")
    BY <1>5 DEF RefreshDone, RefreshFails, Goto, TypeOK
  <2>3. st'[r] \in {"retrying", "idle"}
    BY <1>5 DEF RefreshDone, RefreshFails, Goto, TypeOK
  <2>4. \A u \in Tabs : Refreshers(u)' = Refreshers(u) \ {r}
    BY <2>2, <2>3 DEF Refreshers, RequestsOf, InRefresh, Queued
  <2>5. \A u \in Tabs : u # t => Refreshers(u)' = Refreshers(u)
    BY <2>4 DEF Refreshers, RequestsOf
  <2>6. RefreshInv' /\ OneRefreshPerTab'
    BY <2>1, <2>4, <2>5 DEF LockInv, RefreshInv, OneRefreshPerTab, TypeOK
  <2>7. ASSUME NEW q \in Requests, st'[q] = "queued", TabOf[q] # t PROVE q \in stranded' \/ Refreshers(TabOf[q])' # {}
    <3>1. st[q] = "queued" /\ (q \in stranded => q \in stranded')
      BY <1>5, <2>2, <2>3, <2>7 DEF RefreshDone, RefreshFails, Queued, RequestsOf
    <3>2. q \in stranded \/ Refreshers(TabOf[q]) # {}
      BY <3>1 DEF LockInv, QueuedBehindRefresh
    <3>3. Refreshers(TabOf[q])' = Refreshers(TabOf[q])
      BY <2>5, <2>7
    <3> QED
      BY <3>1, <3>2, <3>3
  <2>8. ASSUME NEW q \in Requests, st'[q] = "queued", TabOf[q] = t PROVE q \in stranded'
    <3>1. st[q] = "queued" /\ q \in Queued(t) /\ q # r
      BY <2>2, <2>3, <2>8 DEF Queued, RequestsOf
    <3>2. ~RefreshDone(r)
      BY <2>8, <3>1 DEF RefreshDone
    <3> QED
      BY <1>5, <3>1, <3>2 DEF RefreshFails
  <2> QED
    BY <2>6, <2>7, <2>8 DEF LockInv, QueuedBehindRefresh
<1>6. ASSUME NEW r \in Requests, RetryFails(r) PROVE LockInv'
  <2>1. /\ refreshing' = [refreshing EXCEPT ![TabOf[r]] = FALSE]
        /\ cut' = [cut EXCEPT ![TabOf[r]] = Refreshers(TabOf[r]) # {}]
        /\ st[r] = "retrying" /\ st' = [st EXCEPT ![r] = "idle"] /\ stranded' = stranded
    BY <1>6 DEF RetryFails, Goto
  <2>2. \A t \in Tabs : Refreshers(t)' = Refreshers(t)
    BY <2>1 DEF Refreshers, RequestsOf, InRefresh, TypeOK
  <2>3. \A q \in Requests : st'[q] = "queued" => st[q] = "queued"
    BY <2>1 DEF TypeOK
  <2> QED
    BY <2>1, <2>2, <2>3 DEF LockInv, RefreshInv, OneRefreshPerTab, QueuedBehindRefresh, TypeOK
<1>7. CASE AccessExpires \/ RefreshExpires \/ PasswordReset \/ UNCHANGED vars
  <2>1. UNCHANGED <<st, refreshing, cut, stranded>>
    BY <1>7 DEF AccessExpires, RefreshExpires, PasswordReset, RemoveHash, history, vars
  <2> QED
    BY <2>1, LockFrame
<1> QED
  BY <1>1, <1>2, <1>3, <1>4, <1>5, <1>6, <1>7 DEF Next, RequestProgress

LEMMA LockLemma == Spec => []LockInv
<1>1. Init => LockInv
  BY DEF Init, LockInv, RefreshInv, OneRefreshPerTab, QueuedBehindRefresh, Refreshers, RequestsOf, InRefresh
<1> QED
  BY <1>1, TypeInit, TypeNext, LockNext, PTL DEF Spec

(* However many requests of a tab are answered 401 together, one of them   *)
(* refreshes, until a failed retry resets isRefreshing under a refresh.    *)
THEOREM OneRefreshPerTabAlways == Spec => []OneRefreshPerTab
  BY LockLemma, PTL DEF LockInv

(* No request waits in the queue of a tab in which nothing refreshes,      *)
(* except behind a refresh that failed.                                    *)
THEOREM QueuedBehindRefreshAlways == Spec => []QueuedBehindRefresh
  BY LockLemma, PTL DEF LockInv

-----------------------------------------------------------------------------
(* The other half of RequestsEnd, that a request cannot go round for ever: *)
(* how many steps it is from its end, the longest way.                     *)
RequestRank(r) ==
  CASE st[r] = "sent" -> 5
    [] st[r] \in {"queued", "refreshing"} -> 4
    [] st[r] = "rotating" -> 3
    [] st[r] = "renewed" -> 2
    [] st[r] \in {"denied", "retrying", "resent"} -> 1
    [] OTHER -> 0

RequestsRunDown ==
  \A r \in Requests :
    /\ RequestRank(r)' <= RequestRank(r) \/ Send(r)
    /\ RequestProgress(r) => RequestRank(r)' < RequestRank(r)

LEMMA RankFrame ==
  ASSUME TypeOK, NEW r \in Requests, NEW s \in RequestState,
         \/ st' = [st EXCEPT ![r] = s]
         \/ st' = [q \in Requests |-> IF q = r THEN s
                     ELSE IF q \in Queued(TabOf[r]) THEN "resent" ELSE st[q]],
         RequestRank(r)' < RequestRank(r)
  PROVE  \A q \in Requests : RequestRank(q)' <= RequestRank(q)
<1> TAKE q \in Requests
<1>1. RequestRank(q) \in 0 .. 5 /\ RequestRank(q)' \in 0 .. 5
  BY DEF RequestRank
<1>2. CASE q = r
  BY <1>1, <1>2
<1>3. CASE q # r /\ st'[q] = st[q]
  BY <1>1, <1>3 DEF RequestRank
<1>4. CASE q # r /\ st[q] = "queued" /\ st'[q] = "resent"
  BY <1>4 DEF RequestRank
<1> QED
  BY <1>2, <1>3, <1>4 DEF TypeOK, Queued

LEMMA RankFalls ==
  ASSUME TypeOK, NEW r \in Requests, RequestProgress(r)
  PROVE  /\ RequestRank(r)' < RequestRank(r)
         /\ \E s \in RequestState :
              \/ st' = [st EXCEPT ![r] = s]
              \/ st' = [q \in Requests |-> IF q = r THEN s
                          ELSE IF q \in Queued(TabOf[r]) THEN "resent" ELSE st[q]]
<1> USE DEF RequestState, InRefresh
<1>1. CASE Queue(r)
  BY <1>1 DEF Queue, Goto, TypeOK, RequestRank
<1>2. CASE handle401(r)
  <2>1. PICK s \in {"refreshing", "denied"} : st' = [st EXCEPT ![r] = s]
    BY <1>2 DEF handle401, Goto
  <2>2. st[r] = "sent"
    BY <1>2 DEF handle401
  <2>3. RequestRank(r)' < RequestRank(r)
    <3>1. st'[r] = s
      BY <2>1 DEF TypeOK
    <3> QED
      BY <2>2, <3>1 DEF RequestRank
  <2>4. s \in RequestState
    OBVIOUS
  <2> QED
    BY <2>1, <2>3, <2>4
<1>3. CASE RefreshRead(r)
  <2>1. PICK s \in {"rotating", "denied"} : st' = [st EXCEPT ![r] = s]
    BY <1>3 DEF RefreshRead, Goto
  <2>2. st[r] = "refreshing"
    BY <1>3 DEF RefreshRead
  <2>3. RequestRank(r)' < RequestRank(r)
    <3>1. st'[r] = s
      BY <2>1 DEF TypeOK
    <3> QED
      BY <2>2, <3>1 DEF RequestRank
  <2>4. s \in RequestState
    OBVIOUS
  <2> QED
    BY <2>1, <2>3, <2>4
<1>4. CASE RefreshWrite(r)
  BY <1>4 DEF RefreshWrite, Goto, TypeOK, RequestRank
<1>5. CASE RefreshDone(r)
  BY <1>5 DEF RefreshDone, TypeOK, RequestRank
<1>6. CASE RefreshFails(r)
  BY <1>6 DEF RefreshFails, Goto, TypeOK, RequestRank
<1>7. CASE RetryServed(r) \/ RetryFails(r)
  <2>1. st[r] = "retrying" /\ st' = [st EXCEPT ![r] = "idle"]
    BY <1>7 DEF RetryServed, RetryFails, Goto
  <2> QED
    BY <2>1 DEF TypeOK, RequestRank
<1>8. CASE Answered(r)
  BY <1>8 DEF Answered, Goto, TypeOK, RequestRank
<1> QED
  BY <1>1, <1>2, <1>3, <1>4, <1>5, <1>6, <1>7, <1>8 DEF RequestProgress

(* Whatever the tabs and the server do, every step of a request brings it  *)
(* nearer to its answer, after five at most, and nothing but its page      *)
(* sending it anew takes it back: no request is refreshed and retried      *)
(* without end.                                                            *)
THEOREM RequestsAreBounded ==
  Spec => /\ [][RequestsRunDown]_vars
          /\ [](\A r \in Requests : /\ RequestRank(r) \in 0 .. 5
                                    /\ RequestRank(r) = 0 <=> st[r] = "idle")
<1>1. ASSUME TypeOK, [Next]_vars, vars' # vars
      PROVE  RequestsRunDown
  <2> USE <1>1
  <2>0. \A r \in Requests : RequestRank(r) \in 0 .. 5 /\ RequestRank(r)' \in 0 .. 5
    BY DEF RequestRank
  <2>1. ASSUME NEW r \in Requests, RequestProgress(r)
        PROVE  RequestRank(r)' < RequestRank(r)
    BY <2>1, RankFalls
  <2>2. CASE \E r \in Requests : RequestProgress(r)
    <3>1. \A r \in Requests : RequestRank(r)' <= RequestRank(r)
      BY <2>2, RankFalls, RankFrame
    <3> QED
      BY <2>1, <3>1 DEF RequestsRunDown
  <2>3. ASSUME NEW r \in Requests, Send(r)
        PROVE  RequestsRunDown
    <3>1. \A q \in Requests : q # r => RequestRank(q)' = RequestRank(q)
      BY <2>3 DEF Send, Goto, TypeOK, RequestRank
    <3>2. \A q \in Requests : q # r => RequestRank(q)' <= RequestRank(q)
      BY <2>0, <3>1
    <3> QED
      BY <2>1, <2>3, <3>2 DEF RequestsRunDown
  <2>4. ASSUME st' = st
        PROVE  RequestsRunDown
    <3>1. \A q \in Requests : RequestRank(q)' = RequestRank(q)
      BY <2>4 DEF RequestRank
    <3>2. \A q \in Requests : RequestRank(q)' <= RequestRank(q)
      BY <2>0, <3>1
    <3> QED
      BY <2>1, <3>2 DEF RequestsRunDown
  <2>5. ASSUME NEW t \in Tabs, TabNext(t)
        PROVE  st' = st
    BY <2>5 DEF TabNext, canActivate, MeKnown, login, SignedIn, StaysOut, logout, SignedOut,
      SignOutFails
  <2>6. CASE AccessExpires \/ RefreshExpires \/ PasswordReset
    BY <2>4, <2>6 DEF AccessExpires, RefreshExpires, PasswordReset
  <2> QED
    BY <2>2, <2>3, <2>4, <2>5, <2>6 DEF Next
<1>2. TypeOK => \A r \in Requests : /\ RequestRank(r) \in 0 .. 5
                                    /\ RequestRank(r) = 0 <=> st[r] = "idle"
  BY DEF TypeOK, RequestState, InRefresh, RequestRank
<1>3. TypeOK /\ [Next]_vars => [RequestsRunDown]_vars
  BY <1>1
<1> QED
  BY <1>2, <1>3, TypeInit, TypeNext, PTL DEF Spec
=============================================================================
