---------------------------- MODULE Accounts_proofs ----------------------------
(***************************************************************************)
(* Proofs about Accounts for any number of calls and any                   *)
(* MAX_FAILED_ATTEMPTS.                                                    *)
(***************************************************************************)
EXTENDS Accounts, TLAPS

(* The disjuncts of Next, by what they are about.                          *)
Register(c) == register(c) \/ SaveCompany(c) \/ CompanyRefused(c) \/ SaveUser(c) \/ UserRefused(c)
               \/ createSubAdmin(c)
Login(c) == login(c) \/ LoginFails(c) \/ CheckCompany(c) \/ LoginDone(c)
Reset(c) == forgotPassword(c) \/ StoreToken(c) \/ Mail(c) \/ resetPassword(c) \/ SetPassword(c)
Decision(c) == approveClient(c) \/ rejectClient(c) \/ suspendClient(c) \/ activateClient(c)
               \/ SaveApproved(c) \/ SaveRejected(c) \/ SaveSuspended(c) \/ sendNotification(c)

LEMMA NextCases ==
  [Next]_vars =>
    \/ \E c \in Calls : Register(c) \/ Login(c) \/ Reset(c) \/ Decision(c)
    \/ disableSubAdmin \/ LockExpires \/ LinkExpires \/ UNCHANGED vars
  BY DEF Next, Register, Login, Reset, Decision

LEMMA TypeInit == Init => TypeOK
<1> SUFFICES ASSUME Init PROVE TypeOK
  OBVIOUS
<1>1. uses \in [1 .. issued -> Nat]
  BY DEF Init
<1>2. company \in CompanyStatus \cup {"none"} /\ user \in UserRole \cup {"none"}
  BY DEF Init, UserRole
<1>3. pc \in [Calls -> CallState] /\ counted \in [Calls -> Nat] /\ token \in [Calls -> Nat]
      /\ status \in [Calls -> CompanyStatus \cup {"none"}]
  BY DEF Init, CallState
<1> QED
  BY <1>1, <1>2, <1>3 DEF Init, TypeOK

LEMMA TypeNext == TypeOK /\ [Next]_vars => TypeOK'
<1> SUFFICES ASSUME TypeOK, [Next]_vars PROVE TypeOK'
  OBVIOUS
<1> USE DEF TypeOK, CallState, Registering, LoggingIn, Resetting, Deciding, Notifying, Goto, Begin,
      accountVars, lockVars, linkVars, decisionVars, copies
<1>1. ASSUME NEW c \in Calls, Register(c) PROVE TypeOK'
  <2>1. CASE register(c) \/ CompanyRefused(c) \/ createSubAdmin(c)
    BY <2>1 DEF register, CompanyRefused, createSubAdmin
  <2>2. CASE SaveCompany(c)
    BY <2>2 DEF SaveCompany, CompanyStatus
  <2>3. CASE SaveUser(c)
    BY <2>3 DEF SaveUser, UserRole
  <2>4. CASE UserRefused(c)
    BY <2>4 DEF UserRefused
  <2> QED
    BY <1>1, <2>1, <2>2, <2>3, <2>4 DEF Register
<1>2. ASSUME NEW c \in Calls, Login(c) PROVE TypeOK'
  <2>1. CASE login(c)
    BY <2>1 DEF login
  <2>2. CASE LoginFails(c)
    BY <2>2, MaxFailedAttemptsAssumption DEF LoginFails
  <2>3. CASE CheckCompany(c)
    BY <2>3 DEF CheckCompany
  <2>4. CASE LoginDone(c)
    <3>1. (At(LoggingIn) # {c}) \in BOOLEAN
      OBVIOUS
    <3> QED
      BY <2>4, <3>1 DEF LoginDone
  <2> QED
    BY <1>2, <2>1, <2>2, <2>3, <2>4 DEF Login
<1>3. ASSUME NEW c \in Calls, Reset(c) PROVE TypeOK'
  <2>1. CASE forgotPassword(c)
    BY <2>1 DEF forgotPassword
  <2>2. CASE StoreToken(c)
    BY <2>2 DEF StoreToken
  <2>3. CASE Mail(c)
    BY <2>3 DEF Mail
  <2>4. CASE resetPassword(c)
    BY <2>4 DEF resetPassword
  <2>5. CASE SetPassword(c)
    <3>1. uses' \in [1 .. issued' -> Nat]
      <4>1. issued' = issued /\ uses' = [uses EXCEPT ![token[c]] = uses[token[c]] + 1]
        BY <2>5 DEF SetPassword
      <4>2. CASE token[c] \in 1 .. issued
        BY <4>1, <4>2
      <4>3. CASE token[c] \notin 1 .. issued
        BY <4>1, <4>3
      <4> QED
        BY <4>2, <4>3
    <3>2. clobbered' \subseteq Nat
      BY <2>5 DEF SetPassword
    <3>3. pc' \in [Calls -> CallState] /\ link' = 0
      BY <2>5 DEF SetPassword
    <3>4. UNCHANGED <<accountVars, lockVars, mails, issued, shared, decisionVars, told, orphaned, copies>>
      BY <2>5 DEF SetPassword
    <3> QED
      BY <3>1, <3>2, <3>3, <3>4
  <2> QED
    BY <1>3, <2>1, <2>2, <2>3, <2>4, <2>5 DEF Reset
<1>4. ASSUME NEW c \in Calls, Decision(c) PROVE TypeOK'
  <2>1. CASE approveClient(c) \/ rejectClient(c) \/ suspendClient(c)
    BY <2>1 DEF approveClient, rejectClient, suspendClient, Read
  <2>2. CASE activateClient(c)
    BY <2>2 DEF activateClient, Decide, CompanyStatus, At
  <2>3. CASE SaveApproved(c)
    BY <2>3 DEF SaveApproved, SaveDecision, Decide, CompanyStatus, At
  <2>4. CASE SaveRejected(c)
    BY <2>4 DEF SaveRejected, SaveDecision, Decide, CompanyStatus, At
  <2>5. CASE SaveSuspended(c)
    BY <2>5 DEF SaveSuspended, SaveDecision, Decide, CompanyStatus, At
  <2>6. CASE sendNotification(c)
    BY <2>6 DEF sendNotification, NotificationType
  <2> QED
    BY <1>4, <2>1, <2>2, <2>3, <2>4, <2>5, <2>6 DEF Decision
<1>5. CASE disableSubAdmin \/ LockExpires \/ LinkExpires
  <2>1. CASE disableSubAdmin
    BY <2>1 DEF disableSubAdmin
  <2>2. CASE LockExpires
    BY <2>2 DEF LockExpires
  <2>3. CASE LinkExpires
    BY <2>3 DEF LinkExpires
  <2> QED
    BY <1>5, <2>1, <2>2, <2>3
<1>6. CASE UNCHANGED vars
  BY <1>6 DEF vars
<1> QED
  BY NextCases, <1>1, <1>2, <1>3, <1>4, <1>5, <1>6

LEMMA TypeLemma == Spec => []TypeOK
  BY TypeInit, TypeNext, PTL DEF Spec

(* Every variable keeps to its type.                                       *)
THEOREM TypeCorrect == Spec => []TypeOK
  BY TypeLemma

-----------------------------------------------------------------------------
(* Reset links: a token in hand was made, one that was used is no longer   *)
(* what the user holds, and two calls with one token are known.            *)
HandInv ==
  /\ link \in 0 .. issued /\ mails \subseteq 1 .. issued
  /\ \A c \in Calls : pc[c] \in {"mailing", "settingPassword"} => token[c] \in 1 .. issued
  /\ link # 0 => uses[link] = 0
  /\ \A c, d \in Calls :
       pc[c] = "settingPassword" /\ pc[d] = "settingPassword" /\ c # d /\ token[c] = token[d] =>
         token[c] \in shared
  /\ \A c \in Calls : pc[c] = "settingPassword" /\ uses[token[c]] > 0 => token[c] \in shared

LinkInv == HandInv /\ LinkUsedOnce /\ NewestLinkWorks

LEMMA LinkNext == TypeOK /\ LinkInv /\ [Next]_vars => LinkInv'
<1> SUFFICES ASSUME TypeOK, LinkInv, [Next]_vars PROVE LinkInv'
  OBVIOUS
<1> USE DEF TypeOK, LinkInv, HandInv, LinkUsedOnce, NewestLinkWorks
(* A step that is about anything else.                                     *)
<1>a. ASSUME UNCHANGED linkVars,
             \A c \in Calls : pc'[c] \in {"mailing", "settingPassword"} =>
                                pc'[c] = pc[c] /\ token'[c] = token[c]
      PROVE  LinkInv'
  BY <1>a DEF linkVars
<1>1. ASSUME NEW c \in Calls, Register(c) \/ Login(c) \/ Decision(c) \/ forgotPassword(c) PROVE LinkInv'
  <2>1. UNCHANGED linkVars /\ token' = token
    BY <1>1 DEF Register, register, SaveCompany, CompanyRefused, SaveUser, UserRefused, createSubAdmin,
       Login, login, LoginFails, CheckCompany, LoginDone, Decision, approveClient, rejectClient,
       suspendClient, Read, activateClient, SaveApproved, SaveRejected, SaveSuspended, SaveDecision,
       sendNotification, forgotPassword, copies
  <2>2. \E s \in CallState \ {"mailing", "settingPassword"} : pc' = [pc EXCEPT ![c] = s]
    BY <1>1 DEF Register, register, SaveCompany, CompanyRefused, SaveUser, UserRefused, createSubAdmin,
       Login, login, LoginFails, CheckCompany, LoginDone, Decision, approveClient, rejectClient,
       suspendClient, Read, activateClient, SaveApproved, SaveRejected, SaveSuspended, SaveDecision,
       sendNotification, forgotPassword, Goto, Begin, CallState, Registering, LoggingIn, Resetting,
       Deciding, Notifying
  <2>3. \A d \in Calls : pc'[d] \in {"mailing", "settingPassword"} => pc'[d] = pc[d]
    BY <2>2
  <2> QED
    BY <1>a, <2>1, <2>3
<1>2. ASSUME NEW c \in Calls, StoreToken(c) PROVE LinkInv'
  <2>1. /\ issued' = issued + 1 /\ link' = issued + 1 /\ mails' = mails /\ shared' = shared
        /\ clobbered' = clobbered
        /\ pc' = [pc EXCEPT ![c] = "mailing"] /\ token' = [token EXCEPT ![c] = issued + 1]
    BY <1>2 DEF StoreToken, Goto
  <2>2. uses'[issued + 1] = 0 /\ \A n \in 1 .. issued : uses'[n] = uses[n]
    BY <1>2 DEF StoreToken
  <2>3. link' \in 0 .. issued' /\ mails' \subseteq 1 .. issued' /\ uses'[link'] = 0
    BY <2>1, <2>2
  <2>4. \A d \in Calls : /\ pc'[d] \in {"mailing", "settingPassword"} => token'[d] \in 1 .. issued'
                         /\ pc'[d] = "settingPassword" => pc[d] = "settingPassword" /\ token'[d] = token[d]
    BY <2>1
  <2>5. HandInv'
    BY <2>1, <2>2, <2>3, <2>4
  <2>6. LinkUsedOnce' /\ NewestLinkWorks'
    BY <2>1, <2>2
  <2> QED
    BY <2>5, <2>6
<1>3. ASSUME NEW c \in Calls, Mail(c) PROVE LinkInv'
  <2>1. /\ UNCHANGED <<link, issued, clobbered, uses, shared, token>>
        /\ pc[c] = "mailing" /\ pc' = [pc EXCEPT ![c] = "end"]
        /\ mails' \subseteq mails \cup {token[c]}
    BY <1>3 DEF Mail, Goto, copies
  <2> QED
    BY <2>1
<1>4. ASSUME NEW c \in Calls, resetPassword(c) PROVE LinkInv'
  <2>1. /\ UNCHANGED <<link, mails, issued, clobbered, uses>>
        /\ link \in mails
        /\ pc' = [pc EXCEPT ![c] = "settingPassword"] /\ token' = [token EXCEPT ![c] = link]
        /\ \A n \in shared : n \in shared'
    BY <1>4 DEF resetPassword, Begin, Goto
  <2>2. \A d \in Calls : d # c /\ pc[d] = "settingPassword" /\ token[d] = link => link \in shared'
    BY <1>4 DEF resetPassword, At
  <2>3. link # 0 /\ uses[link] = 0
    BY <2>1
  <2> QED
    BY <2>1, <2>2, <2>3
<1>5. ASSUME NEW c \in Calls, SetPassword(c) PROVE LinkInv'
  <2> DEFINE n == token[c]
  <2>1. /\ UNCHANGED <<mails, issued, shared, token>> /\ link' = 0
        /\ pc[c] = "settingPassword" /\ pc' = [pc EXCEPT ![c] = "end"]
    BY <1>5 DEF SetPassword, Goto, copies
  <2>2. n \in 1 .. issued
    BY <2>1
  <2>3. uses'[n] = uses[n] + 1 /\ \A m \in 1 .. issued : m # n => uses'[m] = uses[m]
    BY <1>5, <2>2 DEF SetPassword
  <2>4. \A m \in clobbered : m \in clobbered'
    BY <1>5 DEF SetPassword
  <2>5. link # n => link \in clobbered'
    BY <1>5 DEF SetPassword
  <2>6. HandInv'
    BY <2>1, <2>2, <2>3
  <2>7. LinkUsedOnce'
    <3>1. uses[n] \in Nat /\ (uses[n] > 0 => n \in shared)
      BY <2>1, <2>2
    <3>2. ASSUME NEW m \in 1 .. issued, uses'[m] > 1 PROVE uses[m] > 1 \/ m \in shared
      <4>1. CASE m = n
        <5>1. uses[n] + 1 > 1
          BY <2>3, <3>2, <4>1
        <5> QED
          BY <3>1, <4>1, <5>1
      <4>2. CASE m # n
        BY <2>3, <3>2, <4>2
      <4> QED
        BY <4>1, <4>2
    <3> QED
      BY <2>1, <3>2
  <2>8. NewestLinkWorks'
    BY <2>1, <2>2, <2>3, <2>4, <2>5
  <2> QED
    BY <2>6, <2>7, <2>8
<1>6. CASE LinkExpires
  BY <1>6 DEF LinkExpires, copies
<1>7. CASE disableSubAdmin \/ LockExpires \/ UNCHANGED vars
  <2>1. UNCHANGED <<linkVars, pc, token>>
    BY <1>7 DEF disableSubAdmin, LockExpires, vars, copies
  <2> QED
    BY <1>a, <2>1
<1> QED
  BY NextCases, <1>1, <1>2, <1>3, <1>4, <1>5, <1>6, <1>7 DEF Reset

LEMMA LinkLemma == Spec => []LinkInv
<1>1. Init => LinkInv
  BY DEF Init, LinkInv, HandInv, LinkUsedOnce, NewestLinkWorks
<1> QED
  BY <1>1, TypeInit, TypeNext, LinkNext, PTL DEF Spec

(* A reset link works once, however many resets are under way, unless two  *)
(* of them had matched it before either saved.                             *)
THEOREM LinkUsedOnceAlways == Spec => []LinkUsedOnce
  BY LinkLemma, PTL DEF LinkInv

(* The newest link is the one that works, until it is used, it expires or  *)
(* a reset with an older one clears it.                                    *)
THEOREM NewestLinkWorksAlways == Spec => []NewestLinkWorks
  BY LinkLemma, PTL DEF LinkInv

-----------------------------------------------------------------------------
(* Decisions: until the next decision, a call that was not overtaken has   *)
(* read what the agency is; approvals began from pending.                  *)
CopyInv ==
  \A c \in Calls :
    /\ pc[c] \in Deciding => company # "none" /\ status[c] # "none"
    /\ pc[c] \in Deciding /\ c \notin raced => status[c] = company
    /\ pc[c] = "approving" => status[c] = "pending"

DecisionInv == CopyInv /\ DecisionTakesEffect

LEMMA DecisionNext == TypeOK /\ DecisionInv /\ [Next]_vars => DecisionInv'
<1> SUFFICES ASSUME TypeOK, DecisionInv, [Next]_vars PROVE DecisionInv'
  OBVIOUS
<1> USE DEF TypeOK, DecisionInv, CopyInv, DecisionTakesEffect, Deciding
<1>a. ASSUME UNCHANGED <<company, decisionVars, status>>,
             \A c \in Calls : pc'[c] \in Deciding => pc'[c] = pc[c]
      PROVE  DecisionInv'
  BY <1>a DEF decisionVars
<1>1. ASSUME NEW c \in Calls,
             (Register(c) /\ ~SaveCompany(c)) \/ Login(c) \/ Reset(c) \/ sendNotification(c)
      PROVE  DecisionInv'
  <2>1. UNCHANGED <<company, decisionVars, status>>
    BY <1>1 DEF Register, register, CompanyRefused, SaveUser, UserRefused, createSubAdmin,
       Login, login, LoginFails, CheckCompany, LoginDone, Reset, forgotPassword, StoreToken, Mail,
       resetPassword, SetPassword, sendNotification, accountVars, copies
  <2>2. \E s \in CallState \ Deciding : pc' = [pc EXCEPT ![c] = s]
    BY <1>1 DEF Register, register, CompanyRefused, SaveUser, UserRefused, createSubAdmin,
       Login, login, LoginFails, CheckCompany, LoginDone, Reset, forgotPassword, StoreToken, Mail,
       resetPassword, SetPassword, sendNotification, Goto, Begin, CallState, Registering, LoggingIn,
       Resetting, Notifying
  <2>3. \A d \in Calls : pc'[d] \in Deciding => pc'[d] = pc[d]
    BY <2>2
  <2> QED
    BY <1>a, <2>1, <2>3
<1>2. ASSUME NEW c \in Calls, SaveCompany(c) PROVE DecisionInv'
  <2>1. company = "none" /\ company' = "pending" /\ decided' = "pending" /\ UNCHANGED <<raced, contested, status>>
    BY <1>2 DEF SaveCompany, copies
  <2>2. \A d \in Calls : pc'[d] \notin Deciding
    BY <1>2 DEF SaveCompany, Goto
  <2> QED
    BY <2>1, <2>2
<1>3. ASSUME NEW c \in Calls, approveClient(c) \/ rejectClient(c) \/ suspendClient(c) PROVE DecisionInv'
  <2>1. UNCHANGED <<company, decisionVars>> /\ company # "none" /\ status' = [status EXCEPT ![c] = company]
    BY <1>3 DEF approveClient, rejectClient, suspendClient, Read, accountVars
  <2>2. \E s \in Deciding : pc' = [pc EXCEPT ![c] = s] /\ (s = "approving" => company = "pending")
    BY <1>3 DEF approveClient, rejectClient, suspendClient, Read, Begin, Goto
  <2> QED
    BY <2>1, <2>2 DEF decisionVars
<1>4. ASSUME NEW c \in Calls, activateClient(c) PROVE DecisionInv'
  <2>1. company' = "active" /\ decided' = "active" /\ raced' = At(Deciding) \ {c} /\ status' = status
    BY <1>4 DEF activateClient, Decide, copies
  <2>2. \A d \in Calls : pc'[d] \in Deciding => d # c /\ pc'[d] = pc[d]
    BY <1>4 DEF activateClient, Begin, Goto
  <2> QED
    BY <2>1, <2>2 DEF At
<1>5. ASSUME NEW c \in Calls, SaveApproved(c) \/ SaveRejected(c) \/ SaveSuspended(c) PROVE DecisionInv'
  <2> PICK s \in CompanyStatus \ {"pending"}, at \in Deciding, next \in CallState \ Deciding :
             SaveDecision(c, at, s, next)
    BY <1>5 DEF SaveApproved, SaveRejected, SaveSuspended, CompanyStatus, CallState, Notifying
  <2>1. /\ company' = IF status[c] = s THEN company ELSE s
        /\ decided' = s /\ raced' = At(Deciding) \ {c} /\ contested' = (c \in raced)
        /\ status' = status /\ pc[c] \in Deciding
    BY DEF SaveDecision, Decide, copies
  <2>2. \A d \in Calls : pc'[d] \in Deciding => d # c /\ pc'[d] = pc[d]
    BY DEF SaveDecision, Goto
  <2>3. CopyInv'
    BY <2>1, <2>2 DEF At, CompanyStatus
  <2>4. DecisionTakesEffect'
    BY <2>1
  <2> QED
    BY <2>3, <2>4
<1>6. CASE disableSubAdmin \/ LockExpires \/ LinkExpires \/ UNCHANGED vars
  <2>1. UNCHANGED <<company, decisionVars, status, pc>>
    BY <1>6 DEF disableSubAdmin, LockExpires, LinkExpires, vars, accountVars, copies
  <2> QED
    BY <1>a, <2>1
<1> QED
  BY NextCases, <1>1, <1>2, <1>3, <1>4, <1>5, <1>6 DEF Register, Decision

LEMMA DecisionLemma == Spec => []DecisionInv
<1>1. Init => DecisionInv
  BY DEF Init, DecisionInv, CopyInv, DecisionTakesEffect, Deciding
<1> QED
  BY <1>1, TypeInit, TypeNext, DecisionNext, PTL DEF Spec

(* The agency is in the state its last decision gave it, however many      *)
(* administrators decide at once, unless that decision was overtaken.      *)
THEOREM DecisionTakesEffectAlways == Spec => []DecisionTakesEffect
  BY DecisionLemma, PTL DEF DecisionInv

(* A rejected or suspended agency becomes active by activateClient, or by  *)
(* an approval that had read it before another decision.                   *)
THEOREM OutUntilActivatedAlways == Spec => OutUntilActivated
<1> DEFINE Woken == \E c \in Calls : activateClient(c) \/ (SaveApproved(c) /\ c \in raced)
<1>1. ASSUME TypeOK, DecisionInv, [Next]_vars, company \in {"rejected", "suspended"}, company' = "active"
      PROVE  Woken
  <2>1. ASSUME NEW c \in Calls, Register(c) \/ Login(c) \/ Reset(c) PROVE FALSE
    BY <1>1, <2>1 DEF Register, register, SaveCompany, CompanyRefused, SaveUser, UserRefused, createSubAdmin,
       Login, login, LoginFails, CheckCompany, LoginDone, Reset, forgotPassword, StoreToken, Mail,
       resetPassword, SetPassword, accountVars
  <2>2. ASSUME NEW c \in Calls, Decision(c) PROVE activateClient(c) \/ SaveApproved(c)
    BY <1>1, <2>2 DEF Decision, approveClient, rejectClient, suspendClient, Read, SaveRejected,
       SaveSuspended, SaveDecision, sendNotification, accountVars
  <2>3. ~(disableSubAdmin \/ LockExpires \/ LinkExpires \/ UNCHANGED vars)
    BY <1>1 DEF disableSubAdmin, LockExpires, LinkExpires, vars, accountVars
  <2>4. PICK c \in Calls : activateClient(c) \/ SaveApproved(c)
    BY <1>1, <2>1, <2>2, <2>3, NextCases
  <2>5. SaveApproved(c) => c \in raced
    BY <1>1 DEF SaveApproved, SaveDecision, DecisionInv, CopyInv, Deciding
  <2> QED
    BY <2>4, <2>5
<1>2. TypeOK /\ DecisionInv /\ [Next]_vars =>
        [(company \in {"rejected", "suspended"} /\ company' = "active") => Woken]_vars
  BY <1>1
<1> QED
  BY <1>2, TypeLemma, DecisionLemma, PTL DEF Spec, OutUntilActivated

-----------------------------------------------------------------------------
(* Logins: as long as none overlapped, at most one is under way, it counts *)
(* from what the user has, and none is while the account is locked.        *)
LoginInv ==
  ~drifted =>
    /\ fails <= attempts /\ fails <= MAX_FAILED_ATTEMPTS
    /\ ~locked => fails < MAX_FAILED_ATTEMPTS
    /\ \A c \in Calls : pc[c] \in LoggingIn =>
         /\ ~locked /\ counted[c] = attempts
         /\ \A d \in Calls : pc[d] \in LoggingIn => d = c

LEMMA LoginNext == TypeOK /\ LoginInv /\ [Next]_vars => LoginInv'
<1> SUFFICES ASSUME TypeOK, LoginInv, [Next]_vars PROVE LoginInv'
  OBVIOUS
<1> USE MaxFailedAttemptsAssumption DEF TypeOK, LoginInv, LoggingIn
<1>a. ASSUME UNCHANGED <<lockVars, counted>>,
             \A c \in Calls : pc'[c] \in LoggingIn => pc[c] \in LoggingIn
      PROVE  LoginInv'
  BY <1>a DEF lockVars
<1>1. ASSUME NEW c \in Calls, Register(c) \/ Reset(c) \/ Decision(c) PROVE LoginInv'
  <2>1. UNCHANGED <<lockVars, counted>>
    BY <1>1 DEF Register, register, SaveCompany, CompanyRefused, SaveUser, UserRefused, createSubAdmin,
       Reset, forgotPassword, StoreToken, Mail, resetPassword, SetPassword, Decision, approveClient,
       rejectClient, suspendClient, Read, activateClient, SaveApproved, SaveRejected, SaveSuspended,
       SaveDecision, sendNotification, copies
  <2>2. \E s \in CallState \ LoggingIn : pc' = [pc EXCEPT ![c] = s]
    BY <1>1 DEF Register, register, SaveCompany, CompanyRefused, SaveUser, UserRefused, createSubAdmin,
       Reset, forgotPassword, StoreToken, Mail, resetPassword, SetPassword, Decision, approveClient,
       rejectClient, suspendClient, Read, activateClient, SaveApproved, SaveRejected, SaveSuspended,
       SaveDecision, sendNotification, Goto, Begin, CallState, Registering, Resetting, Deciding, Notifying
  <2>3. \A d \in Calls : pc'[d] \in LoggingIn => pc[d] \in LoggingIn
    BY <2>2
  <2> QED
    BY <1>a, <2>1, <2>3
<1>2. ASSUME NEW c \in Calls, login(c) PROVE LoginInv'
  <2>1. /\ ~locked /\ UNCHANGED <<attempts, locked, fails>>
        /\ \E s \in LoggingIn : pc' = [pc EXCEPT ![c] = s]
        /\ counted' = [counted EXCEPT ![c] = attempts]
    BY <1>2 DEF login, Begin, Goto
  <2>2. ~drifted' => ~drifted /\ \A d \in Calls : pc[d] \notin LoggingIn
    BY <1>2 DEF login, At
  <2> QED
    BY <2>1, <2>2
<1>3. ASSUME NEW c \in Calls, LoginFails(c) PROVE LoginInv'
  <2>1. /\ pc[c] \in LoggingIn /\ pc' = [pc EXCEPT ![c] = "end"]
        /\ attempts' = counted[c] + 1 /\ fails' = fails + 1
        /\ UNCHANGED <<drifted, counted>>
        /\ locked' = (locked \/ counted[c] + 1 >= MAX_FAILED_ATTEMPTS)
    BY <1>3 DEF LoginFails, Goto, copies
  <2>2. ~drifted => \A d \in Calls : pc'[d] \notin LoggingIn
    BY <2>1
  <2>3. ~drifted => fails' <= attempts' /\ fails' <= MAX_FAILED_ATTEMPTS
    BY <2>1
  <2>4. ~drifted /\ ~locked' => fails' < MAX_FAILED_ATTEMPTS
    <3>1. ~locked' => ~(counted[c] + 1 >= MAX_FAILED_ATTEMPTS)
      BY <2>1
    <3>2. ~drifted => counted[c] = attempts /\ fails <= attempts
      BY <2>1
    <3> QED
      BY <2>1, <3>1, <3>2
  <2> QED
    BY <2>1, <2>2, <2>3, <2>4
<1>4. ASSUME NEW c \in Calls, CheckCompany(c) PROVE LoginInv'
  <2>1. UNCHANGED <<lockVars, counted>>
    BY <1>4 DEF CheckCompany, copies
  <2>2. \A d \in Calls : pc'[d] \in LoggingIn => pc[d] \in LoggingIn
    BY <1>4 DEF CheckCompany, Goto
  <2> QED
    BY <1>a, <2>1, <2>2
<1>5. ASSUME NEW c \in Calls, LoginDone(c) PROVE LoginInv'
  <2>1. attempts' = 0 /\ locked' = FALSE /\ fails' = 0 /\ pc' = [pc EXCEPT ![c] = "end"]
    BY <1>5 DEF LoginDone, Goto
  <2>2. ~drifted' => \A d \in Calls : pc'[d] \notin LoggingIn
    <3>1. ~drifted' => At(LoggingIn) = {c}
      BY <1>5 DEF LoginDone
    <3> QED
      BY <2>1, <3>1 DEF At
  <2> QED
    BY <2>1, <2>2
<1>6. CASE LockExpires
  BY <1>6 DEF LockExpires, copies
<1>7. CASE disableSubAdmin \/ LinkExpires \/ UNCHANGED vars
  <2>1. UNCHANGED <<lockVars, counted, pc>>
    BY <1>7 DEF disableSubAdmin, LinkExpires, vars, copies
  <2> QED
    BY <1>a, <2>1
<1> QED
  BY NextCases, <1>1, <1>2, <1>3, <1>4, <1>5, <1>6, <1>7 DEF Login

(* Whatever MAX_FAILED_ATTEMPTS is, nobody tries more wrong passwords than *)
(* that between two logins or locks, unless logins overlapped.             *)
THEOREM GuessesBoundedAlways == Spec => []GuessesBounded
<1>1. Init => LoginInv
  BY MaxFailedAttemptsAssumption DEF Init, LoginInv, LoggingIn
<1>2. LoginInv => GuessesBounded
  BY DEF LoginInv, GuessesBounded
<1> QED
  BY <1>1, <1>2, TypeInit, TypeNext, LoginNext, PTL DEF Spec

-----------------------------------------------------------------------------
(* Registration: one call at most is about to save the owner, there is     *)
(* none then, and before the agency is there, nothing is.                  *)
OwnerInv ==
  /\ \A c \in Calls : pc[c] = "savingUser" =>
       /\ user # "client_owner" /\ ~orphaned
       /\ \A d \in Calls : pc[d] = "savingUser" => d = c
  /\ company = "none" =>
       ~orphaned /\ user # "client_owner" /\ \A c \in Calls : pc[c] # "savingUser"
  /\ OrphanStaysOrphan

LEMMA OwnerNext == TypeOK /\ DecisionInv /\ OwnerInv /\ [Next]_vars => OwnerInv'
<1> SUFFICES ASSUME TypeOK, DecisionInv, OwnerInv, [Next]_vars PROVE OwnerInv'
  OBVIOUS
<1> USE DEF TypeOK, OwnerInv, OrphanStaysOrphan
<1>a. ASSUME user' = user, orphaned' = orphaned, company' = "none" => company = "none",
             \A c \in Calls : pc'[c] = "savingUser" => pc[c] = "savingUser"
      PROVE  OwnerInv'
  BY <1>a
<1>1. ASSUME NEW c \in Calls, Login(c) \/ Reset(c) \/ Decision(c)
                              \/ register(c) \/ CompanyRefused(c) \/ createSubAdmin(c)
      PROVE  OwnerInv'
  <2>1. user' = user /\ orphaned' = orphaned
    BY <1>1 DEF register, CompanyRefused, createSubAdmin, Login, login, LoginFails, CheckCompany,
       LoginDone, Reset, forgotPassword, StoreToken, Mail, resetPassword, SetPassword, Decision,
       approveClient, rejectClient, suspendClient, Read, activateClient, SaveApproved, SaveRejected,
       SaveSuspended, SaveDecision, sendNotification, accountVars
  <2>2. \E s \in CallState \ {"savingUser"} : pc' = [pc EXCEPT ![c] = s]
    BY <1>1 DEF register, CompanyRefused, createSubAdmin, Login, login, LoginFails, CheckCompany,
       LoginDone, Reset, forgotPassword, StoreToken, Mail, resetPassword, SetPassword, Decision,
       approveClient, rejectClient, suspendClient, Read, activateClient, SaveApproved, SaveRejected,
       SaveSuspended, SaveDecision, sendNotification, Goto, Begin, CallState, Registering, LoggingIn,
       Resetting, Deciding, Notifying
  <2>3. company' = company \/ company' # "none"
    BY <1>1 DEF register, CompanyRefused, createSubAdmin, Login, login, LoginFails, CheckCompany,
       LoginDone, Reset, forgotPassword, StoreToken, Mail, resetPassword, SetPassword, Decision,
       approveClient, rejectClient, suspendClient, Read, activateClient, SaveApproved, SaveRejected,
       SaveSuspended, SaveDecision, sendNotification, accountVars
  <2>4. \A d \in Calls : pc'[d] = "savingUser" => pc[d] = "savingUser"
    BY <2>2
  <2> QED
    BY <1>a, <2>1, <2>3, <2>4
<1>2. ASSUME NEW c \in Calls, SaveCompany(c) PROVE OwnerInv'
  BY <1>2 DEF SaveCompany, Goto
<1>3. ASSUME NEW c \in Calls, SaveUser(c) PROVE OwnerInv'
  BY <1>3 DEF SaveUser, Goto
<1>4. ASSUME NEW c \in Calls, UserRefused(c) PROVE OwnerInv'
  BY <1>4 DEF UserRefused, Goto, accountVars
<1>5. CASE disableSubAdmin \/ LockExpires \/ LinkExpires \/ UNCHANGED vars
  <2>1. UNCHANGED <<user, orphaned, company, pc>>
    BY <1>5 DEF disableSubAdmin, LockExpires, LinkExpires, vars, accountVars
  <2> QED
    BY <1>a, <2>1
<1> QED
  BY NextCases, <1>1, <1>2, <1>3, <1>4, <1>5 DEF Register

(* An agency whose owner was not saved never gets an owner, however        *)
(* registrations of the same address interleave.                           *)
THEOREM OrphanStaysOrphanAlways == Spec => []OrphanStaysOrphan
<1>1. Init => OwnerInv
  BY DEF Init, OwnerInv, OrphanStaysOrphan
<1>2. OwnerInv => OrphanStaysOrphan
  BY DEF OwnerInv
<1> QED
  BY <1>1, <1>2, TypeLemma, DecisionLemma, OwnerNext, PTL DEF Spec
=============================================================================
