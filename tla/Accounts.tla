------------------------------ MODULE Accounts ------------------------------
(***************************************************************************)
(* The account behind one e-mail address: AuthService's register, login,   *)
(* forgotPassword and resetPassword, and AdminService's decisions on the   *)
(* agency (approveClient, rejectClient, suspendClient, activateClient), its*)
(* createSubAdmin and disableSubAdmin.  What a reset does to the sessions  *)
(* of the user is in Sessions.                                             *)
(*                                                                         *)
(* A call reads documents, awaits (bcrypt, a second collection, a save) and*)
(* writes from what it read; calls interleave at those awaits.  A document *)
(* saved through Mongoose writes the fields that differ from the copy read.*)
(* The unique indexes on company.email and user.email refuse a second      *)
(* document.  An insert may throw.                                         *)
(***************************************************************************)
EXTENDS Integers

CONSTANTS
  Calls,              \* calls of the server, each of one of its operations
  MAX_FAILED_ATTEMPTS

ASSUME MaxFailedAttemptsAssumption == MAX_FAILED_ATTEMPTS \in Nat \ {0}

VARIABLES
  company,   \* company.status, "none" before the document exists
  user,      \* user.role, "none" before the document exists
  disabled,  \* user.status is disabled
  attempts,  \* user.failedLoginAttempts
  locked,    \* user.lockedUntil is in the future
  link,      \* the reset token whose hash the user holds, 0 for none
  mails,     \* the reset tokens the owner was mailed
  told,      \* types of the notifications the agency was sent
  pc,        \* where each call is
  counted,   \* the failedLoginAttempts it read
  token,     \* the reset token it made or matched
  status,    \* the company.status it read
  issued,    \* history: reset tokens made
  clobbered, \* history: newer tokens a reset with an older one removed
  uses,      \* history: tokens with which a password was reset, once per reset
  shared,    \* history: tokens two resets had in hand at once
  fails,     \* history: wrong passwords since a login or the end of a lock
  drifted,   \* history: logins overlapped since attempts was last reset
  orphaned,  \* history: the owner of the company was not saved
  decided,   \* history: the status the last decision on the agency gave it
  raced,     \* history: calls that read the agency before the last decision
  contested  \* history: the last decision was one of those

accountVars == <<company, user, disabled>>
lockVars == <<attempts, locked, fails, drifted>>
linkVars == <<link, mails, issued, clobbered, uses, shared>>
copies == <<counted, token, status>>
decisionVars == <<decided, raced, contested>>
vars == <<accountVars, lockVars, linkVars, decisionVars, told, orphaned, pc, copies>>

CompanyStatus == {"pending", "active", "suspended", "rejected"}
UserRole == {"client_owner", "sub_admin"}
NotificationType == {"account_approved", "account_suspended"}

Registering == {"savingCompany", "savingUser", "savingSubAdmin"}
LoggingIn == {"wrong", "right", "admitted"}
Resetting == {"storingToken", "mailing", "settingPassword"}
Deciding == {"approving", "rejecting", "suspending"}
Notifying == {"tellApproved", "tellSuspended"}
CallState == {"idle", "end"} \cup Registering \cup LoggingIn \cup Resetting
                             \cup Deciding \cup Notifying

TypeOK ==
  /\ company \in CompanyStatus \cup {"none"}
  /\ user \in UserRole \cup {"none"}
  /\ disabled \in BOOLEAN
  /\ attempts \in Nat /\ locked \in BOOLEAN
  /\ link \in Nat /\ mails \subseteq Nat
  /\ told \subseteq NotificationType
  /\ pc \in [Calls -> CallState]
  /\ counted \in [Calls -> Nat] /\ token \in [Calls -> Nat]
  /\ status \in [Calls -> CompanyStatus \cup {"none"}]
  /\ issued \in Nat /\ clobbered \subseteq Nat /\ uses \in [1 .. issued -> Nat] /\ shared \subseteq Nat
  /\ fails \in Nat /\ drifted \in BOOLEAN /\ orphaned \in BOOLEAN
  /\ decided \in CompanyStatus \cup {"none"}
  /\ raced \subseteq Calls /\ contested \in BOOLEAN

(* Nobody registered yet, or an agency at some point of its life.          *)
Init ==
  /\ company \in CompanyStatus \cup {"none"}
  /\ user = IF company = "none" THEN "none" ELSE "client_owner"
  /\ disabled = FALSE
  /\ attempts = 0 /\ locked = FALSE
  /\ link = 0 /\ mails = {} /\ told = {}
  /\ pc = [c \in Calls |-> "idle"]
  /\ counted = [c \in Calls |-> 0] /\ token = [c \in Calls |-> 0]
  /\ status = [c \in Calls |-> "none"]
  /\ issued = 0 /\ clobbered = {} /\ uses = <<>> /\ shared = {}
  /\ fails = 0 /\ drifted = FALSE /\ orphaned = FALSE
  /\ decided = company /\ raced = {} /\ contested = FALSE

Goto(c, s) == pc' = [pc EXCEPT ![c] = s]
Begin(c, s) == pc[c] = "idle" /\ Goto(c, s)
At(S) == {c \in Calls : pc[c] \in S}

-----------------------------------------------------------------------------
(* register: an agency and its owner, in two inserts.                      *)

register(c) ==
  /\ user = "none"
  /\ Begin(c, "savingCompany")
  /\ UNCHANGED <<accountVars, lockVars, linkVars, decisionVars, told, orphaned, copies>>

(* Mutant: the agency is upserted by its e-mail.                           *)
UpsertCompany(c) ==
  /\ pc[c] = "savingCompany"
  /\ company' = "pending"
  /\ decided' = "pending"
  /\ Goto(c, "savingUser")
  /\ UNCHANGED <<user, disabled, lockVars, linkVars, raced, contested, told, orphaned, copies>>

SaveCompany(c) ==
  /\ pc[c] = "savingCompany" /\ company = "none"
  /\ company' = "pending"
  /\ decided' = "pending"
  /\ Goto(c, "savingUser")
  /\ UNCHANGED <<user, disabled, lockVars, linkVars, raced, contested, told, orphaned, copies>>

CompanyRefused(c) ==
  /\ pc[c] = "savingCompany"
  /\ Goto(c, "end")
  /\ UNCHANGED <<accountVars, lockVars, linkVars, decisionVars, told, orphaned, copies>>

SaveUser(c) ==
  /\ user = "none"
  /\ \/ pc[c] = "savingUser" /\ user' = "client_owner"
     \/ pc[c] = "savingSubAdmin" /\ user' = "sub_admin"
  /\ Goto(c, "end")
  /\ UNCHANGED <<company, disabled, lockVars, linkVars, decisionVars, told, orphaned, copies>>

(* The agency stays behind.                                                *)
UserRefused(c) ==
  /\ pc[c] \in {"savingUser", "savingSubAdmin"}
  /\ orphaned' = (orphaned \/ pc[c] = "savingUser")
  /\ Goto(c, "end")
  /\ UNCHANGED <<accountVars, lockVars, linkVars, decisionVars, told, copies>>

createSubAdmin(c) ==
  /\ user = "none"
  /\ Begin(c, "savingSubAdmin")
  /\ UNCHANGED <<accountVars, lockVars, linkVars, decisionVars, told, orphaned, copies>>

disableSubAdmin ==
  /\ user = "sub_admin" /\ ~disabled
  /\ disabled' = TRUE
  /\ UNCHANGED <<company, user, lockVars, linkVars, decisionVars, told, orphaned, pc, copies>>

-----------------------------------------------------------------------------
(* login: it reads the user once and counts from that copy.                *)

login(c) ==
  /\ user # "none" /\ ~disabled /\ ~locked
  /\ \E s \in {"wrong", "right"} : Begin(c, s)
  /\ counted' = [counted EXCEPT ![c] = attempts]
  /\ drifted' = (drifted \/ At(LoggingIn) # {})
  /\ UNCHANGED <<accountVars, attempts, locked, fails, linkVars, decisionVars, told, orphaned,
                 token, status>>

(* Mutant: failedLoginAttempts is counted down.                            *)
LoginFailsDown(c) ==
  /\ pc[c] = "wrong"
  /\ attempts' = counted[c] - 1
  /\ fails' = fails + 1
  /\ Goto(c, "end")
  /\ UNCHANGED <<accountVars, locked, drifted, linkVars, decisionVars, told, orphaned, copies>>

(* Mutant: the lock comes one attempt late.                                *)
LoginFailsLate(c) ==
  LET newAttempts == counted[c] + 1 IN
  /\ pc[c] = "wrong"
  /\ attempts' = newAttempts
  /\ locked' = (locked \/ newAttempts > MAX_FAILED_ATTEMPTS)
  /\ fails' = fails + 1
  /\ Goto(c, "end")
  /\ UNCHANGED <<accountVars, drifted, linkVars, decisionVars, told, orphaned, copies>>

(* A wrong password.                                                       *)
LoginFails(c) ==
  LET newAttempts == counted[c] + 1 IN
  /\ pc[c] = "wrong"
  /\ attempts' = newAttempts
  /\ locked' = (locked \/ newAttempts >= MAX_FAILED_ATTEMPTS)
  /\ fails' = fails + 1
  /\ Goto(c, "end")
  /\ UNCHANGED <<accountVars, drifted, linkVars, decisionVars, told, orphaned, copies>>

(* The owner of an agency is let in while the agency is active.            *)
CheckCompany(c) ==
  /\ pc[c] = "right"
  /\ Goto(c, IF user = "client_owner" /\ company # "active" THEN "end" ELSE "admitted")
  /\ UNCHANGED <<accountVars, lockVars, linkVars, decisionVars, told, orphaned, copies>>

LoginDone(c) ==
  /\ pc[c] = "admitted"
  /\ attempts' = 0 /\ locked' = FALSE
  /\ fails' = 0
  /\ drifted' = (At(LoggingIn) # {c})
  /\ Goto(c, "end")
  /\ UNCHANGED <<accountVars, linkVars, decisionVars, told, orphaned, copies>>

(* LOCKOUT_DURATION_MS later.  failedLoginAttempts stays.                  *)
LockExpires ==
  /\ locked
  /\ locked' = FALSE
  /\ fails' = 0
  /\ UNCHANGED <<accountVars, attempts, drifted, linkVars, decisionVars, told, orphaned, pc, copies>>

-----------------------------------------------------------------------------
(* forgotPassword and resetPassword.                                       *)

forgotPassword(c) ==
  /\ user # "none"
  /\ Begin(c, "storingToken")
  /\ UNCHANGED <<accountVars, lockVars, linkVars, decisionVars, told, orphaned, copies>>

(* Mutant: a token that is still good is kept.                             *)
StoreFirstToken(c) ==
  /\ pc[c] = "storingToken"
  /\ issued' = issued + 1
  /\ uses' = [n \in 1 .. issued + 1 |-> IF n \in DOMAIN uses THEN uses[n] ELSE 0]
  /\ link' = IF link = 0 THEN issued + 1 ELSE link
  /\ token' = [token EXCEPT ![c] = issued + 1]
  /\ Goto(c, "mailing")
  /\ UNCHANGED <<accountVars, lockVars, mails, clobbered, shared, decisionVars, told, orphaned,
                 counted, status>>

StoreToken(c) ==
  /\ pc[c] = "storingToken"
  /\ issued' = issued + 1
  /\ uses' = [n \in 1 .. issued + 1 |-> IF n \in DOMAIN uses THEN uses[n] ELSE 0]
  /\ link' = issued + 1
  /\ token' = [token EXCEPT ![c] = issued + 1]
  /\ Goto(c, "mailing")
  /\ UNCHANGED <<accountVars, lockVars, mails, clobbered, shared, decisionVars, told, orphaned,
                 counted, status>>

(* NotificationsService.send.  A mail that cannot be sent is logged, and   *)
(* the call answers as if it were.                                         *)
Mail(c) ==
  /\ pc[c] = "mailing"
  /\ \E delivered \in BOOLEAN : mails' = IF delivered THEN mails \cup {token[c]} ELSE mails
  /\ Goto(c, "end")
  /\ UNCHANGED <<accountVars, lockVars, link, issued, clobbered, uses, shared, decisionVars,
                 told, orphaned, copies>>

resetPassword(c) ==
  /\ link \in mails
  /\ Begin(c, "settingPassword")
  /\ token' = [token EXCEPT ![c] = link]
  /\ shared' = shared \cup ({token[d] : d \in At({"settingPassword"})} \cap {link})
  /\ UNCHANGED <<accountVars, lockVars, link, mails, issued, clobbered, uses, decisionVars, told,
                 orphaned, counted, status>>

(* Mutant: the token is not unset.                                         *)
SetPasswordOnly(c) ==
  /\ pc[c] = "settingPassword"
  /\ uses' = [uses EXCEPT ![token[c]] = @ + 1]
  /\ clobbered' = IF link = token[c] THEN clobbered ELSE clobbered \cup {link}
  /\ Goto(c, "end")
  /\ UNCHANGED <<accountVars, lockVars, link, mails, issued, shared, decisionVars, told, orphaned, copies>>

SetPassword(c) ==
  /\ pc[c] = "settingPassword"
  /\ link' = 0
  /\ uses' = [uses EXCEPT ![token[c]] = @ + 1]
  /\ clobbered' = IF link = token[c] THEN clobbered ELSE clobbered \cup {link}
  /\ Goto(c, "end")
  /\ UNCHANGED <<accountVars, lockVars, mails, issued, shared, decisionVars, told, orphaned, copies>>

(* passwordResetExpiresAt passes: what the token could do is over.         *)
LinkExpires ==
  /\ link # 0
  /\ link' = 0
  /\ clobbered' = clobbered \cup {link}
  /\ UNCHANGED <<accountVars, lockVars, mails, issued, uses, shared, decisionVars, told, orphaned, pc, copies>>

-----------------------------------------------------------------------------
(* The decisions of the administrators.                                    *)

(* A decision is written: the others under way have read what was before.  *)
Decide(s, c) ==
  /\ decided' = s
  /\ raced' = At(Deciding) \ {c}
  /\ contested' = (c \in raced)

Read(c, s) ==
  /\ company # "none"
  /\ Begin(c, s)
  /\ status' = [status EXCEPT ![c] = company]
  /\ UNCHANGED <<accountVars, lockVars, linkVars, decisionVars, told, orphaned, counted, token>>

(* Mutant: any agency can be approved.                                     *)
ApproveAny(c) == Read(c, "approving")

approveClient(c) == company = "pending" /\ Read(c, "approving")
rejectClient(c) == Read(c, "rejecting")
suspendClient(c) == Read(c, "suspending")

(* Mutant: the status is not among what is saved.                          *)
SaveNotesOnly(c, at, s, next) ==
  /\ pc[c] = at
  /\ Decide(s, c)
  /\ Goto(c, next)
  /\ UNCHANGED <<accountVars, lockVars, linkVars, told, orphaned, copies>>

(* company.status is written if it differs from the copy.                  *)
SaveDecision(c, at, s, next) ==
  /\ pc[c] = at
  /\ company' = IF status[c] = s THEN company ELSE s
  /\ Decide(s, c)
  /\ Goto(c, next)
  /\ UNCHANGED <<user, disabled, lockVars, linkVars, told, orphaned, copies>>

SaveApproved(c) == SaveDecision(c, "approving", "active", "tellApproved")
SaveRejected(c) == SaveDecision(c, "rejecting", "rejected", "end")
SaveSuspended(c) == SaveDecision(c, "suspending", "suspended", "tellSuspended")

(* The notification of the decision.  Its insert may throw; the status     *)
(* stays saved, and the administrator sees an error.                       *)
sendNotification(c) ==
  /\ \/ pc[c] = "tellApproved" /\ told' \in {told, told \cup {"account_approved"}}
     \/ pc[c] = "tellSuspended" /\ told' \in {told, told \cup {"account_suspended"}}
  /\ Goto(c, "end")
  /\ UNCHANGED <<accountVars, lockVars, linkVars, decisionVars, orphaned, copies>>

activateClient(c) ==
  /\ company # "none"
  /\ Begin(c, "end")
  /\ company' = "active"
  /\ Decide("active", c)
  /\ UNCHANGED <<user, disabled, lockVars, linkVars, told, orphaned, copies>>

-----------------------------------------------------------------------------
Next ==
  \/ \E c \in Calls :
       \/ register(c) \/ SaveCompany(c) \/ CompanyRefused(c) \/ SaveUser(c) \/ UserRefused(c)
       \/ createSubAdmin(c)
       \/ login(c) \/ LoginFails(c) \/ CheckCompany(c) \/ LoginDone(c)
       \/ forgotPassword(c) \/ StoreToken(c) \/ Mail(c) \/ resetPassword(c) \/ SetPassword(c)
       \/ approveClient(c) \/ rejectClient(c) \/ suspendClient(c) \/ activateClient(c)
       \/ SaveApproved(c) \/ SaveRejected(c) \/ SaveSuspended(c) \/ sendNotification(c)
  \/ disableSubAdmin \/ LockExpires \/ LinkExpires

Spec == Init /\ [][Next]_vars

-----------------------------------------------------------------------------
(* Between two logins or locks nobody tries more than MAX_FAILED_ATTEMPTS  *)
(* wrong passwords, unless logins overlapped and counted from one value.   *)
GuessesBounded == ~drifted => fails <= MAX_FAILED_ATTEMPTS

(* The newest reset link works until it is used, unless it expired or a    *)
(* reset with an older one, matched before, came after it.                 *)
NewestLinkWorks ==
  issued > 0 /\ uses[issued] = 0 /\ issued \notin clobbered => link = issued

(* A reset link works once, unless two resets had it in hand at once.      *)
LinkUsedOnce == \A n \in 1 .. issued : uses[n] > 1 => n \in shared

(* The agency is in the state the last decision gave it, unless another    *)
(* decision came between that one's read and its save.                     *)
DecisionTakesEffect == ~contested => company = decided

(* A rejected or suspended agency becomes active by activateClient, or by  *)
(* an approval that had read it before the rejection.                      *)
OutUntilActivated ==
  [][(company \in {"rejected", "suspended"} /\ company' = "active") =>
       \E c \in Calls : activateClient(c) \/ (SaveApproved(c) /\ c \in raced)]_vars

(* An agency whose owner could not be saved is never registered again: its *)
(* e-mail is taken by the agency and no user has it.                       *)
OrphanStaysOrphan == orphaned => user # "client_owner"
=============================================================================
