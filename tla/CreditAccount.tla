---------------------------- MODULE CreditAccount ----------------------------
(***************************************************************************)
(* What the credit account of a company promises to the rest of the        *)
(* system, whatever the order in which its clients' requests run: a        *)
(* booking request commits an amount at most once, and only when the       *)
(* credit available at that very moment covers it; what a request has      *)
(* committed is given back at most once, and outstandingBalance moves with *)
(* the commitments and with nothing else.                                  *)
(*                                                                         *)
(* CreditBooking implements this specification with atomicDeductCredit,    *)
(* creditBack and the handlers that call them.                             *)
(***************************************************************************)
EXTENDS Integers

CONSTANTS Companies, Requests, CompanyOf

VARIABLES
  limit,        \* [Companies -> Nat]: the credit limit the admin assigned
  funds,        \* [Companies -> Nat]: the topped-up wallet
  outstanding,  \* [Companies -> Int]: the debt of the company
  committed,    \* [Requests -> Nat]: what each booking request holds of it
  admitted      \* the requests whose amount was once committed

avars == <<limit, funds, outstanding, committed, admitted>>

Available(c) == limit[c] + funds[c] - outstanding[c]

Init ==
  /\ limit \in [Companies -> Nat]
  /\ funds = [c \in Companies |-> 0]
  /\ outstanding = [c \in Companies |-> 0]
  /\ committed = [r \in Requests |-> 0]
  /\ admitted = {}

-----------------------------------------------------------------------------
(* A request commits an amount its company can afford, once.               *)
Commit(r) ==
  LET c == CompanyOf[r] IN
  /\ r \notin admitted
  /\ admitted' = admitted \cup {r}
  /\ \E amount \in 1..Available(c) :
       /\ committed' = [committed EXCEPT ![r] = amount]
       /\ outstanding' = [outstanding EXCEPT ![c] = @ + amount]
  /\ UNCHANGED <<limit, funds>>

(* A request gives back part or all of what it still holds.                *)
GiveBack(r) ==
  /\ \E amount \in 1..committed[r] :
       /\ committed' = [committed EXCEPT ![r] = @ - amount]
       /\ outstanding' = [outstanding EXCEPT ![CompanyOf[r]] = @ - amount]
  /\ UNCHANGED <<limit, funds, admitted>>

(* The admin and the wallet change the cover, never the debt.              *)
ChangeCover ==
  /\ limit' \in [Companies -> Nat]
  /\ funds' \in [Companies -> Nat]
  /\ UNCHANGED <<outstanding, committed, admitted>>

Next ==
  \/ \E r \in Requests : Commit(r) \/ GiveBack(r)
  \/ ChangeCover

Spec == Init /\ [][Next]_avars

=============================================================================
