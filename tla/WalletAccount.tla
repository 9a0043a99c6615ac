---------------------------- MODULE WalletAccount ----------------------------
(***************************************************************************)
(* The balances of one agency and everything that changes them beside a    *)
(* booking's own handler: AdminService.adminTopUpWallet, refundBooking and *)
(* recordSettlement, WalletService.addLoyaltyPoints and                    *)
(* redeemLoyaltyPoints, and the updates of CompaniesService that payments  *)
(* and bookings make (Payments and CreditBooking have those handlers).     *)
(*                                                                         *)
(* The admin's handlers read the company document, add to the balance they *)
(* read and save, which sets the field to the sum; everybody else          *)
(* increments it in one update.  Every write may throw, and the server may *)
(* crash, between any two awaits.                                          *)
(*                                                                         *)
(* Left out: the refund marks refundBooking saves on the booking before it *)
(* touches money, the notifications and the balanceAfter columns, on which *)
(* no handler decides.                                                     *)
(***************************************************************************)
EXTENDS Integers, FiniteSets, FiniteSetsExt

CONSTANTS
  TopUps,         \* calls of adminTopUpWallet
  Refunds,        \* calls of refundBooking, with an amount above zero
  Settlements,    \* calls of recordSettlement
  Redeems,        \* calls of redeemLoyaltyPoints
  Awards,         \* calls of addLoyaltyPoints
  AmountOf,       \* the amount of each call, points for the last two
  PointValues,    \* pointValueFils of the rules the admin may activate
  Payments,       \* amounts of gateway top-ups and of their refunds
  Prices,         \* amounts of bookings on credit
  CreditLimit,
  MaxWallet,      \* bound on gateway top-ups
  MaxOverpaid     \* bound on how far below zero the debt is given back

Admins == TopUps \cup Refunds
Handlers == Admins \cup Settlements \cup Redeems \cup Awards

ASSUME HandlersAssumption ==
  /\ Admins \cap (Settlements \cup Redeems \cup Awards) = {}
  /\ Settlements \cap (Redeems \cup Awards) = {} /\ Redeems \cap Awards = {}
  /\ TopUps \cap Refunds = {}

ASSUME AmountsAssumption ==
  /\ AmountOf \in [Handlers -> Nat \ {0}]
  /\ PointValues \subseteq Nat /\ Payments \subseteq Nat \ {0} /\ Prices \subseteq Nat \ {0}
  /\ CreditLimit \in Nat /\ MaxWallet \in Nat /\ MaxOverpaid \in Nat

VARIABLES
  walletBalance, outstandingBalance, loyaltyPoints,  \* the company document
  walletTx,       \* wallet_transactions of these handlers
  settled,        \* the settlement documents, named after their calls
  pc, seen,       \* where each handler is, and the walletBalance it read
  value,          \* pointValueFils it read
  due,            \* history: the sum of all changes made to the wallet
  owed,           \* history: the debts taken less those given back
  overtaken,      \* history: calls whose copy of the wallet is, or when they saved was, out of date
  contested       \* history: two redemptions were under way at once

account == <<walletBalance, outstandingBalance, loyaltyPoints>>
history == <<due, owed, overtaken, contested>>
vars == <<account, walletTx, settled, pc, seen, value, history>>

EntryType ==
  [h \in Handlers |-> CASE h \in TopUps -> "topup"
                        [] h \in Refunds -> "credit_refund"
                        [] h \in Settlements -> "settlement"
                        [] h \in Redeems -> "loyalty_redeem"
                        [] h \in Awards -> "loyalty_earn"]

(* The fils an entry names; points count at the value their call read.     *)
Worth(h) == IF h \in Redeems \cup Awards THEN AmountOf[h] * value[h] ELSE AmountOf[h]

Entry(h) == [type |-> EntryType[h], amount |-> Worth(h), by |-> h]

Entries == [type : {EntryType[h] : h \in Handlers}, amount : Nat, by : Handlers]

TypeOK ==
  /\ walletBalance \in Nat
  /\ outstandingBalance \in Int
  /\ loyaltyPoints \in Int
  /\ walletTx \in SUBSET Entries
  /\ settled \in SUBSET Settlements
  /\ pc \in [Handlers -> {"idle", "saving", "converting", "recording", "end"}]
  /\ seen \in [Handlers -> Nat]
  /\ value \in [Handlers -> Nat]
  /\ due \in Int /\ owed \in Int
  /\ overtaken \in SUBSET Admins
  /\ contested \in BOOLEAN

Init ==
  /\ walletBalance = 0 /\ outstandingBalance = 0 /\ loyaltyPoints = 0
  /\ walletTx = {}
  /\ settled = {}
  /\ pc = [h \in Handlers |-> "idle"]
  /\ seen = [h \in Handlers |-> 0]
  /\ value = [h \in Handlers |-> 0]
  /\ due = 0 /\ owed = 0
  /\ overtaken = {}
  /\ contested = FALSE

-----------------------------------------------------------------------------
Goto(h, s) == pc' = [pc EXCEPT ![h] = s]

Saving == {h \in Admins : pc[h] = "saving"}

(* Any change of the wallet makes the copies of the others out of date.    *)
SetWallet(new, amount, others) ==
  /\ walletBalance' = new
  /\ due' = due + amount
  /\ overtaken' = overtaken \cup others

(* A copy lasts as long as its handler can still save it.                  *)
DropCopy(S) == seen' = [h \in Handlers |-> IF h \in S THEN 0 ELSE seen[h]]

(* CompaniesService, as payments and bookings call it.                     *)
topUpWallet(amount) ==
  /\ walletBalance + amount <= MaxWallet
  /\ SetWallet(walletBalance + amount, amount, Saving)
  /\ UNCHANGED <<outstandingBalance, loyaltyPoints, walletTx, settled, pc, seen, value, owed,
                 contested>>

(* Mutant: the update is not conditional on the balance.                   *)
DeductUnguarded(amount) ==
  /\ SetWallet(walletBalance - amount, -amount, Saving)
  /\ UNCHANGED <<outstandingBalance, loyaltyPoints, walletTx, settled, pc, seen, value, owed,
                 contested>>

deductWallet(amount) ==
  /\ walletBalance >= amount
  /\ SetWallet(walletBalance - amount, -amount, Saving)
  /\ UNCHANGED <<outstandingBalance, loyaltyPoints, walletTx, settled, pc, seen, value, owed,
                 contested>>

atomicDeductCredit(amount) ==
  /\ CreditLimit + walletBalance - outstandingBalance >= amount
  /\ outstandingBalance' = outstandingBalance + amount
  /\ owed' = owed + amount
  /\ UNCHANGED <<walletBalance, loyaltyPoints, walletTx, settled, pc, seen, value, due, overtaken,
                 contested>>

(* The decrement has no condition: two cancels of one booking, which both
   give back, take the debt below zero.  The guard is the bound.           *)
creditBack(amount) ==
  /\ outstandingBalance - amount >= -MaxOverpaid
  /\ outstandingBalance' = outstandingBalance - amount
  /\ owed' = owed - amount
  /\ UNCHANGED <<walletBalance, loyaltyPoints, walletTx, settled, pc, seen, value, due, overtaken,
                 contested>>

-----------------------------------------------------------------------------
(* adminTopUpWallet, and refundBooking once it has saved the booking: read,
   add and save, record.                                                   *)
ReadCompany(h) ==
  /\ h \in Admins /\ pc[h] = "idle"
  /\ seen' = [seen EXCEPT ![h] = walletBalance]
  /\ Goto(h, "saving")
  /\ UNCHANGED <<account, walletTx, settled, value, history>>

SaveCompany(h) ==
  /\ pc[h] = "saving"
  /\ SetWallet(seen[h] + AmountOf[h], AmountOf[h], Saving \ {h})
  /\ DropCopy({h})
  /\ Goto(h, "recording")
  /\ UNCHANGED <<outstandingBalance, loyaltyPoints, walletTx, settled, value, owed, contested>>

(* A settlement document, then its entry; the company is read and not
   changed.                                                                *)
recordSettlement(h) ==
  /\ h \in Settlements /\ pc[h] = "idle"
  /\ settled' = settled \cup {h}
  /\ Goto(h, "recording")
  /\ UNCHANGED <<account, walletTx, seen, value, history>>

-----------------------------------------------------------------------------
(* Loyalty points.                                                         *)

(* The update, then the read of the rule for the entry.                    *)
addLoyaltyPoints(h, v) ==
  /\ h \in Awards /\ pc[h] = "idle"
  /\ loyaltyPoints' = loyaltyPoints + AmountOf[h]
  /\ value' = [value EXCEPT ![h] = v]
  /\ Goto(h, "recording")
  /\ UNCHANGED <<walletBalance, outstandingBalance, walletTx, settled, seen, history>>

Converting == {h \in Redeems : pc[h] = "converting"}

(* Mutant: the points are not compared.                                    *)
RedeemUnchecked(h, v) ==
  /\ h \in Redeems /\ pc[h] = "idle"
  /\ value' = [value EXCEPT ![h] = v]
  /\ contested' = (contested \/ Converting # {})
  /\ Goto(h, "converting")
  /\ UNCHANGED <<account, walletTx, settled, seen, due, owed, overtaken>>

(* The points are compared, then the value of a point is read.             *)
redeemLoyaltyPoints(h, v) ==
  /\ h \in Redeems /\ pc[h] = "idle"
  /\ loyaltyPoints >= AmountOf[h]
  /\ value' = [value EXCEPT ![h] = v]
  /\ contested' = (contested \/ Converting # {})
  /\ Goto(h, "converting")
  /\ UNCHANGED <<account, walletTx, settled, seen, due, owed, overtaken>>

(* Mutant: a point is taken for one fils.                                  *)
ConvertAtPar(h) ==
  /\ pc[h] = "converting"
  /\ loyaltyPoints' = loyaltyPoints - AmountOf[h]
  /\ SetWallet(walletBalance + AmountOf[h], Worth(h), Saving)
  /\ Goto(h, "recording")
  /\ UNCHANGED <<outstandingBalance, walletTx, settled, seen, value, owed, contested>>

(* One update lowers the points and raises the wallet.                     *)
ConvertPoints(h) ==
  /\ pc[h] = "converting"
  /\ loyaltyPoints' = loyaltyPoints - AmountOf[h]
  /\ SetWallet(walletBalance + Worth(h), Worth(h), Saving)
  /\ Goto(h, "recording")
  /\ UNCHANGED <<outstandingBalance, walletTx, settled, seen, value, owed, contested>>

-----------------------------------------------------------------------------
(* The entry is the last write of every handler.                           *)
RecordEntry(h) ==
  /\ pc[h] = "recording"
  /\ walletTx' = walletTx \cup {Entry(h)}
  /\ Goto(h, "end")
  /\ UNCHANGED <<account, settled, seen, value, history>>

(* A write throws, and the handler with it.                                *)
HandlerFails(h) ==
  /\ pc[h] \in {"saving", "converting", "recording"}
  /\ Goto(h, "end")
  /\ overtaken' = overtaken \ (Saving \cap {h})
  /\ DropCopy({h})
  /\ UNCHANGED <<account, walletTx, settled, value, due, owed, contested>>

Crash ==
  /\ pc' = [h \in Handlers |-> IF pc[h] = "idle" THEN "idle" ELSE "end"]
  /\ overtaken' = overtaken \ Saving
  /\ DropCopy(Handlers)
  /\ UNCHANGED <<account, walletTx, settled, value, due, owed, contested>>

Next ==
  \/ \E amount \in Payments : topUpWallet(amount) \/ deductWallet(amount)
  \/ \E amount \in Prices : atomicDeductCredit(amount) \/ creditBack(amount)
  \/ \E h \in Handlers :
       \/ ReadCompany(h) \/ SaveCompany(h)
       \/ recordSettlement(h)
       \/ \E v \in PointValues : addLoyaltyPoints(h, v) \/ redeemLoyaltyPoints(h, v)
       \/ ConvertPoints(h)
       \/ RecordEntry(h) \/ HandlerFails(h)
  \/ Crash

Spec == Init /\ [][Next]_vars

-----------------------------------------------------------------------------
(* Correctness.                                                            *)

(* The wallet holds all that was put in less all that was taken out, unless
   an admin's call has saved a copy that another change had made out of
   date (admin.service.ts 188-193 and 324-327): the increments of payments
   and redemptions lose nothing among themselves, whatever throws and
   wherever the server crashes.                                            *)
WalletIsDue == overtaken \subseteq Saving => walletBalance = due

(* The test of redeemLoyaltyPoints (wallet.service.ts 319) keeps the points
   above zero, although points are tested and lowered in two steps, unless
   two redemptions were under way at once.                                 *)
PointsCoverRedemptions == loyaltyPoints < 0 => contested

(* ARCHITECTURE.md 44 and RUNBOOK.md 40-42: outstandingBalance is what was
   booked on credit and not yet settled, for settlements that do not exceed
   it.                                                                     *)
DebtIsUnsettled ==
  LET Paid(h) == AmountOf[h]
      paid == MapThenSumSet(Paid, settled)
  IN  (\A h \in Handlers : pc[h] \in {"idle", "end"}) /\ paid <= owed
        => outstandingBalance = owed - paid
=============================================================================
