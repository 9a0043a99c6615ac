------------------------- MODULE WalletAccount_proofs -------------------------
(***************************************************************************)
(* Proofs about WalletAccount for any number of calls, any amounts and any *)
(* loyalty rules.                                                          *)
(***************************************************************************)
EXTENDS WalletAccount, TLAPS

(* Only an admin's call holds a copy, from when it begins, and only a
   redemption converts.                                                    *)
PhaseInv ==
  \A h \in Handlers :
    /\ pc[h] = "idle" => h \notin overtaken
    /\ pc[h] = "saving" => h \in Admins
    /\ pc[h] = "converting" => h \in Redeems

(* A copy nobody has made out of date says what the wallet holds.          *)
CopyInv == \A h \in Saving \ overtaken : seen[h] = walletBalance

(* As long as redemptions run one at a time, the one under way is covered. *)
RedeemInv ==
  ~contested =>
    /\ loyaltyPoints >= 0
    /\ \A h \in Converting :
         /\ AmountOf[h] <= loyaltyPoints
         /\ Converting = {h}

-----------------------------------------------------------------------------
LEMMA WorthIsNat ==
  ASSUME TypeOK, NEW h \in Handlers
  PROVE  Worth(h) \in Nat
<1>1. AmountOf[h] \in Nat /\ value[h] \in Nat
  BY AmountsAssumption DEF TypeOK
<1>2. \A m, n \in Nat : m * n \in Nat
  OBVIOUS
<1> QED
  BY <1>1, <1>2 DEF Worth

LEMMA TypeInit == Init => TypeOK /\ PhaseInv
<1> SUFFICES ASSUME Init PROVE TypeOK /\ PhaseInv
  OBVIOUS
<1>1. walletTx \in SUBSET Entries /\ settled \in SUBSET Settlements /\ overtaken \in SUBSET Admins
  BY DEF Init
<1>2. /\ pc \in [Handlers -> {"idle", "saving", "converting", "recording", "end"}]
      /\ seen \in [Handlers -> Nat] /\ value \in [Handlers -> Nat]
  BY DEF Init
<1>3. /\ walletBalance \in Nat /\ outstandingBalance \in Int /\ loyaltyPoints \in Int
      /\ due \in Int /\ owed \in Int
  BY DEF Init
<1>4. contested \in BOOLEAN
  BY DEF Init
<1>5. PhaseInv
  BY DEF Init, PhaseInv
<1> QED
  BY <1>1, <1>2, <1>3, <1>4, <1>5 DEF TypeOK

LEMMA TypeNext == TypeOK /\ PhaseInv /\ [Next]_vars => TypeOK' /\ PhaseInv'
<1> SUFFICES ASSUME TypeOK, PhaseInv, [Next]_vars PROVE TypeOK' /\ PhaseInv'
  OBVIOUS
<1> USE AmountsAssumption DEF TypeOK, PhaseInv, account, history, Goto, SetWallet, DropCopy, Saving
<1>1. CASE \E amount \in Payments : topUpWallet(amount) \/ deductWallet(amount)
  <2> PICK amount \in Payments : topUpWallet(amount) \/ deductWallet(amount)
    BY <1>1
  <2>1. CASE topUpWallet(amount)
    BY <2>1 DEF topUpWallet
  <2>2. CASE deductWallet(amount)
    BY <2>2 DEF deductWallet
  <2> QED
    BY <2>1, <2>2
<1>2. CASE \E amount \in Prices : atomicDeductCredit(amount) \/ creditBack(amount)
  <2> PICK amount \in Prices : atomicDeductCredit(amount) \/ creditBack(amount)
    BY <1>2
  <2>1. CASE atomicDeductCredit(amount)
    BY <2>1 DEF atomicDeductCredit
  <2>2. CASE creditBack(amount)
    BY <2>2 DEF creditBack
  <2> QED
    BY <2>1, <2>2
<1>3. ASSUME NEW h \in Handlers, ReadCompany(h) PROVE TypeOK' /\ PhaseInv'
  BY <1>3 DEF ReadCompany
<1>4. ASSUME NEW h \in Handlers, SaveCompany(h) PROVE TypeOK' /\ PhaseInv'
  BY <1>4 DEF SaveCompany
<1>5. ASSUME NEW h \in Handlers, recordSettlement(h) PROVE TypeOK' /\ PhaseInv'
  BY <1>5 DEF recordSettlement
<1>6. ASSUME NEW h \in Handlers, NEW v \in PointValues, addLoyaltyPoints(h, v)
      PROVE  TypeOK' /\ PhaseInv'
  BY <1>6 DEF addLoyaltyPoints
<1>7. ASSUME NEW h \in Handlers, NEW v \in PointValues, redeemLoyaltyPoints(h, v)
      PROVE  TypeOK' /\ PhaseInv'
  BY <1>7 DEF redeemLoyaltyPoints
<1>8. ASSUME NEW h \in Handlers, ConvertPoints(h) PROVE TypeOK' /\ PhaseInv'
  <2>1. Worth(h) \in Nat
    BY WorthIsNat
  <2> QED
    BY <1>8, <2>1 DEF ConvertPoints
<1>9. ASSUME NEW h \in Handlers, RecordEntry(h) PROVE TypeOK' /\ PhaseInv'
  <2>1. Worth(h) \in Nat
    BY WorthIsNat
  <2>2. Entry(h) \in Entries
    BY <2>1 DEF Entry, Entries
  <2> QED
    BY <1>9, <2>2 DEF RecordEntry
<1>10. ASSUME NEW h \in Handlers, HandlerFails(h) PROVE TypeOK' /\ PhaseInv'
  BY <1>10 DEF HandlerFails
<1>11. CASE Crash
  BY <1>11 DEF Crash
<1>12. CASE UNCHANGED vars
  BY <1>12 DEF vars
<1> QED
  BY <1>1, <1>2, <1>3, <1>4, <1>5, <1>6, <1>7, <1>8, <1>9, <1>10, <1>11, <1>12 DEF Next

LEMMA TypeLemma == Spec => [](TypeOK /\ PhaseInv)
  BY TypeInit, TypeNext, PTL DEF Spec

(* Every variable keeps to its type: whatever is lost between the admins'
   saves, the wallet never goes below zero.  The debt may: creditBack
   decrements without a condition (companies.service.ts 105-111).          *)
THEOREM TypeCorrect == Spec => []TypeOK
  BY TypeLemma, PTL

-----------------------------------------------------------------------------
(* The wallet against the sum of its changes.                              *)

DueInv == CopyInv /\ WalletIsDue

LEMMA DueNext == TypeOK /\ PhaseInv /\ DueInv /\ [Next]_vars => DueInv'
<1> SUFFICES ASSUME TypeOK, PhaseInv, DueInv, [Next]_vars PROVE DueInv'
  OBVIOUS
<1> USE DEF DueInv, CopyInv, WalletIsDue
(* A change by anybody but a save, and a step that leaves the wallet alone. *)
<1>a. ASSUME NEW amount \in Int, SetWallet(walletBalance + amount, amount, Saving),
             Saving' = Saving, seen' = seen
      PROVE  DueInv'
  BY <1>a DEF SetWallet, TypeOK
<1>b. ASSUME UNCHANGED <<walletBalance, due, overtaken, seen>>, Saving' = Saving
      PROVE  DueInv'
  BY <1>b
<1>c. ASSUME UNCHANGED <<walletBalance, due>>, Saving' \subseteq Saving,
             overtaken' = overtaken \ (Saving \ Saving'),
             \A h \in Saving' : seen'[h] = seen[h]
      PROVE  DueInv'
  BY <1>c
<1>1. ASSUME NEW amount \in Payments, topUpWallet(amount) PROVE DueInv'
  <2>1. Saving' = Saving /\ amount \in Int
    BY <1>1, AmountsAssumption DEF topUpWallet, Saving
  <2> QED
    BY <1>1, <1>a, <2>1 DEF topUpWallet
<1>2. ASSUME NEW amount \in Payments, deductWallet(amount) PROVE DueInv'
  <2>1. Saving' = Saving /\ -amount \in Int
    BY <1>2, AmountsAssumption DEF deductWallet, Saving
  <2>2. walletBalance - amount = walletBalance + (-amount)
    BY AmountsAssumption DEF TypeOK
  <2> QED
    BY <1>2, <1>a, <2>1, <2>2 DEF deductWallet
<1>3. ASSUME NEW amount \in Prices, atomicDeductCredit(amount) \/ creditBack(amount)
      PROVE  DueInv'
  <2>1. Saving' = Saving
    BY <1>3 DEF atomicDeductCredit, creditBack, Saving
  <2> QED
    BY <1>3, <1>b, <2>1 DEF atomicDeductCredit, creditBack
<1>4. ASSUME NEW h \in Handlers, ReadCompany(h) PROVE DueInv'
  <2>1. Saving' = Saving \cup {h}
    BY <1>4 DEF ReadCompany, Goto, Saving, TypeOK
  <2>2. seen' = [seen EXCEPT ![h] = walletBalance] /\ h \notin Saving
    BY <1>4 DEF ReadCompany, Saving
  <2>3. \A g \in Saving' \ overtaken' : seen'[g] = walletBalance'
    BY <1>4, <2>1, <2>2 DEF ReadCompany, account, history, TypeOK, Saving, Admins, Handlers
  <2>4. overtaken' \subseteq Saving' => walletBalance' = due'
    <3>1. h \notin overtaken
      BY <1>4 DEF ReadCompany, PhaseInv
    <3> QED
      BY <1>4, <2>1, <3>1 DEF ReadCompany, account, history
  <2> QED
    BY <2>3, <2>4
<1>5. ASSUME NEW h \in Handlers, SaveCompany(h) PROVE DueInv'
  <2>1. h \in Saving /\ Saving' = Saving \ {h}
    BY <1>5 DEF SaveCompany, Goto, TypeOK, PhaseInv, Saving
  <2>2. overtaken' = overtaken \cup (Saving \ {h})
    BY <1>5 DEF SaveCompany, SetWallet
  <2>3. CopyInv'
    BY <2>1, <2>2
  <2>4. ASSUME overtaken' \subseteq Saving' PROVE walletBalance' = due'
    <3>1. h \notin overtaken /\ overtaken \subseteq Saving
      BY <2>1, <2>2, <2>4
    <3>2. seen[h] = walletBalance /\ walletBalance = due
      BY <2>1, <3>1
    <3> QED
      BY <1>5, <3>2 DEF SaveCompany, SetWallet
  <2> QED
    BY <2>3, <2>4
<1>6. ASSUME NEW h \in Handlers, recordSettlement(h) \/ RecordEntry(h) PROVE DueInv'
  <2>0. pc[h] # "saving" /\ \E s \in {"recording", "end"} : pc' = [pc EXCEPT ![h] = s]
    BY <1>6 DEF recordSettlement, RecordEntry, Goto
  <2>1. Saving' = Saving
    BY <2>0 DEF TypeOK, Saving
  <2> QED
    BY <1>6, <1>b, <2>1 DEF recordSettlement, RecordEntry, account, history
<1>7. ASSUME NEW h \in Handlers, NEW v \in PointValues,
             addLoyaltyPoints(h, v) \/ redeemLoyaltyPoints(h, v)
      PROVE  DueInv'
  <2>0. pc[h] # "saving" /\ \E s \in {"recording", "converting"} : pc' = [pc EXCEPT ![h] = s]
    BY <1>7 DEF addLoyaltyPoints, redeemLoyaltyPoints, Goto
  <2>1. Saving' = Saving
    BY <2>0 DEF TypeOK, Saving
  <2> QED
    BY <1>7, <1>b, <2>1 DEF addLoyaltyPoints, redeemLoyaltyPoints, account, history
<1>8. ASSUME NEW h \in Handlers, ConvertPoints(h) PROVE DueInv'
  <2>1. Worth(h) \in Int
    BY WorthIsNat
  <2>2. Saving' = Saving
    BY <1>8 DEF ConvertPoints, Goto, TypeOK, Saving
  <2> QED
    BY <1>8, <1>a, <2>1, <2>2 DEF ConvertPoints
<1>9. ASSUME NEW h \in Handlers, HandlerFails(h) PROVE DueInv'
  <2>1. Saving' = Saving \ {h} /\ Saving \subseteq Handlers
    BY <1>9 DEF HandlerFails, Goto, TypeOK, Saving, Admins, Handlers
  <2>2. overtaken' = overtaken \ (Saving \ Saving')
    BY <1>9, <2>1 DEF HandlerFails
  <2>3. \A g \in Saving' : seen'[g] = seen[g]
    BY <1>9, <2>1 DEF HandlerFails, DropCopy
  <2> QED
    BY <1>9, <1>c, <2>1, <2>2, <2>3 DEF HandlerFails, account
<1>10. CASE Crash
  <2>1. Saving' = {}
    BY <1>10 DEF Crash, Saving, Admins, Handlers
  <2> QED
    BY <1>10, <1>c, <2>1 DEF Crash, account
<1>11. CASE UNCHANGED vars
  <2>1. Saving' = Saving
    BY <1>11 DEF vars, Saving
  <2> QED
    BY <1>11, <1>b, <2>1 DEF vars, account, history
<1> QED
  BY <1>1, <1>2, <1>3, <1>4, <1>5, <1>6, <1>7, <1>8, <1>9, <1>10, <1>11 DEF Next

(* The wallet holds what was put in less what was taken out, unless an
   admin's call has saved an outdated copy.                                *)
THEOREM WalletKept == Spec => []WalletIsDue
<1>1. Init => DueInv
  BY DEF Init, DueInv, CopyInv, WalletIsDue, Saving, Admins, Handlers
<1>2. DueInv => WalletIsDue
  BY DEF DueInv
<1> QED
  BY <1>1, <1>2, TypeLemma, DueNext, PTL DEF Spec

-----------------------------------------------------------------------------
(* Loyalty points.                                                         *)

LEMMA RedeemNext == TypeOK /\ PhaseInv /\ RedeemInv /\ [Next]_vars => RedeemInv'
<1> SUFFICES ASSUME TypeOK, PhaseInv, RedeemInv, [Next]_vars PROVE RedeemInv'
  OBVIOUS
<1> USE AmountsAssumption DEF TypeOK, RedeemInv, Converting
(* Redemptions only end, and points are only added.                        *)
<1>a. ASSUME loyaltyPoints' >= loyaltyPoints, contested' = contested,
             Converting' \subseteq Converting, loyaltyPoints' \in Int
      PROVE  RedeemInv'
  BY <1>a DEF Handlers
<1>1. ASSUME NEW amount \in Payments, topUpWallet(amount) \/ deductWallet(amount)
      PROVE  RedeemInv'
  BY <1>1, <1>a DEF topUpWallet, deductWallet
<1>2. ASSUME NEW amount \in Prices, atomicDeductCredit(amount) \/ creditBack(amount)
      PROVE  RedeemInv'
  BY <1>2, <1>a DEF atomicDeductCredit, creditBack
<1>3. ASSUME NEW h \in Handlers,
             ReadCompany(h) \/ SaveCompany(h) \/ recordSettlement(h) \/ RecordEntry(h)
               \/ HandlerFails(h)
      PROVE  RedeemInv'
  <2>0. \E s \in {"saving", "recording", "end"} : pc' = [pc EXCEPT ![h] = s]
    BY <1>3 DEF ReadCompany, SaveCompany, recordSettlement, RecordEntry, HandlerFails, Goto
  <2>1. Converting' \subseteq Converting
    BY <2>0 DEF Handlers
  <2>2. loyaltyPoints' = loyaltyPoints /\ contested' = contested
    BY <1>3 DEF ReadCompany, SaveCompany, recordSettlement, RecordEntry, HandlerFails, account,
                history
  <2> QED
    BY <1>a, <2>1, <2>2
<1>4. ASSUME NEW h \in Handlers, NEW v \in PointValues, addLoyaltyPoints(h, v) PROVE RedeemInv'
  <2>1. Converting' \subseteq Converting
    BY <1>4 DEF addLoyaltyPoints, Goto
  <2> QED
    BY <1>4, <1>a, <2>1 DEF addLoyaltyPoints, history
<1>5. ASSUME NEW h \in Handlers, NEW v \in PointValues, redeemLoyaltyPoints(h, v)
      PROVE  RedeemInv'
  <2>1. Converting' = Converting \cup {h}
    BY <1>5 DEF redeemLoyaltyPoints, Goto
  <2>2. ~contested' => ~contested /\ Converting = {}
    BY <1>5 DEF redeemLoyaltyPoints
  <2> QED
    BY <1>5, <2>1, <2>2 DEF redeemLoyaltyPoints, account
<1>6. ASSUME NEW h \in Handlers, ConvertPoints(h) PROVE RedeemInv'
  <2>1. h \in Converting /\ Converting' = Converting \ {h}
    BY <1>6 DEF ConvertPoints, Goto, PhaseInv
  <2>2. ~contested => Converting' = {} /\ AmountOf[h] <= loyaltyPoints
    BY <2>1
  <2> QED
    BY <1>6, <2>1, <2>2 DEF ConvertPoints
<1>7. CASE Crash
  <2>1. Converting' \subseteq Converting
    BY <1>7 DEF Crash, Handlers
  <2> QED
    BY <1>7, <1>a, <2>1 DEF Crash, account
<1>8. CASE UNCHANGED vars
  BY <1>8, <1>a DEF vars, account, history
<1> QED
  BY <1>1, <1>2, <1>3, <1>4, <1>5, <1>6, <1>7, <1>8 DEF Next

(* Points go below zero only if two redemptions were under way at once.    *)
THEOREM PointsCovered == Spec => []PointsCoverRedemptions
<1>1. Init => RedeemInv
  BY DEF Init, RedeemInv, Converting, Handlers
<1>2. TypeOK /\ RedeemInv => PointsCoverRedemptions
  BY DEF TypeOK, RedeemInv, PointsCoverRedemptions
<1> QED
  BY <1>1, <1>2, TypeLemma, RedeemNext, PTL DEF Spec
=============================================================================
