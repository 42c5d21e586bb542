--------------------------- MODULE MarketplaceProofs ---------------------------
(***************************************************************************)
(* Proofs about the marketplace, for every set of organisations, orders and *)
(* concurrent calls, every bounty and reserve ratio, and any number of      *)
(* crashes at any step.                                                     *)
(***************************************************************************)
EXTENDS Marketplace, SumTheorems

(* The reserve never exceeds the surplus it is taken from, so the mission   *)
(* share is not negative.                                                   *)
LEMMA ShareBounds ==
  ASSUME NEW o \in Orders
  PROVE  /\ ReserveShare(o) \in Nat
         /\ ReserveShare(o) <= Bounty[o]
         /\ MissionShare(o) \in Nat
<1> DEFINE b == Bounty[o]
           p == ReservePercent
<1>1. b \in Nat /\ p \in 0..100
  BY MarketAssumption
<1> HIDE DEF b, p
<1>2. b * p \in Nat /\ b * p <= b * 100
  BY <1>1
<1>3. (b * p) \div 100 \in Nat /\ (b * p) \div 100 <= b
  BY <1>1, <1>2
<1> QED
  BY <1>1, <1>3 DEF ReserveShare, MissionShare, b, p

(* A transfer that passes the balance check keeps every balance a natural   *)
(* number, and books an entry of a known kind.                              *)
LEMMA TransferTypes ==
  ASSUME LedgerOK,
         NEW c \in Orgs, NEW from \in Accounts, NEW to \in Accounts, from # to,
         NEW k \in Kinds, NEW o \in Orders, NEW amount \in Nat,
         bal[c][from] >= amount,
         Transfer(c, from, to, k, o, amount)
  PROVE  LedgerOK'
<1> USE DEF LedgerOK
<1>1. posted' \subseteq [kind : Kinds, order : Orders]
  BY DEF Transfer, Entry
<1>2. /\ bal[c] \in [Accounts -> Nat]
      /\ bal[c][from] - amount \in Nat
      /\ bal[c][to] + amount \in Nat
  OBVIOUS
<1>3. [bal[c] EXCEPT ![from] = @ - amount, ![to] = @ + amount] \in [Accounts -> Nat]
  BY <1>2
<1>4. bal' = [bal EXCEPT ![c] = [bal[c] EXCEPT ![from] = @ - amount, ![to] = @ + amount]]
  BY <1>2 DEF Transfer
<1> QED
  BY <1>1, <1>3, <1>4

(* So does a deposit. *)
LEMMA DepositTypes ==
  ASSUME LedgerOK, NEW c \in Orgs, NEW o \in Orders, Deposit(c, o)
  PROVE  LedgerOK'
<1>1. posted' \subseteq [kind : Kinds, order : Orders]
  BY DEF Deposit, Entry, LedgerOK, Kinds
<1>2. [bal[c] EXCEPT !["REVENUE"] = @ + Bounty[o]] \in [Accounts -> Nat]
  BY MarketAssumption DEF LedgerOK, Accounts
<1>3. bal' = [bal EXCEPT ![c] = [bal[c] EXCEPT !["REVENUE"] = @ + Bounty[o]]]
  BY DEF Deposit, LedgerOK
<1> QED
  BY <1>1, <1>2, <1>3 DEF LedgerOK

(* What no transfer or deposit touches stays as it is. *)
LEMMA LedgerFrame == LedgerOK /\ UNCHANGED money => LedgerOK'
  BY DEF LedgerOK, money

(* Every call names an order, and a settlement its organisation, exactly    *)
(* while it runs; no account is ever overdrawn.                             *)
THEOREM MarketTypeInvariant == Spec => []TypeOK
<1> USE MarketAssumption
<1>1. Init => TypeOK
  BY DEF Init, TypeOK, RowsOK, LedgerOK, CallsOK, Accounts, PublishSteps, ClaimSteps, SettleSteps, RefundSteps
<1>2. TypeOK /\ [Next]_vars => TypeOK'
  <2> SUFFICES ASSUME TypeOK, [Next]_vars
               PROVE  TypeOK'
    OBVIOUS
  <2> USE DEF TypeOK, RowsOK, CallsOK, market, claims, settle, refund, PublishSteps,
              ClaimSteps, SettleSteps, RefundSteps
  <2>1. ASSUME NEW o \in Orders, PublishCheck(o) PROVE TypeOK'
    BY <2>1, LedgerFrame DEF PublishCheck, At
  <2>2. ASSUME NEW o \in Orders, PublishLock(o) PROVE TypeOK'
    <3>2. LedgerOK'
      BY <2>2, TransferTypes, LedgerFrame DEF PublishLock, CanTransfer, Accounts, Kinds
    <3> QED
      BY <2>2, <3>2 DEF PublishLock, At
  <2>3. ASSUME NEW o \in Orders, PublishCreate(o) PROVE TypeOK'
    BY <2>3, LedgerFrame DEF PublishCreate, At, CreateOrder
  <2>4. ASSUME NEW o \in Orders, PublishEscrow(o) PROVE TypeOK'
    BY <2>4, LedgerFrame DEF PublishEscrow, At, SaveEscrow
  <2>5. ASSUME NEW c \in Orgs, NEW o \in Orders, ClaimFind(c, o) PROVE TypeOK'
    BY <2>5, LedgerFrame DEF ClaimFind, GoClaim, OpenOrders, HasCapability
  <2>6. ASSUME NEW c \in Orgs, ClaimGrant(c) PROVE TypeOK'
    BY <2>6, LedgerFrame DEF ClaimGrant, GoClaim
  <2>7. ASSUME NEW c \in Orgs, ClaimOrder(c) PROVE TypeOK'
    BY <2>7, LedgerFrame DEF ClaimOrder, GoClaim, TakeClaim
  <2>8. ASSUME NEW s \in Settlers, NEW o \in Orders, SettleLoad(s, o) PROVE TypeOK'
    BY <2>8, LedgerFrame DEF SettleLoad
  <2>9. ASSUME NEW s \in Settlers, SettlePreflight(s) PROVE TypeOK'
    BY <2>9, LedgerFrame DEF SettlePreflight, Goto, EndSettle
  <2>10. ASSUME NEW s \in Settlers, SettleWork(s) PROVE TypeOK'
    BY <2>10, LedgerFrame DEF SettleWork, Goto, EndSettle
  <2>11. ASSUME NEW s \in Settlers, SettleVerify(s) PROVE TypeOK'
    BY <2>11, LedgerFrame DEF SettleVerify, Goto, EndSettle
  <2>12. ASSUME NEW s \in Settlers, SettleRelease(s) PROVE TypeOK'
    <3>1. sarg[s] \in Orders
      BY <2>12 DEF SettleRelease
    <3>2. LedgerOK'
      BY <2>12, <3>1, TransferTypes, LedgerFrame DEF SettleRelease, CanTransfer, Accounts, Kinds
    <3> QED
      BY <2>12, <3>1, <3>2 DEF SettleRelease, Goto, EndSettle
  <2>13. ASSUME NEW s \in Settlers, SettleDeposit(s) PROVE TypeOK'
    <3>1. sarg[s] \in Orders /\ sorg[s] \in Orgs
      BY <2>13 DEF SettleDeposit
    <3>2. LedgerOK'
      BY <2>13, <3>1, DepositTypes, LedgerFrame DEF SettleDeposit
    <3> QED
      BY <2>13, <3>1, <3>2 DEF SettleDeposit, Goto, EndSettle
  <2>14. ASSUME NEW s \in Settlers, SettleReserve(s) PROVE TypeOK'
    <3>1. /\ sarg[s] \in Orders /\ sorg[s] \in Orgs
          /\ ReserveShare(sarg[s]) \in Nat
          /\ ReserveShare(sarg[s]) <= Bounty[sarg[s]]
      BY <2>14, ShareBounds DEF SettleReserve
    <3>2. bal[sorg[s]]["REVENUE"] \in Nat
      BY <3>1 DEF LedgerOK, Accounts
    <3>3. LedgerOK'
      BY <2>14, <3>1, <3>2, TransferTypes, LedgerFrame DEF SettleReserve, Accounts, Kinds
    <3> QED
      BY <2>14, <3>1, <3>3 DEF SettleReserve, Goto, EndSettle
  <2>15. ASSUME NEW s \in Settlers, SettleMission(s) PROVE TypeOK'
    <3>1. /\ sarg[s] \in Orders /\ sorg[s] \in Orgs
          /\ MissionShare(sarg[s]) \in Nat
      BY <2>15, ShareBounds DEF SettleMission
    <3>2. bal[sorg[s]]["REVENUE"] \in Nat
      BY <3>1 DEF LedgerOK, Accounts
    <3>3. LedgerOK'
      BY <2>15, <3>1, <3>2, TransferTypes, LedgerFrame DEF SettleMission, Accounts, Kinds
    <3> QED
      BY <2>15, <3>1, <3>3 DEF SettleMission, Goto, EndSettle
  <2>16. ASSUME NEW s \in Settlers, SettleEvent(s) PROVE TypeOK'
    BY <2>16, LedgerFrame DEF SettleEvent, Goto
  <2>17. ASSUME NEW s \in Settlers, SettleEscrowRow(s) PROVE TypeOK'
    BY <2>17, LedgerFrame DEF SettleEscrowRow, Goto, UpdateEscrow
  <2>18. ASSUME NEW s \in Settlers, SettleOrderRow(s) PROVE TypeOK'
    BY <2>18, LedgerFrame DEF SettleOrderRow, EndSettle, UpdateOrder
  <2>19. ASSUME NEW r \in Refunders, NEW o \in Orders, RefundLoad(r, o) PROVE TypeOK'
    BY <2>19, LedgerFrame DEF RefundLoad, GoRefund
  <2>20. ASSUME NEW r \in Refunders, RefundCheck(r) PROVE TypeOK'
    BY <2>20, LedgerFrame DEF RefundCheck, GoRefund
  <2>21. ASSUME NEW r \in Refunders, RefundTransfer(r) PROVE TypeOK'
    <3>1. rarg[r] \in Orders
      BY <2>21 DEF RefundTransfer
    <3>2. LedgerOK'
      BY <2>21, <3>1, TransferTypes, LedgerFrame DEF RefundTransfer, CanTransfer, Accounts, Kinds
    <3> QED
      BY <2>21, <3>1, <3>2 DEF RefundTransfer, GoRefund
  <2>22. ASSUME NEW r \in Refunders, RefundEscrowRow(r) PROVE TypeOK'
    BY <2>22, LedgerFrame DEF RefundEscrowRow, GoRefund, UpdateEscrow
  <2>23. ASSUME NEW r \in Refunders, RefundOrderRow(r) PROVE TypeOK'
    BY <2>23, LedgerFrame DEF RefundOrderRow, GoRefund, UpdateOrder
  <2>24. ASSUME NEW c \in Orgs, Revoke(c) PROVE TypeOK'
    BY <2>24, LedgerFrame DEF Revoke
  <2>26. CASE Crash
    BY <2>26, LedgerFrame DEF Crash, GoClaim, EndSettle, GoRefund
  <2>27. CASE UNCHANGED vars
    BY <2>27, LedgerFrame DEF vars
  <2> QED
    BY <2>1, <2>2, <2>3, <2>4, <2>5, <2>6, <2>7, <2>8, <2>9, <2>10,
       <2>11, <2>12, <2>13, <2>14, <2>15, <2>16, <2>17, <2>18, <2>19,
       <2>20, <2>21, <2>22, <2>23, <2>24, <2>26, <2>27
       DEF Next, PublishStep, ClaimStep, SettleStep, RefundStep
<1> QED
  BY <1>1, <1>2, PTL DEF Spec

-----------------------------------------------------------------------------
(* Paying for an order, step by step.  Past the release a settlement owns   *)
(* its order: the release id admits no second one.                          *)

PastRelease == {"deposit", "reserve", "mission", "event", "escrowRow", "orderRow"}

(* Each step of execute_and_settle finds the effects of those before it,    *)
(* and no other settlement's.                                               *)
StepsInOrder ==
    \A s \in Settlers : spc[s] \in PastRelease =>
        /\ HasEntry("release", sarg[s])
        /\ spc[s] # "deposit" => HasEntry("deposit", sarg[s])
        /\ spc[s] \in {"event", "escrowRow", "orderRow"} =>
             (MissionShare(sarg[s]) > 0 => HasEntry("mission", sarg[s]))
        /\ spc[s] \in {"deposit", "reserve", "mission", "event"} => events[sarg[s]] = 0
        /\ spc[s] \in {"escrowRow", "orderRow"} => events[sarg[s]] = 1
        /\ order[sarg[s]] # "COMPLETED"

OneSettlement ==
    \A s, t \in Settlers :
        spc[s] \in PastRelease /\ spc[t] \in PastRelease /\ sarg[s] = sarg[t] => s = t

UnpaidUnrecorded ==
    \A o \in Orders : ~HasEntry("release", o) => events[o] = 0

PaidInv == /\ StepsInOrder
           /\ OneSettlement
           /\ UnpaidUnrecorded
           /\ PayoutBacked
           /\ CompletedIsPaid

(* Booking an entry makes that one known, and no other. *)
LEMMA EntryBooked ==
  ASSUME NEW k, NEW o, posted' = posted \cup {Entry(k, o)}
  PROVE  \A k2, o2 : HasEntry(k2, o2)' <=> HasEntry(k2, o2) \/ (k2 = k /\ o2 = o)
  BY DEF HasEntry, Entry

(* A step that books nothing leaves the entries alone. *)
LEMMA EntriesFrame ==
  ASSUME UNCHANGED posted
  PROVE  \A k, o : HasEntry(k, o)' <=> HasEntry(k, o)
  BY DEF HasEntry

(* Nor does an entry of another kind make a payment appear. *)
LEMMA OtherEntries ==
  ASSUME NEW k, k \notin {"release", "deposit"}, NEW o,
         posted' = posted \/ posted' = posted \cup {Entry(k, o)}
  PROVE  \A o2 : /\ HasEntry("release", o2)' <=> HasEntry("release", o2)
                 /\ HasEntry("deposit", o2)' <=> HasEntry("deposit", o2)
                 /\ HasEntry("mission", o2) => HasEntry("mission", o2)'
<1>1. CASE posted' = posted
  BY <1>1, EntriesFrame
<1>2. CASE posted' = posted \cup {Entry(k, o)}
  BY <1>2, EntryBooked
<1> QED
  BY <1>1, <1>2

(* The strengthening of PayoutBacked and CompletedIsPaid that every step    *)
(* preserves.                                                               *)
LEMMA PaidInvInductive == Spec => [](TypeOK /\ PaidInv)
<1> USE MarketAssumption
<1>1. Init => PaidInv
  BY DEF Init, PaidInv, StepsInOrder, OneSettlement, UnpaidUnrecorded, PayoutBacked,
         CompletedIsPaid, HasEntry, PastRelease
<1>2. TypeOK /\ PaidInv /\ [Next]_vars => PaidInv'
  <2> SUFFICES ASSUME TypeOK, PaidInv, [Next]_vars
               PROVE  PaidInv'
    OBVIOUS
  <2> USE DEF TypeOK, RowsOK, CallsOK, PaidInv, StepsInOrder, OneSettlement,
              UnpaidUnrecorded, PayoutBacked, CompletedIsPaid, PastRelease,
              market, money, claims, settle, refund, SettleSteps
  <2>1. ASSUME NEW o \in Orders, PublishCheck(o) PROVE PaidInv'
    BY <2>1, EntriesFrame DEF PublishCheck, At
  <2>2. ASSUME NEW o \in Orders, PublishLock(o) PROVE PaidInv'
    <3>1. \A o2 : /\ HasEntry("release", o2)' <=> HasEntry("release", o2)
                  /\ HasEntry("deposit", o2)' <=> HasEntry("deposit", o2)
                  /\ HasEntry("mission", o2) => HasEntry("mission", o2)'
      <4>1. \/ posted' = posted
            \/ posted' = posted \cup {Entry("lock", o)}
        BY <2>2 DEF PublishLock, Transfer
      <4> QED
        BY ONLY <4>1, OtherEntries
    <3> QED
      BY <2>2, <3>1 DEF PublishLock, At
  <2>3. ASSUME NEW o \in Orders, PublishCreate(o) PROVE PaidInv'
    BY <2>3, EntriesFrame DEF PublishCreate, At, CreateOrder
  <2>4. ASSUME NEW o \in Orders, PublishEscrow(o) PROVE PaidInv'
    BY <2>4, EntriesFrame DEF PublishEscrow, At, SaveEscrow
  <2>5. ASSUME NEW c \in Orgs, NEW o \in Orders, ClaimFind(c, o) PROVE PaidInv'
    BY <2>5, EntriesFrame DEF ClaimFind, GoClaim, OpenOrders, HasCapability
  <2>6. ASSUME NEW c \in Orgs, ClaimGrant(c) PROVE PaidInv'
    BY <2>6, EntriesFrame DEF ClaimGrant, GoClaim
  <2>7. ASSUME NEW c \in Orgs, ClaimOrder(c) PROVE PaidInv'
    BY <2>7, EntriesFrame DEF ClaimOrder, GoClaim, TakeClaim
  <2>8. ASSUME NEW s \in Settlers, NEW o \in Orders, SettleLoad(s, o) PROVE PaidInv'
    BY <2>8, EntriesFrame DEF SettleLoad
  <2>9. ASSUME NEW s \in Settlers, SettlePreflight(s) PROVE PaidInv'
    BY <2>9, EntriesFrame DEF SettlePreflight, Goto, EndSettle
  <2>10. ASSUME NEW s \in Settlers, SettleWork(s) PROVE PaidInv'
    BY <2>10, EntriesFrame DEF SettleWork, Goto, EndSettle
  <2>11. ASSUME NEW s \in Settlers, SettleVerify(s) PROVE PaidInv'
    BY <2>11, EntriesFrame DEF SettleVerify, Goto, EndSettle
  <2>12. ASSUME NEW s \in Settlers, SettleRelease(s) PROVE PaidInv'
    <3>1. CASE CanTransfer(ClientOf[sarg[s]], "ESCROW", "release", sarg[s], Bounty[sarg[s]])
      <4>1. posted' = posted \cup {Entry("release", sarg[s])}
        BY <2>12, <3>1 DEF SettleRelease, Transfer
      <4>2. \A k2, o2 : HasEntry(k2, o2)' <=> HasEntry(k2, o2) \/ (k2 = "release" /\ o2 = sarg[s])
        BY ONLY <4>1, EntryBooked
      <4> QED
        BY <2>12, <3>1, <4>2 DEF SettleRelease, Goto, EndSettle, CanTransfer, Duplicate
    <3> QED
      BY <2>12, <3>1, EntriesFrame, SMTT(30) DEF SettleRelease, Goto, EndSettle, CanTransfer, Duplicate
  <2>13. ASSUME NEW s \in Settlers, SettleDeposit(s) PROVE PaidInv'
    <3>1. CASE ~Duplicate("deposit", sarg[s])
      <4>1. posted' = posted \cup {Entry("deposit", sarg[s])}
        BY <2>13, <3>1 DEF SettleDeposit, Deposit
      <4>2. \A k2, o2 : HasEntry(k2, o2)' <=> HasEntry(k2, o2) \/ (k2 = "deposit" /\ o2 = sarg[s])
        BY ONLY <4>1, EntryBooked
      <4> QED
        BY <2>13, <3>1, <4>2 DEF SettleDeposit, Goto, EndSettle
    <3> QED
      BY SMTT(30), <2>13, <3>1, EntriesFrame DEF SettleDeposit, Goto, EndSettle
  <2>14. ASSUME NEW s \in Settlers, SettleReserve(s) PROVE PaidInv'
    <3>1. \A o2 : /\ HasEntry("release", o2)' <=> HasEntry("release", o2)
                  /\ HasEntry("deposit", o2)' <=> HasEntry("deposit", o2)
                  /\ HasEntry("mission", o2) => HasEntry("mission", o2)'
      <4>1. \/ posted' = posted
            \/ posted' = posted \cup {Entry("reserve", sarg[s])}
        BY <2>14 DEF SettleReserve, Transfer
      <4> QED
        BY ONLY <4>1, OtherEntries
    <3> QED
      BY <2>14, <3>1, SMTT(30) DEF SettleReserve, Goto, EndSettle
  <2>15. ASSUME NEW s \in Settlers, SettleMission(s) PROVE PaidInv'
    <3>1. CASE MissionShare(sarg[s]) # 0 /\ ~(bal[sorg[s]]["REVENUE"] < MissionShare(sarg[s]))
      <4>1. posted' = posted \cup {Entry("mission", sarg[s])}
        BY <2>15, <3>1 DEF SettleMission, Transfer
      <4>2. \A k2, o2 : HasEntry(k2, o2)' <=> HasEntry(k2, o2) \/ (k2 = "mission" /\ o2 = sarg[s])
        BY ONLY <4>1, EntryBooked
      <4> QED
        BY <2>15, <3>1, <4>2 DEF SettleMission, Goto, EndSettle
    <3> QED
      BY <2>15, <3>1, EntriesFrame DEF SettleMission, Goto, EndSettle
  <2>16. ASSUME NEW s \in Settlers, SettleEvent(s) PROVE PaidInv'
    BY <2>16, EntriesFrame DEF SettleEvent, Goto
  <2>17. ASSUME NEW s \in Settlers, SettleEscrowRow(s) PROVE PaidInv'
    BY <2>17, EntriesFrame DEF SettleEscrowRow, Goto, UpdateEscrow
  <2>18. ASSUME NEW s \in Settlers, SettleOrderRow(s) PROVE PaidInv'
    BY <2>18, EntriesFrame DEF SettleOrderRow, EndSettle, UpdateOrder
  <2>19. ASSUME NEW r \in Refunders, NEW o \in Orders, RefundLoad(r, o) PROVE PaidInv'
    BY <2>19, EntriesFrame DEF RefundLoad, GoRefund
  <2>20. ASSUME NEW r \in Refunders, RefundCheck(r) PROVE PaidInv'
    BY <2>20, EntriesFrame DEF RefundCheck, GoRefund
  <2>21. ASSUME NEW r \in Refunders, RefundTransfer(r) PROVE PaidInv'
    <3>1. \A o2 : /\ HasEntry("release", o2)' <=> HasEntry("release", o2)
                  /\ HasEntry("deposit", o2)' <=> HasEntry("deposit", o2)
                  /\ HasEntry("mission", o2) => HasEntry("mission", o2)'
      <4>1. \/ posted' = posted
            \/ posted' = posted \cup {Entry("refund", rarg[r])}
        BY <2>21 DEF RefundTransfer, Transfer
      <4> QED
        BY ONLY <4>1, OtherEntries
    <3> QED
      BY <2>21, <3>1 DEF RefundTransfer, GoRefund
  <2>22. ASSUME NEW r \in Refunders, RefundEscrowRow(r) PROVE PaidInv'
    BY <2>22, EntriesFrame DEF RefundEscrowRow, GoRefund, UpdateEscrow
  <2>23. ASSUME NEW r \in Refunders, RefundOrderRow(r) PROVE PaidInv'
    BY <2>23, EntriesFrame DEF RefundOrderRow, GoRefund, UpdateOrder
  <2>24. ASSUME NEW c \in Orgs, Revoke(c) PROVE PaidInv'
    BY <2>24, EntriesFrame DEF Revoke
  <2>26. CASE Crash
    BY <2>26, EntriesFrame DEF Crash, GoClaim, EndSettle, GoRefund
  <2>27. CASE UNCHANGED vars
    BY <2>27, EntriesFrame DEF vars
  <2> QED
    BY <2>1, <2>2, <2>3, <2>4, <2>5, <2>6, <2>7, <2>8, <2>9, <2>10,
       <2>11, <2>12, <2>13, <2>14, <2>15, <2>16, <2>17, <2>18, <2>19,
       <2>20, <2>21, <2>22, <2>23, <2>24, <2>26, <2>27
       DEF Next, PublishStep, ClaimStep, SettleStep, RefundStep
<1> QED
  BY <1>1, <1>2, MarketTypeInvariant, PTL DEF Spec

(* No provider is credited unless its client has paid, whatever overlaps or *)
(* crashes: the deposit follows the release in every execution.             *)
THEOREM PayoutAlwaysBacked == Spec => []PayoutBacked
  BY PaidInvInductive, PTL DEF PaidInv

(* A COMPLETED order is paid for, allocated and recorded once, under any    *)
(* number of concurrent settlements and refunds and any crash.              *)
THEOREM CompletedOrdersArePaid == Spec => []CompletedIsPaid
  BY PaidInvInductive, PTL DEF PaidInv

-----------------------------------------------------------------------------
(* An order nobody claimed has no claimant. *)
UnclaimedInv ==
    \A o \in Orders : order[o] \in {"absent", "OPEN"} => claimant[o] = None

(* An order is claimed once, from OPEN: the claim is the one update that    *)
(* checks the row it overwrites.                                            *)
THEOREM OrdersClaimedOnce == Spec => ClaimedOnce
<1> USE MarketAssumption
<1>1. Init => UnclaimedInv
  BY DEF Init, UnclaimedInv
<1>2. TypeOK /\ UnclaimedInv /\ [Next]_vars => UnclaimedInv'
  <2> SUFFICES ASSUME TypeOK, UnclaimedInv, [Next]_vars
               PROVE  UnclaimedInv'
    OBVIOUS
  <2> USE DEF TypeOK, RowsOK, UnclaimedInv, market
  <2>1. ASSUME NEW o \in Orders, PublishCheck(o) PROVE UnclaimedInv'
    BY <2>1 DEF PublishCheck
  <2>2. ASSUME NEW o \in Orders, PublishLock(o) PROVE UnclaimedInv'
    BY <2>2 DEF PublishLock
  <2>3. ASSUME NEW o \in Orders, PublishCreate(o) PROVE UnclaimedInv'
    BY <2>3 DEF PublishCreate, CreateOrder
  <2>4. ASSUME NEW o \in Orders, PublishEscrow(o) PROVE UnclaimedInv'
    BY <2>4 DEF PublishEscrow
  <2>5. ASSUME NEW c \in Orgs, NEW o \in Orders, ClaimFind(c, o) PROVE UnclaimedInv'
    BY <2>5 DEF ClaimFind
  <2>6. ASSUME NEW c \in Orgs, ClaimGrant(c) PROVE UnclaimedInv'
    BY <2>6 DEF ClaimGrant
  <2>7. ASSUME NEW c \in Orgs, ClaimOrder(c) PROVE UnclaimedInv'
    BY <2>7 DEF ClaimOrder, TakeClaim
  <2>8. ASSUME NEW s \in Settlers, NEW o \in Orders, SettleLoad(s, o) PROVE UnclaimedInv'
    BY <2>8 DEF SettleLoad
  <2>9. ASSUME NEW s \in Settlers, SettlePreflight(s) PROVE UnclaimedInv'
    BY <2>9 DEF SettlePreflight
  <2>10. ASSUME NEW s \in Settlers, SettleWork(s) PROVE UnclaimedInv'
    BY <2>10 DEF SettleWork
  <2>11. ASSUME NEW s \in Settlers, SettleVerify(s) PROVE UnclaimedInv'
    BY <2>11 DEF SettleVerify
  <2>12. ASSUME NEW s \in Settlers, SettleRelease(s) PROVE UnclaimedInv'
    BY <2>12 DEF SettleRelease
  <2>13. ASSUME NEW s \in Settlers, SettleDeposit(s) PROVE UnclaimedInv'
    BY <2>13 DEF SettleDeposit
  <2>14. ASSUME NEW s \in Settlers, SettleReserve(s) PROVE UnclaimedInv'
    BY <2>14 DEF SettleReserve
  <2>15. ASSUME NEW s \in Settlers, SettleMission(s) PROVE UnclaimedInv'
    BY <2>15 DEF SettleMission
  <2>16. ASSUME NEW s \in Settlers, SettleEvent(s) PROVE UnclaimedInv'
    BY <2>16 DEF SettleEvent
  <2>17. ASSUME NEW s \in Settlers, SettleEscrowRow(s) PROVE UnclaimedInv'
    BY <2>17 DEF SettleEscrowRow
  <2>18. ASSUME NEW s \in Settlers, SettleOrderRow(s) PROVE UnclaimedInv'
    BY <2>18 DEF SettleOrderRow, UpdateOrder
  <2>19. ASSUME NEW r \in Refunders, NEW o \in Orders, RefundLoad(r, o) PROVE UnclaimedInv'
    BY <2>19 DEF RefundLoad
  <2>20. ASSUME NEW r \in Refunders, RefundCheck(r) PROVE UnclaimedInv'
    BY <2>20 DEF RefundCheck
  <2>21. ASSUME NEW r \in Refunders, RefundTransfer(r) PROVE UnclaimedInv'
    BY <2>21 DEF RefundTransfer
  <2>22. ASSUME NEW r \in Refunders, RefundEscrowRow(r) PROVE UnclaimedInv'
    BY <2>22 DEF RefundEscrowRow
  <2>23. ASSUME NEW r \in Refunders, RefundOrderRow(r) PROVE UnclaimedInv'
    BY <2>23 DEF RefundOrderRow, UpdateOrder
  <2>24. ASSUME NEW c \in Orgs, Revoke(c) PROVE UnclaimedInv'
    BY <2>24 DEF Revoke
  <2>26. CASE Crash
    BY <2>26 DEF Crash
  <2>27. CASE UNCHANGED vars
    BY <2>27 DEF vars
  <2> QED
    BY <2>1, <2>2, <2>3, <2>4, <2>5, <2>6, <2>7, <2>8, <2>9, <2>10,
       <2>11, <2>12, <2>13, <2>14, <2>15, <2>16, <2>17, <2>18, <2>19,
       <2>20, <2>21, <2>22, <2>23, <2>24, <2>26, <2>27
       DEF Next, PublishStep, ClaimStep, SettleStep, RefundStep
<1>3. TypeOK /\ UnclaimedInv /\ [Next]_vars =>
        [\A o \in Orders : claimant'[o] # claimant[o] =>
            /\ claimant[o] = None
            /\ order[o] = "OPEN"]_vars
  <2> SUFFICES ASSUME TypeOK, UnclaimedInv, Next, NEW o \in Orders, claimant'[o] # claimant[o]
               PROVE  claimant[o] = None /\ order[o] = "OPEN"
    BY DEF vars, market
  <2>1. \E c \in Orgs : ClaimOrder(c)
    BY DEF Next, PublishStep, ClaimStep, SettleStep, RefundStep, PublishCheck, PublishLock,
           PublishCreate, PublishEscrow, ClaimFind, ClaimGrant, SettleLoad, SettlePreflight,
           SettleWork, SettleVerify, SettleRelease, SettleDeposit, SettleReserve,
           SettleMission, SettleEvent, SettleEscrowRow, SettleOrderRow, RefundLoad,
           RefundCheck, RefundTransfer, RefundEscrowRow, RefundOrderRow, Revoke,
           Crash, market
  <2> QED
    BY <2>1 DEF ClaimOrder, TakeClaim, UnclaimedInv, TypeOK, RowsOK
<1> QED
  BY <1>1, <1>2, <1>3, MarketTypeInvariant, PTL DEF Spec, ClaimedOnce

-----------------------------------------------------------------------------
(* The accounts of all organisations together. *)

(* A bounty that left one organisation and has not reached the other, on its *)
(* way or lost with the call that carried it.                                *)
InTransit(o) == IF HasEntry("release", o) /\ ~HasEntry("deposit", o) THEN Bounty[o] ELSE 0

MarketConserved ==
    SumFunction([c \in Orgs |-> Holdings(c)]) + SumFunction([o \in Orders |-> InTransit(o)])
      = SumFunction(InitialTreasury)

Held == {"TREASURY", "ESCROW", "REVENUE", "SURPLUS_RESERVE"}

(* The steps that touch the ledgers; every other one leaves them alone. *)
LEMMA MoneySteps ==
  ASSUME Next
  PROVE  \/ UNCHANGED money
         \/ \E o \in Orders : PublishLock(o)
         \/ \E s \in Settlers : SettleRelease(s) \/ SettleDeposit(s) \/ SettleReserve(s) \/ SettleMission(s)
         \/ \E r \in Refunders : RefundTransfer(r)
  BY DEF Next, PublishStep, ClaimStep, SettleStep, RefundStep, PublishCheck, PublishCreate,
         PublishEscrow, ClaimFind, ClaimGrant, ClaimOrder, SettleLoad, SettlePreflight, SettleWork,
         SettleVerify, SettleEvent, SettleEscrowRow, SettleOrderRow, RefundLoad, RefundCheck,
         RefundEscrowRow, RefundOrderRow, Revoke, Crash, money

(* A transfer of what the account holds, account by account. *)
LEMMA TransferBalances ==
  ASSUME LedgerOK, NEW c \in Orgs, NEW from \in Accounts, NEW to \in Accounts, from # to,
         NEW k, NEW o, NEW amount \in Nat, Transfer(c, from, to, k, o, amount)
  PROVE  /\ bal'[c][from] = bal[c][from] - amount /\ bal'[c][to] = bal[c][to] + amount
         /\ \A a \in Accounts \ {from, to} : bal'[c][a] = bal[c][a]
         /\ \A x \in Orgs : x # c => bal'[x] = bal[x]
         /\ bal[c][from] \in Nat /\ bal[c][to] \in Nat
<1>1. bal \in [Orgs -> [Accounts -> Nat]] /\ bal[c] \in [Accounts -> Nat]
  BY DEF LedgerOK
<1>2. bal' = [bal EXCEPT ![c] = [bal[c] EXCEPT ![from] = @ - amount, ![to] = @ + amount]]
  BY <1>1 DEF Transfer
<1>3. bal'[c] = [bal[c] EXCEPT ![from] = @ - amount, ![to] = @ + amount]
  BY <1>1, <1>2
<1>4. \A x \in Orgs : x # c => bal'[x] = bal[x]
  BY <1>1, <1>2
<1> QED
  BY <1>1, <1>3, <1>4

(* Inside the organisation it changes nothing. *)
LEMMA TransferHolds ==
  ASSUME LedgerOK, NEW c \in Orgs, NEW from \in Held, NEW to \in Held, from # to,
         NEW k, NEW o, NEW amount \in Nat, Transfer(c, from, to, k, o, amount)
  PROVE  \A x \in Orgs : Holdings(x)' = Holdings(x)
<1>1. /\ bal'[c][from] = bal[c][from] - amount /\ bal'[c][to] = bal[c][to] + amount
      /\ \A a \in Accounts \ {from, to} : bal'[c][a] = bal[c][a]
      /\ \A x \in Orgs : x # c => bal'[x] = bal[x]
  BY TransferBalances DEF Held, Accounts
<1>2. \A a \in Held : bal[c][a] \in Nat
  BY DEF LedgerOK, Held, Accounts
<1>3. Holdings(c)' = Holdings(c)
  BY <1>1, <1>2, SMTT(30) DEF Holdings, Held, Accounts
<1> QED
  BY <1>1, <1>3 DEF Holdings

(* Holdings are natural numbers. *)
LEMMA HoldingsNat == LedgerOK => \A c \in Orgs : Holdings(c) \in Nat
  BY DEF LedgerOK, Holdings, Accounts

(* The holdings of all organisations change by those of one. *)
LEMMA HoldingsChange ==
  ASSUME LedgerOK, LedgerOK', NEW c \in Orgs, \A x \in Orgs : x # c => Holdings(x)' = Holdings(x)
  PROVE  /\ SumFunction([x \in Orgs |-> Holdings(x)])'
              = SumFunction([x \in Orgs |-> Holdings(x)]) - Holdings(c) + Holdings(c)'
         /\ SumFunction([x \in Orgs |-> Holdings(x)]) \in Int
<1> DEFINE f == [x \in Orgs |-> Holdings(x)]
           g == [x \in Orgs |-> Holdings(x)']
<1>1. f \in [Orgs -> Int]
  BY HoldingsNat
<1>2. \A x \in Orgs : Holdings(x)' \in Nat
  BY DEF LedgerOK, Holdings, Accounts
<1>3. g \in [Orgs -> Int] /\ \A x \in Orgs : x # c => f[x] = g[x]
  BY <1>2
<1>4. SumFunction(g) = SumFunction(f) - f[c] + g[c] /\ SumFunction(f) \in Int
  <2> HIDE DEF f, g
  <2> QED
    BY <1>1, <1>3, SumChange, MarketAssumption
<1> QED
  BY <1>4

(* The bounties in transit change by that of one order. *)
LEMMA TransitChange ==
  ASSUME NEW o \in Orders, \A x \in Orders : x # o => InTransit(x)' = InTransit(x)
  PROVE  /\ SumFunction([x \in Orders |-> InTransit(x)])'
              = SumFunction([x \in Orders |-> InTransit(x)]) - InTransit(o) + InTransit(o)'
         /\ SumFunction([x \in Orders |-> InTransit(x)]) \in Int
<1> DEFINE f == [x \in Orders |-> InTransit(x)]
           g == [x \in Orders |-> InTransit(x)']
<1>1. f \in [Orders -> Int] /\ g \in [Orders -> Int] /\ \A x \in Orders : x # o => f[x] = g[x]
  BY MarketAssumption DEF InTransit
<1>2. SumFunction(g) = SumFunction(f) - f[o] + g[o] /\ SumFunction(f) \in Int
  <2> HIDE DEF f, g
  <2> QED
    BY <1>1, SumChange, MarketAssumption
<1> QED
  BY <1>2

(* A transfer within an organisation, booked under a kind that is neither    *)
(* release nor deposit, conserves. *)
LEMMA ConservedWithin ==
  ASSUME MarketConserved,
         \A x \in Orgs : Holdings(x)' = Holdings(x),
         NEW k, k \notin {"release", "deposit"}, NEW o,
         posted' = posted \/ posted' = posted \cup {Entry(k, o)}
  PROVE  MarketConserved'
<1>1. \A x \in Orders : InTransit(x)' = InTransit(x)
  BY OtherEntries DEF InTransit
<1> QED
  BY <1>1 DEF MarketConserved

(* What one ledger releases reaches the other or is in transit. *)
LEMMA ConservedStep ==
  ASSUME TypeOK, TypeOK', PaidInv, MarketConserved, Next
  PROVE  MarketConserved'
<1> USE DEF TypeOK
<1>1. CASE UNCHANGED money
  BY <1>1 DEF money, MarketConserved, Holdings, InTransit, HasEntry
<1>2. ASSUME NEW o \in Orders, PublishLock(o), ~UNCHANGED money PROVE MarketConserved'
  <2>1. Transfer(ClientOf[o], "TREASURY", "ESCROW", "lock", o, Bounty[o])
    BY <1>2 DEF PublishLock
  <2>2. ClientOf[o] \in Orgs /\ Bounty[o] \in Nat
    BY MarketAssumption
  <2>3. \A x \in Orgs : Holdings(x)' = Holdings(x)
    BY <2>1, <2>2, TransferHolds DEF Held
  <2> QED
    BY <2>1, <2>3, ConservedWithin DEF Transfer
<1>3. ASSUME NEW r \in Refunders, RefundTransfer(r), ~UNCHANGED money PROVE MarketConserved'
  <2> DEFINE o == rarg[r]
  <2>1. Transfer(ClientOf[o], "ESCROW", "TREASURY", "refund", o, Bounty[o])
    BY <1>3 DEF RefundTransfer
  <2>2. ClientOf[o] \in Orgs /\ Bounty[o] \in Nat
    BY <1>3, MarketAssumption DEF RefundTransfer, CallsOK
  <2>3. \A x \in Orgs : Holdings(x)' = Holdings(x)
    BY <2>1, <2>2, TransferHolds DEF Held
  <2> QED
    BY <2>1, <2>3, ConservedWithin DEF Transfer
<1>4. ASSUME NEW s \in Settlers, SettleReserve(s), ~UNCHANGED money PROVE MarketConserved'
  <2>1. Transfer(sorg[s], "REVENUE", "SURPLUS_RESERVE", "reserve", sarg[s], ReserveShare(sarg[s]))
    BY <1>4 DEF SettleReserve
  <2>2. sorg[s] \in Orgs /\ ReserveShare(sarg[s]) \in Nat
    BY <1>4, ShareBounds DEF SettleReserve, CallsOK
  <2>3. \A x \in Orgs : Holdings(x)' = Holdings(x)
    BY <2>1, <2>2, TransferHolds DEF Held
  <2> QED
    BY <2>1, <2>3, ConservedWithin DEF Transfer
<1>5. ASSUME NEW s \in Settlers, SettleMission(s), ~UNCHANGED money PROVE MarketConserved'
  <2>1. Transfer(sorg[s], "REVENUE", "TREASURY", "mission", sarg[s], MissionShare(sarg[s]))
    BY <1>5 DEF SettleMission
  <2>2. sorg[s] \in Orgs /\ MissionShare(sarg[s]) \in Nat
    BY <1>5, ShareBounds DEF SettleMission, CallsOK
  <2>3. \A x \in Orgs : Holdings(x)' = Holdings(x)
    BY <2>1, <2>2, TransferHolds DEF Held
  <2> QED
    BY <2>1, <2>3, ConservedWithin DEF Transfer
<1>6. ASSUME NEW s \in Settlers, SettleRelease(s), ~UNCHANGED money PROVE MarketConserved'
  <2>0. PICK o \in Orders : o = sarg[s]
    BY <1>6 DEF SettleRelease, CallsOK
  <2>1. /\ Transfer(ClientOf[o], "ESCROW", "EXTERNAL_SINK", "release", o, Bounty[o])
        /\ ~HasEntry("release", o)
    BY <1>6, <2>0 DEF SettleRelease, CanTransfer, Duplicate
  <2>2. ClientOf[o] \in Orgs /\ Bounty[o] \in Nat
    BY MarketAssumption
  <2>3. /\ Holdings(ClientOf[o])' = Holdings(ClientOf[o]) - Bounty[o]
        /\ \A x \in Orgs : x # ClientOf[o] => Holdings(x)' = Holdings(x)
        /\ Holdings(ClientOf[o]) \in Nat
    <3>1. /\ bal'[ClientOf[o]]["ESCROW"] = bal[ClientOf[o]]["ESCROW"] - Bounty[o]
          /\ \A a \in Accounts \ {"ESCROW", "EXTERNAL_SINK"} : bal'[ClientOf[o]][a] = bal[ClientOf[o]][a]
          /\ \A x \in Orgs : x # ClientOf[o] => bal'[x] = bal[x]
      BY <2>1, <2>2, TransferBalances DEF Accounts
    <3>2. \A a \in Accounts : bal[ClientOf[o]][a] \in Nat
      BY <2>2 DEF LedgerOK
    <3> QED
      BY <2>2, <3>1, <3>2 DEF Holdings, Accounts
  <2>4. InTransit(o) = 0 /\ InTransit(o)' = Bounty[o] /\ \A x \in Orders : x # o => InTransit(x)' = InTransit(x)
    <3>1. posted' = posted \cup {Entry("release", o)}
      BY <2>1 DEF Transfer
    <3>2. \A k2, o2 : HasEntry(k2, o2)' <=> HasEntry(k2, o2) \/ (k2 = "release" /\ o2 = o)
      BY <3>1, EntryBooked
    <3> QED
      BY <2>1, <3>2 DEF InTransit, PaidInv, PayoutBacked
  <2>5. /\ SumFunction([x \in Orgs |-> Holdings(x)])'
             = SumFunction([x \in Orgs |-> Holdings(x)]) - Holdings(ClientOf[o]) + Holdings(ClientOf[o])'
        /\ SumFunction([x \in Orgs |-> Holdings(x)]) \in Int
    BY <2>2, <2>3, HoldingsChange
  <2>6. /\ SumFunction([x \in Orders |-> InTransit(x)])'
             = SumFunction([x \in Orders |-> InTransit(x)]) - InTransit(o) + InTransit(o)'
        /\ SumFunction([x \in Orders |-> InTransit(x)]) \in Int
    BY <2>4, TransitChange
  <2> QED
    BY <2>2, <2>3, <2>4, <2>5, <2>6 DEF MarketConserved
<1>7. ASSUME NEW s \in Settlers, SettleDeposit(s), ~UNCHANGED money PROVE MarketConserved'
  <2>0. PICK o \in Orders, c \in Orgs : o = sarg[s] /\ c = sorg[s]
    BY <1>7 DEF SettleDeposit, CallsOK
  <2>1. Deposit(c, o) /\ HasEntry("release", o) /\ ~HasEntry("deposit", o)
    BY <1>7, <2>0 DEF SettleDeposit, Duplicate, PaidInv, StepsInOrder, PastRelease
  <2>2. Bounty[o] \in Nat
    BY MarketAssumption
  <2>3. /\ Holdings(c)' = Holdings(c) + Bounty[o]
        /\ \A x \in Orgs : x # c => Holdings(x)' = Holdings(x)
        /\ Holdings(c) \in Nat
    <3>1. bal' = [bal EXCEPT ![c] = [bal[c] EXCEPT !["REVENUE"] = @ + Bounty[o]]]
      BY <2>1 DEF Deposit, LedgerOK
    <3>2. bal'[c] = [bal[c] EXCEPT !["REVENUE"] = @ + Bounty[o]] /\ \A x \in Orgs : x # c => bal'[x] = bal[x]
      BY <3>1 DEF LedgerOK
    <3>3. bal[c] \in [Accounts -> Nat]
      BY DEF LedgerOK
    <3> QED
      BY <2>2, <3>2, <3>3 DEF Holdings, Accounts
  <2>4. InTransit(o) = Bounty[o] /\ InTransit(o)' = 0 /\ \A x \in Orders : x # o => InTransit(x)' = InTransit(x)
    <3>1. posted' = posted \cup {Entry("deposit", o)}
      BY <2>1 DEF Deposit
    <3>2. \A k2, o2 : HasEntry(k2, o2)' <=> HasEntry(k2, o2) \/ (k2 = "deposit" /\ o2 = o)
      BY <3>1, EntryBooked
    <3> QED
      BY <2>1, <3>2 DEF InTransit
  <2>5. /\ SumFunction([x \in Orgs |-> Holdings(x)])'
             = SumFunction([x \in Orgs |-> Holdings(x)]) - Holdings(c) + Holdings(c)'
        /\ SumFunction([x \in Orgs |-> Holdings(x)]) \in Int
    BY <2>2, <2>3, HoldingsChange
  <2>6. /\ SumFunction([x \in Orders |-> InTransit(x)])'
             = SumFunction([x \in Orders |-> InTransit(x)]) - InTransit(o) + InTransit(o)'
        /\ SumFunction([x \in Orders |-> InTransit(x)]) \in Int
    BY <2>4, TransitChange
  <2> QED
    BY <2>2, <2>3, <2>4, <2>5, <2>6 DEF MarketConserved
<1> QED
  BY <1>1, <1>2, <1>3, <1>4, <1>5, <1>6, <1>7, MoneySteps

(* What a settlement still has to take is a natural number. *)
LEMMA DueNat == ASSUME TypeOK PROVE \A c \in Orgs, s \in Settlers : Due(c, s) \in Nat
<1> SUFFICES ASSUME NEW c \in Orgs, NEW s \in Settlers PROVE Due(c, s) \in Nat
  OBVIOUS
<1>1. CASE spc[s] \in {"reserve", "mission"}
  <2>1. sarg[s] \in Orders
    BY <1>1, MarketAssumption DEF TypeOK, CallsOK
  <2> QED
    BY <2>1, ShareBounds, MarketAssumption DEF Due
<1> QED
  BY <1>1 DEF Due

(* REVENUE stays sufficient when one settlement moves and the account gives  *)
(* up no more than that settlement's claim on it shrinks.                    *)
LEMMA RevenueStep ==
  ASSUME TypeOK, RevenueCoversSettlements, NEW s \in Settlers,
         \A t \in Settlers : t # s => spc'[t] = spc[t] /\ sarg'[t] = sarg[t] /\ sorg'[t] = sorg[t],
         \A c \in Orgs : Due(c, s)' \in Nat /\ bal'[c]["REVENUE"] \in Nat,
         \A c \in Orgs : bal'[c]["REVENUE"] - Due(c, s)' >= bal[c]["REVENUE"] - Due(c, s)
  PROVE  RevenueCoversSettlements'
<1> SUFFICES ASSUME NEW c \in Orgs
             PROVE  bal'[c]["REVENUE"] >= SumFunction([t \in Settlers |-> Due(c, t)])'
  BY DEF RevenueCoversSettlements
<1> DEFINE f == [t \in Settlers |-> Due(c, t)]
           g == [t \in Settlers |-> Due(c, t)']
<1>1. f \in [Settlers -> Int]
  BY DueNat
<1>2. \A t \in Settlers : t # s => f[t] = g[t]
  BY DEF Due
<1>3. g \in [Settlers -> Int]
  BY <1>1, <1>2
<1>4. SumFunction(g) = SumFunction(f) - f[s] + g[s] /\ SumFunction(f) \in Int
  <2> HIDE DEF f, g
  <2> QED
    BY <1>1, <1>2, <1>3, SumChange, MarketAssumption
<1>5. bal[c]["REVENUE"] >= SumFunction(f) /\ bal[c]["REVENUE"] \in Nat
  BY DEF RevenueCoversSettlements, TypeOK, LedgerOK, Accounts
<1>6. f[s] = Due(c, s) /\ g[s] = Due(c, s)' /\ Due(c, s) \in Nat /\ Due(c, s)' \in Nat
  BY DueNat
<1>7. /\ bal'[c]["REVENUE"] \in Nat
      /\ bal'[c]["REVENUE"] - Due(c, s)' >= bal[c]["REVENUE"] - Due(c, s)
  OBVIOUS
<1>8. bal'[c]["REVENUE"] >= SumFunction(g)
  <2> DEFINE F == SumFunction(f)
             G == SumFunction(g)
  <2>1. G = F - Due(c, s) + Due(c, s)' /\ F \in Int
    BY <1>4, <1>6
  <2>2. bal[c]["REVENUE"] >= F
    BY <1>5
  <2> HIDE DEF F, G
  <2>3. bal'[c]["REVENUE"] >= G
    BY <1>5, <1>6, <1>7, <2>1, <2>2
  <2> QED
    BY <2>3 DEF G
<1> QED
  BY <1>8

(* A settlement that is not at the division of the revenue claims none. *)
LEMMA NothingDue ==
  ASSUME NEW s, spc'[s] \notin {"reserve", "mission"}
  PROVE  \A c : Due(c, s)' = 0
  BY DEF Due

(* Settlements keep REVENUE sufficient. *)
LEMMA RevenueCovered ==
  ASSUME TypeOK, TypeOK', PaidInv, RevenueCoversSettlements, Next
  PROVE  RevenueCoversSettlements'
<1>r. \A c \in Orgs : bal[c]["REVENUE"] \in Nat /\ bal'[c]["REVENUE"] \in Nat
  BY DEF TypeOK, LedgerOK, Accounts
<1>n. \A c \in Orgs, s \in Settlers : Due(c, s) \in Nat
  BY DueNat
(* The settlement ends, begins, or moves at another place. *)
<1>1. ASSUME NEW s \in Settlers,
             \A t \in Settlers : t # s => spc'[t] = spc[t] /\ sarg'[t] = sarg[t] /\ sorg'[t] = sorg[t],
             spc'[s] \notin {"reserve", "mission"},
             \A c \in Orgs : bal'[c]["REVENUE"] = bal[c]["REVENUE"]
      PROVE  RevenueCoversSettlements'
  <2>1. \A c \in Orgs : Due(c, s)' = 0
    BY <1>1, NothingDue
  <2>2. \A c \in Orgs : bal'[c]["REVENUE"] - Due(c, s)' >= bal[c]["REVENUE"] - Due(c, s)
    BY <1>1, <1>r, <1>n, <2>1
  <2> QED
    BY <1>1, <1>r, <2>1, <2>2, RevenueStep
<1>2. CASE UNCHANGED settle /\ \A c \in Orgs : bal'[c]["REVENUE"] = bal[c]["REVENUE"]
  BY <1>2 DEF settle, RevenueCoversSettlements, Due
<1>3. ASSUME NEW o \in Orders, PublishLock(o) PROVE RevenueCoversSettlements'
  <2>1. ClientOf[o] \in Orgs /\ Bounty[o] \in Nat
    BY MarketAssumption
  <2>2. \A c \in Orgs : bal'[c]["REVENUE"] = bal[c]["REVENUE"]
    <3>1. CASE Transfer(ClientOf[o], "TREASURY", "ESCROW", "lock", o, Bounty[o])
      BY <2>1, <3>1, TransferBalances DEF Accounts, TypeOK
    <3> QED
      BY <1>3, <3>1 DEF PublishLock, money
  <2> QED
    BY <1>2, <1>3, <2>2 DEF PublishLock
<1>4. ASSUME NEW r \in Refunders, RefundTransfer(r) PROVE RevenueCoversSettlements'
  <2>0. PICK o \in Orders : rarg[r] = o
    BY <1>4 DEF RefundTransfer, TypeOK, CallsOK
  <2>1. ClientOf[o] \in Orgs /\ Bounty[o] \in Nat
    BY MarketAssumption
  <2>2. \A c \in Orgs : bal'[c]["REVENUE"] = bal[c]["REVENUE"]
    <3>1. CASE Transfer(ClientOf[o], "ESCROW", "TREASURY", "refund", o, Bounty[o])
      BY <2>1, <3>1, TransferBalances DEF Accounts, TypeOK
    <3> QED
      BY <1>4, <2>0, <3>1 DEF RefundTransfer, money
  <2> QED
    BY <1>2, <1>4, <2>2 DEF RefundTransfer
<1>5. ASSUME NEW s \in Settlers, SettleRelease(s) PROVE RevenueCoversSettlements'
  <2>0. PICK o \in Orders : sarg[s] = o
    BY <1>5 DEF SettleRelease, TypeOK, CallsOK
  <2>1. ClientOf[o] \in Orgs /\ Bounty[o] \in Nat
    BY MarketAssumption
  <2>2. \A c \in Orgs : bal'[c]["REVENUE"] = bal[c]["REVENUE"]
    <3>1. CASE Transfer(ClientOf[o], "ESCROW", "EXTERNAL_SINK", "release", o, Bounty[o])
      BY <2>1, <3>1, TransferBalances DEF Accounts, TypeOK
    <3> QED
      BY <1>5, <2>0, <3>1 DEF SettleRelease, money
  <2>3. /\ \A t \in Settlers : t # s => spc'[t] = spc[t] /\ sarg'[t] = sarg[t] /\ sorg'[t] = sorg[t]
        /\ spc'[s] \in {"deposit", "idle"}
    BY <1>5 DEF SettleRelease, Goto, EndSettle, TypeOK, CallsOK
  <2> QED
    BY <1>1, <2>2, <2>3
<1>6. ASSUME NEW s \in Settlers, SettleDeposit(s) PROVE RevenueCoversSettlements'
  <2>0. PICK o \in Orders, d \in Orgs : sarg[s] = o /\ sorg[s] = d /\ Bounty[o] \in Nat
    BY <1>6, MarketAssumption DEF SettleDeposit, TypeOK, CallsOK
  <2>1. /\ \A t \in Settlers : t # s => spc'[t] = spc[t] /\ sarg'[t] = sarg[t] /\ sorg'[t] = sorg[t]
        /\ spc[s] = "deposit" /\ spc'[s] \in {"reserve", "idle"}
    BY <1>6 DEF SettleDeposit, Goto, EndSettle, TypeOK, CallsOK
  <2>2. CASE Duplicate("deposit", o)
    <3>1. spc'[s] = "idle" /\ \A c \in Orgs : bal'[c]["REVENUE"] = bal[c]["REVENUE"]
      BY <1>6, <2>0, <2>2 DEF SettleDeposit, EndSettle, TypeOK, CallsOK, money
    <3> QED
      BY <1>1, <2>1, <3>1
  <2>3. CASE ~Duplicate("deposit", o)
    <3>1. Deposit(d, o) /\ spc'[s] = "reserve" /\ sarg'[s] = o /\ sorg'[s] = d
      BY <1>6, <2>0, <2>3 DEF SettleDeposit, Goto, TypeOK, CallsOK
    <3>2. /\ bal'[d]["REVENUE"] = bal[d]["REVENUE"] + Bounty[o]
          /\ \A c \in Orgs : c # d => bal'[c] = bal[c]
      BY <3>1 DEF Deposit, TypeOK, LedgerOK, Accounts
    <3>3. /\ \A c \in Orgs : Due(c, s) = 0
          /\ Due(d, s)' = Bounty[o] /\ \A c \in Orgs : c # d => Due(c, s)' = 0
      BY <2>1, <3>1 DEF Due
    <3>4. \A c \in Orgs : /\ Due(c, s)' \in Nat
                          /\ bal'[c]["REVENUE"] - Due(c, s)' >= bal[c]["REVENUE"] - Due(c, s)
      BY <1>r, <2>0, <3>2, <3>3
    <3> QED
      BY <1>r, <2>1, <3>4, RevenueStep
  <2> QED
    BY <2>2, <2>3
<1>7. ASSUME NEW s \in Settlers, SettleReserve(s) PROVE RevenueCoversSettlements'
  <2>0. PICK o \in Orders, d \in Orgs : sarg[s] = o /\ sorg[s] = d
    BY <1>7 DEF SettleReserve, TypeOK, CallsOK
  <2>1. /\ \A t \in Settlers : t # s => spc'[t] = spc[t] /\ sarg'[t] = sarg[t] /\ sorg'[t] = sorg[t]
        /\ spc[s] = "reserve" /\ spc'[s] \in {"mission", "idle"}
    BY <1>7 DEF SettleReserve, Goto, EndSettle, TypeOK, CallsOK
  <2>2. CASE bal[d]["REVENUE"] < Bounty[o]
    <3>1. spc'[s] = "idle" /\ \A c \in Orgs : bal'[c]["REVENUE"] = bal[c]["REVENUE"]
      BY <1>7, <2>0, <2>2 DEF SettleReserve, EndSettle, TypeOK, CallsOK, money
    <3> QED
      BY <1>1, <2>1, <3>1
  <2>3. CASE ~(bal[d]["REVENUE"] < Bounty[o])
    <3>1. spc'[s] = "mission" /\ sarg'[s] = o /\ sorg'[s] = d
      BY <1>7, <2>0, <2>3 DEF SettleReserve, Goto, TypeOK, CallsOK
    <3>2. ReserveShare(o) \in Nat /\ MissionShare(o) \in Nat /\ MissionShare(o) = Bounty[o] - ReserveShare(o) /\ Bounty[o] \in Nat
      BY ShareBounds, MarketAssumption DEF MissionShare
    <3>3. /\ bal'[d]["REVENUE"] = bal[d]["REVENUE"] - ReserveShare(o)
          /\ \A c \in Orgs : c # d => bal'[c] = bal[c]
      <4>1. CASE ReserveShare(o) = 0
        BY <1>7, <1>r, <2>0, <2>3, <4>1 DEF SettleReserve, money
      <4>2. CASE ReserveShare(o) # 0
        <5>1. Transfer(d, "REVENUE", "SURPLUS_RESERVE", "reserve", o, ReserveShare(o))
          BY <1>7, <2>0, <2>3, <4>2 DEF SettleReserve
        <5> QED
          BY <3>2, <5>1, TransferBalances DEF TypeOK, Accounts
      <4> QED
        BY <4>1, <4>2
    <3>4. /\ Due(d, s) = Bounty[o] /\ Due(d, s)' = MissionShare(o)
          /\ \A c \in Orgs : c # d => Due(c, s) = 0 /\ Due(c, s)' = 0
      BY <2>0, <2>1, <3>1 DEF Due
    <3>5. \A c \in Orgs : /\ Due(c, s)' \in Nat
                          /\ bal'[c]["REVENUE"] - Due(c, s)' >= bal[c]["REVENUE"] - Due(c, s)
      BY <1>r, <3>2, <3>3, <3>4
    <3> QED
      BY <1>r, <2>1, <3>5, RevenueStep
  <2> QED
    BY <2>2, <2>3
<1>8. ASSUME NEW s \in Settlers, SettleMission(s) PROVE RevenueCoversSettlements'
  <2>0. PICK o \in Orders, d \in Orgs : sarg[s] = o /\ sorg[s] = d
    BY <1>8 DEF SettleMission, TypeOK, CallsOK
  <2>1. /\ \A t \in Settlers : t # s => spc'[t] = spc[t] /\ sarg'[t] = sarg[t] /\ sorg'[t] = sorg[t]
        /\ spc[s] = "mission" /\ spc'[s] \in {"event", "idle"}
    BY <1>8 DEF SettleMission, Goto, EndSettle, TypeOK, CallsOK
  <2>2. CASE Transfer(d, "REVENUE", "TREASURY", "mission", o, MissionShare(o))
    <3>1. MissionShare(o) \in Nat
      BY ShareBounds
    <3>2. /\ bal'[d]["REVENUE"] = bal[d]["REVENUE"] - MissionShare(o)
          /\ \A c \in Orgs : c # d => bal'[c] = bal[c]
      BY <2>2, <3>1, TransferBalances DEF TypeOK, Accounts
    <3>3. Due(d, s) = MissionShare(o) /\ \A c \in Orgs : c # d => Due(c, s) = 0
      BY <2>0, <2>1 DEF Due
    <3>4. \A c \in Orgs : Due(c, s)' = 0
      BY <2>1, NothingDue
    <3>5. \A c \in Orgs : /\ Due(c, s)' \in Nat
                          /\ bal'[c]["REVENUE"] - Due(c, s)' >= bal[c]["REVENUE"] - Due(c, s)
      BY <1>r, <3>1, <3>2, <3>3, <3>4
    <3> QED
      BY <1>r, <2>1, <3>5, RevenueStep
  <2>3. CASE UNCHANGED money
    BY <1>1, <2>1, <2>3 DEF money
  <2> QED
    BY <1>8, <2>0, <2>2, <2>3 DEF SettleMission
<1>9. CASE UNCHANGED money
  <2>1. \A c \in Orgs : bal'[c]["REVENUE"] = bal[c]["REVENUE"]
    BY <1>9 DEF money
  <2>2. \/ UNCHANGED settle
        \/ \E s \in Settlers : \/ \E o \in Orders : SettleLoad(s, o)
                               \/ SettleStep(s)
                               \/ EndSettle(s)
    BY DEF Next, PublishStep, ClaimStep, RefundStep, PublishCheck, PublishLock, PublishCreate,
           PublishEscrow, ClaimFind, ClaimGrant, ClaimOrder, RefundLoad, RefundCheck, RefundTransfer,
           RefundEscrowRow, RefundOrderRow, Revoke, Crash
  <2>3. ASSUME NEW s \in Settlers, NEW o \in Orders, SettleLoad(s, o) PROVE RevenueCoversSettlements'
    <3>1. /\ \A t \in Settlers : t # s => spc'[t] = spc[t] /\ sarg'[t] = sarg[t] /\ sorg'[t] = sorg[t]
          /\ spc'[s] = "preflight"
      BY <2>3 DEF SettleLoad, TypeOK, CallsOK
    <3> QED
      BY <1>1, <2>1, <3>1
  <2>4. ASSUME NEW s \in Settlers, EndSettle(s) PROVE RevenueCoversSettlements'
    <3>1. /\ \A t \in Settlers : t # s => spc'[t] = spc[t] /\ sarg'[t] = sarg[t] /\ sorg'[t] = sorg[t]
          /\ spc'[s] = "idle"
      BY <2>4 DEF EndSettle, TypeOK, CallsOK
    <3> QED
      BY <1>1, <2>1, <3>1
  <2>5. ASSUME NEW s \in Settlers, SettleStep(s), ~EndSettle(s), ~SettleRelease(s), ~SettleDeposit(s),
               ~SettleReserve(s), ~SettleMission(s)
        PROVE  RevenueCoversSettlements'
    <3>1. PICK step \in {"work", "verify", "release", "escrowRow", "orderRow"} : Goto(s, step)
      BY <2>5 DEF SettleStep, SettlePreflight, SettleWork, SettleVerify, SettleEvent, SettleEscrowRow,
                  SettleOrderRow
    <3>2. /\ \A t \in Settlers : t # s => spc'[t] = spc[t] /\ sarg'[t] = sarg[t] /\ sorg'[t] = sorg[t]
          /\ spc'[s] \notin {"reserve", "mission"}
      BY <3>1 DEF Goto, TypeOK, CallsOK
    <3> QED
      BY <1>1, <2>1, <3>2
  <2> QED
    BY <1>2, <1>5, <1>6, <1>7, <1>8, <2>1, <2>2, <2>3, <2>4, <2>5
<1> QED
  BY <1>3, <1>4, <1>5, <1>6, <1>7, <1>8, <1>9, MoneySteps

BooksInv == MarketConserved /\ RevenueCoversSettlements

(* What was minted is held or in transit, and REVENUE covers the running     *)
(* settlements.                                                              *)
LEMMA BooksKept == Spec => []BooksInv
<1>1. Init => BooksInv
  <2> SUFFICES ASSUME Init PROVE BooksInv
    OBVIOUS
  <2>1. \A c \in Orgs : Holdings(c) = InitialTreasury[c]
    BY MarketAssumption DEF Init, Holdings, Accounts
  <2>2. [c \in Orgs |-> Holdings(c)] = InitialTreasury
    BY <2>1, MarketAssumption
  <2>3. SumFunction([o \in Orders |-> InTransit(o)]) = 0
    <3> DEFINE f == [o \in Orders |-> InTransit(o)]
    <3>1. f \in [Orders -> Int] /\ \A o \in Orders : f[o] = 0
      BY DEF InTransit, HasEntry, Init
    <3> HIDE DEF f
    <3>2. SumFunction(f) = 0
      BY <3>1, SumZero, MarketAssumption
    <3> QED
      BY <3>2 DEF f
  <2>4. SumFunction(InitialTreasury) \in Nat
    BY MarketAssumption, SumNat
  <2>5. ASSUME NEW c \in Orgs PROVE bal[c]["REVENUE"] >= SumFunction([s \in Settlers |-> Due(c, s)])
    <3> DEFINE f == [s \in Settlers |-> Due(c, s)]
    <3>1. f \in [Settlers -> Int] /\ \A s \in Settlers : f[s] = 0
      BY DEF Due, Init
    <3>2. bal[c]["REVENUE"] = 0
      BY DEF Init, Accounts
    <3> HIDE DEF f
    <3>3. SumFunction(f) = 0
      BY <3>1, SumZero, MarketAssumption
    <3> QED
      BY <3>2, <3>3 DEF f
  <2> QED
    BY <2>2, <2>3, <2>4, <2>5 DEF BooksInv, MarketConserved, RevenueCoversSettlements
<1>2. TypeOK /\ TypeOK' /\ PaidInv /\ BooksInv /\ [Next]_vars => BooksInv'
  <2>1. CASE Next
    BY <2>1, ConservedStep, RevenueCovered DEF BooksInv
  <2>2. CASE UNCHANGED vars
    BY <2>2 DEF vars, money, settle, BooksInv, MarketConserved, RevenueCoversSettlements,
                Holdings, InTransit, HasEntry, Due
  <2> QED
    BY <2>1, <2>2
<1> QED
  BY <1>1, <1>2, PaidInvInductive, PTL DEF Spec

(* As long as nothing has died, whoever released a bounty is about to        *)
(* deposit it or has done so.                                                *)
CarriedInv ==
    crashes = 0 => \A o \in Orders :
        HasEntry("release", o) /\ ~HasEntry("deposit", o) =>
            \E s \in Settlers : spc[s] = "deposit" /\ sarg[s] = o

(* A step that neither books nor leaves a deposit keeps bounties carried.    *)
LEMMA CarriedFrame ==
  ASSUME CarriedInv, crashes' = crashes,
         \A o \in Orders : /\ HasEntry("release", o)' <=> HasEntry("release", o)
                           /\ HasEntry("deposit", o)' <=> HasEntry("deposit", o),
         \A s \in Settlers : spc[s] = "deposit" => spc'[s] = "deposit" /\ sarg'[s] = sarg[s]
  PROVE  CarriedInv'
  BY DEF CarriedInv

(* Every step keeps bounties carried. *)
LEMMA CarriedStep ==
  ASSUME TypeOK, CarriedInv, [Next]_vars
  PROVE  CarriedInv'
<1> USE DEF TypeOK, CallsOK
<1> DEFINE Kept == \A s \in Settlers : spc[s] = "deposit" => spc'[s] = "deposit" /\ sarg'[s] = sarg[s]
           Unpaid == \A o \in Orders : /\ HasEntry("release", o)' <=> HasEntry("release", o)
                                       /\ HasEntry("deposit", o)' <=> HasEntry("deposit", o)
<1>1. ASSUME UNCHANGED <<posted, spc, sarg, crashes>> PROVE CarriedInv'
  BY <1>1, EntriesFrame, CarriedFrame
<1>2. ASSUME NEW o \in Orders, PublishLock(o) PROVE CarriedInv'
  <2>1. posted' = posted \/ posted' = posted \cup {Entry("lock", o)}
    BY <1>2 DEF PublishLock, Transfer, money
  <2>2. Unpaid
    BY <2>1, OtherEntries
  <2>3. Kept /\ crashes' = crashes
    BY <1>2 DEF PublishLock, settle
  <2> QED
    BY <2>2, <2>3, CarriedFrame
<1>3. ASSUME NEW r \in Refunders, RefundTransfer(r) PROVE CarriedInv'
  <2>1. posted' = posted \/ posted' = posted \cup {Entry("refund", rarg[r])}
    BY <1>3 DEF RefundTransfer, Transfer, money
  <2>2. Unpaid
    BY <2>1, OtherEntries
  <2>3. Kept /\ crashes' = crashes
    BY <1>3 DEF RefundTransfer, settle
  <2> QED
    BY <2>2, <2>3, CarriedFrame
<1>4. ASSUME NEW s \in Settlers, SettleReserve(s) PROVE CarriedInv'
  <2>1. posted' = posted \/ posted' = posted \cup {Entry("reserve", sarg[s])}
    BY <1>4 DEF SettleReserve, Transfer, money
  <2>2. Unpaid
    BY <2>1, OtherEntries
  <2>3. Kept /\ crashes' = crashes
    BY <1>4 DEF SettleReserve, Goto, EndSettle
  <2> QED
    BY <2>2, <2>3, CarriedFrame
<1>5. ASSUME NEW s \in Settlers, SettleMission(s) PROVE CarriedInv'
  <2>1. posted' = posted \/ posted' = posted \cup {Entry("mission", sarg[s])}
    BY <1>5 DEF SettleMission, Transfer, money
  <2>2. Unpaid
    BY <2>1, OtherEntries
  <2>3. Kept /\ crashes' = crashes
    BY <1>5 DEF SettleMission, Goto, EndSettle
  <2> QED
    BY <2>2, <2>3, CarriedFrame
<1>6. ASSUME NEW s \in Settlers, SettleRelease(s) PROVE CarriedInv'
  <2>1. CASE posted' = posted
    <3>1. Unpaid
      BY <2>1, EntriesFrame
    <3>2. Kept /\ crashes' = crashes
      BY <1>6 DEF SettleRelease, Goto, EndSettle
    <3> QED
      BY <3>1, <3>2, CarriedFrame
  <2>2. CASE posted' = posted \cup {Entry("release", sarg[s])} /\ Goto(s, "deposit")
    <3>1. \A k2, o2 : HasEntry(k2, o2)' <=> HasEntry(k2, o2) \/ (k2 = "release" /\ o2 = sarg[s])
      BY <2>2, EntryBooked
    <3>2. spc'[s] = "deposit" /\ sarg' = sarg /\ crashes' = crashes
      BY <1>6, <2>2 DEF SettleRelease, Goto
    <3>3. \A t \in Settlers : spc[t] = "deposit" => spc'[t] = "deposit"
      BY <1>6, <2>2 DEF SettleRelease, Goto
    <3> QED
      BY <3>1, <3>2, <3>3 DEF CarriedInv
  <2> QED
    BY <1>6, <2>1, <2>2 DEF SettleRelease, Transfer, money
<1>7. ASSUME NEW s \in Settlers, SettleDeposit(s) PROVE CarriedInv'
  <2>1. \A o2 : /\ HasEntry("release", o2)' <=> HasEntry("release", o2)
                /\ HasEntry("deposit", o2)' <=> HasEntry("deposit", o2) \/ o2 = sarg[s]
    <3>1. CASE posted' = posted /\ HasEntry("deposit", sarg[s])
      BY <3>1, EntriesFrame
    <3>2. CASE posted' = posted \cup {Entry("deposit", sarg[s])}
      <4>1. \A k2, o2 : HasEntry(k2, o2)' <=> HasEntry(k2, o2) \/ (k2 = "deposit" /\ o2 = sarg[s])
        BY <3>2, EntryBooked
      <4> QED
        BY <4>1
    <3>3. \/ posted' = posted /\ HasEntry("deposit", sarg[s])
          \/ posted' = posted \cup {Entry("deposit", sarg[s])}
      BY <1>7 DEF SettleDeposit, Duplicate, Deposit, money
    <3> QED
      BY <3>1, <3>2, <3>3
  <2>2. /\ \A t \in Settlers : t # s => spc'[t] = spc[t] /\ sarg'[t] = sarg[t]
        /\ crashes' = crashes
    BY <1>7 DEF SettleDeposit, Goto, EndSettle
  <2> QED
    BY <2>1, <2>2 DEF CarriedInv
<1>8. ASSUME NEW s \in Settlers, NEW o \in Orders, SettleLoad(s, o) PROVE CarriedInv'
  <2>1. Kept /\ crashes' = crashes /\ posted' = posted
    BY <1>8 DEF SettleLoad, money
  <2> QED
    BY <2>1, EntriesFrame, CarriedFrame
<1>9. ASSUME NEW s \in Settlers,
             \/ SettlePreflight(s) \/ SettleWork(s) \/ SettleVerify(s)
             \/ SettleEvent(s) \/ SettleEscrowRow(s) \/ SettleOrderRow(s)
      PROVE  CarriedInv'
  <2>1. Kept /\ crashes' = crashes /\ posted' = posted
    BY <1>9 DEF SettlePreflight, SettleWork, SettleVerify, SettleEvent, SettleEscrowRow,
                SettleOrderRow, Goto, EndSettle, money
  <2> QED
    BY <2>1, EntriesFrame, CarriedFrame
<1>10. CASE Crash
  BY <1>10 DEF Crash, CarriedInv
<1>11. ASSUME \/ \E o \in Orders : PublishCheck(o) \/ PublishCreate(o) \/ PublishEscrow(o)
              \/ \E c \in Orgs : (\E o \in Orders : ClaimFind(c, o)) \/ ClaimGrant(c) \/ ClaimOrder(c)
              \/ \E r \in Refunders : \/ \E o \in Orders : RefundLoad(r, o)
                                      \/ RefundCheck(r) \/ RefundEscrowRow(r) \/ RefundOrderRow(r)
              \/ \E c \in Orgs : Revoke(c)
              \/ UNCHANGED vars
       PROVE  UNCHANGED <<posted, spc, sarg, crashes>>
  BY <1>11 DEF PublishCheck, PublishCreate, PublishEscrow, ClaimFind, ClaimGrant, ClaimOrder,
               RefundLoad, RefundCheck, RefundEscrowRow, RefundOrderRow, Revoke, vars, money, settle
<1> QED
  BY <1>1, <1>2, <1>3, <1>4, <1>5, <1>6, <1>7, <1>8, <1>9, <1>10, <1>11
     DEF Next, PublishStep, ClaimStep, SettleStep, RefundStep

(* Under any number of concurrent settlements and refunds and any crash, the *)
(* organisations never hold more than was minted; they hold all of it        *)
(* whenever nothing has died and no bounty is on its way; and REVENUE covers *)
(* what the running settlements will divide.                                 *)
THEOREM LedgersAlwaysAccounted == Spec => []LedgersAccounted
<1>1. Init => CarriedInv
  BY DEF Init, CarriedInv, HasEntry
<1>2. TypeOK /\ BooksInv /\ CarriedInv => LedgersAccounted
  <2> SUFFICES ASSUME TypeOK, BooksInv, CarriedInv PROVE LedgersAccounted
    OBVIOUS
  <2> DEFINE f == [o \in Orders |-> InTransit(o)]
  <2>1. f \in [Orders -> Nat] /\ f \in [Orders -> Int]
    BY MarketAssumption DEF InTransit
  <2>2. \A o \in Orders : f[o] = 0 <=> ~(HasEntry("release", o) /\ ~HasEntry("deposit", o))
    BY MarketAssumption DEF InTransit
  <2>3. Total + SumFunction(f) = Minted /\ RevenueCoversSettlements
    BY DEF BooksInv, MarketConserved, Total, Minted
  <2>4. Total \in Nat
    <3> DEFINE g == [c \in Orgs |-> Holdings(c)]
    <3>1. g \in [Orgs -> Nat]
      BY HoldingsNat DEF TypeOK
    <3> HIDE DEF g
    <3>2. SumFunction(g) \in Nat
      BY <3>1, SumNat, MarketAssumption
    <3> QED
      BY <3>2 DEF g, Total
  <2> HIDE DEF f
  <2>5. SumFunction(f) \in Nat
    BY <2>1, SumNat, MarketAssumption
  <2>6. NothingCreated
    BY <2>3, <2>4, <2>5 DEF NothingCreated
  <2>7. NothingLost
    <3> SUFFICES ASSUME crashes = 0, \A s \in Settlers : spc[s] # "deposit"
                 PROVE  Total = Minted
      BY DEF NothingLost
    <3>1. \A o \in Orders : f[o] = 0
      BY <2>2 DEF CarriedInv
    <3>2. SumFunction(f) = 0
      BY <2>1, <3>1, SumZero, MarketAssumption
    <3> QED
      BY <2>3, <2>4, <3>2
  <2> QED
    BY <2>3, <2>6, <2>7 DEF LedgersAccounted
<1> QED
  BY <1>1, <1>2, CarriedStep, MarketTypeInvariant, BooksKept, PTL DEF Spec
=============================================================================
