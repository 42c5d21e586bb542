----------------------------- MODULE Marketplace -----------------------------
(***************************************************************************)
(* The inter-organisation marketplace: B2BMarketplaceCoordinator            *)
(* (src/src/agents/b2b_marketplace_coordinator.py) over                     *)
(* MarketplaceRepository, two organisation-scoped ledgers, the capability   *)
(* manager and SurplusReconciler.  A client locks a bounty in its ESCROW    *)
(* and publishes an order; a provider claims it, works, and is paid; or the *)
(* bounty is refunded.                                                      *)
(*                                                                         *)
(* No call runs in one transaction: every ledger transfer and every row     *)
(* update commits by itself, and no update but the claim checks the row it  *)
(* overwrites.  Each commit, and each read whose result is used after       *)
(* another call could have moved, is a step.  A publication creates a fresh *)
(* order id, so its call is identified with its order.  Deliverables,       *)
(* receipts and work-order rows are left out: no later step reads them.  So *)
(* is the circuit breaker a coordinator may be given (the endpoints give    *)
(* none): it only keeps a publication or a claim from starting, and nothing *)
(* here obliges one to start.                                               *)
(***************************************************************************)
EXTENDS Integers, FiniteSets, Functions

CONSTANTS
    Orgs,              \* organisations, each with a ledger of its own
    Orders,            \* order ids publications will draw
    ClientOf,          \* ClientOf[o]: the organisation that publishes o
    Bounty,            \* Bounty[o]: credits offered for o
    InitialTreasury,   \* InitialTreasury[c]: credits of organisation c
    ReservePercent,    \* share of a surplus that goes to SURPLUS_RESERVE
    Qualified,         \* organisations whose agent scores 0.80 or more
    Settlers,          \* concurrent calls of execute_and_settle
    Refunders,         \* concurrent calls of refund_escrow
    MaxCrashes,        \* bound: calls lost in the middle
    None

ASSUME MarketAssumption ==
    /\ IsFiniteSet(Orgs) /\ IsFiniteSet(Orders) /\ IsFiniteSet(Settlers)
    /\ ClientOf \in [Orders -> Orgs]
    /\ Bounty \in [Orders -> Nat \ {0}]
    /\ InitialTreasury \in [Orgs -> Nat]
    /\ ReservePercent \in 0..100
    /\ Qualified \subseteq Orgs
    /\ MaxCrashes \in Nat
    /\ None \notin Orders \cup Orgs

VARIABLES
    order,      \* order[o]: status column of marketplace_orders, or "absent"
    claimant,   \* claimant[o]: claimed_by_org_id, or None
    escrow,     \* escrow[o]: status column of marketplace_escrows, or "absent"
    posted,     \* ledger entries, each known by its kind and its order
    bal,        \* bal[c][a]: balance of account a of organisation c
    events,     \* events[o]: rows of revenue_events for o's work order
    capable,    \* organisations whose agent holds an ACTIVE, unexpired grant
    pub,        \* pub[o]: the step o's publication is about to take
    cpc, carg,  \* cpc[c], carg[c]: step and order of organisation c's claim
    spc, sarg, sorg, \* step, order and calling organisation of a settlement
    rpc, rarg,  \* step and order of a refund
    crashes

market == <<order, claimant, escrow>>
money  == <<posted, bal>>
claims == <<cpc, carg>>
settle == <<spc, sarg, sorg>>
refund == <<rpc, rarg>>
vars   == <<market, money, events, capable, pub, claims, settle,
            refund, crashes>>

-----------------------------------------------------------------------------
(* The two ledgers.  The lock, release, refund and deposit ids are built    *)
(* from the order id; reserve and mission ids carry a fresh suffix.         *)

Accounts == {"TREASURY", "ESCROW", "EXTERNAL_SINK", "REVENUE", "SURPLUS_RESERVE"}

Entry(k, o)     == [kind |-> k, order |-> o]
HasEntry(k, o)  == Entry(k, o) \in posted

DuplicateIgnored(k, o) == FALSE                                      \* mutant
Duplicate(k, o) == HasEntry(k, o)

CanTransfer(c, from, k, o, amount) ==
    ~Duplicate(k, o) /\ bal[c][from] >= amount

Transfer(c, from, to, k, o, amount) ==
    /\ posted' = posted \cup {Entry(k, o)}
    /\ bal' = [bal EXCEPT ![c][from] = @ - amount, ![c][to] = @ + amount]

(* deposit_revenue mints to REVENUE. *)
Deposit(c, o) ==
    /\ posted' = posted \cup {Entry("deposit", o)}
    /\ bal' = [bal EXCEPT ![c]["REVENUE"] = @ + Bounty[o]]

(* SurplusReconciler: the reserve is rounded down, the mission gets the rest. *)
ReserveShare(o) == (Bounty[o] * ReservePercent) \div 100
MissionShareGross(o) == Bounty[o]                                    \* mutant
MissionShare(o) == Bounty[o] - ReserveShare(o)

-----------------------------------------------------------------------------
(* MarketplaceRepository: each of these is one commit. *)

CreateOrder(o) ==
    order' = IF order[o] = "absent" THEN [order EXCEPT ![o] = "OPEN"] ELSE order

SaveEscrow(o) ==
    escrow' = IF escrow[o] = "absent" THEN [escrow EXCEPT ![o] = "HELD"] ELSE escrow

UpdateOrder(o, status)  == order' = [order EXCEPT ![o] = status]
UpdateEscrow(o, status) == escrow' = [escrow EXCEPT ![o] = status]

OpenOrders == {o \in Orders : order[o] = "OPEN"}

TakeClaimUnconditionally(c, o) ==                                    \* mutant
    /\ order' = [order EXCEPT ![o] = "CLAIMED"]
    /\ claimant' = [claimant EXCEPT ![o] = c]

(* claim_order: UPDATE ... WHERE status = 'OPEN'. *)
TakeClaim(c, o) ==
    IF order[o] = "OPEN"
    THEN /\ order' = [order EXCEPT ![o] = "CLAIMED"]
         /\ claimant' = [claimant EXCEPT ![o] = c]
    ELSE UNCHANGED <<order, claimant>>

HasCapability(c) == c \in capable

(* CapabilityEvolutionRule, as CapabilityManager puts it to the policy      *)
(* engine: an independent supervisor proposes an agent of its own           *)
(* organisation, so what decides is the agent's score.                      *)
MayExpand(c) == c \in Qualified

-----------------------------------------------------------------------------
(* publish_b2b_order *)

At(o, here, next) == pub[o] = here /\ pub' = [pub EXCEPT ![o] = next]

(* Policy: the client's treasury covers the bounty. *)
PublishCheck(o) ==
    /\ bal[ClientOf[o]]["TREASURY"] >= Bounty[o]
    /\ At(o, "new", "lock")
    /\ UNCHANGED <<market, money, events, capable, claims, settle,
                   refund, crashes>>

(* The lock; a treasury spent meanwhile makes the ledger raise. *)
PublishLock(o) ==
    /\ IF CanTransfer(ClientOf[o], "TREASURY", "lock", o, Bounty[o])
       THEN /\ Transfer(ClientOf[o], "TREASURY", "ESCROW", "lock", o, Bounty[o])
            /\ At(o, "lock", "create")
       ELSE At(o, "lock", "over") /\ UNCHANGED money
    /\ UNCHANGED <<market, events, capable, claims, settle, refund,
                   crashes>>

PublishCreate(o) ==
    /\ At(o, "create", "escrow")
    /\ CreateOrder(o)
    /\ UNCHANGED <<claimant, escrow, money, events, capable, claims,
                   settle, refund, crashes>>

PublishEscrow(o) ==
    /\ At(o, "escrow", "over")
    /\ SaveEscrow(o)
    /\ UNCHANGED <<order, claimant, money, events, capable, claims,
                   settle, refund, crashes>>

-----------------------------------------------------------------------------
(* discover_and_claim, called by organisation c *)

GoClaim(c, step, o) == /\ cpc' = [cpc EXCEPT ![c] = step]
                       /\ carg' = [carg EXCEPT ![c] = o]

(* An OPEN order of somebody else, then the agent's capability: held        *)
(* already, or worth proposing because of its score.                        *)
ClaimFind(c, o) ==
    /\ cpc[c] = "idle"
    /\ o \in OpenOrders
    /\ ClientOf[o] # c
    /\ \/ HasCapability(c) /\ GoClaim(c, "cas", o)
       \/ ~HasCapability(c) /\ MayExpand(c) /\ GoClaim(c, "grant", o)
    /\ UNCHANGED <<market, money, events, capable, pub, settle, refund,
                   crashes>>

(* CapabilityManager.evaluate_and_grant, once policy approves. *)
ClaimGrant(c) ==
    /\ cpc[c] = "grant"
    /\ capable' = capable \cup {c}
    /\ GoClaim(c, "cas", carg[c])
    /\ UNCHANGED <<market, money, events, pub, settle, refund, crashes>>

ClaimOrder(c) ==
    /\ cpc[c] = "cas"
    /\ TakeClaim(c, carg[c])
    /\ GoClaim(c, "idle", None)
    /\ UNCHANGED <<escrow, money, events, capable, pub, settle, refund,
                   crashes>>

-----------------------------------------------------------------------------
(* execute_and_settle *)

Goto(s, step)   == spc' = [spc EXCEPT ![s] = step] /\ UNCHANGED <<sarg, sorg>>
EndSettle(s)    == /\ spc'  = [spc EXCEPT ![s] = "idle"]
                   /\ sarg' = [sarg EXCEPT ![s] = None]
                   /\ sorg' = [sorg EXCEPT ![s] = None]

(* The endpoint loads the order; it must be CLAIMED, by the caller. *)
SettleLoad(s, o) ==
    /\ spc[s] = "idle"
    /\ order[o] = "CLAIMED"
    /\ spc'  = [spc EXCEPT ![s] = "preflight"]
    /\ sarg' = [sarg EXCEPT ![s] = o]
    /\ sorg' = [sorg EXCEPT ![s] = claimant[o]]
    /\ UNCHANGED <<market, money, events, capable, pub, claims, refund,
                   crashes>>

(* The escrow must be HELD and the agent's capability unrevoked. *)
SettlePreflight(s) ==
    /\ spc[s] = "preflight"
    /\ IF escrow[sarg[s]] = "HELD" /\ HasCapability(sorg[s])
       THEN Goto(s, "work") ELSE EndSettle(s)
    /\ UNCHANGED <<market, money, events, capable, pub, claims, refund,
                   crashes>>

(* The executor delivers, or raises for want of compute credits. *)
SettleWork(s) ==
    /\ spc[s] = "work"
    /\ Goto(s, "verify") \/ EndSettle(s)
    /\ UNCHANGED <<market, money, events, capable, pub, claims, refund,
                   crashes>>

(* WorkDeliverableVerifier signs an ACCEPTED receipt, or a REJECTED one. *)
SettleVerify(s) ==
    /\ spc[s] = "verify"
    /\ Goto(s, "release") \/ EndSettle(s)
    /\ UNCHANGED <<market, money, events, capable, pub, claims, refund,
                   crashes>>

SettleReleaseIgnoresFailure(s) ==                                    \* mutant
    LET o == sarg[s] IN
    /\ spc[s] = "release"
    /\ Goto(s, "deposit")
    /\ IF CanTransfer(ClientOf[o], "ESCROW", "release", o, Bounty[o])
       THEN Transfer(ClientOf[o], "ESCROW", "EXTERNAL_SINK", "release", o, Bounty[o])
       ELSE UNCHANGED money
    /\ UNCHANGED <<market, events, capable, pub, claims, refund, crashes>>

SettleRelease(s) ==
    LET o == sarg[s] IN
    /\ spc[s] = "release"
    /\ IF CanTransfer(ClientOf[o], "ESCROW", "release", o, Bounty[o])
       THEN /\ Transfer(ClientOf[o], "ESCROW", "EXTERNAL_SINK", "release", o, Bounty[o])
            /\ Goto(s, "deposit")
       ELSE EndSettle(s) /\ UNCHANGED money
    /\ UNCHANGED <<market, events, capable, pub, claims, refund, crashes>>

(* The deposit's id is UNIQUE: a second one raises. *)
SettleDeposit(s) ==
    LET o == sarg[s] IN
    /\ spc[s] = "deposit"
    /\ IF Duplicate("deposit", o)
       THEN EndSettle(s) /\ UNCHANGED money
       ELSE Deposit(sorg[s], o) /\ Goto(s, "reserve")
    /\ UNCHANGED <<market, events, capable, pub, claims, refund, crashes>>

(* reconcile_surplus: REVENUE must still hold the gross amount; then the    *)
(* reserve share, if any, and the mission share leave it.                   *)
SettleReserve(s) ==
    LET o == sarg[s] IN
    /\ spc[s] = "reserve"
    /\ IF bal[sorg[s]]["REVENUE"] < Bounty[o] THEN EndSettle(s) /\ UNCHANGED money
       ELSE /\ Goto(s, "mission")
            /\ IF ReserveShare(o) = 0 THEN UNCHANGED money
               ELSE Transfer(sorg[s], "REVENUE", "SURPLUS_RESERVE", "reserve", o, ReserveShare(o))
    /\ UNCHANGED <<market, events, capable, pub, claims, refund, crashes>>

SettleMission(s) ==
    LET o == sarg[s] IN
    /\ spc[s] = "mission"
    /\ IF MissionShare(o) = 0 THEN Goto(s, "event") /\ UNCHANGED money
       ELSE IF bal[sorg[s]]["REVENUE"] < MissionShare(o)
       THEN EndSettle(s) /\ UNCHANGED money
       ELSE /\ Transfer(sorg[s], "REVENUE", "TREASURY", "mission", o, MissionShare(o))
            /\ Goto(s, "event")
    /\ UNCHANGED <<market, events, capable, pub, claims, refund, crashes>>

SettleEvent(s) ==
    /\ spc[s] = "event"
    /\ events' = [events EXCEPT ![sarg[s]] = @ + 1]
    /\ Goto(s, "escrowRow")
    /\ UNCHANGED <<market, money, capable, pub, claims, refund, crashes>>

SettleEscrowRow(s) ==
    /\ spc[s] = "escrowRow"
    /\ UpdateEscrow(sarg[s], "RELEASED")
    /\ Goto(s, "orderRow")
    /\ UNCHANGED <<order, claimant, money, events, capable, pub,
                   claims, refund, crashes>>

SettleOrderRow(s) ==
    /\ spc[s] = "orderRow"
    /\ UpdateOrder(sarg[s], "COMPLETED")
    /\ EndSettle(s)
    /\ UNCHANGED <<claimant, escrow, money, events, capable, pub,
                   claims, refund, crashes>>

-----------------------------------------------------------------------------
(* refund_escrow *)

GoRefund(r, step, o) == /\ rpc' = [rpc EXCEPT ![r] = step]
                        /\ rarg' = [rarg EXCEPT ![r] = o]

(* The order exists and is not COMPLETED. *)
RefundLoad(r, o) ==
    /\ rpc[r] = "idle"
    /\ order[o] \notin {"absent", "COMPLETED"}
    /\ GoRefund(r, "check", o)
    /\ UNCHANGED <<market, money, events, capable, pub, claims, settle,
                   crashes>>

RefundCheck(r) ==
    /\ rpc[r] = "check"
    /\ IF escrow[rarg[r]] = "HELD" THEN GoRefund(r, "transfer", rarg[r])
                                   ELSE GoRefund(r, "idle", None)
    /\ UNCHANGED <<market, money, events, capable, pub, claims, settle,
                   crashes>>

RefundTransfer(r) ==
    LET o == rarg[r] IN
    /\ rpc[r] = "transfer"
    /\ IF CanTransfer(ClientOf[o], "ESCROW", "refund", o, Bounty[o])
       THEN /\ Transfer(ClientOf[o], "ESCROW", "TREASURY", "refund", o, Bounty[o])
            /\ GoRefund(r, "escrowRow", o)
       ELSE GoRefund(r, "idle", None) /\ UNCHANGED money
    /\ UNCHANGED <<market, events, capable, pub, claims, settle, crashes>>

RefundEscrowRow(r) ==
    /\ rpc[r] = "escrowRow"
    /\ UpdateEscrow(rarg[r], "REFUNDED")
    /\ GoRefund(r, "orderRow", rarg[r])
    /\ UNCHANGED <<order, claimant, money, events, capable, pub,
                   claims, settle, crashes>>

RefundOrderRow(r) ==
    /\ rpc[r] = "orderRow"
    /\ UpdateOrder(rarg[r], "CANCELLED")
    /\ GoRefund(r, "idle", None)
    /\ UNCHANGED <<claimant, escrow, money, events, capable, pub,
                   claims, settle, crashes>>

-----------------------------------------------------------------------------
(* Operators of the platform, and failures *)

(* revoke_capability, or the seven days of a grant run out. *)
Revoke(c) ==
    /\ c \in capable
    /\ capable' = capable \ {c}
    /\ UNCHANGED <<market, money, events, pub, claims, settle, refund,
                   crashes>>

(* The process running a call dies; what it committed stays. *)
Crash ==
    /\ crashes < MaxCrashes
    /\ crashes' = crashes + 1
    /\ \/ /\ \E o \in Orders : pub[o] \notin {"new", "over"}
                               /\ pub' = [pub EXCEPT ![o] = "over"]
          /\ UNCHANGED <<claims, settle, refund>>
       \/ /\ \E c \in Orgs : cpc[c] # "idle" /\ GoClaim(c, "idle", None)
          /\ UNCHANGED <<pub, settle, refund>>
       \/ /\ \E s \in Settlers : spc[s] # "idle" /\ EndSettle(s)
          /\ UNCHANGED <<pub, claims, refund>>
       \/ /\ \E r \in Refunders : rpc[r] # "idle" /\ GoRefund(r, "idle", None)
          /\ UNCHANGED <<pub, claims, settle>>
    /\ UNCHANGED <<market, money, events, capable>>

-----------------------------------------------------------------------------
Init ==
    /\ order = [o \in Orders |-> "absent"]
    /\ claimant = [o \in Orders |-> None]
    /\ escrow = [o \in Orders |-> "absent"]
    /\ posted = {}
    /\ bal = [c \in Orgs |-> [a \in Accounts |->
                IF a = "TREASURY" THEN InitialTreasury[c] ELSE 0]]
    /\ events = [o \in Orders |-> 0]
    /\ capable = {}
    /\ pub = [o \in Orders |-> "new"]
    /\ cpc = [c \in Orgs |-> "idle"]
    /\ carg = [c \in Orgs |-> None]
    /\ spc = [s \in Settlers |-> "idle"]
    /\ sarg = [s \in Settlers |-> None]
    /\ sorg = [s \in Settlers |-> None]
    /\ rpc = [r \in Refunders |-> "idle"]
    /\ rarg = [r \in Refunders |-> None]
    /\ crashes = 0

PublishStep(o) == PublishLock(o) \/ PublishCreate(o) \/ PublishEscrow(o)

ClaimStep(c) == ClaimGrant(c) \/ ClaimOrder(c)

SettleStep(s) ==
    \/ SettlePreflight(s) \/ SettleWork(s) \/ SettleVerify(s)
    \/ SettleRelease(s) \/ SettleDeposit(s) \/ SettleReserve(s)
    \/ SettleMission(s) \/ SettleEvent(s) \/ SettleEscrowRow(s) \/ SettleOrderRow(s)

RefundStep(r) ==
    \/ RefundCheck(r) \/ RefundTransfer(r)
    \/ RefundEscrowRow(r) \/ RefundOrderRow(r)

Next ==
    \/ \E o \in Orders : PublishCheck(o) \/ PublishStep(o)
    \/ \E c \in Orgs : (\E o \in Orders : ClaimFind(c, o)) \/ ClaimStep(c)
    \/ \E s \in Settlers : (\E o \in Orders : SettleLoad(s, o)) \/ SettleStep(s)
    \/ \E r \in Refunders : (\E o \in Orders : RefundLoad(r, o)) \/ RefundStep(r)
    \/ \E c \in Orgs : Revoke(c)
    \/ Crash

Spec == Init /\ [][Next]_vars

-----------------------------------------------------------------------------
(* Properties *)

PublishSteps == {"new", "lock", "create", "escrow", "over"}
ClaimSteps   == {"idle", "grant", "cas"}
SettleSteps  == {"idle", "preflight", "work", "verify", "release", "deposit",
                 "reserve", "mission", "event", "escrowRow", "orderRow"}
RefundSteps  == {"idle", "check", "transfer", "escrowRow", "orderRow"}
Kinds        == {"lock", "release", "refund", "deposit", "reserve", "mission"}

RowsOK ==
    /\ order \in [Orders -> {"absent", "OPEN", "CLAIMED", "COMPLETED", "CANCELLED"}]
    /\ claimant \in [Orders -> Orgs \cup {None}]
    /\ \A o \in Orders : order[o] = "CLAIMED" => claimant[o] # None
    /\ escrow \in [Orders -> {"absent", "HELD", "RELEASED", "REFUNDED"}]
    /\ events \in [Orders -> Nat]
    /\ capable \subseteq Orgs

LedgerOK ==
    /\ posted \subseteq [kind : Kinds, order : Orders]
    /\ bal \in [Orgs -> [Accounts -> Nat]]

CallsOK ==
    /\ pub \in [Orders -> PublishSteps]
    /\ cpc \in [Orgs -> ClaimSteps]
    /\ carg \in [Orgs -> Orders \cup {None}]
    /\ \A c \in Orgs : carg[c] = None <=> cpc[c] = "idle"
    /\ spc \in [Settlers -> SettleSteps]
    /\ sarg \in [Settlers -> Orders \cup {None}]
    /\ sorg \in [Settlers -> Orgs \cup {None}]
    /\ \A s \in Settlers : /\ sarg[s] = None <=> spc[s] = "idle"
                           /\ sorg[s] = None <=> spc[s] = "idle"
    /\ rpc \in [Refunders -> RefundSteps]
    /\ rarg \in [Refunders -> Orders \cup {None}]
    /\ \A r \in Refunders : rarg[r] = None <=> rpc[r] = "idle"
    /\ crashes \in 0..MaxCrashes

(* Every column has a legal value, no balance is negative, and a call names *)
(* an order exactly while it runs.                                          *)
TypeOK == RowsOK /\ LedgerOK /\ CallsOK

(* A provider is credited only out of a bounty its client has paid: the     *)
(* deposit mints, so nothing in the provider's ledger would notice.         *)
PayoutBacked ==
    \A o \in Orders : HasEntry("deposit", o) => HasEntry("release", o)

(* COMPLETED is the last write: such an order is paid, its surplus is       *)
(* allocated, and one revenue event records it (scan_unreconciled_revenue   *)
(* in persistence/recovery.py finds nothing), whatever crashed or raced.    *)
CompletedIsPaid ==
    \A o \in Orders : order[o] = "COMPLETED" =>
        /\ HasEntry("release", o)
        /\ HasEntry("deposit", o)
        /\ MissionShare(o) > 0 => HasEntry("mission", o)
        /\ events[o] = 1

Holdings(c) == bal[c]["TREASURY"] + bal[c]["ESCROW"] + bal[c]["REVENUE"]
                 + bal[c]["SURPLUS_RESERVE"]
Total       == SumFunction([c \in Orgs |-> Holdings(c)])
Minted      == SumFunction(InitialTreasury)

(* The deposit mints on the provider's ledger what the release burnt on the *)
(* client's: whatever overlaps or dies, no credit is made of nothing.       *)
NothingCreated == Total <= Minted

(* As long as every call runs to its end no credit is lost either, between  *)
(* a release and its deposit aside.                                         *)
NothingLost ==
    crashes = 0 /\ (\A s \in Settlers : spc[s] # "deposit") => Total = Minted

(* What settlement s still has to take out of the REVENUE of organisation c. *)
Due(c, s) ==
    IF sorg[s] # c THEN 0
    ELSE IF spc[s] = "reserve" THEN Bounty[sarg[s]]
    ELSE IF spc[s] = "mission" THEN MissionShare(sarg[s]) ELSE 0

(* Settlements of one provider share its REVENUE account; each finds there  *)
(* what it deposited, so reconcile_surplus never runs short.                *)
RevenueCoversSettlements ==
    \A c \in Orgs : bal[c]["REVENUE"] >= SumFunction([s \in Settlers |-> Due(c, s)])

(* An order is claimed once, from OPEN: a second provider, or one that      *)
(* found the order before it was cancelled, gets nothing.                   *)
ClaimedOnce ==
    [][\A o \in Orders : claimant'[o] # claimant[o] =>
          /\ claimant[o] = None
          /\ order[o] = "OPEN"]_vars

(* The ledgers of all organisations account for every credit, the REVENUE   *)
(* that running settlements are about to divide included, up to what a      *)
(* crash destroys (CrashConserves).                                         *)
LedgersAccounted == NothingCreated /\ NothingLost /\ RevenueCoversSettlements

(* "No credits may be created, leaked, or destroyed across a crash or       *)
(* recovery cycle" (docs/disaster_recovery.md:18): when no settlement is at *)
(* work, all organisations together hold what was minted.  It fails: a      *)
(* settlement that dies between the client's release and the provider's     *)
(* deposit leaves an entry that its retry can only trip over.               *)
CrashConserves == (\A s \in Settlers : spc[s] = "idle") => Total = Minted
=============================================================================
