---------------------------- MODULE OrbioPurchase ----------------------------
(***************************************************************************)
(* The governed purchase of Orbio CREDIT: OrbioPurchaseAgentLoop            *)
(* (src/src/agents/orbio_purchase_loop.py) with the policy, bridge,         *)
(* exchange, verifier and reconciliation it is given.  The agents of one    *)
(* organisation share its ledger, its USDG balance at the exchange and the  *)
(* policy's register of human approvals; each has a loop object of its own, *)
(* which lives in memory and dies with its process.                         *)
(*                                                                         *)
(* step() is one call, cut here where another agent or the operator can     *)
(* come between: after the policy decision, the treasury preflight, the     *)
(* escrow, the exchange and the status query.  An intent is identified by   *)
(* its agent and iteration: operation id, idempotency key and hash are all  *)
(* functions of the two and of amounts fixed when it is proposed.           *)
(***************************************************************************)
EXTENDS Integers, FiniteSets, FiniteSetsExt

CONSTANTS
    Agents,             \* purchasing agents of one organisation
    Target,             \* Target[a]: target_credit of a's mission
    Cleared,            \* agents whose deployment, beneficiary and gas are allowed
    MaxIterations,      \* max_iterations of a loop
    MaxCumulative,      \* max_cumulative_usdg of a loop
    MaxSingle,          \* max_single_usdg of a loop
    AutonomousCeiling,  \* above it a purchase needs a human
    AbsoluteCeiling,    \* above it a purchase is denied
    Unit,               \* native USDG units per organisation credit
    ExpectedFill,       \* basis points the loop sizes its proposals with
    FillRates,          \* basis points the exchange may fill at
    InitialTreasury,    \* organisation credits
    InitialUsdg,        \* the organisation's USDG at the exchange
    MaxApprovals,       \* bound: human approvals issued
    MaxCrashes          \* bound: loops lost with their process

ASSUME PurchaseAssumption ==
    /\ IsFiniteSet(Agents) /\ Target \in [Agents -> Nat]
    /\ Cleared \subseteq Agents
    /\ MaxIterations \in Nat /\ MaxCumulative \in Nat /\ MaxSingle \in Nat
    /\ AutonomousCeiling \in Nat /\ AbsoluteCeiling \in Nat
    /\ AutonomousCeiling <= AbsoluteCeiling
    /\ Unit \in Nat \ {0}
    /\ ExpectedFill \in 1..10000
    /\ FillRates \subseteq 0..10000
    /\ InitialTreasury \in Nat /\ InitialUsdg \in Nat
    /\ MaxApprovals \in Nat /\ MaxCrashes \in Nat

VARIABLES
    status,     \* status[a]: LoopStatus, or "CRASHED"
    pc,         \* pc[a]: the part of step() that a is about to run
    iter,       \* iter[a]: loop_iteration
    usdgIn,     \* usdgIn[k]: usdg_in of intent k, 0 before it is proposed
    acquired,   \* acquired[a]: acquired_credit
    spent,      \* spent[a]: cumulative_usdg_spent
    completed,  \* completed[a]: iterations whose intent hash is recorded as done
    approval,   \* approval[a]: number of _pending_approval, 0 for None
    approvals,  \* approvals[n]: the policy's register
    posted,     \* ledger entries, known by kind and intent
    bal,        \* balances of the organisation's ledger
    rec,        \* rec[k]: the exchange's record for intent k's key
    usdg,       \* the organisation's USDG at the exchange
    crashes

loop   == <<status, pc, iter, usdgIn, acquired, spent, completed, approval>>
ledger == <<posted, bal>>
market == <<rec, usdg>>
vars   == <<loop, approvals, ledger, market, crashes>>

-----------------------------------------------------------------------------
(* Amounts (step, _usdg_for_credit_need, propose_purchase) *)

Intents == Agents \X (1..MaxIterations)
Key(a)  == <<a, iter[a]>>

UsdgForCreditNeed(need) == (need * 10000 + ExpectedFill - 1) \div ExpectedFill
Need(a)      == Max({0, Target[a] - acquired[a]})

RemainingUnchecked(a) == MaxCumulative                                \* mutant
Remaining(a) == MaxCumulative - spent[a]

ProposedUsdg(a) == Min({UsdgForCreditNeed(Need(a)), MaxSingle, Remaining(a)})
MinCreditOut(u) == Max({1, (u * 90) \div 100})
Amount(u)       == Max({1, u \div Unit})

ObjectiveMet(a) == acquired[a] >= Target[a] /\ completed[a] # {}

-----------------------------------------------------------------------------
(* OrbioPurchasePolicy.  The register keeps, per approval id, the intent it *)
(* is bound to; a revoked or expired approval is never good again.          *)

NoApproval == [state |-> "unissued", intent |-> <<>>]

ValidFor(n, k) == approvals[n].state = "issued" /\ approvals[n].intent = k

(* The deployment tuple, beneficiary, fills and gas are the same for every  *)
(* intent of a loop.                                                        *)
Permitted(a) == a \in Cleared

(* evaluate: hard bounds first, then the band that needs a human. *)
Evaluate(a, k, u, n) ==
    IF ~Permitted(a) \/ u > AbsoluteCeiling \/ MinCreditOut(u) > u THEN "DENY"
    ELSE IF u <= AutonomousCeiling THEN "ALLOW"
    ELSE IF n = 0 THEN "HUMAN_CONFIRMATION_REQUIRED"
    ELSE IF ValidFor(n, k) THEN "ALLOW" ELSE "DENY"

Issued == {n \in 1..MaxApprovals : approvals[n].state # "unissued"}

(* An operator approves the intent a waiting loop shows. *)
IssueApproval(a) ==
    LET n == Cardinality(Issued) + 1 IN
    /\ status[a] = "WAITING_HUMAN"
    /\ n <= MaxApprovals
    /\ approvals' = [approvals EXCEPT ![n] = [state |-> "issued", intent |-> Key(a)]]
    /\ UNCHANGED <<loop, ledger, market, crashes>>

RevokeApproval(n) ==
    /\ approvals[n].state = "issued"
    /\ approvals' = [approvals EXCEPT ![n].state = "revoked"]
    /\ UNCHANGED <<loop, ledger, market, crashes>>

ExpireApproval(n) ==
    /\ approvals[n].state = "issued"
    /\ approvals' = [approvals EXCEPT ![n].state = "expired"]
    /\ UNCHANGED <<loop, ledger, market, crashes>>

(* supply_human_approval takes whatever approval it is handed. *)
SupplyApproval(a, n) ==
    /\ status[a] = "WAITING_HUMAN" /\ pc[a] = "idle"
    /\ n \in Issued
    /\ approval' = [approval EXCEPT ![a] = n]
    /\ UNCHANGED <<status, pc, iter, usdgIn, acquired, spent, completed,
                   approvals, ledger, market, crashes>>

-----------------------------------------------------------------------------
(* The ledger.  Each transaction id is built from the operation id. *)

Entry(kind, k)    == [kind |-> kind, intent |-> k]
HasEntry(kind, k) == Entry(kind, k) \in posted

Transfer(from, to, kind, k) ==
    LET n == Amount(usdgIn[k]) IN
    /\ posted' = posted \cup {Entry(kind, k)}
    /\ bal' = [bal EXCEPT ![from] = @ - n, ![to] = @ + n]

(* Settlement and refund check the ESCROW balance and are skipped silently  *)
(* when it is short.  The check and the transfer are one step: every agent  *)
(* takes out only what it put in, so nothing can come between that matters. *)
FromEscrow(to, kind, k) ==
    IF bal["ESCROW"] >= Amount(usdgIn[k]) THEN Transfer("ESCROW", to, kind, k)
                                          ELSE UNCHANGED ledger

-----------------------------------------------------------------------------
(* step() in status READY *)

Running(a) == status[a] = "READY" /\ pc[a] = "idle" /\ ~ObjectiveMet(a)

Limit(a) ==
    IF iter[a] >= MaxIterations THEN "STOPPED_ITERATION_LIMIT"
    ELSE IF spent[a] >= MaxCumulative THEN "STOPPED_SPEND_LIMIT"
    ELSE IF Need(a) = 0 THEN "OBJECTIVE_COMPLETE"
    ELSE IF ProposedUsdg(a) = 0 THEN "STOPPED_SPEND_LIMIT"
    ELSE "none"

Stop(a) ==
    /\ Running(a)
    /\ Limit(a) # "none"
    /\ status' = [status EXCEPT ![a] = Limit(a)]
    /\ UNCHANGED <<pc, iter, usdgIn, acquired, spent, completed, approval,
                   approvals, ledger, market, crashes>>

(* A new intent, and the policy's decision on it with whatever approval the *)
(* loop still holds.  The intent is new, so the duplicate check on          *)
(* completed_intent_hashes never fires.                                     *)
Propose(a) ==
    LET k == <<a, iter[a] + 1>>
        u == ProposedUsdg(a)
        d == Evaluate(a, k, u, approval[a])
    IN
    /\ Running(a)
    /\ Limit(a) = "none"
    /\ iter' = [iter EXCEPT ![a] = @ + 1]
    /\ usdgIn' = [usdgIn EXCEPT ![k] = u]
    /\ \/ /\ d = "ALLOW"
          /\ pc' = [pc EXCEPT ![a] = "preflight"]
          /\ UNCHANGED status
       \/ /\ d = "HUMAN_CONFIRMATION_REQUIRED"
          /\ status' = [status EXCEPT ![a] = "WAITING_HUMAN"]
          /\ UNCHANGED pc
       \/ /\ d = "DENY"
          /\ status' = [status EXCEPT ![a] = "STOPPED_POLICY_DENY"]
          /\ UNCHANGED pc
    /\ UNCHANGED <<acquired, spent, completed, approval, approvals, ledger,
                   market, crashes>>

(* _handle_waiting_human: the pending intent is evaluated again; an         *)
(* approval that does not fit is dropped and the loop waits on.             *)
Resume(a) ==
    /\ status[a] = "WAITING_HUMAN" /\ pc[a] = "idle"
    /\ approval[a] # 0
    /\ IF Evaluate(a, Key(a), usdgIn[Key(a)], approval[a]) = "ALLOW"
       THEN /\ status' = [status EXCEPT ![a] = "READY"]
            /\ pc' = [pc EXCEPT ![a] = "preflight"]
            /\ UNCHANGED approval
       ELSE /\ approval' = [approval EXCEPT ![a] = 0]
            /\ UNCHANGED <<status, pc>>
    /\ UNCHANGED <<iter, usdgIn, acquired, spent, completed, approvals, ledger,
                   market, crashes>>

-----------------------------------------------------------------------------
(* _execute_authorized *)

(* The treasury must cover the escrow ... *)
Preflight(a) ==
    /\ pc[a] = "preflight"
    /\ IF bal["TREASURY"] < Amount(usdgIn[Key(a)])
       THEN /\ status' = [status EXCEPT ![a] = "STOPPED_SPEND_LIMIT"]
            /\ pc' = [pc EXCEPT ![a] = "idle"]
       ELSE pc' = [pc EXCEPT ![a] = "escrow"] /\ UNCHANGED status
    /\ UNCHANGED <<iter, usdgIn, acquired, spent, completed, approval,
                   approvals, ledger, market, crashes>>

(* ... and still does when the ledger transfers, or step() raises and       *)
(* leaves the loop READY with its iteration used up.                        *)
Escrow(a) ==
    /\ pc[a] = "escrow"
    /\ IF bal["TREASURY"] >= Amount(usdgIn[Key(a)])
       THEN /\ Transfer("TREASURY", "ESCROW", "esc", Key(a))
            /\ pc' = [pc EXCEPT ![a] = "execute"]
       ELSE pc' = [pc EXCEPT ![a] = "idle"] /\ UNCHANGED ledger
    /\ UNCHANGED <<status, iter, usdgIn, acquired, spent, completed, approval,
                   approvals, market, crashes>>

-----------------------------------------------------------------------------
(* The exchange: one record per idempotency key.  A loop never sends a key  *)
(* twice, so replay is not needed here.                                     *)

NoRecord == [outcome |-> "none", usdg |-> 0, credit |-> 0]
Failed   == [outcome |-> "FAILURE", usdg |-> 0, credit |-> 0]

CreditOut(u, f) == (u * f) \div 10000

(* Economic preflight, then the fill. *)
Fill(u, f) ==
    IF usdg < u \/ CreditOut(u, f) < MinCreditOut(u) THEN Failed
    ELSE [outcome |-> "SUCCESS", usdg |-> u, credit |-> CreditOut(u, f)]

Record(k, r) == /\ rec' = [rec EXCEPT ![k] = r]
                /\ usdg' = usdg - r.usdg

TimeoutIsFailure(a) ==                                                \* mutant
    /\ \E r \in {Fill(usdgIn[Key(a)], f) : f \in FillRates} \cup {Failed, NoRecord} :
          Record(Key(a), r)
    /\ pc' = [pc EXCEPT ![a] = "refund"]
    /\ UNCHANGED status

(* The answer is lost; the exchange settled, failed, or never took it. *)
Timeout(a) ==
    /\ \E r \in {Fill(usdgIn[Key(a)], f) : f \in FillRates} \cup {Failed, NoRecord} :
          Record(Key(a), r)
    /\ pc' = [pc EXCEPT ![a] = "idle"]
    /\ status' = [status EXCEPT ![a] = "WAITING_RECONCILE"]

Answer(a) ==
    \E r \in {Fill(usdgIn[Key(a)], f) : f \in FillRates} \cup {Failed} :
       /\ Record(Key(a), r)
       /\ pc' = [pc EXCEPT ![a] = IF r.outcome = "SUCCESS" THEN "settle" ELSE "refund"]
       /\ UNCHANGED status

Execute(a) ==
    /\ pc[a] = "execute"
    /\ Answer(a) \/ Timeout(a)
    /\ UNCHANGED <<iter, usdgIn, acquired, spent, completed, approval,
                   approvals, ledger, crashes>>

-----------------------------------------------------------------------------
(* OrbioPurchaseVerifier.  Evidence is read from the exchange's answer      *)
(* alone, never filled in from the intent; it is bound to the intent by its *)
(* hash and must show exactly the authorised USDG, at least the minimum     *)
(* CREDIT and an activation, which every SUCCESS record has.                *)

Evidence(k) == [usdg |-> rec[k].usdg, credit |-> rec[k].credit]

Verdict(k) ==
    IF rec[k].outcome = "none" THEN "PENDING_EVIDENCE"
    ELSE IF /\ rec[k].outcome = "SUCCESS"
            /\ Evidence(k).usdg = usdgIn[k]
            /\ Evidence(k).credit >= MinCreditOut(usdgIn[k])
    THEN "VERIFIED" ELSE "REJECTED"

(* What a verified purchase changes in the loop's state. *)
CountCreditAsUsdg(a, k) ==                                            \* mutant
    /\ acquired' = [acquired EXCEPT ![a] = @ + rec[k].credit]
    /\ spent' = [spent EXCEPT ![a] = @ + rec[k].credit]
    /\ completed' = [completed EXCEPT ![a] = @ \cup {k[2]}]
    /\ status' = [status EXCEPT ![a] =
          IF acquired'[a] >= Target[a] THEN "OBJECTIVE_COMPLETE" ELSE "READY"]

Count(a, k) ==
    /\ acquired' = [acquired EXCEPT ![a] = @ + Evidence(k).credit]
    /\ spent' = [spent EXCEPT ![a] = @ + Evidence(k).usdg]
    /\ completed' = [completed EXCEPT ![a] = @ \cup {k[2]}]
    /\ status' = [status EXCEPT ![a] =
          IF acquired'[a] >= Target[a] THEN "OBJECTIVE_COMPLETE" ELSE "READY"]

(* Verified: settle and count; otherwise the escrow goes back. *)
Settle(a) ==
    /\ pc[a] = "settle"
    /\ pc' = [pc EXCEPT ![a] = "idle"]
    /\ approval' = [approval EXCEPT ![a] = 0]
    /\ IF Verdict(Key(a)) = "VERIFIED"
       THEN FromEscrow("EXTERNAL_SINK", "set", Key(a)) /\ Count(a, Key(a))
       ELSE /\ FromEscrow("TREASURY", "refVer", Key(a))
            /\ status' = [status EXCEPT ![a] = "STOPPED_FAILURE"]
            /\ UNCHANGED <<acquired, spent, completed>>
    /\ UNCHANGED <<iter, usdgIn, approvals, market, crashes>>

RefundForgotten(a) ==                                                 \* mutant
    /\ pc[a] = "refund"
    /\ status' = [status EXCEPT ![a] = "STOPPED_FAILURE"]
    /\ pc' = [pc EXCEPT ![a] = "idle"]
    /\ approval' = [approval EXCEPT ![a] = 0]
    /\ UNCHANGED <<iter, usdgIn, acquired, spent, completed, approvals, ledger,
                   market, crashes>>

Refund(a) ==
    /\ pc[a] = "refund"
    /\ FromEscrow("TREASURY", "ref", Key(a))
    /\ status' = [status EXCEPT ![a] = "STOPPED_FAILURE"]
    /\ pc' = [pc EXCEPT ![a] = "idle"]
    /\ approval' = [approval EXCEPT ![a] = 0]
    /\ UNCHANGED <<iter, usdgIn, acquired, spent, completed, approvals, market,
                   crashes>>

-----------------------------------------------------------------------------
(* _handle_reconcile with OrbioPurchaseReconciliation *)

(* _reconcile_locked: the independent status query decides what is booked. *)
Booking(k) ==
    IF Verdict(k) = "VERIFIED" THEN "reconcileSettle" ELSE "reconcileRefund"

(* The status query.  Without a record the evidence stays pending, nothing  *)
(* changes and the loop keeps waiting.                                      *)
Reconcile(a) ==
    /\ status[a] = "WAITING_RECONCILE" /\ pc[a] = "idle"
    /\ Verdict(Key(a)) # "PENDING_EVIDENCE"
    /\ pc' = [pc EXCEPT ![a] = Booking(Key(a))]
    /\ UNCHANGED <<status, iter, usdgIn, acquired, spent, completed, approval,
                   approvals, ledger, market, crashes>>

(* _settle_success, then the loop counts the purchase.  Unlike Settle, this *)
(* keeps the approval that authorised it.                                   *)
ReconcileSettle(a) ==
    LET k == Key(a) IN
    /\ pc[a] = "reconcileSettle"
    /\ pc' = [pc EXCEPT ![a] = "idle"]
    /\ IF HasEntry("set", k) \/ HasEntry("recSet", k) THEN UNCHANGED ledger
       ELSE FromEscrow("EXTERNAL_SINK", "recSet", k)
    /\ Count(a, k)
    /\ UNCHANGED <<iter, usdgIn, approval, approvals, market, crashes>>

ReconcileRefund(a) ==
    LET k == Key(a) IN
    /\ pc[a] = "reconcileRefund"
    /\ pc' = [pc EXCEPT ![a] = "idle"]
    /\ IF \E d \in {"ref", "refVer", "recRef"} : HasEntry(d, k)
       THEN UNCHANGED ledger
       ELSE FromEscrow("TREASURY", "recRef", k)
    /\ status' = [status EXCEPT ![a] = "STOPPED_FAILURE"]
    /\ UNCHANGED <<iter, usdgIn, acquired, spent, completed, approval,
                   approvals, market, crashes>>

(* The process dies: the loop object is gone, ledger and exchange are not. *)
Crash(a) ==
    /\ crashes < MaxCrashes
    /\ status[a] \in {"READY", "WAITING_HUMAN", "WAITING_RECONCILE"}
    /\ crashes' = crashes + 1
    /\ status' = [status EXCEPT ![a] = "CRASHED"]
    /\ pc' = [pc EXCEPT ![a] = "idle"]
    /\ UNCHANGED <<iter, usdgIn, acquired, spent, completed, approval,
                   approvals, ledger, market>>

-----------------------------------------------------------------------------

Init ==
    /\ status    = [a \in Agents |-> "READY"]
    /\ pc        = [a \in Agents |-> "idle"]
    /\ iter      = [a \in Agents |-> 0]
    /\ usdgIn    = [k \in Intents |-> 0]
    /\ acquired  = [a \in Agents |-> 0]
    /\ spent     = [a \in Agents |-> 0]
    /\ completed = [a \in Agents |-> {}]
    /\ approval  = [a \in Agents |-> 0]
    /\ approvals = [n \in 1..MaxApprovals |-> NoApproval]
    /\ posted    = {}
    /\ bal       = [TREASURY |-> InitialTreasury, ESCROW |-> 0, EXTERNAL_SINK |-> 0]
    /\ rec       = [k \in Intents |-> NoRecord]
    /\ usdg      = InitialUsdg
    /\ crashes   = 0

LoopStep(a) ==
    \/ Stop(a) \/ Propose(a) \/ Resume(a) \/ Preflight(a) \/ Escrow(a)
    \/ Execute(a) \/ Settle(a) \/ Refund(a)
    \/ Reconcile(a) \/ ReconcileSettle(a) \/ ReconcileRefund(a)

Operator ==
    \/ \E a \in Agents : IssueApproval(a)
    \/ \E n \in 1..MaxApprovals : RevokeApproval(n) \/ ExpireApproval(n)
    \/ \E a \in Agents, n \in 1..MaxApprovals : SupplyApproval(a, n)

Next == \/ \E a \in Agents : LoopStep(a) \/ Crash(a)
        \/ Operator

Spec == Init /\ [][Next]_vars

-----------------------------------------------------------------------------
(* Properties *)

Stopped == {"OBJECTIVE_COMPLETE", "STOPPED_POLICY_DENY", "STOPPED_SPEND_LIMIT",
            "STOPPED_ITERATION_LIMIT", "STOPPED_FAILURE"}
LoopStatuses == Stopped \cup {"READY", "WAITING_HUMAN", "WAITING_RECONCILE", "CRASHED"}
Steps == {"idle", "preflight", "escrow", "execute", "settle", "refund",
          "reconcileSettle", "reconcileRefund"}
EntryKinds == {"esc", "set", "ref", "refVer", "recSet", "recRef"}

(* Legal states, no negative balance, and an iteration count within bounds. *)
TypeOK ==
    /\ status \in [Agents -> LoopStatuses]
    /\ pc \in [Agents -> Steps]
    /\ iter \in [Agents -> 0..MaxIterations]
    /\ usdgIn \in [Intents -> Nat]
    /\ acquired \in [Agents -> Nat]
    /\ spent \in [Agents -> Nat]
    /\ completed \in [Agents -> SUBSET (1..MaxIterations)]
    /\ approval \in [Agents -> 0..MaxApprovals]
    /\ approvals \in [1..MaxApprovals ->
          [state : {"unissued", "issued", "revoked", "expired"},
           intent : Intents \cup {<<>>}]]
    /\ posted \subseteq [kind : EntryKinds, intent : Intents]
    /\ bal \in [{"TREASURY", "ESCROW", "EXTERNAL_SINK"} -> Nat]
    /\ rec \in [Intents -> [outcome : {"none", "SUCCESS", "FAILURE"},
                            usdg : Nat, credit : Nat]]
    /\ usdg \in Nat
    /\ crashes \in 0..MaxCrashes

Bought(k)  == rec[k].outcome = "SUCCESS"
Unsettled(a) == \/ pc[a] \in {"settle", "reconcileSettle"}
                \/ status[a] = "WAITING_RECONCILE"
Settlements == {"set", "recSet"}
Refunds     == {"ref", "refVer", "recRef"}
Held == {k \in Intents : /\ HasEntry("esc", k)
                         /\ \A d \in Settlements \cup Refunds : ~HasEntry(d, k)}

HeldAmount(k) == IF k \in Held THEN Amount(usdgIn[k]) ELSE 0

(* USDG the exchange took for a's intents, and USDG and CREDIT of those the  *)
(* loop has recorded as done, by iteration.                                  *)
Taken(a)    == [i \in 1..MaxIterations |-> rec[<<a, i>>].usdg]
Paid(a)     == [i \in 1..MaxIterations |-> IF i \in completed[a] THEN rec[<<a, i>>].usdg ELSE 0]
Received(a) == [i \in 1..MaxIterations |-> IF i \in completed[a] THEN rec[<<a, i>>].credit ELSE 0]

(* ESCROW holds exactly what unresolved purchases reserved, and only the    *)
(* purchase a loop is executing or waiting to reconcile is unresolved: no   *)
(* loop stops, waits for a human or starts anew with credits left behind,   *)
(* unless its process died.                                                 *)
EscrowIsInFlight ==
    /\ bal["ESCROW"] = SumFunction([k \in Intents |-> HeldAmount(k)])
    /\ \A k \in Held :
         LET a == k[1] IN
         \/ status[a] = "CRASHED"
         \/ /\ k = Key(a)
            /\ \/ pc[a] \in {"execute", "settle", "refund"}
               \/ status[a] = "WAITING_RECONCILE"

(* The escrow of an intent is settled only on a purchase the exchange       *)
(* recorded for it, refunded only without one, and never both.              *)
EvidenceDecides ==
    \A k \in Intents :
        /\ (\E d \in Settlements : HasEntry(d, k)) => Bought(k)
        /\ (\E d \in Refunds : HasEntry(d, k)) => ~Bought(k)
        /\ Cardinality({d \in Settlements \cup Refunds : HasEntry(d, k)}) <= 1

(* What a living loop says it spent and acquired is what the exchange       *)
(* recorded, but for one purchase that it still has to settle: nothing is   *)
(* forgotten after a timeout, and nothing is counted twice.                 *)
PurchasesAccounted ==
    \A a \in Agents : status[a] # "CRASHED" =>
        /\ spent[a] = SumFunction(Paid(a)) /\ acquired[a] = SumFunction(Received(a))
        /\ \A i \in 1..MaxIterations : Bought(<<a, i>>) =>
              i \in completed[a] \/ (i = iter[a] /\ Unsettled(a))

(* The exchange never takes more USDG for an agent than its cumulative      *)
(* limit, timeouts whose outcome the loop does not know included.           *)
SpendCapped ==
    \A a \in Agents : SumFunction(Taken(a)) <= MaxCumulative

(* Above the autonomous ceiling nothing reaches the exchange but an intent  *)
(* some human approved, that very one; above the absolute one, nothing.     *)
HumanAuthorised ==
    \A k \in Intents : HasEntry("esc", k) =>
        /\ usdgIn[k] <= AbsoluteCeiling
        /\ usdgIn[k] > AutonomousCeiling => \E n \in Issued : approvals[n].intent = k

(* Escrow is sound: balances never go negative, and ESCROW is what purchases *)
(* in flight reserved.                                                       *)
EscrowSound == TypeOK /\ EscrowIsInFlight

(* What is spent, somebody allowed: the policy within its cumulative limit,  *)
(* or a human for the very intent, timeouts and stale approvals included.    *)
SpendAuthorised == SpendCapped /\ HumanAuthorised
=============================================================================
