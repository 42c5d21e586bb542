------------------------- MODULE OrbioPurchaseProofs -------------------------
(***************************************************************************)
(* Proofs about the governed purchase of CREDIT, for any finite set of       *)
(* agents, any limits, any fill rates and any number of crashes.             *)
(***************************************************************************)
EXTENDS OrbioPurchase, SumTheorems

Iterations == 1..MaxIterations

(* Where a loop is with the purchase of its current iteration. *)
Unescrowed(a) == pc[a] \in {"preflight", "escrow"} \/ status[a] = "WAITING_HUMAN"
InFlight(a)   == pc[a] \in {"execute", "settle", "refund"} \/ status[a] = "WAITING_RECONCILE"
Pending(a)    == Unescrowed(a) \/ InFlight(a)

Untouched(k) == (\A d \in EntryKinds : ~HasEntry(d, k)) /\ rec[k] = NoRecord
Allowed(k) ==
    /\ usdgIn[k] <= AbsoluteCeiling
    /\ usdgIn[k] > AutonomousCeiling => \E n \in Issued : approvals[n].intent = k

(* The labels of step() and the statuses agree, and a pending purchase is    *)
(* not counted yet and fits what is left of the cumulative limit.            *)
LoopsOK ==
    \A a \in Agents :
        /\ pc[a] \in {"preflight", "escrow", "execute", "settle", "refund"} => status[a] = "READY"
        /\ pc[a] \in {"reconcileSettle", "reconcileRefund"} => status[a] = "WAITING_RECONCILE"
        /\ completed[a] \subseteq 1..iter[a]
        /\ Pending(a) => iter[a] >= 1 /\ iter[a] \notin completed[a]
                         /\ spent[a] + usdgIn[Key(a)] <= MaxCumulative

(* An intent that has not been escrowed has left no trace. *)
FreshOK ==
    \A a \in Agents, i \in Iterations :
        i > iter[a] \/ (i = iter[a] /\ Unescrowed(a)) => Untouched(<<a, i>>)

(* One that is in flight has its escrow and no resolution, and the loop's    *)
(* label says what the exchange answered.                                    *)
FlightOK ==
    \A a \in Agents :
        /\ InFlight(a) => /\ HasEntry("esc", Key(a))
                          /\ \A d \in Settlements \cup Refunds : ~HasEntry(d, Key(a))
        /\ pc[a] = "execute" => rec[Key(a)] = NoRecord
        /\ pc[a] \in {"settle", "reconcileSettle"} => rec[Key(a)].outcome = "SUCCESS"
        /\ pc[a] \in {"refund", "reconcileRefund"} => rec[Key(a)].outcome = "FAILURE"

(* A fill is for exactly the authorised USDG and at least the minimum CREDIT; *)
(* without one nothing was taken.                                             *)
RecordsOK ==
    \A k \in Intents :
        /\ rec[k].outcome = "SUCCESS" => rec[k].usdg = usdgIn[k] /\ rec[k].credit >= MinCreditOut(usdgIn[k])
        /\ rec[k].outcome # "SUCCESS" => rec[k].usdg = 0 /\ rec[k].credit = 0

(* The policy's decision outlives the decision: what it allowed stays allowed *)
(* until it is escrowed.                                                      *)
AllowedOK ==
    /\ \A a \in Agents : pc[a] \in {"preflight", "escrow"} => Allowed(Key(a))
    /\ \A k \in Intents : HasEntry("esc", k) => Allowed(k)

(* Approvals are issued in order. *)
IssuedInOrder == Issued = 1..Cardinality(Issued)

(* The escrow of an intent is resolved at most once. *)
ResolvedOnce ==
    \A k \in Intents :
        /\ \A d \in Settlements : HasEntry(d, k) => Bought(k)
        /\ \A d \in Refunds : HasEntry(d, k) => ~Bought(k)
        /\ \A d, e \in Settlements \cup Refunds : HasEntry(d, k) /\ HasEntry(e, k) => d = e

(* The inductive invariant. *)
IInv ==
    /\ TypeOK /\ LoopsOK /\ FreshOK /\ FlightOK /\ RecordsOK /\ AllowedOK /\ IssuedInOrder
    /\ ResolvedOnce /\ EscrowIsInFlight /\ PurchasesAccounted /\ SpendCapped

-----------------------------------------------------------------------------
(* Amounts. *)

(* The constants, one by one. *)
LEMMA Constants ==
  /\ MaxIterations \in Nat /\ MaxCumulative \in Nat /\ MaxSingle \in Nat
  /\ AutonomousCeiling \in Nat /\ AbsoluteCeiling \in Nat /\ AutonomousCeiling <= AbsoluteCeiling
  /\ Unit \in Nat /\ Unit # 0 /\ ExpectedFill \in Nat /\ ExpectedFill # 0
  /\ InitialTreasury \in Nat /\ InitialUsdg \in Nat /\ MaxApprovals \in Nat /\ MaxCrashes \in Nat
  /\ IsFiniteSet(Agents)
<1>1. MaxIterations \in Nat /\ MaxCumulative \in Nat /\ MaxSingle \in Nat
  BY PurchaseAssumption
<1>2. AutonomousCeiling \in Nat /\ AbsoluteCeiling \in Nat /\ AutonomousCeiling <= AbsoluteCeiling
  BY PurchaseAssumption
<1>3. Unit \in Nat /\ Unit # 0
  BY PurchaseAssumption
<1>4. ExpectedFill \in Nat /\ ExpectedFill # 0
  BY PurchaseAssumption
<1>5. InitialTreasury \in Nat /\ InitialUsdg \in Nat /\ MaxApprovals \in Nat /\ MaxCrashes \in Nat
  BY PurchaseAssumption
<1>6. IsFiniteSet(Agents)
  BY PurchaseAssumption
<1> QED
  BY <1>1, <1>2, <1>3, <1>4, <1>5, <1>6

(* The library's Max of two numbers. *)
LEMMA MaxPair ==
  ASSUME NEW a \in Int, NEW b \in Int
  PROVE  Max({a, b}) = IF a >= b THEN a ELSE b
<1> DEFINE m == IF a >= b THEN a ELSE b
<1>1. m \in {a, b} /\ \A y \in {a, b} : m >= y
  OBVIOUS
<1>2. \A x \in {a, b} : (\A y \in {a, b} : x >= y) => x = m
  OBVIOUS
<1> QED
  BY <1>1, <1>2 DEF Max

(* The least of three numbers is one of them and exceeds none. *)
LEMMA MinTriple ==
  ASSUME NEW a \in Int, NEW b \in Int, NEW c \in Int
  PROVE  Min({a, b, c}) \in {a, b, c} /\ Min({a, b, c}) <= c
<1>1. \E x \in {a, b, c} : \A y \in {a, b, c} : x <= y
  <2>1. CASE a <= b /\ a <= c
    BY <2>1
  <2>2. CASE b <= a /\ b <= c
    BY <2>2
  <2>3. CASE c <= a /\ c <= b
    BY <2>3
  <2> QED
    BY <2>1, <2>2, <2>3
<1> QED
  BY <1>1 DEF Min

(* What an intent escrows and the least CREDIT it accepts. *)
LEMMA AmountNat ==
  ASSUME NEW u \in Nat
  PROVE  Amount(u) \in Nat /\ MinCreditOut(u) \in Nat
<1>1. u \div Unit \in Nat
  <2> DEFINE d == Unit
  <2>1. d \in Nat \ {0}
    BY Constants
  <2> HIDE DEF d
  <2>2. u \div d \in Nat
    BY <2>1
  <2> QED
    BY <2>2 DEF d
<1>2. (u * 90) \div 100 \in Nat
  OBVIOUS
<1> QED
  BY <1>1, <1>2, MaxPair DEF Amount, MinCreditOut

(* A proposal stays within what is left of the cumulative limit. *)
LEMMA ProposedOK ==
  ASSUME TypeOK, NEW a \in Agents, spent[a] < MaxCumulative
  PROVE  ProposedUsdg(a) \in Nat /\ spent[a] + ProposedUsdg(a) <= MaxCumulative
<1>0. Target[a] \in Nat
  BY PurchaseAssumption
<1>1. Target[a] \in Nat /\ acquired[a] \in Nat /\ spent[a] \in Nat /\ MaxSingle \in Nat /\ MaxCumulative \in Nat
  BY <1>0, Constants DEF TypeOK
<1>2. Need(a) \in Nat
  BY <1>1, MaxPair DEF Need
<1>3. UsdgForCreditNeed(Need(a)) \in Nat
  <2> DEFINE n == Need(a) * 10000 + ExpectedFill - 1
             d == ExpectedFill
  <2>1. n \in Nat /\ d \in Nat \ {0}
    <3>1. Need(a) * 10000 \in Nat
      BY <1>2
    <3> QED
      BY <3>1, Constants
  <2> HIDE DEF n, d
  <2>2. n \div d \in Nat
    BY <2>1
  <2> QED
    BY <2>2 DEF n, d, UsdgForCreditNeed
<1>4. Remaining(a) \in Nat
  BY <1>1 DEF Remaining
<1> DEFINE x == UsdgForCreditNeed(Need(a))
           y == Remaining(a)
           m == ProposedUsdg(a)
<1>5. m \in {x, MaxSingle, y} /\ m <= y
  BY <1>1, <1>3, <1>4, MinTriple DEF ProposedUsdg
<1>6. x \in Nat /\ y \in Nat
  BY <1>3, <1>4
<1>7. y = MaxCumulative - spent[a]
  BY DEF Remaining
<1> HIDE DEF x, y, m
<1>8. m \in Nat /\ spent[a] + m <= MaxCumulative
  BY <1>1, <1>5, <1>6, <1>7
<1> QED
  BY <1>8 DEF m

(* What the exchange may fill. *)
LEMMA FillOK ==
  ASSUME NEW u \in Nat, usdg \in Nat, NEW f \in FillRates
  PROVE  \/ Fill(u, f) = Failed
         \/ /\ usdg >= u
            /\ \E c \in Nat : c >= MinCreditOut(u) /\ Fill(u, f) = [outcome |-> "SUCCESS", usdg |-> u, credit |-> c]
<1>1. f \in Nat
  BY PurchaseAssumption, SMTT(30)
<1>2. CreditOut(u, f) \in Nat
  <2> DEFINE n == u * f
  <2>1. n \in Nat
    BY <1>1
  <2> HIDE DEF n
  <2>2. n \div 10000 \in Nat
    BY <2>1
  <2> QED
    BY <2>2 DEF n, CreditOut
<1>3. MinCreditOut(u) \in Nat
  BY AmountNat
<1> QED
  BY <1>2, <1>3 DEF Fill

-----------------------------------------------------------------------------
(* What the actions do. *)

(* Steps that move only the status and the label of a loop. *)
Quiet(a) ==
    /\ UNCHANGED <<iter, usdgIn, acquired, spent, completed, posted, bal, rec, usdg, approvals>>
    /\ approval' \in [Agents -> 0..MaxApprovals] /\ crashes' \in 0..MaxCrashes
    /\ status' \in [Agents -> LoopStatuses] /\ pc' \in [Agents -> Steps]
    /\ \A b \in Agents \ {a} : status'[b] = status[b] /\ pc'[b] = pc[b]
    /\ \/ status'[a] = "CRASHED" /\ pc'[a] = "idle"
       \/ /\ status[a] = "READY" /\ pc[a] \in {"idle", "preflight", "escrow"}
          /\ status'[a] \in Stopped \cup {"READY"} /\ pc'[a] = "idle"
       \/ status[a] = "READY" /\ pc[a] = "preflight" /\ status'[a] = "READY" /\ pc'[a] = "escrow"
       \/ /\ status[a] = "WAITING_HUMAN" /\ pc[a] = "idle" /\ status'[a] = "READY" /\ pc'[a] = "preflight"
          /\ Allowed(Key(a))
       \/ status'[a] = status[a] /\ pc'[a] = pc[a]
       \/ /\ status[a] = "WAITING_RECONCILE" /\ pc[a] = "idle" /\ status'[a] = "WAITING_RECONCILE"
          /\ \/ pc'[a] = "reconcileSettle" /\ rec[Key(a)].outcome = "SUCCESS"
             \/ pc'[a] = "reconcileRefund" /\ rec[Key(a)].outcome = "FAILURE"

(* A new intent. *)
Proposes(a, u) ==
    /\ status[a] = "READY" /\ pc[a] = "idle" /\ iter[a] < MaxIterations
    /\ u \in Nat /\ spent[a] + u <= MaxCumulative
    /\ UNCHANGED <<acquired, spent, completed, posted, bal, rec, usdg, approvals, approval, crashes>>
    /\ iter' = [iter EXCEPT ![a] = @ + 1]
    /\ usdgIn' = [usdgIn EXCEPT ![<<a, iter[a] + 1>>] = u]
    /\ status' \in [Agents -> LoopStatuses] /\ pc' \in [Agents -> Steps]
    /\ \A b \in Agents \ {a} : status'[b] = status[b] /\ pc'[b] = pc[b]
    /\ \/ /\ status'[a] = "READY" /\ pc'[a] = "preflight"
          /\ u <= AbsoluteCeiling
          /\ u > AutonomousCeiling => \E n \in Issued : approvals[n].intent = <<a, iter[a] + 1>>
       \/ status'[a] \in {"WAITING_HUMAN", "STOPPED_POLICY_DENY"} /\ pc'[a] = "idle"

(* The treasury still covers it. *)
Escrows(a) ==
    /\ pc[a] = "escrow" /\ bal["TREASURY"] >= Amount(usdgIn[Key(a)])
    /\ Transfer("TREASURY", "ESCROW", "esc", Key(a))
    /\ pc' = [pc EXCEPT ![a] = "execute"]
    /\ UNCHANGED <<status, iter, usdgIn, acquired, spent, completed, approval, approvals, rec, usdg, crashes>>

(* A purchase recorded by the exchange. *)
Executes(a, r) ==
    /\ pc[a] = "execute"
    /\ UNCHANGED <<iter, usdgIn, acquired, spent, completed, posted, bal, approvals, approval, crashes>>
    /\ Record(Key(a), r)
    /\ status' \in [Agents -> LoopStatuses] /\ pc' \in [Agents -> Steps]
    /\ \A b \in Agents \ {a} : status'[b] = status[b] /\ pc'[b] = pc[b]
    /\ \/ r \in {NoRecord, Failed}
       \/ /\ usdg >= usdgIn[Key(a)]
          /\ \E c \in Nat : /\ c >= MinCreditOut(usdgIn[Key(a)])
                            /\ r = [outcome |-> "SUCCESS", usdg |-> usdgIn[Key(a)], credit |-> c]
    /\ \/ status'[a] = "WAITING_RECONCILE" /\ pc'[a] = "idle"
       \/ status'[a] = "READY" /\ pc'[a] = "settle" /\ r.outcome = "SUCCESS"
       \/ status'[a] = "READY" /\ pc'[a] = "refund" /\ r.outcome = "FAILURE"

(* The escrow of a verified purchase is settled and the purchase counted. *)
Settles(a, d) ==
    /\ pc[a] \in {"settle", "reconcileSettle"}
    /\ d \in Settlements
    /\ Transfer("ESCROW", "EXTERNAL_SINK", d, Key(a))
    /\ Count(a, Key(a))
    /\ pc' = [pc EXCEPT ![a] = "idle"]
    /\ approval' \in [Agents -> 0..MaxApprovals]
    /\ UNCHANGED <<iter, usdgIn, approvals, rec, usdg, crashes>>

(* The escrow of a failed one goes back. *)
GivesBack(a, d) ==
    /\ pc[a] \in {"refund", "reconcileRefund"}
    /\ d \in Refunds
    /\ Transfer("ESCROW", "TREASURY", d, Key(a))
    /\ status' = [status EXCEPT ![a] = "STOPPED_FAILURE"]
    /\ pc' = [pc EXCEPT ![a] = "idle"]
    /\ approval' \in [Agents -> 0..MaxApprovals]
    /\ UNCHANGED <<iter, usdgIn, acquired, spent, completed, approvals, rec, usdg, crashes>>

(* The agent's intents. *)
LEMMA KeyOK ==
  ASSUME IInv, NEW a \in Agents, Pending(a)
  PROVE  /\ iter[a] \in Iterations /\ Key(a) \in Intents /\ Key(a) = <<a, iter[a]>>
         /\ usdgIn[Key(a)] \in Nat /\ Amount(usdgIn[Key(a)]) \in Nat
<1>1. iter[a] \in 0..MaxIterations /\ iter[a] >= 1 /\ MaxIterations \in Nat
  BY Constants DEF IInv, TypeOK, LoopsOK
<1>2. iter[a] \in Iterations /\ Key(a) \in Intents
  BY <1>1 DEF Iterations, Intents, Key
<1>3. usdgIn[Key(a)] \in Nat
  BY <1>2 DEF IInv, TypeOK
<1> QED
  BY <1>2, <1>3, AmountNat DEF Key

(* An entry is its kind and its intent. *)
LEMMA EntryPosted ==
  ASSUME NEW d, NEW k, posted' = posted \cup {Entry(d, k)}
  PROVE  \A e, j : HasEntry(e, j)' <=> HasEntry(e, j) \/ (e = d /\ j = k)
<1>1. \A e, j : Entry(e, j) = Entry(d, k) <=> e = d /\ j = k
  BY DEF Entry
<1> QED
  BY <1>1 DEF HasEntry, Entry

(* The intents are finitely many. *)
LEMMA IntentsFinite == IsFiniteSet(Intents) /\ IsFiniteSet(Iterations)
<1>1. IsFiniteSet(Iterations)
  BY FS_Interval, Constants DEF Iterations
<1> QED
  BY <1>1, FS_Product, Constants DEF Intents, Iterations

(* ESCROW covers every purchase that is in flight. *)
LEMMA EscrowEnough ==
  ASSUME IInv, NEW a \in Agents, InFlight(a)
  PROVE  Key(a) \in Held /\ bal["ESCROW"] >= Amount(usdgIn[Key(a)])
<1> DEFINE h == [k \in Intents |-> HeldAmount(k)]
<1>1. Key(a) \in Intents
  BY KeyOK DEF Pending
<1>2. Key(a) \in Held
  BY <1>1 DEF IInv, FlightOK, Held
<1>3. h \in [Intents -> Nat]
  BY AmountNat DEF IInv, TypeOK, HeldAmount
<1>4. h[Key(a)] = Amount(usdgIn[Key(a)])
  BY <1>1, <1>2 DEF HeldAmount
<1>5. bal["ESCROW"] = SumFunction(h)
  BY DEF IInv, EscrowIsInFlight
<1> HIDE DEF h
<1>6. h[Key(a)] <= SumFunction(h) /\ SumFunction(h) \in Nat
  BY <1>1, <1>3, IntentsFinite, SumNat
<1>7. h[Key(a)] \in Nat
  BY <1>1, <1>3
<1> QED
  BY <1>2, <1>4, <1>5, <1>6, <1>7

(* A policy that allows has a human's approval of the very intent, if one is *)
(* needed.                                                                   *)
LEMMA EvaluateOK ==
  ASSUME TypeOK, NEW a \in Agents, NEW k, NEW u \in Nat,
         Evaluate(a, k, u, approval[a]) = "ALLOW"
  PROVE  u <= AbsoluteCeiling /\ (u > AutonomousCeiling => \E n \in Issued : approvals[n].intent = k)
<1>1. approval[a] \in 0..MaxApprovals
  BY DEF TypeOK
<1>2. u <= AbsoluteCeiling
  BY Constants DEF Evaluate
<1>3. u > AutonomousCeiling => approval[a] # 0 /\ ValidFor(approval[a], k)
  BY Constants DEF Evaluate
<1>4. approval[a] # 0 /\ ValidFor(approval[a], k) => \E n \in Issued : approvals[n].intent = k
  BY <1>1, Constants DEF ValidFor, Issued
<1> QED
  BY <1>2, <1>3, <1>4

(* Every step of a loop is of one of the six kinds. *)
LEMMA StepKinds ==
  ASSUME IInv, NEW a \in Agents, LoopStep(a) \/ Crash(a)
  PROVE  \/ Quiet(a) \/ \E u : Proposes(a, u)
         \/ Escrows(a) \/ \E r : Executes(a, r)
         \/ \E d : Settles(a, d) \/ GivesBack(a, d)
<1>0. TypeOK /\ LoopsOK /\ FlightOK /\ RecordsOK
  BY DEF IInv
<1>1. /\ status \in [Agents -> LoopStatuses] /\ pc \in [Agents -> Steps] /\ iter[a] \in 0..MaxIterations
      /\ approval \in [Agents -> 0..MaxApprovals] /\ crashes \in 0..MaxCrashes /\ spent[a] \in Nat /\ usdg \in Nat
  BY <1>0 DEF TypeOK
<1>2. 0 \in 0..MaxApprovals
  BY Constants
<1>3. CASE Crash(a)
  <2>1. crashes' \in 0..MaxCrashes
    BY <1>1, <1>3, Constants DEF Crash
  <2> QED
    BY <1>1, <1>3, <2>1 DEF Crash, Quiet, LoopStatuses, Steps, ledger, market
<1>4. CASE Stop(a)
  <2>1. status[a] = "READY" /\ pc[a] = "idle" /\ status' = [status EXCEPT ![a] = Limit(a)] /\ Limit(a) \in Stopped
    BY <1>4 DEF Stop, Running, Limit, Stopped
  <2>2. UNCHANGED <<pc, iter, usdgIn, acquired, spent, completed, approval, approvals, posted, bal, rec, usdg, crashes>>
    BY <1>4 DEF Stop, ledger, market
  <2> QED
    BY <1>1, <2>1, <2>2 DEF Quiet, LoopStatuses
<1>5. CASE Propose(a)
  <2> DEFINE k == <<a, iter[a] + 1>>
             u == ProposedUsdg(a)
  <2>1. status[a] = "READY" /\ pc[a] = "idle" /\ Limit(a) = "none"
    BY <1>5 DEF Propose, Running
  <2>2. iter[a] < MaxIterations /\ spent[a] < MaxCumulative
    BY <1>1, <2>1, Constants DEF Limit
  <2>3. u \in Nat /\ spent[a] + u <= MaxCumulative
    BY <1>0, <2>2, ProposedOK
  <2>4. /\ iter' = [iter EXCEPT ![a] = @ + 1] /\ usdgIn' = [usdgIn EXCEPT ![k] = u]
        /\ UNCHANGED <<acquired, spent, completed, posted, bal, rec, usdg, approvals, approval, crashes>>
    BY <1>5 DEF Propose, ledger, market
  <2>5. \/ /\ Evaluate(a, k, u, approval[a]) = "ALLOW" /\ pc' = [pc EXCEPT ![a] = "preflight"] /\ status' = status
        \/ /\ status' \in {[status EXCEPT ![a] = "WAITING_HUMAN"], [status EXCEPT ![a] = "STOPPED_POLICY_DENY"]}
           /\ pc' = pc
    BY <1>5 DEF Propose
  <2>6. Evaluate(a, k, u, approval[a]) = "ALLOW" =>
          u <= AbsoluteCeiling /\ (u > AutonomousCeiling => \E n \in Issued : approvals[n].intent = k)
    BY <1>0, <2>3, EvaluateOK
  <2> HIDE DEF u
  <2>7. Proposes(a, u)
    <3>1. CASE Evaluate(a, k, u, approval[a]) = "ALLOW" /\ pc' = [pc EXCEPT ![a] = "preflight"] /\ status' = status
      BY <1>1, <2>1, <2>2, <2>3, <2>4, <2>6, <3>1 DEF Proposes, LoopStatuses, Steps
    <3>2. CASE status' \in {[status EXCEPT ![a] = "WAITING_HUMAN"], [status EXCEPT ![a] = "STOPPED_POLICY_DENY"]} /\ pc' = pc
      BY <1>1, <2>1, <2>2, <2>3, <2>4, <3>2 DEF Proposes, LoopStatuses, Steps, Stopped
    <3> QED
      BY <2>5, <3>1, <3>2
  <2> QED
    BY <2>7
<1>6. CASE Resume(a)
  <2>1. /\ status[a] = "WAITING_HUMAN" /\ pc[a] = "idle"
        /\ UNCHANGED <<iter, usdgIn, acquired, spent, completed, approvals, posted, bal, rec, usdg, crashes>>
    BY <1>6 DEF Resume, ledger, market
  <2>2. usdgIn[Key(a)] \in Nat
    BY <2>1, KeyOK DEF Pending, Unescrowed
  <2>3. CASE Evaluate(a, Key(a), usdgIn[Key(a)], approval[a]) = "ALLOW"
    <3>1. Allowed(Key(a))
      BY <1>0, <2>2, <2>3, EvaluateOK DEF Allowed
    <3>2. status' = [status EXCEPT ![a] = "READY"] /\ pc' = [pc EXCEPT ![a] = "preflight"] /\ approval' = approval
      BY <1>6, <2>3 DEF Resume
    <3> QED
      BY <1>1, <2>1, <3>1, <3>2 DEF Quiet, LoopStatuses, Steps
  <2>4. CASE Evaluate(a, Key(a), usdgIn[Key(a)], approval[a]) # "ALLOW"
    <3>1. approval' = [approval EXCEPT ![a] = 0] /\ status' = status /\ pc' = pc
      BY <1>6, <2>4 DEF Resume
    <3> QED
      BY <1>1, <1>2, <2>1, <3>1 DEF Quiet
  <2> QED
    BY <2>3, <2>4
<1>7. CASE Preflight(a)
  <2>1. /\ pc[a] = "preflight" /\ status[a] = "READY"
        /\ UNCHANGED <<iter, usdgIn, acquired, spent, completed, approval, approvals, posted, bal, rec, usdg, crashes>>
    BY <1>0, <1>7 DEF Preflight, ledger, market, LoopsOK
  <2>2. \/ status' = [status EXCEPT ![a] = "STOPPED_SPEND_LIMIT"] /\ pc' = [pc EXCEPT ![a] = "idle"]
        \/ status' = status /\ pc' = [pc EXCEPT ![a] = "escrow"]
    BY <1>7 DEF Preflight
  <2> QED
    BY <1>1, <2>1, <2>2 DEF Quiet, LoopStatuses, Steps, Stopped
<1>8. CASE Escrow(a)
  <2>1. /\ pc[a] = "escrow" /\ status[a] = "READY"
        /\ UNCHANGED <<status, iter, usdgIn, acquired, spent, completed, approval, approvals, rec, usdg, crashes>>
    BY <1>0, <1>8 DEF Escrow, market, LoopsOK
  <2>2. CASE bal["TREASURY"] >= Amount(usdgIn[Key(a)])
    BY <1>8, <2>1, <2>2 DEF Escrow, Escrows
  <2>3. CASE ~(bal["TREASURY"] >= Amount(usdgIn[Key(a)]))
    <3>1. pc' = [pc EXCEPT ![a] = "idle"] /\ UNCHANGED <<posted, bal>>
      BY <1>8, <2>3 DEF Escrow, ledger
    <3> QED
      BY <1>1, <2>1, <3>1 DEF Quiet, Steps
  <2> QED
    BY <2>2, <2>3
<1>9. CASE Execute(a)
  <2>1. /\ pc[a] = "execute" /\ status[a] = "READY"
        /\ UNCHANGED <<iter, usdgIn, acquired, spent, completed, posted, bal, approvals, approval, crashes>>
    BY <1>0, <1>9 DEF Execute, ledger, LoopsOK
  <2>2. usdgIn[Key(a)] \in Nat
    BY <2>1, KeyOK DEF Pending, InFlight
  <2>3. PICK r \in {Fill(usdgIn[Key(a)], f) : f \in FillRates} \cup {Failed, NoRecord} :
          /\ Record(Key(a), r)
          /\ \/ pc' = [pc EXCEPT ![a] = "idle"] /\ status' = [status EXCEPT ![a] = "WAITING_RECONCILE"]
             \/ /\ r # NoRecord /\ status' = status
                /\ pc' = [pc EXCEPT ![a] = IF r.outcome = "SUCCESS" THEN "settle" ELSE "refund"]
    <3>1. CASE Timeout(a)
      BY <3>1 DEF Timeout
    <3>2. CASE Answer(a)
      <4>1. PICK r \in {Fill(usdgIn[Key(a)], f) : f \in FillRates} \cup {Failed} :
              /\ Record(Key(a), r)
              /\ pc' = [pc EXCEPT ![a] = IF r.outcome = "SUCCESS" THEN "settle" ELSE "refund"]
              /\ UNCHANGED status
        BY <3>2 DEF Answer
      <4>2. r # NoRecord
        BY DEF Fill, Failed, NoRecord
      <4> QED
        BY <4>1, <4>2
    <3> QED
      BY <1>9, <3>1, <3>2 DEF Execute
  <2>4. \/ r \in {NoRecord, Failed}
        \/ /\ usdg >= usdgIn[Key(a)]
           /\ \E c \in Nat : /\ c >= MinCreditOut(usdgIn[Key(a)])
                             /\ r = [outcome |-> "SUCCESS", usdg |-> usdgIn[Key(a)], credit |-> c]
    BY <1>1, <2>2, FillOK
  <2>5. r.outcome \in {"none", "FAILURE", "SUCCESS"} /\ (r.outcome = "none" <=> r = NoRecord)
    BY <2>4 DEF NoRecord, Failed
  <2>6. /\ status' \in [Agents -> LoopStatuses] /\ pc' \in [Agents -> Steps]
        /\ \A b \in Agents \ {a} : status'[b] = status[b] /\ pc'[b] = pc[b]
        /\ \/ status'[a] = "WAITING_RECONCILE" /\ pc'[a] = "idle"
           \/ status'[a] = "READY" /\ pc'[a] = "settle" /\ r.outcome = "SUCCESS"
           \/ status'[a] = "READY" /\ pc'[a] = "refund" /\ r.outcome = "FAILURE"
    BY <1>1, <2>1, <2>3, <2>5 DEF LoopStatuses, Steps
  <2>7. Executes(a, r)
    BY <2>1, <2>3, <2>4, <2>6 DEF Executes
  <2> QED
    BY <2>7
<1>10. ASSUME InFlight(a), rec[Key(a)].outcome = "SUCCESS"
       PROVE  Verdict(Key(a)) = "VERIFIED"
  <2>1. Key(a) \in Intents
    BY <1>10, KeyOK DEF Pending
  <2> QED
    BY <1>0, <1>10, <2>1 DEF Verdict, Evidence, RecordsOK
<1>11. InFlight(a) => bal["ESCROW"] >= Amount(usdgIn[Key(a)])
  BY EscrowEnough
<1>12. approval' = [approval EXCEPT ![a] = 0] \/ approval' = approval => approval' \in [Agents -> 0..MaxApprovals]
  BY <1>1, <1>2
<1>13. CASE Settle(a)
  <2>1. /\ pc[a] = "settle" /\ InFlight(a) /\ rec[Key(a)].outcome = "SUCCESS"
        /\ approval' = [approval EXCEPT ![a] = 0] /\ pc' = [pc EXCEPT ![a] = "idle"]
        /\ UNCHANGED <<iter, usdgIn, approvals, rec, usdg, crashes>>
    BY <1>0, <1>13 DEF Settle, InFlight, FlightOK, market
  <2>2. Transfer("ESCROW", "EXTERNAL_SINK", "set", Key(a)) /\ Count(a, Key(a))
    BY <1>10, <1>11, <1>13, <2>1 DEF Settle, FromEscrow
  <2>3. Settles(a, "set")
    BY <1>12, <2>1, <2>2 DEF Settles, Settlements
  <2> QED
    BY <2>3
<1>14. CASE Refund(a)
  <2>1. /\ pc[a] = "refund" /\ InFlight(a)
        /\ approval' = [approval EXCEPT ![a] = 0] /\ pc' = [pc EXCEPT ![a] = "idle"]
        /\ status' = [status EXCEPT ![a] = "STOPPED_FAILURE"]
        /\ UNCHANGED <<iter, usdgIn, acquired, spent, completed, approvals, rec, usdg, crashes>>
    BY <1>14 DEF Refund, InFlight, market
  <2>2. Transfer("ESCROW", "TREASURY", "ref", Key(a))
    BY <1>11, <1>14, <2>1 DEF Refund, FromEscrow
  <2>3. GivesBack(a, "ref")
    BY <1>12, <2>1, <2>2 DEF GivesBack, Refunds
  <2> QED
    BY <2>3
<1>15. CASE Reconcile(a)
  <2>1. /\ status[a] = "WAITING_RECONCILE" /\ pc[a] = "idle" /\ InFlight(a)
        /\ Verdict(Key(a)) # "PENDING_EVIDENCE" /\ pc' = [pc EXCEPT ![a] = Booking(Key(a))]
        /\ UNCHANGED <<status, iter, usdgIn, acquired, spent, completed, approval, approvals, posted, bal, rec, usdg, crashes>>
    BY <1>15 DEF Reconcile, InFlight, ledger, market
  <2>2. rec[Key(a)].outcome \in {"none", "SUCCESS", "FAILURE"}
    <3>1. Key(a) \in Intents
      BY <2>1, KeyOK DEF Pending
    <3> QED
      BY <1>0, <3>1 DEF TypeOK
  <2>3. \/ rec[Key(a)].outcome = "SUCCESS" /\ Booking(Key(a)) = "reconcileSettle"
        \/ rec[Key(a)].outcome = "FAILURE" /\ Booking(Key(a)) = "reconcileRefund"
    <3>1. CASE rec[Key(a)].outcome = "SUCCESS"
      BY <1>10, <2>1, <3>1 DEF Booking
    <3>2. CASE rec[Key(a)].outcome # "SUCCESS"
      BY <2>1, <2>2, <3>2 DEF Booking, Verdict
    <3> QED
      BY <3>1, <3>2
  <2> QED
    BY <1>1, <2>1, <2>3 DEF Quiet, Steps
<1>16. CASE ReconcileSettle(a)
  <2>1. /\ pc[a] = "reconcileSettle" /\ InFlight(a) /\ pc' = [pc EXCEPT ![a] = "idle"] /\ approval' = approval
        /\ UNCHANGED <<iter, usdgIn, approvals, rec, usdg, crashes>> /\ Count(a, Key(a))
    BY <1>0, <1>16 DEF ReconcileSettle, InFlight, LoopsOK, market
  <2>2. ~HasEntry("set", Key(a)) /\ ~HasEntry("recSet", Key(a))
    BY <1>0, <2>1 DEF FlightOK, Settlements
  <2>3. Transfer("ESCROW", "EXTERNAL_SINK", "recSet", Key(a))
    BY <1>11, <1>16, <2>1, <2>2 DEF ReconcileSettle, FromEscrow
  <2>4. Settles(a, "recSet")
    BY <1>12, <2>1, <2>3 DEF Settles, Settlements
  <2> QED
    BY <2>4
<1>17. CASE ReconcileRefund(a)
  <2>1. /\ pc[a] = "reconcileRefund" /\ InFlight(a) /\ pc' = [pc EXCEPT ![a] = "idle"] /\ approval' = approval
        /\ status' = [status EXCEPT ![a] = "STOPPED_FAILURE"]
        /\ UNCHANGED <<iter, usdgIn, acquired, spent, completed, approvals, rec, usdg, crashes>>
    BY <1>0, <1>17 DEF ReconcileRefund, InFlight, LoopsOK, market
  <2>2. \A d \in {"ref", "refVer", "recRef"} : ~HasEntry(d, Key(a))
    BY <1>0, <2>1 DEF FlightOK, Refunds
  <2>3. Transfer("ESCROW", "TREASURY", "recRef", Key(a))
    BY <1>11, <1>17, <2>1, <2>2 DEF ReconcileRefund, FromEscrow
  <2>4. GivesBack(a, "recRef")
    BY <1>12, <2>1, <2>3 DEF GivesBack, Refunds
  <2> QED
    BY <2>4
<1> QED
  BY <1>3, <1>4, <1>5, <1>6, <1>7, <1>8, <1>9, <1>13, <1>14, <1>15, <1>16, <1>17 DEF LoopStep

-----------------------------------------------------------------------------
(* The invariant, one kind of step at a time. *)

(* What the ledger and the amounts of the intents determine. *)
LEMMA LedgerSame ==
  ASSUME UNCHANGED <<posted, usdgIn, bal>>
  PROVE  /\ \A d, k : HasEntry(d, k)' <=> HasEntry(d, k)
         /\ Held' = Held
         /\ bal'["ESCROW"] = bal["ESCROW"]
         /\ [k \in Intents |-> HeldAmount(k)]' = [k \in Intents |-> HeldAmount(k)]
<1>1. \A d, k : HasEntry(d, k)' <=> HasEntry(d, k)
  BY DEF HasEntry, Entry
<1>2. Held' = Held
  BY <1>1 DEF Held
<1>3. \A k : HeldAmount(k)' = HeldAmount(k)
  BY <1>2 DEF HeldAmount, Amount
<1> QED
  BY <1>1, <1>2, <1>3

(* What the exchange's records determine. *)
LEMMA RecordsSame ==
  ASSUME rec' = rec
  PROVE  /\ \A k : Bought(k)' <=> Bought(k)
         /\ SpendCapped => SpendCapped'
  BY DEF Bought, SpendCapped, Taken

(* Steps that keep the whole of the loops' accounts. *)
LEMMA AccountsSame ==
  ASSUME UNCHANGED <<rec, completed, spent, acquired>>, PurchasesAccounted,
         \A b \in Agents : status[b] = "CRASHED" => status'[b] = "CRASHED",
         \A b \in Agents : Unsettled(b) /\ Bought(Key(b)) =>
            status'[b] = "CRASHED" \/ (Unsettled(b)' /\ iter'[b] = iter[b])
  PROVE  PurchasesAccounted'
<1>1. \A b : Paid(b)' = Paid(b) /\ Received(b)' = Received(b)
  BY DEF Paid, Received
<1>2. \A k : Bought(k)' <=> Bought(k)
  BY RecordsSame
<1> QED
  BY <1>1, <1>2 DEF PurchasesAccounted, Key

(* Approvals that are not touched. *)
LEMMA ApprovalsSame ==
  ASSUME UNCHANGED approvals
  PROVE  Issued' = Issued /\ (IssuedInOrder => IssuedInOrder')
<1>1. Issued' = Issued
  BY DEF Issued
<1> QED
  BY <1>1 DEF IssuedInOrder

(* Only the status and the label of one loop move. *)
LEMMA QuietOK == ASSUME IInv, NEW a \in Agents, Quiet(a) PROVE IInv'
<1>0. /\ TypeOK /\ LoopsOK /\ FreshOK /\ FlightOK /\ RecordsOK /\ AllowedOK /\ IssuedInOrder
      /\ ResolvedOnce /\ EscrowIsInFlight /\ PurchasesAccounted /\ SpendCapped
  BY DEF IInv
<1>1. UNCHANGED <<iter, usdgIn, acquired, spent, completed, posted, bal, rec, usdg, approvals>>
  BY DEF Quiet
<1>2. \A b : Key(b)' = Key(b)
  BY <1>1 DEF Key
<1>3. /\ \A d, k : HasEntry(d, k)' <=> HasEntry(d, k)
      /\ Held' = Held /\ bal'["ESCROW"] = bal["ESCROW"]
      /\ [k \in Intents |-> HeldAmount(k)]' = [k \in Intents |-> HeldAmount(k)]
  BY <1>1, LedgerSame
<1>4. \A b \in Agents : /\ Unescrowed(b)' => Unescrowed(b)
                        /\ InFlight(b)' => InFlight(b)
                        /\ InFlight(b) => InFlight(b)' \/ status'[b] = "CRASHED"
                        /\ Unsettled(b) => Unsettled(b)' \/ status'[b] = "CRASHED"
                        /\ status[b] = "CRASHED" => status'[b] = "CRASHED"
  BY <1>0 DEF Quiet, Unescrowed, InFlight, Unsettled, Stopped, LoopsOK
<1>5. TypeOK'
  BY <1>0, <1>1 DEF Quiet, TypeOK
<1>6. LoopsOK'
  <2>1. \A b \in Agents : /\ (pc[b] \in {"preflight", "escrow", "execute", "settle", "refund"})' => status'[b] = "READY"
                          /\ (pc[b] \in {"reconcileSettle", "reconcileRefund"})' => status'[b] = "WAITING_RECONCILE"
    BY <1>0 DEF Quiet, LoopsOK
  <2>2. \A b \in Agents : /\ (completed[b] \subseteq 1..iter[b])'
                          /\ Pending(b)' => (/\ iter[b] >= 1 /\ iter[b] \notin completed[b]
                                            /\ spent[b] + usdgIn[Key(b)] <= MaxCumulative)'
    BY <1>0, <1>1, <1>2, <1>4 DEF LoopsOK, Pending
  <2> QED
    BY <2>1, <2>2 DEF LoopsOK
<1>7. FreshOK'
  BY <1>0, <1>1, <1>3, <1>4 DEF FreshOK, Untouched
<1>8. FlightOK'
  <2>1. \A b \in Agents : /\ pc'[b] = "execute" => pc[b] = "execute"
                          /\ pc'[b] \in {"settle", "reconcileSettle"} => rec[Key(b)].outcome = "SUCCESS"
                          /\ pc'[b] \in {"refund", "reconcileRefund"} => rec[Key(b)].outcome = "FAILURE"
    BY <1>0 DEF Quiet, FlightOK
  <2>2. \A b \in Agents : InFlight(b)' => /\ HasEntry("esc", Key(b))'
                                          /\ \A d \in Settlements \cup Refunds : ~HasEntry(d, Key(b))'
    BY <1>0, <1>2, <1>3, <1>4 DEF FlightOK
  <2>3. \A b \in Agents : rec'[Key(b)'] = rec[Key(b)] /\ NoRecord' = NoRecord
    BY <1>1, <1>2
  <2>4. \A b \in Agents : pc[b] = "execute" => rec[Key(b)] = NoRecord
    BY <1>0 DEF FlightOK
  <2> QED
    BY <2>1, <2>2, <2>3, <2>4 DEF FlightOK
<1>9. RecordsOK'
  BY <1>0, <1>1 DEF RecordsOK, MinCreditOut
<1>10. AllowedOK'
  <2>1. \A k : Allowed(k)' <=> Allowed(k)
    BY <1>1 DEF Allowed, Issued
  <2>2. \A b \in Agents : pc'[b] \in {"preflight", "escrow"} => Allowed(Key(b))
    BY <1>0 DEF Quiet, AllowedOK
  <2> QED
    BY <1>0, <1>2, <1>3, <2>1, <2>2 DEF AllowedOK
<1>11. IssuedInOrder'
  BY <1>0, <1>1, ApprovalsSame
<1>12. ResolvedOnce'
  BY <1>0, <1>1, <1>3 DEF ResolvedOnce, Bought
<1>13. EscrowIsInFlight'
  <2>1. \A k \in Held : LET b == k[1] IN status'[b] = "CRASHED" \/ (k = Key(b) /\ InFlight(b)')
    <3>1. \A k \in Held : k[1] \in Agents
      BY DEF Held, Intents
    <3>2. \A k \in Held : LET b == k[1] IN status[b] = "CRASHED" \/ (k = Key(b) /\ InFlight(b))
      BY <1>0 DEF EscrowIsInFlight, InFlight
    <3> QED
      BY <1>4, <3>1, <3>2
  <2> QED
    BY <1>0, <1>2, <1>3, <2>1 DEF EscrowIsInFlight, InFlight
<1>14. PurchasesAccounted'
  BY <1>0, <1>1, <1>4, AccountsSame
<1>15. SpendCapped'
  BY <1>0, <1>1, RecordsSame
<1> QED
  BY <1>5, <1>6, <1>7, <1>8, <1>9, <1>10, <1>11, <1>12, <1>13, <1>14, <1>15 DEF IInv

(* A new intent has left no trace, so no earlier one is disturbed. *)
LEMMA ProposesOK == ASSUME IInv, NEW a \in Agents, NEW u, Proposes(a, u) PROVE IInv'
<1>k. PICK k : k = <<a, iter[a] + 1>>
  OBVIOUS
<1>0. /\ TypeOK /\ LoopsOK /\ FreshOK /\ FlightOK /\ RecordsOK /\ AllowedOK /\ IssuedInOrder
      /\ ResolvedOnce /\ EscrowIsInFlight /\ PurchasesAccounted /\ SpendCapped
  BY DEF IInv
<1>1. /\ UNCHANGED <<acquired, spent, completed, posted, bal, rec, usdg, approvals, approval, crashes>>
      /\ usdgIn' = [usdgIn EXCEPT ![k] = u] /\ iter' = [iter EXCEPT ![a] = @ + 1]
      /\ u \in Nat /\ spent[a] + u <= MaxCumulative
  BY <1>k DEF Proposes
<1>2. iter[a] \in Nat /\ iter[a] + 1 \in Iterations /\ k \in Intents /\ iter \in [Agents -> 0..MaxIterations]
  BY <1>0, <1>k, Constants, SMTT(30) DEF TypeOK, Proposes, Iterations, Intents
<1>3. Untouched(k)
  BY <1>0, <1>2, <1>k DEF FreshOK
<1>4. /\ iter'[a] = iter[a] + 1 /\ \A b \in Agents : b # a => iter'[b] = iter[b]
      /\ usdgIn \in [Intents -> Nat] /\ usdgIn'[k] = u /\ \A j \in Intents : j # k => usdgIn'[j] = usdgIn[j]
  BY <1>0, <1>1, <1>2 DEF TypeOK
<1>5. Key(a)' = k /\ \A b \in Agents : b # a => Key(b)' = Key(b) /\ Key(b) # k
  BY <1>4, <1>k DEF Key
<1>6. \A d, j : HasEntry(d, j)' <=> HasEntry(d, j)
  BY <1>1 DEF HasEntry, Entry
<1>7. Held' = Held /\ k \notin Held
  BY <1>3, <1>6 DEF Held, Untouched, EntryKinds
<1>8. [j \in Intents |-> HeldAmount(j)]' = [j \in Intents |-> HeldAmount(j)]
  <2>1. \A j \in Intents : HeldAmount(j)' = HeldAmount(j)
    BY <1>4, <1>7 DEF HeldAmount, Amount
  <2> QED
    BY <2>1
<1>9. /\ ~InFlight(a) /\ ~InFlight(a)' /\ ~Unsettled(a) /\ status[a] # "CRASHED"
      /\ \A b \in Agents : b # a => /\ Unescrowed(b)' <=> Unescrowed(b)
                                    /\ InFlight(b)' <=> InFlight(b)
                                    /\ Unsettled(b)' <=> Unsettled(b)
                                    /\ status'[b] = status[b] /\ pc'[b] = pc[b]
  BY DEF Proposes, Unescrowed, InFlight, Unsettled
<1>10. TypeOK'
  <2>1. iter' \in [Agents -> 0..MaxIterations]
    BY <1>1, <1>2 DEF Iterations
  <2>2. usdgIn' \in [Intents -> Nat]
    BY <1>1, <1>2, <1>4
  <2>3. status' \in [Agents -> LoopStatuses] /\ pc' \in [Agents -> Steps]
    BY DEF Proposes
  <2> QED
    BY <1>0, <1>1, <2>1, <2>2, <2>3 DEF TypeOK
<1>11. LoopsOK'
  <2>1. \A b \in Agents : /\ (pc[b] \in {"preflight", "escrow", "execute", "settle", "refund"})' => status'[b] = "READY"
                          /\ (pc[b] \in {"reconcileSettle", "reconcileRefund"})' => status'[b] = "WAITING_RECONCILE"
    BY <1>0 DEF Proposes, LoopsOK
  <2>2. \A b \in Agents : (completed[b] \subseteq 1..iter[b])'
    <3>1. (completed[a] \subseteq 1..iter[a])'
      BY <1>0, <1>1, <1>2, <1>4 DEF LoopsOK
    <3>2. \A b \in Agents : b # a => (completed[b] \subseteq 1..iter[b])'
      BY <1>0, <1>1, <1>4 DEF LoopsOK
    <3> QED
      BY <3>1, <3>2
  <2>3. (iter[a] >= 1 /\ iter[a] \notin completed[a] /\ spent[a] + usdgIn[Key(a)] <= MaxCumulative)'
    BY <1>0, <1>1, <1>2, <1>4, <1>5 DEF LoopsOK
  <2>4. \A b \in Agents : b # a /\ Pending(b)' =>
          (iter[b] >= 1 /\ iter[b] \notin completed[b] /\ spent[b] + usdgIn[Key(b)] <= MaxCumulative)'
    <3>1. \A b \in Agents : b # a /\ Pending(b)' => Pending(b) /\ Key(b) \in Intents
      BY <1>9, KeyOK DEF Pending
    <3> QED
      BY <1>0, <1>1, <1>4, <1>5, <3>1 DEF LoopsOK
  <2> QED
    BY <2>1, <2>2, <2>3, <2>4 DEF LoopsOK
<1>12. FreshOK'
  <2>1. \A j : Untouched(j)' <=> Untouched(j)
    BY <1>1, <1>6 DEF Untouched
  <2>2. \A i \in Iterations : i > iter'[a] \/ i = iter'[a] => Untouched(<<a, i>>)
    BY <1>0, <1>2, <1>4 DEF FreshOK, Iterations
  <2>3. \A b \in Agents, i \in Iterations :
          b # a /\ (i > iter'[b] \/ (i = iter'[b] /\ Unescrowed(b)')) => Untouched(<<b, i>>)
    BY <1>0, <1>4, <1>9 DEF FreshOK
  <2> QED
    BY <2>1, <2>2, <2>3 DEF FreshOK
<1>13. FlightOK'
  <2>1. pc'[a] \notin {"execute", "settle", "reconcileSettle", "refund", "reconcileRefund"}
    BY DEF Proposes
  <2>2. \A b \in Agents : b # a => rec'[Key(b)'] = rec[Key(b)]
    BY <1>1, <1>5
  <2>3. \A b \in Agents : InFlight(b)' => /\ HasEntry("esc", Key(b))'
                                          /\ \A d \in Settlements \cup Refunds : ~HasEntry(d, Key(b))'
    BY <1>0, <1>5, <1>6, <1>9 DEF FlightOK
  <2> QED
    BY <1>0, <1>9, <2>1, <2>2, <2>3 DEF FlightOK
<1>14. RecordsOK'
  <2>1. rec'[k] = NoRecord /\ \A j \in Intents : rec'[j] = rec[j]
    BY <1>1, <1>3 DEF Untouched
  <2>2. \A j \in Intents : j # k => usdgIn'[j] = usdgIn[j]
    BY <1>4
  <2>3. NoRecord.outcome # "SUCCESS" /\ NoRecord.usdg = 0 /\ NoRecord.credit = 0
    BY DEF NoRecord
  <2> QED
    BY <1>0, <2>1, <2>2, <2>3, ZenonT(60) DEF RecordsOK, MinCreditOut
<1>15. AllowedOK'
  <2>1. \A j \in Intents : j # k => (Allowed(j)' <=> Allowed(j))
    BY <1>1, <1>4 DEF Allowed, Issued
  <2>2. pc'[a] \in {"preflight", "escrow"} => Allowed(k)'
    BY <1>1, <1>4, <1>k DEF Proposes, Allowed, Issued
  <2>3. \A b \in Agents : b # a /\ pc'[b] \in {"preflight", "escrow"} => Allowed(Key(b))'
    <3>1. \A b \in Agents : b # a /\ pc'[b] \in {"preflight", "escrow"} => Key(b) \in Intents /\ Allowed(Key(b))
      BY <1>0, <1>9, KeyOK DEF AllowedOK, Pending, Unescrowed
    <3>2. ASSUME NEW b \in Agents, b # a, pc'[b] \in {"preflight", "escrow"} PROVE Allowed(Key(b))'
      <4>1. PICK j \in Intents : j = Key(b) /\ j = Key(b)' /\ j # k /\ Allowed(j)
        BY <1>5, <3>1, <3>2
      <4>2. Allowed(j)'
        BY <2>1, <4>1
      <4> QED
        BY <4>1, <4>2 DEF Allowed
    <3> QED
      BY <3>2
  <2>4. \A j \in Intents : HasEntry("esc", j)' => Allowed(j)'
    BY <1>0, <1>3, <1>6, <2>1 DEF AllowedOK, Untouched, EntryKinds
  <2> QED
    BY <1>5, <2>2, <2>3, <2>4 DEF AllowedOK
<1>16. IssuedInOrder'
  BY <1>0, <1>1, ApprovalsSame
<1>17. ResolvedOnce'
  BY <1>0, <1>1, <1>6 DEF ResolvedOnce, Bought
<1>18. EscrowIsInFlight'
  <2>1. \A j \in Held : LET b == j[1] IN status'[b] = "CRASHED" \/ (j = Key(b)' /\ InFlight(b)')
    <3>1. \A j \in Held : j[1] \in Agents
      BY DEF Held, Intents
    <3>2. \A j \in Held : LET b == j[1] IN status[b] = "CRASHED" \/ (j = Key(b) /\ InFlight(b))
      BY <1>0 DEF EscrowIsInFlight, InFlight
    <3> QED
      BY <1>5, <1>9, <3>1, <3>2
  <2>2. bal'["ESCROW"] = bal["ESCROW"]
    BY <1>1
  <2> QED
    BY <1>0, <1>7, <1>8, <2>1, <2>2 DEF EscrowIsInFlight, InFlight
<1>19. PurchasesAccounted'
  BY <1>0, <1>1, <1>4, <1>9, AccountsSame
<1>20. SpendCapped'
  BY <1>0, <1>1, RecordsSame
<1> QED
  BY <1>10, <1>11, <1>12, <1>13, <1>14, <1>15, <1>16, <1>17, <1>18, <1>19, <1>20 DEF IInv

(* A transfer of an intent's amount: types and balances. *)
LEMMA TransferOK ==
  ASSUME TypeOK, NEW k \in Intents, NEW d \in EntryKinds,
         NEW x \in {"TREASURY", "ESCROW", "EXTERNAL_SINK"},
         NEW y \in {"TREASURY", "ESCROW", "EXTERNAL_SINK"}, x # y,
         Transfer(x, y, d, k), bal[x] >= Amount(usdgIn[k])
  PROVE  /\ posted' \subseteq [kind : EntryKinds, intent : Intents]
         /\ bal' \in [{"TREASURY", "ESCROW", "EXTERNAL_SINK"} -> Nat]
         /\ bal'[x] = bal[x] - Amount(usdgIn[k]) /\ bal'[y] = bal[y] + Amount(usdgIn[k])
         /\ \A e, j : HasEntry(e, j)' <=> HasEntry(e, j) \/ (e = d /\ j = k)
<1>1. posted \subseteq [kind : EntryKinds, intent : Intents] /\ bal \in [{"TREASURY", "ESCROW", "EXTERNAL_SINK"} -> Nat]
  BY DEF TypeOK
<1>2. PICK n \in Nat : n = Amount(usdgIn[k])
  BY AmountNat DEF TypeOK
<1>3. posted' = posted \cup {Entry(d, k)} /\ bal' = [bal EXCEPT ![x] = @ - n, ![y] = @ + n]
  BY <1>2 DEF Transfer
<1>4. posted' \subseteq [kind : EntryKinds, intent : Intents]
  BY <1>1, <1>3 DEF Entry
<1>5. /\ bal'[x] = bal[x] - n /\ bal'[y] = bal[y] + n
      /\ bal' \in [{"TREASURY", "ESCROW", "EXTERNAL_SINK"} -> Nat]
  <2>1. bal[x] \in Nat /\ bal[y] \in Nat /\ bal[x] >= n
    BY <1>1, <1>2
  <2>2. bal[x] - n \in Nat /\ bal[y] + n \in Nat
    BY <2>1
  <2> QED
    BY <1>1, <1>3, <2>2
<1>6. \A e, j : HasEntry(e, j)' <=> HasEntry(e, j) \/ (e = d /\ j = k)
  BY <1>3, EntryPosted
<1> QED
  BY <1>2, <1>4, <1>5, <1>6

(* The escrow of one intent is all that changes what is held. *)
LEMMA HeldChange ==
  ASSUME TypeOK, usdgIn' = usdgIn, NEW k \in Intents,
         \A j \in Intents : j # k => (j \in Held' <=> j \in Held)
  PROVE  SumFunction([j \in Intents |-> HeldAmount(j)])'
           = SumFunction([j \in Intents |-> HeldAmount(j)]) - HeldAmount(k) + HeldAmount(k)'
<1> DEFINE f == [j \in Intents |-> HeldAmount(j)]
           g == [j \in Intents |-> HeldAmount(j)']
<1>1. \A j \in Intents : Amount(usdgIn[j]) \in Nat
  BY AmountNat DEF TypeOK
<1>2. \A j \in Intents : (HeldAmount(j) \in Nat) /\ (HeldAmount(j)' \in Nat)
  BY <1>1 DEF HeldAmount, Amount
<1>3. f \in [Intents -> Int] /\ g \in [Intents -> Int]
  BY <1>2
<1>4. \A j \in Intents : j # k => f[j] = g[j]
  BY DEF HeldAmount, Amount
<1>5. f[k] = HeldAmount(k) /\ g[k] = HeldAmount(k)' /\ g = [j \in Intents |-> HeldAmount(j)]'
  OBVIOUS
<1> HIDE DEF f, g
<1>6. SumFunction(g) = SumFunction(f) - f[k] + g[k]
  BY <1>3, <1>4, IntentsFinite, SumChange
<1> QED
  BY <1>5, <1>6 DEF f, g

(* The escrow of an allowed intent is posted, and ESCROW grows by it. *)
LEMMA EscrowsOK == ASSUME IInv, NEW a \in Agents, Escrows(a) PROVE IInv'
<1>0. /\ TypeOK /\ LoopsOK /\ FreshOK /\ FlightOK /\ RecordsOK /\ AllowedOK /\ IssuedInOrder
      /\ ResolvedOnce /\ EscrowIsInFlight /\ PurchasesAccounted /\ SpendCapped
  BY DEF IInv
<1>1. /\ UNCHANGED <<status, iter, usdgIn, acquired, spent, completed, approval, approvals, rec, usdg, crashes>>
      /\ pc[a] = "escrow" /\ pc' = [pc EXCEPT ![a] = "execute"]
      /\ Unescrowed(a)
  BY DEF Escrows, Unescrowed
<1>2. PICK k \in Intents : k = Key(a) /\ k = <<a, iter[a]>> /\ iter[a] \in Iterations
  BY <1>1, KeyOK DEF Pending
<1>3. Untouched(k) /\ Allowed(k)
  BY <1>0, <1>1, <1>2 DEF FreshOK, AllowedOK
<1>4. \A b : Key(b)' = Key(b)
  BY <1>1 DEF Key
<1>5. /\ posted' \subseteq [kind : EntryKinds, intent : Intents]
      /\ bal' \in [{"TREASURY", "ESCROW", "EXTERNAL_SINK"} -> Nat]
      /\ bal'["ESCROW"] = bal["ESCROW"] + Amount(usdgIn[k])
      /\ \A e, j : HasEntry(e, j)' <=> HasEntry(e, j) \/ (e = "esc" /\ j = k)
  BY <1>0, <1>2, TransferOK DEF Escrows, EntryKinds
<1>6. pc'[a] = "execute" /\ \A b \in Agents : b # a => pc'[b] = pc[b]
  BY <1>0, <1>1 DEF TypeOK
<1>7. /\ status[a] = "READY" /\ status'[a] = "READY"
      /\ ~Unescrowed(a)' /\ InFlight(a)' /\ ~InFlight(a) /\ ~Unsettled(a) /\ ~Unsettled(a)'
      /\ \A b \in Agents : b # a => /\ Unescrowed(b)' <=> Unescrowed(b)
                                    /\ InFlight(b)' <=> InFlight(b)
                                    /\ Unsettled(b)' <=> Unsettled(b)
  BY <1>0, <1>1, <1>6 DEF Unescrowed, InFlight, Unsettled, LoopsOK
<1>8. \A d \in Settlements \cup Refunds : d \in EntryKinds /\ d # "esc"
  BY DEF Settlements, Refunds, EntryKinds
<1>9. Held' = Held \cup {k} /\ k \notin Held
  BY <1>3, <1>5, <1>8 DEF Held, Untouched, EntryKinds
<1>10. TypeOK'
  <2>1. pc' \in [Agents -> Steps]
    BY <1>0, <1>1 DEF TypeOK, Steps
  <2> QED
    BY <1>0, <1>1, <1>5, <2>1 DEF TypeOK
<1>11. LoopsOK'
  <2>1. \A b \in Agents : /\ (pc[b] \in {"preflight", "escrow", "execute", "settle", "refund"})' => status'[b] = "READY"
                          /\ (pc[b] \in {"reconcileSettle", "reconcileRefund"})' => status'[b] = "WAITING_RECONCILE"
    BY <1>0, <1>1, <1>6, <1>7 DEF LoopsOK
  <2>2. \A b \in Agents : Pending(b)' => Pending(b)
    BY <1>1, <1>7 DEF Pending
  <2>3. \A b \in Agents : /\ (completed[b] \subseteq 1..iter[b])'
                          /\ Pending(b)' => (/\ iter[b] >= 1 /\ iter[b] \notin completed[b]
                                             /\ spent[b] + usdgIn[Key(b)] <= MaxCumulative)'
    BY <1>0, <1>1, <1>4, <2>2 DEF LoopsOK
  <2> QED
    BY <2>1, <2>3 DEF LoopsOK
<1>12. FreshOK'
  <2>1. \A j : j # k => (Untouched(j)' <=> Untouched(j))
    BY <1>1, <1>5 DEF Untouched
  <2>2. ASSUME NEW b \in Agents, NEW i \in Iterations, (i > iter[b] \/ (i = iter[b] /\ Unescrowed(b)))'
        PROVE  Untouched(<<b, i>>)'
    <3>1. Untouched(<<b, i>>)
      BY <1>0, <1>1, <1>7, <2>2 DEF FreshOK
    <3>2. <<b, i>> # k
      BY <1>0, <1>1, <1>2, <1>7, <2>2 DEF TypeOK, Iterations
    <3> QED
      BY <2>1, <3>1, <3>2
  <2> QED
    BY <2>2 DEF FreshOK
<1>13. FlightOK'
  <2>1. \A b \in Agents : InFlight(b)' => /\ HasEntry("esc", Key(b))'
                                          /\ \A d \in Settlements \cup Refunds : ~HasEntry(d, Key(b))'
    <3>1. \A b \in Agents : InFlight(b) => /\ HasEntry("esc", Key(b))
                                          /\ \A d \in Settlements \cup Refunds : ~HasEntry(d, Key(b))
      BY <1>0 DEF FlightOK
    <3>2. \A d \in Settlements \cup Refunds : ~HasEntry(d, k)
      BY <1>3, <1>8 DEF Untouched
    <3>3. HasEntry("esc", Key(a))' /\ \A d \in Settlements \cup Refunds : ~HasEntry(d, Key(a))'
      BY <1>2, <1>4, <1>5, <1>8, <3>2
    <3>4. \A b \in Agents : \A d \in Settlements \cup Refunds : HasEntry(d, Key(b))' <=> HasEntry(d, Key(b))
      BY <1>4, <1>5, <1>8
    <3>5. \A b \in Agents : HasEntry("esc", Key(b)) => HasEntry("esc", Key(b))'
      BY <1>4, <1>5
    <3> QED
      BY <1>7, <3>1, <3>3, <3>4, <3>5
  <2>2. \A b \in Agents : rec'[Key(b)'] = rec[Key(b)]
    BY <1>1, <1>4
  <2>3. rec[Key(a)] = NoRecord
    BY <1>2, <1>3 DEF Untouched
  <2> QED
    BY <1>0, <1>6, <2>1, <2>2, <2>3 DEF FlightOK
<1>14. RecordsOK'
  BY <1>0, <1>1 DEF RecordsOK, MinCreditOut
<1>15. AllowedOK'
  <2>1. \A j : Allowed(j)' <=> Allowed(j)
    BY <1>1 DEF Allowed, Issued
  <2>2. \A b \in Agents : pc'[b] \in {"preflight", "escrow"} => Allowed(Key(b))
    BY <1>0, <1>6 DEF AllowedOK
  <2> QED
    BY <1>0, <1>3, <1>4, <1>5, <2>1, <2>2 DEF AllowedOK
<1>16. IssuedInOrder'
  BY <1>0, <1>1, ApprovalsSame
<1>17. ResolvedOnce'
  <2>1. \A d \in Settlements \cup Refunds : \A j : HasEntry(d, j)' <=> HasEntry(d, j)
    BY <1>5, <1>8
  <2>2. \A j : Bought(j)' <=> Bought(j)
    BY <1>1, RecordsSame
  <2> QED
    BY <1>0, <2>1, <2>2 DEF ResolvedOnce
<1>18. EscrowIsInFlight'
  <2>1. \A j \in Held' : LET b == j[1] IN status'[b] = "CRASHED" \/ (j = Key(b)' /\ InFlight(b)')
    <3>1. \A j \in Held : j[1] \in Agents
      BY DEF Held, Intents
    <3>2. \A j \in Held : LET b == j[1] IN status[b] = "CRASHED" \/ (j = Key(b) /\ InFlight(b))
      BY <1>0 DEF EscrowIsInFlight, InFlight
    <3>3. k[1] = a
      BY <1>2
    <3> QED
      BY <1>1, <1>2, <1>4, <1>7, <1>9, <3>1, <3>2, <3>3
  <2>2. HeldAmount(k) = 0 /\ HeldAmount(k)' = Amount(usdgIn[k])
    BY <1>1, <1>9 DEF HeldAmount, Amount
  <2>3. SumFunction([j \in Intents |-> HeldAmount(j)])'
          = SumFunction([j \in Intents |-> HeldAmount(j)]) - HeldAmount(k) + HeldAmount(k)'
    BY <1>0, <1>1, <1>9, HeldChange
  <2>4. bal["ESCROW"] \in Nat /\ Amount(usdgIn[k]) \in Nat
    BY <1>0, AmountNat DEF TypeOK
  <2>5. bal'["ESCROW"] = SumFunction([j \in Intents |-> HeldAmount(j)])'
    BY <1>0, <1>5, <2>2, <2>3, <2>4 DEF EscrowIsInFlight
  <2> QED
    BY <2>1, <2>5 DEF EscrowIsInFlight, InFlight
<1>19. PurchasesAccounted'
  BY <1>0, <1>1, <1>7, AccountsSame
<1>20. SpendCapped'
  BY <1>0, <1>1, RecordsSame
<1> QED
  BY <1>10, <1>11, <1>12, <1>13, <1>14, <1>15, <1>16, <1>17, <1>18, <1>19, <1>20 DEF IInv

(* The exchange took nothing for a loop that is about to execute but what it *)
(* has counted.                                                              *)
LEMMA TakenIsSpent ==
  ASSUME IInv, NEW a \in Agents, pc[a] = "execute"
  PROVE  SumFunction(Taken(a)) = spent[a] /\ Taken(a) \in [Iterations -> Nat]
<1>0. TypeOK /\ LoopsOK /\ FlightOK /\ RecordsOK /\ PurchasesAccounted
  BY DEF IInv
<1>1. iter[a] \in Iterations /\ Key(a) = <<a, iter[a]>>
  BY KeyOK DEF Pending, InFlight
<1>2. status[a] = "READY" /\ ~Unsettled(a) /\ rec[<<a, iter[a]>>] = NoRecord
  BY <1>0, <1>1 DEF LoopsOK, Unsettled, FlightOK
<1>3. \A i \in Iterations : <<a, i>> \in Intents
  BY DEF Intents, Iterations
<1>4. ASSUME NEW i \in Iterations, i \notin completed[a]
      PROVE  rec[<<a, i>>].usdg = 0
  <2>1. rec[<<a, i>>].outcome # "SUCCESS"
    BY <1>0, <1>2, <1>4 DEF PurchasesAccounted, Bought, NoRecord, Iterations
  <2> QED
    BY <1>0, <1>3, <2>1 DEF RecordsOK
<1>5. Taken(a) = Paid(a)
  BY <1>4 DEF Taken, Paid, Iterations
<1>6. Taken(a) \in [Iterations -> Nat]
  BY <1>0, <1>3 DEF Taken, TypeOK, Iterations
<1> QED
  BY <1>0, <1>2, <1>5, <1>6 DEF PurchasesAccounted

(* The exchange's record of a purchase fits what is left of the limit. *)
LEMMA ExecutesOK == ASSUME IInv, NEW a \in Agents, NEW r, Executes(a, r) PROVE IInv'
<1>0. /\ TypeOK /\ LoopsOK /\ FreshOK /\ FlightOK /\ RecordsOK /\ AllowedOK /\ IssuedInOrder
      /\ ResolvedOnce /\ EscrowIsInFlight /\ PurchasesAccounted /\ SpendCapped
  BY DEF IInv
<1>1. /\ UNCHANGED <<iter, usdgIn, acquired, spent, completed, posted, bal, approvals, approval, crashes>>
      /\ pc[a] = "execute" /\ InFlight(a) /\ Pending(a)
  BY DEF Executes, InFlight, Pending
<1>2. PICK k \in Intents : k = Key(a) /\ k = <<a, iter[a]>> /\ iter[a] \in Iterations
  BY <1>1, KeyOK
<1>3. /\ rec' = [rec EXCEPT ![k] = r] /\ usdg' = usdg - r.usdg
  BY <1>2 DEF Executes, Record
<1>4. /\ rec[k] = NoRecord /\ iter[a] \notin completed[a] /\ status[a] = "READY"
      /\ spent[a] + usdgIn[k] <= MaxCumulative
  BY <1>0, <1>1, <1>2 DEF FlightOK, LoopsOK
<1>5. usdgIn[k] \in Nat /\ usdg \in Nat /\ MinCreditOut(usdgIn[k]) \in Nat
  BY <1>0, AmountNat DEF TypeOK
<1>6. /\ r \in [outcome : {"none", "SUCCESS", "FAILURE"}, usdg : Nat, credit : Nat]
      /\ r.usdg <= usdg /\ r.usdg <= usdgIn[k]
      /\ r.outcome = "SUCCESS" => r.usdg = usdgIn[k] /\ r.credit >= MinCreditOut(usdgIn[k])
      /\ r.outcome # "SUCCESS" => r.usdg = 0 /\ r.credit = 0
  BY <1>2, <1>5 DEF Executes, NoRecord, Failed
<1>7. rec'[k] = r /\ \A j \in Intents : j # k => rec'[j] = rec[j]
  BY <1>0, <1>3 DEF TypeOK
<1>8. (\A b : Key(b)' = Key(b)) /\ \A b \in Agents : b # a => Key(b) # k
  BY <1>1, <1>2 DEF Key
<1>9. /\ \A d, j : HasEntry(d, j)' <=> HasEntry(d, j)
      /\ Held' = Held /\ bal'["ESCROW"] = bal["ESCROW"]
      /\ [j \in Intents |-> HeldAmount(j)]' = [j \in Intents |-> HeldAmount(j)]
  BY <1>1, LedgerSame
<1>10. /\ ~Unescrowed(a) /\ ~Unescrowed(a)' /\ InFlight(a)' /\ ~Unsettled(a)
       /\ r.outcome = "SUCCESS" => Unsettled(a)'
       /\ \A b \in Agents : b # a => /\ Unescrowed(b)' <=> Unescrowed(b)
                                     /\ InFlight(b)' <=> InFlight(b)
                                     /\ Unsettled(b)' <=> Unsettled(b)
                                     /\ status'[b] = status[b] /\ pc'[b] = pc[b]
  BY <1>1, <1>4 DEF Executes, Unescrowed, InFlight, Unsettled
<1>11. \/ status'[a] = "WAITING_RECONCILE" /\ pc'[a] = "idle"
       \/ status'[a] = "READY" /\ pc'[a] = "settle" /\ r.outcome = "SUCCESS"
       \/ status'[a] = "READY" /\ pc'[a] = "refund" /\ r.outcome = "FAILURE"
  BY DEF Executes
<1>12. TypeOK'
  <2>1. usdg' \in Nat
    BY <1>3, <1>5, <1>6
  <2>2. rec' \in [Intents -> [outcome : {"none", "SUCCESS", "FAILURE"}, usdg : Nat, credit : Nat]]
    BY <1>0, <1>3, <1>6 DEF TypeOK
  <2>3. status' \in [Agents -> LoopStatuses] /\ pc' \in [Agents -> Steps]
    BY DEF Executes
  <2> QED
    BY <1>0, <1>1, <2>1, <2>2, <2>3 DEF TypeOK
<1>13. LoopsOK'
  <2>1. \A b \in Agents : /\ (pc[b] \in {"preflight", "escrow", "execute", "settle", "refund"})' => status'[b] = "READY"
                          /\ (pc[b] \in {"reconcileSettle", "reconcileRefund"})' => status'[b] = "WAITING_RECONCILE"
    BY <1>0, <1>10, <1>11 DEF LoopsOK
  <2>2. \A b \in Agents : Pending(b)' => Pending(b)
    BY <1>1, <1>10 DEF Pending
  <2>3. \A b \in Agents : /\ (completed[b] \subseteq 1..iter[b])'
                          /\ Pending(b)' => (/\ iter[b] >= 1 /\ iter[b] \notin completed[b]
                                             /\ spent[b] + usdgIn[Key(b)] <= MaxCumulative)'
    BY <1>0, <1>1, <1>8, <2>2 DEF LoopsOK
  <2> QED
    BY <2>1, <2>3 DEF LoopsOK
<1>14. FreshOK'
  <2>1. \A j \in Intents : j # k => (Untouched(j)' <=> Untouched(j))
    BY <1>7, <1>9 DEF Untouched
  <2>2. ASSUME NEW b \in Agents, NEW i \in Iterations, (i > iter[b] \/ (i = iter[b] /\ Unescrowed(b)))'
        PROVE  Untouched(<<b, i>>)'
    <3>1. Untouched(<<b, i>>)
      BY <1>0, <1>1, <1>10, <2>2 DEF FreshOK
    <3>2. <<b, i>> \in Intents
      BY DEF Iterations, Intents
    <3>3. <<b, i>> # k
      BY <1>0, <1>1, <1>2, <1>10, <2>2 DEF TypeOK, Iterations
    <3> QED
      BY <2>1, <3>1, <3>2, <3>3
  <2> QED
    BY <2>2 DEF FreshOK
<1>15. FlightOK'
  <2>1. \A b \in Agents : InFlight(b)' => /\ HasEntry("esc", Key(b))'
                                          /\ \A d \in Settlements \cup Refunds : ~HasEntry(d, Key(b))'
    BY <1>0, <1>1, <1>8, <1>9, <1>10 DEF FlightOK
  <2>2. ASSUME NEW b \in Agents, b # a
        PROVE  /\ pc'[b] = "execute" => rec'[Key(b)'] = NoRecord
               /\ pc'[b] \in {"settle", "reconcileSettle"} => rec'[Key(b)'].outcome = "SUCCESS"
               /\ pc'[b] \in {"refund", "reconcileRefund"} => rec'[Key(b)'].outcome = "FAILURE"
    <3>1. pc[b] \in {"execute", "settle", "reconcileSettle", "refund", "reconcileRefund"} => Pending(b)
      BY <1>0 DEF Pending, InFlight, LoopsOK
    <3>2. Pending(b) => rec'[Key(b)'] = rec[Key(b)]
      BY <1>7, <1>8, <2>2, KeyOK
    <3> QED
      BY <1>0, <1>10, <2>2, <3>1, <3>2 DEF FlightOK
  <2>3. /\ pc'[a] # "execute"
        /\ pc'[a] \in {"settle", "reconcileSettle"} => rec'[Key(a)'].outcome = "SUCCESS"
        /\ pc'[a] \in {"refund", "reconcileRefund"} => rec'[Key(a)'].outcome = "FAILURE"
    BY <1>2, <1>7, <1>8, <1>11
  <2> QED
    BY <2>1, <2>2, <2>3 DEF FlightOK
<1>16. RecordsOK'
  <2>1. \A j : usdgIn'[j] = usdgIn[j]
    BY <1>1
  <2>2. ASSUME NEW j \in Intents
        PROVE  /\ rec'[j].outcome = "SUCCESS" => rec'[j].usdg = usdgIn[j] /\ rec'[j].credit >= MinCreditOut(usdgIn[j])
               /\ rec'[j].outcome # "SUCCESS" => rec'[j].usdg = 0 /\ rec'[j].credit = 0
    <3>1. CASE j = k
      BY <1>6, <1>7, <3>1
    <3>2. CASE j # k
      BY <1>0, <1>7, <3>2 DEF RecordsOK
    <3> QED
      BY <3>1, <3>2
  <2> QED
    BY <2>1, <2>2 DEF RecordsOK
<1>17. AllowedOK'
  <2>1. \A j : Allowed(j)' <=> Allowed(j)
    BY <1>1 DEF Allowed, Issued
  <2>2. \A b \in Agents : pc'[b] \in {"preflight", "escrow"} => Allowed(Key(b))
    BY <1>0, <1>10, <1>11 DEF AllowedOK
  <2> QED
    BY <1>0, <1>8, <1>9, <2>1, <2>2 DEF AllowedOK
<1>18. IssuedInOrder'
  BY <1>0, <1>1, ApprovalsSame
<1>19. \A j \in Intents : j # k => (Bought(j)' <=> Bought(j))
  BY <1>7 DEF Bought
<1>20. ResolvedOnce'
  <2>1. \A d \in Settlements \cup Refunds : ~HasEntry(d, k)
    BY <1>0, <1>1, <1>2 DEF FlightOK
  <2> QED
    BY <1>0, <1>9, <1>19, <2>1 DEF ResolvedOnce
<1>21. EscrowIsInFlight'
  <2>1. \A j \in Held : LET b == j[1] IN status'[b] = "CRASHED" \/ (j = Key(b)' /\ InFlight(b)')
    <3>1. \A j \in Held : j[1] \in Agents
      BY DEF Held, Intents
    <3>2. \A j \in Held : LET b == j[1] IN status[b] = "CRASHED" \/ (j = Key(b) /\ InFlight(b))
      BY <1>0 DEF EscrowIsInFlight, InFlight
    <3> QED
      BY <1>4, <1>8, <1>10, <3>1, <3>2
  <2> QED
    BY <1>0, <1>9, <2>1 DEF EscrowIsInFlight, InFlight
<1>22. PurchasesAccounted'
  <2>1. \A b \in Agents, i \in Iterations : i \in completed[b] => rec'[<<b, i>>] = rec[<<b, i>>]
    <3>1. \A b \in Agents, i \in Iterations : i \in completed[b] => <<b, i>> # k /\ <<b, i>> \in Intents
      BY <1>2, <1>4 DEF Intents, Iterations
    <3> QED
      BY <1>7, <3>1
  <2>2. \A b \in Agents : Paid(b)' = Paid(b) /\ Received(b)' = Received(b)
    BY <1>1, <2>1 DEF Paid, Received, Iterations
  <2>3. ASSUME NEW b \in Agents, NEW i \in 1..MaxIterations, status'[b] # "CRASHED", Bought(<<b, i>>)'
        PROVE  (i \in completed[b] \/ (i = iter[b] /\ Unsettled(b)))'
    <3>1. <<b, i>> \in Intents
      BY DEF Intents
    <3>2. CASE <<b, i>> = k
      <4>1. b = a /\ i = iter[a] /\ r.outcome = "SUCCESS"
        BY <1>2, <1>7, <2>3, <3>2 DEF Bought
      <4> QED
        BY <1>1, <1>10, <4>1
    <3>3. CASE <<b, i>> # k
      <4>1. Bought(<<b, i>>) /\ status[b] # "CRASHED"
        BY <1>4, <1>10, <1>19, <2>3, <3>1, <3>3
      <4>2. i \in completed[b] \/ (i = iter[b] /\ Unsettled(b))
        BY <1>0, <4>1 DEF PurchasesAccounted
      <4> QED
        BY <1>1, <1>10, <4>2
    <3> QED
      BY <3>2, <3>3
  <2>4. \A b \in Agents : status'[b] # "CRASHED" => status[b] # "CRASHED"
    BY <1>4, <1>10
  <2>5. \A b \in Agents : status'[b] # "CRASHED" =>
          (spent[b] = SumFunction(Paid(b)) /\ acquired[b] = SumFunction(Received(b)))'
    BY <1>0, <1>1, <2>2, <2>4 DEF PurchasesAccounted
  <2> QED
    BY <2>3, <2>5 DEF PurchasesAccounted
<1>23. SpendCapped'
  <2>1. ASSUME NEW b \in Agents, b # a PROVE SumFunction(Taken(b))' <= MaxCumulative
    <3>1. \A i \in Iterations : <<b, i>> \in Intents /\ <<b, i>> # k
      BY <1>2, <2>1 DEF Intents, Iterations
    <3>2. \A i \in 1..MaxIterations : rec'[<<b, i>>].usdg = rec[<<b, i>>].usdg
      BY <1>7, <3>1 DEF Iterations
    <3>3. Taken(b)' = Taken(b)
      BY <3>2 DEF Taken
    <3> QED
      BY <1>0, <3>3 DEF SpendCapped
  <2>2. SumFunction(Taken(a))' <= MaxCumulative
    <3> DEFINE f == Taken(a)
               g == Taken(a)'
    <3>1. SumFunction(f) = spent[a] /\ f \in [Iterations -> Nat]
      BY <1>1, TakenIsSpent
    <3>2. \A i \in Iterations : <<a, i>> \in Intents /\ (<<a, i>> = k <=> i = iter[a])
      BY <1>2 DEF Intents, Iterations
    <3>3. g = [i \in Iterations |-> rec'[<<a, i>>].usdg] /\ f = [i \in Iterations |-> rec[<<a, i>>].usdg]
      BY DEF Taken, Iterations
    <3>4. \A i \in Iterations : i # iter[a] => f[i] = g[i]
      BY <1>7, <3>2, <3>3
    <3>5. f[iter[a]] = 0 /\ g[iter[a]] = r.usdg
      BY <1>2, <1>4, <1>7, <3>3 DEF NoRecord
    <3>6. g \in [Iterations -> Nat]
      <4>1. \A i \in Iterations : rec'[<<a, i>>].usdg \in Nat
        BY <1>12, <3>2 DEF TypeOK
      <4> QED
        BY <3>3, <4>1
    <3>7. spent[a] \in Nat /\ r.usdg \in Nat /\ MaxCumulative \in Nat
      BY <1>0, <1>6, Constants DEF TypeOK
    <3>8. SumFunction(Taken(a))' = SumFunction(g)
      OBVIOUS
    <3> HIDE DEF f, g
    <3>9. f \in [Iterations -> Int] /\ g \in [Iterations -> Int]
      BY <3>1, <3>6
    <3>10. SumFunction(g) = SumFunction(f) - f[iter[a]] + g[iter[a]]
      BY <1>2, <3>4, <3>9, IntentsFinite, SumChange
    <3>11. SumFunction(g) <= MaxCumulative
      BY <1>4, <1>5, <1>6, <3>1, <3>5, <3>7, <3>10
    <3> QED
      BY <3>8, <3>11
  <2> QED
    BY <2>1, <2>2 DEF SpendCapped
<1> QED
  BY <1>12, <1>13, <1>14, <1>15, <1>16, <1>17, <1>18, <1>20, <1>21, <1>22, <1>23 DEF IInv

(* What settling and refunding have in common: the escrow of the purchase in *)
(* flight is resolved, and the loop has nothing in flight any more.          *)
Resolves(a, x, d, s) ==
    /\ InFlight(a)
    /\ x \in {"TREASURY", "EXTERNAL_SINK"} /\ d \in Settlements \cup Refunds /\ s \in Stopped \cup {"READY"}
    /\ IF d \in Settlements THEN Bought(Key(a)) ELSE ~Bought(Key(a))
    /\ Transfer("ESCROW", x, d, Key(a))
    /\ pc' = [pc EXCEPT ![a] = "idle"]
    /\ status' = [status EXCEPT ![a] = s]
    /\ UNCHANGED <<iter, usdgIn, approvals, rec, usdg, crashes>>

(* What follows for the loops. *)
LEMMA ResolvesLoops ==
  ASSUME IInv, NEW a \in Agents, NEW x, NEW d, NEW s, Resolves(a, x, d, s)
  PROVE  /\ status' \in [Agents -> LoopStatuses] /\ pc' \in [Agents -> Steps]
         /\ status'[a] = s /\ pc'[a] = "idle" /\ s \notin {"WAITING_HUMAN", "WAITING_RECONCILE", "CRASHED"}
         /\ status[a] # "CRASHED"
         /\ ~Unescrowed(a)' /\ ~InFlight(a)' /\ ~Unsettled(a)'
         /\ \A b \in Agents : b # a => /\ Unescrowed(b)' <=> Unescrowed(b)
                                       /\ InFlight(b)' <=> InFlight(b)
                                       /\ Unsettled(b)' <=> Unsettled(b)
                                       /\ status'[b] = status[b] /\ pc'[b] = pc[b]
<1>0. TypeOK /\ LoopsOK
  BY DEF IInv
<1>1. status' = [status EXCEPT ![a] = s] /\ pc' = [pc EXCEPT ![a] = "idle"] /\ s \in Stopped \cup {"READY"}
  BY DEF Resolves
<1>2. status \in [Agents -> LoopStatuses] /\ pc \in [Agents -> Steps]
  BY <1>0 DEF TypeOK
<1>3. status' \in [Agents -> LoopStatuses] /\ pc' \in [Agents -> Steps]
  BY <1>1, <1>2 DEF LoopStatuses, Steps
<1>4. status'[a] = s /\ pc'[a] = "idle" /\ \A b \in Agents : b # a => status'[b] = status[b] /\ pc'[b] = pc[b]
  BY <1>1, <1>2
<1>5. s \notin {"WAITING_HUMAN", "WAITING_RECONCILE", "CRASHED"}
  BY <1>1 DEF Stopped
<1>6. status[a] # "CRASHED"
  BY <1>0 DEF Resolves, InFlight, LoopsOK
<1> QED
  BY <1>3, <1>4, <1>5, <1>6 DEF Unescrowed, InFlight, Unsettled

(* And for the ledger, the exchange and the approvals. *)
LEMMA ResolvesOK ==
  ASSUME IInv, NEW a \in Agents, NEW x, NEW d, NEW s, Resolves(a, x, d, s)
  PROVE  /\ posted' \subseteq [kind : EntryKinds, intent : Intents]
         /\ bal' \in [{"TREASURY", "ESCROW", "EXTERNAL_SINK"} -> Nat]
         /\ FreshOK' /\ FlightOK' /\ RecordsOK' /\ AllowedOK' /\ IssuedInOrder'
         /\ ResolvedOnce' /\ EscrowIsInFlight' /\ SpendCapped'
<1>0. /\ TypeOK /\ LoopsOK /\ FreshOK /\ FlightOK /\ RecordsOK /\ AllowedOK /\ IssuedInOrder
      /\ ResolvedOnce /\ EscrowIsInFlight /\ SpendCapped
  BY DEF IInv
<1>1. /\ UNCHANGED <<iter, usdgIn, approvals, rec, usdg, crashes>> /\ InFlight(a) /\ Pending(a)
      /\ x \in {"TREASURY", "EXTERNAL_SINK"} /\ d \in Settlements \cup Refunds
      /\ IF d \in Settlements THEN Bought(Key(a)) ELSE ~Bought(Key(a))
  BY DEF Resolves, Pending
<1>2. PICK k \in Intents : k = Key(a) /\ k = <<a, iter[a]>> /\ iter[a] \in Iterations
  BY <1>1, KeyOK
<1>3. k \in Held /\ bal["ESCROW"] >= Amount(usdgIn[k])
  BY <1>1, <1>2, EscrowEnough
<1>4. d \in EntryKinds /\ d # "esc" /\ (\A e \in Settlements \cup Refunds : e # "esc") /\ Settlements \cap Refunds = {}
  BY <1>1 DEF Settlements, Refunds, EntryKinds
<1>5. /\ posted' \subseteq [kind : EntryKinds, intent : Intents]
      /\ bal' \in [{"TREASURY", "ESCROW", "EXTERNAL_SINK"} -> Nat]
      /\ bal'["ESCROW"] = bal["ESCROW"] - Amount(usdgIn[k])
      /\ \A e, j : HasEntry(e, j)' <=> HasEntry(e, j) \/ (e = d /\ j = k)
  BY <1>0, <1>1, <1>2, <1>3, <1>4, TransferOK DEF Resolves
<1>6. (\A b : Key(b)' = Key(b)) /\ \A b \in Agents : b # a => Key(b) # k
  BY <1>1, <1>2 DEF Key
<1>7. /\ status[a] # "CRASHED" /\ pc'[a] = "idle"
      /\ ~Unescrowed(a)' /\ ~InFlight(a)'
      /\ \A b \in Agents : b # a => /\ Unescrowed(b)' <=> Unescrowed(b)
                                    /\ InFlight(b)' <=> InFlight(b)
                                    /\ status'[b] = status[b] /\ pc'[b] = pc[b]
  BY ResolvesLoops
<1>8. Held' = Held \ {k}
  <2>1. k \notin Held'
    BY <1>1, <1>5 DEF Held
  <2>2. \A j \in Intents : j # k => (j \in Held' <=> j \in Held)
    BY <1>5 DEF Held
  <2> QED
    BY <2>1, <2>2 DEF Held
<1>9. \A j : Bought(j)' <=> Bought(j)
  BY <1>1, RecordsSame
<1>10. FreshOK'
  <2>1. \A j : j # k => (Untouched(j)' <=> Untouched(j))
    BY <1>1, <1>5 DEF Untouched
  <2>2. ASSUME NEW b \in Agents, NEW i \in Iterations, (i > iter[b] \/ (i = iter[b] /\ Unescrowed(b)))'
        PROVE  Untouched(<<b, i>>)'
    <3>1. Untouched(<<b, i>>)
      BY <1>0, <1>1, <1>7, <2>2 DEF FreshOK
    <3>2. <<b, i>> # k
      BY <1>0, <1>1, <1>2, <1>7, <2>2 DEF TypeOK, Iterations
    <3> QED
      BY <2>1, <3>1, <3>2
  <2> QED
    BY <2>2 DEF FreshOK
<1>11. FlightOK'
  <2>1. \A b \in Agents : InFlight(b)' => b # a /\ InFlight(b)
    BY <1>7
  <2>2. \A b \in Agents : InFlight(b)' => /\ HasEntry("esc", Key(b))'
                                          /\ \A e \in Settlements \cup Refunds : ~HasEntry(e, Key(b))'
    <3>1. \A b \in Agents : b # a => \A e : HasEntry(e, Key(b))' <=> HasEntry(e, Key(b))
      BY <1>5, <1>6
    <3> QED
      BY <1>0, <2>1, <3>1 DEF FlightOK
  <2>3. \A b \in Agents : rec'[Key(b)'] = rec[Key(b)]
    BY <1>1, <1>6
  <2> QED
    BY <1>0, <1>7, <2>2, <2>3 DEF FlightOK
<1>12. RecordsOK'
  BY <1>0, <1>1 DEF RecordsOK, MinCreditOut
<1>13. AllowedOK'
  <2>1. \A j : Allowed(j)' <=> Allowed(j)
    BY <1>1 DEF Allowed, Issued
  <2>2. \A b \in Agents : pc'[b] \in {"preflight", "escrow"} => Allowed(Key(b))
    BY <1>0, <1>7 DEF AllowedOK
  <2>3. \A j : HasEntry("esc", j)' <=> HasEntry("esc", j)
    BY <1>4, <1>5
  <2> QED
    BY <1>0, <1>6, <2>1, <2>2, <2>3 DEF AllowedOK
<1>14. IssuedInOrder'
  BY <1>0, <1>1, ApprovalsSame
<1>15. ResolvedOnce'
  <2>1. \A e \in Settlements \cup Refunds : HasEntry(e, k)' <=> e = d
    BY <1>3, <1>5 DEF Held
  <2>2. \A j \in Intents : j # k => \A e : HasEntry(e, j)' <=> HasEntry(e, j)
    BY <1>5
  <2>3. ASSUME NEW j \in Intents
        PROVE  /\ \A e \in Settlements : HasEntry(e, j)' => Bought(j)
               /\ \A e \in Refunds : HasEntry(e, j)' => ~Bought(j)
               /\ \A e, f \in Settlements \cup Refunds : HasEntry(e, j)' /\ HasEntry(f, j)' => e = f
    <3>1. CASE j = k
      BY <1>1, <1>2, <1>4, <2>1, <3>1
    <3>2. CASE j # k
      BY <1>0, <2>2, <3>2 DEF ResolvedOnce
    <3> QED
      BY <3>1, <3>2
  <2> QED
    BY <1>9, <2>3 DEF ResolvedOnce
<1>16. EscrowIsInFlight'
  <2>1. \A j \in Held' : LET b == j[1] IN status'[b] = "CRASHED" \/ (j = Key(b)' /\ InFlight(b)')
    <3>1. \A j \in Held : j[1] \in Agents
      BY DEF Held, Intents
    <3>2. \A j \in Held : LET b == j[1] IN status[b] = "CRASHED" \/ (j = Key(b) /\ InFlight(b))
      BY <1>0 DEF EscrowIsInFlight, InFlight
    <3> QED
      BY <1>2, <1>6, <1>7, <1>8, <3>1, <3>2
  <2>2. HeldAmount(k)' = 0 /\ HeldAmount(k) = Amount(usdgIn[k])
    BY <1>3, <1>8 DEF HeldAmount
  <2>3. SumFunction([j \in Intents |-> HeldAmount(j)])'
          = SumFunction([j \in Intents |-> HeldAmount(j)]) - HeldAmount(k) + HeldAmount(k)'
    BY <1>0, <1>1, <1>8, HeldChange
  <2>4. bal["ESCROW"] \in Nat /\ Amount(usdgIn[k]) \in Nat
    BY <1>0, AmountNat DEF TypeOK
  <2>5. bal'["ESCROW"] = SumFunction([j \in Intents |-> HeldAmount(j)])'
    BY <1>0, <1>5, <2>2, <2>3, <2>4 DEF EscrowIsInFlight
  <2> QED
    BY <2>1, <2>5 DEF EscrowIsInFlight, InFlight
<1>17. SpendCapped'
  BY <1>0, <1>1, RecordsSame
<1> QED
  BY <1>5, <1>10, <1>11, <1>12, <1>13, <1>14, <1>15, <1>16, <1>17

(* A refund leaves the loop's accounts alone: nothing was bought. *)
LEMMA GivesBackOK == ASSUME IInv, NEW a \in Agents, NEW d, GivesBack(a, d) PROVE IInv'
<1>0. TypeOK /\ LoopsOK /\ FlightOK /\ PurchasesAccounted
  BY DEF IInv
<1>1. /\ UNCHANGED <<iter, usdgIn, acquired, spent, completed, approvals, rec, usdg, crashes>>
      /\ pc[a] \in {"refund", "reconcileRefund"} /\ approval' \in [Agents -> 0..MaxApprovals]
  BY DEF GivesBack
<1>2. InFlight(a) /\ ~Bought(Key(a))
  BY <1>0, <1>1 DEF LoopsOK, InFlight, FlightOK, Bought
<1>3. Resolves(a, "TREASURY", d, "STOPPED_FAILURE")
  BY <1>1, <1>2 DEF GivesBack, Resolves, Stopped, Settlements, Refunds
<1>4. /\ status' \in [Agents -> LoopStatuses] /\ pc' \in [Agents -> Steps]
      /\ status[a] # "CRASHED" /\ status'[a] = "STOPPED_FAILURE" /\ pc'[a] = "idle"
      /\ ~Unescrowed(a)' /\ ~InFlight(a)' /\ ~Unsettled(a)'
      /\ \A b \in Agents : b # a => /\ Unescrowed(b)' <=> Unescrowed(b)
                                    /\ InFlight(b)' <=> InFlight(b)
                                    /\ Unsettled(b)' <=> Unsettled(b)
                                    /\ status'[b] = status[b] /\ pc'[b] = pc[b]
  BY <1>3, ResolvesLoops
<1>5. /\ posted' \subseteq [kind : EntryKinds, intent : Intents]
      /\ bal' \in [{"TREASURY", "ESCROW", "EXTERNAL_SINK"} -> Nat]
      /\ FreshOK' /\ FlightOK' /\ RecordsOK' /\ AllowedOK' /\ IssuedInOrder'
      /\ ResolvedOnce' /\ EscrowIsInFlight' /\ SpendCapped'
  BY <1>3, ResolvesOK
<1>6. TypeOK'
  BY <1>0, <1>1, <1>4, <1>5 DEF TypeOK
<1>7. LoopsOK'
  <2>1. \A b \in Agents : /\ (pc[b] \in {"preflight", "escrow", "execute", "settle", "refund"})' => status'[b] = "READY"
                          /\ (pc[b] \in {"reconcileSettle", "reconcileRefund"})' => status'[b] = "WAITING_RECONCILE"
    BY <1>0, <1>4 DEF LoopsOK
  <2>2. \A b \in Agents : Pending(b)' => Pending(b)
    BY <1>4 DEF Pending
  <2>3. \A b \in Agents : Key(b)' = Key(b)
    BY <1>1 DEF Key
  <2>4. \A b \in Agents : /\ (completed[b] \subseteq 1..iter[b])'
                          /\ Pending(b)' => (/\ iter[b] >= 1 /\ iter[b] \notin completed[b]
                                             /\ spent[b] + usdgIn[Key(b)] <= MaxCumulative)'
    BY <1>0, <1>1, <2>2, <2>3 DEF LoopsOK
  <2> QED
    BY <2>1, <2>4 DEF LoopsOK
<1>8. PurchasesAccounted'
  BY <1>0, <1>1, <1>2, <1>4, AccountsSame
<1> QED
  BY <1>5, <1>6, <1>7, <1>8 DEF IInv

(* A settled purchase is counted, with what the exchange recorded. *)
LEMMA SettlesOK == ASSUME IInv, NEW a \in Agents, NEW d, Settles(a, d) PROVE IInv'
<1>0. TypeOK /\ LoopsOK /\ FlightOK /\ PurchasesAccounted
  BY DEF IInv
<1>1. /\ UNCHANGED <<iter, usdgIn, approvals, rec, usdg, crashes>>
      /\ pc[a] \in {"settle", "reconcileSettle"} /\ approval' \in [Agents -> 0..MaxApprovals]
  BY DEF Settles
<1>2. InFlight(a) /\ Bought(Key(a)) /\ Pending(a)
  BY <1>0, <1>1 DEF LoopsOK, InFlight, FlightOK, Bought, Pending
<1>3. PICK k \in Intents : k = Key(a) /\ k = <<a, iter[a]>> /\ iter[a] \in Iterations
  BY <1>2, KeyOK
<1>4. PICK n \in Nat, c \in Nat : n = rec[k].usdg /\ c = rec[k].credit
  BY <1>0 DEF TypeOK
<1>5. PICK i \in Iterations : i = iter[a]
  BY <1>3
<1>6. /\ acquired' = [acquired EXCEPT ![a] = @ + c] /\ spent' = [spent EXCEPT ![a] = @ + n]
      /\ completed' = [completed EXCEPT ![a] = @ \cup {i}]
  <2>1. k[2] = i
    BY <1>3, <1>5
  <2> QED
    BY <1>3, <1>4, <2>1 DEF Settles, Count, Evidence
<1>7. PICK s \in {"OBJECTIVE_COMPLETE", "READY"} : status' = [status EXCEPT ![a] = s]
  BY DEF Settles, Count
<1>8. Resolves(a, "EXTERNAL_SINK", d, s)
  BY <1>1, <1>2, <1>7 DEF Settles, Resolves, Stopped, Settlements, Refunds
<1>9. /\ status' \in [Agents -> LoopStatuses] /\ pc' \in [Agents -> Steps]
      /\ status[a] # "CRASHED" /\ status'[a] = s /\ pc'[a] = "idle"
      /\ ~Unescrowed(a)' /\ ~InFlight(a)' /\ ~Unsettled(a)'
      /\ \A b \in Agents : b # a => /\ Unescrowed(b)' <=> Unescrowed(b)
                                    /\ InFlight(b)' <=> InFlight(b)
                                    /\ Unsettled(b)' <=> Unsettled(b)
                                    /\ status'[b] = status[b] /\ pc'[b] = pc[b]
  BY <1>8, ResolvesLoops
<1>10. /\ posted' \subseteq [kind : EntryKinds, intent : Intents]
       /\ bal' \in [{"TREASURY", "ESCROW", "EXTERNAL_SINK"} -> Nat]
       /\ FreshOK' /\ FlightOK' /\ RecordsOK' /\ AllowedOK' /\ IssuedInOrder'
       /\ ResolvedOnce' /\ EscrowIsInFlight' /\ SpendCapped'
  BY <1>8, ResolvesOK
<1>11. /\ acquired \in [Agents -> Nat] /\ spent \in [Agents -> Nat] /\ completed \in [Agents -> SUBSET Iterations]
       /\ iter \in [Agents -> 0..MaxIterations]
  BY <1>0 DEF TypeOK, Iterations
<1>12. /\ acquired' \in [Agents -> Nat] /\ spent' \in [Agents -> Nat] /\ completed' \in [Agents -> SUBSET Iterations]
       /\ acquired'[a] = acquired[a] + c /\ spent'[a] = spent[a] + n /\ completed'[a] = completed[a] \cup {i}
       /\ \A b \in Agents : b # a => acquired'[b] = acquired[b] /\ spent'[b] = spent[b] /\ completed'[b] = completed[b]
  BY <1>6, <1>11
<1>13. TypeOK'
  BY <1>0, <1>1, <1>9, <1>10, <1>12 DEF TypeOK, Iterations
<1>14. LoopsOK'
  <2>1. \A b \in Agents : /\ (pc[b] \in {"preflight", "escrow", "execute", "settle", "refund"})' => status'[b] = "READY"
                          /\ (pc[b] \in {"reconcileSettle", "reconcileRefund"})' => status'[b] = "WAITING_RECONCILE"
    BY <1>0, <1>9 DEF LoopsOK
  <2>2. \A b \in Agents : Pending(b)' => b # a /\ Pending(b)
    BY <1>9 DEF Pending
  <2>3. \A b \in Agents : Key(b)' = Key(b)
    BY <1>1 DEF Key
  <2>4. \A b \in Agents : (completed[b] \subseteq 1..iter[b])'
    <3>1. \A b \in Agents : b # a => (completed[b] \subseteq 1..iter[b])'
      BY <1>0, <1>1, <1>12 DEF LoopsOK
    <3>2. (completed[a] \subseteq 1..iter[a])'
      <4>1. completed[a] \subseteq 1..i /\ i \in 1..i
        BY <1>0, <1>5 DEF LoopsOK, Iterations
      <4> QED
        BY <1>1, <1>5, <1>12, <4>1
    <3> QED
      BY <3>1, <3>2
  <2>5. \A b \in Agents : Pending(b)' => (/\ iter[b] >= 1 /\ iter[b] \notin completed[b]
                                          /\ spent[b] + usdgIn[Key(b)] <= MaxCumulative)'
    BY <1>0, <1>1, <1>12, <2>2, <2>3 DEF LoopsOK
  <2> QED
    BY <2>1, <2>4, <2>5 DEF LoopsOK
<1>15. i \notin completed[a]
  BY <1>0, <1>2, <1>5 DEF LoopsOK
<1>16. \A j \in Iterations : <<a, j>> \in Intents
  BY DEF Iterations, Intents
<1>17. SumFunction(Paid(a))' = SumFunction(Paid(a)) + n
  <2> DEFINE f == Paid(a)
             g == Paid(a)'
  <2>1. /\ g = [j \in Iterations |-> IF j \in completed'[a] THEN rec[<<a, j>>].usdg ELSE 0]
        /\ f = [j \in Iterations |-> IF j \in completed[a] THEN rec[<<a, j>>].usdg ELSE 0]
    BY <1>1 DEF Paid, Iterations
  <2>2. \A j \in Iterations : rec[<<a, j>>].usdg \in Int
    BY <1>0, <1>16 DEF TypeOK
  <2>3. \A j \in Iterations : j # i => f[j] = g[j]
    BY <1>12, <2>1
  <2>4. f[i] = 0 /\ g[i] = n
    BY <1>3, <1>4, <1>5, <1>12, <1>15, <2>1
  <2>5. f \in [Iterations -> Int] /\ g \in [Iterations -> Int]
    BY <2>1, <2>2
  <2>6. SumFunction(Paid(a))' = SumFunction(g)
    OBVIOUS
  <2> HIDE DEF f, g
  <2>7. SumFunction(g) = SumFunction(f) - f[i] + g[i] /\ SumFunction(f) \in Int
    BY <2>3, <2>5, IntentsFinite, SumChange
  <2>8. SumFunction(g) = SumFunction(f) + n
    BY <2>4, <2>7
  <2> QED
    BY <2>6, <2>8 DEF f
<1>18. SumFunction(Received(a))' = SumFunction(Received(a)) + c
  <2> DEFINE f == Received(a)
             g == Received(a)'
  <2>1. /\ g = [j \in Iterations |-> IF j \in completed'[a] THEN rec[<<a, j>>].credit ELSE 0]
        /\ f = [j \in Iterations |-> IF j \in completed[a] THEN rec[<<a, j>>].credit ELSE 0]
    BY <1>1 DEF Received, Iterations
  <2>2. \A j \in Iterations : rec[<<a, j>>].credit \in Int
    BY <1>0, <1>16 DEF TypeOK
  <2>3. \A j \in Iterations : j # i => f[j] = g[j]
    BY <1>12, <2>1
  <2>4. f[i] = 0 /\ g[i] = c
    BY <1>3, <1>4, <1>5, <1>12, <1>15, <2>1
  <2>5. f \in [Iterations -> Int] /\ g \in [Iterations -> Int]
    BY <2>1, <2>2
  <2>6. SumFunction(Received(a))' = SumFunction(g)
    OBVIOUS
  <2> HIDE DEF f, g
  <2>7. SumFunction(g) = SumFunction(f) - f[i] + g[i] /\ SumFunction(f) \in Int
    BY <2>3, <2>5, IntentsFinite, SumChange
  <2>8. SumFunction(g) = SumFunction(f) + c
    BY <2>4, <2>7
  <2> QED
    BY <2>6, <2>8 DEF f
<1>19. PurchasesAccounted'
  <2>1. \A j : Bought(j)' <=> Bought(j)
    BY <1>1, RecordsSame
  <2>2. (spent[a] = SumFunction(Paid(a)) /\ acquired[a] = SumFunction(Received(a)))'
    BY <1>0, <1>9, <1>12, <1>17, <1>18 DEF PurchasesAccounted
  <2>3. \A b \in Agents : b # a => Paid(b)' = Paid(b) /\ Received(b)' = Received(b)
    BY <1>1, <1>12 DEF Paid, Received
  <2>4. \A j \in 1..MaxIterations : Bought(<<a, j>>) => j \in completed'[a]
    BY <1>0, <1>5, <1>9, <1>12 DEF PurchasesAccounted
  <2>5. \A b \in Agents : b # a /\ status[b] # "CRASHED" =>
          \A j \in 1..MaxIterations : Bought(<<b, j>>) => j \in completed'[b] \/ (j = iter'[b] /\ Unsettled(b)')
    BY <1>0, <1>1, <1>9, <1>12 DEF PurchasesAccounted
  <2>6. \A b \in Agents : b # a /\ status[b] # "CRASHED" =>
          (spent[b] = SumFunction(Paid(b)) /\ acquired[b] = SumFunction(Received(b)))'
    BY <1>0, <1>12, <2>3 DEF PurchasesAccounted
  <2> QED
    BY <1>9, <2>1, <2>2, <2>4, <2>5, <2>6 DEF PurchasesAccounted
<1> QED
  BY <1>10, <1>13, <1>14, <1>19 DEF IInv

(* What the operator does to approvals keeps what they authorised. *)
LEMMA ApprovalsOK ==
  ASSUME IInv,
         UNCHANGED <<status, pc, iter, usdgIn, acquired, spent, completed, posted, bal, rec, usdg, crashes>>,
         (approval \in [Agents -> 0..MaxApprovals])',
         (approvals \in [1..MaxApprovals -> [state : {"unissued", "issued", "revoked", "expired"},
                                             intent : Intents \cup {<<>>}]])',
         IssuedInOrder',
         \A n \in Issued : n \in Issued' /\ approvals'[n].intent = approvals[n].intent
  PROVE  IInv'
<1>0. /\ TypeOK /\ LoopsOK /\ FreshOK /\ FlightOK /\ RecordsOK /\ AllowedOK
      /\ ResolvedOnce /\ EscrowIsInFlight /\ PurchasesAccounted /\ SpendCapped
  BY DEF IInv
<1>1. (\A b : Key(b)' = Key(b)) /\ \A d, k : HasEntry(d, k)' <=> HasEntry(d, k)
  BY DEF Key, HasEntry, Entry
<1>2. \A b : (Unescrowed(b)' <=> Unescrowed(b)) /\ (InFlight(b)' <=> InFlight(b)) /\ (Unsettled(b)' <=> Unsettled(b))
  BY DEF Unescrowed, InFlight, Unsettled
<1>3. TypeOK'
  BY <1>0 DEF TypeOK
<1>4. LoopsOK'
  BY <1>0, <1>1, <1>2 DEF LoopsOK, Pending
<1>5. FreshOK' /\ FlightOK' /\ RecordsOK'
  <2>1. FreshOK'
    BY <1>0, <1>1, <1>2 DEF FreshOK, Untouched
  <2>2. FlightOK'
    BY <1>0, <1>1, <1>2 DEF FlightOK
  <2>3. RecordsOK'
    BY <1>0 DEF RecordsOK, MinCreditOut
  <2> QED
    BY <2>1, <2>2, <2>3
<1>6. AllowedOK'
  <2>1. \A k : Allowed(k) => Allowed(k)'
    BY DEF Allowed
  <2> QED
    BY <1>0, <1>1, <2>1 DEF AllowedOK
<1>7. ResolvedOnce'
  BY <1>0, <1>1 DEF ResolvedOnce, Bought
<1>8. EscrowIsInFlight'
  <2>1. /\ Held' = Held /\ bal'["ESCROW"] = bal["ESCROW"]
        /\ [k \in Intents |-> HeldAmount(k)]' = [k \in Intents |-> HeldAmount(k)]
    BY LedgerSame
  <2> QED
    BY <1>0, <1>1, <2>1 DEF EscrowIsInFlight
<1>9. PurchasesAccounted'
  BY <1>0, <1>2, AccountsSame
<1>10. SpendCapped'
  BY <1>0, RecordsSame
<1> QED
  BY <1>3, <1>4, <1>5, <1>6, <1>7, <1>8, <1>9, <1>10 DEF IInv

(* Issuing takes the next number; revoking and expiring keep the intent. *)
LEMMA OperatorOK == ASSUME IInv, Operator PROVE IInv'
<1> DEFINE ApprovalRecord == [state : {"unissued", "issued", "revoked", "expired"}, intent : Intents \cup {<<>>}]
<1>0. /\ approval \in [Agents -> 0..MaxApprovals] /\ approvals \in [1..MaxApprovals -> ApprovalRecord]
      /\ IssuedInOrder
  BY DEF IInv, TypeOK
<1>1. ASSUME NEW a \in Agents, IssueApproval(a) PROVE IInv'
  <2>1. /\ UNCHANGED <<status, pc, iter, usdgIn, acquired, spent, completed, posted, bal, rec, usdg, crashes, approval>>
        /\ status[a] = "WAITING_HUMAN"
    BY <1>1 DEF IssueApproval, loop, ledger, market
  <2>2. PICK k \in Intents : k = Key(a)
    BY <2>1, KeyOK DEF Pending, Unescrowed
  <2>3. PICK m : m = Cardinality(Issued)
    OBVIOUS
  <2>4. m \in Nat /\ m + 1 \in 1..MaxApprovals /\ Issued = 1..m
    <3>1. IsFiniteSet(1..MaxApprovals)
      BY FS_Interval, Constants
    <3>2. m \in Nat
      BY <2>3, <3>1, FS_Subset, FS_CardinalityType DEF Issued
    <3> QED
      BY <1>0, <1>1, <2>3, <3>2, Constants DEF IssueApproval, IssuedInOrder
  <2>5. approvals' = [approvals EXCEPT ![m + 1] = [state |-> "issued", intent |-> k]]
    BY <1>1, <2>2, <2>3 DEF IssueApproval
  <2>6. approvals' \in [1..MaxApprovals -> ApprovalRecord]
    BY <1>0, <2>4, <2>5
  <2>7. /\ approvals'[m + 1] = [state |-> "issued", intent |-> k]
        /\ \A n \in 1..MaxApprovals : n # m + 1 => approvals'[n] = approvals[n]
    BY <1>0, <2>4, <2>5
  <2>8. Issued' = Issued \cup {m + 1}
    BY <2>4, <2>7 DEF Issued
  <2>9. Issued' = 1..(m + 1)
    BY <2>4, <2>8
  <2>10. Cardinality(Issued)' = m + 1
    <3>1. Cardinality(1..(m + 1)) = m + 1
      BY <2>4, FS_Interval
    <3> QED
      BY <2>9, <3>1
  <2>11. IssuedInOrder'
    BY <2>9, <2>10 DEF IssuedInOrder
  <2>12. \A n \in Issued : n \in Issued' /\ approvals'[n].intent = approvals[n].intent
    BY <2>4, <2>7, <2>8 DEF Issued
  <2> QED
    BY <1>0, <2>1, <2>6, <2>11, <2>12, ApprovalsOK
<1>2. ASSUME NEW m \in 1..MaxApprovals, RevokeApproval(m) \/ ExpireApproval(m) PROVE IInv'
  <2>1. UNCHANGED <<status, pc, iter, usdgIn, acquired, spent, completed, posted, bal, rec, usdg, crashes, approval>>
    BY <1>2 DEF RevokeApproval, ExpireApproval, loop, ledger, market
  <2>2. PICK s \in {"revoked", "expired"} : approvals' = [approvals EXCEPT ![m].state = s]
    BY <1>2 DEF RevokeApproval, ExpireApproval
  <2>3. approvals[m].state = "issued"
    BY <1>2 DEF RevokeApproval, ExpireApproval
  <2>4. PICK r \in ApprovalRecord : r = approvals[m]
    BY <1>0
  <2>5. approvals' = [approvals EXCEPT ![m] = [r EXCEPT !.state = s]]
    BY <1>0, <2>2, <2>4
  <2>6. [r EXCEPT !.state = s] \in ApprovalRecord
        /\ [r EXCEPT !.state = s].state = s /\ [r EXCEPT !.state = s].intent = r.intent
    BY <2>2, <2>4
  <2>7. approvals' \in [1..MaxApprovals -> ApprovalRecord]
    BY <1>0, <2>5, <2>6
  <2>8. /\ approvals'[m].state = s /\ approvals'[m].intent = approvals[m].intent
        /\ \A n \in 1..MaxApprovals : n # m => approvals'[n] = approvals[n]
    BY <1>0, <2>4, <2>5, <2>6
  <2>9. Issued' = Issued
    BY <2>3, <2>8 DEF Issued
  <2>10. IssuedInOrder'
    BY <1>0, <2>9 DEF IssuedInOrder
  <2>11. \A n \in Issued : n \in Issued' /\ approvals'[n].intent = approvals[n].intent
    BY <2>8, <2>9 DEF Issued
  <2> QED
    BY <1>0, <2>1, <2>7, <2>10, <2>11, ApprovalsOK
<1>3. ASSUME NEW a \in Agents, NEW n \in 1..MaxApprovals, SupplyApproval(a, n) PROVE IInv'
  <2>1. /\ UNCHANGED <<status, pc, iter, usdgIn, acquired, spent, completed, posted, bal, rec, usdg, crashes, approvals>>
        /\ approval' = [approval EXCEPT ![a] = n]
    BY <1>3 DEF SupplyApproval, ledger, market
  <2>2. approval' \in [Agents -> 0..MaxApprovals]
    BY <1>0, <2>1
  <2>3. Issued' = Issued /\ IssuedInOrder'
    BY <1>0, <2>1, ApprovalsSame
  <2> QED
    BY <1>0, <2>1, <2>2, <2>3, ApprovalsOK
<1> QED
  BY <1>1, <1>2, <1>3 DEF Operator

(* Nothing has been proposed. *)
LEMMA InitOK == ASSUME Init PROVE IInv
<1>1. TypeOK
  <2>1. 0 \in 0..MaxIterations /\ 0 \in 0..MaxApprovals /\ 0 \in 0..MaxCrashes
    BY Constants
  <2>2. InitialTreasury \in Nat /\ InitialUsdg \in Nat
    BY Constants
  <2>3. bal \in [{"TREASURY", "ESCROW", "EXTERNAL_SINK"} -> Nat]
    BY <2>2 DEF Init
  <2>4. /\ status \in [Agents -> LoopStatuses] /\ pc \in [Agents -> Steps]
        /\ iter \in [Agents -> 0..MaxIterations] /\ usdgIn \in [Intents -> Nat]
        /\ acquired \in [Agents -> Nat] /\ spent \in [Agents -> Nat]
        /\ completed \in [Agents -> SUBSET (1..MaxIterations)]
        /\ approval \in [Agents -> 0..MaxApprovals]
    BY <2>1 DEF Init, LoopStatuses, Steps
  <2>5. /\ approvals \in [1..MaxApprovals ->
              [state : {"unissued", "issued", "revoked", "expired"}, intent : Intents \cup {<<>>}]]
        /\ rec \in [Intents -> [outcome : {"none", "SUCCESS", "FAILURE"}, usdg : Nat, credit : Nat]]
    BY DEF Init, NoApproval, NoRecord
  <2> QED
    BY <2>1, <2>2, <2>3, <2>4, <2>5 DEF Init, TypeOK
<1>2. \A d, k : ~HasEntry(d, k)
  BY DEF Init, HasEntry
<1>3. \A k \in Intents : rec[k] = NoRecord /\ ~Bought(k)
  BY DEF Init, NoRecord, Bought
<1>4. \A b \in Agents : ~Unescrowed(b) /\ ~InFlight(b) /\ ~Unsettled(b) /\ pc[b] = "idle" /\ status[b] = "READY"
  BY DEF Init, Unescrowed, InFlight, Unsettled
<1>5. LoopsOK
  BY <1>4 DEF Init, LoopsOK, Pending
<1>6. FreshOK /\ FlightOK
  <2>1. \A b \in Agents, i \in Iterations : <<b, i>> \in Intents
    BY DEF Iterations, Intents
  <2> QED
    BY <1>2, <1>3, <1>4, <2>1 DEF FreshOK, FlightOK, Untouched
<1>7. RecordsOK
  BY <1>3 DEF RecordsOK, NoRecord
<1>8. AllowedOK /\ ResolvedOnce
  BY <1>2, <1>4 DEF AllowedOK, ResolvedOnce
<1>9. IssuedInOrder
  <2>1. Issued = {}
    BY DEF Init, Issued, NoApproval
  <2>2. Cardinality(Issued) = 0
    BY <2>1, FS_EmptySet
  <2>3. 1..0 = {}
    OBVIOUS
  <2> QED
    BY <2>1, <2>2, <2>3 DEF IssuedInOrder
<1>10. EscrowIsInFlight
  <2> DEFINE h == [k \in Intents |-> HeldAmount(k)]
  <2>1. Held = {}
    BY <1>2 DEF Held
  <2>2. h \in [Intents -> Int] /\ \A k \in Intents : h[k] = 0
    BY <2>1 DEF HeldAmount
  <2> HIDE DEF h
  <2>3. SumFunction(h) = 0
    BY <2>2, IntentsFinite, SumZero
  <2>4. bal["ESCROW"] = 0
    BY DEF Init
  <2> QED
    BY <2>1, <2>3, <2>4 DEF EscrowIsInFlight, h
<1>11. ASSUME NEW b \in Agents
       PROVE  SumFunction(Taken(b)) = 0 /\ SumFunction(Paid(b)) = 0 /\ SumFunction(Received(b)) = 0
  <2>1. \A i \in Iterations : <<b, i>> \in Intents /\ rec[<<b, i>>].usdg = 0 /\ rec[<<b, i>>].credit = 0
    BY <1>3 DEF Iterations, Intents, NoRecord
  <2>2. /\ Taken(b) = [i \in Iterations |-> rec[<<b, i>>].usdg]
        /\ Paid(b) = [i \in Iterations |-> IF i \in completed[b] THEN rec[<<b, i>>].usdg ELSE 0]
        /\ Received(b) = [i \in Iterations |-> IF i \in completed[b] THEN rec[<<b, i>>].credit ELSE 0]
    BY DEF Taken, Paid, Received, Iterations
  <2>3. Taken(b) \in [Iterations -> Int] /\ \A i \in Iterations : Taken(b)[i] = 0
    BY <2>1, <2>2
  <2>4. Paid(b) \in [Iterations -> Int] /\ \A i \in Iterations : Paid(b)[i] = 0
    BY <2>1, <2>2
  <2>5. Received(b) \in [Iterations -> Int] /\ \A i \in Iterations : Received(b)[i] = 0
    BY <2>1, <2>2
  <2> QED
    BY <2>3, <2>4, <2>5, IntentsFinite, SumZero
<1>12. PurchasesAccounted
  <2>1. \A b \in Agents, i \in 1..MaxIterations : ~Bought(<<b, i>>)
    BY <1>3 DEF Intents
  <2>2. \A b \in Agents : spent[b] = 0 /\ acquired[b] = 0
    BY DEF Init
  <2> QED
    BY <1>11, <2>1, <2>2 DEF PurchasesAccounted
<1>13. SpendCapped
  BY <1>11, Constants DEF SpendCapped
<1> QED
  BY <1>1, <1>5, <1>6, <1>7, <1>8, <1>9, <1>10, <1>12, <1>13 DEF IInv

(* A step in which nothing happens. *)
LEMMA StutterOK == ASSUME IInv, UNCHANGED vars PROVE IInv'
<1>1. UNCHANGED <<status, pc, iter, usdgIn, acquired, spent, completed, approval, approvals,
                  posted, bal, rec, usdg, crashes>>
  BY DEF vars, loop, ledger, market
<1>2. /\ approval \in [Agents -> 0..MaxApprovals] /\ IssuedInOrder
      /\ approvals \in [1..MaxApprovals -> [state : {"unissued", "issued", "revoked", "expired"},
                                            intent : Intents \cup {<<>>}]]
  BY DEF IInv, TypeOK
<1>3. Issued' = Issued /\ IssuedInOrder'
  BY <1>1, <1>2, ApprovalsSame
<1> QED
  BY <1>1, <1>2, <1>3, ApprovalsOK

-----------------------------------------------------------------------------
(* The theorems. *)

(* The invariant is inductive. *)
THEOREM PurchaseInvariant == Spec => []IInv
<1>1. Init => IInv
  BY InitOK
<1>2. IInv /\ [Next]_vars => IInv'
  <2> SUFFICES ASSUME IInv, [Next]_vars PROVE IInv'
    OBVIOUS
  <2>1. ASSUME NEW a \in Agents, LoopStep(a) \/ Crash(a) PROVE IInv'
    BY <2>1, StepKinds, QuietOK, ProposesOK, EscrowsOK, ExecutesOK, SettlesOK, GivesBackOK
  <2>2. CASE Operator
    BY <2>2, OperatorOK
  <2>3. CASE UNCHANGED vars
    BY <2>3, StutterOK
  <2> QED
    BY <2>1, <2>2, <2>3 DEF Next
<1> QED
  BY <1>1, <1>2, PTL DEF Spec

(* However the agents of an organisation interleave, time out and crash, no  *)
(* balance goes negative and ESCROW holds what purchases in flight reserved. *)
THEOREM EscrowTheorem == Spec => []EscrowSound
<1>1. IInv => EscrowSound
  BY DEF IInv, EscrowSound
<1> QED
  BY <1>1, PurchaseInvariant, PTL

(* The escrow of an intent is settled only on a recorded purchase, refunded  *)
(* only without one, and resolved at most once.                              *)
THEOREM EvidenceTheorem == Spec => []EvidenceDecides
<1>1. ASSUME IInv PROVE EvidenceDecides
  <2>0. ResolvedOnce
    BY <1>1 DEF IInv
  <2>1. ASSUME NEW k \in Intents
        PROVE  Cardinality({d \in Settlements \cup Refunds : HasEntry(d, k)}) <= 1
    <3>1. PICK S : S = {d \in Settlements \cup Refunds : HasEntry(d, k)}
      OBVIOUS
    <3>2. \A d, e \in S : d = e
      BY <2>0, <3>1 DEF ResolvedOnce
    <3>3. CASE S = {}
      BY <3>1, <3>3, FS_EmptySet
    <3>4. CASE S # {}
      <4>1. PICK d : d \in S
        BY <3>4
      <4>2. S = {d}
        BY <3>2, <4>1
      <4>3. Cardinality({d}) = 1
        BY FS_Singleton
      <4> QED
        BY <3>1, <4>2, <4>3
    <3> QED
      BY <3>3, <3>4
  <2> QED
    BY <2>0, <2>1 DEF ResolvedOnce, EvidenceDecides
<1> QED
  BY <1>1, PurchaseInvariant, PTL

(* A living loop's counters are what the exchange recorded, but for the one  *)
(* purchase it still has to settle.                                          *)
THEOREM AccountedTheorem == Spec => []PurchasesAccounted
<1>1. IInv => PurchasesAccounted
  BY DEF IInv
<1> QED
  BY <1>1, PurchaseInvariant, PTL

(* The exchange never takes more for an agent than its cumulative limit, and *)
(* above the autonomous ceiling nothing that no human approved.              *)
THEOREM AuthorisedTheorem == Spec => []SpendAuthorised
<1>1. IInv => SpendAuthorised
  BY DEF IInv, AllowedOK, Allowed, SpendAuthorised, HumanAuthorised
<1> QED
  BY <1>1, PurchaseInvariant, PTL
=============================================================================
