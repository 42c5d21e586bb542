----------------------------- MODULE WorkOrders -----------------------------
(***************************************************************************)
(* Paid work: the work-order endpoints of src/src/api/server.py, the        *)
(* AutonomousDaemon, the WorkOrderCoordinator with its analyst and CEO, the *)
(* SelfSustainingLoopRunner, the SurplusReconciler and the repository that  *)
(* keeps their rows, for one organisation.                                  *)
(*                                                                         *)
(* A request is one call of the execute endpoint or of the daemon-step      *)
(* endpoint.  It builds every object it uses except the exchange provider,  *)
(* which all requests of the process share; it runs at most one mission,    *)
(* so the request names the mission, its deliverable, its receipt and its   *)
(* revenue event.  It is cut at each commit and at each read whose result   *)
(* is used after another request may have run.                              *)
(***************************************************************************)
EXTENDS Integers, FiniteSets, FiniteSetsExt

CONSTANTS
    Orders,             \* work order ids
    Required,           \* Required[o]: required_orbio_credits
    Bounty,             \* Bounty[o]: bounty_amount, whole USDG
    MaxRequests,        \* bound: calls of the two endpoints
    MaxLive,            \* bound: requests in progress at once
    MaxCrashes,         \* bound: deaths of the process
    Unit,               \* native units per whole USDG
    Fill,               \* basis points of the exchange's fill
    MaxSingle,          \* max_single_usdg of the loop an endpoint builds
    Expansion,          \* expansion_threshold
    Standby,            \* standby_threshold
    Answers,            \* answers the exchange may give
    Verdicts,           \* verdicts the verifier may give
    InitialTreasury,
    None

ASSUME WorkOrdersAssumption ==
    /\ IsFiniteSet(Orders)
    /\ Required \in [Orders -> Nat \ {0}] /\ Bounty \in [Orders -> Nat \ {0}]
    /\ Unit \in Nat \ {0} /\ Fill \in 9000..10000 /\ MaxSingle \in Nat \ {0}
    /\ Standby \in Nat \ {0} /\ Expansion \in Nat /\ Standby <= Expansion
    /\ Answers \subseteq {"SUCCESS", "FAILURE", "TIMEOUT", "TIMEOUT_FILLED"}
    /\ Verdicts \subseteq BOOLEAN
    /\ InitialTreasury \in Nat
    /\ MaxRequests \in Nat /\ MaxLive \in Nat /\ MaxCrashes \in Nat
    /\ None \notin Orders \cup Nat

VARIABLES
    born,       \* born[o]: rank of the row's created_at, 0 while there is no row
    row,        \* row[o]: status column of work_orders
    delivs,     \* missions with a work_deliverables row
    receipts,   \* missions with a work_deliverable_receipts row
    events,     \* missions with a revenue_events row
    lineage,    \* rows of mission_lineage: <<mission, parent>>
    daemon,     \* the daemon_state row: cycle_count and last_mission_id
    saved,      \* the org_credit_balances row
    bal,        \* balances of the organisation's ledger
    credit,     \* the shared provider's _credit of the organisation
    usdg,       \* the shared provider's _usdg of the organisation
    req,        \* req[r]: the request's place and local state
    upsets,     \* history: which of "overlap", "replay" and "crash" have happened
    crashes

rows     == <<born, row, delivs, receipts, events, lineage, daemon, saved>>
evidence == <<delivs, receipts, events>>
exchange == <<credit, usdg>>
vars     == <<rows, bal, exchange, req, upsets, crashes>>

Requests == 1..MaxRequests      \* numbered in the order they arrive

Accounts == {"TREASURY", "ESCROW", "EXTERNAL_SINK", "REVENUE", "SURPLUS_RESERVE"}

Idle == [pc |-> "idle", kind |-> "none", order |-> None, parent |-> None,
         cycle |-> 0, reserve |-> 0, target |-> 0, before |-> 0, expense |-> 0,
         answer |-> "none", settled |-> FALSE, died |-> "no"]

Init ==
    /\ born = [o \in Orders |-> 0]
    /\ row = [o \in Orders |-> "absent"]
    /\ delivs = {} /\ receipts = {} /\ events = {}
    /\ lineage = {}
    /\ daemon = [cycles |-> 0, last |-> None]
    /\ saved = 0
    /\ bal = [a \in Accounts |-> IF a = "TREASURY" THEN InitialTreasury ELSE 0]
    /\ credit = 0 /\ usdg = 0
    /\ req = [r \in Requests |-> Idle]
    /\ upsets = {} /\ crashes = 0

Ended == {"idle", "done", "raised", "dead"}
Live == {r \in Requests : req[r].pc \notin Ended}
Existing == {o \in Orders : row[o] # "absent"}

-----------------------------------------------------------------------------
(* POST work-orders.  save_work_order is an upsert that sets the status, so  *)
(* a second POST of the same id reopens the order.                           *)
CreateWorkOrder(o) ==
    /\ row[o] = "absent"
    /\ born' = [born EXCEPT ![o] = Cardinality(Existing) + 1]
    /\ row' = [row EXCEPT ![o] = "PROPOSED"]
    /\ UNCHANGED <<evidence, lineage, daemon, saved, bal, exchange, req, upsets, crashes>>

RepeatCreate(o) ==
    /\ row[o] # "absent"
    /\ "replay" \notin upsets          \* bound: one repetition
    /\ row' = [row EXCEPT ![o] = "PROPOSED"]
    /\ upsets' = upsets \cup {"replay"}
    /\ UNCHANGED <<born, evidence, lineage, daemon, saved, bal, exchange, req, crashes>>

-----------------------------------------------------------------------------
(* The head of both endpoints: the shared provider is given the persisted    *)
(* credits and the treasury's worth of USDG, whoever else is using it.       *)

Start(r, kind, o, upset) ==
    /\ req[r].pc = "idle" /\ \A s \in 1..(r - 1) : req[s].pc # "idle"
    /\ Cardinality(Live) < MaxLive
    /\ credit' = saved
    /\ usdg' = bal["TREASURY"] * Unit
    /\ req' = [req EXCEPT ![r] = [Idle EXCEPT !.pc = "assess", !.kind = kind, !.order = o,
                                  !.parent = IF kind = "daemon" THEN daemon.last ELSE None,
                                  !.cycle = IF kind = "daemon" THEN daemon.cycles + 1 ELSE 0]]
    /\ upsets' = upsets \cup upset \cup (IF Live # {} THEN {"overlap"} ELSE {})
    /\ UNCHANGED <<rows, bal, crashes>>

(* The execute endpoint takes the order in whatever status it is. *)
StartExecute(r, o) ==
    /\ row[o] # "absent"
    /\ Start(r, "execute", o, IF row[o] = "PROPOSED" THEN {} ELSE {"replay"})

(* AutonomousDaemon.__init__ loads cycle_count and last_mission_id. *)
StartDaemon(r) == Start(r, "daemon", None, {})

-----------------------------------------------------------------------------
(* Choosing the work (step_cycle, evaluate_unit_economics, select_best).     *)

DeriveRegime(t) == IF t >= Expansion THEN "EXPANSION"
                   ELSE IF t >= Standby THEN "AUSTERE" ELSE "STANDBY"

MinMargin(kind, t) == IF kind = "daemon" /\ DeriveRegime(t) = "AUSTERE" THEN 2500 ELSE 1500
ReservePct(kind, t) == IF kind = "daemon" /\ DeriveRegime(t) = "AUSTERE" THEN 50 ELSE 20

CeilDiv(n, d) == (n + d - 1) \div d

ProjectedCost(o, c) == CeilDiv(Max({0, Required[o] - c}), Unit)
Surplus(o, c)       == Bounty[o] - ProjectedCost(o, c)

(* round(surplus / bounty, 4), in ten-thousandths *)
Margin(o, c) == (2 * 10000 * Surplus(o, c) + Bounty[o]) \div (2 * Bounty[o])

Viable(o, t, c, minMargin) == ProjectedCost(o, c) <= t /\ Margin(o, c) >= minMargin

Newer(o, p) == born[o] > born[p]

(* max() keeps the first maximum of a list that starts with the newest row. *)
Preferred(o, p, c) ==
    \/ Surplus(o, c) > Surplus(p, c)
    \/ Surplus(o, c) = Surplus(p, c) /\ Margin(o, c) > Margin(p, c)
    \/ Surplus(o, c) = Surplus(p, c) /\ Margin(o, c) = Margin(p, c) /\ Newer(o, p)

SelectBest(S, c) == CHOOSE o \in S : \A p \in S \ {o} : Preferred(o, p, c)
Newest(S)        == CHOOSE o \in S : \A p \in S \ {o} : Newer(o, p)

Candidates(r) ==
    IF req[r].kind = "execute" THEN {req[r].order}
    ELSE {o \in Orders : row[o] = "PROPOSED"}

HaltedNever(r, t) == FALSE                                            \* mutant
Halted(r, t) == req[r].kind = "daemon" /\ DeriveRegime(t) = "STANDBY"

(* The purchase loop an endpoint builds aims at the most any candidate       *)
(* needs; the execute endpoint builds none while the credits suffice.        *)
LoopTarget(r, S, c) ==
    LET most == Max({Required[o] : o \in S}) IN
    IF req[r].kind = "execute" /\ most <= c THEN 0 ELSE most

Goto(r, label) == req' = [req EXCEPT ![r].pc = label]

(* One treasury read serves the regime, the solvency test and the funding.   *)
Assess(r) ==
    LET t      == bal["TREASURY"]
        S      == Candidates(r)
        kind   == req[r].kind
        viable == {o \in S : Viable(o, t, credit, MinMargin(kind, t))}
        next(label, o) == req' = [req EXCEPT ![r] = [@ EXCEPT
                !.pc = label, !.order = o, !.reserve = ReservePct(kind, t),
                !.target = LoopTarget(r, S, credit)]]
    IN
    /\ req[r].pc = "assess"
    /\ IF Halted(r, t) \/ S = {}
       THEN Goto(r, "persist") /\ UNCHANGED usdg
       ELSE /\ usdg' = IF LoopTarget(r, S, credit) > 0 THEN t * Unit ELSE usdg
            /\ IF viable = {} THEN next("reject", Newest(S))
               ELSE next("authorize", SelectBest(viable, credit))
    /\ UNCHANGED <<rows, bal, credit, upsets, crashes>>

Closing(kind) == IF kind = "daemon" THEN "persist" ELSE "saveCredits"

SaveRejected(r) ==
    /\ req[r].pc = "reject"
    /\ row' = [row EXCEPT ![req[r].order] = "REJECTED"]
    /\ Goto(r, Closing(req[r].kind))
    /\ UNCHANGED <<born, evidence, lineage, daemon, saved, bal, exchange, upsets, crashes>>

SaveAuthorized(r) ==
    /\ req[r].pc = "authorize"
    /\ row' = [row EXCEPT ![req[r].order] = "AUTHORIZED"]
    /\ Goto(r, IF req[r].kind = "daemon" THEN "lineage" ELSE "preflight")
    /\ UNCHANGED <<born, evidence, lineage, daemon, saved, bal, exchange, upsets, crashes>>

RecordLineage(r) ==
    /\ req[r].pc = "lineage"
    /\ lineage' = lineage \cup {<<r, req[r].parent>>}
    /\ Goto(r, "preflight")
    /\ UNCHANGED <<born, row, evidence, daemon, saved, bal, exchange, upsets, crashes>>

-----------------------------------------------------------------------------
(* execute_mission: acquisition.  A fresh loop takes one step.               *)

UsdgIn(target)    == Min({CeilDiv(target * 10000, Fill), MaxSingle})
Amount(target)    == Max({1, UsdgIn(target) \div Unit})
CreditOut(target) == (UsdgIn(target) * Fill) \div 10000

Transfer(from, to, n) == bal' = [bal EXCEPT ![from] = @ - n, ![to] = @ + n]

Preflight(r) ==
    /\ req[r].pc = "preflight"
    /\ Goto(r, IF credit >= Required[req[r].order] THEN "work"
               ELSE IF req[r].target = 0 THEN "saveOrder" ELSE "treasury")
    /\ UNCHANGED <<rows, bal, exchange, upsets, crashes>>

(* The treasury check of the loop's step; too little ends the step. *)
CheckTreasury(r) ==
    LET short == bal["TREASURY"] < Amount(req[r].target) IN
    /\ req[r].pc = "treasury"
    /\ req' = [req EXCEPT ![r] = [@ EXCEPT !.before = bal["TREASURY"],
                                  !.pc = IF short THEN "measure" ELSE "escrow"]]
    /\ UNCHANGED <<rows, bal, exchange, upsets, crashes>>

(* The transfer checks the balance again; an overdraft is an exception that  *)
(* ends the request with the order AUTHORIZED and the credits unsaved.       *)
Escrow(r) ==
    /\ req[r].pc = "escrow"
    /\ IF bal["TREASURY"] >= Amount(req[r].target)
       THEN Transfer("TREASURY", "ESCROW", Amount(req[r].target)) /\ Goto(r, "exchange")
       ELSE Goto(r, "raised") /\ UNCHANGED bal
    /\ UNCHANGED <<rows, exchange, upsets, crashes>>

Filled   == {"SUCCESS", "TIMEOUT_FILLED"}
TimedOut == {"TIMEOUT", "TIMEOUT_FILLED"}

(* A purchase beyond the USDG balance fails; a timeout hides that from the   *)
(* loop, which keeps the operation for a reconciliation nobody asks for.     *)
Outcome(r, answer) ==
    IF answer \in Filled /\ usdg < UsdgIn(req[r].target)
    THEN IF answer = "SUCCESS" THEN "FAILURE" ELSE "TIMEOUT"
    ELSE answer

Exchange(r, answer) ==
    LET fills == Outcome(r, answer) \in Filled IN
    /\ req[r].pc = "exchange"
    /\ credit' = IF fills THEN credit + CreditOut(req[r].target) ELSE credit
    /\ usdg' = IF fills THEN usdg - UsdgIn(req[r].target) ELSE usdg
    /\ req' = [req EXCEPT ![r] = [@ EXCEPT !.answer = Outcome(r, answer),
                 !.pc = IF answer \in TimedOut THEN "measure" ELSE "close"]]
    /\ UNCHANGED <<rows, bal, upsets, crashes>>

(* Settlement or refund; either is skipped when ESCROW is short. *)
CloseEscrow(r) ==
    LET n  == Amount(req[r].target)
        to == IF req[r].answer = "SUCCESS" THEN "EXTERNAL_SINK" ELSE "TREASURY"
    IN
    /\ req[r].pc = "close"
    /\ Goto(r, "measure")
    /\ IF bal["ESCROW"] >= n THEN Transfer("ESCROW", to, n) ELSE UNCHANGED bal
    /\ UNCHANGED <<rows, exchange, upsets, crashes>>

(* The expense is the treasury's difference over the step, whoever moved it. *)
Measure(r) ==
    /\ req[r].pc = "measure"
    /\ req' = [req EXCEPT ![r] = [@ EXCEPT
                 !.expense = Max({0, req[r].before - bal["TREASURY"]}), !.before = 0,
                 !.pc = IF req[r].answer = "SUCCESS" THEN "work" ELSE "saveOrder"]]
    /\ UNCHANGED <<rows, bal, exchange, upsets, crashes>>

-----------------------------------------------------------------------------
(* execute_mission: work, verification, revenue, surplus.                    *)

Work(r, verdict) ==
    LET need == Required[req[r].order] IN
    /\ req[r].pc = "work"
    /\ IF credit < need
       THEN Goto(r, "saveOrder") /\ UNCHANGED credit
       ELSE /\ credit' = credit - need
            /\ Goto(r, IF verdict THEN "deposit" ELSE "saveDeliverable")
    /\ UNCHANGED <<rows, bal, usdg, upsets, crashes>>

(* deposit_revenue under a fresh transaction id: it never meets a duplicate. *)
Deposit(r) ==
    /\ req[r].pc = "deposit"
    /\ bal' = [bal EXCEPT !["REVENUE"] = @ + Bounty[req[r].order]]
    /\ Goto(r, "reimburse")
    /\ UNCHANGED <<rows, exchange, upsets, crashes>>

Gross(r)   == Bounty[req[r].order]
Cost(r)    == Min({Gross(r), req[r].expense})
Net(r)     == Max({0, Gross(r) - req[r].expense})
Reserve(r) == (Net(r) * req[r].reserve) \div 100

ShareRounded(r) == (Net(r) * (100 - req[r].reserve)) \div 100         \* mutant
Share(r)   == Net(r) - Reserve(r)

(* A transfer of nothing is skipped. *)
Draw(r, next, to, n) ==
    /\ IF n > 0 THEN Transfer("REVENUE", to, n) ELSE UNCHANGED bal
    /\ req' = [req EXCEPT ![r].pc = next, ![r].settled = (next = "saveDeliverable")]
    /\ UNCHANGED <<rows, exchange, upsets, crashes>>

(* The reconciler an endpoint builds has no repository and an empty memory,  *)
(* so neither of its duplicate checks can object.                            *)
Reimburse(r) ==
    /\ req[r].pc = "reimburse"
    /\ bal["REVENUE"] >= Gross(r)
    /\ Draw(r, "reserve", "TREASURY", Cost(r))

AllocateReserve(r) == req[r].pc = "reserve" /\ Draw(r, "budget", "SURPLUS_RESERVE", Reserve(r))

AllocateBudget(r) == req[r].pc = "budget" /\ Draw(r, "saveDeliverable", "TREASURY", Share(r))

-----------------------------------------------------------------------------
(* coordinate_single_order: four commits after the mission, then the         *)
(* daemon's and the endpoint's own.                                          *)

SaveDeliverable(r) ==
    /\ req[r].pc = "saveDeliverable"
    /\ delivs' = delivs \cup {r}
    /\ Goto(r, "saveReceipt")
    /\ UNCHANGED <<born, row, receipts, events, lineage, daemon, saved, bal, exchange, upsets, crashes>>

SaveReceiptOrderFirst(r) ==                                           \* mutant
    /\ req[r].pc = "saveReceipt"
    /\ receipts' = receipts \cup {r}
    /\ row' = [row EXCEPT ![req[r].order] = IF req[r].settled THEN "SETTLED" ELSE "REJECTED"]
    /\ Goto(r, IF req[r].settled THEN "saveEvent" ELSE "saveOrder")
    /\ UNCHANGED <<born, delivs, events, lineage, daemon, saved, bal, exchange, upsets, crashes>>

SaveReceipt(r) ==
    /\ req[r].pc = "saveReceipt"
    /\ receipts' = receipts \cup {r}
    /\ Goto(r, IF req[r].settled THEN "saveEvent" ELSE "saveOrder")
    /\ UNCHANGED <<born, row, delivs, events, lineage, daemon, saved, bal, exchange, upsets, crashes>>

SaveEvent(r) ==
    /\ req[r].pc = "saveEvent"
    /\ events' = events \cup {r}
    /\ Goto(r, "saveOrder")
    /\ UNCHANGED <<born, row, delivs, receipts, lineage, daemon, saved, bal, exchange, upsets, crashes>>

SaveOrder(r) ==
    /\ req[r].pc = "saveOrder"
    /\ row' = [row EXCEPT ![req[r].order] = IF req[r].settled THEN "SETTLED" ELSE "REJECTED"]
    /\ Goto(r, Closing(req[r].kind))
    /\ UNCHANGED <<born, evidence, lineage, daemon, saved, bal, exchange, upsets, crashes>>

(* _last_mission_id moves only on success; both columns are overwritten with *)
(* what this daemon object holds.                                            *)
PersistState(r) ==
    /\ req[r].pc = "persist"
    /\ daemon' = [cycles |-> req[r].cycle, last |-> IF req[r].settled THEN r ELSE req[r].parent]
    /\ Goto(r, "saveCredits")
    /\ UNCHANGED <<born, row, evidence, lineage, saved, bal, exchange, upsets, crashes>>

SaveCredits(r) ==
    /\ req[r].pc = "saveCredits"
    /\ saved' = credit
    /\ Goto(r, "done")
    /\ UNCHANGED <<born, row, evidence, lineage, daemon, bal, exchange, upsets, crashes>>

(* The process dies: its requests and the provider's memory are gone. *)
Crash ==
    /\ crashes < MaxCrashes /\ Live # {}
    /\ crashes' = crashes + 1
    /\ upsets' = upsets \cup {"crash"}
    /\ req' = [r \in Requests |-> 
                 IF r \in Live THEN [req[r] EXCEPT !.pc = "dead", !.died = req[r].pc] ELSE req[r]]
    /\ credit' = 0 /\ usdg' = 0
    /\ UNCHANGED <<rows, bal>>

-----------------------------------------------------------------------------
Step(r) ==
    \/ Assess(r) \/ SaveRejected(r) \/ SaveAuthorized(r) \/ RecordLineage(r)
    \/ Preflight(r) \/ CheckTreasury(r) \/ Escrow(r)
    \/ \E answer \in Answers : Exchange(r, answer)
    \/ CloseEscrow(r) \/ Measure(r)
    \/ \E verdict \in Verdicts : Work(r, verdict)
    \/ Deposit(r) \/ Reimburse(r) \/ AllocateReserve(r) \/ AllocateBudget(r)
    \/ SaveDeliverable(r) \/ SaveReceipt(r) \/ SaveEvent(r) \/ SaveOrder(r)
    \/ PersistState(r) \/ SaveCredits(r)

Next ==
    \/ \E o \in Orders : CreateWorkOrder(o) \/ RepeatCreate(o)
    \/ \E r \in Requests, o \in Orders : StartExecute(r, o)
    \/ \E r \in Requests : StartDaemon(r) \/ Step(r)
    \/ Crash

Spec == Init /\ [][Next]_vars

-----------------------------------------------------------------------------
(* Correctness. *)

Labels == {"assess", "reject", "authorize", "lineage", "preflight", "treasury", "escrow",
           "exchange", "close", "measure", "work", "deposit", "reimburse", "reserve", "budget",
           "saveDeliverable", "saveReceipt", "saveEvent", "saveOrder", "persist", "saveCredits"}

RequestType ==
    [pc : Labels \cup Ended, kind : {"none", "execute", "daemon"}, order : Orders \cup {None},
     parent : Requests \cup {None}, cycle : Nat, reserve : {0, 20, 50}, target : Nat,
     before : Nat, expense : Nat, answer : Filled \cup TimedOut \cup {"none", "FAILURE"},
     settled : BOOLEAN, died : Labels \cup {"no"}]

(* Balances, credits and USDG stay natural numbers whatever requests overlap: *)
(* every debit is guarded where it happens (DoubleEntryLedger.transfer).      *)
TypeOK ==
    /\ born \in [Orders -> Nat]
    /\ row \in [Orders -> {"absent", "PROPOSED", "AUTHORIZED", "SETTLED", "REJECTED"}]
    /\ delivs \subseteq Requests /\ receipts \subseteq Requests /\ events \subseteq Requests
    /\ lineage \subseteq Requests \X (Requests \cup {None})
    /\ daemon \in [cycles : Nat, last : Requests \cup {None}]
    /\ saved \in Nat /\ credit \in Nat /\ usdg \in Nat
    /\ bal \in [Accounts -> Nat]
    /\ req \in [Requests -> RequestType]
    /\ upsets \subseteq {"overlap", "replay", "crash"} /\ crashes \in 0..MaxCrashes

(* Where a request is, or was when the process died. *)
Place(r) == IF req[r].pc = "dead" THEN req[r].died ELSE req[r].pc

(* A SETTLED row tells the truth about its order: one mission of it has its   *)
(* deliverable, its receipt and its revenue event stored and has divided the  *)
(* whole bounty.                                                              *)
SettledIsPaid ==
    \A o \in Orders : row[o] = "SETTLED" =>
        \E r \in delivs \cap receipts \cap events : req[r].order = o /\ req[r].settled

HeldAmount(r) ==
    IF Place(r) \in {"exchange", "close"} \/ req[r].answer \in TimedOut
    THEN Amount(req[r].target) ELSE 0

Undivided(r) ==
    IF Place(r) = "reimburse" THEN Gross(r)
    ELSE IF Place(r) = "reserve" THEN Net(r)
    ELSE IF Place(r) = "budget" THEN Net(r) - Reserve(r) ELSE 0

Retained(r) == IF Place(r) = "budget" \/ req[r].settled THEN Reserve(r) ELSE 0

Bought(r)   == IF req[r].answer \in Filled THEN CreditOut(req[r].target) ELSE 0
Consumed(r) == IF r \in delivs THEN Required[req[r].order] ELSE 0

(* ESCROW holds what missions in the middle of a purchase put there, and what *)
(* those left there that met a timeout: their loop is dropped unreconciled.   *)
EscrowHeld == bal["ESCROW"] = SumFunction([r \in Requests |-> HeldAmount(r)])

(* REVENUE holds exactly what missions between the deposit and the last       *)
(* transfer have not divided yet, and SURPLUS_RESERVE what the finished ones  *)
(* retained: rounding loses nothing, and one mission never drains another's.  *)
RevenueDivided ==
    /\ bal["REVENUE"] = SumFunction([r \in Requests |-> Undivided(r)])
    /\ bal["SURPLUS_RESERVE"] = SumFunction([r \in Requests |-> Retained(r)])

(* The stored credit balance is what was bought less what work consumed, as   *)
(* long as requests came one at a time and none died: a failed mission's      *)
(* credits, and those of a purchase whose answer was lost, are kept.          *)
CreditsAccounted ==
    upsets \cap {"overlap", "crash"} = {} /\ Live = {} =>
        saved = SumFunction([r \in Requests |-> Bought(r)])
                  - SumFunction([r \in Requests |-> Consumed(r)])

(* The chain of missions the daemon reports is made of missions that were     *)
(* paid, each with a smaller cycle number than the one it funded.             *)
LineageRooted ==
    /\ daemon.last # None => daemon.last \in events /\ req[daemon.last].cycle <= daemon.cycles
    /\ \A l \in lineage : l[2] # None => l[2] \in events /\ req[l[2]].cycle < req[l[1]].cycle

(* In STANDBY the daemon spends nothing: unless another request overlaps, a   *)
(* cycle escrows only while the treasury still is at the standby threshold.   *)
StandbyHaltsSpending ==
    [][\A r \in Requests :
         req[r].kind = "daemon" /\ req[r].pc = "escrow" /\ req'[r].pc = "exchange"
         /\ "overlap" \notin upsets => bal["TREASURY"] >= Standby]_vars

(* An authorised order is being worked on: a mission that ends, however it    *)
(* ends, moves it on.  It stays AUTHORIZED only if the process died in the    *)
(* mission or an overlapping request took the money of its purchase.          *)
AuthorizedOwned ==
    \A o \in Orders : row[o] = "AUTHORIZED" =>
        \E r \in Requests :
            /\ req[r].order = o
            /\ \/ r \in Live
               \/ req[r].pc = "dead" /\ req[r].died \notin {"persist", "saveCredits"}
               \/ req[r].pc = "raised" /\ "overlap" \in upsets

(* Every pool is what the missions that use it account for, wherever they are *)
(* or died: no balance is negative, and ESCROW, REVENUE, SURPLUS_RESERVE and  *)
(* the stored credits each are the sum of what missions left there.           *)
PoolsAccounted == TypeOK /\ EscrowHeld /\ RevenueDivided /\ CreditsAccounted

(* The stored rows tell the truth about the missions: SETTLED is paid,        *)
(* AUTHORIZED is worked on, and the reported chain of missions is paid for.   *)
RowsTruthful == SettledIsPaid /\ AuthorizedOwned /\ LineageRooted

(* "Work order has already been reconciled in durable storage"              *)
(* (economy/surplus_accounting.py:77), "prevents duplicate revenue or       *)
(* split" (docs/RUNBOOK_P1.md:145): a work order has one revenue event.  It *)
(* fails: the reconciler that would say so is built without the repository, *)
(* and no step in front of it looks at the order's status.                  *)
RevenueOnce == \A r, s \in events : req[r].order = req[s].order => r = s
=============================================================================
