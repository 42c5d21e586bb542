--------------------------- MODULE WorkOrdersProofs ---------------------------
(***************************************************************************)
(* Proofs about paid work, for every finite set of work orders, every        *)
(* bounty, cost, fill and threshold, and any number of interleaved requests  *)
(* and crashes.                                                              *)
(***************************************************************************)
EXTENDS WorkOrders, SumTheorems

(* A request and its mission: what it knows, and what it has stored, follows *)
(* from where it is or died.                                                 *)
Early   == {"assess", "reject", "authorize", "lineage", "preflight", "treasury", "escrow", "exchange"}
Mission == {"lineage", "preflight", "treasury", "escrow", "exchange", "close", "measure", "work",
            "deposit", "reimburse", "reserve", "budget", "saveDeliverable", "saveReceipt",
            "saveEvent", "saveOrder"}
Final   == {"saveOrder", "persist", "saveCredits", "done"}

RequestsOK ==
    \A r \in Requests :
        /\ req[r].pc = "idle" => req[r] = Idle
        /\ req[r].pc = "dead" => req[r].died \in Labels
        /\ Place(r) \in Mission \cup {"reject", "authorize"} => req[r].order \in Orders
        /\ req[r].kind = "execute" => req[r].order \in Orders
        /\ req[r].settled => req[r].order \in Orders
        /\ Place(r) \in Early => req[r].answer = "none"
        /\ Place(r) = "close" => req[r].answer \in {"SUCCESS", "FAILURE"}

StoredOK ==
    \A r \in Requests :
        /\ req[r].settled => Place(r) \in {"saveDeliverable", "saveReceipt", "saveEvent"} \cup Final
        /\ r \in delivs => Place(r) \in {"saveReceipt", "saveEvent"} \cup Final /\ req[r].order \in Orders
        /\ r \in events => req[r].pc # "idle"
        /\ Place(r) = "saveReceipt" => r \in delivs
        /\ Place(r) = "saveEvent" => r \in delivs \cap receipts
        /\ Place(r) \in Final /\ req[r].settled => r \in delivs \cap receipts \cap events

(* Rows are created once each, in some order. *)
BornOK ==
    /\ \A o \in Existing : born[o] \in 1..Cardinality(Existing)
    /\ \A o, p \in Existing : born[o] = born[p] => o = p
    /\ \A r \in Requests : req[r].order \in Orders => row[req[r].order] # "absent"

(* Requests that never overlapped come one at a time. *)
OneAtATime == "overlap" \notin upsets => \A r, s \in Live : r = s

(* Nobody then moves the treasury between a request's check and its escrow.  *)
TreasuryWatched ==
    "overlap" \notin upsets => \A r \in Requests :
        /\ req[r].pc = "escrow" => bal["TREASURY"] >= Amount(req[r].target)
        /\ req[r].kind = "daemon" /\ req[r].pc \in {"authorize", "lineage", "preflight", "treasury", "escrow"}
               => bal["TREASURY"] >= Standby

(* The one request in progress works on the credits, the stored balance is   *)
(* the truth between requests.                                               *)
Used(r) == IF r \in delivs \/ req[r].pc \in {"deposit", "reimburse", "reserve", "budget", "saveDeliverable"}
           THEN Required[req[r].order] ELSE 0

CreditsTracked ==
    upsets \cap {"overlap", "crash"} = {} =>
        (IF Live = {} THEN saved ELSE credit)
          = SumFunction([r \in Requests |-> Bought(r)]) - SumFunction([r \in Requests |-> Used(r)])

(* Requests that neither overlapped nor repeated an order take each order    *)
(* once, from PROPOSED.                                                      *)
Taken(r) ==
    Place(r) \in {"lineage", "preflight", "treasury", "escrow", "exchange", "close", "measure", "work",
                  "deposit", "reimburse", "reserve", "budget"} \/ req[r].settled

OrdersTaken ==
    upsets \cap {"overlap", "replay"} = {} =>
        /\ \A r \in Requests : Taken(r) => row[req[r].order] \notin {"absent", "PROPOSED"}
        /\ \A r, s \in Requests : Taken(r) /\ Taken(s) /\ req[r].order = req[s].order => r = s
        /\ \A r \in Requests :
             req[r].pc \in {"reject", "authorize"} \/ (req[r].pc = "assess" /\ req[r].kind = "execute")
               => row[req[r].order] = "PROPOSED"

(* An AUTHORIZED order has a mission that will still write its row, or died  *)
(* before it could, or lost its purchase to an overlapping request.          *)
MissionOwns ==
    \A o \in Orders : row[o] = "AUTHORIZED" =>
        \E r \in Requests : /\ req[r].order = o
                            /\ Place(r) \in Mission \/ (req[r].pc = "raised" /\ "overlap" \in upsets)

(* The mission a request continues was paid for, in an earlier cycle.        *)
ParentsPaid ==
    \A r \in Requests : req[r].parent # None =>
        req[r].parent \in events /\ req[req[r].parent].cycle < req[r].cycle

(* The inductive invariant. *)
IInv ==
    /\ TypeOK /\ EscrowHeld /\ RevenueDivided /\ RequestsOK /\ StoredOK /\ BornOK
    /\ OneAtATime /\ TreasuryWatched /\ CreditsTracked /\ OrdersTaken
    /\ SettledIsPaid /\ MissionOwns /\ ParentsPaid /\ LineageRooted

-----------------------------------------------------------------------------
(* Arithmetic of the exchange and of the division of the revenue. *)

(* A finite set has a greatest element in an order that is total on it. *)
LEMMA Greatest ==
  ASSUME NEW S, IsFiniteSet(S), S # {}, NEW R,
         \A x, y \in S : x # y => <<x, y>> \in R \/ <<y, x>> \in R,
         \A x, y, z \in S : <<x, y>> \in R /\ <<y, z>> \in R => <<x, z>> \in R
  PROVE  \E x \in S : \A y \in S \ {x} : <<x, y>> \in R
<1> DEFINE Has(T) == \E x \in T : \A y \in T \ {x} : <<x, y>> \in R
           B == {T \in SUBSET S : T # {} /\ ~Has(T)}
<1>1. CASE B # {}
  <2>0. B \subseteq SUBSET S
    OBVIOUS
  <2>1. PICK T \in B : \A U \in B : U \subseteq T => U = T
    <3> HIDE DEF B
    <3> QED
      BY <1>1, <2>0, MinimalSubset
  <2>2. PICK x : x \in T
    BY <2>1
  <2>3. T \ {x} \in SUBSET S /\ T \ {x} \notin B
    <3>1. T \in SUBSET S /\ T \ {x} \subseteq T /\ T \ {x} # T
      BY <2>0, <2>1, <2>2
    <3> HIDE DEF B
    <3> QED
      BY <2>1, <3>1
  <2>4. CASE T \ {x} = {}
    <3>1. \A y \in T \ {x} : <<x, y>> \in R
      BY <2>4
    <3>2. Has(T)
      BY <2>2, <3>1
    <3> QED
      BY <2>1, <3>2
  <2>5. CASE T \ {x} # {}
    <3>1. PICK m \in T \ {x} : \A y \in (T \ {x}) \ {m} : <<m, y>> \in R
      BY <2>1, <2>3, <2>5
    <3>2. CASE <<m, x>> \in R
      <4>1. \A y \in T \ {m} : <<m, y>> \in R
        BY <3>1, <3>2
      <4>2. Has(T)
        BY <3>1, <4>1
      <4> QED
        BY <2>1, <4>2
    <3>3. CASE <<x, m>> \in R
      <4>1. \A y \in T \ {x} : <<x, y>> \in R
        BY <2>1, <2>2, <3>1, <3>3
      <4>2. Has(T)
        BY <2>2, <4>1
      <4> QED
        BY <2>1, <4>2
    <3> QED
      BY <2>1, <2>2, <3>1, <3>2, <3>3
  <2> QED
    BY <2>4, <2>5
<1>2. CASE B = {}
  BY <1>2
<1> QED
  BY <1>1, <1>2

(* The library's Max and Min of two numbers. *)
LEMMA MaxPair ==
  ASSUME NEW a \in Int, NEW b \in Int
  PROVE  Max({a, b}) = IF a >= b THEN a ELSE b
<1> DEFINE m == IF a >= b THEN a ELSE b
<1>1. m \in {a, b} /\ \A y \in {a, b} : m >= y
  OBVIOUS
<1>2. \A x \in {a, b} : (\A y \in {a, b} : x >= y) => x = m
  OBVIOUS
<1> QED
  BY <1>1, <1>2 DEF Max

(* The same for the smaller one. *)
LEMMA MinPair ==
  ASSUME NEW a \in Int, NEW b \in Int
  PROVE  Min({a, b}) = IF a <= b THEN a ELSE b
<1> DEFINE m == IF a <= b THEN a ELSE b
<1>1. m \in {a, b} /\ \A y \in {a, b} : m <= y
  OBVIOUS
<1>2. \A x \in {a, b} : (\A y \in {a, b} : x <= y) => x = m
  OBVIOUS
<1> QED
  BY <1>1, <1>2 DEF Min

(* The greatest of finitely many numbers is one of them. *)
LEMMA MaxIn ==
  ASSUME NEW S, IsFiniteSet(S), S # {}, S \subseteq Int
  PROVE  Max(S) \in S
<1> DEFINE R == {p \in S \X S : p[1] >= p[2]}
<1>1. /\ \A x, y \in S : x # y => <<x, y>> \in R \/ <<y, x>> \in R
      /\ \A x, y, z \in S : <<x, y>> \in R /\ <<y, z>> \in R => <<x, z>> \in R
      /\ \A x, y \in S : <<x, y>> \in R => x >= y
  OBVIOUS
<1> HIDE DEF R
<1>2. PICK m \in S : \A y \in S \ {m} : <<m, y>> \in R
  BY <1>1, Greatest
<1>3. m \in Int /\ \A y \in S : m >= y
  <2>1. \A y \in S \ {m} : m >= y
    BY <1>1, <1>2
  <2>2. m \in Int /\ m >= m
    BY <1>2
  <2> QED
    BY <2>1, <2>2
<1>4. \E x \in S : \A y \in S : x >= y
  BY <1>3
<1> QED
  BY <1>4 DEF Max

(* The most any of the candidates needs is a natural number. *)
LEMMA TargetNat ==
  ASSUME NEW r \in Requests, NEW S \in SUBSET Orders, S # {}, NEW c \in Nat
  PROVE  LoopTarget(r, S, c) \in Nat
<1> DEFINE N == {Required[o] : o \in S}
           f == [o \in S |-> Required[o]]
<1>1. IsFiniteSet(S)
  BY WorkOrdersAssumption, FS_Subset
<1>2. N \subseteq Nat /\ N # {}
  BY WorkOrdersAssumption
<1>3. f \in Surjection(S, N)
  BY DEF Surjection
<1>4. IsFiniteSet(N)
  <2> HIDE DEF f, N
  <2> QED
    BY <1>1, <1>3, FS_Surjection
<1>5. Max(N) \in N
  <2>1. N \subseteq Int
    BY <1>2
  <2> HIDE DEF N
  <2> QED
    BY <1>2, <1>4, <2>1, MaxIn
<1>6. Max(N) \in Nat
  BY <1>2, <1>5
<1> QED
  BY <1>6 DEF LoopTarget

(* The order an analyst or a CEO picks is one of those it chose from: no two *)
(* rows have the same rank.                                                  *)
LEMMA NewestIn ==
  ASSUME NEW S \in SUBSET Orders, S # {}, TypeOK, \A o, p \in S : born[o] = born[p] => o = p
  PROVE  Newest(S) \in S
<1> DEFINE R == {p \in S \X S : Newer(p[1], p[2])}
<1>1. IsFiniteSet(S) /\ \A o \in S : born[o] \in Int
  BY WorkOrdersAssumption, FS_Subset DEF TypeOK
<1>2. /\ \A x, y \in S : x # y => <<x, y>> \in R \/ <<y, x>> \in R
      /\ \A x, y, z \in S : <<x, y>> \in R /\ <<y, z>> \in R => <<x, z>> \in R
      /\ \A x, y \in S : <<x, y>> \in R => Newer(x, y)
  BY <1>1 DEF Newer
<1> HIDE DEF R
<1>3. \E x \in S : \A y \in S \ {x} : <<x, y>> \in R
  BY <1>1, <1>2, Greatest, SMTT(30)
<1>4. \E x \in S : \A y \in S \ {x} : Newer(x, y)
  BY <1>2, <1>3
<1> QED
  BY <1>4 DEF Newest

(* Of orders with the same surplus and margin the newest is preferred, so    *)
(* the preference is total as well.                                          *)
LEMMA BestIn ==
  ASSUME NEW S \in SUBSET Orders, S # {}, TypeOK, \A o, p \in S : born[o] = born[p] => o = p,
         NEW c \in Nat
  PROVE  SelectBest(S, c) \in S
<1> DEFINE R == {p \in S \X S : Preferred(p[1], p[2], c)}
<1>1. IsFiniteSet(S) /\ \A o \in S : born[o] \in Int
  BY WorkOrdersAssumption, FS_Subset DEF TypeOK
<1>2. \A o \in S : Surplus(o, c) \in Int /\ Margin(o, c) \in Int
  <2> SUFFICES ASSUME NEW o \in S PROVE Surplus(o, c) \in Int /\ Margin(o, c) \in Int
    OBVIOUS
  <2>1. Bounty[o] \in Nat \ {0} /\ Required[o] \in Nat /\ Unit \in Nat \ {0}
    BY WorkOrdersAssumption
  <2>2. Max({0, Required[o] - c}) \in Int
    BY <2>1, MaxPair
  <2>3. ProjectedCost(o, c) \in Int
    <3> DEFINE m == Max({0, Required[o] - c})
    <3> HIDE DEF m
    <3> QED
      BY <2>1, <2>2 DEF ProjectedCost, CeilDiv, m
  <2>4. Surplus(o, c) \in Int
    BY <2>1, <2>3 DEF Surplus
  <2> DEFINE n == 2 * 10000 * Surplus(o, c) + Bounty[o]
             d == 2 * Bounty[o]
  <2>5. n \in Int /\ d \in Nat \ {0}
    BY <2>1, <2>4
  <2>6. Margin(o, c) = n \div d
    BY DEF Margin
  <2> HIDE DEF n, d
  <2> QED
    BY <2>4, <2>5, <2>6
<1>3. /\ \A x, y \in S : x # y => <<x, y>> \in R \/ <<y, x>> \in R
      /\ \A x, y, z \in S : <<x, y>> \in R /\ <<y, z>> \in R => <<x, z>> \in R
      /\ \A x, y \in S : <<x, y>> \in R => Preferred(x, y, c)
  BY <1>1, <1>2 DEF Preferred, Newer
<1> HIDE DEF R
<1>4. \E x \in S : \A y \in S \ {x} : <<x, y>> \in R
  BY <1>1, <1>3, Greatest
<1>5. \E x \in S : \A y \in S \ {x} : Preferred(x, y, c)
  BY <1>3, <1>4
<1> QED
  BY <1>5 DEF SelectBest

(* A purchase is a natural number of credits for a positive amount. *)
LEMMA PurchaseNat ==
  ASSUME NEW t \in Nat
  PROVE  UsdgIn(t) \in Nat /\ Amount(t) \in Nat /\ CreditOut(t) \in Nat
<1>1. CeilDiv(t * 10000, Fill) \in Nat
  <2> DEFINE n == t * 10000 + Fill - 1
             d == Fill
  <2>1. n \in Nat /\ d \in Nat \ {0}
    BY WorkOrdersAssumption
  <2> HIDE DEF n, d
  <2>2. n \div d \in Nat
    BY <2>1
  <2> QED
    BY <2>2 DEF n, d, CeilDiv
<1>2. UsdgIn(t) \in Nat
  BY <1>1, MinPair, WorkOrdersAssumption DEF UsdgIn
<1>3. UsdgIn(t) \div Unit \in Nat
  <2> DEFINE n == UsdgIn(t)
             d == Unit
  <2>1. n \in Nat /\ d \in Nat \ {0}
    BY <1>2, WorkOrdersAssumption
  <2> HIDE DEF n, d
  <2>2. n \div d \in Nat
    BY <2>1
  <2> QED
    BY <2>2 DEF n, d
<1>4. Amount(t) \in Nat
  BY <1>3, MaxPair DEF Amount
<1>5. CreditOut(t) \in Nat
  <2> DEFINE n == UsdgIn(t) * Fill
  <2>1. n \in Nat
    BY <1>2, WorkOrdersAssumption
  <2> HIDE DEF n
  <2>2. n \div 10000 \in Nat
    BY <2>1
  <2> QED
    BY <2>2 DEF n, CreditOut
<1> QED
  BY <1>2, <1>4, <1>5

(* The division of a bounty: cost and net make the gross, and the reserve is *)
(* a part of the net.                                                        *)
LEMMA DivisionOK ==
  req \in [Requests -> RequestType] => \A r \in Requests : req[r].order \in Orders =>
    /\ Gross(r) \in Nat /\ Cost(r) \in Nat /\ Net(r) \in Nat /\ Gross(r) - Cost(r) = Net(r)
    /\ Reserve(r) \in Nat /\ Reserve(r) <= Net(r)
<1> SUFFICES ASSUME req \in [Requests -> RequestType], NEW r \in Requests, req[r].order \in Orders
             PROVE  /\ Gross(r) \in Nat /\ Cost(r) \in Nat /\ Net(r) \in Nat /\ Gross(r) - Cost(r) = Net(r)
                    /\ Reserve(r) \in Nat /\ Reserve(r) <= Net(r)
  OBVIOUS
<1>1. Gross(r) \in Nat
  BY WorkOrdersAssumption DEF Gross
<1>2. req[r].expense \in Nat /\ req[r].reserve \in {0, 20, 50}
  BY DEF RequestType
<1>3. Cost(r) = IF Gross(r) <= req[r].expense THEN Gross(r) ELSE req[r].expense
  BY <1>1, <1>2, MinPair DEF Cost
<1>4. Net(r) = IF 0 >= Gross(r) - req[r].expense THEN 0 ELSE Gross(r) - req[r].expense
  BY <1>1, <1>2, MaxPair DEF Net
<1>5. Cost(r) \in Nat /\ Net(r) \in Nat /\ Gross(r) - Cost(r) = Net(r)
  BY <1>1, <1>2, <1>3, <1>4
<1>6. Reserve(r) \in Nat /\ Reserve(r) <= Net(r)
  <2> DEFINE n == Net(r)
  <2>1. n \in Nat
    BY <1>5
  <2>2. Reserve(r) = (n * req[r].reserve) \div 100
    BY DEF Reserve
  <2> HIDE DEF n
  <2>3. Reserve(r) \in Nat /\ Reserve(r) <= n
    BY <1>2, <2>1, <2>2
  <2> QED
    BY <2>3 DEF n
<1> QED
  BY <1>1, <1>5, <1>6

-----------------------------------------------------------------------------
(* What a step of a request changes. *)

(* Where it goes. *)
Flow(from, to) ==
    /\ from = "assess" => to \in {"persist", "reject", "authorize"}
    /\ from = "reject" => to \in {"persist", "saveCredits"}
    /\ from = "authorize" => to \in {"lineage", "preflight"}
    /\ from = "lineage" => to = "preflight"
    /\ from = "preflight" => to \in {"work", "saveOrder", "treasury"}
    /\ from = "treasury" => to \in {"measure", "escrow"}
    /\ from = "escrow" => to \in {"exchange", "raised"}
    /\ from = "exchange" => to \in {"measure", "close"}
    /\ from = "close" => to = "measure"
    /\ from = "measure" => to \in {"work", "saveOrder"}
    /\ from = "work" => to \in {"saveOrder", "deposit", "saveDeliverable"}
    /\ from = "deposit" => to = "reimburse"
    /\ from = "reimburse" => to = "reserve"
    /\ from = "reserve" => to = "budget"
    /\ from = "budget" => to = "saveDeliverable"
    /\ from = "saveDeliverable" => to = "saveReceipt"
    /\ from = "saveReceipt" => to \in {"saveEvent", "saveOrder"}
    /\ from = "saveEvent" => to = "saveOrder"
    /\ from = "saveOrder" => to \in {"persist", "saveCredits"}
    /\ from = "persist" => to = "saveCredits"
    /\ from = "saveCredits" => to = "done"

(* Its local state. *)
Moves(r) ==
    /\ req[r].pc \in Labels
    /\ req' \in [Requests -> RequestType]
    /\ \A s \in Requests \ {r} : req'[s] = req[s]
    /\ Flow(req[r].pc, req'[r].pc)
    /\ req'[r].kind = req[r].kind /\ req'[r].parent = req[r].parent
    /\ req'[r].cycle = req[r].cycle /\ req'[r].died = req[r].died
    /\ req[r].pc # "assess" => /\ req'[r].order = req[r].order
                               /\ req'[r].target = req[r].target
                               /\ req'[r].reserve = req[r].reserve
    /\ req[r].pc # "exchange" => req'[r].answer = req[r].answer
    /\ req[r].pc # "measure" => req'[r].expense = req[r].expense
    /\ req[r].pc # "budget" => req'[r].settled = req[r].settled
    /\ req[r].pc = "budget" => req'[r].settled = TRUE
    /\ req[r].pc = "saveReceipt" => req'[r].pc = IF req[r].settled THEN "saveEvent" ELSE "saveOrder"
    /\ UNCHANGED <<born, upsets, crashes>>

(* The rows it writes. *)
Writes(r) ==
    /\ row' = IF req[r].pc = "reject" THEN [row EXCEPT ![req[r].order] = "REJECTED"]
              ELSE IF req[r].pc = "authorize" THEN [row EXCEPT ![req[r].order] = "AUTHORIZED"]
              ELSE IF req[r].pc = "saveOrder"
                   THEN [row EXCEPT ![req[r].order] = IF req[r].settled THEN "SETTLED" ELSE "REJECTED"]
              ELSE row
    /\ delivs' = IF req[r].pc = "saveDeliverable" THEN delivs \cup {r} ELSE delivs
    /\ receipts' = IF req[r].pc = "saveReceipt" THEN receipts \cup {r} ELSE receipts
    /\ events' = IF req[r].pc = "saveEvent" THEN events \cup {r} ELSE events
    /\ lineage' = IF req[r].pc = "lineage" THEN lineage \cup {<<r, req[r].parent>>} ELSE lineage
    /\ daemon' = IF req[r].pc = "persist"
                 THEN [cycles |-> req[r].cycle, last |-> IF req[r].settled THEN r ELSE req[r].parent]
                 ELSE daemon
    /\ saved' = IF req[r].pc = "saveCredits" THEN credit ELSE saved

(* The balances it moves. *)
Pays(r) ==
    /\ req[r].pc \notin {"escrow", "close", "deposit", "reimburse", "reserve", "budget"} => bal' = bal
    /\ req[r].pc = "escrow" =>
         \/ bal["TREASURY"] < Amount(req[r].target) /\ bal' = bal /\ req'[r].pc = "raised"
         \/ /\ bal["TREASURY"] >= Amount(req[r].target) /\ req'[r].pc = "exchange"
            /\ Transfer("TREASURY", "ESCROW", Amount(req[r].target))
    /\ req[r].pc = "close" =>
         IF bal["ESCROW"] >= Amount(req[r].target)
         THEN \E to \in {"EXTERNAL_SINK", "TREASURY"} : Transfer("ESCROW", to, Amount(req[r].target))
         ELSE bal' = bal
    /\ req[r].pc = "deposit" => bal' = [bal EXCEPT !["REVENUE"] = @ + Gross(r)]
    /\ req[r].pc = "reimburse" => IF Cost(r) > 0 THEN Transfer("REVENUE", "TREASURY", Cost(r)) ELSE bal' = bal
    /\ req[r].pc = "reserve" =>
         IF Reserve(r) > 0 THEN Transfer("REVENUE", "SURPLUS_RESERVE", Reserve(r)) ELSE bal' = bal
    /\ req[r].pc = "budget" => IF Share(r) > 0 THEN Transfer("REVENUE", "TREASURY", Share(r)) ELSE bal' = bal

(* The shared exchange. *)
Trades(r) ==
    /\ credit' \in Nat /\ usdg' \in Nat
    /\ req[r].pc \notin {"exchange", "work"} => credit' = credit
    /\ req[r].pc = "exchange" =>
         /\ req'[r].answer \in Filled => credit' = credit + CreditOut(req[r].target)
         /\ req'[r].answer \notin Filled => credit' = credit
         /\ req'[r].pc = "measure" => req'[r].answer \in TimedOut
         /\ req'[r].pc = "close" => req'[r].answer \in {"SUCCESS", "FAILURE"}
    /\ req[r].pc = "work" =>
         credit' = IF req'[r].pc = "saveOrder" THEN credit ELSE credit - Required[req[r].order]

(* What it found when it chose its order. *)
Chooses(r) ==
    /\ req[r].pc = "assess" /\ req'[r].pc # "persist" =>
         /\ req'[r].order \in Candidates(r)
         /\ req[r].kind = "daemon" => bal["TREASURY"] >= Standby
    /\ req[r].pc = "assess" /\ req'[r].pc = "persist" => req'[r].order = req[r].order
    /\ req[r].pc = "treasury" /\ req'[r].pc = "escrow" => bal["TREASURY"] >= Amount(req[r].target)

Summary(r) == Moves(r) /\ Writes(r) /\ Pays(r) /\ Trades(r) /\ Chooses(r)

(* The fields of a request. *)
LEMMA Fields ==
  ASSUME TypeOK, NEW r \in Requests
  PROVE  /\ req[r] \in RequestType
         /\ req[r].pc \in Labels \cup Ended /\ req[r].order \in Orders \cup {None}
         /\ req[r].target \in Nat /\ req[r].before \in Nat /\ req[r].expense \in Nat
         /\ req[r].reserve \in {0, 20, 50} /\ req[r].cycle \in Nat /\ req[r].settled \in BOOLEAN
         /\ req[r].kind \in {"none", "execute", "daemon"}
         /\ bal["TREASURY"] \in Nat /\ bal["ESCROW"] \in Nat /\ bal["REVENUE"] \in Nat
         /\ credit \in Nat /\ usdg \in Nat
  BY DEF TypeOK, RequestType, Accounts

(* Updating the fields of a request keeps its type: CheckTreasury and        *)
(* Exchange write one field and the label, Measure two.                      *)
LEMMA CheckedType ==
  ASSUME NEW x \in RequestType, NEW p \in Labels \cup Ended, NEW n \in Nat
  PROVE  [x EXCEPT !.before = n, !.pc = p] \in RequestType
  BY DEF RequestType

(* Exchange. *)
LEMMA AnsweredType ==
  ASSUME NEW x \in RequestType, NEW p \in Labels \cup Ended,
         NEW a \in {"SUCCESS", "FAILURE", "TIMEOUT", "TIMEOUT_FILLED"}
  PROVE  [x EXCEPT !.answer = a, !.pc = p] \in RequestType
  BY DEF RequestType, Filled, TimedOut

(* Measure. *)
LEMMA MeasuredType ==
  ASSUME NEW x \in RequestType, NEW p \in Labels \cup Ended, NEW n \in Nat
  PROVE  [x EXCEPT !.expense = n, !.before = 0, !.pc = p] \in RequestType
  BY DEF RequestType

(* The transfers of the division. *)
LEMMA DrawnType ==
  ASSUME NEW x \in RequestType, NEW p \in Labels \cup Ended, NEW b \in BOOLEAN
  PROVE  [x EXCEPT !.pc = p, !.settled = b] \in RequestType
  BY DEF RequestType

(* Assess. *)
LEMMA ChosenType ==
  ASSUME NEW x \in RequestType, NEW p \in Labels \cup Ended, NEW o \in Orders,
         NEW pct \in {0, 20, 50}, NEW n \in Nat
  PROVE  [x EXCEPT !.pc = p, !.order = o, !.reserve = pct, !.target = n] \in RequestType
  BY DEF RequestType

(* Every step of a request is summarised, action by action. *)
LEMMA StepSummary ==
  ASSUME IInv, NEW r \in Requests, Step(r)
  PROVE  Summary(r)
<1>0. TypeOK /\ RequestsOK /\ StoredOK /\ BornOK
  BY DEF IInv
<1>1. /\ req[r] \in RequestType
      /\ req[r].pc \in Labels \cup Ended /\ req[r].order \in Orders \cup {None}
      /\ req[r].target \in Nat /\ req[r].before \in Nat /\ req[r].expense \in Nat
      /\ req[r].settled \in BOOLEAN /\ credit \in Nat /\ usdg \in Nat /\ bal["TREASURY"] \in Nat
      /\ req[r].kind \in {"none", "execute", "daemon"}
  BY <1>0, Fields
<1>2. req \in [Requests -> RequestType]
  BY <1>0 DEF TypeOK
<1>3. req[r].pc \in {"reimburse", "reserve"} => req[r].settled = FALSE
  BY <1>0, <1>1 DEF StoredOK, Place, Final
<1>4. CASE SaveRejected(r)
  <2>1. req[r].pc = "reject"
    BY <1>4 DEF SaveRejected
  <2>2. Moves(r)
    BY <1>1, <1>2, <1>3, <1>4, <2>1 DEF SaveRejected, Goto, Closing, Moves, Flow, RequestType, Labels, Ended, rows, evidence
  <2>3. Writes(r)
    BY <1>4, <2>1 DEF SaveRejected, Goto, Closing, Writes, rows, evidence
  <2>4. Pays(r) /\ Trades(r) /\ Chooses(r)
    BY <1>1, <1>4, <2>1 DEF SaveRejected, Goto, Closing, Pays, Trades, Chooses, exchange, Gross
  <2> QED
    BY <2>2, <2>3, <2>4 DEF Summary
<1>5. CASE SaveAuthorized(r)
  <2>1. req[r].pc = "authorize"
    BY <1>5 DEF SaveAuthorized
  <2>2. Moves(r)
    BY <1>1, <1>2, <1>3, <1>5, <2>1 DEF SaveAuthorized, Goto, Moves, Flow, RequestType, Labels, Ended, rows, evidence
  <2>3. Writes(r)
    BY <1>5, <2>1 DEF SaveAuthorized, Goto, Writes, rows, evidence
  <2>4. Pays(r) /\ Trades(r) /\ Chooses(r)
    BY <1>1, <1>5, <2>1 DEF SaveAuthorized, Goto, Pays, Trades, Chooses, exchange, Gross
  <2> QED
    BY <2>2, <2>3, <2>4 DEF Summary
<1>6. CASE RecordLineage(r)
  <2>1. req[r].pc = "lineage"
    BY <1>6 DEF RecordLineage
  <2>2. Moves(r)
    BY <1>1, <1>2, <1>3, <1>6, <2>1 DEF RecordLineage, Goto, Moves, Flow, RequestType, Labels, Ended, rows, evidence
  <2>3. Writes(r)
    BY <1>6, <2>1 DEF RecordLineage, Goto, Writes, rows, evidence
  <2>4. Pays(r) /\ Trades(r) /\ Chooses(r)
    BY <1>1, <1>6, <2>1 DEF RecordLineage, Goto, Pays, Trades, Chooses, exchange, Gross
  <2> QED
    BY <2>2, <2>3, <2>4 DEF Summary
<1>7. CASE Preflight(r)
  <2>1. req[r].pc = "preflight"
    BY <1>7 DEF Preflight
  <2>2. Moves(r)
    BY <1>1, <1>2, <1>3, <1>7, <2>1 DEF Preflight, Goto, Moves, Flow, RequestType, Labels, Ended, rows, evidence
  <2>3. Writes(r)
    BY <1>7, <2>1 DEF Preflight, Goto, Writes, rows, evidence
  <2>4. Pays(r) /\ Trades(r) /\ Chooses(r)
    BY <1>1, <1>7, <2>1 DEF Preflight, Goto, Pays, Trades, Chooses, exchange, Gross
  <2> QED
    BY <2>2, <2>3, <2>4 DEF Summary
<1>8. CASE CheckTreasury(r)
  <2>1. req[r].pc = "treasury"
    BY <1>8 DEF CheckTreasury
  <2>2. Moves(r)
    <3> DEFINE new == [req[r] EXCEPT !.before = bal["TREASURY"],
                       !.pc = IF bal["TREASURY"] < Amount(req[r].target) THEN "measure" ELSE "escrow"]
    <3>1. req' = [req EXCEPT ![r] = new] /\ UNCHANGED <<rows, upsets, crashes>>
      BY <1>8 DEF CheckTreasury
    <3>2. new \in RequestType
      <4>1. (IF bal["TREASURY"] < Amount(req[r].target) THEN "measure" ELSE "escrow") \in Labels
        BY DEF Labels
      <4> QED
        BY <1>1, <4>1, CheckedType
    <3>3. /\ new.pc = IF bal["TREASURY"] < Amount(req[r].target) THEN "measure" ELSE "escrow"
          /\ new.kind = req[r].kind /\ new.parent = req[r].parent /\ new.cycle = req[r].cycle /\ new.died = req[r].died
          /\ new.order = req[r].order /\ new.target = req[r].target /\ new.reserve = req[r].reserve
          /\ new.answer = req[r].answer /\ new.expense = req[r].expense /\ new.settled = req[r].settled
      BY <1>1 DEF RequestType
    <3> HIDE DEF new
    <3>4. req'[r] = new /\ req' \in [Requests -> RequestType] /\ \A s \in Requests \ {r} : req'[s] = req[s]
      BY <1>2, <3>1, <3>2
    <3> QED
      BY <1>1, <1>3, <2>1, <3>1, <3>2, <3>3, <3>4 DEF Moves, Flow, Labels, rows, evidence
  <2>3. Writes(r)
    BY <1>8, <2>1 DEF CheckTreasury, Writes, rows, evidence
  <2>4. req'[r].pc = "escrow" => bal["TREASURY"] >= Amount(req[r].target)
    <3>1. Amount(req[r].target) \in Nat
      BY <1>1, PurchaseNat
    <3>2. req'[r].pc = IF bal["TREASURY"] < Amount(req[r].target) THEN "measure" ELSE "escrow"
      BY <1>1, <1>2, <1>8 DEF CheckTreasury, RequestType
    <3> QED
      BY <1>1, <3>1, <3>2
  <2>5. Pays(r) /\ Trades(r) /\ Chooses(r)
    BY <1>1, <1>8, <2>1, <2>4 DEF CheckTreasury, Pays, Trades, Chooses, exchange
  <2> QED
    BY <2>2, <2>3, <2>5 DEF Summary
<1>9. CASE Escrow(r)
  <2>1. req[r].pc = "escrow"
    BY <1>9 DEF Escrow
  <2>2. Moves(r)
    BY <1>1, <1>2, <1>3, <1>9, <2>1 DEF Escrow, Goto, Moves, Flow, RequestType, Labels, Ended, rows, evidence
  <2>3. Writes(r)
    BY <1>9, <2>1 DEF Escrow, Goto, Writes, rows, evidence
  <2>4. Pays(r) /\ Trades(r) /\ Chooses(r)
    <3>1. Amount(req[r].target) \in Nat
      BY <1>1, PurchaseNat
    <3>2. CASE bal["TREASURY"] >= Amount(req[r].target)
      <4>1. req'[r].pc = "exchange"
        BY <1>1, <1>2, <1>9, <3>2 DEF Escrow, Goto, RequestType
      <4> QED
        BY <1>1, <1>9, <2>1, <3>2, <4>1 DEF Escrow, Pays, Trades, Chooses, exchange
    <3>3. CASE bal["TREASURY"] < Amount(req[r].target)
      <4>1. req'[r].pc = "raised" /\ bal' = bal
        BY <1>1, <1>2, <1>9, <3>1, <3>3 DEF Escrow, Goto, RequestType
      <4> QED
        BY <1>1, <1>9, <2>1, <3>3, <4>1 DEF Escrow, Pays, Trades, Chooses, exchange
    <3> QED
      BY <1>1, <3>1, <3>2, <3>3
  <2> QED
    BY <2>2, <2>3, <2>4 DEF Summary
<1>10. CASE CloseEscrow(r)
  <2>1. req[r].pc = "close"
    BY <1>10 DEF CloseEscrow
  <2>2. Moves(r)
    BY <1>1, <1>2, <1>3, <1>10, <2>1 DEF CloseEscrow, Goto, Moves, Flow, RequestType, Labels, Ended, rows, evidence
  <2>3. Writes(r)
    BY <1>10, <2>1 DEF CloseEscrow, Goto, Writes, rows, evidence
  <2>4. Pays(r) /\ Trades(r) /\ Chooses(r)
    BY <1>1, <1>10, <2>1 DEF CloseEscrow, Goto, Pays, Trades, Chooses, exchange, Gross
  <2> QED
    BY <2>2, <2>3, <2>4 DEF Summary
<1>11. CASE Measure(r)
  <2>1. req[r].pc = "measure"
    BY <1>11 DEF Measure
  <2>2. Max({0, req[r].before - bal["TREASURY"]}) \in Nat
    BY <1>1, MaxPair
  <2>3. Moves(r)
    <3> DEFINE new == [req[r] EXCEPT !.expense = Max({0, req[r].before - bal["TREASURY"]}), !.before = 0,
                       !.pc = IF req[r].answer = "SUCCESS" THEN "work" ELSE "saveOrder"]
    <3>1. req' = [req EXCEPT ![r] = new] /\ UNCHANGED <<rows, upsets, crashes>>
      BY <1>11 DEF Measure
    <3>2. new \in RequestType
      <4>1. (IF req[r].answer = "SUCCESS" THEN "work" ELSE "saveOrder") \in Labels
        BY DEF Labels
      <4> QED
        BY <1>1, <2>2, <4>1, MeasuredType
    <3>3. /\ new.pc \in {"work", "saveOrder"}
          /\ new.kind = req[r].kind /\ new.parent = req[r].parent /\ new.cycle = req[r].cycle /\ new.died = req[r].died
          /\ new.order = req[r].order /\ new.target = req[r].target /\ new.reserve = req[r].reserve
          /\ new.answer = req[r].answer /\ new.settled = req[r].settled
      BY <1>1 DEF RequestType
    <3> HIDE DEF new
    <3>4. req'[r] = new /\ req' \in [Requests -> RequestType] /\ \A s \in Requests \ {r} : req'[s] = req[s]
      BY <1>2, <3>1, <3>2
    <3> QED
      BY <1>1, <1>3, <2>1, <3>1, <3>2, <3>3, <3>4 DEF Moves, Flow, Labels, rows, evidence
  <2>4. Writes(r)
    BY <1>11, <2>1 DEF Measure, Writes, rows, evidence
  <2>5. Pays(r) /\ Trades(r) /\ Chooses(r)
    BY <1>1, <1>11, <2>1 DEF Measure, Pays, Trades, Chooses, exchange, Gross
  <2> QED
    BY <2>3, <2>4, <2>5 DEF Summary
<1>12. CASE Deposit(r)
  <2>1. req[r].pc = "deposit"
    BY <1>12 DEF Deposit
  <2>2. Moves(r)
    BY <1>1, <1>2, <1>3, <1>12, <2>1 DEF Deposit, Goto, Moves, Flow, RequestType, Labels, Ended, rows, evidence
  <2>3. Writes(r)
    BY <1>12, <2>1 DEF Deposit, Goto, Writes, rows, evidence
  <2>4. Pays(r) /\ Trades(r) /\ Chooses(r)
    BY <1>1, <1>12, <2>1 DEF Deposit, Goto, Pays, Trades, Chooses, exchange, Gross
  <2> QED
    BY <2>2, <2>3, <2>4 DEF Summary
<1>13. CASE Reimburse(r)
  <2>1. req[r].pc = "reimburse"
    BY <1>13 DEF Reimburse
  <2>2. Moves(r)
    <3> DEFINE new == [req[r] EXCEPT !.pc = "reserve", !.settled = FALSE]
    <3>1. req' = [req EXCEPT ![r] = new] /\ UNCHANGED <<rows, upsets, crashes>>
      BY <1>1, <1>2, <1>13 DEF Reimburse, Draw
    <3>2. new \in RequestType
      <4>1. "reserve" \in Labels
        BY DEF Labels
      <4> QED
        BY <1>1, <4>1, DrawnType
    <3>3. /\ new.pc = "reserve" /\ new.settled = FALSE
          /\ new.kind = req[r].kind /\ new.parent = req[r].parent /\ new.cycle = req[r].cycle /\ new.died = req[r].died
          /\ new.order = req[r].order /\ new.target = req[r].target /\ new.reserve = req[r].reserve
          /\ new.answer = req[r].answer /\ new.expense = req[r].expense
      BY <1>1 DEF RequestType
    <3> HIDE DEF new
    <3>4. req'[r] = new /\ req' \in [Requests -> RequestType] /\ \A s \in Requests \ {r} : req'[s] = req[s]
      BY <1>2, <3>1, <3>2
    <3> QED
      BY <1>1, <1>3, <2>1, <3>1, <3>2, <3>3, <3>4 DEF Moves, Flow, Labels, rows, evidence
  <2>3. Writes(r)
    BY <1>13, <2>1 DEF Reimburse, Draw, Writes, rows, evidence
  <2>4. Pays(r) /\ Trades(r) /\ Chooses(r)
    BY <1>1, <1>13, <2>1 DEF Reimburse, Draw, Pays, Trades, Chooses, exchange, Gross
  <2> QED
    BY <2>2, <2>3, <2>4 DEF Summary
<1>14. CASE AllocateReserve(r)
  <2>1. req[r].pc = "reserve"
    BY <1>14 DEF AllocateReserve
  <2>2. Moves(r)
    <3> DEFINE new == [req[r] EXCEPT !.pc = "budget", !.settled = FALSE]
    <3>1. req' = [req EXCEPT ![r] = new] /\ UNCHANGED <<rows, upsets, crashes>>
      BY <1>1, <1>2, <1>14 DEF AllocateReserve, Draw
    <3>2. new \in RequestType
      <4>1. "budget" \in Labels
        BY DEF Labels
      <4> QED
        BY <1>1, <4>1, DrawnType
    <3>3. /\ new.pc = "budget" /\ new.settled = FALSE
          /\ new.kind = req[r].kind /\ new.parent = req[r].parent /\ new.cycle = req[r].cycle /\ new.died = req[r].died
          /\ new.order = req[r].order /\ new.target = req[r].target /\ new.reserve = req[r].reserve
          /\ new.answer = req[r].answer /\ new.expense = req[r].expense
      BY <1>1 DEF RequestType
    <3> HIDE DEF new
    <3>4. req'[r] = new /\ req' \in [Requests -> RequestType] /\ \A s \in Requests \ {r} : req'[s] = req[s]
      BY <1>2, <3>1, <3>2
    <3> QED
      BY <1>1, <1>3, <2>1, <3>1, <3>2, <3>3, <3>4 DEF Moves, Flow, Labels, rows, evidence
  <2>3. Writes(r)
    BY <1>14, <2>1 DEF AllocateReserve, Draw, Writes, rows, evidence
  <2>4. Pays(r) /\ Trades(r) /\ Chooses(r)
    BY <1>1, <1>14, <2>1 DEF AllocateReserve, Draw, Pays, Trades, Chooses, exchange, Gross
  <2> QED
    BY <2>2, <2>3, <2>4 DEF Summary
<1>15. CASE AllocateBudget(r)
  <2>1. req[r].pc = "budget"
    BY <1>15 DEF AllocateBudget
  <2>2. Moves(r)
    <3> DEFINE new == [req[r] EXCEPT !.pc = "saveDeliverable", !.settled = TRUE]
    <3>1. req' = [req EXCEPT ![r] = new] /\ UNCHANGED <<rows, upsets, crashes>>
      BY <1>1, <1>2, <1>15 DEF AllocateBudget, Draw
    <3>2. new \in RequestType
      <4>1. "saveDeliverable" \in Labels
        BY DEF Labels
      <4> QED
        BY <1>1, <4>1, DrawnType
    <3>3. /\ new.pc = "saveDeliverable" /\ new.settled = TRUE
          /\ new.kind = req[r].kind /\ new.parent = req[r].parent /\ new.cycle = req[r].cycle /\ new.died = req[r].died
          /\ new.order = req[r].order /\ new.target = req[r].target /\ new.reserve = req[r].reserve
          /\ new.answer = req[r].answer /\ new.expense = req[r].expense
      BY <1>1 DEF RequestType
    <3> HIDE DEF new
    <3>4. req'[r] = new /\ req' \in [Requests -> RequestType] /\ \A s \in Requests \ {r} : req'[s] = req[s]
      BY <1>2, <3>1, <3>2
    <3> QED
      BY <1>1, <1>3, <2>1, <3>1, <3>2, <3>3, <3>4 DEF Moves, Flow, Labels, rows, evidence
  <2>3. Writes(r)
    BY <1>15, <2>1 DEF AllocateBudget, Draw, Writes, rows, evidence
  <2>4. Pays(r) /\ Trades(r) /\ Chooses(r)
    BY <1>1, <1>15, <2>1 DEF AllocateBudget, Draw, Pays, Trades, Chooses, exchange, Gross
  <2> QED
    BY <2>2, <2>3, <2>4 DEF Summary
<1>16. CASE SaveDeliverable(r)
  <2>1. req[r].pc = "saveDeliverable"
    BY <1>16 DEF SaveDeliverable
  <2>2. Moves(r)
    BY <1>1, <1>2, <1>3, <1>16, <2>1 DEF SaveDeliverable, Goto, Moves, Flow, RequestType, Labels, Ended, rows, evidence
  <2>3. Writes(r)
    BY <1>16, <2>1 DEF SaveDeliverable, Goto, Writes, rows, evidence
  <2>4. Pays(r) /\ Trades(r) /\ Chooses(r)
    BY <1>1, <1>16, <2>1 DEF SaveDeliverable, Goto, Pays, Trades, Chooses, exchange, Gross
  <2> QED
    BY <2>2, <2>3, <2>4 DEF Summary
<1>17. CASE SaveReceipt(r)
  <2>1. req[r].pc = "saveReceipt"
    BY <1>17 DEF SaveReceipt
  <2>2. Moves(r)
    BY <1>1, <1>2, <1>3, <1>17, <2>1 DEF SaveReceipt, Goto, Moves, Flow, RequestType, Labels, Ended, rows, evidence
  <2>3. Writes(r)
    BY <1>17, <2>1 DEF SaveReceipt, Goto, Writes, rows, evidence
  <2>4. Pays(r) /\ Trades(r) /\ Chooses(r)
    BY <1>1, <1>17, <2>1 DEF SaveReceipt, Goto, Pays, Trades, Chooses, exchange, Gross
  <2> QED
    BY <2>2, <2>3, <2>4 DEF Summary
<1>18. CASE SaveEvent(r)
  <2>1. req[r].pc = "saveEvent"
    BY <1>18 DEF SaveEvent
  <2>2. Moves(r)
    BY <1>1, <1>2, <1>3, <1>18, <2>1 DEF SaveEvent, Goto, Moves, Flow, RequestType, Labels, Ended, rows, evidence
  <2>3. Writes(r)
    BY <1>18, <2>1 DEF SaveEvent, Goto, Writes, rows, evidence
  <2>4. Pays(r) /\ Trades(r) /\ Chooses(r)
    BY <1>1, <1>18, <2>1 DEF SaveEvent, Goto, Pays, Trades, Chooses, exchange, Gross
  <2> QED
    BY <2>2, <2>3, <2>4 DEF Summary
<1>19. CASE SaveOrder(r)
  <2>1. req[r].pc = "saveOrder"
    BY <1>19 DEF SaveOrder
  <2>2. Moves(r)
    BY <1>1, <1>2, <1>3, <1>19, <2>1 DEF SaveOrder, Goto, Closing, Moves, Flow, RequestType, Labels, Ended, rows, evidence
  <2>3. Writes(r)
    BY <1>19, <2>1 DEF SaveOrder, Goto, Closing, Writes, rows, evidence
  <2>4. Pays(r) /\ Trades(r) /\ Chooses(r)
    BY <1>1, <1>19, <2>1 DEF SaveOrder, Goto, Closing, Pays, Trades, Chooses, exchange, Gross
  <2> QED
    BY <2>2, <2>3, <2>4 DEF Summary
<1>20. CASE PersistState(r)
  <2>1. req[r].pc = "persist"
    BY <1>20 DEF PersistState
  <2>2. Moves(r)
    BY <1>1, <1>2, <1>3, <1>20, <2>1 DEF PersistState, Goto, Moves, Flow, RequestType, Labels, Ended, rows, evidence
  <2>3. Writes(r)
    BY <1>20, <2>1 DEF PersistState, Goto, Writes, rows, evidence
  <2>4. Pays(r) /\ Trades(r) /\ Chooses(r)
    BY <1>1, <1>20, <2>1 DEF PersistState, Goto, Pays, Trades, Chooses, exchange, Gross
  <2> QED
    BY <2>2, <2>3, <2>4 DEF Summary
<1>21. CASE SaveCredits(r)
  <2>1. req[r].pc = "saveCredits"
    BY <1>21 DEF SaveCredits
  <2>2. Moves(r)
    BY <1>1, <1>2, <1>3, <1>21, <2>1 DEF SaveCredits, Goto, Moves, Flow, RequestType, Labels, Ended, rows, evidence
  <2>3. Writes(r)
    BY <1>21, <2>1 DEF SaveCredits, Goto, Writes, rows, evidence
  <2>4. Pays(r) /\ Trades(r) /\ Chooses(r)
    BY <1>1, <1>21, <2>1 DEF SaveCredits, Goto, Pays, Trades, Chooses, exchange, Gross
  <2> QED
    BY <2>2, <2>3, <2>4 DEF Summary
<1>22. CASE Assess(r)
  <2> DEFINE t == bal["TREASURY"]
             S == Candidates(r)
             viable == {o \in S : Viable(o, t, credit, MinMargin(req[r].kind, t))}
  <2>1. req[r].pc = "assess"
    BY <1>22 DEF Assess
  <2>2. S \in SUBSET Existing /\ S \in SUBSET Orders /\ viable \in SUBSET S
    BY <1>0, <1>1 DEF Candidates, Existing, RequestsOK, BornOK
  <2>3. \A o, p \in S : born[o] = born[p] => o = p
    BY <1>0, <2>2 DEF BornOK
  <2>4. t \in Nat /\ Unit \in Nat /\ Standby \in Nat /\ Expansion \in Nat /\ Standby <= Expansion
    BY <1>1, WorkOrdersAssumption
  <2>5. CASE Halted(r, t) \/ S = {}
    <3>1. req' = [req EXCEPT ![r].pc = "persist"] /\ UNCHANGED <<rows, bal, credit, usdg, upsets, crashes>>
      BY <1>22, <2>5 DEF Assess, Goto
    <3> HIDE DEF t, S, viable
    <3>2. Moves(r)
      BY <1>1, <1>2, <2>1, <3>1 DEF Moves, Flow, RequestType, Labels, Ended, rows, evidence
    <3>3. Writes(r)
      BY <2>1, <3>1 DEF Writes, rows, evidence
    <3>4. Pays(r) /\ Trades(r) /\ Chooses(r)
      BY <1>1, <1>2, <2>1, <3>1 DEF Pays, Trades, Chooses
    <3> QED
      BY <3>2, <3>3, <3>4 DEF Summary
  <2>6. CASE ~(Halted(r, t) \/ S = {})
    <3>1. LoopTarget(r, S, credit) \in Nat
      BY <1>1, <2>2, <2>6, TargetNat
    <3>2. Newest(S) \in S
      BY <1>0, <2>2, <2>3, <2>6, NewestIn
    <3>3. viable # {} => SelectBest(viable, credit) \in S
      <4>1. viable \in SUBSET Orders /\ \A o, p \in viable : born[o] = born[p] => o = p
        BY <2>2, <2>3
      <4>2. viable # {} => SelectBest(viable, credit) \in viable
        <5> HIDE DEF viable
        <5> QED
          BY <1>0, <1>1, <4>1, BestIn
      <4> QED
        BY <2>2, <4>2
    <3>4. PICK o \in S, label \in {"reject", "authorize"} :
            req' = [req EXCEPT ![r] = [@ EXCEPT !.pc = label, !.order = o,
                      !.reserve = ReservePct(req[r].kind, t), !.target = LoopTarget(r, S, credit)]]
      <4>1. CASE viable = {}
        BY <1>22, <2>6, <3>2, <4>1 DEF Assess
      <4>2. CASE viable # {}
        BY <1>22, <2>6, <3>3, <4>2 DEF Assess
      <4> QED
        BY <4>1, <4>2
    <3>5. UNCHANGED <<rows, bal, credit, upsets, crashes>>
      BY <1>22 DEF Assess
    <3>6. usdg' \in Nat
      <4>1. t * Unit \in Nat
        BY <2>4
      <4> QED
        BY <1>1, <1>22, <2>6, <4>1 DEF Assess
    <3>7. req[r].kind = "daemon" => t >= Standby
      BY <2>4, <2>6 DEF Halted, DeriveRegime
    <3>8. ReservePct(req[r].kind, t) \in {0, 20, 50} /\ o \in Orders
      BY <2>2 DEF ReservePct
    <3> DEFINE k == LoopTarget(r, S, credit)
               pct == ReservePct(req[r].kind, t)
    <3>9. /\ req' = [req EXCEPT ![r] = [@ EXCEPT !.pc = label, !.order = o, !.reserve = pct, !.target = k]]
          /\ k \in Nat /\ pct \in {0, 20, 50}
      BY <3>1, <3>4, <3>8
    <3> HIDE DEF k, pct, t, S, viable
    <3>10. Moves(r)
      <4> DEFINE new == [req[r] EXCEPT !.pc = label, !.order = o, !.reserve = pct, !.target = k]
      <4>1. req' = [req EXCEPT ![r] = new] /\ UNCHANGED <<rows, upsets, crashes>>
        BY <3>5, <3>9
      <4>2. new \in RequestType
        <5>1. /\ label \in Labels \cup Ended /\ o \in Orders /\ k \in Nat
              /\ pct \in {0, 20, 50} /\ req[r] \in RequestType
          BY <1>1, <3>8, <3>9 DEF Labels
        <5> QED
          BY ONLY <5>1, ChosenType, ZenonT(60)
      <4>3. /\ new.pc = label
            /\ new.kind = req[r].kind /\ new.parent = req[r].parent /\ new.cycle = req[r].cycle /\ new.died = req[r].died
            /\ new.answer = req[r].answer /\ new.expense = req[r].expense /\ new.settled = req[r].settled
        BY <1>1 DEF RequestType
      <4> HIDE DEF new
      <4>4. req'[r] = new /\ req' \in [Requests -> RequestType] /\ \A s \in Requests \ {r} : req'[s] = req[s]
        BY <1>2, <4>1, <4>2
      <4> QED
        BY <1>1, <1>3, <2>1, <4>1, <4>2, <4>3, <4>4 DEF Moves, Flow, Labels, rows, evidence
    <3>11. Writes(r)
      BY <2>1, <3>5 DEF Writes, rows, evidence
    <3>12. req'[r].order = o /\ req'[r].pc = label
      BY <1>1, <1>2, <3>9 DEF RequestType
    <3>13. Pays(r) /\ Trades(r) /\ Chooses(r)
      BY <1>1, <2>1, <3>4, <3>5, <3>6, <3>7, <3>12 DEF Pays, Trades, Chooses, S, t
    <3> QED
      BY <3>10, <3>11, <3>13 DEF Summary
  <2> QED
    BY <2>5, <2>6
<1>23. CASE \E answer \in Answers : Exchange(r, answer)
  <2>1. PICK answer \in Answers : Exchange(r, answer)
    BY <1>23
  <2>2. req[r].pc = "exchange"
    BY <2>1 DEF Exchange
  <2>3. answer \in {"SUCCESS", "FAILURE", "TIMEOUT", "TIMEOUT_FILLED"}
    BY WorkOrdersAssumption
  <2>4. UsdgIn(req[r].target) \in Nat /\ CreditOut(req[r].target) \in Nat
    BY <1>1, PurchaseNat
  <2> DEFINE out == Outcome(r, answer)
  <2>5. /\ out \in {"SUCCESS", "FAILURE", "TIMEOUT", "TIMEOUT_FILLED"}
        /\ answer \in TimedOut <=> out \in TimedOut
        /\ out \in Filled => usdg >= UsdgIn(req[r].target)
    BY <1>1, <2>3, <2>4 DEF Outcome, Filled, TimedOut
  <2>6. /\ req' = [req EXCEPT ![r] = [@ EXCEPT !.answer = out,
                      !.pc = IF answer \in TimedOut THEN "measure" ELSE "close"]]
        /\ UNCHANGED <<rows, bal, upsets, crashes>>
        /\ credit' = IF out \in Filled THEN credit + CreditOut(req[r].target) ELSE credit
        /\ usdg' = IF out \in Filled THEN usdg - UsdgIn(req[r].target) ELSE usdg
    BY <2>1 DEF Exchange
  <2> HIDE DEF out
  <2>7. Moves(r)
    <3> DEFINE new == [req[r] EXCEPT !.answer = out,
                       !.pc = IF answer \in TimedOut THEN "measure" ELSE "close"]
    <3>1. req' = [req EXCEPT ![r] = new] /\ UNCHANGED <<rows, upsets, crashes>>
      BY <2>6
    <3>2. new \in RequestType
      <4>1. (IF answer \in TimedOut THEN "measure" ELSE "close") \in Labels
        BY DEF Labels
      <4> QED
        BY <1>1, <2>5, <4>1, AnsweredType
    <3>3. /\ new.pc \in {"measure", "close"}
          /\ new.kind = req[r].kind /\ new.parent = req[r].parent /\ new.cycle = req[r].cycle /\ new.died = req[r].died
          /\ new.order = req[r].order /\ new.target = req[r].target /\ new.reserve = req[r].reserve
          /\ new.expense = req[r].expense /\ new.settled = req[r].settled
      BY <1>1 DEF RequestType
    <3> HIDE DEF new
    <3>4. req'[r] = new /\ req' \in [Requests -> RequestType] /\ \A s \in Requests \ {r} : req'[s] = req[s]
      BY <1>2, <3>1, <3>2
    <3> QED
      BY <1>1, <1>3, <2>2, <3>1, <3>2, <3>3, <3>4 DEF Moves, Flow, Labels, rows, evidence
  <2>8. Writes(r)
    BY <2>2, <2>6 DEF Writes, rows, evidence
  <2>9. req'[r].answer = out /\ req'[r].pc = IF answer \in TimedOut THEN "measure" ELSE "close"
    BY <1>1, <1>2, <2>6 DEF RequestType
  <2>10. credit' \in Nat /\ usdg' \in Nat
    BY <1>1, <2>4, <2>5, <2>6
  <2>11. Pays(r) /\ Chooses(r)
    BY <2>2, <2>6 DEF Pays, Chooses
  <2>12. Trades(r)
    BY <2>2, <2>5, <2>6, <2>9, <2>10 DEF Trades, Filled, TimedOut
  <2> QED
    BY <2>7, <2>8, <2>11, <2>12 DEF Summary
<1>24. CASE \E verdict \in Verdicts : Work(r, verdict)
  <2>1. PICK verdict \in Verdicts : Work(r, verdict)
    BY <1>24
  <2>2. req[r].pc = "work"
    BY <2>1 DEF Work
  <2>3. req[r].order \in Orders /\ Required[req[r].order] \in Nat
    BY <1>0, <2>2, WorkOrdersAssumption DEF RequestsOK, Place, Mission
  <2>4. PICK label \in {"saveOrder", "deposit", "saveDeliverable"} :
          /\ req' = [req EXCEPT ![r].pc = label]
          /\ label = "saveOrder" => credit' = credit
          /\ label # "saveOrder" => credit >= Required[req[r].order] /\ credit' = credit - Required[req[r].order]
    BY <1>1, <2>1, <2>3 DEF Work, Goto
  <2>5. UNCHANGED <<rows, bal, usdg, upsets, crashes>>
    BY <2>1 DEF Work
  <2>6. Moves(r)
    BY <1>1, <1>2, <2>2, <2>4, <2>5 DEF Moves, Flow, RequestType, Labels, Ended, rows, evidence
  <2>7. Writes(r)
    BY <2>2, <2>5 DEF Writes, rows, evidence
  <2>8. req'[r].pc = label
    BY <1>1, <1>2, <2>4 DEF RequestType
  <2>9. Pays(r) /\ Trades(r) /\ Chooses(r)
    BY <1>1, <2>2, <2>3, <2>4, <2>5, <2>8 DEF Pays, Trades, Chooses
  <2> QED
    BY <2>6, <2>7, <2>9 DEF Summary
<1> QED
  BY <1>4, <1>5, <1>6, <1>7, <1>8, <1>9, <1>10, <1>11, <1>12, <1>13, <1>14, <1>15, <1>16, <1>17, <1>18, <1>19, <1>20, <1>21, <1>22, <1>23, <1>24 DEF Step

(* Only the request that steps changes its place. *)
LEMMA StepPlace ==
  ASSUME NEW r \in Requests, Moves(r)
  PROVE  /\ Place(r) = req[r].pc /\ Place(r)' = req'[r].pc
         /\ req[r].pc \notin Ended /\ req'[r].pc \in Labels \cup {"done", "raised"}
         /\ \A s \in Requests \ {r} : Place(s)' = Place(s)
<1>1. req[r].pc \in Labels /\ req'[r].pc \in Labels \cup {"done", "raised"}
  BY DEF Moves, Flow, Labels
<1>2. Place(r) = req[r].pc /\ Place(r)' = req'[r].pc /\ req[r].pc \notin Ended
  BY <1>1 DEF Place, Labels, Ended
<1>3. \A s \in Requests \ {r} : Place(s)' = Place(s)
  BY DEF Moves, Place
<1> QED
  BY <1>1, <1>2, <1>3

(* RequestsOK, StoredOK and BornOK through a step. *)
LEMMA StepRequests ==
  ASSUME IInv, NEW r \in Requests, Summary(r)
  PROVE  RequestsOK'
<1>0. TypeOK /\ RequestsOK /\ BornOK /\ Moves(r) /\ Trades(r) /\ Chooses(r)
  BY DEF IInv, Summary
<1>1. /\ Place(r) = req[r].pc /\ Place(r)' = req'[r].pc
      /\ req[r].pc \notin Ended /\ req'[r].pc \in Labels \cup {"done", "raised"}
      /\ \A s \in Requests \ {r} : Place(s)' = Place(s)
  BY <1>0, StepPlace
<1>2. req[r].kind \in {"none", "execute", "daemon"} /\ req[r].pc \in Labels
  BY <1>0, Fields DEF Moves
<1>3. req[r].pc = "assess" /\ req'[r].pc # "persist" => req'[r].order \in Orders
  BY <1>0, <1>2 DEF Chooses, Candidates, RequestsOK
<1> SUFFICES ASSUME NEW s \in Requests
             PROVE  /\ req'[s].pc = "idle" => req'[s] = Idle
                    /\ req'[s].pc = "dead" => req'[s].died \in Labels
                    /\ Place(s)' \in Mission \cup {"reject", "authorize"} => req'[s].order \in Orders
                    /\ req'[s].kind = "execute" => req'[s].order \in Orders
                    /\ req'[s].settled => req'[s].order \in Orders
                    /\ Place(s)' \in Early => req'[s].answer = "none"
                    /\ Place(s)' = "close" => req'[s].answer \in {"SUCCESS", "FAILURE"}
  BY DEF RequestsOK
<1>4. CASE s # r
  BY <1>0, <1>1, <1>4 DEF RequestsOK, Moves
<1>5. CASE s = r
  <2>1. req'[r].pc \notin {"idle", "dead"}
    BY <1>1 DEF Labels
  <2>2. Place(r)' \in Mission \cup {"reject", "authorize"} => req'[r].order \in Orders
    BY <1>0, <1>1, <1>2, <1>3 DEF RequestsOK, Moves, Flow, Mission, Labels
  <2>3. req'[r].kind = "execute" => req'[r].order \in Orders
    <3>1. CASE req[r].pc # "assess"
      BY <1>0, <3>1 DEF RequestsOK, Moves
    <3>2. CASE req[r].pc = "assess"
      BY <1>0, <1>3, <3>2 DEF RequestsOK, Moves, Chooses
    <3> QED
      BY <3>1, <3>2
  <2>4. req'[r].settled => req'[r].order \in Orders
    <3>1. CASE req[r].pc = "assess"
      BY <1>0, <1>3, <3>1 DEF RequestsOK, Moves, Chooses
    <3>2. CASE req[r].pc = "budget"
      BY <1>0, <1>1, <3>2 DEF RequestsOK, Moves, Mission
    <3>3. CASE req[r].pc \notin {"assess", "budget"}
      BY <1>0, <3>3 DEF RequestsOK, Moves
    <3> QED
      BY <3>1, <3>2, <3>3
  <2>5. Place(r)' \in Early => req'[r].answer = "none"
    BY <1>0, <1>1, <1>2 DEF RequestsOK, Moves, Flow, Early, Labels
  <2>6. Place(r)' = "close" => req'[r].answer \in {"SUCCESS", "FAILURE"}
    BY <1>0, <1>1, <1>2 DEF RequestsOK, Moves, Flow, Trades, Labels
  <2> QED
    BY <1>5, <2>1, <2>2, <2>3, <2>4, <2>5, <2>6
<1> QED
  BY <1>4, <1>5

(* What is stored. *)
LEMMA StepStored ==
  ASSUME IInv, NEW r \in Requests, Summary(r)
  PROVE  StoredOK'
<1>0. RequestsOK /\ StoredOK /\ Moves(r) /\ Writes(r)
  BY DEF IInv, Summary
<1>1. /\ Place(r) = req[r].pc /\ Place(r)' = req'[r].pc
      /\ req[r].pc \notin Ended /\ req'[r].pc \in Labels \cup {"done", "raised"}
      /\ \A s \in Requests \ {r} : Place(s)' = Place(s)
  BY <1>0, StepPlace
<1>2. req[r].pc \in Labels
  BY <1>0 DEF Moves
<1> SUFFICES ASSUME NEW s \in Requests
             PROVE  /\ req'[s].settled => Place(s)' \in {"saveDeliverable", "saveReceipt", "saveEvent"} \cup Final
                    /\ s \in delivs' => Place(s)' \in {"saveReceipt", "saveEvent"} \cup Final /\ req'[s].order \in Orders
                    /\ s \in events' => req'[s].pc # "idle"
                    /\ Place(s)' = "saveReceipt" => s \in delivs'
                    /\ Place(s)' = "saveEvent" => s \in delivs' \cap receipts'
                    /\ Place(s)' \in Final /\ req'[s].settled => s \in delivs' \cap receipts' \cap events'
  BY DEF StoredOK
<1>3. CASE s # r
  <2>1. /\ req'[s] = req[s] /\ Place(s)' = Place(s)
        /\ s \in delivs' <=> s \in delivs
        /\ s \in receipts' <=> s \in receipts
        /\ s \in events' <=> s \in events
    BY <1>0, <1>1, <1>3 DEF Moves, Writes
  <2> QED
    BY <1>0, <2>1 DEF StoredOK
<1>4. CASE s = r
  <2>1. req'[r].settled => req'[r].pc \in {"saveDeliverable", "saveReceipt", "saveEvent"} \cup Final
    BY <1>0, <1>1, <1>2 DEF StoredOK, Moves, Flow, Final, Labels
  <2>2. r \in delivs' => req'[r].pc \in {"saveReceipt", "saveEvent"} \cup Final /\ req'[r].order \in Orders
    <3>1. CASE req[r].pc = "saveDeliverable"
      BY <1>0, <1>1, <3>1 DEF RequestsOK, Moves, Flow, Mission
    <3>2. CASE req[r].pc # "saveDeliverable"
      BY <1>0, <1>1, <1>2, <3>2 DEF StoredOK, Moves, Flow, Writes, Final, Labels
    <3> QED
      BY <3>1, <3>2
  <2>3. req'[r].pc # "idle"
    BY <1>1 DEF Labels
  <2>4. /\ req'[r].pc = "saveReceipt" => r \in delivs'
        /\ req'[r].pc = "saveEvent" => r \in delivs' \cap receipts'
    BY <1>0, <1>1, <1>2 DEF StoredOK, Moves, Flow, Writes, Labels
  <2>5. req'[r].pc \in Final /\ req'[r].settled => r \in delivs' \cap receipts' \cap events'
    <3> HAVE req'[r].pc \in Final /\ req'[r].settled
    <3>1. req[r].pc # "budget" /\ req[r].settled /\ req[r].pc # "saveReceipt"
      BY <1>0 DEF Moves, Flow, Final
    <3>2. req[r].pc \in {"saveDeliverable", "saveEvent", "saveOrder", "persist", "saveCredits"}
      BY <1>0, <1>1, <1>2, <3>1 DEF StoredOK, Final, Labels
    <3>3. req[r].pc # "saveDeliverable"
      BY <1>0 DEF Moves, Flow, Final
    <3> QED
      BY <1>0, <1>1, <3>1, <3>2, <3>3 DEF StoredOK, Writes, Final
  <2> QED
    BY <1>1, <1>4, <2>1, <2>2, <2>3, <2>4, <2>5
<1> QED
  BY <1>3, <1>4

(* The row of a request's order exists. *)
LEMMA StepBorn ==
  ASSUME IInv, NEW r \in Requests, Summary(r)
  PROVE  BornOK' /\ row' \in [Orders -> {"absent", "PROPOSED", "AUTHORIZED", "SETTLED", "REJECTED"}]
<1>0. TypeOK /\ RequestsOK /\ BornOK /\ Moves(r) /\ Writes(r) /\ Chooses(r)
  BY DEF IInv, Summary
<1>1. Place(r) = req[r].pc
  BY <1>0, StepPlace
<1>2. /\ row' \in [Orders -> {"absent", "PROPOSED", "AUTHORIZED", "SETTLED", "REJECTED"}]
      /\ \A o \in Orders : row'[o] = "absent" <=> row[o] = "absent"
  <2>1. req[r].pc \in {"reject", "authorize", "saveOrder"} =>
           req[r].order \in Orders /\ row[req[r].order] # "absent"
    BY <1>0, <1>1 DEF RequestsOK, BornOK, Mission
  <2> QED
    BY <1>0, <2>1 DEF Writes, TypeOK
<1>3. Existing' = Existing /\ born' = born
  BY <1>0, <1>2 DEF Existing, Moves
<1>4. \A s \in Requests : req'[s].order \in Orders => row[req'[s].order] # "absent"
  <2> SUFFICES ASSUME NEW s \in Requests, req'[s].order \in Orders PROVE row[req'[s].order] # "absent"
    OBVIOUS
  <2>1. CASE s # r \/ req[r].pc # "assess"
    BY <1>0, <2>1 DEF Moves, BornOK
  <2>2. CASE s = r /\ req[r].pc = "assess"
    <3>1. req[r].kind \in {"none", "execute", "daemon"}
      BY <1>0, Fields
    <3> QED
      BY <1>0, <2>2, <3>1 DEF Chooses, Candidates, BornOK
  <2> QED
    BY <2>1, <2>2
<1>5. \A s \in Requests : req'[s].order \in Orders => row'[req'[s].order] # "absent"
  BY <1>2, <1>4
<1> QED
  BY <1>0, <1>2, <1>3, <1>5 DEF BornOK

(* A step starts no request. *)
LEMMA StepAlone ==
  ASSUME IInv, NEW r \in Requests, Summary(r)
  PROVE  /\ r \in Live /\ Live' \subseteq Live
         /\ "overlap" \notin upsets => \A s \in Live : s = r
         /\ OneAtATime'
<1>0. OneAtATime /\ Moves(r)
  BY DEF IInv, Summary
<1>1. r \in Live /\ Live' \subseteq Live
  BY <1>0 DEF Moves, Live, Labels, Ended
<1>2. "overlap" \notin upsets => \A s \in Live : s = r
  BY <1>0, <1>1 DEF OneAtATime
<1>3. upsets' = upsets
  BY <1>0 DEF Moves
<1> QED
  BY <1>0, <1>1, <1>2, <1>3 DEF OneAtATime

(* Nobody else moves the treasury in between. *)
LEMMA StepTreasury ==
  ASSUME IInv, NEW r \in Requests, Summary(r)
  PROVE  TreasuryWatched'
<1>0. TreasuryWatched /\ Moves(r) /\ Pays(r) /\ Chooses(r)
  BY DEF IInv, Summary
<1>1. Live' \subseteq Live /\ ("overlap" \notin upsets => \A s \in Live : s = r)
  BY StepAlone
<1>2. upsets' = upsets /\ req[r].pc \in Labels
  BY <1>0 DEF Moves
<1> SUFFICES ASSUME "overlap" \notin upsets, NEW s \in Requests
             PROVE  /\ req'[s].pc = "escrow" => bal'["TREASURY"] >= Amount(req'[s].target)
                    /\ req'[s].kind = "daemon"
                         /\ req'[s].pc \in {"authorize", "lineage", "preflight", "treasury", "escrow"}
                         => bal'["TREASURY"] >= Standby
  BY <1>2 DEF TreasuryWatched
<1>3. CASE s # r
  <2>1. s \notin Live'
    BY <1>1, <1>3
  <2>2. req'[s].pc \in Ended
    BY <2>1 DEF Live
  <2> QED
    BY <2>2 DEF Ended
<1>4. CASE s = r
  <2>1. CASE req'[r].pc \in {"authorize", "lineage", "preflight", "treasury", "escrow"}
    <3>1. req[r].pc \in {"assess", "authorize", "lineage", "preflight", "treasury"}
      BY <1>0, <1>2, <2>1 DEF Moves, Flow, Labels
    <3>2. bal' = bal
      BY <1>0, <3>1 DEF Pays
    <3>3. req'[r].kind = "daemon" => bal["TREASURY"] >= Standby
      BY <1>0, <2>1, <3>1 DEF Moves, Chooses, TreasuryWatched
    <3>4. req'[r].pc = "escrow" => bal["TREASURY"] >= Amount(req'[r].target)
      BY <1>0, <3>1 DEF Moves, Flow, Chooses
    <3> QED
      BY <1>4, <3>2, <3>3, <3>4
  <2>2. CASE req'[r].pc \notin {"authorize", "lineage", "preflight", "treasury", "escrow"}
    BY <1>4, <2>2
  <2> QED
    BY <2>1, <2>2
<1> QED
  BY <1>3, <1>4

(* An order is taken from PROPOSED, and its row moves on. *)
LEMMA StepTaken ==
  ASSUME IInv, NEW r \in Requests, Summary(r)
  PROVE  OrdersTaken'
<1>0. TypeOK /\ RequestsOK /\ StoredOK /\ OrdersTaken /\ BornOK /\ Moves(r) /\ Writes(r) /\ Chooses(r)
  BY DEF IInv, Summary
<1>1. /\ Place(r) = req[r].pc /\ Place(r)' = req'[r].pc
      /\ \A s \in Requests \ {r} : Place(s)' = Place(s)
  BY <1>0, StepPlace
<1>2. Live' \subseteq Live /\ ("overlap" \notin upsets => \A s \in Live : s = r)
  BY StepAlone
<1>3. upsets' = upsets /\ req[r].pc \in Labels
  BY <1>0 DEF Moves
<1> SUFFICES ASSUME upsets \cap {"overlap", "replay"} = {}
             PROVE  /\ \A s \in Requests : Taken(s)' => row'[req'[s].order] \notin {"absent", "PROPOSED"}
                    /\ \A s, u \in Requests : Taken(s)' /\ Taken(u)' /\ req'[s].order = req'[u].order => s = u
                    /\ \A s \in Requests :
                         req'[s].pc \in {"reject", "authorize"} \/ (req'[s].pc = "assess" /\ req'[s].kind = "execute")
                           => row'[req'[s].order] = "PROPOSED"
  BY <1>3 DEF OrdersTaken
<1>4. /\ \A s \in Requests : Taken(s) => row[req[s].order] \notin {"absent", "PROPOSED"}
      /\ \A s, u \in Requests : Taken(s) /\ Taken(u) /\ req[s].order = req[u].order => s = u
      /\ \A s \in Requests :
           req[s].pc \in {"reject", "authorize"} \/ (req[s].pc = "assess" /\ req[s].kind = "execute")
             => row[req[s].order] = "PROPOSED"
  BY <1>0 DEF OrdersTaken
<1>5. \A s \in Requests \ {r} : (Taken(s)' <=> Taken(s)) /\ req'[s] = req[s]
  BY <1>0, <1>1 DEF Moves, Taken
<1>6. Taken(r)' => (Taken(r) \/ req[r].pc = "authorize") /\ req'[r].order = req[r].order
  <2>1. req[r].pc = "assess" => ~Taken(r)'
    BY <1>0, <1>1 DEF Taken, Moves, Flow, StoredOK, Final
  <2>2. Taken(r)' => Taken(r) \/ req[r].pc = "authorize"
    BY <1>0, <1>1, <1>3 DEF Taken, Moves, Flow, Labels
  <2> QED
    BY <1>0, <2>1, <2>2 DEF Moves
<1>7. \A o \in Orders : row[o] \notin {"absent", "PROPOSED"} => row'[o] \notin {"absent", "PROPOSED"}
  BY <1>0 DEF Writes, TypeOK
<1>8. \A s \in Requests : Taken(s) => req[s].order \in Orders
  BY <1>0 DEF Taken, RequestsOK, Mission
<1>9. req[r].pc = "authorize" =>
        /\ req[r].order \in Orders /\ row'[req[r].order] = "AUTHORIZED" /\ row[req[r].order] = "PROPOSED"
  <2>1. req[r].pc = "authorize" => req[r].order \in Orders
    BY <1>0, <1>1 DEF RequestsOK
  <2> QED
    BY <1>0, <1>4, <2>1 DEF Writes, TypeOK
<1>10. \A s \in Requests : Taken(s)' => row'[req'[s].order] \notin {"absent", "PROPOSED"}
  <2> SUFFICES ASSUME NEW s \in Requests, Taken(s)' PROVE row'[req'[s].order] \notin {"absent", "PROPOSED"}
    OBVIOUS
  <2>1. CASE s # r
    BY <1>4, <1>5, <1>7, <1>8, <2>1
  <2>2. CASE s = r
    BY <1>4, <1>6, <1>7, <1>8, <1>9, <2>2
  <2> QED
    BY <2>1, <2>2
<1>11. \A s, u \in Requests : Taken(s)' /\ Taken(u)' /\ req'[s].order = req'[u].order => s = u
  BY <1>4, <1>5, <1>6, <1>9
<1>12. ASSUME NEW s \in Requests,
              req'[s].pc \in {"reject", "authorize"} \/ (req'[s].pc = "assess" /\ req'[s].kind = "execute")
       PROVE  row'[req'[s].order] = "PROPOSED"
  <2>1. s = r
    BY <1>2, <1>12 DEF Live, Ended
  <2>2. req[r].pc = "assess" /\ req'[r].pc # "persist" /\ row' = row
    BY <1>0, <1>3, <1>12, <2>1 DEF Moves, Flow, Writes, Labels
  <2>3. req'[r].order \in Candidates(r)
    BY <1>0, <2>2 DEF Chooses
  <2>4. row[req'[r].order] = "PROPOSED"
    BY <1>4, <2>2, <2>3 DEF Candidates
  <2> QED
    BY <2>1, <2>2, <2>4
<1> QED
  BY <1>10, <1>11, <1>12

(* The rows tell the truth. *)
LEMMA StepRows ==
  ASSUME IInv, NEW r \in Requests, Summary(r)
  PROVE  SettledIsPaid' /\ MissionOwns'
<1>0. /\ TypeOK /\ RequestsOK /\ StoredOK /\ SettledIsPaid /\ MissionOwns /\ TreasuryWatched
      /\ Moves(r) /\ Writes(r) /\ Pays(r)
  BY DEF IInv, Summary
<1>1. /\ Place(r) = req[r].pc /\ Place(r)' = req'[r].pc
      /\ \A s \in Requests \ {r} : Place(s)' = Place(s) /\ req'[s] = req[s]
  BY <1>0, StepPlace DEF Moves
<1>2. req[r].pc \in {"reject", "authorize", "saveOrder"} => req[r].order \in Orders
  BY <1>0, <1>1 DEF RequestsOK, Mission
<1>3. ASSUME NEW o \in Orders, row'[o] = "SETTLED"
      PROVE  \E s \in delivs' \cap receipts' \cap events' : req'[s].order = o /\ req'[s].settled
  <2>1. CASE row[o] = "SETTLED"
    <3>1. PICK s \in delivs \cap receipts \cap events : req[s].order = o /\ req[s].settled
      BY <1>0, <2>1 DEF SettledIsPaid
    <3>2. s \in Requests
      BY <1>0, <3>1 DEF TypeOK
    <3>3. s = r => req[r].pc # "assess"
      BY <1>0, <1>1, <3>1 DEF StoredOK, Final
    <3>4. req'[s].order = o /\ req'[s].settled
      BY <1>0, <1>1, <3>1, <3>2, <3>3 DEF Moves
    <3>5. s \in delivs' \cap receipts' \cap events'
      BY <1>0, <3>1 DEF Writes
    <3> QED
      BY <3>4, <3>5
  <2>2. CASE row[o] # "SETTLED"
    <3>1. req[r].pc = "saveOrder" /\ req[r].order = o /\ req[r].settled
      BY <1>0, <1>2, <1>3, <2>2 DEF Writes, TypeOK
    <3>2. r \in delivs \cap receipts \cap events
      BY <1>0, <1>1, <3>1 DEF StoredOK, Final
    <3>3. req'[r].order = o /\ req'[r].settled
      BY <1>0, <3>1 DEF Moves
    <3>4. r \in delivs' \cap receipts' \cap events'
      BY <1>0, <3>2 DEF Writes
    <3> QED
      BY <3>3, <3>4
  <2> QED
    BY <2>1, <2>2
<1>4. ASSUME NEW o \in Orders, row'[o] = "AUTHORIZED"
      PROVE  \E s \in Requests : /\ req'[s].order = o
                                 /\ Place(s)' \in Mission \/ (req'[s].pc = "raised" /\ "overlap" \in upsets')
  <2>1. CASE req[r].pc = "authorize" /\ req[r].order = o
    <3>1. req'[r].order = o /\ req'[r].pc \in Mission
      BY <1>0, <2>1 DEF Moves, Flow, Mission
    <3> QED
      BY <1>1, <3>1
  <2>2. CASE ~(req[r].pc = "authorize" /\ req[r].order = o)
    <3>1. row[o] = "AUTHORIZED" /\ ~(req[r].pc = "saveOrder" /\ req[r].order = o)
      BY <1>0, <1>2, <1>4, <2>2 DEF Writes, TypeOK
    <3>2. PICK s \in Requests : /\ req[s].order = o
                                /\ Place(s) \in Mission \/ (req[s].pc = "raised" /\ "overlap" \in upsets)
      BY <1>0, <3>1 DEF MissionOwns
    <3>3. upsets' = upsets
      BY <1>0 DEF Moves
    <3>4. CASE s # r
      BY <1>1, <3>2, <3>3, <3>4
    <3>5. CASE s = r
      <4>1. req[r].pc \in Mission /\ req[r].pc # "saveOrder"
        BY <1>0, <1>1, <3>1, <3>2, <3>5 DEF Moves, Labels
      <4>2. req'[r].order = o /\ (req'[r].pc \in Mission \/ (req[r].pc = "escrow" /\ req'[r].pc = "raised"))
        BY <1>0, <3>2, <3>5, <4>1 DEF Moves, Flow, Mission
      <4>3. req[r].pc = "escrow" /\ req'[r].pc = "raised" => "overlap" \in upsets
        <5>1. bal["TREASURY"] \in Nat /\ Amount(req[r].target) \in Nat
          BY <1>0, Fields, PurchaseNat
        <5> QED
          BY <1>0, <5>1 DEF TreasuryWatched, Pays
      <4> QED
        BY <1>1, <3>3, <4>2, <4>3
    <3> QED
      BY <3>4, <3>5
  <2> QED
    BY <2>1, <2>2
<1> QED
  BY <1>3, <1>4 DEF SettledIsPaid, MissionOwns

(* The chain of missions. *)
LEMMA StepChain ==
  ASSUME IInv, NEW r \in Requests, Summary(r)
  PROVE  ParentsPaid' /\ LineageRooted'
<1>0. TypeOK /\ RequestsOK /\ StoredOK /\ ParentsPaid /\ LineageRooted /\ Moves(r) /\ Writes(r)
  BY DEF IInv, Summary
<1>1. /\ \A s \in Requests : req'[s].parent = req[s].parent /\ req'[s].cycle = req[s].cycle
      /\ \A s \in Requests : req[s].cycle \in Nat /\ req[s].parent \in Requests \cup {None}
      /\ events \subseteq events' /\ events \subseteq Requests
  BY <1>0, Fields DEF Moves, Writes, TypeOK, RequestType
<1>2. ParentsPaid'
  <2> SUFFICES ASSUME NEW s \in Requests, req'[s].parent # None
               PROVE  req'[s].parent \in events' /\ req'[req'[s].parent].cycle < req'[s].cycle
    BY DEF ParentsPaid
  <2>1. req[s].parent \in events /\ req[req[s].parent].cycle < req[s].cycle /\ req[s].parent \in Requests
    BY <1>0, <1>1 DEF ParentsPaid
  <2> QED
    BY <1>1, <2>1
<1>3. daemon'.last # None => daemon'.last \in events' /\ req'[daemon'.last].cycle <= daemon'.cycles
  <2>1. CASE req[r].pc # "persist"
    <3>1. daemon' = daemon
      BY <1>0, <2>1 DEF Writes
    <3>2. daemon.last # None => daemon.last \in events /\ req[daemon.last].cycle <= daemon.cycles
      BY <1>0 DEF LineageRooted
    <3> QED
      BY <1>1, <3>1, <3>2
  <2>2. CASE req[r].pc = "persist"
    <3>1. daemon'.cycles = req[r].cycle /\ daemon'.last = IF req[r].settled THEN r ELSE req[r].parent
      BY <1>0, <2>2 DEF Writes
    <3>2. CASE req[r].settled
      <4>1. r \in events
        BY <1>0, <2>2, <3>2 DEF StoredOK, Place, Final
      <4> QED
        BY <1>1, <3>1, <3>2, <4>1
    <3>3. CASE ~req[r].settled
      <4>1. req[r].parent # None => req[r].parent \in events /\ req[req[r].parent].cycle < req[r].cycle
        BY <1>0 DEF ParentsPaid
      <4>2. daemon'.last = req[r].parent
        BY <3>1, <3>3
      <4> QED
        BY <1>1, <3>1, <4>1, <4>2
    <3> QED
      BY <3>2, <3>3
  <2> QED
    BY <2>1, <2>2
<1>4. ASSUME NEW l \in lineage', l[2] # None
      PROVE  l[2] \in events' /\ req'[l[2]].cycle < req'[l[1]].cycle
  <2>1. CASE l \in lineage
    <3>1. l[2] \in events /\ req[l[2]].cycle < req[l[1]].cycle /\ l[1] \in Requests
      BY <1>0, <1>4, <2>1 DEF LineageRooted, TypeOK
    <3> QED
      BY <1>1, <3>1
  <2>2. CASE l \notin lineage
    <3>1. l[1] = r /\ l[2] = req[r].parent
      BY <1>0, <2>2 DEF Writes
    <3>2. req[r].parent \in events /\ req[req[r].parent].cycle < req[r].cycle
      BY <1>0, <1>4, <3>1 DEF ParentsPaid
    <3> QED
      BY <1>1, <3>1, <3>2
  <2> QED
    BY <2>1, <2>2
<1> QED
  BY <1>2, <1>3, <1>4 DEF LineageRooted

-----------------------------------------------------------------------------
(* The pools through a step. *)

(* What each request accounts for is a natural number. *)
LEMMA PartsNat ==
  req \in [Requests -> RequestType] /\ RequestsOK /\ StoredOK => \A s \in Requests :
      /\ HeldAmount(s) \in Nat /\ Undivided(s) \in Nat /\ Retained(s) \in Nat
      /\ Bought(s) \in Nat /\ Used(s) \in Nat
<1> SUFFICES ASSUME req \in [Requests -> RequestType], RequestsOK, StoredOK, NEW s \in Requests
             PROVE  /\ HeldAmount(s) \in Nat /\ Undivided(s) \in Nat /\ Retained(s) \in Nat
                    /\ Bought(s) \in Nat /\ Used(s) \in Nat
  OBVIOUS
<1>1. req[s].target \in Nat
  BY DEF RequestType
<1>2. HeldAmount(s) \in Nat /\ Bought(s) \in Nat
  BY <1>1, PurchaseNat DEF HeldAmount, Bought
<1>3. Place(s) \in {"reimburse", "reserve", "budget"} \/ req[s].settled => req[s].order \in Orders
  BY DEF RequestsOK, Mission
<1>4. req[s].order \in Orders =>
        Gross(s) \in Nat /\ Net(s) \in Nat /\ Reserve(s) \in Nat /\ Net(s) - Reserve(s) \in Nat
  <2>1. req[s].order \in Orders =>
          Gross(s) \in Nat /\ Net(s) \in Nat /\ Reserve(s) \in Nat /\ Reserve(s) <= Net(s)
    BY DivisionOK
  <2> QED
    BY <2>1
<1>5. Undivided(s) \in Nat /\ Retained(s) \in Nat
  BY <1>3, <1>4 DEF Undivided, Retained
<1>6. s \in delivs \/ req[s].pc \in {"deposit", "reimburse", "reserve", "budget", "saveDeliverable"}
        => req[s].order \in Orders
  BY DEF StoredOK, RequestsOK, Place, Mission
<1>7. Used(s) \in Nat
  BY <1>6, WorkOrdersAssumption DEF Used
<1> QED
  BY <1>2, <1>5, <1>7

(* Only the request that steps changes what it accounts for. *)
LEMMA OthersKept ==
  ASSUME NEW r \in Requests, Moves(r), Writes(r)
  PROVE  \A s \in Requests \ {r} :
           /\ HeldAmount(s)' = HeldAmount(s) /\ Undivided(s)' = Undivided(s)
           /\ Retained(s)' = Retained(s) /\ Bought(s)' = Bought(s) /\ Used(s)' = Used(s)
<1> SUFFICES ASSUME NEW s \in Requests \ {r}
             PROVE  /\ HeldAmount(s)' = HeldAmount(s) /\ Undivided(s)' = Undivided(s)
                    /\ Retained(s)' = Retained(s) /\ Bought(s)' = Bought(s) /\ Used(s)' = Used(s)
  OBVIOUS
<1>1. req'[s] = req[s] /\ Place(s)' = Place(s) /\ (s \in delivs' <=> s \in delivs)
  BY StepPlace DEF Moves, Writes
<1>2. HeldAmount(s)' = HeldAmount(s) /\ Bought(s)' = Bought(s)
  BY <1>1 DEF HeldAmount, Bought
<1>3. Gross(s)' = Gross(s) /\ Net(s)' = Net(s) /\ Reserve(s)' = Reserve(s)
  BY <1>1 DEF Gross, Net, Reserve
<1>4. Undivided(s)' = Undivided(s) /\ Retained(s)' = Retained(s)
  BY <1>1, <1>3 DEF Undivided, Retained
<1>5. Used(s)' = Used(s)
  BY <1>1 DEF Used
<1> QED
  BY <1>2, <1>4, <1>5

(* The requests are finitely many. *)
LEMMA RequestsFinite == IsFiniteSet(Requests)
  BY FS_Interval, WorkOrdersAssumption DEF Requests

(* ESCROW, REVENUE and SURPLUS_RESERVE change by what the request's account  *)
(* of them does, and no balance goes below zero.                             *)
LEMMA StepPools ==
  ASSUME IInv, NEW r \in Requests, Summary(r)
  PROVE  EscrowHeld' /\ RevenueDivided' /\ bal' \in [Accounts -> Nat]
<1>0. /\ TypeOK /\ RequestsOK /\ StoredOK /\ EscrowHeld /\ RevenueDivided
      /\ Moves(r) /\ Writes(r) /\ Pays(r) /\ Trades(r)
  BY DEF IInv, Summary
<1>1. /\ Place(r) = req[r].pc /\ Place(r)' = req'[r].pc /\ req[r].pc \in Labels
  BY <1>0, StepPlace DEF Moves
<1> DEFINE h == [s \in Requests |-> HeldAmount(s)]
           hh == [s \in Requests |-> HeldAmount(s)']
           u == [s \in Requests |-> Undivided(s)]
           uu == [s \in Requests |-> Undivided(s)']
           k == [s \in Requests |-> Retained(s)]
           kk == [s \in Requests |-> Retained(s)']
<1>2. h \in [Requests -> Nat] /\ u \in [Requests -> Nat] /\ k \in [Requests -> Nat]
  BY <1>0, PartsNat DEF TypeOK
<1>3. hh \in [Requests -> Nat] /\ uu \in [Requests -> Nat] /\ kk \in [Requests -> Nat]
  <2>1. RequestsOK' /\ StoredOK'
    BY StepRequests, StepStored
  <2>2. (req \in [Requests -> RequestType])'
    BY <1>0 DEF Moves
  <2>3. (\A s \in Requests :
          /\ HeldAmount(s) \in Nat /\ Undivided(s) \in Nat /\ Retained(s) \in Nat
          /\ Bought(s) \in Nat /\ Used(s) \in Nat)'
    BY <2>1, <2>2, PartsNat, PTL
  <2> QED
    BY <2>3
<1>4. \A s \in Requests : s # r => h[s] = hh[s] /\ u[s] = uu[s] /\ k[s] = kk[s]
  BY <1>0, OthersKept
<1>5. /\ bal["ESCROW"] = SumFunction(h) /\ bal["REVENUE"] = SumFunction(u)
      /\ bal["SURPLUS_RESERVE"] = SumFunction(k)
  BY <1>0 DEF EscrowHeld, RevenueDivided
<1>6. h[r] = HeldAmount(r) /\ hh[r] = HeldAmount(r)' /\ u[r] = Undivided(r) /\ uu[r] = Undivided(r)'
      /\ k[r] = Retained(r) /\ kk[r] = Retained(r)'
  OBVIOUS
<1>7. /\ (EscrowHeld' <=> bal'["ESCROW"] = SumFunction(hh))
      /\ (RevenueDivided' <=> bal'["REVENUE"] = SumFunction(uu) /\ bal'["SURPLUS_RESERVE"] = SumFunction(kk))
  BY DEF EscrowHeld, RevenueDivided
<1> HIDE DEF h, hh, u, uu, k, kk
<1>8. /\ SumFunction(hh) = SumFunction(h) - HeldAmount(r) + HeldAmount(r)'
      /\ SumFunction(uu) = SumFunction(u) - Undivided(r) + Undivided(r)'
      /\ SumFunction(kk) = SumFunction(k) - Retained(r) + Retained(r)'
  <2>1. /\ h \in [Requests -> Int] /\ u \in [Requests -> Int] /\ k \in [Requests -> Int]
        /\ hh \in [Requests -> Int] /\ uu \in [Requests -> Int] /\ kk \in [Requests -> Int]
    BY <1>2, <1>3
  <2>2. SumFunction(hh) = SumFunction(h) - h[r] + hh[r]
    BY <1>4, <2>1, RequestsFinite, SumChange
  <2>3. SumFunction(uu) = SumFunction(u) - u[r] + uu[r]
    BY <1>4, <2>1, RequestsFinite, SumChange
  <2>4. SumFunction(kk) = SumFunction(k) - k[r] + kk[r]
    BY <1>4, <2>1, RequestsFinite, SumChange
  <2> QED
    BY <1>6, <2>2, <2>3, <2>4
<1>9. HeldAmount(r) <= SumFunction(h) /\ Undivided(r) <= SumFunction(u)
  BY <1>2, <1>6, RequestsFinite, SumNat
<1>10. /\ HeldAmount(r) \in Nat /\ HeldAmount(r)' \in Nat /\ Undivided(r) \in Nat /\ Undivided(r)' \in Nat
       /\ Retained(r) \in Nat /\ Retained(r)' \in Nat
  BY <1>2, <1>3, <1>6
<1>11. bal \in [Accounts -> Nat] /\ Amount(req[r].target) \in Nat
  BY <1>0, Fields, PurchaseNat DEF TypeOK
<1>12. /\ req[r].pc \in {"exchange", "close"} => HeldAmount(r) = Amount(req[r].target)
       /\ req[r].pc \in Early \ {"exchange"} => HeldAmount(r) = 0
       /\ req'[r].pc \in Early \ {"exchange"} => HeldAmount(r)' = 0
       /\ req'[r].pc = "exchange" => HeldAmount(r)' = Amount(req[r].target)
  <2>1. req'[r].pc \in Early => req'[r].answer = "none"
    <3>1. RequestsOK'
      BY StepRequests
    <3> QED
      BY <1>1, <3>1 DEF RequestsOK
  <2>2. req[r].pc \in Early => req[r].answer = "none"
    BY <1>0, <1>1 DEF RequestsOK
  <2>3. req'[r].pc = "exchange" => req'[r].target = req[r].target
    BY <1>0 DEF Moves, Flow
  <2> QED
    BY <1>1, <2>1, <2>2, <2>3 DEF HeldAmount, Early, TimedOut
<1>13. CASE req[r].pc \in {"deposit", "reimburse", "reserve", "budget"}
  <2>1. /\ req[r].order \in Orders /\ req'[r].order = req[r].order /\ req'[r].expense = req[r].expense
        /\ req'[r].reserve = req[r].reserve /\ req'[r].target = req[r].target /\ req'[r].answer = req[r].answer
    BY <1>0, <1>1, <1>13 DEF Moves, RequestsOK, Mission
  <2>2. /\ Gross(r)' = Gross(r) /\ Net(r)' = Net(r) /\ Reserve(r)' = Reserve(r)
    BY <2>1 DEF Gross, Net, Reserve
  <2>3. /\ Gross(r) \in Nat /\ Cost(r) \in Nat /\ Net(r) \in Nat /\ Gross(r) - Cost(r) = Net(r)
        /\ Reserve(r) \in Nat /\ Reserve(r) <= Net(r) /\ Share(r) = Net(r) - Reserve(r)
    BY <1>0, <2>1, DivisionOK DEF TypeOK, Share
  <2>4. HeldAmount(r)' = HeldAmount(r)
    BY <1>0, <1>1, <1>13, <2>1 DEF HeldAmount, Moves, Flow
  <2>5. req[r].settled = FALSE
    <3>1. req[r].settled \in BOOLEAN
      BY <1>0, Fields
    <3> QED
      BY <1>0, <1>1, <1>13, <3>1 DEF StoredOK, Final
  <2>6. CASE req[r].pc = "deposit"
    <3>1. Undivided(r) = 0 /\ Undivided(r)' = Gross(r) /\ Retained(r) = 0 /\ Retained(r)' = 0
      BY <1>0, <1>1, <2>2, <2>5, <2>6 DEF Undivided, Retained, Moves, Flow
    <3>2. bal' = [bal EXCEPT !["REVENUE"] = @ + Gross(r)]
      BY <1>0, <2>6 DEF Pays
    <3> QED
      BY <1>5, <1>7, <1>8, <1>10, <1>11, <2>3, <2>4, <3>1, <3>2 DEF Accounts
  <2>7. CASE req[r].pc = "reimburse"
    <3>1. Undivided(r) = Gross(r) /\ Undivided(r)' = Net(r) /\ Retained(r) = 0 /\ Retained(r)' = 0
      BY <1>0, <1>1, <2>2, <2>5, <2>7 DEF Undivided, Retained, Moves, Flow
    <3>2. IF Cost(r) > 0 THEN Transfer("REVENUE", "TREASURY", Cost(r)) ELSE bal' = bal
      BY <1>0, <2>7 DEF Pays
    <3> QED
      BY <1>5, <1>7, <1>8, <1>9, <1>10, <1>11, <2>3, <2>4, <3>1, <3>2 DEF Accounts, Transfer
  <2>8. CASE req[r].pc = "reserve"
    <3>1. Undivided(r) = Net(r) /\ Undivided(r)' = Net(r) - Reserve(r) /\ Retained(r) = 0 /\ Retained(r)' = Reserve(r)
      BY <1>0, <1>1, <2>2, <2>5, <2>8 DEF Undivided, Retained, Moves, Flow
    <3>2. IF Reserve(r) > 0 THEN Transfer("REVENUE", "SURPLUS_RESERVE", Reserve(r)) ELSE bal' = bal
      BY <1>0, <2>8 DEF Pays
    <3> QED
      BY <1>5, <1>7, <1>8, <1>9, <1>10, <1>11, <2>3, <2>4, <3>1, <3>2 DEF Accounts, Transfer
  <2>9. CASE req[r].pc = "budget"
    <3>1. Undivided(r) = Net(r) - Reserve(r) /\ Undivided(r)' = 0 /\ Retained(r) = Reserve(r) /\ Retained(r)' = Reserve(r)
      BY <1>0, <1>1, <2>2, <2>5, <2>9 DEF Undivided, Retained, Moves, Flow
    <3>2. IF Share(r) > 0 THEN Transfer("REVENUE", "TREASURY", Share(r)) ELSE bal' = bal
      BY <1>0, <2>9 DEF Pays
    <3> QED
      BY <1>5, <1>7, <1>8, <1>9, <1>10, <1>11, <2>3, <2>4, <3>1, <3>2 DEF Accounts, Transfer
  <2> QED
    BY <1>13, <2>6, <2>7, <2>8, <2>9
<1>14. CASE req[r].pc \notin {"deposit", "reimburse", "reserve", "budget"}
  <2>1. Undivided(r) = 0 /\ Undivided(r)' = 0
    BY <1>0, <1>1, <1>14 DEF Undivided, Moves, Flow, Labels
  <2>2. Retained(r)' = Retained(r)
    <3>1. req[r].pc \in {"assess", "measure"} => ~req[r].settled
      BY <1>0, <1>1 DEF StoredOK, Final
    <3>2. req[r].pc \notin {"assess", "measure"} => Reserve(r)' = Reserve(r)
      BY <1>0 DEF Moves, Reserve, Net, Gross
    <3>3. req[r].pc # "budget" /\ req'[r].pc # "budget" /\ req'[r].settled = req[r].settled
      BY <1>0, <1>1, <1>14 DEF Moves, Flow, Labels
    <3> QED
      BY <1>1, <3>1, <3>2, <3>3 DEF Retained
  <2>3. CASE req[r].pc = "escrow"
    <3>1. HeldAmount(r) = 0
      BY <1>12, <2>3 DEF Early
    <3>2. CASE bal' = bal /\ req'[r].pc = "raised"
      <4>1. HeldAmount(r)' = 0
        <5>1. req'[r].answer = "none"
          BY <1>0, <1>1, <2>3 DEF Moves, RequestsOK, Early
        <5> QED
          BY <1>1, <3>2, <5>1 DEF HeldAmount, TimedOut
      <4> QED
        BY <1>5, <1>7, <1>8, <1>10, <1>11, <2>1, <2>2, <3>1, <3>2, <4>1 DEF Accounts
    <3>3. CASE /\ bal["TREASURY"] >= Amount(req[r].target) /\ req'[r].pc = "exchange"
               /\ Transfer("TREASURY", "ESCROW", Amount(req[r].target))
      <4>1. HeldAmount(r)' = Amount(req[r].target)
        BY <1>12, <3>3
      <4> QED
        BY <1>5, <1>7, <1>8, <1>10, <1>11, <2>1, <2>2, <3>1, <3>3, <4>1 DEF Accounts, Transfer
    <3> QED
      BY <1>0, <2>3, <3>2, <3>3 DEF Pays
  <2>4. CASE req[r].pc = "close"
    <3>1. HeldAmount(r) = Amount(req[r].target)
      BY <1>12, <2>4
    <3>2. HeldAmount(r)' = 0
      <4>1. req'[r].answer \in {"SUCCESS", "FAILURE"} /\ req'[r].pc = "measure"
        BY <1>0, <1>1, <2>4 DEF Moves, Flow, RequestsOK
      <4> QED
        BY <1>1, <4>1 DEF HeldAmount, TimedOut
    <3>3. bal["ESCROW"] >= Amount(req[r].target)
      BY <1>5, <1>9, <3>1
    <3>4. PICK to \in {"EXTERNAL_SINK", "TREASURY"} : Transfer("ESCROW", to, Amount(req[r].target))
      BY <1>0, <2>4, <3>3 DEF Pays
    <3> QED
      BY <1>5, <1>7, <1>8, <1>10, <1>11, <2>1, <2>2, <3>1, <3>2, <3>3, <3>4 DEF Accounts, Transfer
  <2>5. CASE req[r].pc \notin {"escrow", "close"}
    <3>1. bal' = bal
      BY <1>0, <1>14, <2>5 DEF Pays
    <3>2. HeldAmount(r)' = HeldAmount(r)
      <4>1. CASE req[r].pc = "exchange"
        <5>1. req'[r].target = req[r].target /\ (req'[r].pc = "close" \/ req'[r].answer \in TimedOut)
          BY <1>0, <4>1 DEF Moves, Flow, Trades
        <5> QED
          BY <1>1, <1>12, <4>1, <5>1 DEF HeldAmount
      <4>2. CASE req[r].pc = "assess"
        <5>1. req[r].answer = "none" /\ req'[r].answer = "none" /\ req'[r].pc \notin {"exchange", "close"}
          BY <1>0, <1>1, <4>2 DEF RequestsOK, Moves, Flow, Early
        <5> QED
          BY <1>1, <4>2, <5>1 DEF HeldAmount, TimedOut
      <4>3. CASE req[r].pc \notin {"exchange", "assess"}
        <5>1. /\ req'[r].answer = req[r].answer /\ req'[r].target = req[r].target
              /\ req[r].pc \notin {"exchange", "close"} /\ req'[r].pc \notin {"exchange", "close"}
          BY <1>0, <1>1, <2>5, <4>3 DEF Moves, Flow, Labels
        <5> QED
          BY <1>1, <5>1 DEF HeldAmount
      <4> QED
        BY <4>1, <4>2, <4>3
    <3> QED
      BY <1>5, <1>7, <1>8, <1>10, <1>11, <2>1, <2>2, <3>1, <3>2 DEF Accounts
  <2> QED
    BY <2>3, <2>4, <2>5
<1> QED
  BY <1>13, <1>14

(* The credits change by what the request bought and used. *)
LEMMA StepCredits ==
  ASSUME IInv, NEW r \in Requests, Summary(r)
  PROVE  CreditsTracked'
<1>0. /\ TypeOK /\ RequestsOK /\ StoredOK /\ CreditsTracked /\ TreasuryWatched
      /\ Moves(r) /\ Writes(r) /\ Pays(r) /\ Trades(r)
  BY DEF IInv, Summary
<1>1. /\ Place(r) = req[r].pc /\ Place(r)' = req'[r].pc /\ req[r].pc \in Labels
  BY <1>0, StepPlace DEF Moves
<1>2. /\ r \in Live /\ Live' \subseteq Live /\ upsets' = upsets
      /\ "overlap" \notin upsets => \A s \in Live : s = r
  BY <1>0, StepAlone DEF Moves
<1> DEFINE b == [s \in Requests |-> Bought(s)]
           bb == [s \in Requests |-> Bought(s)']
           u == [s \in Requests |-> Used(s)]
           uu == [s \in Requests |-> Used(s)']
<1>3. b \in [Requests -> Nat] /\ u \in [Requests -> Nat]
  BY <1>0, PartsNat DEF TypeOK
<1>4. bb \in [Requests -> Nat] /\ uu \in [Requests -> Nat]
  <2>1. RequestsOK' /\ StoredOK'
    BY StepRequests, StepStored
  <2>2. (req \in [Requests -> RequestType])'
    BY <1>0 DEF Moves
  <2>3. (\A s \in Requests :
          /\ HeldAmount(s) \in Nat /\ Undivided(s) \in Nat /\ Retained(s) \in Nat
          /\ Bought(s) \in Nat /\ Used(s) \in Nat)'
    BY <2>1, <2>2, PartsNat, PTL
  <2> QED
    BY <2>3
<1>5. \A s \in Requests : s # r => b[s] = bb[s] /\ u[s] = uu[s]
  BY <1>0, OthersKept
<1>6. b[r] = Bought(r) /\ bb[r] = Bought(r)' /\ u[r] = Used(r) /\ uu[r] = Used(r)'
  OBVIOUS
<1> SUFFICES ASSUME upsets \cap {"overlap", "crash"} = {}
             PROVE  (IF Live' = {} THEN saved' ELSE credit') = SumFunction(bb) - SumFunction(uu)
  BY <1>2 DEF CreditsTracked
<1>7. credit = SumFunction(b) - SumFunction(u)
  BY <1>0, <1>2 DEF CreditsTracked
<1> HIDE DEF b, bb, u, uu
<1>8. /\ SumFunction(bb) = SumFunction(b) - Bought(r) + Bought(r)' /\ SumFunction(b) \in Int
      /\ SumFunction(uu) = SumFunction(u) - Used(r) + Used(r)' /\ SumFunction(u) \in Int
  <2>1. b \in [Requests -> Int] /\ u \in [Requests -> Int] /\ bb \in [Requests -> Int] /\ uu \in [Requests -> Int]
    BY <1>3, <1>4
  <2>2. SumFunction(bb) = SumFunction(b) - b[r] + bb[r] /\ SumFunction(b) \in Int
    BY <1>5, <2>1, RequestsFinite, SumChange
  <2>3. SumFunction(uu) = SumFunction(u) - u[r] + uu[r] /\ SumFunction(u) \in Int
    BY <1>5, <2>1, RequestsFinite, SumChange
  <2> QED
    BY <1>6, <2>2, <2>3
<1>9. Bought(r) \in Nat /\ Bought(r)' \in Nat /\ Used(r) \in Nat /\ Used(r)' \in Nat /\ credit \in Nat /\ credit' \in Nat
  BY <1>0, <1>3, <1>4, <1>6 DEF TypeOK, Trades
<1>10. credit' = credit - Bought(r) + Bought(r)' + Used(r) - Used(r)'
  <2>1. CASE req[r].pc = "exchange"
    <3>1. Bought(r) = 0
      BY <1>0, <1>1, <2>1 DEF Bought, RequestsOK, Early, Filled
    <3>2. Used(r)' = Used(r)
      BY <1>0, <2>1 DEF Used, Moves, Writes, Flow
    <3>3. req'[r].target = req[r].target
      BY <1>0, <2>1 DEF Moves
    <3>4. Bought(r)' = IF req'[r].answer \in Filled THEN CreditOut(req[r].target) ELSE 0
      BY <3>3 DEF Bought
    <3>5. credit' = credit + Bought(r)'
      BY <1>0, <1>9, <2>1, <3>4 DEF Trades
    <3> QED
      BY <1>9, <3>1, <3>2, <3>5
  <2>2. CASE req[r].pc = "work"
    <3>1. Bought(r)' = Bought(r)
      BY <1>0, <2>2 DEF Bought, Moves
    <3>2. Used(r) = 0
      BY <1>0, <1>1, <2>2 DEF Used, StoredOK, Final
    <3>3. Used(r)' = IF req'[r].pc = "saveOrder" THEN 0 ELSE Required[req[r].order]
      <4>1. r \notin delivs' /\ req'[r].order = req[r].order
        BY <1>0, <1>1, <2>2 DEF Writes, StoredOK, Moves, Final
      <4> QED
        BY <1>0, <2>2, <4>1 DEF Used, Moves, Flow
    <3>4. credit' = IF req'[r].pc = "saveOrder" THEN credit ELSE credit - Required[req[r].order]
      BY <1>0, <2>2 DEF Trades
    <3> QED
      BY <1>9, <3>1, <3>2, <3>3, <3>4
  <2>3. CASE req[r].pc = "assess"
    <3>1. Bought(r) = 0 /\ Bought(r)' = 0
      BY <1>0, <1>1, <2>3 DEF Bought, RequestsOK, Moves, Early, Filled
    <3>2. Used(r) = 0 /\ Used(r)' = 0
      <4>1. r \notin delivs /\ r \notin delivs'
        BY <1>0, <1>1, <2>3 DEF Writes, StoredOK, Final
      <4> QED
        BY <1>0, <2>3, <4>1 DEF Used, Moves, Flow
    <3>3. credit' = credit
      BY <1>0, <2>3 DEF Trades
    <3> QED
      BY <1>9, <3>1, <3>2, <3>3
  <2>4. CASE req[r].pc \notin {"exchange", "work", "assess"}
    <3>1. Bought(r)' = Bought(r)
      BY <1>0, <2>4 DEF Bought, Moves
    <3>2. Used(r)' = Used(r)
      <4>1. req'[r].order = req[r].order
        BY <1>0, <2>4 DEF Moves
      <4>2. /\ r \in delivs' \/ req'[r].pc \in {"deposit", "reimburse", "reserve", "budget", "saveDeliverable"}
            <=> r \in delivs \/ req[r].pc \in {"deposit", "reimburse", "reserve", "budget", "saveDeliverable"}
        BY <1>0, <1>1, <2>4 DEF Moves, Flow, Writes, Labels
      <4> QED
        BY <4>1, <4>2 DEF Used
    <3>3. credit' = credit
      BY <1>0, <2>4 DEF Trades
    <3> QED
      BY <1>9, <3>1, <3>2, <3>3
  <2> QED
    BY <2>1, <2>2, <2>3, <2>4
<1>11. CASE Live' = {}
  <2>1. req'[r].pc \in {"done", "raised"}
    <3>1. req'[r].pc \in Ended
      BY <1>11 DEF Live
    <3> QED
      BY <1>0, <1>1, <3>1 DEF Moves, Flow, Ended, Labels
  <2>2. req'[r].pc # "raised"
    <3>1. bal["TREASURY"] \in Nat /\ Amount(req[r].target) \in Nat
      BY <1>0, Fields, PurchaseNat
    <3>2. req'[r].pc = "raised" => req[r].pc = "escrow"
      BY <1>0, <1>1 DEF Moves, Flow, Labels
    <3> QED
      BY <1>0, <3>1, <3>2 DEF TreasuryWatched, Pays
  <2>3. req[r].pc = "saveCredits"
    BY <1>0, <1>1, <2>1, <2>2 DEF Moves, Flow, Labels
  <2>4. saved' = credit /\ credit' = credit
    BY <1>0, <2>3 DEF Writes, Trades
  <2> QED
    BY <1>7, <1>8, <1>9, <1>10, <1>11, <2>4
<1>12. CASE Live' # {}
  BY <1>7, <1>8, <1>9, <1>10, <1>12
<1> QED
  BY <1>11, <1>12

(* Every step of a request preserves the invariant. *)
LEMMA StepPreserves ==
  ASSUME IInv, NEW r \in Requests, Step(r)
  PROVE  IInv'
<1>1. Summary(r)
  BY StepSummary
<1>2. TypeOK /\ Moves(r) /\ Writes(r) /\ Trades(r)
  BY <1>1 DEF IInv, Summary
<1>3. row' \in [Orders -> {"absent", "PROPOSED", "AUTHORIZED", "SETTLED", "REJECTED"}] /\ bal' \in [Accounts -> Nat]
  BY <1>1, StepBorn, StepPools
<1>4. /\ req[r].parent \in Requests \cup {None} /\ req[r].cycle \in Nat
  BY <1>2 DEF TypeOK, RequestType
<1>5. daemon' \in [cycles : Nat, last : Requests \cup {None}]
  BY <1>2, <1>4 DEF Writes, TypeOK
<1>6. lineage' \subseteq Requests \X (Requests \cup {None})
  BY <1>2, <1>4 DEF Writes, TypeOK
<1>7. delivs' \subseteq Requests /\ receipts' \subseteq Requests /\ events' \subseteq Requests /\ saved' \in Nat
  BY <1>2 DEF Writes, TypeOK
<1>8. TypeOK'
  BY <1>2, <1>3, <1>5, <1>6, <1>7 DEF TypeOK, Moves, Trades
<1> QED
  BY <1>1, <1>8, StepRequests, StepStored, StepBorn, StepAlone, StepTreasury, StepTaken, StepRows,
     StepChain, StepPools, StepCredits DEF IInv

-----------------------------------------------------------------------------
(* The other actions. *)

(* What depends on the requests and the pools alone. *)
LEMMA PoolsKept ==
  ASSUME IInv, UNCHANGED <<delivs, receipts, events, lineage, daemon, saved, bal, credit, usdg, req>>,
         upsets' \in {upsets, upsets \cup {"replay"}}
  PROVE  /\ EscrowHeld' /\ RevenueDivided' /\ RequestsOK' /\ StoredOK' /\ OneAtATime'
         /\ TreasuryWatched' /\ CreditsTracked' /\ ParentsPaid' /\ LineageRooted'
<1>0. /\ EscrowHeld /\ RevenueDivided /\ RequestsOK /\ StoredOK /\ OneAtATime
      /\ TreasuryWatched /\ CreditsTracked /\ ParentsPaid /\ LineageRooted
  BY DEF IInv
<1>1. EscrowHeld' /\ RevenueDivided'
  BY <1>0 DEF EscrowHeld, RevenueDivided, HeldAmount, Undivided, Retained, Place, Gross, Net, Reserve
<1>2. RequestsOK' /\ StoredOK'
  BY <1>0 DEF RequestsOK, StoredOK, Place
<1>3. /\ "overlap" \in upsets' <=> "overlap" \in upsets
      /\ upsets' \cap {"overlap", "crash"} = {} <=> upsets \cap {"overlap", "crash"} = {}
      /\ Live' = Live
  BY DEF Live
<1>4. OneAtATime' /\ TreasuryWatched'
  BY <1>0, <1>3 DEF OneAtATime, TreasuryWatched
<1>5. CreditsTracked'
  BY <1>0, <1>3 DEF CreditsTracked, Bought, Used
<1>6. ParentsPaid' /\ LineageRooted'
  BY <1>0 DEF ParentsPaid, LineageRooted
<1> QED
  BY <1>1, <1>2, <1>4, <1>5, <1>6

(* Creating a row, and creating it again. *)
LEMMA CreatePreserves ==
  ASSUME IInv, NEW o \in Orders, CreateWorkOrder(o) \/ RepeatCreate(o)
  PROVE  IInv'
<1>0. /\ TypeOK /\ RequestsOK /\ StoredOK /\ BornOK /\ OrdersTaken /\ SettledIsPaid /\ MissionOwns
  BY DEF IInv
<1>1. /\ UNCHANGED <<delivs, receipts, events, lineage, daemon, saved, bal, credit, usdg, req, crashes>>
      /\ upsets' \in {upsets, upsets \cup {"replay"}} /\ row' = [row EXCEPT ![o] = "PROPOSED"]
  BY DEF CreateWorkOrder, RepeatCreate, evidence, exchange
<1>2. IsFiniteSet(Existing) /\ Cardinality(Existing) \in Nat
  BY WorkOrdersAssumption, FS_Subset, FS_CardinalityType DEF Existing
<1>3. row' \in [Orders -> {"absent", "PROPOSED", "AUTHORIZED", "SETTLED", "REJECTED"}] /\ Existing' = Existing \cup {o}
  BY <1>0, <1>1 DEF TypeOK, Existing
<1>4. /\ born' \in [Orders -> Nat]
      /\ \A p \in Existing' : born'[p] \in 1..Cardinality(Existing')
      /\ \A p, q \in Existing' : born'[p] = born'[q] => p = q
  <2>1. CASE CreateWorkOrder(o)
    <3>1. o \notin Existing /\ born' = [born EXCEPT ![o] = Cardinality(Existing) + 1]
      BY <2>1 DEF CreateWorkOrder, Existing
    <3>2. Cardinality(Existing') = Cardinality(Existing) + 1
      BY <1>2, <1>3, <3>1, FS_AddElement
    <3>3. \A p \in Existing : born'[p] = born[p] /\ born[p] \in 1..Cardinality(Existing)
      BY <1>0, <3>1 DEF BornOK, TypeOK, Existing
    <3>4. born'[o] = Cardinality(Existing) + 1 /\ born' \in [Orders -> Nat]
      BY <1>0, <1>2, <3>1 DEF TypeOK
    <3>5. \A p, q \in Existing : born[p] = born[q] => p = q
      BY <1>0 DEF BornOK
    <3> QED
      BY <1>2, <1>3, <3>2, <3>3, <3>4, <3>5
  <2>2. CASE RepeatCreate(o)
    <3>1. born' = born /\ Existing' = Existing
      BY <1>3, <2>2 DEF RepeatCreate, Existing
    <3> QED
      BY <1>0, <3>1 DEF BornOK, TypeOK
  <2> QED
    BY <2>1, <2>2
<1>5. BornOK'
  <2>1. \A r \in Requests : req'[r].order \in Orders => row'[req'[r].order] # "absent"
    BY <1>0, <1>1 DEF BornOK, TypeOK
  <2> QED
    BY <1>4, <2>1 DEF BornOK
<1>6. TypeOK'
  BY <1>0, <1>1, <1>3, <1>4 DEF TypeOK
<1>7. SettledIsPaid' /\ MissionOwns'
  <2>1. \A p \in Orders : row'[p] \in {"SETTLED", "AUTHORIZED"} => row[p] = row'[p]
    BY <1>0, <1>1 DEF TypeOK
  <2>2. \A r : Place(r)' = Place(r)
    BY <1>1 DEF Place
  <2> QED
    BY <1>0, <1>1, <2>1, <2>2 DEF SettledIsPaid, MissionOwns
<1>8. OrdersTaken'
  <2>1. CASE RepeatCreate(o)
    BY <2>1 DEF RepeatCreate, OrdersTaken
  <2>2. CASE CreateWorkOrder(o)
    <3>1. upsets' = upsets /\ row[o] = "absent"
      BY <2>2 DEF CreateWorkOrder
    <3>2. \A r \in Requests : Taken(r)' <=> Taken(r)
      BY <1>1 DEF Taken, Place
    <3>3. \A r \in Requests : Taken(r) => req[r].order \in Orders
      BY <1>0 DEF Taken, RequestsOK, Mission
    <3>4. \A p \in Orders : /\ row[p] \notin {"absent", "PROPOSED"} => row'[p] \notin {"absent", "PROPOSED"}
                            /\ row[p] = "PROPOSED" => row'[p] = "PROPOSED"
      BY <1>0, <1>1, <3>1 DEF TypeOK
    <3>5. \A r \in Requests :
            req[r].pc \in {"reject", "authorize"} \/ (req[r].pc = "assess" /\ req[r].kind = "execute")
              => req[r].order \in Orders
      BY <1>0 DEF RequestsOK, Place
    <3> QED
      BY <1>0, <1>1, <3>1, <3>2, <3>3, <3>4, <3>5 DEF OrdersTaken
  <2> QED
    BY <2>1, <2>2
<1> QED
  BY <1>1, <1>5, <1>6, <1>7, <1>8, PoolsKept DEF IInv

(* The request that begins has its type. *)
LEMMA StartedType ==
  ASSUME NEW x \in RequestType, NEW kind \in {"execute", "daemon"}, NEW o \in Orders \cup {None},
         NEW q \in Requests \cup {None}, NEW n \in Nat
  PROVE  [x EXCEPT !.pc = "assess", !.kind = kind, !.order = o, !.parent = q, !.cycle = n] \in RequestType
<1> DEFINE y == [x EXCEPT !.pc = "assess", !.kind = kind]
<1>1. "assess" \in Labels
  BY DEF Labels
<1>2. y \in RequestType
  BY <1>1 DEF RequestType
<1>3. [x EXCEPT !.pc = "assess", !.kind = kind, !.order = o, !.parent = q, !.cycle = n]
        = [y EXCEPT !.order = o, !.parent = q, !.cycle = n]
  OBVIOUS
<1> HIDE DEF y
<1> DEFINE z == [y EXCEPT !.order = o]
<1>4. z \in RequestType
  BY <1>2 DEF RequestType
<1>5. [y EXCEPT !.order = o, !.parent = q, !.cycle = n] = [z EXCEPT !.parent = q, !.cycle = n]
  OBVIOUS
<1> HIDE DEF z
<1> DEFINE w == [z EXCEPT !.parent = q]
<1>6. w \in RequestType
  BY <1>4 DEF RequestType
<1>7. [z EXCEPT !.parent = q, !.cycle = n] = [w EXCEPT !.cycle = n]
  OBVIOUS
<1> HIDE DEF w
<1>8. [w EXCEPT !.cycle = n] \in RequestType
  BY <1>6 DEF RequestType
<1> QED
  BY <1>3, <1>5, <1>7, <1>8

(* A request begins. *)
LEMMA StartPreserves ==
  ASSUME IInv, NEW r \in Requests, NEW kind \in {"execute", "daemon"}, NEW o \in Orders \cup {None},
         NEW upset \in {{}, {"replay"}}, Start(r, kind, o, upset),
         kind = "execute" => /\ o \in Orders /\ row[o] # "absent"
                             /\ upset = {} => row[o] = "PROPOSED",
         kind = "daemon" => o = None
  PROVE  IInv'
<1>0. /\ TypeOK /\ EscrowHeld /\ RevenueDivided /\ RequestsOK /\ StoredOK /\ BornOK
      /\ OneAtATime /\ TreasuryWatched /\ CreditsTracked /\ OrdersTaken
      /\ SettledIsPaid /\ MissionOwns /\ ParentsPaid /\ LineageRooted
  BY DEF IInv
<1> DEFINE new == [Idle EXCEPT !.pc = "assess", !.kind = kind, !.order = o,
                               !.parent = IF kind = "daemon" THEN daemon.last ELSE None,
                               !.cycle = IF kind = "daemon" THEN daemon.cycles + 1 ELSE 0]
<1>1. /\ req' = [req EXCEPT ![r] = new]
      /\ UNCHANGED <<born, row, delivs, receipts, events, lineage, daemon, saved, bal, crashes>>
      /\ credit' = saved /\ usdg' = bal["TREASURY"] * Unit
      /\ upsets' = upsets \cup upset \cup (IF Live # {} THEN {"overlap"} ELSE {})
      /\ req[r].pc = "idle"
  BY DEF Start, rows, evidence
<1>2. daemon.last \in Requests \cup {None} /\ daemon.cycles \in Nat /\ req \in [Requests -> RequestType]
  BY <1>0 DEF TypeOK
<1>3. /\ new.pc = "assess" /\ new.kind = kind /\ new.order = o
      /\ new.parent = IF kind = "daemon" THEN daemon.last ELSE None
      /\ new.cycle = IF kind = "daemon" THEN daemon.cycles + 1 ELSE 0
      /\ new.reserve = 0 /\ new.target = 0 /\ new.before = 0 /\ new.expense = 0
      /\ new.answer = "none" /\ new.settled = FALSE /\ new.died = "no"
  BY DEF Idle
<1>4. new \in RequestType
  <2>1. Idle \in RequestType
    BY DEF Idle, RequestType, Labels, Ended
  <2>2. (IF kind = "daemon" THEN daemon.last ELSE None) \in Requests \cup {None}
    BY <1>2
  <2>3. (IF kind = "daemon" THEN daemon.cycles + 1 ELSE 0) \in Nat
    BY <1>2
  <2> QED
    BY <2>1, <2>2, <2>3, StartedType, ZenonT(60)
<1> HIDE DEF new
<1>5. /\ req'[r] = new /\ req' \in [Requests -> RequestType]
      /\ \A s \in Requests \ {r} : req'[s] = req[s]
  BY <1>1, <1>2, <1>4
<1>6. req[r] = Idle
  BY <1>0, <1>1 DEF RequestsOK
<1>7. /\ Place(r) = "idle" /\ Place(r)' = "assess" /\ ~req[r].settled /\ req[r].answer = "none"
      /\ req[r].cycle = 0 /\ req[r].pc = "idle" /\ req[r].parent = None /\ r \notin delivs /\ r \notin events
      /\ \A s \in Requests \ {r} : Place(s)' = Place(s)
  <2>1. Place(r) = "idle" /\ ~req[r].settled /\ req[r].answer = "none" /\ req[r].cycle = 0 /\ req[r].parent = None
    BY <1>6 DEF Idle, Place
  <2> QED
    BY <1>0, <1>1, <1>3, <1>5, <2>1 DEF Place, StoredOK, Final
<1>8. TypeOK'
  <2>1. bal["TREASURY"] * Unit \in Nat
    <3>1. bal["TREASURY"] \in Nat /\ Unit \in Nat
      BY <1>0, WorkOrdersAssumption DEF TypeOK, Accounts
    <3> QED
      BY <3>1
  <2> QED
    BY <1>0, <1>1, <1>5, <2>1 DEF TypeOK
<1>9. EscrowHeld' /\ RevenueDivided'
  <2>1. \A s \in Requests : HeldAmount(s)' = HeldAmount(s) /\ Undivided(s)' = Undivided(s) /\ Retained(s)' = Retained(s)
    <3> SUFFICES ASSUME NEW s \in Requests
                 PROVE  HeldAmount(s)' = HeldAmount(s) /\ Undivided(s)' = Undivided(s) /\ Retained(s)' = Retained(s)
      OBVIOUS
    <3>1. CASE s = r
      BY <1>3, <1>5, <1>7, <3>1 DEF HeldAmount, Undivided, Retained, TimedOut
    <3>2. CASE s # r
      BY <1>5, <1>7, <3>2 DEF HeldAmount, Undivided, Retained, Gross, Net, Reserve
    <3> QED
      BY <3>1, <3>2
  <2> QED
    BY <1>0, <1>1, <2>1 DEF EscrowHeld, RevenueDivided
<1>10. RequestsOK'
  <2> SUFFICES ASSUME NEW s \in Requests
               PROVE  /\ req'[s].pc = "idle" => req'[s] = Idle
                      /\ req'[s].pc = "dead" => req'[s].died \in Labels
                      /\ Place(s)' \in Mission \cup {"reject", "authorize"} => req'[s].order \in Orders
                      /\ req'[s].kind = "execute" => req'[s].order \in Orders
                      /\ req'[s].settled => req'[s].order \in Orders
                      /\ Place(s)' \in Early => req'[s].answer = "none"
                      /\ Place(s)' = "close" => req'[s].answer \in {"SUCCESS", "FAILURE"}
    BY DEF RequestsOK
  <2>1. CASE s = r
    BY <1>3, <1>5, <1>7, <2>1 DEF Mission
  <2>2. CASE s # r
    BY <1>0, <1>5, <1>7, <2>2 DEF RequestsOK
  <2> QED
    BY <2>1, <2>2
<1>11. StoredOK'
  <2> SUFFICES ASSUME NEW s \in Requests
               PROVE  /\ req'[s].settled => Place(s)' \in {"saveDeliverable", "saveReceipt", "saveEvent"} \cup Final
                      /\ s \in delivs' => Place(s)' \in {"saveReceipt", "saveEvent"} \cup Final /\ req'[s].order \in Orders
                      /\ s \in events' => req'[s].pc # "idle"
                      /\ Place(s)' = "saveReceipt" => s \in delivs'
                      /\ Place(s)' = "saveEvent" => s \in delivs' \cap receipts'
                      /\ Place(s)' \in Final /\ req'[s].settled => s \in delivs' \cap receipts' \cap events'
    BY DEF StoredOK
  <2>1. CASE s = r
    BY <1>1, <1>3, <1>5, <1>7, <2>1 DEF Final
  <2>2. CASE s # r
    BY <1>0, <1>1, <1>5, <1>7, <2>2 DEF StoredOK
  <2> QED
    BY <2>1, <2>2
<1>12. BornOK'
  <2>1. Existing' = Existing
    BY <1>1 DEF Existing
  <2>2. \A s \in Requests : req'[s].order \in Orders => row[req'[s].order] # "absent"
    BY <1>0, <1>3, <1>5, WorkOrdersAssumption DEF BornOK
  <2> QED
    BY <1>0, <1>1, <2>1, <2>2 DEF BornOK
<1>13. Live' = Live \cup {r} /\ r \notin Live
  BY <1>1, <1>3, <1>5 DEF Live, Ended
<1>14. "overlap" \notin upsets' => Live = {} /\ "overlap" \notin upsets
  BY <1>1
<1>15. OneAtATime'
  BY <1>13, <1>14 DEF OneAtATime
<1>16. TreasuryWatched'
  <2> SUFFICES ASSUME "overlap" \notin upsets', NEW s \in Requests
               PROVE  req'[s].pc \notin {"authorize", "lineage", "preflight", "treasury", "escrow"}
    BY DEF TreasuryWatched
  <2>1. CASE s = r
    BY <1>3, <1>5, <2>1
  <2>2. CASE s # r
    <3>1. s \notin Live
      BY <1>14
    <3> QED
      BY <1>5, <2>2, <3>1 DEF Live, Ended
  <2> QED
    BY <2>1, <2>2
<1>17. CreditsTracked'
  <2>1. \A s \in Requests : Bought(s)' = Bought(s) /\ Used(s)' = Used(s)
    <3> SUFFICES ASSUME NEW s \in Requests PROVE Bought(s)' = Bought(s) /\ Used(s)' = Used(s)
      OBVIOUS
    <3>1. CASE s = r
      BY <1>1, <1>3, <1>5, <1>7, <3>1 DEF Bought, Used, Filled
    <3>2. CASE s # r
      BY <1>1, <1>5, <3>2 DEF Bought, Used
    <3> QED
      BY <3>1, <3>2
  <2>2. CASE upsets' \cap {"overlap", "crash"} = {}
    <3>1. Live = {} /\ Live' # {} /\ upsets \cap {"overlap", "crash"} = {}
      BY <1>1, <1>13, <2>2
    <3> QED
      BY <1>0, <1>1, <2>1, <3>1 DEF CreditsTracked
  <2> QED
    BY <2>2 DEF CreditsTracked
<1>18. OrdersTaken'
  <2> SUFFICES ASSUME upsets' \cap {"overlap", "replay"} = {} PROVE OrdersTaken'
    BY DEF OrdersTaken
  <2>1. upsets \cap {"overlap", "replay"} = {} /\ upset = {} /\ Live = {}
    BY <1>1
  <2>2. ~Taken(r)' /\ \A s \in Requests \ {r} : Taken(s)' <=> Taken(s)
    BY <1>3, <1>5, <1>7 DEF Taken
  <2>3. \A s \in Requests : Taken(s)' => row'[req'[s].order] \notin {"absent", "PROPOSED"}
    BY <1>0, <1>1, <1>5, <2>1, <2>2 DEF OrdersTaken
  <2>4. \A s, u \in Requests : Taken(s)' /\ Taken(u)' /\ req'[s].order = req'[u].order => s = u
    BY <1>0, <1>5, <2>1, <2>2 DEF OrdersTaken
  <2>5. ASSUME NEW s \in Requests,
               req'[s].pc \in {"reject", "authorize"} \/ (req'[s].pc = "assess" /\ req'[s].kind = "execute")
        PROVE  row'[req'[s].order] = "PROPOSED"
    <3>1. s = r
      <4>1. s \in Live'
        BY <2>5 DEF Live, Ended
      <4> QED
        BY <1>13, <2>1, <4>1
    <3> QED
      BY <1>1, <1>3, <1>5, <2>1, <2>5, <3>1
  <2> QED
    BY <2>3, <2>4, <2>5 DEF OrdersTaken
<1>19. SettledIsPaid'
  <2> SUFFICES ASSUME NEW p \in Orders, row'[p] = "SETTLED"
               PROVE  \E s \in delivs' \cap receipts' \cap events' : req'[s].order = p /\ req'[s].settled
    BY DEF SettledIsPaid
  <2>1. PICK s \in delivs \cap receipts \cap events : req[s].order = p /\ req[s].settled
    BY <1>0, <1>1 DEF SettledIsPaid
  <2>2. s \in Requests \ {r}
    BY <1>0, <1>7, <2>1 DEF TypeOK
  <2> QED
    BY <1>1, <1>5, <2>1, <2>2
<1>20. MissionOwns'
  <2> SUFFICES ASSUME NEW p \in Orders, row'[p] = "AUTHORIZED"
               PROVE  \E s \in Requests : /\ req'[s].order = p
                                          /\ Place(s)' \in Mission \/ (req'[s].pc = "raised" /\ "overlap" \in upsets')
    BY DEF MissionOwns
  <2>1. PICK s \in Requests : /\ req[s].order = p
                              /\ Place(s) \in Mission \/ (req[s].pc = "raised" /\ "overlap" \in upsets)
    BY <1>0, <1>1 DEF MissionOwns
  <2>2. s # r /\ upsets \subseteq upsets'
    BY <1>1, <1>7, <2>1 DEF Mission
  <2> QED
    BY <1>5, <1>7, <2>1, <2>2
<1>21. \A s \in Requests : req[s].cycle \in Nat /\ req[s].parent \in Requests \cup {None}
  BY <1>2 DEF RequestType
<1>22. events \subseteq Requests \ {r}
  BY <1>0, <1>7 DEF TypeOK
<1>23. ParentsPaid'
  <2> SUFFICES ASSUME NEW s \in Requests, req'[s].parent # None
               PROVE  req'[s].parent \in events' /\ req'[req'[s].parent].cycle < req'[s].cycle
    BY DEF ParentsPaid
  <2>1. CASE s = r
    <3>1. kind = "daemon" /\ daemon.last # None /\ req'[s].parent = daemon.last /\ req'[s].cycle = daemon.cycles + 1
      BY <1>3, <1>5, <2>1
    <3>2. daemon.last \in events /\ req[daemon.last].cycle <= daemon.cycles
      BY <1>0, <3>1 DEF LineageRooted
    <3>3. req'[daemon.last] = req[daemon.last] /\ req[daemon.last].cycle \in Nat
      BY <1>5, <1>21, <1>22, <3>2
    <3> QED
      BY <1>1, <1>2, <3>1, <3>2, <3>3
  <2>2. CASE s # r
    <3>1. req'[s] = req[s]
      BY <1>5, <2>2
    <3>2. req[s].parent \in events /\ req[req[s].parent].cycle < req[s].cycle
      BY <1>0, <3>1 DEF ParentsPaid
    <3>3. req'[req[s].parent] = req[req[s].parent]
      BY <1>5, <1>22, <3>2
    <3> QED
      BY <1>1, <3>1, <3>2, <3>3
  <2> QED
    BY <2>1, <2>2
<1>24. LineageRooted'
  <2>1. daemon'.last # None => daemon'.last \in events' /\ req'[daemon'.last].cycle <= daemon'.cycles
    BY <1>0, <1>1, <1>5, <1>22 DEF LineageRooted
  <2>2. ASSUME NEW l \in lineage', l[2] # None
        PROVE  l[2] \in events' /\ req'[l[2]].cycle < req'[l[1]].cycle
    <3>1. l[2] \in events /\ req[l[2]].cycle < req[l[1]].cycle /\ l[1] \in Requests
      BY <1>0, <1>1, <2>2 DEF LineageRooted, TypeOK
    <3>2. l[1] # r
      <4>1. req[l[2]].cycle \in Nat
        BY <1>21, <1>22, <3>1
      <4> QED
        BY <1>7, <3>1, <4>1
    <3> QED
      BY <1>1, <1>5, <1>22, <3>1, <3>2
  <2> QED
    BY <2>1, <2>2 DEF LineageRooted
<1> QED
  BY <1>8, <1>9, <1>10, <1>11, <1>12, <1>15, <1>16, <1>17, <1>18, <1>19, <1>20, <1>23, <1>24 DEF IInv

(* The process dies: every request keeps its place, and the exchange its     *)
(* nothing.                                                                  *)
LEMMA CrashPreserves ==
  ASSUME IInv, Crash
  PROVE  IInv'
<1>0. /\ TypeOK /\ EscrowHeld /\ RevenueDivided /\ RequestsOK /\ StoredOK /\ BornOK
      /\ OrdersTaken /\ SettledIsPaid /\ MissionOwns /\ ParentsPaid /\ LineageRooted
  BY DEF IInv
<1>r. req' = [r \in Requests |->
                IF r \in Live THEN [req[r] EXCEPT !.pc = "dead", !.died = req[r].pc] ELSE req[r]]
  BY DEF Crash
<1>1. /\ UNCHANGED <<born, row, delivs, receipts, events, lineage, daemon, saved, bal>>
      /\ credit' = 0 /\ usdg' = 0 /\ upsets' = upsets \cup {"crash"} /\ crashes' = crashes + 1
      /\ crashes < MaxCrashes
  BY DEF Crash, rows, evidence
<1>2. ASSUME NEW s \in Requests
      PROVE  /\ req'[s] \in RequestType /\ Place(s)' = Place(s)
             /\ req'[s].kind = req[s].kind /\ req'[s].order = req[s].order /\ req'[s].parent = req[s].parent
             /\ req'[s].cycle = req[s].cycle /\ req'[s].reserve = req[s].reserve /\ req'[s].target = req[s].target
             /\ req'[s].expense = req[s].expense /\ req'[s].answer = req[s].answer
             /\ req'[s].settled = req[s].settled
             /\ req'[s].pc \in Ended
             /\ req'[s].pc # "dead" => req'[s] = req[s]
             /\ req'[s].pc = "dead" => req'[s].died \in Labels
             /\ req[s].pc = "raised" => req'[s].pc = "raised"
             /\ req[s].pc # "idle" => req'[s].pc # "idle"
  <2>1. req[s] \in RequestType /\ req[s].pc \in Labels \cup Ended
    BY <1>0, Fields
  <2>2. CASE s \in Live
    <3>1. req[s].pc \in Labels /\ req[s].pc \notin Ended
      BY <2>1, <2>2 DEF Live
    <3>2. req'[s] = [req[s] EXCEPT !.pc = "dead", !.died = req[s].pc]
      BY <1>r, <2>2
    <3>3. [req[s] EXCEPT !.pc = "dead", !.died = req[s].pc] \in RequestType
      <4> DEFINE x == req[s]
                 q == req[s].pc
      <4>1. x \in RequestType /\ q \in Labels
        BY <2>1, <3>1
      <4> HIDE DEF x, q
      <4>2. [x EXCEPT !.pc = "dead", !.died = q] \in RequestType
        BY <4>1 DEF RequestType, Ended
      <4> QED
        BY <4>2 DEF x, q
    <3>4. /\ req'[s].pc = "dead" /\ req'[s].died = req[s].pc
          /\ req'[s].kind = req[s].kind /\ req'[s].order = req[s].order /\ req'[s].parent = req[s].parent
          /\ req'[s].cycle = req[s].cycle /\ req'[s].reserve = req[s].reserve /\ req'[s].target = req[s].target
          /\ req'[s].expense = req[s].expense /\ req'[s].answer = req[s].answer
          /\ req'[s].settled = req[s].settled
      BY <2>1, <3>2 DEF RequestType
    <3>5. Place(s)' = Place(s)
      BY <3>1, <3>4 DEF Place, Ended
    <3> QED
      BY <3>1, <3>2, <3>3, <3>4, <3>5 DEF Ended
  <2>3. CASE s \notin Live
    <3>1. req'[s] = req[s] /\ req[s].pc \in Ended
      BY <1>r, <2>3 DEF Live
    <3>2. req[s].pc = "dead" => req[s].died \in Labels
      BY <1>0 DEF RequestsOK
    <3> QED
      BY <2>1, <3>1, <3>2 DEF Place
  <2> QED
    BY <2>2, <2>3
<1>3. req' \in [Requests -> RequestType] /\ Live' = {}
  BY <1>r, <1>2 DEF Live
<1>4. TypeOK'
  <2>1. crashes' \in 0..MaxCrashes
    <3>1. crashes \in 0..MaxCrashes /\ MaxCrashes \in Nat
      BY <1>0, WorkOrdersAssumption DEF TypeOK
    <3> QED
      BY <1>1, <3>1
  <2> QED
    BY <1>0, <1>1, <1>3, <2>1 DEF TypeOK
<1>5. EscrowHeld' /\ RevenueDivided'
  <2>1. \A s \in Requests : HeldAmount(s)' = HeldAmount(s) /\ Undivided(s)' = Undivided(s) /\ Retained(s)' = Retained(s)
    BY <1>2, ZenonT(60) DEF HeldAmount, Undivided, Retained, Gross, Net, Reserve
  <2> QED
    BY <1>0, <1>1, <2>1 DEF EscrowHeld, RevenueDivided
<1>6. RequestsOK'
  BY <1>0, <1>2 DEF RequestsOK, Ended
<1>7. StoredOK'
  <2> SUFFICES ASSUME NEW s \in Requests
               PROVE  /\ req'[s].settled => Place(s)' \in {"saveDeliverable", "saveReceipt", "saveEvent"} \cup Final
                      /\ s \in delivs' => Place(s)' \in {"saveReceipt", "saveEvent"} \cup Final /\ req'[s].order \in Orders
                      /\ s \in events' => req'[s].pc # "idle"
                      /\ Place(s)' = "saveReceipt" => s \in delivs'
                      /\ Place(s)' = "saveEvent" => s \in delivs' \cap receipts'
                      /\ Place(s)' \in Final /\ req'[s].settled => s \in delivs' \cap receipts' \cap events'
    BY DEF StoredOK
  <2>1. /\ Place(s)' = Place(s) /\ req'[s].order = req[s].order /\ req'[s].settled = req[s].settled
        /\ req[s].pc # "idle" => req'[s].pc # "idle"
    BY <1>2
  <2> QED
    BY <1>0, <1>1, <2>1 DEF StoredOK
<1>a. \A s \in Requests : req'[s].order = req[s].order /\ req'[s].settled = req[s].settled
  BY <1>2
<1>b. \A s \in Requests : req'[s].parent = req[s].parent /\ req'[s].cycle = req[s].cycle
  BY <1>2
<1>c. \A s \in Requests : Place(s)' = Place(s) /\ (req[s].pc = "raised" => req'[s].pc = "raised")
  BY <1>2
<1>8. BornOK'
  <2>1. Existing' = Existing
    BY <1>1 DEF Existing
  <2> QED
    BY <1>0, <1>1, <1>a, <2>1 DEF BornOK
<1>9. OneAtATime' /\ CreditsTracked'
  BY <1>1, <1>3 DEF OneAtATime, CreditsTracked
<1>10. TreasuryWatched'
  BY <1>2 DEF TreasuryWatched, Ended
<1>11. OrdersTaken'
  <2>1. \A s \in Requests : Taken(s)' <=> Taken(s)
    BY <1>2 DEF Taken
  <2>2. \A s \in Requests : req'[s].pc \notin {"reject", "authorize", "assess"}
    BY <1>2 DEF Ended
  <2>3. upsets' \cap {"overlap", "replay"} = {} => upsets \cap {"overlap", "replay"} = {}
    BY <1>1
  <2> QED
    BY <1>0, <1>1, <1>a, <2>1, <2>2, <2>3 DEF OrdersTaken
<1>12. SettledIsPaid'
  <2>1. events \subseteq Requests
    BY <1>0 DEF TypeOK
  <2> QED
    BY <1>0, <1>1, <1>a, <2>1 DEF SettledIsPaid
<1>13. MissionOwns'
  BY <1>0, <1>1, <1>a, <1>c DEF MissionOwns
<1>14. ParentsPaid' /\ LineageRooted'
  <2>1. events \subseteq Requests /\ \A l \in lineage : l[1] \in Requests
    BY <1>0 DEF TypeOK
  <2>2. \A s \in events : req'[s].cycle = req[s].cycle
    BY <1>2, <2>1
  <2>3. ParentsPaid'
    BY <1>0, <1>1, <1>b, <2>2 DEF ParentsPaid
  <2>4. LineageRooted'
    BY <1>0, <1>1, <1>b, <2>1, <2>2 DEF LineageRooted
  <2> QED
    BY <2>3, <2>4
<1> QED
  BY <1>4, <1>5, <1>6, <1>7, <1>8, <1>9, <1>10, <1>11, <1>12, <1>13, <1>14 DEF IInv

(* The initial state. *)
LEMMA InitOK ==
  ASSUME Init
  PROVE  IInv
<1>1. /\ \A r \in Requests : req[r] = Idle /\ req[r].pc = "idle" /\ req[r].settled = FALSE /\ req[r].answer = "none"
                             /\ req[r].parent = None /\ req[r].kind = "none" /\ req[r].order = None
                             /\ Place(r) = "idle"
      /\ delivs = {} /\ receipts = {} /\ events = {} /\ lineage = {} /\ row = [o \in Orders |-> "absent"]
  BY DEF Init, Idle, Place
<1>2. Idle \in RequestType
  BY DEF Idle, RequestType, Labels, Ended
<1>3. TypeOK
  <2>1. bal \in [Accounts -> Nat] /\ crashes \in 0..MaxCrashes
    BY WorkOrdersAssumption DEF Init
  <2> QED
    BY <1>1, <1>2, <2>1 DEF Init, TypeOK
<1>4. RequestsOK /\ StoredOK
  BY <1>1, WorkOrdersAssumption DEF RequestsOK, StoredOK, Mission, Early, Final
<1>5. EscrowHeld /\ RevenueDivided
  <2>1. \A r \in Requests : HeldAmount(r) = 0 /\ Undivided(r) = 0 /\ Retained(r) = 0
    BY <1>1 DEF HeldAmount, Undivided, Retained, TimedOut
  <2>2. /\ SumFunction([r \in Requests |-> HeldAmount(r)]) = 0
        /\ SumFunction([r \in Requests |-> Undivided(r)]) = 0
        /\ SumFunction([r \in Requests |-> Retained(r)]) = 0
    BY <2>1, RequestsFinite, SumZero
  <2>3. bal["ESCROW"] = 0 /\ bal["REVENUE"] = 0 /\ bal["SURPLUS_RESERVE"] = 0
    BY DEF Init, Accounts
  <2> QED
    BY <2>2, <2>3 DEF EscrowHeld, RevenueDivided
<1>6. CreditsTracked
  <2>1. \A r \in Requests : Bought(r) = 0 /\ Used(r) = 0
    BY <1>1 DEF Bought, Used, Filled
  <2>2. /\ SumFunction([r \in Requests |-> Bought(r)]) = 0
        /\ SumFunction([r \in Requests |-> Used(r)]) = 0
    BY <2>1, RequestsFinite, SumZero
  <2> QED
    BY <2>2 DEF CreditsTracked, Init
<1>7. Live = {} /\ Existing = {}
  BY <1>1 DEF Live, Existing, Ended
<1>8. BornOK /\ OneAtATime /\ TreasuryWatched
  BY <1>1, <1>7, WorkOrdersAssumption DEF BornOK, OneAtATime, TreasuryWatched
<1>9. OrdersTaken
  BY <1>1 DEF OrdersTaken, Taken
<1>10. SettledIsPaid /\ MissionOwns /\ ParentsPaid /\ LineageRooted
  BY <1>1 DEF SettledIsPaid, MissionOwns, ParentsPaid, LineageRooted, Init
<1> QED
  BY <1>3, <1>4, <1>5, <1>6, <1>8, <1>9, <1>10 DEF IInv

-----------------------------------------------------------------------------
(* The theorems. *)

(* The invariant holds in every reachable state. *)
THEOREM WorkOrdersInvariant == Spec => []IInv
<1>1. Init => IInv
  BY InitOK
<1>2. IInv /\ [Next]_vars => IInv'
  <2> SUFFICES ASSUME IInv, [Next]_vars PROVE IInv'
    OBVIOUS
  <2>1. ASSUME NEW o \in Orders, CreateWorkOrder(o) \/ RepeatCreate(o) PROVE IInv'
    BY <2>1, CreatePreserves
  <2>2. ASSUME NEW r \in Requests, NEW o \in Orders, StartExecute(r, o) PROVE IInv'
    <3>1. CASE row[o] = "PROPOSED"
      BY <2>2, <3>1, StartPreserves DEF StartExecute
    <3>2. CASE row[o] # "PROPOSED"
      BY <2>2, <3>2, StartPreserves DEF StartExecute
    <3> QED
      BY <3>1, <3>2
  <2>3. ASSUME NEW r \in Requests, StartDaemon(r) PROVE IInv'
    BY <2>3, StartPreserves DEF StartDaemon
  <2>4. ASSUME NEW r \in Requests, Step(r) PROVE IInv'
    BY <2>4, StepPreserves
  <2>5. CASE Crash
    BY <2>5, CrashPreserves
  <2>6. CASE UNCHANGED vars
    <3>1. UNCHANGED <<born, row, delivs, receipts, events, lineage, daemon, saved, bal, credit, usdg, req, upsets, crashes>>
      BY <2>6 DEF vars, rows, exchange
    <3>2. /\ EscrowHeld' /\ RevenueDivided' /\ RequestsOK' /\ StoredOK' /\ OneAtATime'
          /\ TreasuryWatched' /\ CreditsTracked' /\ ParentsPaid' /\ LineageRooted'
      BY <3>1, PoolsKept
    <3>3. TypeOK /\ BornOK /\ OrdersTaken /\ SettledIsPaid /\ MissionOwns
      BY DEF IInv
    <3>4. TypeOK' /\ BornOK'
      BY <3>1, <3>3 DEF TypeOK, BornOK, Existing
    <3>5. OrdersTaken' /\ SettledIsPaid' /\ MissionOwns'
      BY <3>1, <3>3 DEF OrdersTaken, SettledIsPaid, MissionOwns, Taken, Place
    <3> QED
      BY <3>2, <3>4, <3>5 DEF IInv
  <2> QED
    BY <2>1, <2>2, <2>3, <2>4, <2>5, <2>6 DEF Next
<1> QED
  BY <1>1, <1>2, PTL DEF Spec

(* PoolsAccounted: no balance is negative, and ESCROW, REVENUE,              *)
(* SURPLUS_RESERVE and the stored credits are what the missions left there.  *)
THEOREM PoolsTheorem == Spec => []PoolsAccounted
<1>1. IInv => PoolsAccounted
  <2> SUFFICES ASSUME IInv PROVE CreditsAccounted
    BY DEF IInv, PoolsAccounted
  <2> SUFFICES ASSUME upsets \cap {"overlap", "crash"} = {}, Live = {}
               PROVE  saved = SumFunction([r \in Requests |-> Bought(r)])
                                - SumFunction([r \in Requests |-> Consumed(r)])
    BY DEF CreditsAccounted
  <2>1. \A r \in Requests : Used(r) = Consumed(r)
    BY DEF Live, Ended, Used, Consumed
  <2>2. CreditsTracked
    BY DEF IInv
  <2> QED
    BY <2>1, <2>2 DEF CreditsTracked
<1> QED
  BY <1>1, WorkOrdersInvariant, PTL

(* RowsTruthful: a SETTLED row is paid, an AUTHORIZED one is worked on, and  *)
(* the chain of missions the daemon reports is paid for.                     *)
THEOREM RowsTheorem == Spec => []RowsTruthful
<1>1. IInv => RowsTruthful
  <2> SUFFICES ASSUME IInv, NEW o \in Orders, row[o] = "AUTHORIZED"
               PROVE  \E r \in Requests :
                        /\ req[r].order = o
                        /\ \/ r \in Live
                           \/ req[r].pc = "dead" /\ req[r].died \notin {"persist", "saveCredits"}
                           \/ req[r].pc = "raised" /\ "overlap" \in upsets
    BY DEF IInv, RowsTruthful, AuthorizedOwned
  <2>1. PICK r \in Requests : /\ req[r].order = o
                              /\ Place(r) \in Mission \/ (req[r].pc = "raised" /\ "overlap" \in upsets)
    BY DEF IInv, MissionOwns
  <2>2. Place(r) \in Mission => r \in Live \/ (req[r].pc = "dead" /\ req[r].died \notin {"persist", "saveCredits"})
    BY DEF Place, Mission, Live, Ended
  <2> QED
    BY <2>1, <2>2
<1> QED
  BY <1>1, WorkOrdersInvariant, PTL

(* StandbyHaltsSpending: a daemon cycle that no request overlaps escrows     *)
(* only while the treasury is at the standby threshold.                      *)
THEOREM StandbyTheorem == Spec => StandbyHaltsSpending
<1>1. IInv => \A r \in Requests :
        req[r].kind = "daemon" /\ req[r].pc = "escrow" /\ "overlap" \notin upsets => bal["TREASURY"] >= Standby
  BY DEF IInv, TreasuryWatched
<1>2. IInv => [\A r \in Requests :
         req[r].kind = "daemon" /\ req[r].pc = "escrow" /\ req'[r].pc = "exchange"
         /\ "overlap" \notin upsets => bal["TREASURY"] >= Standby]_vars
  BY <1>1
<1> QED
  BY <1>2, WorkOrdersInvariant, PTL DEF StandbyHaltsSpending
=============================================================================
