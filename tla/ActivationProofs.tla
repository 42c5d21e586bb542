-------------------------- MODULE ActivationProofs --------------------------
(***************************************************************************)
(* Proofs about activation on chain, for any command lines, any signatures   *)
(* the operator holds, any number of runs and server restarts, and any       *)
(* behaviour of the node and the mempool.                                    *)
(***************************************************************************)
EXTENDS Activation, NaturalsInduction, FiniteSetTheorems, TLAPS

Unsigned == {"idle", "preflight", "lookup", "reconcile", "export", "sign"}
Sending  == {"send", "receipt", "verify", "poll"}
Places   == Unsigned \cup Sending \cup {"done", "dead"}
Kinds    == {"none", "local", "signed", "export", "dry", "reconcile", "server"}

RunRecords ==
    [pc : Places, kind : Kinds, fee : Nat, nonce : Nat \cup {-1}, tx : Txs, sent : BOOLEAN,
     polls : 0..(MaxPolls - 1), report : Reports, life : Nat]

(* The types, in the form the proofs use. *)
Types ==
    /\ mined \in Seq([tx : Txs, ok : BOOLEAN])
    /\ \A k \in 1..Len(mined) : mined[k].tx.nonce = k - 1
    /\ pool \in SUBSET Txs /\ IsFiniteSet(pool) /\ credit \in Nat
    /\ blobs \in SUBSET (Txs \ {NoTx})
    /\ run \in [Runs -> RunRecords]
    /\ manager \in [next : Nat, assigned : SUBSET [run : Runs, nonce : Nat]]
    /\ life \in Nat \ {0} /\ careless \in BOOLEAN /\ evicted \in SUBSET Nat
    /\ faults \in 0..MaxFaults

(* What the place of a run says of its kind, its transaction and its report. *)
PlaceOK(x) ==
    /\ x.pc = "idle" => x = NoRun
    /\ x.pc \in Unsigned => x.nonce = -1
    /\ x.pc \in Unsigned \cup {"send"} => ~x.sent
    /\ x.pc \in {"receipt", "verify", "poll"} => x.sent
    /\ x.pc # "done" => x.report = "none"
    /\ x.pc \in {"lookup", "reconcile"} => x.kind = "reconcile"
    /\ x.pc = "preflight" => x.kind \in {"local", "signed", "export", "dry"}
    /\ x.pc = "export" => x.kind = "export"
    /\ x.pc = "sign" => x.kind \in {"local", "signed", "server"}
    /\ x.pc \in Sending \cup {"dead"} => x.kind \in {"local", "signed", "server"}
    /\ x.pc \in {"verify", "poll"} => x.kind # "server"

KindOK(x) ==
    /\ x.kind \in {"none", "dry", "reconcile"} => ~x.sent /\ x.nonce = -1
    /\ x.kind = "none" => x.tx = NoTx /\ x.report = "none"
    /\ x.kind = "dry" => x.tx = NoTx
    /\ x.kind \in {"local", "export"} => x.fee <= PolicyMaxFee
    /\ x.kind = "export" => /\ ~x.sent
                            /\ IF x.pc = "done" THEN x.tx.by = "operator" /\ x.tx.call = "activate"
                                                ELSE x.tx = NoTx
    /\ x.kind = "local" => IF x.pc \in Unsigned THEN x.tx = NoTx
                           ELSE x.tx = [by |-> "operator", nonce |-> x.nonce, call |-> "activate",
                                        to |-> 0, fee |-> x.fee]
    /\ x.kind = "signed" => x.tx # NoTx /\ (x.pc \in Unsigned \/ x.tx.by = "operator")
    /\ x.kind = "server" => IF x.nonce = -1 THEN x.tx = NoTx /\ x.pc \in {"sign", "dead"} /\ ~x.sent
                            ELSE x.tx.by = "operator" /\ x.tx.call = "transfer" /\ x.tx.nonce = x.nonce
    /\ x.kind = "server" <=> x.life # 0

RunsOK == \A r \in Runs : PlaceOK(run[r]) /\ KindOK(run[r])

(* A report is backed by the chain, and so is a run about to verify. *)
MinedAs(t, ok) == \E k \in 1..Len(mined) : mined[k].tx = t /\ mined[k].ok = ok

Backed(x) ==
    /\ x.report \in {"FAILED", "FAILURE"} => MinedAs(x.tx, FALSE)
    /\ x.report = "SUCCESS" \/ x.pc = "verify" => MinedAs(x.tx, TRUE)
    /\ x.report = "VERIFIED_ON_CHAIN" => /\ MinedAs(x.tx, TRUE)
                                         /\ x.tx.by = "operator" /\ x.tx.call = "activate"

ReportsOK == \A r \in Runs : Backed(run[r])

(* An activation that is signed by a wallet, pending or mined is the one of  *)
(* an attempt that the operator must take to be out.                         *)
Out(t) == \E r \in Attempts : Exposed(r) /\ run[r].tx = t

ChainOK ==
    /\ \A t \in pool : t.by = "operator" /\ (t.call = "activate" => Out(t))
    /\ \A k \in 1..Len(mined) : mined[k].ok /\ mined[k].tx.call = "activate" => Out(mined[k].tx)
    /\ \A t \in blobs \ StrayBlobs :
         \E r \in Runs : run[r].kind = "export" /\ run[r].pc = "done" /\ run[r].tx = t

(* A careful operator has one transaction in the open at most. *)
OneOpen ==
    ~careless => \A p, q \in Attempts :
        p # q /\ ~Resolved(p) /\ ~Resolved(q) => run[p].tx = run[q].tx /\ run[p].tx # NoTx

(* The manager is ahead of every nonce of this life of the server. *)
ManagerAhead ==
    /\ \A r \in Runs : run[r].kind = "server" =>
         /\ run[r].life <= life
         /\ run[r].pc \notin Ended => run[r].life = life
         /\ run[r].life = life => run[r].nonce < manager.next
    /\ \A a \in manager.assigned : run[a.run].nonce # -1

(* Every nonce before an allocated one is accounted for. *)
Covered(n, l) ==
    \/ \E t \in pool : t.nonce = n
    \/ n \in evicted
    \/ \E q \in Runs : run[q].kind = "server" /\ run[q].nonce = n /\ run[q].life = l

NoGaps ==
    /\ \A r \in Runs : run[r].kind \in {"local", "server"} /\ run[r].nonce # -1 =>
         \A n \in Len(mined)..(run[r].nonce - 1) : Covered(n, run[r].life)
    /\ \A n \in Len(mined)..(manager.next - 1) : Covered(n, life)

(* The inductive invariant. *)
IInv ==
    /\ Types /\ RunsOK /\ ReportsOK /\ ChainOK /\ OneOpen /\ ManagerAhead /\ NoncesDistinct
    /\ NoGaps

-----------------------------------------------------------------------------
(* Facts about the constants and the node's answers. *)

(* The constants, one by one. *)
LEMMA Constants ==
  /\ MaxRuns \in Nat /\ MaxPolls \in Nat /\ MaxPolls # 0 /\ MaxFaults \in Nat
  /\ PolicyMaxFee \in Nat /\ InitialCredit \in Nat
  /\ StrayBlobs \subseteq Txs \ {NoTx} /\ (\A s \in Settings : s.fee \in Nat)
  BY ActivationAssumption

(* The placeholder is a transaction, and the records of a new run are runs. *)
LEMMA PlaceholderTypes ==
  /\ NoTx \in Txs
  /\ NoRun \in RunRecords /\ Nothing \in RunRecords
  /\ NoNonces \in [next : Nat, assigned : SUBSET [run : Runs, nonce : Nat]]
<1>1. NoTx \in Txs
  BY Constants DEF NoTx, Txs
<1>2. NoRun \in RunRecords
  BY <1>1, Constants DEF NoRun, RunRecords, Places, Unsigned, Sending, Kinds, Reports
<1>3. Nothing \in RunRecords
  BY <1>2 DEF Nothing, RunRecords, Places
<1> QED
  BY <1>1, <1>2, <1>3 DEF NoNonces

(* The fields of a run have their types. *)
LEMMA RunFields ==
  ASSUME Types, NEW r \in Runs
  PROVE  /\ run[r] \in RunRecords
         /\ run[r].pc \in Places /\ run[r].kind \in Kinds /\ run[r].fee \in Nat
         /\ run[r].nonce \in Nat \cup {-1} /\ run[r].tx \in Txs /\ run[r].sent \in BOOLEAN
         /\ run[r].polls \in 0..(MaxPolls - 1) /\ run[r].report \in Reports /\ run[r].life \in Nat
<1>1. run[r] \in RunRecords
  BY DEF Types
<1> QED
  BY <1>1 DEF RunRecords

(* The chain has a length. *)
LEMMA ChainLength == ASSUME Types PROVE Len(mined) \in Nat
  BY DEF Types

(* What is on the chain has its type. *)
LEMMA MinedFields ==
  ASSUME Types
  PROVE  \A k \in 1..Len(mined) : mined[k].tx \in Txs /\ mined[k].ok \in BOOLEAN
<1> DEFINE E == [tx : Txs, ok : BOOLEAN]
<1>1. mined \in Seq(E)
  BY DEF Types
<1> HIDE DEF E
<1>2. \A k \in 1..Len(mined) : mined[k] \in E
  BY <1>1
<1> QED
  BY <1>2 DEF E

(* A nonempty set of naturals has a least element, which Min is. *)
LEMMA MinNat ==
  ASSUME NEW S \in SUBSET Nat, S # {}
  PROVE  Min(S) \in S /\ \A y \in S : Min(S) <= y
<1>1. \E x \in S : \A y \in S : x <= y
  <2>1. PICK x \in S : \A y \in S : ~ (<<y, x>> \in OpToRel(<, Nat))
    BY NatLessThanWellFounded, WFMin
  <2>2. \A y \in S : ~(y < x)
    BY <2>1 DEF OpToRel
  <2> QED
    BY <2>2
<1> QED
  BY <1>1 DEF Min

(* Max of two numbers. *)
LEMMA MaxPair ==
  ASSUME NEW a \in Int, NEW b \in Int
  PROVE  Max({a, b}) = IF a >= b THEN a ELSE b
<1> DEFINE m == IF a >= b THEN a ELSE b
<1>1. m \in {a, b} /\ \A y \in {a, b} : m >= y
  OBVIOUS
<1>2. \A x \in {a, b} : (\A y \in {a, b} : x >= y) => x = m
  OBVIOUS
<1> QED
  BY <1>1, <1>2 DEF Max

(* The mempool cannot occupy one nonce more than it has transactions, so     *)
(* there is a first free one, and every nonce before it is occupied.         *)
LEMMA FirstFreeIs ==
  ASSUME Types
  PROVE  /\ FirstFree \in Nat /\ Len(mined) <= FirstFree
         /\ \A n \in Len(mined)..(FirstFree - 1) : \E t \in pool : t.nonce = n
<1> DEFINE L == Len(mined)
           C == Cardinality(pool)
           S == {n \in L..(L + C) : \A t \in pool : t.nonce # n}
<1>1. L \in Nat /\ C \in Nat /\ IsFiniteSet(pool)
  BY ChainLength, FS_CardinalityType DEF Types
<1>2. S # {}
  <2> SUFFICES ASSUME S = {} PROVE FALSE
    OBVIOUS
  <2> DEFINE f == [n \in L..(L + C) |-> CHOOSE t \in pool : t.nonce = n]
  <2>1. \A n \in L..(L + C) : f[n] \in pool /\ f[n].nonce = n
    OBVIOUS
  <2>2. f \in [L..(L + C) -> pool]
    BY <2>1
  <2>3. IsFiniteSet(L..(L + C)) /\ Cardinality(L..(L + C)) = C + 1
    <3> DEFINE U == L + C
    <3>1. L \in Int /\ U \in Int /\ U - L + 1 = C + 1 /\ ~(L > U)
      BY <1>1
    <3> HIDE DEF L, U
    <3>2. IsFiniteSet(L..U) /\ Cardinality(L..U) = C + 1
      BY <3>1, FS_Interval
    <3> QED
      BY <3>2 DEF U
  <2>4. C < Cardinality(L..(L + C))
    BY <1>1, <2>3
  <2>5. \E x, y \in L..(L + C) : x # y /\ f[x] = f[y]
    <3> HIDE DEF f
    <3> QED
      BY <1>1, <2>2, <2>3, <2>4, FS_PigeonHole
  <2> QED
    BY <2>1, <2>5
<1>3. S \in SUBSET Nat
  BY <1>1
<1>4. FirstFree = Min(S)
  BY DEF FirstFree
<1>5. FirstFree \in S /\ \A y \in S : FirstFree <= y
  <2> HIDE DEF S
  <2> QED
    BY <1>2, <1>3, <1>4, MinNat
<1>6. FirstFree \in Nat /\ L <= FirstFree
  BY <1>1, <1>5
<1>7. ASSUME NEW n \in L..(FirstFree - 1) PROVE \E t \in pool : t.nonce = n
  <2>1. n \in L..(L + C) /\ n < FirstFree
    BY <1>1, <1>5, <1>6
  <2>2. n \notin S
    BY <1>5, <1>6, <2>1
  <2> QED
    BY <2>1, <2>2
<1> QED
  BY <1>6, <1>7

-----------------------------------------------------------------------------
(* Steps that move one run and leave everything else alone. *)

(* A run that had put nothing out is given up, or goes on with the           *)
(* transaction, nonce and kind it has.                                       *)
Drops(x, y) ==
    x.pc \in Unsigned \ {"idle"} /\ y.kind \in {"none", "dry"} /\ y.report = "none" /\ y.nonce = -1

Advances(x, y) ==
    /\ x.pc # "idle" /\ y.pc # "idle"
    /\ y.kind = x.kind /\ y.nonce = x.nonce /\ y.tx = x.tx /\ y.sent = x.sent /\ y.life = x.life
    /\ x.pc \in Ended => y.pc = x.pc
    /\ x.report = "FAILED" => y.report = "FAILED"

Allowed(x, y) ==
    /\ y \in RunRecords /\ PlaceOK(y) /\ KindOK(y) /\ Backed(y)
    /\ Drops(x, y) \/ Advances(x, y)

Ordinary(r) ==
    /\ UNCHANGED <<mined, pool, credit, blobs, manager, life, careless, evicted>>
    /\ faults' \in 0..MaxFaults
    /\ \E y : Allowed(run[r], y) /\ run' = [run EXCEPT ![r] = y]

(* A run that has put nothing out may be given up. *)
LEMMA MayDrop ==
  ASSUME NEW x, x.pc \in Unsigned \ {"idle"}
  PROVE  Allowed(x, Nothing) /\ Allowed(x, [Nothing EXCEPT !.kind = "dry"])
<1>1. /\ Nothing.pc = "done" /\ Nothing.kind = "none" /\ Nothing.nonce = -1 /\ Nothing.tx = NoTx
      /\ Nothing.sent = FALSE /\ Nothing.report = "none" /\ Nothing.life = 0
  BY DEF Nothing, NoRun
<1>2. Nothing \in RunRecords
  BY PlaceholderTypes
<1>3. Allowed(x, Nothing)
  BY <1>1, <1>2 DEF Allowed, PlaceOK, KindOK, Backed, Drops, Unsigned, Sending
<1>4. [Nothing EXCEPT !.kind = "dry"] \in RunRecords
  BY <1>2 DEF RunRecords, Kinds
<1> DEFINE d == [Nothing EXCEPT !.kind = "dry"]
<1>5. /\ d.pc = "done" /\ d.kind = "dry" /\ d.nonce = -1 /\ d.tx = NoTx
      /\ d.sent = FALSE /\ d.report = "none" /\ d.life = 0
  BY <1>1, <1>2 DEF RunRecords
<1> HIDE DEF d
<1>6. Allowed(x, d)
  BY <1>4, <1>5 DEF d, Allowed, PlaceOK, KindOK, Backed, Drops, Unsigned, Sending
<1> QED
  BY <1>3, <1>6 DEF d

(* A run may end with a report that the chain backs. *)
LEMMA MayFinish ==
  ASSUME Types, RunsOK, NEW r \in Runs, NEW rep \in Reports,
         run[r].pc \in {"receipt", "verify", "poll", "reconcile"},
         rep \in {"FAILED", "FAILURE"} => MinedAs(run[r].tx, FALSE),
         rep = "SUCCESS" => MinedAs(run[r].tx, TRUE),
         rep = "VERIFIED_ON_CHAIN" => MinedAs(run[r].tx, TRUE)
             /\ run[r].tx.by = "operator" /\ run[r].tx.call = "activate"
  PROVE  Allowed(run[r], Finished(r, rep))
<1> DEFINE x == run[r]
           y == Finished(r, rep)
<1>1. x \in RunRecords /\ PlaceOK(x) /\ KindOK(x)
  BY RunFields DEF RunsOK
<1> HIDE DEF x
<1>2. y = [x EXCEPT !.pc = "done", !.report = rep, !.polls = 0]
  BY DEF Finished, x
<1> HIDE DEF y
<1>3. y \in RunRecords
  <2>1. 0 \in 0..(MaxPolls - 1)
    BY Constants
  <2> QED
    BY <1>1, <1>2, <2>1 DEF RunRecords, Places
<1>4. /\ y.pc = "done" /\ y.report = rep /\ y.kind = x.kind /\ y.nonce = x.nonce /\ y.tx = x.tx
      /\ y.sent = x.sent /\ y.life = x.life /\ y.fee = x.fee
  BY <1>1, <1>2 DEF RunRecords
<1>5. x.pc \in {"receipt", "verify", "poll", "reconcile"}
  BY DEF x
<1>6. x.kind \in {"local", "signed", "server", "reconcile"} /\ x.pc \notin {"sign", "dead"}
  BY <1>1, <1>5 DEF PlaceOK, Sending
<1>7. PlaceOK(y)
  BY <1>4 DEF PlaceOK, Unsigned, Sending
<1>8. KindOK(y)
  <2>1. CASE x.kind = "reconcile"
    BY <1>1, <1>4, <2>1 DEF KindOK
  <2>2. CASE x.kind # "reconcile"
    <3>1. x.pc \notin Unsigned
      BY <1>1, <1>5, <2>2 DEF PlaceOK, Unsigned
    <3> QED
      BY <1>1, <1>4, <1>6, <2>2, <3>1 DEF KindOK, Unsigned
  <2> QED
    BY <2>1, <2>2
<1>9. Backed(y)
  BY <1>4 DEF Backed, x
<1>10. Advances(x, y)
  <2>1. x.report = "none" /\ x.pc \notin Ended /\ x.pc # "idle"
    BY <1>1, <1>5 DEF PlaceOK, Ended
  <2> QED
    BY <1>4, <2>1 DEF Advances
<1> QED
  BY <1>3, <1>7, <1>8, <1>9, <1>10 DEF Allowed, x, y

(* The places a run goes on to when it neither ends with a report, signs nor  *)
(* sends.                                                                     *)
LaterPlaces(x) ==
    CASE x.pc = "preflight" -> {IF x.kind = "export" THEN "export" ELSE "sign"}
      [] x.pc = "lookup"    -> {"reconcile"}
      [] x.pc = "send"      -> {"dead"}
      [] x.pc = "receipt"   -> IF x.kind = "server" THEN {"dead"} ELSE {"verify", "poll", "dead"}
      [] x.pc = "verify"    -> {"done", "dead"}
      [] x.pc = "poll"      -> {"poll", "done", "dead"}
      [] OTHER              -> {}

Alike(x, y) ==
    /\ y.kind = x.kind /\ y.nonce = x.nonce /\ y.tx = x.tx /\ y.sent = x.sent /\ y.life = x.life
    /\ y.fee = x.fee

(* A run may go on to a later place. *)
LEMMA MayMove ==
  ASSUME NEW x \in RunRecords, PlaceOK(x), KindOK(x), Backed(x), x.pc = "preflight" => x.kind # "dry",
         NEW y \in RunRecords, Alike(x, y), y.report = x.report, y.pc \in LaterPlaces(x),
         y.pc = "verify" => MinedAs(x.tx, TRUE)
  PROVE  Allowed(x, y)
<1> USE DEF Alike
<1>0. x.pc \in {"preflight", "lookup", "send", "receipt", "verify", "poll"}
  <2>1. x.pc \in Places
    BY DEF RunRecords
  <2> QED
    BY <2>1 DEF LaterPlaces, Places, Unsigned, Sending
<1>1. x.report = "none"
  BY <1>0 DEF PlaceOK
<1>2. Backed(y)
  BY <1>1 DEF Backed
<1>3. y.pc # "idle" /\ x.pc # "idle" /\ x.pc \notin Ended
  BY <1>0 DEF LaterPlaces, Ended
<1>4. Advances(x, y)
  BY <1>3 DEF Advances
<1>5. CASE x.pc = "preflight"
  <2>1. y.pc = IF x.kind = "export" THEN "export" ELSE "sign"
    BY <1>5 DEF LaterPlaces
  <2>2. x.kind \in {"local", "signed", "export"} /\ x.nonce = -1 /\ ~x.sent
    BY <1>5 DEF PlaceOK, Unsigned
  <2>3. PlaceOK(y)
    BY <1>1, <2>1, <2>2 DEF PlaceOK, Unsigned, Sending
  <2>4. KindOK(y)
    BY <1>5, <2>1, <2>2 DEF KindOK, Unsigned
  <2> QED
    BY <1>2, <1>4, <2>3, <2>4 DEF Allowed
<1>6. CASE x.pc = "lookup"
  <2>1. y.pc = "reconcile" /\ x.kind = "reconcile"
    BY <1>6 DEF LaterPlaces, PlaceOK
  <2>2. PlaceOK(y)
    BY <1>1, <1>6, <2>1 DEF PlaceOK, Unsigned, Sending
  <2>3. KindOK(y)
    BY <2>1 DEF KindOK
  <2> QED
    BY <1>2, <1>4, <2>2, <2>3 DEF Allowed
<1>7. CASE x.pc \in Sending
  <2>1. y.pc \in {"verify", "poll", "done", "dead"}
    BY <1>7 DEF LaterPlaces, Sending
  <2>2. x.kind \in {"local", "signed", "server"}
    BY <1>7 DEF PlaceOK
  <2>3. y.pc \in {"verify", "poll"} => x.kind # "server" /\ x.sent
    BY <1>7 DEF LaterPlaces, Sending, PlaceOK
  <2>4. PlaceOK(y)
    BY <1>1, <2>1, <2>2, <2>3 DEF PlaceOK, Unsigned, Sending
  <2>5. x.pc \notin Unsigned /\ y.pc \notin Unsigned /\ x.pc \notin {"sign", "dead"}
    BY <1>7, <2>1 DEF Unsigned, Sending
  <2>6. KindOK(y)
    BY <2>2, <2>5 DEF KindOK
  <2> QED
    BY <1>2, <1>4, <2>4, <2>6 DEF Allowed
<1> QED
  BY <1>0, <1>5, <1>6, <1>7 DEF Sending

(* A receipt that was read is the chain's. *)
LEMMA ReadsTrue ==
  ASSUME Types, NEW t, NEW read \in ReceiptReads(t)
  PROVE  /\ read = "success" => MinedAs(t, TRUE)
         /\ read = "reverted" => MinedAs(t, FALSE)
         /\ read \in {"error", "pending", "success", "reverted"}
<1>1. \A k \in 1..Len(mined) : mined[k].ok \in BOOLEAN
  BY MinedFields
<1> QED
  BY <1>1 DEF ReceiptReads, MinedAs

(* What a verified transaction is. *)
LEMMA VerifyIs ==
  ASSUME NEW t \in Txs
  PROVE  /\ Verify(t) \in {"VERIFIED_ON_CHAIN", "NOT_VERIFIED"}
         /\ Verify(t) = "VERIFIED_ON_CHAIN" => t.by = "operator" /\ t.call = "activate"
  BY DEF Verify, Logs, Price, Txs

(* A run that ends with an exception or a refusal. *)
LEMMA MayRefuse ==
  ASSUME Types, RunsOK, ReportsOK, NEW r \in Runs, run[r].pc \in Places \ {"idle", "send", "receipt", "done", "dead"}
  PROVE  Allowed(run[r], Refused(r))
<1>1. run[r] \in RunRecords /\ PlaceOK(run[r]) /\ KindOK(run[r]) /\ Backed(run[r])
  BY RunFields DEF RunsOK, ReportsOK
<1>2. CASE run[r].pc \in Unsigned
  <2>1. Refused(r) = Nothing
    BY <1>1, <1>2 DEF Refused, PlaceOK
  <2> QED
    BY <1>2, <2>1, MayDrop
<1>3. CASE run[r].pc \in {"verify", "poll"}
  <2> DEFINE x == run[r]
             y == [x EXCEPT !.pc = "done", !.polls = 0]
  <2>1. Refused(r) = y
    BY <1>1, <1>3 DEF Refused, PlaceOK
  <2>2. 0 \in 0..(MaxPolls - 1)
    BY Constants
  <2>3. x \in RunRecords
    BY <1>1
  <2> HIDE DEF x
  <2>4. y \in RunRecords
    BY <2>2, <2>3 DEF RunRecords, Places
  <2>5. Alike(x, y) /\ y.report = x.report /\ y.pc = "done"
    BY <2>3 DEF RunRecords, Alike
  <2> HIDE DEF y
  <2>6. y.pc \in LaterPlaces(x) /\ x.pc # "preflight"
    BY <1>3, <2>5 DEF LaterPlaces, x
  <2>7. PlaceOK(x) /\ KindOK(x) /\ Backed(x)
    BY <1>1 DEF x
  <2>8. Allowed(x, y)
    BY <2>3, <2>4, <2>5, <2>6, <2>7, MayMove
  <2> QED
    BY <2>1, <2>8 DEF x, y
<1> QED
  BY <1>2, <1>3 DEF Places, Unsigned, Sending

(* The steps of a run up to its signature and after its broadcast, the       *)
(* server's late look at a receipt, and the death of a driver.               *)
OrdinaryAction(r) ==
    \/ \E ok \in BOOLEAN : Preflight(r, ok)
    \/ SignFails(r)
    \/ \E read \in ReceiptReads(run[r].tx) :
          Receipt(r, read) \/ Poll(r, read) \/ Reconcile(r, read) \/ Status(r, read)
    \/ \E up \in BOOLEAN : VerifyReceipt(r, up) \/ Lookup(r, up)
    \/ KillDriver(r)

(* They only move their run. *)
LEMMA OrdinarySteps ==
  ASSUME Types, RunsOK, ReportsOK, NEW r \in Runs, OrdinaryAction(r)
  PROVE  Ordinary(r)
<1> DEFINE x == run[r]
           Still == /\ UNCHANGED <<mined, pool, credit, blobs, manager, life, careless, evicted>>
                    /\ faults' \in 0..MaxFaults
<1>1. x \in RunRecords /\ PlaceOK(x) /\ KindOK(x) /\ Backed(x)
  BY RunFields DEF RunsOK, ReportsOK
<1>2. ASSUME OnlyRun PROVE Still
  BY <1>2 DEF OnlyRun, chain, Types
<1>3. ASSUME Still, NEW y, run' = [run EXCEPT ![r] = y], Allowed(x, y) PROVE Ordinary(r)
  BY <1>3 DEF Ordinary
<1>4. 0 \in 0..(MaxPolls - 1)
  BY Constants
<1> HIDE DEF x, Still
<1>5. ASSUME NEW p \in Places, p \in LaterPlaces(x), x.pc = "preflight" => x.kind # "dry",
             p = "verify" => MinedAs(x.tx, TRUE), NEW k \in 0..(MaxPolls - 1)
      PROVE  /\ Allowed(x, [x EXCEPT !.pc = p])
             /\ Allowed(x, [x EXCEPT !.pc = p, !.polls = k])
  <2> DEFINE y == [x EXCEPT !.pc = p]
             z == [x EXCEPT !.pc = p, !.polls = k]
  <2>1. y \in RunRecords /\ Alike(x, y) /\ y.report = x.report /\ y.pc = p
    BY <1>1 DEF RunRecords, Alike
  <2>2. z \in RunRecords /\ Alike(x, z) /\ z.report = x.report /\ z.pc = p
    BY <1>1 DEF RunRecords, Alike
  <2> HIDE DEF y, z
  <2>3. Allowed(x, y)
    BY <1>1, <1>5, <2>1, MayMove
  <2>4. Allowed(x, z)
    BY <1>1, <1>5, <2>2, MayMove
  <2> QED
    BY <2>3, <2>4 DEF y, z
<1>6. ASSUME NEW ok \in BOOLEAN, Preflight(r, ok) PROVE Ordinary(r)
  <2>1. Still /\ x.pc = "preflight"
    BY <1>2, <1>6 DEF Preflight, x
  <2>2. CASE ~ok \/ credit < 1
    <3>1. run' = [run EXCEPT ![r] = Refused(r)]
      BY <1>6, <2>2 DEF Preflight
    <3>2. Allowed(x, Refused(r))
      BY <2>1, MayRefuse DEF x, Places, Unsigned, Sending
    <3> QED
      BY <1>3, <2>1, <3>1, <3>2
  <2>3. CASE ~(~ok \/ credit < 1) /\ x.kind = "dry"
    <3>1. run' = [run EXCEPT ![r] = [Nothing EXCEPT !.kind = "dry"]]
      BY <1>6, <2>3 DEF Preflight, x
    <3>2. Allowed(x, [Nothing EXCEPT !.kind = "dry"])
      BY <2>1, MayDrop DEF Unsigned
    <3> QED
      BY <1>3, <2>1, <3>1, <3>2
  <2>4. CASE ~(~ok \/ credit < 1) /\ x.kind # "dry"
    <3> DEFINE p == IF x.kind = "export" THEN "export" ELSE "sign"
    <3>1. run' = [run EXCEPT ![r] = [x EXCEPT !.pc = p]]
      BY <1>6, <2>4 DEF Preflight, x
    <3>2. p \in Places /\ p \in LaterPlaces(x) /\ p # "verify"
      BY <2>1 DEF Places, Unsigned, LaterPlaces
    <3>3. Allowed(x, [x EXCEPT !.pc = p])
      BY <1>4, <1>5, <2>4, <3>2
    <3> QED
      BY <1>3, <2>1, <3>1, <3>3
  <2> QED
    BY <2>2, <2>3, <2>4
<1>7. ASSUME SignFails(r) PROVE Ordinary(r)
  <2>1. Still /\ x.pc \in {"sign", "export"} /\ run' = [run EXCEPT ![r] = Refused(r)]
    BY <1>2, <1>7 DEF SignFails, x
  <2>2. Allowed(x, Refused(r))
    BY <2>1, MayRefuse DEF x, Places, Unsigned, Sending
  <2> QED
    BY <1>3, <2>1, <2>2
<1>8. ASSUME NEW read \in ReceiptReads(run[r].tx), Receipt(r, read) PROVE Ordinary(r)
  <2>0. Still /\ x.pc = "receipt" /\ run[r].pc = "receipt"
    BY <1>2, <1>8 DEF Receipt, x
  <2>1. CASE x.kind = "server"
    <3> DEFINE rep == CASE read = "success" -> "SUCCESS" [] read = "reverted" -> "FAILURE"
                        [] OTHER -> "TIMEOUT"
    <3>1. run' = [run EXCEPT ![r] = Finished(r, rep)]
      BY <1>8, <2>1 DEF Receipt, x
    <3>2. /\ rep \in Reports /\ rep # "VERIFIED_ON_CHAIN"
          /\ rep \in {"FAILED", "FAILURE"} => MinedAs(run[r].tx, FALSE)
          /\ rep = "SUCCESS" => MinedAs(run[r].tx, TRUE)
      BY ReadsTrue DEF Reports
    <3> HIDE DEF rep
    <3>3. Allowed(run[r], Finished(r, rep))
      BY <2>0, <3>2, MayFinish
    <3> QED
      BY <1>3, <2>0, <3>1, <3>3 DEF x
  <2>2. CASE x.kind # "server" /\ read = "reverted"
    <3>1. run' = [run EXCEPT ![r] = Finished(r, "FAILED")]
      BY <1>8, <2>2 DEF Receipt, x
    <3>2. Allowed(run[r], Finished(r, "FAILED"))
      BY <2>0, <2>2, ReadsTrue, MayFinish DEF Reports
    <3> QED
      BY <1>3, <2>0, <3>1, <3>2 DEF x
  <2>3. CASE x.kind # "server" /\ read # "reverted"
    <3> DEFINE p == IF read = "success" THEN "verify" ELSE "poll"
    <3>1. run' = [run EXCEPT ![r] = [x EXCEPT !.pc = p]]
      BY <1>8, <2>3 DEF Receipt, x
    <3>2. p \in Places /\ p \in LaterPlaces(x) /\ (p = "verify" => MinedAs(x.tx, TRUE))
      BY <2>0, <2>3, ReadsTrue DEF Places, Sending, LaterPlaces, x
    <3>3. Allowed(x, [x EXCEPT !.pc = p])
      BY <1>4, <1>5, <2>0, <3>2
    <3> QED
      BY <1>3, <2>0, <3>1, <3>3
  <2> QED
    BY <2>1, <2>2, <2>3
<1>9. ASSUME NEW read \in ReceiptReads(run[r].tx), Poll(r, read) PROVE Ordinary(r)
  <2>0. Still /\ x.pc = "poll" /\ run[r].pc = "poll"
    BY <1>2, <1>9 DEF Poll, x
  <2>1. CASE read = "error"
    <3>1. run' = [run EXCEPT ![r] = Refused(r)]
      BY <1>9, <2>1 DEF Poll
    <3>2. Allowed(x, Refused(r))
      BY <2>0, MayRefuse DEF x, Places, Unsigned, Sending
    <3> QED
      BY <1>3, <2>0, <3>1, <3>2
  <2>2. CASE read = "success"
    <3>1. run' = [run EXCEPT ![r] = Finished(r, Verify(run[r].tx))]
      BY <1>9, <2>2 DEF Poll
    <3>2. /\ Verify(run[r].tx) \in {"VERIFIED_ON_CHAIN", "NOT_VERIFIED"}
          /\ Verify(run[r].tx) = "VERIFIED_ON_CHAIN" =>
                run[r].tx.by = "operator" /\ run[r].tx.call = "activate"
      BY VerifyIs, RunFields
    <3>3. Allowed(run[r], Finished(r, Verify(run[r].tx)))
      BY <2>0, <2>2, <3>2, ReadsTrue, MayFinish DEF Reports
    <3> QED
      BY <1>3, <2>0, <3>1, <3>3 DEF x
  <2>3. CASE read = "reverted"
    <3>1. run' = [run EXCEPT ![r] = Finished(r, "FAILED")]
      BY <1>9, <2>3 DEF Poll
    <3>2. Allowed(run[r], Finished(r, "FAILED"))
      BY <2>0, <2>3, ReadsTrue, MayFinish DEF Reports
    <3> QED
      BY <1>3, <2>0, <3>1, <3>2 DEF x
  <2>4. CASE read \notin {"error", "success", "reverted"} /\ x.polls + 1 = MaxPolls
    <3>1. run' = [run EXCEPT ![r] = Unknown(r)]
      BY <1>9, <2>4 DEF Poll, x
    <3>2. PICK rep \in {"TIMEOUT", "UNKNOWN_PENDING"} : Unknown(r) = Finished(r, rep)
      BY DEF Unknown
    <3>3. Allowed(run[r], Finished(r, rep))
      BY <2>0, <3>2, MayFinish DEF Reports
    <3> QED
      BY <1>3, <2>0, <3>1, <3>2, <3>3 DEF x
  <2>5. CASE read \notin {"error", "success", "reverted"} /\ x.polls + 1 # MaxPolls
    <3>0. x.polls \in 0..(MaxPolls - 1) /\ x.polls + 1 \in 0..(MaxPolls - 1)
      BY <1>1, <2>5, Constants DEF RunRecords
    <3> DEFINE y == [x EXCEPT !.polls = x.polls + 1]
    <3>1. run' = [run EXCEPT ![r] = y]
      BY <1>9, <2>5 DEF Poll, x
    <3>2. y \in RunRecords /\ Alike(x, y) /\ y.report = x.report /\ y.pc = "poll"
      BY <1>1, <2>0, <3>0 DEF RunRecords, Alike
    <3> HIDE DEF y
    <3>3. y.pc \in LaterPlaces(x)
      BY <2>0, <3>2 DEF LaterPlaces
    <3>4. Allowed(x, y)
      BY <1>1, <2>0, <3>2, <3>3, MayMove
    <3> QED
      BY <1>3, <2>0, <3>1, <3>4
  <2> QED
    BY <2>1, <2>2, <2>3, <2>4, <2>5
<1>10. ASSUME NEW read \in ReceiptReads(run[r].tx), Reconcile(r, read) PROVE Ordinary(r)
  <2>0. Still /\ x.pc = "reconcile" /\ run[r].pc = "reconcile"
    BY <1>2, <1>10 DEF Reconcile, x
  <2>1. CASE read = "error"
    <3>1. run' = [run EXCEPT ![r] = Refused(r)]
      BY <1>10, <2>1 DEF Reconcile
    <3>2. Allowed(x, Refused(r))
      BY <2>0, MayRefuse DEF x, Places, Unsigned, Sending
    <3> QED
      BY <1>3, <2>0, <3>1, <3>2
  <2>2. CASE read = "success"
    <3>1. run' = [run EXCEPT ![r] = Finished(r, Verify(run[r].tx))]
      BY <1>10, <2>2 DEF Reconcile
    <3>2. /\ Verify(run[r].tx) \in {"VERIFIED_ON_CHAIN", "NOT_VERIFIED"}
          /\ Verify(run[r].tx) = "VERIFIED_ON_CHAIN" =>
                run[r].tx.by = "operator" /\ run[r].tx.call = "activate"
      BY VerifyIs, RunFields
    <3>3. Allowed(run[r], Finished(r, Verify(run[r].tx)))
      BY <2>0, <2>2, <3>2, ReadsTrue, MayFinish DEF Reports
    <3> QED
      BY <1>3, <2>0, <3>1, <3>3 DEF x
  <2>3. CASE read \in {"pending", "reverted"}
    <3> DEFINE rep == IF read = "reverted" THEN "FAILED" ELSE "UNKNOWN_PENDING"
    <3>1. run' = [run EXCEPT ![r] = Finished(r, rep)]
      BY <1>10, <2>3 DEF Reconcile
    <3>2. Allowed(run[r], Finished(r, rep))
      BY <2>0, <2>3, ReadsTrue, MayFinish DEF Reports
    <3> QED
      BY <1>3, <2>0, <3>1, <3>2 DEF x
  <2> QED
    BY <2>1, <2>2, <2>3, ReadsTrue
<1>11. ASSUME NEW read \in ReceiptReads(run[r].tx), Status(r, read) PROVE Ordinary(r)
  <2>0. Still /\ x.kind = "server" /\ x.report = "TIMEOUT" /\ read \in {"success", "reverted"}
    BY <1>2, <1>11 DEF Status, x
  <2> DEFINE rep == IF read = "success" THEN "SUCCESS" ELSE "FAILURE"
             y == [x EXCEPT !.report = rep]
  <2>1. run' = [run EXCEPT ![r] = y]
    BY <1>11 DEF Status, x
  <2>2. /\ y \in RunRecords /\ Alike(x, y) /\ y.report = rep /\ y.pc = x.pc
    BY <1>1 DEF RunRecords, Alike, Reports
  <2>3. x.pc = "done"
    BY <1>1, <2>0 DEF PlaceOK
  <2>4. (rep = "SUCCESS" => MinedAs(x.tx, TRUE)) /\ (rep = "FAILURE" => MinedAs(x.tx, FALSE))
    BY <2>0, ReadsTrue DEF x
  <2>5. rep \in {"SUCCESS", "FAILURE"}
    OBVIOUS
  <2> HIDE DEF y, rep
  <2>6. PlaceOK(y)
    BY <1>1, <2>2, <2>3 DEF PlaceOK, Alike, Unsigned, Sending
  <2>7. KindOK(y)
    BY <1>1, <2>0, <2>2 DEF KindOK, Alike
  <2>8. Backed(y)
    BY <2>2, <2>3, <2>4, <2>5 DEF Backed, Alike
  <2>9. Advances(x, y)
    BY <2>0, <2>2, <2>3 DEF Advances, Alike, Ended
  <2>10. Allowed(x, y)
    BY <2>2, <2>6, <2>7, <2>8, <2>9 DEF Allowed
  <2> QED
    BY <1>3, <2>0, <2>1, <2>10
<1>12. ASSUME NEW up \in BOOLEAN, VerifyReceipt(r, up) PROVE Ordinary(r)
  <2>0. Still /\ x.pc = "verify" /\ run[r].pc = "verify"
    BY <1>2, <1>12 DEF VerifyReceipt, x
  <2>1. CASE Logs(run[r].tx) = {} /\ ~up
    <3>1. run' = [run EXCEPT ![r] = Refused(r)]
      BY <1>12, <2>1 DEF VerifyReceipt
    <3>2. Allowed(x, Refused(r))
      BY <2>0, MayRefuse DEF x, Places, Unsigned, Sending
    <3> QED
      BY <1>3, <2>0, <3>1, <3>2
  <2>2. CASE ~(Logs(run[r].tx) = {} /\ ~up)
    <3>1. run' = [run EXCEPT ![r] = Finished(r, Verify(run[r].tx))]
      BY <1>12, <2>2 DEF VerifyReceipt
    <3>2. /\ Verify(run[r].tx) \in {"VERIFIED_ON_CHAIN", "NOT_VERIFIED"}
          /\ Verify(run[r].tx) = "VERIFIED_ON_CHAIN" =>
                run[r].tx.by = "operator" /\ run[r].tx.call = "activate"
      BY VerifyIs, RunFields
    <3>3. MinedAs(run[r].tx, TRUE)
      BY <1>1, <2>0 DEF Backed, x
    <3>4. Allowed(run[r], Finished(r, Verify(run[r].tx)))
      BY <2>0, <3>2, <3>3, MayFinish DEF Reports
    <3> QED
      BY <1>3, <2>0, <3>1, <3>4 DEF x
  <2> QED
    BY <2>1, <2>2
<1>13. ASSUME NEW up \in BOOLEAN, Lookup(r, up) PROVE Ordinary(r)
  <2>0. Still /\ x.pc = "lookup"
    BY <1>2, <1>13 DEF Lookup, x
  <2>1. run' = [run EXCEPT ![r] = Refused(r)] \/ run' = [run EXCEPT ![r] = [x EXCEPT !.pc = "reconcile"]]
    BY <1>13 DEF Lookup, x
  <2>2. Allowed(x, Refused(r))
    BY <2>0, MayRefuse DEF x, Places, Unsigned, Sending
  <2>3. "reconcile" \in Places /\ "reconcile" \in LaterPlaces(x)
    BY <2>0 DEF Places, Unsigned, LaterPlaces
  <2>4. Allowed(x, [x EXCEPT !.pc = "reconcile"])
    BY <1>4, <1>5, <2>0, <2>3
  <2> QED
    BY <1>3, <2>0, <2>1, <2>2, <2>4
<1>14. ASSUME KillDriver(r) PROVE Ordinary(r)
  <2>0. Still /\ x.pc \notin Ended /\ x.kind # "server" /\ x.pc \in Places
    <3>1. faults' \in 0..MaxFaults
      BY <1>14, Constants DEF KillDriver, Types
    <3> QED
      BY <1>1, <1>14, <3>1 DEF KillDriver, chain, Still, Live, x, RunRecords
  <2>1. CASE x.pc \in Sending
    <3>1. run' = [run EXCEPT ![r] = [x EXCEPT !.pc = "dead", !.polls = 0]]
      BY <1>14, <2>1 DEF KillDriver, Sending, x
    <3>2. "dead" \in Places /\ "dead" \in LaterPlaces(x) /\ x.pc # "preflight"
      BY <2>1 DEF Places, Sending, LaterPlaces
    <3>3. Allowed(x, [x EXCEPT !.pc = "dead", !.polls = 0])
      BY <1>4, <1>5, <3>2
    <3> QED
      BY <1>3, <2>0, <3>1, <3>3
  <2>2. CASE x.pc \notin Sending
    <3>1. run' = [run EXCEPT ![r] = Nothing]
      BY <1>14, <2>2 DEF KillDriver, Sending, x
    <3>2. x.pc \in Unsigned \ {"idle"}
      BY <2>0, <2>2 DEF Places, Ended
    <3>3. Allowed(x, Nothing)
      BY <3>2, MayDrop
    <3> QED
      BY <1>3, <2>0, <3>1, <3>3
  <2> QED
    BY <2>1, <2>2
<1> QED
  BY <1>6, <1>7, <1>8, <1>9, <1>10, <1>11, <1>12, <1>13, <1>14 DEF OrdinaryAction

(* Such a step keeps the invariant. *)
LEMMA OrdinaryKeeps ==
  ASSUME IInv, NEW r \in Runs, Ordinary(r)
  PROVE  IInv'
<1> USE DEF IInv
<1>1. PICK y : Allowed(run[r], y) /\ run' = [run EXCEPT ![r] = y]
  BY DEF Ordinary
<1> DEFINE x == run[r]
<1>2. /\ x \in RunRecords /\ PlaceOK(x) /\ KindOK(x)
      /\ y \in RunRecords /\ PlaceOK(y) /\ KindOK(y) /\ Backed(y)
      /\ Drops(x, y) \/ Advances(x, y)
  BY <1>1, RunFields DEF Allowed, RunsOK
<1>3. run' \in [Runs -> RunRecords] /\ run'[r] = y /\ \A q \in Runs \ {r} : run'[q] = run[q]
  BY <1>1, <1>2 DEF Types
<1>4. /\ mined' = mined /\ pool' = pool /\ credit' = credit /\ blobs' = blobs /\ manager' = manager
      /\ life' = life /\ careless' = careless /\ evicted' = evicted /\ faults' \in 0..MaxFaults
  BY DEF Ordinary
<1> HIDE DEF x
<1>x. run[r] = x
  BY DEF x
<1>5. Types'
  BY <1>3, <1>4 DEF Types
<1>6. RunsOK'
  BY <1>2, <1>3 DEF RunsOK
<1>7. ReportsOK'
  <2>1. \A q \in Runs : Backed(run'[q])
    BY <1>2, <1>3 DEF ReportsOK
  <2> QED
    BY <1>4, <2>1 DEF ReportsOK, Backed, MinedAs
<1>8. Advances(x, y) \/ (Drops(x, y) /\ x.report = "none" /\ x.nonce = -1 /\ x.pc \notin Ended)
  BY <1>2 DEF Drops, PlaceOK, Unsigned, Ended
<1>9. \A q \in Attempts' : q \in Attempts /\ run'[q].tx = run[q].tx
  BY <1>x, <1>3, <1>8 DEF Attempts, Advances, Drops
<1>10. \A q \in Runs : run[q].report = "FAILED" => run'[q].report = "FAILED" /\ run'[q].tx = run[q].tx
  BY <1>x, <1>3, <1>8 DEF Advances
<1>11. ASSUME NEW q \in Attempts', Resolved(q) PROVE Resolved(q)'
  <2>1. q \in Runs /\ q \in Attempts /\ run'[q].tx = run[q].tx
    BY <1>9 DEF Attempts
  <2>2. run'[q].pc \in Ended /\ (Exposed(q)' => Exposed(q))
    <3>1. CASE q # r
      BY <1>3, <1>11, <2>1, <3>1 DEF Resolved, Exposed
    <3>2. CASE q = r
      BY <1>x, <1>3, <1>8, <1>11, <3>2 DEF Resolved, Exposed, Advances
    <3> QED
      BY <3>1, <3>2
  <2> QED
    BY <1>10, <1>11, <2>1, <2>2 DEF Resolved
<1>12. OneOpen'
  BY <1>4, <1>9, <1>11 DEF OneOpen
<1>13. ASSUME NEW t, t.call = "activate", Out(t) PROVE Out(t)'
  <2>1. PICK q \in Attempts : Exposed(q) /\ run[q].tx = t
    BY <1>13 DEF Out
  <2>2. q \in Runs
    BY <2>1 DEF Attempts
  <2>3. CASE q # r
    BY <1>3, <2>1, <2>2, <2>3 DEF Out, Attempts, Exposed
  <2>4. CASE q = r /\ Advances(x, y)
    BY <1>x, <1>3, <2>1, <2>2, <2>4 DEF Out, Attempts, Exposed, Advances, Ended
  <2>5. CASE q = r /\ Drops(x, y)
    <3>1. x.pc \in Unsigned /\ x.kind = "export" /\ x.tx.call = "activate"
      BY <1>x, <1>2, <1>13, <2>1, <2>5 DEF Drops, Exposed, PlaceOK, Unsigned
    <3>2. x.tx = NoTx
      BY <1>2, <3>1 DEF KindOK, Unsigned
    <3> QED
      BY <3>1, <3>2 DEF NoTx
  <2> QED
    BY <1>8, <2>3, <2>4, <2>5
<1>14. ChainOK'
  <2>1. ASSUME NEW t \in pool' PROVE t.by = "operator" /\ (t.call = "activate" => Out(t)')
    BY <1>4, <1>13 DEF ChainOK
  <2>2. ASSUME NEW k \in 1..Len(mined)', mined'[k].ok, mined'[k].tx.call = "activate"
        PROVE  Out(mined[k].tx)'
    <3>1. PICK t : t = mined[k].tx
      OBVIOUS
    <3>2. Out(t) /\ t.call = "activate"
      BY <1>4, <2>2, <3>1 DEF ChainOK
    <3>3. Out(t)'
      BY <1>13, <3>2
    <3> QED
      BY <1>4, <3>1, <3>3
  <2>3. ASSUME NEW t \in blobs' \ StrayBlobs
        PROVE  \E q \in Runs : run'[q].kind = "export" /\ run'[q].pc = "done" /\ run'[q].tx = t
    <3>1. PICK q \in Runs : run[q].kind = "export" /\ run[q].pc = "done" /\ run[q].tx = t
      BY <1>4 DEF ChainOK
    <3>2. run'[q].kind = "export" /\ run'[q].pc = "done" /\ run'[q].tx = t
      BY <1>x, <1>3, <1>8, <3>1 DEF Advances, Ended
    <3> QED
      BY <3>2
  <2> QED
    BY <1>4, <2>1, <2>2, <2>3 DEF ChainOK
<1>15. \A q \in Runs : run'[q].kind = "server" =>
          /\ run[q].kind = "server" /\ run'[q].life = run[q].life /\ run'[q].nonce = run[q].nonce
          /\ run'[q].pc \notin Ended => run[q].pc \notin Ended
  BY <1>x, <1>3, <1>8 DEF Advances, Drops, Ended
<1>16. ManagerAhead'
  <2>1. ASSUME NEW a \in manager'.assigned PROVE run'[a.run].nonce # -1
    <3>1. a \in manager.assigned /\ a.run \in Runs /\ run[a.run].nonce # -1
      BY <1>4 DEF ManagerAhead, Types
    <3> QED
      BY <1>x, <1>3, <1>8, <3>1 DEF Advances
  <2> QED
    BY <1>4, <1>15, <2>1 DEF ManagerAhead
<1>17. NoncesDistinct'
  BY <1>15 DEF NoncesDistinct
<1>18. ASSUME NEW n \in Nat, NEW l, Covered(n, l) PROVE Covered(n, l)'
  <2>1. ASSUME NEW q \in Runs, run[q].kind = "server", run[q].nonce = n, run[q].life = l
        PROVE  run'[q].kind = "server" /\ run'[q].nonce = n /\ run'[q].life = l
    BY <1>x, <1>3, <1>8, <2>1 DEF Advances
  <2> QED
    BY <1>4, <1>18, <2>1 DEF Covered
<1>19. NoGaps'
  <2>0. Len(mined) \in Nat /\ manager.next \in Nat
    BY ChainLength DEF Types
  <2>1. ASSUME NEW q \in Runs, run'[q].kind \in {"local", "server"}, run'[q].nonce # -1,
               NEW n \in Len(mined)..(run'[q].nonce - 1)
        PROVE  Covered(n, run[q].life)'
    <3>1. run'[q].kind = run[q].kind /\ run'[q].nonce = run[q].nonce /\ run'[q].life = run[q].life
      BY <1>x, <1>3, <1>8, <2>1 DEF Advances, Drops
    <3>2. Covered(n, run[q].life) /\ n \in Nat
      BY <2>0, <2>1, <3>1, RunFields DEF NoGaps
    <3>3. PICK l : l = run[q].life
      OBVIOUS
    <3>4. Covered(n, l)'
      BY <1>18, <3>2, <3>3
    <3> QED
      BY <3>1, <3>3, <3>4 DEF Covered
  <2>2. ASSUME NEW n \in Len(mined)..(manager.next - 1) PROVE Covered(n, life)'
    <3>1. PICK l : l = life
      OBVIOUS
    <3>2. Covered(n, l)'
      BY <1>18, <2>0, <2>2, <3>1 DEF NoGaps
    <3> QED
      BY <1>4, <3>1, <3>2
  <2> QED
    BY <1>4, <2>1, <2>2 DEF NoGaps
<1> QED
  BY <1>5, <1>6, <1>7, <1>12, <1>14, <1>16, <1>17, <1>19

-----------------------------------------------------------------------------
(* Steps of the chain and of the wallet. *)

(* A step that leaves the runs alone keeps what the invariant says of them,   *)
(* if what was mined stays mined and accounted nonces stay accounted.         *)
LEMMA ChainKeeps ==
  ASSUME IInv, UNCHANGED <<run, manager, life, careless>>, Types', ChainOK',
         Len(mined) <= Len(mined'),
         \A t, ok : MinedAs(t, ok) => MinedAs(t, ok)',
         \A n \in Nat : \A l : n >= Len(mined') /\ Covered(n, l) => Covered(n, l)'
  PROVE  IInv'
<1> USE DEF IInv
<1>1. RunsOK'
  BY DEF RunsOK
<1>2. ReportsOK'
  BY DEF ReportsOK, Backed
<1>3. OneOpen'
  BY DEF OneOpen, Attempts, Resolved, Exposed
<1>4. ManagerAhead' /\ NoncesDistinct'
  BY DEF ManagerAhead, NoncesDistinct
<1>5. NoGaps'
  <2>0. Len(mined) \in Nat /\ Len(mined') \in Nat /\ manager.next \in Nat
    <3>1. Len(mined) \in Nat /\ manager.next \in Nat
      BY ChainLength DEF Types
    <3>2. Len(mined') \in Nat
      BY DEF Types
    <3> QED
      BY <3>1, <3>2
  <2>1. ASSUME NEW n \in Int, n >= Len(mined'), NEW l, Covered(n, l) PROVE Covered(n, l)'
    BY <2>0, <2>1
  <2>2. ASSUME NEW q \in Runs, run[q].kind \in {"local", "server"}, run[q].nonce # -1,
               NEW n \in Len(mined')..(run[q].nonce - 1)
        PROVE  Covered(n, run[q].life)'
    <3>1. PICK l : l = run[q].life
      OBVIOUS
    <3>2. run[q].nonce \in Int
      BY RunFields
    <3>3. Covered(n, l)
      BY <2>0, <2>2, <3>1, <3>2 DEF NoGaps
    <3>4. Covered(n, l)'
      BY <2>0, <2>1, <2>2, <3>2, <3>3
    <3> QED
      BY <3>1, <3>4 DEF Covered
  <2>3. ASSUME NEW n \in Len(mined')..(manager.next - 1) PROVE Covered(n, life)'
    <3>1. PICK l : l = life
      OBVIOUS
    <3>2. Covered(n, l)
      BY <2>0, <2>3, <3>1 DEF NoGaps
    <3>3. Covered(n, l)'
      BY <2>0, <2>1, <2>3, <3>2
    <3> QED
      BY <3>1, <3>3 DEF Covered
  <2> QED
    BY <2>2, <2>3 DEF NoGaps
<1> QED
  BY <1>1, <1>2, <1>3, <1>4, <1>5

(* A transaction put into the mempool takes the place of one with its nonce. *)
LEMMA PoolWithTx ==
  ASSUME Types, NEW t \in Txs
  PROVE  /\ WithTx(t) \in SUBSET Txs /\ IsFiniteSet(WithTx(t))
         /\ \A n : (\E u \in pool : u.nonce = n) => \E u \in WithTx(t) : u.nonce = n
<1>1. WithTx(t) \in SUBSET Txs
  BY DEF Types, WithTx
<1>2. IsFiniteSet(WithTx(t))
  <2>1. IsFiniteSet({u \in pool : u.nonce # t.nonce})
    <3>1. {u \in pool : u.nonce # t.nonce} \subseteq pool
      OBVIOUS
    <3> QED
      BY <3>1, FS_Subset DEF Types
  <2> QED
    BY <2>1, FS_AddElement DEF WithTx
<1> QED
  BY <1>1, <1>2 DEF WithTx

(* The wallet keeps the invariant. *)
LEMMA WalletKeeps ==
  ASSUME IInv, (\E r \in Runs : WalletSigns(r)) \/ (\E t \in blobs : WalletSends(t))
  PROVE  IInv'
<1> USE DEF IInv
<1>1. ASSUME NEW r \in Runs, WalletSigns(r) PROVE IInv'
  <2>1. /\ UNCHANGED <<mined, pool, credit, run, manager, life, careless, evicted, faults>>
        /\ run[r].kind = "export" /\ run[r].pc = "done" /\ run[r].tx # NoTx
        /\ blobs' = blobs \cup {run[r].tx}
    BY <1>1 DEF WalletSigns, chain
  <2>2. Types'
    BY <2>1, RunFields DEF Types
  <2>3. ChainOK'
    BY <2>1 DEF ChainOK, Out, Attempts, Exposed
  <2>4. Len(mined) <= Len(mined')
    BY <2>1, ChainLength
  <2>5. \A t, ok : MinedAs(t, ok) => MinedAs(t, ok)'
    BY <2>1 DEF MinedAs
  <2>6. \A n \in Nat : \A l : Covered(n, l) => Covered(n, l)'
    BY <2>1 DEF Covered
  <2> QED
    BY <2>1, <2>2, <2>3, <2>4, <2>5, <2>6, ChainKeeps
<1>2. ASSUME NEW t \in blobs, WalletSends(t) PROVE IInv'
  <2>1. /\ UNCHANGED <<mined, credit, blobs, run, manager, life, careless, evicted, faults>>
        /\ pool' = WithTx(t) /\ t \in blobs \ StrayBlobs
    BY <1>2 DEF WalletSends
  <2>2. t \in Txs
    BY DEF Types
  <2>3. Types'
    BY <2>1, <2>2, PoolWithTx DEF Types
  <2>4. PICK q \in Runs : run[q].kind = "export" /\ run[q].pc = "done" /\ run[q].tx = t
    BY <2>1 DEF ChainOK
  <2>5. t.by = "operator" /\ Out(t)
    <3>1. t.by = "operator"
      BY <2>4 DEF RunsOK, KindOK
    <3>2. q \in Attempts /\ Exposed(q)
      BY <2>4 DEF Attempts, Exposed
    <3> QED
      BY <2>4, <3>1, <3>2 DEF Out
  <2>6. \A u : Out(u) => Out(u)'
    BY <2>1 DEF Out, Attempts, Exposed
  <2>7. ChainOK'
    <3>1. \A u \in pool' : u.by = "operator" /\ (u.call = "activate" => Out(u))
      BY <2>1, <2>5 DEF ChainOK, WithTx
    <3>2. \A k \in 1..Len(mined') : mined'[k].ok /\ mined'[k].tx.call = "activate" => Out(mined[k].tx)
      BY <2>1 DEF ChainOK
    <3> QED
      BY <2>1, <3>1, <3>2 DEF ChainOK, Out, Attempts, Exposed
  <2>8. Len(mined) <= Len(mined')
    BY <2>1, ChainLength
  <2>9. \A u, ok : MinedAs(u, ok) => MinedAs(u, ok)'
    BY <2>1 DEF MinedAs
  <2>10. \A n \in Nat : \A l : Covered(n, l) => Covered(n, l)'
    BY <2>1, <2>2, PoolWithTx DEF Covered
  <2> QED
    BY <2>1, <2>3, <2>7, <2>8, <2>9, <2>10, ChainKeeps
<1> QED
  BY <1>1, <1>2

(* So do the node that mines and the one that evicts. *)
LEMMA NodeKeeps ==
  ASSUME IInv, NEW t \in pool, (\E ok \in BOOLEAN : Mine(t, ok)) \/ Evict(t)
  PROVE  IInv'
<1> USE DEF IInv
<1>0. /\ t \in Txs /\ IsFiniteSet(pool \ {t}) /\ pool \ {t} \in SUBSET Txs /\ Len(mined) \in Nat
      /\ t.nonce \in Nat
  BY FS_RemoveElement, ChainLength DEF Types, Txs
<1>1. ASSUME NEW ok \in BOOLEAN, Mine(t, ok) PROVE IInv'
  <2> DEFINE e == [tx |-> t, ok |-> ok]
  <2>1. /\ UNCHANGED <<blobs, run, manager, life, careless, evicted, faults>>
        /\ t.nonce = Len(mined) /\ mined' = Append(mined, e) /\ pool' = pool \ {t}
    BY <1>1 DEF Mine
  <2>2. credit' \in Nat
    <3>1. credit \in Nat /\ Price(t) \in Nat
      BY DEF Types, Price
    <3> QED
      BY <1>1, <3>1 DEF Mine
  <2>3. /\ mined' \in Seq([tx : Txs, ok : BOOLEAN]) /\ Len(mined') = Len(mined) + 1
        /\ \A k \in 1..Len(mined) : mined'[k] = mined[k]
        /\ mined'[Len(mined) + 1] = e
    <3>1. mined \in Seq([tx : Txs, ok : BOOLEAN]) /\ e \in [tx : Txs, ok : BOOLEAN]
      BY <1>0 DEF Types
    <3> DEFINE E == [tx : Txs, ok : BOOLEAN]
    <3> HIDE DEF E, e
    <3>2. mined \in Seq(E) /\ e \in E
      BY <3>1 DEF E
    <3>3. /\ mined' \in Seq(E) /\ Len(mined') = Len(mined) + 1
          /\ \A k \in 1..Len(mined) : mined'[k] = mined[k]
          /\ mined'[Len(mined) + 1] = e
      BY <2>1, <3>2
    <3> QED
      BY <3>3 DEF E
  <2>4. \A k \in 1..Len(mined') : k \in 1..Len(mined) \/ k = Len(mined) + 1
    BY <1>0, <2>3
  <2>5. \A k \in 1..Len(mined') : mined'[k].tx.nonce = k - 1
    <3>1. \A k \in 1..Len(mined) : mined'[k].tx.nonce = k - 1
      BY <2>3 DEF Types
    <3>2. mined'[Len(mined) + 1].tx.nonce = Len(mined) + 1 - 1
      BY <1>0, <2>1, <2>3
    <3> QED
      BY <2>4, <3>1, <3>2
  <2>6. Types'
    BY <1>0, <2>1, <2>2, <2>3, <2>5 DEF Types
  <2>7. 1..Len(mined) \subseteq 1..Len(mined') /\ Len(mined) <= Len(mined')
    BY <1>0, <2>3
  <2>8. \A u, b : MinedAs(u, b) => MinedAs(u, b)'
    BY <2>3, <2>7 DEF MinedAs
  <2>9. ChainOK'
    <3>1. \A k \in 1..Len(mined') : mined'[k].ok /\ mined'[k].tx.call = "activate" => Out(mined'[k].tx)
      <4>1. \A k \in 1..Len(mined) : mined'[k].ok /\ mined'[k].tx.call = "activate" => Out(mined'[k].tx)
        BY <2>3 DEF ChainOK
      <4>2. mined'[Len(mined) + 1].tx.call = "activate" => Out(mined'[Len(mined) + 1].tx)
        BY <2>3 DEF ChainOK
      <4> QED
        BY <2>4, <4>1, <4>2
    <3>2. \A u \in pool' : u.by = "operator" /\ (u.call = "activate" => Out(u))
      BY <2>1 DEF ChainOK
    <3>3. \A u \in blobs' \ StrayBlobs :
             \E r \in Runs : run'[r].kind = "export" /\ run'[r].pc = "done" /\ run'[r].tx = u
      BY <2>1 DEF ChainOK
    <3> QED
      BY <2>1, <3>1, <3>2, <3>3 DEF ChainOK, Out, Attempts, Exposed
  <2>10. ASSUME NEW n \in Nat, NEW l, n >= Len(mined'), Covered(n, l) PROVE Covered(n, l)'
    <3>1. n # t.nonce
      BY <1>0, <2>1, <2>3, <2>10
    <3> QED
      BY <2>1, <2>10, <3>1 DEF Covered
  <2> QED
    BY <2>1, <2>6, <2>7, <2>8, <2>9, <2>10, ChainKeeps
<1>2. ASSUME Evict(t) PROVE IInv'
  <2>1. /\ UNCHANGED <<mined, credit, blobs, run, manager, life, careless>>
        /\ pool' = pool \ {t} /\ evicted' = evicted \cup {t.nonce}
        /\ faults' = faults + 1 /\ faults < MaxFaults
    BY <1>2 DEF Evict
  <2>2. Types'
    <3>1. faults' \in 0..MaxFaults
      BY <2>1, Constants DEF Types
    <3> QED
      BY <1>0, <2>1, <3>1 DEF Types
  <2>3. ChainOK'
    BY <2>1 DEF ChainOK, Out, Attempts, Exposed
  <2>4. Len(mined) <= Len(mined')
    BY <1>0, <2>1
  <2>5. \A u, ok : MinedAs(u, ok) => MinedAs(u, ok)'
    BY <2>1 DEF MinedAs
  <2>6. \A n \in Nat : \A l : Covered(n, l) => Covered(n, l)'
    BY <2>1 DEF Covered
  <2> QED
    BY <2>1, <2>2, <2>3, <2>4, <2>5, <2>6, ChainKeeps
<1> QED
  BY <1>1, <1>2

-----------------------------------------------------------------------------
(* Steps that start a run, sign or send. *)

(* A step that allocates no nonce of the manager and signs nothing locally   *)
(* keeps what the invariant says of nonces.                                  *)
NonceStays(q) ==
    \/ /\ run'[q].kind = run[q].kind /\ run'[q].nonce = run[q].nonce /\ run'[q].life = run[q].life
       /\ run'[q].pc \notin Ended => run[q].pc \notin Ended
    \/ /\ run[q].nonce = -1 /\ run'[q].nonce = -1
       /\ run'[q].kind = "server" => run'[q].life = life
    \/ /\ run[q].nonce = -1 /\ run'[q].kind \notin {"local", "server"}

(* The lemma to it. *)
LEMMA NoncesKeep ==
  ASSUME IInv, Types', UNCHANGED <<mined, manager, life, evicted>>,
         \A n : (\E u \in pool : u.nonce = n) => \E u \in pool' : u.nonce = n,
         \A q \in Runs : NonceStays(q)
  PROVE  ManagerAhead' /\ NoncesDistinct' /\ NoGaps'
<1> USE DEF IInv
<1>0. Len(mined) \in Nat /\ manager.next \in Nat /\ life \in Nat
  BY ChainLength DEF Types
<1>1. ManagerAhead'
  <2>1. ASSUME NEW q \in Runs, run'[q].kind = "server"
        PROVE  /\ run'[q].life <= life
               /\ run'[q].pc \notin Ended => run'[q].life = life
               /\ run'[q].life = life => run'[q].nonce < manager.next
    BY <1>0, <2>1 DEF NonceStays, ManagerAhead
  <2>2. ASSUME NEW a \in manager.assigned PROVE run'[a.run].nonce # -1
    <3>1. a.run \in Runs /\ run[a.run].nonce # -1
      BY DEF ManagerAhead, Types
    <3> QED
      BY <3>1 DEF NonceStays
  <2> QED
    BY <2>1, <2>2 DEF ManagerAhead
<1>2. NoncesDistinct'
  <2> SUFFICES ASSUME NEW p \in Runs, NEW q \in Runs, p # q, run'[p].kind = "server",
                      run'[q].kind = "server", run'[p].life = run'[q].life, run'[p].nonce # -1
               PROVE  run'[p].nonce # run'[q].nonce
    BY DEF NoncesDistinct
  <2>1. run[p].kind = "server" /\ run[p].nonce = run'[p].nonce /\ run[p].life = run'[p].life
    BY DEF NonceStays
  <2>2. CASE run'[q].nonce = -1
    BY <2>2
  <2>3. CASE run'[q].nonce # -1
    <3>1. run[q].kind = "server" /\ run[q].nonce = run'[q].nonce /\ run[q].life = run'[q].life
      BY <2>3 DEF NonceStays
    <3> QED
      BY <2>1, <3>1 DEF NoncesDistinct
  <2> QED
    BY <2>2, <2>3
<1>3. ASSUME NEW n \in Nat, NEW l, Covered(n, l) PROVE Covered(n, l)'
  <2>1. ASSUME NEW q \in Runs, run[q].kind = "server", run[q].nonce = n, run[q].life = l
        PROVE  run'[q].kind = "server" /\ run'[q].nonce = n /\ run'[q].life = l
    BY <2>1 DEF NonceStays
  <2> QED
    BY <1>3, <2>1 DEF Covered
<1>4. ASSUME NEW q \in Runs, run'[q].kind \in {"local", "server"}, run'[q].nonce # -1,
             NEW n \in Len(mined)..(run'[q].nonce - 1)
      PROVE  Covered(n, run[q].life)'
  <2>1. run[q].kind = run'[q].kind /\ run[q].nonce = run'[q].nonce /\ run[q].life = run'[q].life
    BY <1>4 DEF NonceStays
  <2>2. PICK l : l = run[q].life
    OBVIOUS
  <2>3. Covered(n, l) /\ n \in Nat
    BY <1>0, <1>4, <2>1, <2>2, RunFields DEF NoGaps
  <2>4. Covered(n, l)'
    BY <1>3, <2>3
  <2> QED
    BY <2>1, <2>2, <2>4 DEF Covered
<1>5. ASSUME NEW n \in Len(mined)..(manager.next - 1) PROVE Covered(n, life)'
  <2>1. PICK l : l = life
    OBVIOUS
  <2>2. Covered(n, l)'
    BY <1>0, <1>3, <1>5, <2>1 DEF NoGaps
  <2> QED
    BY <2>1, <2>2
<1>6. NoGaps'
  BY <1>4, <1>5 DEF NoGaps
<1> QED
  BY <1>1, <1>2, <1>6

(* A run that starts disturbs none of the others. *)
LEMMA FreshKeeps ==
  ASSUME IInv, NEW r \in Runs, run[r].pc = "idle", NEW y \in RunRecords, PlaceOK(y), KindOK(y),
         y.pc \in Unsigned \ {"idle"} \/ y = Nothing,
         y.kind = "server" => y.life = life,
         run' = [run EXCEPT ![r] = y],
         UNCHANGED <<mined, pool, credit, blobs, manager, life, evicted, faults>>,
         careless' \in BOOLEAN, careless => careless',
         ~careless' /\ y.kind \in {"local", "signed", "export"} =>
             \A q \in Attempts : ~Resolved(q) => run[q].tx = y.tx /\ y.tx # NoTx
  PROVE  IInv'
<1> USE DEF IInv
<1>1. run[r] = NoRun
  BY DEF RunsOK, PlaceOK
<1>2. run' \in [Runs -> RunRecords] /\ run'[r] = y /\ \A q \in Runs \ {r} : run'[q] = run[q]
  BY DEF Types
<1>3. y.nonce = -1 /\ y.report = "none" /\ y.pc # "verify"
  BY DEF PlaceOK, Unsigned, Nothing, NoRun
<1>4. Types'
  BY <1>2 DEF Types
<1>5. RunsOK'
  BY <1>2 DEF RunsOK
<1>6. ReportsOK'
  BY <1>2, <1>3 DEF ReportsOK, Backed, MinedAs
<1>7. run[r].nonce = -1 /\ run[r].kind = "none" /\ run[r].report = "none"
  BY <1>1 DEF NoRun
<1>8. ManagerAhead' /\ NoncesDistinct' /\ NoGaps'
  <2>1. \A q \in Runs : NonceStays(q)
    BY <1>2, <1>3, <1>7 DEF NonceStays
  <2> QED
    BY <1>4, <2>1, NoncesKeep
<1>9. \A q \in Attempts : q # r /\ q \in Attempts' /\ run'[q] = run[q]
  BY <1>2, <1>7 DEF Attempts
<1>10. ChainOK'
  <2>1. ASSUME NEW t, Out(t) PROVE Out(t)'
    BY <1>9, <2>1 DEF Out, Exposed
  <2>2. \A t \in blobs' \ StrayBlobs :
           \E q \in Runs : run'[q].kind = "export" /\ run'[q].pc = "done" /\ run'[q].tx = t
    BY <1>2, <1>7 DEF ChainOK
  <2>3. \A t \in pool' : t.by = "operator" /\ (t.call = "activate" => Out(t)')
    BY <2>1 DEF ChainOK
  <2>4. \A k \in 1..Len(mined') : mined'[k].ok /\ mined'[k].tx.call = "activate" => Out(mined[k].tx)'
    <3> SUFFICES ASSUME NEW k \in 1..Len(mined), mined[k].ok, mined[k].tx.call = "activate"
                 PROVE  Out(mined[k].tx)'
      OBVIOUS
    <3>1. PICK t : t = mined[k].tx
      OBVIOUS
    <3>2. Out(t)'
      BY <2>1, <3>1 DEF ChainOK
    <3> QED
      BY <3>1, <3>2
  <2> QED
    BY <2>2, <2>3, <2>4 DEF ChainOK
<1>11. \A q \in Attempts : Resolved(q) => Resolved(q)'
  BY <1>2, <1>7, <1>9 DEF Resolved, Exposed
<1>12. OneOpen'
  <2> SUFFICES ASSUME ~careless', NEW p \in Attempts', NEW q \in Attempts', p # q,
                      ~Resolved(p)', ~Resolved(q)'
               PROVE  run'[p].tx = run'[q].tx /\ run'[p].tx # NoTx
    BY DEF OneOpen
  <2>1. \A k \in Attempts' : k # r => k \in Attempts /\ run'[k] = run[k]
    BY <1>2 DEF Attempts
  <2>2. CASE p # r /\ q # r
    BY <1>11, <2>1, <2>2 DEF OneOpen
  <2>3. CASE p = r
    <3>1. y.kind \in {"local", "signed", "export"}
      BY <1>2, <2>3 DEF Attempts
    <3> QED
      BY <1>2, <1>11, <2>1, <2>3, <3>1
  <2>4. CASE q = r
    <3>1. y.kind \in {"local", "signed", "export"}
      BY <1>2, <2>4 DEF Attempts
    <3> QED
      BY <1>2, <1>11, <2>1, <2>4, <3>1
  <2> QED
    BY <2>2, <2>3, <2>4
<1> QED
  BY <1>4, <1>5, <1>6, <1>8, <1>10, <1>12

(* The start of a run keeps the invariant. *)
LEMMA StartKeeps ==
  ASSUME IInv, NEW r \in Runs,
         \/ \E s \in Settings, up \in BOOLEAN : \E t \in Inputs(Task(s)) : Start(r, s, t, up)
         \/ StartServer(r)
  PROVE  IInv'
<1> USE DEF IInv
<1>0. 0 \in 0..(MaxPolls - 1) /\ NoRun \in RunRecords /\ Nothing \in RunRecords /\ NoTx \in Txs
  BY Constants, PlaceholderTypes
<1>1. ASSUME NEW s \in Settings, NEW up \in BOOLEAN, NEW t \in Inputs(Task(s)), Start(r, s, t, up)
      PROVE  IInv'
  <2> DEFINE kind == Task(s)
             goes == ConfigLoads(s) /\ SignerBuilds(s) /\ Authorize(s.fee) /\ up
             starts == [NoRun EXCEPT !.pc = IF kind = "reconcile" THEN "lookup" ELSE "preflight",
                                     !.kind = kind, !.fee = s.fee, !.tx = t]
             y == IF goes THEN starts ELSE Nothing
             new == goes /\ kind \in {"local", "signed", "export"} /\
                      \E q \in Attempts : ~Resolved(q) /\ (kind # "signed" \/ run[q].tx # t)
  <2>1. /\ run[r].pc = "idle" /\ run' = [run EXCEPT ![r] = y] /\ careless' = (careless \/ new)
        /\ UNCHANGED <<mined, pool, credit, blobs, manager, life, evicted, faults>>
    BY <1>1 DEF Start, Arrives, chain
  <2>2. kind \in {"reconcile", "export", "dry", "local", "signed"}
    BY DEF Task
  <2>3. /\ t \in Txs
        /\ kind = "signed" => t # NoTx
        /\ kind \in {"local", "export", "dry"} => t = NoTx
    <3>1. blobs \subseteq Txs \ {NoTx}
      BY DEF Types
    <3>2. Known \subseteq Txs
      BY <3>1, RunFields DEF Known
    <3> QED
      BY <1>0, <2>2, <3>1, <3>2 DEF Inputs
  <2>4. s.fee \in Nat /\ (goes => s.fee <= PolicyMaxFee)
    BY Constants DEF Authorize, Evaluate, Intent
  <2>5. careless' \in BOOLEAN /\ (careless => careless')
    BY <2>1 DEF Types
  <2> HIDE DEF kind, goes, new
  <2>6. /\ starts \in RunRecords /\ starts.kind = kind /\ starts.fee = s.fee /\ starts.tx = t
        /\ starts.pc = (IF kind = "reconcile" THEN "lookup" ELSE "preflight")
        /\ starts.nonce = -1 /\ ~starts.sent /\ starts.report = "none" /\ starts.life = 0
    <3> DEFINE first == IF kind = "reconcile" THEN "lookup" ELSE "preflight"
    <3>0. first \in Places /\ kind \in Kinds
      BY <2>2 DEF Places, Unsigned, Kinds
    <3> HIDE DEF first
    <3>1. [NoRun EXCEPT !.pc = first, !.kind = kind, !.fee = s.fee, !.tx = t] \in RunRecords
      BY <1>0, <2>3, <2>4, <3>0 DEF RunRecords
    <3>2. starts \in RunRecords
      BY <3>1 DEF first
    <3> QED
      BY <3>2 DEF NoRun
  <2> HIDE DEF starts
  <2>7. PlaceOK(starts)
    BY <2>2, <2>6 DEF PlaceOK, Unsigned, Sending
  <2>8. goes => KindOK(starts)
    BY <2>2, <2>3, <2>4, <2>6 DEF KindOK, Unsigned
  <2>9. PlaceOK(Nothing) /\ KindOK(Nothing) /\ Nothing.kind = "none"
    BY DEF PlaceOK, KindOK, Nothing, NoRun, Unsigned, Sending
  <2>10. /\ y \in RunRecords /\ PlaceOK(y) /\ KindOK(y)
         /\ y.pc \in Unsigned \ {"idle"} \/ y = Nothing
         /\ y.kind # "server"
    BY <1>0, <2>2, <2>6, <2>7, <2>8, <2>9 DEF Unsigned
  <2>11. ASSUME ~careless', y.kind \in {"local", "signed", "export"}, NEW q \in Attempts, ~Resolved(q)
         PROVE  run[q].tx = y.tx /\ y.tx # NoTx
    <3>1. goes /\ y = starts
      BY <2>9, <2>11
    <3>2. ~new
      BY <2>1, <2>11 DEF Types
    <3>3. kind = "signed" /\ run[q].tx = t
      BY <2>6, <2>11, <3>1, <3>2 DEF new
    <3> QED
      BY <2>3, <2>6, <3>1, <3>3
  <2> HIDE DEF y
  <2> QED
    BY <2>1, <2>5, <2>10, <2>11, FreshKeeps
<1>2. ASSUME StartServer(r) PROVE IInv'
  <2> DEFINE y == [NoRun EXCEPT !.pc = "sign", !.kind = "server", !.life = life]
  <2>1. /\ run[r].pc = "idle" /\ run' = [run EXCEPT ![r] = y]
        /\ UNCHANGED <<mined, pool, credit, blobs, manager, life, careless, evicted, faults>>
    BY <1>2 DEF StartServer, Arrives, OnlyRun, chain
  <2>2. life \in Nat /\ life # 0 /\ careless \in BOOLEAN
    BY DEF Types
  <2>3. /\ y \in RunRecords /\ y.kind = "server" /\ y.pc = "sign" /\ y.life = life /\ y.nonce = -1
        /\ ~y.sent /\ y.report = "none" /\ y.tx = NoTx
    <3>1. y \in RunRecords
      BY <1>0, <2>2 DEF RunRecords, Places, Unsigned, Kinds
    <3> QED
      BY <3>1 DEF NoRun
  <2> HIDE DEF y
  <2>4. PlaceOK(y) /\ KindOK(y) /\ y.pc \in Unsigned \ {"idle"}
    BY <2>2, <2>3 DEF PlaceOK, KindOK, Unsigned, Sending
  <2> QED
    BY <2>1, <2>2, <2>3, <2>4, FreshKeeps
<1> QED
  BY <1>1, <1>2

(* A run that exports, signs or sends takes its transaction along, or had    *)
(* none, and no other attempt was open then.                                 *)
LEMMA ProgressKeeps ==
  ASSUME IInv, NEW r \in Runs, run[r].pc \in {"export", "sign", "send"},
         NEW y \in RunRecords, PlaceOK(y), KindOK(y), Backed(y),
         y.kind = run[r].kind, y.tx = run[r].tx \/ run[r].tx = NoTx,
         run' = [run EXCEPT ![r] = y],
         UNCHANGED <<mined, blobs, careless>>
  PROVE  /\ RunsOK' /\ ReportsOK' /\ OneOpen'
         /\ \A t \in Txs : t.call = "activate" /\ Out(t) => Out(t)'
         /\ \A t \in blobs \ StrayBlobs :
              \E q \in Runs : run'[q].kind = "export" /\ run'[q].pc = "done" /\ run'[q].tx = t
<1> USE DEF IInv
<1>1. run'[r] = y /\ \A q \in Runs \ {r} : run'[q] = run[q]
  BY DEF Types
<1>2. RunsOK'
  BY <1>1 DEF RunsOK
<1>3. ReportsOK'
  <2>1. \A q \in Runs : Backed(run'[q])
    BY <1>1 DEF ReportsOK
  <2> QED
    BY <2>1 DEF ReportsOK, Backed, MinedAs
<1>4. /\ run[r].report = "none" /\ ~run[r].sent /\ run[r].pc \notin Ended
      /\ run[r].kind = "export" => run[r].tx = NoTx
  BY DEF RunsOK, PlaceOK, KindOK, Unsigned, Ended
<1>5. Attempts' = Attempts
  BY <1>1 DEF Attempts
<1>6. ASSUME NEW q \in Attempts, Resolved(q) PROVE Resolved(q)'
  <2>1. q \in Runs /\ q # r
    BY <1>4, <1>6 DEF Attempts, Resolved
  <2>2. Exposed(q)' <=> Exposed(q)
    BY <1>1, <2>1 DEF Exposed
  <2>3. \A k \in Runs : run[k].report = "FAILED" => run'[k] = run[k]
    BY <1>1, <1>4
  <2> QED
    BY <1>1, <1>6, <2>1, <2>2, <2>3 DEF Resolved
<1>7. OneOpen'
  <2> SUFFICES ASSUME ~careless, NEW p \in Attempts, NEW q \in Attempts, p # q,
                      ~Resolved(p)', ~Resolved(q)'
               PROVE  run'[p].tx = run'[q].tx /\ run'[p].tx # NoTx
    BY <1>5 DEF OneOpen
  <2>1. run[p].tx = run[q].tx /\ run[p].tx # NoTx
    BY <1>6 DEF OneOpen
  <2>2. p \in Runs /\ q \in Runs
    BY DEF Attempts
  <2>3. run'[p].tx = run[p].tx /\ run'[q].tx = run[q].tx
    BY <1>1, <2>1, <2>2
  <2> QED
    BY <2>1, <2>3
<1>8. ASSUME NEW t \in Txs, t.call = "activate", Out(t) PROVE Out(t)'
  <2>1. PICK q \in Attempts : Exposed(q) /\ run[q].tx = t
    BY <1>8 DEF Out
  <2>2. q # r
    BY <1>4, <1>8, <2>1 DEF Exposed, Ended, NoTx
  <2>3. q \in Runs /\ run'[q] = run[q]
    BY <1>1, <2>1, <2>2 DEF Attempts
  <2> QED
    BY <1>5, <2>1, <2>3 DEF Out, Exposed
<1>9. \A t \in blobs \ StrayBlobs :
         \E q \in Runs : run'[q].kind = "export" /\ run'[q].pc = "done" /\ run'[q].tx = t
  BY <1>1, <1>4 DEF ChainOK, Ended
<1> QED
  BY <1>2, <1>3, <1>7, <1>8, <1>9

(* What ChainOK needs of such a step. *)
LEMMA ChainStays ==
  ASSUME IInv, UNCHANGED <<mined, blobs>>,
         \A t \in Txs : t.call = "activate" /\ Out(t) => Out(t)',
         \A t \in blobs \ StrayBlobs :
           \E q \in Runs : run'[q].kind = "export" /\ run'[q].pc = "done" /\ run'[q].tx = t,
         \A t \in pool' : t \in pool \/ (t.by = "operator" /\ (t.call = "activate" => Out(t)'))
  PROVE  ChainOK'
<1> USE DEF IInv
<1>1. ASSUME NEW t \in pool' PROVE t.by = "operator" /\ (t.call = "activate" => Out(t)')
  <2>1. CASE t \in pool
    <3>1. t \in Txs /\ t.by = "operator" /\ (t.call = "activate" => Out(t))
      BY <2>1 DEF ChainOK, Types
    <3> QED
      BY <3>1
  <2> QED
    BY <1>1, <2>1
<1>2. ASSUME NEW k \in 1..Len(mined), mined[k].ok, mined[k].tx.call = "activate"
      PROVE  Out(mined[k].tx)'
  <2>1. PICK t \in Txs : t = mined[k].tx
    BY MinedFields
  <2>2. Out(t)'
    BY <1>2, <2>1 DEF ChainOK
  <2> QED
    BY <2>1, <2>2
<1> QED
  BY <1>1, <1>2 DEF ChainOK

(* The export of a payload keeps the invariant. *)
LEMMA ExportKeeps ==
  ASSUME IInv, NEW r \in Runs, NEW n \in PendingCounts, Export(r, n)
  PROVE  IInv'
<1> USE DEF IInv
<1> DEFINE x == run[r]
           t == [by |-> "operator", nonce |-> n, call |-> "activate", to |-> 0, fee |-> run[r].fee]
           y == [x EXCEPT !.pc = "done", !.nonce = n, !.tx = t]
<1>1. n \in Nat
  BY FirstFreeIs, ChainLength DEF PendingCounts
<1>2. x \in RunRecords /\ PlaceOK(x) /\ KindOK(x) /\ x.fee \in Nat
  BY RunFields DEF RunsOK
<1>3. /\ x.pc = "export" /\ run' = [run EXCEPT ![r] = y]
      /\ UNCHANGED <<mined, pool, credit, blobs, manager, life, careless, evicted, faults>>
  BY DEF Export, OnlyRun, chain
<1>4. x.kind = "export" /\ x.tx = NoTx /\ x.report = "none" /\ ~x.sent /\ x.nonce = -1
  BY <1>2, <1>3 DEF PlaceOK, KindOK, Unsigned
<1>5. t \in Txs
  BY <1>1, <1>2, Constants DEF Txs
<1>6. t.by = "operator" /\ t.call = "activate"
  OBVIOUS
<1>x. x = run[r]
  OBVIOUS
<1> HIDE DEF x, t
<1>7. /\ y \in RunRecords /\ y.pc = "done" /\ y.kind = x.kind /\ y.tx = t /\ y.nonce = n
      /\ y.report = x.report /\ y.sent = x.sent /\ y.life = x.life /\ y.fee = x.fee
  BY <1>1, <1>2, <1>5 DEF RunRecords, Places
<1> HIDE DEF y
<1>8. PlaceOK(y) /\ Backed(y)
  BY <1>4, <1>7 DEF PlaceOK, Backed, Unsigned, Sending
<1>9. KindOK(y)
  BY <1>2, <1>4, <1>6, <1>7 DEF KindOK
<1>10. /\ RunsOK' /\ ReportsOK' /\ OneOpen'
       /\ \A u \in Txs : u.call = "activate" /\ Out(u) => Out(u)'
       /\ \A u \in blobs \ StrayBlobs :
            \E q \in Runs : run'[q].kind = "export" /\ run'[q].pc = "done" /\ run'[q].tx = u
  BY <1>x, <1>3, <1>4, <1>7, <1>8, <1>9, ProgressKeeps
<1>11. run' \in [Runs -> RunRecords] /\ run'[r] = y /\ \A q \in Runs \ {r} : run'[q] = run[q]
  BY <1>3, <1>7 DEF Types
<1>12. Types'
  BY <1>3, <1>11 DEF Types
<1>13. ChainOK'
  BY <1>3, <1>10, ChainStays
<1>14. \A q \in Runs : NonceStays(q)
  BY <1>x, <1>4, <1>7, <1>11 DEF NonceStays
<1>15. ManagerAhead' /\ NoncesDistinct' /\ NoGaps'
  BY <1>3, <1>12, <1>14, NoncesKeep
<1> QED
  BY <1>10, <1>12, <1>13, <1>15

(* The broadcast keeps the invariant, whatever the node did with it. *)
LEMMA BroadcastKeeps ==
  ASSUME IInv, NEW r \in Runs, NEW taken \in BOOLEAN, NEW answered \in BOOLEAN,
         Broadcast(r, taken, answered)
  PROVE  IInv'
<1> USE DEF IInv
<1> DEFINE x == run[r]
           y == IF answered THEN [x EXCEPT !.pc = "receipt", !.sent = TRUE]
                ELSE [Unknown(r) EXCEPT !.sent = TRUE]
           rep == IF x.kind = "server" THEN "TIMEOUT" ELSE "UNKNOWN_PENDING"
<1>0. 0 \in 0..(MaxPolls - 1)
  BY Constants
<1>1. x \in RunRecords /\ PlaceOK(x) /\ KindOK(x) /\ x.tx \in Txs
  BY RunFields DEF RunsOK
<1>2. /\ x.pc = "send" /\ run' = [run EXCEPT ![r] = y]
      /\ pool' = IF taken THEN WithTx(x.tx) ELSE pool
      /\ UNCHANGED <<mined, credit, blobs, manager, life, careless, evicted, faults>>
  BY DEF Broadcast
<1>3. x.kind \in {"local", "signed", "server"} /\ x.report = "none" /\ ~x.sent
  BY <1>1, <1>2 DEF PlaceOK, Sending
<1>4. Unknown(r) = [x EXCEPT !.pc = "done", !.report = rep, !.polls = 0]
  BY DEF Unknown, Finished
<1>5. rep \in {"TIMEOUT", "UNKNOWN_PENDING"}
  OBVIOUS
<1>x. x = run[r]
  OBVIOUS
<1> HIDE DEF x, rep
<1>6. /\ y \in RunRecords /\ y.kind = x.kind /\ y.tx = x.tx /\ y.nonce = x.nonce
      /\ y.sent = TRUE /\ y.life = x.life /\ y.fee = x.fee
      /\ \/ y.pc = "receipt" /\ y.report = "none"
         \/ y.pc = "done" /\ y.report \in {"TIMEOUT", "UNKNOWN_PENDING"}
  <2>1. CASE answered
    BY <1>1, <1>3, <2>1 DEF RunRecords, Places, Sending
  <2>2. CASE ~answered
    <3>1. Unknown(r) \in RunRecords
      BY <1>0, <1>1, <1>4, <1>5 DEF RunRecords, Places, Reports
    <3> QED
      BY <1>0, <1>1, <1>4, <1>5, <2>2, <3>1 DEF RunRecords, Places, Reports
  <2> QED
    BY <2>1, <2>2
<1> HIDE DEF y
<1>7. PlaceOK(y) /\ Backed(y)
  BY <1>3, <1>6 DEF PlaceOK, Backed, Unsigned, Sending
<1>8. KindOK(y)
  <2>1. x.pc \notin Unsigned /\ y.pc \notin Unsigned /\ x.pc \notin {"sign", "dead"}
    BY <1>2, <1>6 DEF Unsigned
  <2> QED
    BY <1>1, <1>3, <1>6, <2>1 DEF KindOK
<1>9. /\ RunsOK' /\ ReportsOK' /\ OneOpen'
      /\ \A u \in Txs : u.call = "activate" /\ Out(u) => Out(u)'
      /\ \A u \in blobs \ StrayBlobs :
           \E q \in Runs : run'[q].kind = "export" /\ run'[q].pc = "done" /\ run'[q].tx = u
  BY <1>x, <1>2, <1>6, <1>7, <1>8, ProgressKeeps
<1>10. run' \in [Runs -> RunRecords] /\ run'[r] = y /\ \A q \in Runs \ {r} : run'[q] = run[q]
  BY <1>2, <1>6 DEF Types
<1>11. Types'
  BY <1>1, <1>2, <1>10, PoolWithTx DEF Types
<1>12. ChainOK'
  <2>1. x.tx.by = "operator"
    BY <1>1, <1>2, <1>3 DEF KindOK, Unsigned
  <2>3. \A u \in pool' : u \in pool \/ u = x.tx
    BY <1>2 DEF WithTx
  <2>4. ASSUME NEW u \in pool' PROVE u \in pool \/ (u.by = "operator" /\ (u.call = "activate" => Out(u)'))
    <3>1. CASE u = x.tx
      <4>1. u.call = "activate" => y.kind \in {"local", "signed"}
        BY <1>1, <1>2, <1>3, <1>6, <3>1 DEF KindOK
      <4>2. u.call = "activate" => Out(u)'
        BY <1>6, <1>10, <3>1, <4>1 DEF Out, Attempts, Exposed
      <4> QED
        BY <2>1, <3>1, <4>2
    <3> QED
      BY <2>3, <3>1
  <2> QED
    BY <1>2, <1>9, <2>4, ChainStays
<1>13. \A q \in Runs : NonceStays(q)
  BY <1>x, <1>2, <1>6, <1>10 DEF NonceStays, Ended
<1>14. \A n : (\E u \in pool : u.nonce = n) => \E u \in pool' : u.nonce = n
  BY <1>1, <1>2, PoolWithTx
<1>15. ManagerAhead' /\ NoncesDistinct' /\ NoGaps'
  BY <1>2, <1>11, <1>13, <1>14, NoncesKeep
<1> QED
  BY <1>9, <1>11, <1>12, <1>15

(* What the NonceManager allocates to a run it does not know. *)
LEMMA AllocateIs ==
  ASSUME NEW m, m.next \in Nat, NEW r, \A a \in m.assigned : a.run # r, NEW n \in Nat
  PROVE  LET k == IF n >= m.next THEN n ELSE m.next
             a == Allocate(m, r, n)
         IN  /\ a.nonce = k /\ a.next = k + 1
             /\ a.assigned = m.assigned \cup {[run |-> r, nonce |-> k]}
<1>1. Max({n, m.next}) = IF n >= m.next THEN n ELSE m.next
  BY MaxPair
<1> QED
  BY <1>1 DEF Allocate

(* The signature keeps the invariant: the local key's nonce is a free one of *)
(* the node, the server's the larger of that and the manager's next.         *)
LEMMA SignKeeps ==
  ASSUME IInv, NEW r \in Runs, NEW n \in PendingCounts, Sign(r, n)
  PROVE  IInv'
<1> USE DEF IInv
<1> DEFINE x == run[r]
           m == IF run[r].kind = "server" THEN manager ELSE NoNonces
           a == Allocate(m, r, n)
           k == IF n >= m.next THEN n ELSE m.next
           y == [x EXCEPT !.pc = "send", !.nonce = a.nonce, !.tx = SignedTx(r, a.nonce)]
<1>1. /\ n \in Nat /\ n <= FirstFree /\ FirstFree \in Nat /\ Len(mined) \in Nat
      /\ manager.next \in Nat /\ life \in Nat
  BY FirstFreeIs, ChainLength DEF PendingCounts, Types
<1>2. x \in RunRecords /\ PlaceOK(x) /\ KindOK(x) /\ x.tx \in Txs /\ x.fee \in Nat
  BY RunFields DEF RunsOK
<1>3. /\ x.pc = "sign" /\ run' = [run EXCEPT ![r] = IF Signs(r) THEN y ELSE Refused(r)]
      /\ manager' = IF x.kind = "server" THEN [next |-> a.next, assigned |-> a.assigned] ELSE manager
      /\ UNCHANGED <<mined, pool, credit, blobs, life, careless, evicted, faults>>
  BY DEF Sign, chain
<1>4. x.kind \in {"local", "signed", "server"} /\ x.report = "none" /\ ~x.sent /\ x.nonce = -1
  BY <1>2, <1>3 DEF PlaceOK, Unsigned
<1>5. CASE ~Signs(r)
  <2>1. x.kind = "signed"
    BY <1>5 DEF Signs
  <2>2. Allowed(run[r], Refused(r))
    BY <1>3, MayRefuse DEF Places, Unsigned
  <2>3. manager' = manager /\ run' = [run EXCEPT ![r] = Refused(r)] /\ faults' \in 0..MaxFaults
    BY <1>3, <1>5, <2>1 DEF Types
  <2>4. Ordinary(r)
    BY <1>3, <2>2, <2>3 DEF Ordinary
  <2> QED
    BY <2>4, OrdinaryKeeps
<1>6. CASE Signs(r)
  <2>1. m.next \in Nat /\ \A e \in m.assigned : e.run # r
    BY <1>1, <1>4 DEF NoNonces, ManagerAhead
  <2>2. a.nonce = k /\ a.next = k + 1 /\ a.assigned = m.assigned \cup {[run |-> r, nonce |-> k]}
    <3> HIDE DEF m
    <3> QED
      BY <1>1, <2>1, AllocateIs
  <2>3. k \in Nat /\ k >= n /\ k >= m.next /\ (k = n \/ k = m.next)
    BY <1>1, <2>1
  <2>4. x.kind # "server" => m.next = 0 /\ k = n
    BY <1>1, <2>3 DEF NoNonces
  <2>5. x.kind = "server" => m = manager
    OBVIOUS
  <2>x. x = run[r]
    OBVIOUS
  <2>6. /\ SignedTx(r, k) \in Txs /\ (x.kind = "signed" => SignedTx(r, k) = x.tx)
        /\ SignedTx(r, k).by = "operator"
        /\ x.kind = "local" => SignedTx(r, k) = [by |-> "operator", nonce |-> k, call |-> "activate",
                                                 to |-> 0, fee |-> x.fee]
        /\ x.kind = "server" => SignedTx(r, k).call = "transfer" /\ SignedTx(r, k).nonce = k
    <3>1. r \in 0..MaxRuns /\ 0 \in 0..MaxRuns
      BY Constants DEF Runs
    <3>2. CASE x.kind = "local"
      BY <1>2, <2>3, <3>1, <3>2 DEF SignedTx, Txs
    <3>3. CASE x.kind = "server"
      BY <2>3, <3>1, <3>3 DEF SignedTx, Txs
    <3>4. CASE x.kind = "signed"
      BY <1>2, <1>6, <3>4 DEF SignedTx, Signs
    <3> QED
      BY <1>4, <3>2, <3>3, <3>4
  <2> HIDE DEF x, m, a, k
  <2>7. /\ y \in RunRecords /\ y.pc = "send" /\ y.kind = x.kind /\ y.nonce = k /\ y.tx = SignedTx(r, k)
        /\ y.sent = x.sent /\ y.report = x.report /\ y.life = x.life /\ y.fee = x.fee
    BY <1>2, <2>2, <2>3, <2>6 DEF RunRecords, Places, Sending
  <2>8. run' = [run EXCEPT ![r] = y]
    BY <1>3, <1>6
  <2> HIDE DEF y
  <2>9. PlaceOK(y) /\ Backed(y)
    BY <1>4, <2>7 DEF PlaceOK, Backed, Unsigned, Sending
  <2>10. KindOK(y)
    BY <1>2, <1>4, <2>3, <2>6, <2>7 DEF KindOK, Unsigned
  <2>11. y.tx = x.tx \/ x.tx = NoTx
    BY <1>2, <1>3, <1>4, <2>6, <2>7 DEF KindOK, Unsigned
  <2>12. /\ RunsOK' /\ ReportsOK' /\ OneOpen'
         /\ \A u \in Txs : u.call = "activate" /\ Out(u) => Out(u)'
         /\ \A u \in blobs \ StrayBlobs :
              \E q \in Runs : run'[q].kind = "export" /\ run'[q].pc = "done" /\ run'[q].tx = u
    BY <2>x, <1>3, <2>7, <2>8, <2>9, <2>10, <2>11, ProgressKeeps
  <2>13. run' \in [Runs -> RunRecords] /\ run'[r] = y /\ \A q \in Runs \ {r} : run'[q] = run[q]
    BY <2>7, <2>8 DEF Types
  <2>14. manager'.next = IF x.kind = "server" THEN k + 1 ELSE manager.next
    BY <1>3, <2>2
  <2>15. manager'.assigned = IF x.kind = "server" THEN manager.assigned \cup {[run |-> r, nonce |-> k]}
                             ELSE manager.assigned
    BY <1>3, <2>2, <2>5
  <2>16. manager' \in [next : Nat, assigned : SUBSET [run : Runs, nonce : Nat]]
    <3>1. CASE x.kind = "server"
      <4>1. manager.assigned \cup {[run |-> r, nonce |-> k]} \in SUBSET [run : Runs, nonce : Nat]
        BY <2>3 DEF Types
      <4> QED
        BY <1>3, <2>2, <2>3, <2>5, <3>1, <4>1
    <3>2. CASE x.kind # "server"
      BY <1>3, <3>2 DEF Types
    <3> QED
      BY <3>1, <3>2
  <2>17. Types'
    BY <1>3, <2>13, <2>16 DEF Types
  <2>18. ChainOK'
    BY <1>3, <2>12, ChainStays
  <2>19. x.kind = "server" => x.life = life /\ k >= manager.next
    BY <2>x, <1>3, <2>3, <2>5 DEF ManagerAhead, Ended
  <2>20. ManagerAhead'
    <3>1. ASSUME NEW q \in Runs, run'[q].kind = "server"
          PROVE  /\ run'[q].life <= life
                 /\ run'[q].pc \notin Ended => run'[q].life = life
                 /\ run'[q].life = life => run'[q].nonce < manager'.next
      <4>1. CASE q = r
        BY <1>1, <2>3, <2>7, <2>13, <2>14, <2>19, <3>1, <4>1
      <4>2. CASE q # r
        <5>1. run'[q] = run[q] /\ run[q].nonce \in Int
          BY <2>13, <4>2, RunFields
        <5>2. manager.next <= manager'.next
          BY <1>1, <2>3, <2>14, <2>19
        <5> QED
          BY <1>1, <2>3, <2>14, <3>1, <5>1, <5>2 DEF ManagerAhead
      <4> QED
        BY <4>1, <4>2
    <3>2. ASSUME NEW e \in manager'.assigned PROVE run'[e.run].nonce # -1
      <4>1. CASE e.run = r
        BY <2>3, <2>7, <2>13, <4>1
      <4>2. CASE e.run # r
        <5>1. e \in manager.assigned
          BY <2>15, <4>2
        <5>2. e.run \in Runs
          BY <5>1 DEF Types
        <5> QED
          BY <2>13, <4>2, <5>1, <5>2 DEF ManagerAhead
      <4> QED
        BY <4>1, <4>2
    <3> QED
      BY <1>3, <3>1, <3>2 DEF ManagerAhead
  <2>21. NoncesDistinct'
    <3> SUFFICES ASSUME NEW p \in Runs, NEW q \in Runs, p # q, run'[p].kind = "server",
                        run'[q].kind = "server", run'[p].life = run'[q].life, run'[p].nonce # -1
                 PROVE  run'[p].nonce # run'[q].nonce
      BY DEF NoncesDistinct
    <3>1. ASSUME NEW w \in Runs, w # r, run'[w].kind = "server", x.kind = "server",
                 run'[w].life = run'[r].life
          PROVE  run'[w].nonce # k
      <4>1. run'[w] = run[w] /\ run[w].nonce \in Int /\ run[w].life = life
        BY <2>7, <2>13, <2>19, <3>1, RunFields
      <4>2. run[w].nonce < manager.next
        BY <3>1, <4>1 DEF ManagerAhead
      <4> QED
        BY <1>1, <2>3, <2>19, <3>1, <4>1, <4>2
    <3>2. CASE p = r
      BY <2>7, <2>13, <3>1, <3>2
    <3>3. CASE q = r
      BY <2>7, <2>13, <3>1, <3>3
    <3>4. CASE p # r /\ q # r
      BY <2>13, <3>4 DEF NoncesDistinct
    <3> QED
      BY <3>2, <3>3, <3>4
  <2>22. ASSUME NEW i \in Nat, NEW l, Covered(i, l) PROVE Covered(i, l)'
    <3>1. \A q \in Runs : run[q].nonce = i => q # r
      BY <2>x, <1>4
    <3> QED
      BY <1>3, <2>13, <2>22, <3>1 DEF Covered
  <2>23. ASSUME x.kind \in {"local", "server"}, NEW i \in Len(mined)..(k - 1) PROVE Covered(i, x.life)
    <3>1. i \in Nat /\ i < k /\ i >= Len(mined)
      BY <1>1, <2>3
    <3>2. CASE i < n
      <4>1. i \in Len(mined)..(FirstFree - 1)
        BY <1>1, <3>1, <3>2
      <4> QED
        BY <4>1, FirstFreeIs DEF Covered
    <3>3. CASE ~(i < n)
      <4>1. x.kind = "server" /\ k = manager.next /\ x.life = life
        BY <1>1, <2>3, <2>4, <2>5, <2>19, <2>23, <3>1, <3>3
      <4>2. i \in Len(mined)..(manager.next - 1)
        BY <4>1
      <4>3. Covered(i, life)
        BY <4>2 DEF NoGaps
      <4> QED
        BY <4>1, <4>3
    <3> QED
      BY <3>2, <3>3
  <2>24. NoGaps'
    <3>1. ASSUME NEW q \in Runs, run'[q].kind \in {"local", "server"}, run'[q].nonce # -1,
                 NEW i \in Len(mined)..(run'[q].nonce - 1)
          PROVE  Covered(i, run[q].life)'
      <4>1. PICK l : l = run[q].life
        OBVIOUS
      <4>2. run'[q].life = l /\ run'[q].kind = run[q].kind
        BY <2>x, <2>7, <2>13, <4>1
      <4>3. run'[q].nonce \in Int /\ i \in Nat
        BY <1>1, <2>13, <3>1 DEF RunRecords
      <4>4. Covered(i, l)
        <5>1. CASE q = r
          BY <2>x, <2>7, <2>13, <2>23, <3>1, <4>1, <4>2, <5>1
        <5>2. CASE q # r
          BY <2>13, <3>1, <4>1, <5>2 DEF NoGaps
        <5> QED
          BY <5>1, <5>2
      <4>5. Covered(i, l)'
        BY <2>22, <4>3, <4>4
      <4> QED
        BY <4>2, <4>5 DEF Covered
    <3>2. ASSUME NEW i \in Len(mined)..(manager'.next - 1) PROVE Covered(i, life)'
      <4>1. PICK l : l = life
        OBVIOUS
      <4>2. CASE x.kind # "server"
        <5>1. Covered(i, l) /\ i \in Nat
          BY <1>1, <2>14, <3>2, <4>1, <4>2 DEF NoGaps
        <5>2. Covered(i, l)'
          BY <2>22, <5>1
        <5> QED
          BY <1>3, <4>1, <5>2 DEF Covered
      <4>3. CASE x.kind = "server"
        <5>1. i \in Nat /\ i >= Len(mined) /\ i <= k
          BY <1>1, <2>3, <2>14, <3>2, <4>3
        <5>2. x.life = l
          BY <2>19, <4>1, <4>3
        <5>3. CASE i = k
          <6>1. run'[r].kind = "server" /\ run'[r].nonce = i /\ run'[r].life = life'
            BY <1>3, <2>7, <2>13, <4>1, <4>3, <5>2, <5>3
          <6> QED
            BY <6>1 DEF Covered
        <5>4. CASE i # k
          <6>1. i \in Len(mined)..(k - 1)
            BY <1>1, <2>3, <5>1, <5>4
          <6>2. Covered(i, l)
            BY <2>23, <4>3, <5>2, <6>1
          <6>3. Covered(i, l)'
            BY <2>22, <5>1, <6>2
          <6> QED
            BY <1>3, <4>1, <6>3 DEF Covered
        <5> QED
          BY <5>3, <5>4
      <4> QED
        BY <4>2, <4>3
    <3> QED
      BY <1>3, <3>1, <3>2 DEF NoGaps
  <2> QED
    BY <2>12, <2>17, <2>18, <2>20, <2>21, <2>24
<1> QED
  BY <1>5, <1>6

(* A restart of the server keeps the invariant: the new manager knows no     *)
(* nonce, and no run of the new life has one.                                *)
LEMMA RestartKeeps ==
  ASSUME IInv, RestartServer
  PROVE  IInv'
<1> USE DEF IInv
<1>1. /\ UNCHANGED <<mined, pool, credit, blobs, careless, evicted>>
      /\ life' = life + 1 /\ manager' = NoNonces /\ faults' = faults + 1 /\ faults < MaxFaults
      /\ run' = [r \in Runs |-> IF run[r].kind = "server" /\ r \in Live
                                THEN [run[r] EXCEPT !.pc = "dead"] ELSE run[r]]
  BY DEF RestartServer, chain
<1>2. life \in Nat /\ life # 0 /\ Len(mined) \in Nat /\ faults' \in 0..MaxFaults
  BY SMTT(30), <1>1, ChainLength, Constants DEF Types
<1>3. ASSUME NEW r \in Runs
      PROVE  /\ run'[r] \in RunRecords
             /\ run'[r].kind = run[r].kind /\ run'[r].nonce = run[r].nonce /\ run'[r].tx = run[r].tx
             /\ run'[r].life = run[r].life /\ run'[r].report = run[r].report
             /\ run'[r].sent = run[r].sent /\ run'[r].fee = run[r].fee
             /\ run'[r] = run[r] \/ (run'[r].pc = "dead" /\ run[r].kind = "server" /\ run[r].pc \notin Ended)
             /\ run'[r].kind = "server" => run'[r].pc \in Ended
  <2>1. run[r] \in RunRecords
    BY RunFields
  <2>2. CASE run[r].kind = "server" /\ r \in Live
    <3>1. run'[r] = [run[r] EXCEPT !.pc = "dead"] /\ run[r].pc \notin Ended
      BY <1>1, <2>2 DEF Live
    <3> QED
      BY <2>1, <2>2, <3>1 DEF RunRecords, Places, Ended
  <2>3. CASE ~(run[r].kind = "server" /\ r \in Live)
    <3>1. run'[r] = run[r]
      BY <1>1, <2>3
    <3> QED
      BY <2>1, <2>3, <3>1 DEF Live
  <2> QED
    BY <2>2, <2>3
<1>4. Types'
  <2>1. run' \in [Runs -> RunRecords]
    BY <1>1, <1>3
  <2> QED
    BY <1>1, <1>2, <2>1, PlaceholderTypes DEF Types
<1>5. RunsOK'
  <2> SUFFICES ASSUME NEW r \in Runs PROVE PlaceOK(run'[r]) /\ KindOK(run'[r])
    BY DEF RunsOK
  <2>0. PlaceOK(run[r]) /\ KindOK(run[r])
    BY DEF RunsOK
  <2>1. CASE run'[r] = run[r]
    BY <2>0, <2>1
  <2>2. CASE run'[r].pc = "dead" /\ run[r].kind = "server" /\ run[r].pc \notin Ended
    <3>1. run[r].report = "none"
      BY <2>0, <2>2 DEF PlaceOK, Ended
    <3>2. PlaceOK(run'[r])
      BY <1>3, <2>2, <3>1 DEF PlaceOK, Unsigned, Sending
    <3>3. KindOK(run'[r])
      BY <1>3, <2>0, <2>2 DEF KindOK
    <3> QED
      BY <3>2, <3>3
  <2> QED
    BY <1>3, <2>1, <2>2
<1>6. ReportsOK'
  <2> SUFFICES ASSUME NEW r \in Runs PROVE Backed(run'[r])
    BY <1>1 DEF ReportsOK, Backed, MinedAs
  <2>1. Backed(run[r])
    BY DEF ReportsOK
  <2> QED
    BY <1>3, <2>1 DEF Backed
<1>7. Attempts' = Attempts /\ \A q \in Attempts : run'[q] = run[q]
  BY <1>3 DEF Attempts
<1>8. \A q \in Attempts : (Exposed(q)' <=> Exposed(q)) /\ (Resolved(q)' <=> Resolved(q))
  BY <1>3, <1>7 DEF Exposed, Resolved
<1>9. OneOpen'
  <2> SUFFICES ASSUME ~careless, NEW p \in Attempts, NEW q \in Attempts, p # q,
                      ~Resolved(p)', ~Resolved(q)'
               PROVE  run'[p].tx = run'[q].tx /\ run'[p].tx # NoTx
    BY <1>1, <1>7 DEF OneOpen
  <2> QED
    BY <1>7, <1>8 DEF OneOpen
<1>10. ChainOK'
  <2>1. \A u \in Txs : Out(u) => Out(u)'
    BY <1>7, <1>8 DEF Out
  <2>2. \A u \in blobs \ StrayBlobs :
           \E q \in Runs : run'[q].kind = "export" /\ run'[q].pc = "done" /\ run'[q].tx = u
    BY <1>3 DEF ChainOK
  <2> QED
    BY <1>1, <2>1, <2>2, ChainStays
<1>11. ManagerAhead' /\ NoncesDistinct'
  <2>1. \A r \in Runs : run'[r].kind = "server" => run'[r].life <= life' /\ run'[r].life # life'
    BY <1>1, <1>2, <1>3, RunFields DEF ManagerAhead
  <2>2. ManagerAhead'
    BY <1>1, <1>3, <2>1 DEF ManagerAhead, NoNonces
  <2>3. NoncesDistinct'
    BY <1>3 DEF NoncesDistinct
  <2> QED
    BY <2>2, <2>3
<1>12. NoGaps'
  <2>1. ASSUME NEW n, NEW l, Covered(n, l) PROVE Covered(n, l)'
    BY <1>1, <1>3, <2>1 DEF Covered
  <2>2. ASSUME NEW q \in Runs, run'[q].kind \in {"local", "server"}, run'[q].nonce # -1,
               NEW n \in Len(mined)..(run'[q].nonce - 1)
        PROVE  Covered(n, run[q].life)'
    <3>1. PICK l : l = run[q].life
      OBVIOUS
    <3>2. Covered(n, l)
      BY <1>3, <2>2, <3>1 DEF NoGaps
    <3>3. Covered(n, l)'
      BY <2>1, <3>2
    <3> QED
      BY <1>3, <3>1, <3>3 DEF Covered
  <2>3. manager'.next = 0 /\ Len(mined)..(0 - 1) = {}
    BY <1>1, <1>2 DEF NoNonces
  <2> QED
    BY <1>1, <2>2, <2>3 DEF NoGaps
<1> QED
  BY <1>4, <1>5, <1>6, <1>9, <1>10, <1>11, <1>12

-----------------------------------------------------------------------------
(* The theorems. *)

(* The invariant holds when the server starts and nothing is on the chain,   *)
(* and every step of a run, the chain, the wallet or the server keeps it.    *)
THEOREM ActivationInvariant == Spec => []IInv
<1>1. Init => IInv
  <2> SUFFICES ASSUME Init PROVE IInv
    OBVIOUS
  <2>0. \A r \in Runs : run[r] = NoRun
    BY DEF Init
  <2>1. Types
    <3>1. Len(<<>>) = 0 /\ <<>> \in Seq([tx : Txs, ok : BOOLEAN]) /\ 1..0 = {} /\ 0 \in 0..MaxFaults
      BY Constants
    <3>2. IsFiniteSet({})
      BY FS_EmptySet
    <3>3. run \in [Runs -> RunRecords]
      BY PlaceholderTypes DEF Init
    <3>4. /\ mined = <<>> /\ pool = {} /\ credit = InitialCredit /\ blobs = StrayBlobs
          /\ manager = NoNonces /\ life = 1 /\ careless = FALSE /\ evicted = {} /\ faults = 0
      BY DEF Init
    <3>5. \A k \in 1..Len(mined) : mined[k].tx.nonce = k - 1
      BY <3>1, <3>4
    <3>6. blobs \in SUBSET (Txs \ {NoTx}) /\ credit \in Nat
      BY <3>4, Constants
    <3>7. manager \in [next : Nat, assigned : SUBSET [run : Runs, nonce : Nat]]
      BY <3>4, PlaceholderTypes
    <3>8. mined \in Seq([tx : Txs, ok : BOOLEAN]) /\ faults \in 0..MaxFaults
      BY <3>1, <3>4
    <3>9. pool \in SUBSET Txs /\ IsFiniteSet(pool) /\ evicted \in SUBSET Nat
      BY <3>2, <3>4
    <3>10. life \in Nat \ {0}
      BY <3>4
    <3>11. careless \in BOOLEAN
      BY <3>4, Zenon
    <3> QED
      BY <3>3, <3>5, <3>6, <3>7, <3>8, <3>9, <3>10, <3>11 DEF Types
  <2>a. PlaceOK(NoRun) /\ KindOK(NoRun) /\ Backed(NoRun)
    BY DEF PlaceOK, KindOK, Backed, NoRun, Unsigned, Sending
  <2>2. RunsOK
    BY <2>0, <2>a DEF RunsOK
  <2>3. ReportsOK
    BY <2>0, <2>a DEF ReportsOK
  <2>4. ChainOK
    <3>1. Len(mined) = 0 /\ 1..0 = {}
      BY DEF Init
    <3> QED
      BY <3>1 DEF Init, ChainOK
  <2>5. OneOpen
    BY <2>0 DEF OneOpen, Attempts, NoRun
  <2>6. ManagerAhead /\ NoncesDistinct
    BY <2>0 DEF ManagerAhead, NoncesDistinct, NoRun, Init, NoNonces
  <2>7. NoGaps
    <3>1. Len(mined) = 0 /\ manager.next = 0 /\ 0..(0 - 1) = {}
      BY DEF Init, NoNonces
    <3> QED
      BY <2>0, <3>1 DEF NoGaps, NoRun
  <2> QED
    BY <2>1, <2>2, <2>3, <2>4, <2>5, <2>6, <2>7 DEF IInv
<1>2. IInv /\ [Next]_vars => IInv'
  <2> SUFFICES ASSUME IInv, [Next]_vars PROVE IInv'
    OBVIOUS
  <2>1. CASE \E r \in Runs, s \in Settings, up \in BOOLEAN :
                Arrives(r) /\ \E t \in Inputs(Task(s)) : Start(r, s, t, up)
    BY <2>1, StartKeeps
  <2>2. CASE \E r \in Runs : StartServer(r)
    BY <2>2, StartKeeps
  <2>3. ASSUME NEW r \in Runs, Step(r) PROVE IInv'
    <3>1. ASSUME OrdinaryAction(r) PROVE IInv'
      BY <3>1, OrdinarySteps, OrdinaryKeeps DEF IInv
    <3>2. ASSUME NEW n \in PendingCounts, Export(r, n) PROVE IInv'
      BY <3>2, ExportKeeps
    <3>3. ASSUME NEW n \in PendingCounts, Sign(r, n) PROVE IInv'
      BY <3>3, SignKeeps
    <3>4. ASSUME NEW taken \in BOOLEAN, NEW answered \in BOOLEAN, Broadcast(r, taken, answered)
          PROVE  IInv'
      BY <3>4, BroadcastKeeps
    <3>5. ASSUME NEW ok \in BOOLEAN, Preflight(r, ok) PROVE OrdinaryAction(r)
      BY <3>5 DEF OrdinaryAction
    <3>6. ASSUME SignFails(r) PROVE OrdinaryAction(r)
      BY <3>6 DEF OrdinaryAction
    <3>7. ASSUME NEW read \in ReceiptReads(run[r].tx),
                 Receipt(r, read) \/ Poll(r, read) \/ Reconcile(r, read)
          PROVE  OrdinaryAction(r)
      BY <3>7 DEF OrdinaryAction
    <3>8. ASSUME NEW up \in BOOLEAN, VerifyReceipt(r, up) \/ Lookup(r, up) PROVE OrdinaryAction(r)
      BY <3>8 DEF OrdinaryAction
    <3> QED
      BY <2>3, <3>1, <3>2, <3>3, <3>4, <3>5, <3>6, <3>7, <3>8 DEF Step
  <2>4. ASSUME NEW r \in Runs, NEW read \in ReceiptReads(run[r].tx), Status(r, read) PROVE IInv'
    <3>1. OrdinaryAction(r)
      BY <2>4 DEF OrdinaryAction
    <3> QED
      BY <3>1, OrdinarySteps, OrdinaryKeeps DEF IInv
  <2>5. ASSUME NEW r \in Runs, KillDriver(r) PROVE IInv'
    <3>1. OrdinaryAction(r)
      BY <2>5 DEF OrdinaryAction
    <3> QED
      BY <3>1, OrdinarySteps, OrdinaryKeeps DEF IInv
  <2>6. CASE (\E r \in Runs : WalletSigns(r)) \/ (\E t \in blobs : WalletSends(t))
    BY <2>6, WalletKeeps
  <2>7. ASSUME NEW t \in pool, (\E ok \in BOOLEAN : Mine(t, ok)) \/ Evict(t) PROVE IInv'
    BY <2>7, NodeKeeps
  <2>8. CASE RestartServer
    BY <2>8, RestartKeeps
  <2>9. CASE UNCHANGED vars
    <3>1. UNCHANGED <<mined, pool, credit, blobs, run, manager, life, careless, evicted, faults>>
      BY <2>9 DEF vars
    <3>2. Types'
      BY <3>1 DEF IInv, Types
    <3>3. ChainOK'
      BY <3>1 DEF IInv, ChainOK, Out, Attempts, Exposed
    <3>4. Len(mined) <= Len(mined')
      BY <3>1, ChainLength DEF IInv
    <3>5. \A t, ok : MinedAs(t, ok) => MinedAs(t, ok)'
      BY <3>1 DEF MinedAs
    <3>6. \A n \in Nat : \A l : Covered(n, l) => Covered(n, l)'
      BY <3>1 DEF Covered
    <3> QED
      BY <3>1, <3>2, <3>3, <3>4, <3>5, <3>6, ChainKeeps
  <2> QED
    BY <2>1, <2>2, <2>3, <2>4, <2>5, <2>6, <2>7, <2>8, <2>9 DEF Next
<1> QED
  BY <1>1, <1>2, PTL DEF Spec

(* Every run polls at most MaxPolls times and keeps its types, and only what *)
(* the operator's key signed is ever sent.                                   *)
THEOREM BoundedTheorem == Spec => []RunsBounded
<1>1. IInv => RunsBounded
  <2> SUFFICES ASSUME IInv PROVE RunsBounded
    OBVIOUS
  <2> USE DEF IInv
  <2>1. ASSUME NEW r \in Runs
        PROVE  /\ run[r].pc \in Ended \cup {"preflight", "lookup", "export", "sign", "send", "receipt",
                                            "verify", "poll", "reconcile"}
               /\ run[r].kind \in {"none", "local", "signed", "export", "dry", "reconcile", "server"}
               /\ run[r].tx \in Txs /\ run[r].polls \in 0..MaxPolls
               /\ run[r].report \in Reports
    BY RunFields, Constants DEF Places, Unsigned, Sending, Ended, Kinds
  <2>2. \A k \in 1..Len(mined) :
           mined[k].tx \in Txs /\ mined[k].tx.nonce = k - 1 /\ mined[k].ok \in BOOLEAN
    BY MinedFields DEF Types
  <2>3. TypeOK
    BY <2>1, <2>2 DEF TypeOK, Types
  <2>4. ASSUME NEW r \in Runs, run[r].sent
        PROVE  /\ run[r].tx.by = "operator"
               /\ run[r].kind = "local" => run[r].tx.call = "activate" /\ run[r].tx.fee <= PolicyMaxFee
    <3>1. PlaceOK(run[r]) /\ KindOK(run[r])
      BY DEF RunsOK
    <3>2. run[r].pc \notin Unsigned /\ run[r].kind \in {"local", "signed", "server"}
      <4>1. run[r].kind \in Kinds
        BY RunFields
      <4> QED
        BY <2>4, <3>1, <4>1 DEF PlaceOK, KindOK, Kinds
    <3>3. CASE run[r].kind = "server"
      <4>1. run[r].nonce # -1
        BY <2>4, <3>1, <3>3 DEF KindOK
      <4> QED
        BY <3>1, <3>3, <4>1 DEF KindOK
    <3>4. CASE run[r].kind \in {"local", "signed"}
      BY <3>1, <3>2, <3>4 DEF KindOK
    <3> QED
      BY <3>2, <3>3, <3>4
  <2>5. BroadcastAuthorised
    BY <2>4 DEF BroadcastAuthorised
  <2> QED
    BY <2>3, <2>5 DEF RunsBounded
<1> QED
  BY <1>1, ActivationInvariant, PTL

(* A transaction is mined once: its nonce is its place on the chain. *)
LEMMA OutcomeIs ==
  ASSUME Types, NEW t, NEW ok \in BOOLEAN, MinedAs(t, ok)
  PROVE  Outcome(t) = {ok}
<1>1. PICK k \in 1..Len(mined) : mined[k].tx = t /\ mined[k].ok = ok
  BY DEF MinedAs
<1>2. \A j \in 1..Len(mined) : mined[j].tx = t => j = k
  <2> SUFFICES ASSUME NEW j \in 1..Len(mined), mined[j].tx = t PROVE j = k
    OBVIOUS
  <2>1. j - 1 = k - 1 /\ j \in Int /\ k \in Int
    BY <1>1 DEF Types
  <2> QED
    BY <2>1
<1> QED
  BY <1>1, <1>2 DEF Outcome

(* A report is what the chain says, for whatever transaction was pasted and  *)
(* however reads, deaths and evictions fall.                                 *)
THEOREM ReportTheorem == Spec => []ReportTruthful
<1>1. IInv => ReportTruthful
  <2> SUFFICES ASSUME IInv, NEW r \in Runs
               PROVE  LET t == run[r].tx IN
        /\ r \notin Live /\ run[r].kind \in {"local", "signed", "reconcile"} /\ ExitCode(run[r].report) = 0 =>
              Outcome(t) = {TRUE} /\ t.by = "operator" /\ t.call = "activate"
        /\ run[r].report \in {"FAILED", "FAILURE"} => Outcome(t) = {FALSE}
        /\ run[r].report = "SUCCESS" => Outcome(t) = {TRUE}
    BY DEF ReportTruthful
  <2>1. Backed(run[r]) /\ Types
    BY DEF IInv, ReportsOK
  <2>2. ExitCode(run[r].report) = 0 => run[r].report = "VERIFIED_ON_CHAIN"
    BY DEF ExitCode
  <2> QED
    BY <2>1, <2>2, OutcomeIs DEF Backed
<1> QED
  BY <1>1, ActivationInvariant, PTL

(* An operator who starts an attempt only when every earlier one is over     *)
(* activates at most once: two activations on the chain would belong to two  *)
(* open attempts, and open attempts share their transaction.                 *)
THEOREM CarefulTheorem == Spec => []CarefulActivatesOnce
<1>1. IInv => CarefulActivatesOnce
  <2> SUFFICES ASSUME IInv, ~careless PROVE Cardinality(Activations) <= 1
    BY DEF CarefulActivatesOnce
  <2> USE DEF IInv
  <2>1. ASSUME NEW j \in Activations PROVE \E q \in Attempts : ~Resolved(q) /\ run[q].tx = mined[j].tx
    <3>1. j \in 1..Len(mined) /\ mined[j].ok /\ mined[j].tx.call = "activate"
      BY <2>1 DEF Activations
    <3>2. PICK q \in Attempts : Exposed(q) /\ run[q].tx = mined[j].tx
      BY <3>1 DEF ChainOK, Out
    <3>3. ASSUME Resolved(q) PROVE FALSE
      <4>1. PICK k \in Runs : run[k].tx = mined[j].tx /\ run[k].report = "FAILED"
        BY <3>2, <3>3 DEF Resolved
      <4>2. MinedAs(mined[j].tx, FALSE)
        BY <4>1 DEF ReportsOK, Backed
      <4>3. mined[j].ok = TRUE /\ MinedAs(mined[j].tx, TRUE)
        BY <3>1, MinedFields DEF MinedAs
      <4>4. Outcome(mined[j].tx) = {FALSE} /\ Outcome(mined[j].tx) = {TRUE}
        BY <4>2, <4>3, OutcomeIs
      <4> QED
        BY <4>4
    <3> QED
      BY <3>2, <3>3
  <2>2. ASSUME NEW i \in Activations, NEW j \in Activations PROVE i = j
    <3>1. PICK p \in Attempts : ~Resolved(p) /\ run[p].tx = mined[i].tx
      BY <2>1
    <3>2. PICK q \in Attempts : ~Resolved(q) /\ run[q].tx = mined[j].tx
      BY <2>1
    <3>3. mined[i].tx = mined[j].tx
      BY <3>1, <3>2 DEF OneOpen
    <3>4. i \in Int /\ j \in Int /\ i - 1 = j - 1
      BY <3>3 DEF Types, Activations
    <3> QED
      BY <3>4
  <2>3. CASE Activations = {}
    BY <2>3, FS_EmptySet
  <2>4. CASE Activations # {}
    <3>1. PICK i : Activations = {i}
      BY <2>2, <2>4
    <3> QED
      BY <3>1, FS_Singleton
  <2> QED
    BY <2>3, <2>4
<1> QED
  BY <1>1, ActivationInvariant, PTL

(* Two operations of one life of the server never share a nonce, and a       *)
(* transaction waits behind a missing nonce only for a known reason.         *)
THEOREM NoncesTheorem == Spec => []NoncesSequential
<1>1. IInv => NoncesSequential
  <2> SUFFICES ASSUME IInv PROVE GapExplained
    BY DEF IInv, NoncesSequential
  <2> USE DEF IInv
  <2> SUFFICES ASSUME NEW r \in Runs, run[r].tx \in pool, run[r].kind \in {"local", "server"},
                      NEW n \in Len(mined)..(run[r].tx.nonce - 1)
               PROVE  Covered(n, run[r].life)
    BY DEF GapExplained, Covered
  <2>1. run[r].tx.by = "operator" /\ KindOK(run[r]) /\ PlaceOK(run[r])
    BY DEF ChainOK, RunsOK
  <2>2. run[r].tx # NoTx
    BY <2>1 DEF NoTx
  <2>3. run[r].nonce # -1 /\ run[r].tx.nonce = run[r].nonce
    <3>1. CASE run[r].kind = "server"
      BY <2>1, <2>2, <3>1 DEF KindOK
    <3>2. CASE run[r].kind = "local"
      <4>1. run[r].tx.nonce = run[r].nonce
        BY <2>1, <2>2, <3>2 DEF KindOK
      <4>2. run[r].tx.nonce \in Nat
        BY RunFields DEF Txs
      <4> QED
        BY <4>1, <4>2
    <3> QED
      BY <3>1, <3>2
  <2> QED
    BY <2>3 DEF NoGaps
<1> QED
  BY <1>1, ActivationInvariant, PTL
=============================================================================
