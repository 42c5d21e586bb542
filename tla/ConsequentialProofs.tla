------------------------- MODULE ConsequentialProofs -------------------------
(***************************************************************************)
(* Proofs about the consequential execution boundary, for every set of     *)
(* operations, workers and reconcilers, every assignment of amounts and    *)
(* tokens, and any number of crashes.                                      *)
(***************************************************************************)
EXTENDS Consequential, SumTheorems

(* Every call of execute_proposal and reconcile_operation carries an        *)
(* operation and a provider answer exactly where its code uses them, and    *)
(* every durable column has a legal value.                                  *)
THEOREM TypeInvariant == Spec => []TypeOK
<1> USE ConstantsAssumption
<1>1. Init => TypeOK
  BY DEF Init, TypeOK, Accounts, WorkerLabels, ReconcilerLabels
<1>2. TypeOK /\ [Next]_vars => TypeOK'
  <2> SUFFICES ASSUME TypeOK, [Next]_vars
               PROVE  TypeOK'
    OBVIOUS
  <2> USE DEF TypeOK, db, extern, worker, recon, Go, Return, RGo, RReturn, Save,
              WorkerLabels, ReconcilerLabels, OperationStates
  <2>1. ASSUME NEW w \in Workers, NEW o \in Ops, Start(w, o) PROVE TypeOK'
    BY <2>1 DEF Start, ResumeAt
  <2>2. ASSUME NEW w \in Workers, Insert(w) PROVE TypeOK'
    BY <2>2 DEF Insert
  <2>3. ASSUME NEW w \in Workers, ConsumeToken(w) PROVE TypeOK'
    BY <2>3 DEF ConsumeToken
  <2>4. ASSUME NEW w \in Workers, SaveTokenFailed(w) PROVE TypeOK'
    BY <2>4 DEF SaveTokenFailed
  <2>5. ASSUME NEW w \in Workers, SaveAuthorized(w) PROVE TypeOK'
    BY <2>5 DEF SaveAuthorized
  <2>6. ASSUME NEW w \in Workers, FindReserve(w) PROVE TypeOK'
    BY <2>6 DEF FindReserve
  <2>7. ASSUME NEW w \in Workers, Reserve(w) PROVE TypeOK'
    BY <2>7 DEF Reserve, Post, Entry, Kinds, Accounts, From, To
  <2>8. ASSUME NEW w \in Workers, SaveEscrowed(w) PROVE TypeOK'
    BY <2>8 DEF SaveEscrowed
  <2>9. ASSUME NEW w \in Workers, SaveSubmitted(w) PROVE TypeOK'
    BY <2>9 DEF SaveSubmitted
  <2>10. ASSUME NEW w \in Workers, Dispatch(w) PROVE TypeOK'
    BY <2>10 DEF Dispatch
  <2>11. ASSUME NEW w \in Workers, Settle(w) PROVE TypeOK'
    BY <2>11 DEF Settle, Post, Entry, Kinds, Accounts, From, To
  <2>12. ASSUME NEW w \in Workers, SaveOutcome(w) PROVE TypeOK'
    BY <2>12 DEF SaveOutcome, OutcomeState
  <2>13. ASSUME NEW w \in Workers, Crash(w) PROVE TypeOK'
    BY <2>13 DEF Crash
  <2>14. ASSUME NEW r \in Reconcilers, NEW o \in Ops, RStart(r, o) PROVE TypeOK'
    BY <2>14 DEF RStart, Unresolved
  <2>15. ASSUME NEW r \in Reconcilers, RMark(r) PROVE TypeOK'
    BY <2>15 DEF RMark
  <2>16. ASSUME NEW r \in Reconcilers, RQueryAnswered(r) PROVE TypeOK'
    BY <2>16 DEF RQueryAnswered
  <2>17. ASSUME NEW r \in Reconcilers, RQueryUnanswered(r) PROVE TypeOK'
    BY <2>17 DEF RQueryUnanswered
  <2>18. ASSUME NEW r \in Reconcilers, RSaveUnknown(r) PROVE TypeOK'
    BY <2>18 DEF RSaveUnknown
  <2>19. ASSUME NEW r \in Reconcilers, RCheck(r) PROVE TypeOK'
    BY <2>19 DEF RCheck
  <2>20. ASSUME NEW r \in Reconcilers, RTransfer(r) PROVE TypeOK'
    BY <2>20 DEF RTransfer, Post, Entry, Kinds, Accounts, From, To, RKind
  <2>21. ASSUME NEW r \in Reconcilers, RReread(r) PROVE TypeOK'
    BY <2>21 DEF RReread
  <2>22. ASSUME NEW r \in Reconcilers, RSaveReconciled(r) PROVE TypeOK'
    BY <2>22 DEF RSaveReconciled
  <2>23. ASSUME NEW r \in Reconcilers, RCrash(r) PROVE TypeOK'
    BY <2>23 DEF RCrash
  <2>24. ASSUME NEW o \in Ops, ProviderRecords(o) PROVE TypeOK'
    BY <2>24 DEF ProviderRecords
  <2>25. ASSUME NEW o \in Ops, TokenExpires(o) PROVE TypeOK'
    BY <2>25 DEF TokenExpires
  <2>26. CASE UNCHANGED vars
    BY <2>26 DEF vars
  <2> QED
    BY <2>1, <2>2, <2>3, <2>4, <2>5, <2>6, <2>7, <2>8, <2>9, <2>10, <2>11,
       <2>12, <2>13, <2>14, <2>15, <2>16, <2>17, <2>18, <2>19, <2>20, <2>21,
       <2>22, <2>23, <2>24, <2>25, <2>26
       DEF Next, WorkerStep, ReconcilerStep
<1> QED
  BY <1>1, <1>2, PTL DEF Spec

-----------------------------------------------------------------------------

(* No sequence of reservations, settlements, rollbacks, crashes and         *)
(* reconciliations creates, loses or overdraws a credit: every transfer is  *)
(* guarded by the balance it draws on and moves both legs in one commit.    *)
THEOREM ConservationInvariant == Spec => []Conservation
<1> USE ConstantsAssumption
<1>1. Init => Conservation
  BY DEF Init, Conservation, Accounts
<1>2. TypeOK /\ Conservation /\ [Next]_vars => Conservation'
  <2> SUFFICES ASSUME TypeOK, Conservation, [Next]_vars
               PROVE  Conservation'
    OBVIOUS
  <2>a. ASSUME NEW k \in Kinds, NEW o \in Ops, ~Overdraft(k, o), Post(k, o)
        PROVE  Conservation'
    BY <2>a DEF TypeOK, Conservation, Overdraft, Post, Kinds, Accounts, From, To
  <2> USE DEF Conservation, db
  <2>1. ASSUME NEW w \in Workers, NEW o \in Ops, Start(w, o) PROVE Conservation'
    BY <2>1 DEF Start
  <2>2. ASSUME NEW w \in Workers, Insert(w) PROVE Conservation'
    BY <2>2 DEF Insert
  <2>3. ASSUME NEW w \in Workers, ConsumeToken(w) PROVE Conservation'
    BY <2>3 DEF ConsumeToken
  <2>4. ASSUME NEW w \in Workers, SaveTokenFailed(w) PROVE Conservation'
    BY <2>4 DEF SaveTokenFailed
  <2>5. ASSUME NEW w \in Workers, SaveAuthorized(w) PROVE Conservation'
    BY <2>5 DEF SaveAuthorized
  <2>6. ASSUME NEW w \in Workers, FindReserve(w) PROVE Conservation'
    BY <2>6 DEF FindReserve
  <2>7. ASSUME NEW w \in Workers, Reserve(w) PROVE Conservation'
    <3>1. CASE UNCHANGED bal
      BY <3>1
    <3>2. CASE \E k \in Kinds, o \in Ops : ~Overdraft(k, o) /\ Post(k, o)
      BY <3>2, <2>a
    <3> QED
      BY <2>7, <3>1, <3>2 DEF Reserve, TypeOK, Kinds
  <2>8. ASSUME NEW w \in Workers, SaveEscrowed(w) PROVE Conservation'
    BY <2>8 DEF SaveEscrowed
  <2>9. ASSUME NEW w \in Workers, SaveSubmitted(w) PROVE Conservation'
    BY <2>9 DEF SaveSubmitted
  <2>10. ASSUME NEW w \in Workers, Dispatch(w) PROVE Conservation'
    BY <2>10 DEF Dispatch
  <2>11. ASSUME NEW w \in Workers, Settle(w) PROVE Conservation'
    <3>1. CASE UNCHANGED bal
      BY <3>1
    <3>2. CASE \E k \in Kinds, o \in Ops : ~Overdraft(k, o) /\ Post(k, o)
      BY <3>2, <2>a
    <3> QED
      BY <2>11, <3>1, <3>2 DEF Settle, TypeOK, Kinds
  <2>12. ASSUME NEW w \in Workers, SaveOutcome(w) PROVE Conservation'
    BY <2>12 DEF SaveOutcome
  <2>13. ASSUME NEW w \in Workers, Crash(w) PROVE Conservation'
    BY <2>13 DEF Crash
  <2>14. ASSUME NEW r \in Reconcilers, NEW o \in Ops, RStart(r, o) PROVE Conservation'
    BY <2>14 DEF RStart
  <2>15. ASSUME NEW r \in Reconcilers, RMark(r) PROVE Conservation'
    BY <2>15 DEF RMark
  <2>16. ASSUME NEW r \in Reconcilers, RQueryAnswered(r) PROVE Conservation'
    BY <2>16 DEF RQueryAnswered
  <2>17. ASSUME NEW r \in Reconcilers, RQueryUnanswered(r) PROVE Conservation'
    BY <2>17 DEF RQueryUnanswered
  <2>18. ASSUME NEW r \in Reconcilers, RSaveUnknown(r) PROVE Conservation'
    BY <2>18 DEF RSaveUnknown
  <2>19. ASSUME NEW r \in Reconcilers, RCheck(r) PROVE Conservation'
    BY <2>19 DEF RCheck
  <2>20. ASSUME NEW r \in Reconcilers, RTransfer(r) PROVE Conservation'
    <3>1. CASE UNCHANGED bal
      BY <3>1
    <3>2. CASE \E k \in Kinds, o \in Ops : ~Overdraft(k, o) /\ Post(k, o)
      BY <3>2, <2>a
    <3> QED
      BY <2>20, <3>1, <3>2 DEF RTransfer, TypeOK, Kinds, RKind
  <2>21. ASSUME NEW r \in Reconcilers, RReread(r) PROVE Conservation'
    BY <2>21 DEF RReread
  <2>22. ASSUME NEW r \in Reconcilers, RSaveReconciled(r) PROVE Conservation'
    BY <2>22 DEF RSaveReconciled
  <2>23. ASSUME NEW r \in Reconcilers, RCrash(r) PROVE Conservation'
    BY <2>23 DEF RCrash
  <2>24. ASSUME NEW o \in Ops, ProviderRecords(o) PROVE Conservation'
    BY <2>24 DEF ProviderRecords
  <2>25. ASSUME NEW o \in Ops, TokenExpires(o) PROVE Conservation'
    BY <2>25 DEF TokenExpires
  <2>26. CASE UNCHANGED vars
    BY <2>26 DEF vars
  <2> QED
    BY <2>1, <2>2, <2>3, <2>4, <2>5, <2>6, <2>7, <2>8, <2>9, <2>10, <2>11,
       <2>12, <2>13, <2>14, <2>15, <2>16, <2>17, <2>18, <2>19, <2>20, <2>21,
       <2>22, <2>23, <2>24, <2>25, <2>26
       DEF Next, WorkerStep, ReconcilerStep
<1> QED
  BY <1>1, <1>2, TypeInvariant, PTL DEF Spec

-----------------------------------------------------------------------------

(* The credits of o are in the ledger as a reservation, or it costs none.   *)
Reserved(o) == Amount[o] = 0 \/ Entry("res", o) \in posted

(* From the moment a row, a call or the provider is past the reservation    *)
(* step, the reservation is in the ledger.                                  *)
ReservedFirst ==
    /\ \A o \in Ops : row[o] \in Unresolved \cup {"ESCROWED"} => Reserved(o)
    /\ \A o \in Ops : attempts[o] > 0 => Reserved(o)
    /\ \A w \in Workers :
         /\ pc[w] \in {"saveEscrowed", "saveSubmitted", "dispatch", "settle",
                    "saveOutcome"}
               => Reserved(arg[w])
         /\ pc[w] \in {"reserve", "settle"} => Amount[arg[w]] > 0
    /\ \A r \in Reconcilers :
         /\ rpc[r] # "idle" => Reserved(rarg[r])
         /\ rpc[r] \in {"check", "transfer"} => Amount[rarg[r]] > 0

(* The definite answer an actor holds is the one in the provider's records. *)
AnswersAreEvidence ==
    /\ \A w \in Workers : pc[w] = "settle" => res[w] = prov[arg[w]]
    /\ \A r \in Reconcilers :
         rpc[r] \in {"check", "transfer"} => rres[r] = prov[rarg[r]]

EvidenceInv == ReservedFirst /\ AnswersAreEvidence /\ SettlementFollowsEvidence

(* What the theorem below needs of every actor: a reservation precedes every *)
(* settlement, and a held provider answer is the provider's record.          *)
LEMMA EvidenceInvInductive == Spec => [](TypeOK /\ EvidenceInv)
<1> USE ConstantsAssumption
<1>1. Init => EvidenceInv
  BY DEF Init, EvidenceInv, ReservedFirst, AnswersAreEvidence, SettlementFollowsEvidence,
         Unresolved
<1>2. TypeOK /\ EvidenceInv /\ [Next]_vars => EvidenceInv'
  <2> SUFFICES ASSUME TypeOK, EvidenceInv, [Next]_vars
               PROVE  EvidenceInv'
    OBVIOUS
  <2> USE DEF TypeOK, EvidenceInv, ReservedFirst, Reserved, AnswersAreEvidence,
              SettlementFollowsEvidence, db, extern, worker, recon, Go, Return, RGo,
              RReturn, Save, WorkerLabels, ReconcilerLabels, Unresolved, Entry, Kinds, To
  <2>1. ASSUME NEW w \in Workers, NEW o \in Ops, Start(w, o) PROVE EvidenceInv'
    BY <2>1 DEF Start, ResumeAt
  <2>2. ASSUME NEW w \in Workers, Insert(w) PROVE EvidenceInv'
    BY <2>2 DEF Insert
  <2>3. ASSUME NEW w \in Workers, ConsumeToken(w) PROVE EvidenceInv'
    BY <2>3 DEF ConsumeToken
  <2>4. ASSUME NEW w \in Workers, SaveTokenFailed(w) PROVE EvidenceInv'
    BY <2>4 DEF SaveTokenFailed
  <2>5. ASSUME NEW w \in Workers, SaveAuthorized(w) PROVE EvidenceInv'
    BY <2>5 DEF SaveAuthorized
  <2>6. ASSUME NEW w \in Workers, FindReserve(w) PROVE EvidenceInv'
    BY <2>6 DEF FindReserve
  <2>7. ASSUME NEW w \in Workers, Reserve(w) PROVE EvidenceInv'
    BY <2>7 DEF Reserve, Post
  <2>8. ASSUME NEW w \in Workers, SaveEscrowed(w) PROVE EvidenceInv'
    BY <2>8 DEF SaveEscrowed
  <2>9. ASSUME NEW w \in Workers, SaveSubmitted(w) PROVE EvidenceInv'
    BY <2>9 DEF SaveSubmitted
  <2>10. ASSUME NEW w \in Workers, Dispatch(w) PROVE EvidenceInv'
    BY <2>10 DEF Dispatch
  <2>11. ASSUME NEW w \in Workers, Settle(w) PROVE EvidenceInv'
    BY <2>11 DEF Settle, Post
  <2>12. ASSUME NEW w \in Workers, SaveOutcome(w) PROVE EvidenceInv'
    BY <2>12 DEF SaveOutcome, OutcomeState
  <2>13. ASSUME NEW w \in Workers, Crash(w) PROVE EvidenceInv'
    BY <2>13 DEF Crash
  <2>14. ASSUME NEW r \in Reconcilers, NEW o \in Ops, RStart(r, o) PROVE EvidenceInv'
    BY <2>14 DEF RStart
  <2>15. ASSUME NEW r \in Reconcilers, RMark(r) PROVE EvidenceInv'
    BY <2>15 DEF RMark
  <2>16. ASSUME NEW r \in Reconcilers, RQueryAnswered(r) PROVE EvidenceInv'
    BY <2>16 DEF RQueryAnswered
  <2>17. ASSUME NEW r \in Reconcilers, RQueryUnanswered(r) PROVE EvidenceInv'
    BY <2>17 DEF RQueryUnanswered
  <2>18. ASSUME NEW r \in Reconcilers, RSaveUnknown(r) PROVE EvidenceInv'
    BY <2>18 DEF RSaveUnknown
  <2>19. ASSUME NEW r \in Reconcilers, RCheck(r) PROVE EvidenceInv'
    BY <2>19 DEF RCheck
  <2>20. ASSUME NEW r \in Reconcilers, RTransfer(r) PROVE EvidenceInv'
    BY <2>20 DEF RTransfer, Post, RKind
  <2>21. ASSUME NEW r \in Reconcilers, RReread(r) PROVE EvidenceInv'
    BY <2>21 DEF RReread
  <2>22. ASSUME NEW r \in Reconcilers, RSaveReconciled(r) PROVE EvidenceInv'
    BY <2>22 DEF RSaveReconciled
  <2>23. ASSUME NEW r \in Reconcilers, RCrash(r) PROVE EvidenceInv'
    BY <2>23 DEF RCrash
  <2>24. ASSUME NEW o \in Ops, ProviderRecords(o) PROVE EvidenceInv'
    BY <2>24 DEF ProviderRecords
  <2>25. ASSUME NEW o \in Ops, TokenExpires(o) PROVE EvidenceInv'
    BY <2>25 DEF TokenExpires
  <2>26. CASE UNCHANGED vars
    BY <2>26 DEF vars
  <2> QED
    BY <2>1, <2>2, <2>3, <2>4, <2>5, <2>6, <2>7, <2>8, <2>9, <2>10, <2>11,
       <2>12, <2>13, <2>14, <2>15, <2>16, <2>17, <2>18, <2>19, <2>20, <2>21,
       <2>22, <2>23, <2>24, <2>25, <2>26
       DEF Next, WorkerStep, ReconcilerStep
<1> QED
  BY <1>1, <1>2, TypeInvariant, PTL DEF Spec

(* Neither path ever pays for an operation the provider rejected, refunds   *)
(* one it executed, or moves credits that were not reserved, even with      *)
(* reconciliation overlapping the call it settles.                          *)
THEOREM EvidenceGoverns == Spec => []SettlementFollowsEvidence
  BY EvidenceInvInductive, PTL DEF EvidenceInv

-----------------------------------------------------------------------------

(* Reconciliation has laid hands on o: a reconciler holds it, or a          *)
(* settlement of it carries a reconciliation id.                            *)
InReconciliation(o) ==
    \/ \E r \in Reconcilers : rarg[r] = o
    \/ \E e \in posted : e.op = o /\ e.kind \in {"txRec", "rollbackRec"}

(* When the operator waits, such an operation has left the execution path   *)
(* for good: its row admits no resume, and no call holds an older copy.     *)
HandedOver ==
    \A o \in Ops :
        InReconciliation(o) => /\ row[o] \in Unresolved \cup {"RECONCILED"}
                               /\ \A w \in Workers : arg[w] # o

(* What the search of the ledger in reconcile_operation found stays true    *)
(* until the transfer: no settlement by the execution path.                 *)
SearchStaysTrue ==
    \A r \in Reconcilers, e \in posted :
        rpc[r] = "transfer" /\ e.op = rarg[r] => e.kind \notin {"tx", "rollback"}

OnceInv == HandedOver /\ SearchStaysTrue /\ SettledAtMostOnce

(* The transfer submit_operation makes is the first to touch the            *)
(* reservation, unless its id is refused as a duplicate.                    *)
LEMMA SettleIsFirst ==
    ASSUME TypeOK, EvidenceInv, OnceInv,
           NEW w \in Workers, pc[w] = "settle",
           NEW k, k = (IF res[w] = "SUCCESS" THEN "tx" ELSE "rollback"),
           ~Duplicate(k, arg[w])
    PROVE  \A e \in posted : e.op = arg[w] => e.kind = "res"
<1> SUFFICES ASSUME NEW e \in posted, e.op = arg[w], e.kind # "res"
             PROVE  FALSE
  OBVIOUS
<1> arg[w] \in Ops /\ e.kind \in Kinds
  BY DEF TypeOK
<1>1. e.kind \in {"tx", "rollback"}
  BY DEF OnceInv, HandedOver, InReconciliation, Kinds
<1>2. e.kind # k
  BY <1>1 DEF Duplicate, SameTransaction, Entry
<1>3. res[w] = prov[arg[w]] /\ res[w] \in {"SUCCESS", "FAILURE"}
  BY DEF TypeOK, EvidenceInv, AnswersAreEvidence
<1>4. e.kind # "res" =>
         prov[e.op] = IF To[e.kind] = "EXTERNAL_SINK" THEN "SUCCESS" ELSE "FAILURE"
  BY DEF EvidenceInv, SettlementFollowsEvidence
<1> QED
  BY <1>1, <1>2, <1>3, <1>4 DEF To

(* So is the transfer reconcile_operation makes. *)
LEMMA TransferIsFirst ==
    ASSUME TypeOK, EvidenceInv, OnceInv,
           NEW r \in Reconcilers, rpc[r] = "transfer", ~Duplicate(RKind(r), rarg[r])
    PROVE  \A e \in posted : e.op = rarg[r] => e.kind = "res"
<1> SUFFICES ASSUME NEW e \in posted, e.op = rarg[r], e.kind # "res"
             PROVE  FALSE
  OBVIOUS
<1> rarg[r] \in Ops /\ e.kind \in Kinds
  BY DEF TypeOK
<1>1. e.kind \in {"txRec", "rollbackRec"}
  BY DEF OnceInv, SearchStaysTrue, Kinds
<1>2. e.kind # RKind(r)
  BY <1>1 DEF Duplicate, SameTransaction, Entry
<1>3. rres[r] = prov[rarg[r]] /\ rres[r] \in {"SUCCESS", "FAILURE"}
  BY DEF TypeOK, EvidenceInv, AnswersAreEvidence
<1>4. e.kind # "res" =>
         prov[e.op] = IF To[e.kind] = "EXTERNAL_SINK" THEN "SUCCESS" ELSE "FAILURE"
  BY DEF EvidenceInv, SettlementFollowsEvidence
<1> QED
  BY <1>1, <1>2, <1>3, <1>4 DEF To, RKind

(* OnceInv is preserved by every action of execute_proposal and              *)
(* reconcile_operation when no operator reconciles a call still running.     *)
LEMMA OnceInvInductive ==
    ASSUME OperatorWaits
    PROVE  Spec => []OnceInv
<1> USE ConstantsAssumption, OperatorWaits
<1>1. Init => OnceInv
  BY DEF Init, OnceInv, HandedOver, InReconciliation, SearchStaysTrue, SettledAtMostOnce
<1>2. TypeOK /\ EvidenceInv /\ OnceInv /\ [Next]_vars => OnceInv'
  <2> SUFFICES ASSUME TypeOK, EvidenceInv, OnceInv, [Next]_vars
               PROVE  OnceInv'
    OBVIOUS
  <2> USE DEF TypeOK, OnceInv, HandedOver, InReconciliation, SearchStaysTrue,
              SettledAtMostOnce, db, extern, worker, recon, Go, Return, RGo, RReturn,
              Save, WorkerLabels, ReconcilerLabels, Unresolved, Entry, Kinds
  <2>1. ASSUME NEW w \in Workers, NEW o \in Ops, Start(w, o) PROVE OnceInv'
    BY <2>1 DEF Start, ResumeAt
  <2>2. ASSUME NEW w \in Workers, Insert(w) PROVE OnceInv'
    BY <2>2 DEF Insert
  <2>3. ASSUME NEW w \in Workers, ConsumeToken(w) PROVE OnceInv'
    BY <2>3 DEF ConsumeToken
  <2>4. ASSUME NEW w \in Workers, SaveTokenFailed(w) PROVE OnceInv'
    BY <2>4 DEF SaveTokenFailed
  <2>5. ASSUME NEW w \in Workers, SaveAuthorized(w) PROVE OnceInv'
    BY <2>5 DEF SaveAuthorized
  <2>6. ASSUME NEW w \in Workers, FindReserve(w) PROVE OnceInv'
    BY <2>6 DEF FindReserve
  <2>7. ASSUME NEW w \in Workers, Reserve(w) PROVE OnceInv'
    BY <2>7 DEF Reserve, Post
  <2>8. ASSUME NEW w \in Workers, SaveEscrowed(w) PROVE OnceInv'
    BY <2>8 DEF SaveEscrowed
  <2>9. ASSUME NEW w \in Workers, SaveSubmitted(w) PROVE OnceInv'
    BY <2>9 DEF SaveSubmitted
  <2>10. ASSUME NEW w \in Workers, Dispatch(w) PROVE OnceInv'
    BY <2>10 DEF Dispatch
  <2>11. ASSUME NEW w \in Workers, Settle(w) PROVE OnceInv'
    <3> DEFINE o == arg[w]
               k == IF res[w] = "SUCCESS" THEN "tx" ELSE "rollback"
    <3>1. o \in Ops /\ k \in {"tx", "rollback"}
      BY <2>11 DEF Settle
    <3>2. CASE UNCHANGED posted
      BY <2>11, <3>2 DEF Settle
    <3>3. CASE ~Duplicate(k, o) /\ Post(k, o) /\ Go(w, "saveOutcome")
      <4>1. ~InReconciliation(o)
        BY <3>1
      <4>2. \A e \in posted : e.op = o => e.kind = "res"
        BY <2>11, <3>1, <3>3, SettleIsFirst DEF Settle
      <4>3. posted' = posted \cup {Entry(k, o)}
        BY <3>3 DEF Post
      <4>4. SettledAtMostOnce'
        BY <3>1, <4>2, <4>3
      <4>5. HandedOver'
        BY <2>11, <3>1, <3>3, <4>3 DEF Settle
      <4>6. SearchStaysTrue'
        BY <2>11, <3>1, <4>1, <4>3 DEF Settle
      <4> QED
        BY <4>4, <4>5, <4>6
    <3> QED
      BY <2>11, <3>2, <3>3 DEF Settle
  <2>12. ASSUME NEW w \in Workers, SaveOutcome(w) PROVE OnceInv'
    BY <2>12 DEF SaveOutcome, OutcomeState
  <2>13. ASSUME NEW w \in Workers, Crash(w) PROVE OnceInv'
    BY <2>13 DEF Crash
  <2>14. ASSUME NEW r \in Reconcilers, NEW o \in Ops, RStart(r, o) PROVE OnceInv'
    BY <2>14 DEF RStart, Live
  <2>15. ASSUME NEW r \in Reconcilers, RMark(r) PROVE OnceInv'
    BY <2>15 DEF RMark
  <2>16. ASSUME NEW r \in Reconcilers, RQueryAnswered(r) PROVE OnceInv'
    BY <2>16 DEF RQueryAnswered
  <2>17. ASSUME NEW r \in Reconcilers, RQueryUnanswered(r) PROVE OnceInv'
    BY <2>17 DEF RQueryUnanswered
  <2>18. ASSUME NEW r \in Reconcilers, RSaveUnknown(r) PROVE OnceInv'
    BY <2>18 DEF RSaveUnknown
  <2>19. ASSUME NEW r \in Reconcilers, RCheck(r) PROVE OnceInv'
    <3>1. CASE rpc'[r] = "reread"
      BY <2>19, <3>1 DEF RCheck
    <3>2. CASE ~AlreadyBooked(r)
      <4>1. rarg[r] \in Ops /\ rres[r] \in {"SUCCESS", "FAILURE"}
        BY <2>19 DEF RCheck
      <4>2. \A e \in posted : e.op = rarg[r] => e.kind \notin {"tx", "rollback"}
        <5> SUFFICES ASSUME NEW e \in posted, e.op = rarg[r]
                     PROVE  e.kind \notin {"tx", "rollback"}
          OBVIOUS
        <5>1. rres[r] = prov[rarg[r]]
          BY <2>19 DEF RCheck, EvidenceInv, AnswersAreEvidence
        <5>2. From[e.kind] = "ESCROW" => To[e.kind] # To[RKind(r)]
          BY <3>2 DEF AlreadyBooked, Booked
        <5>3. e.kind # "res" =>
                 prov[e.op] = IF To[e.kind] = "EXTERNAL_SINK" THEN "SUCCESS" ELSE "FAILURE"
          BY DEF EvidenceInv, SettlementFollowsEvidence
        <5> QED
          BY <4>1, <5>1, <5>2, <5>3 DEF RKind, From, To
      <4> QED
        BY <2>19, <4>1, <4>2 DEF RCheck
    <3> QED
      BY <2>19, <3>1, <3>2 DEF RCheck
  <2>20. ASSUME NEW r \in Reconcilers, RTransfer(r) PROVE OnceInv'
    <3> DEFINE o == rarg[r]
               k == RKind(r)
    <3>1. o \in Ops /\ k \in {"txRec", "rollbackRec"} /\ InReconciliation(o)
      BY <2>20 DEF RTransfer, RKind
    <3>2. CASE UNCHANGED posted
      BY <2>20, <3>2 DEF RTransfer
    <3>3. CASE ~Duplicate(k, o) /\ Post(k, o) /\ RGo(r, "reread")
      <4>1. \A e \in posted : e.op = o => e.kind = "res"
        BY <2>20, <3>1, <3>3, TransferIsFirst DEF RTransfer
      <4>2. posted' = posted \cup {Entry(k, o)}
        BY <3>3 DEF Post
      <4>3. SettledAtMostOnce'
        BY <3>1, <4>1, <4>2
      <4>4. HandedOver'
        BY <2>20, <3>1, <3>3, <4>2 DEF RTransfer
      <4>5. SearchStaysTrue'
        BY <2>20, <3>1, <3>3, <4>2 DEF RTransfer
      <4> QED
        BY <4>3, <4>4, <4>5
    <3> QED
      BY <2>20, <3>2, <3>3 DEF RTransfer
  <2>21. ASSUME NEW r \in Reconcilers, RReread(r) PROVE OnceInv'
    BY <2>21 DEF RReread
  <2>22. ASSUME NEW r \in Reconcilers, RSaveReconciled(r) PROVE OnceInv'
    BY <2>22 DEF RSaveReconciled
  <2>23. ASSUME NEW r \in Reconcilers, RCrash(r) PROVE OnceInv'
    BY <2>23 DEF RCrash
  <2>24. ASSUME NEW o \in Ops, ProviderRecords(o) PROVE OnceInv'
    BY <2>24 DEF ProviderRecords
  <2>25. ASSUME NEW o \in Ops, TokenExpires(o) PROVE OnceInv'
    BY <2>25 DEF TokenExpires
  <2>26. CASE UNCHANGED vars
    BY <2>26 DEF vars
  <2> QED
    BY <2>1, <2>2, <2>3, <2>4, <2>5, <2>6, <2>7, <2>8, <2>9, <2>10, <2>11,
       <2>12, <2>13, <2>14, <2>15, <2>16, <2>17, <2>18, <2>19, <2>20, <2>21,
       <2>22, <2>23, <2>24, <2>25, <2>26
       DEF Next, WorkerStep, ReconcilerStep
<1> QED
  BY <1>1, <1>2, EvidenceInvInductive, PTL DEF Spec

(* With an operator who waits for live calls to end before reconciling, the *)
(* credits of an operation leave ESCROW at most once: by submit_operation   *)
(* or by reconcile_operation, under any number of concurrent callers of     *)
(* both, and under crashes at any step of either.                           *)
THEOREM SettledOnce ==
    ASSUME OperatorWaits
    PROVE  Spec => []SettledAtMostOnce
  BY OnceInvInductive, PTL DEF OnceInv

-----------------------------------------------------------------------------

(* Some trace of o shows that it got past the token journal. *)
PastJournal(o) ==
    \/ row[o] \in Unresolved \cup {"AUTHORIZED", "ESCROWED"}
    \/ \E e \in posted : e.op = o
    \/ \E w \in Workers :
          arg[w] = o /\ pc[w] \notin {"insert", "consume", "saveTokenFailed"}
    \/ \E r \in Reconcilers : rarg[r] = o

TokenInv ==
    /\ \A o \in Ops : PastJournal(o) => TokenOf[o] \in consumed
    /\ \A o, p \in Ops : /\ PastJournal(o)
                         /\ PastJournal(p)
                         /\ TokenOf[o] = TokenOf[p]
                        => o = p

(* The journal's primary key makes a token single use: of all operations    *)
(* presented with it, under whatever keys, one at most reaches the ledger.  *)
THEOREM TokenSingleUse == Spec => []TokenFundsOneOperation
<1> USE ConstantsAssumption
<1>1. Init => TokenInv
  BY DEF Init, TokenInv, PastJournal, Unresolved
<1>2. TypeOK /\ TokenInv /\ [Next]_vars => TokenInv'
  <2> SUFFICES ASSUME TypeOK, TokenInv, [Next]_vars
               PROVE  TokenInv'
    OBVIOUS
  <2> DEFINE NoneNew == /\ \A p \in Ops : PastJournal(p)' => PastJournal(p)
                        /\ consumed \subseteq consumed'
  <2>a. NoneNew => TokenInv'
    BY DEF TokenInv
  <2> USE DEF TypeOK, PastJournal, db, extern, worker, recon, Go, Return, RGo,
              RReturn, Save, WorkerLabels, ReconcilerLabels, Unresolved, Entry
  <2>1. ASSUME NEW w \in Workers, NEW o \in Ops, Start(w, o) PROVE TokenInv'
    BY <2>1, <2>a DEF Start, ResumeAt
  <2>2. ASSUME NEW w \in Workers, Insert(w) PROVE TokenInv'
    BY <2>2, <2>a DEF Insert
  <2>3. ASSUME NEW w \in Workers, ConsumeToken(w) PROVE TokenInv'
    <3>1. CASE TokenOf[arg[w]] \in consumed
      <4>1. NoneNew
        BY <2>3, <3>1 DEF ConsumeToken
      <4> QED
        BY <4>1, <2>a
    <3>2. CASE TokenOf[arg[w]] \notin consumed
      <4>1. consumed' = consumed \cup {TokenOf[arg[w]]}
        BY <2>3 DEF ConsumeToken
      <4>2. \A p \in Ops : PastJournal(p)' => PastJournal(p) \/ p = arg[w]
        BY <2>3 DEF ConsumeToken
      <4>3. ~PastJournal(arg[w]) /\ arg[w] \in Ops
        BY <2>3, <3>2 DEF ConsumeToken, TokenInv
      <4> QED
        BY <3>2, <4>1, <4>2, <4>3, SMTT(30) DEF TokenInv
    <3> QED
      BY <3>1, <3>2
  <2>4. ASSUME NEW w \in Workers, SaveTokenFailed(w) PROVE TokenInv'
    BY <2>4, <2>a DEF SaveTokenFailed
  <2>5. ASSUME NEW w \in Workers, SaveAuthorized(w) PROVE TokenInv'
    BY <2>5, <2>a DEF SaveAuthorized
  <2>6. ASSUME NEW w \in Workers, FindReserve(w) PROVE TokenInv'
    BY <2>6, <2>a DEF FindReserve
  <2>7. ASSUME NEW w \in Workers, Reserve(w) PROVE TokenInv'
    BY <2>7, <2>a DEF Reserve, Post
  <2>8. ASSUME NEW w \in Workers, SaveEscrowed(w) PROVE TokenInv'
    BY <2>8, <2>a DEF SaveEscrowed
  <2>9. ASSUME NEW w \in Workers, SaveSubmitted(w) PROVE TokenInv'
    BY <2>9, <2>a DEF SaveSubmitted
  <2>10. ASSUME NEW w \in Workers, Dispatch(w) PROVE TokenInv'
    BY <2>10, <2>a DEF Dispatch
  <2>11. ASSUME NEW w \in Workers, Settle(w) PROVE TokenInv'
    BY <2>11, <2>a DEF Settle, Post
  <2>12. ASSUME NEW w \in Workers, SaveOutcome(w) PROVE TokenInv'
    BY <2>12, <2>a DEF SaveOutcome, OutcomeState
  <2>13. ASSUME NEW w \in Workers, Crash(w) PROVE TokenInv'
    BY <2>13, <2>a DEF Crash
  <2>14. ASSUME NEW r \in Reconcilers, NEW o \in Ops, RStart(r, o) PROVE TokenInv'
    BY <2>14, <2>a DEF RStart
  <2>15. ASSUME NEW r \in Reconcilers, RMark(r) PROVE TokenInv'
    BY <2>15, <2>a DEF RMark
  <2>16. ASSUME NEW r \in Reconcilers, RQueryAnswered(r) PROVE TokenInv'
    BY <2>16, <2>a DEF RQueryAnswered
  <2>17. ASSUME NEW r \in Reconcilers, RQueryUnanswered(r) PROVE TokenInv'
    BY <2>17, <2>a DEF RQueryUnanswered
  <2>18. ASSUME NEW r \in Reconcilers, RSaveUnknown(r) PROVE TokenInv'
    BY <2>18, <2>a DEF RSaveUnknown
  <2>19. ASSUME NEW r \in Reconcilers, RCheck(r) PROVE TokenInv'
    BY <2>19, <2>a DEF RCheck
  <2>20. ASSUME NEW r \in Reconcilers, RTransfer(r) PROVE TokenInv'
    BY <2>20, <2>a DEF RTransfer, Post
  <2>21. ASSUME NEW r \in Reconcilers, RReread(r) PROVE TokenInv'
    BY <2>21, <2>a DEF RReread
  <2>22. ASSUME NEW r \in Reconcilers, RSaveReconciled(r) PROVE TokenInv'
    BY <2>22, <2>a DEF RSaveReconciled
  <2>23. ASSUME NEW r \in Reconcilers, RCrash(r) PROVE TokenInv'
    BY <2>23, <2>a DEF RCrash
  <2>24. ASSUME NEW o \in Ops, ProviderRecords(o) PROVE TokenInv'
    BY <2>24, <2>a DEF ProviderRecords
  <2>25. ASSUME NEW o \in Ops, TokenExpires(o) PROVE TokenInv'
    BY <2>25, <2>a DEF TokenExpires
  <2>26. CASE UNCHANGED vars
    BY <2>26, <2>a DEF vars
  <2> QED
    BY <2>1, <2>2, <2>3, <2>4, <2>5, <2>6, <2>7, <2>8, <2>9, <2>10, <2>11,
       <2>12, <2>13, <2>14, <2>15, <2>16, <2>17, <2>18, <2>19, <2>20, <2>21,
       <2>22, <2>23, <2>24, <2>25, <2>26
       DEF Next, WorkerStep, ReconcilerStep
<1>3. TokenInv /\ TypeOK => TokenFundsOneOperation
  BY DEF TokenInv, TypeOK, TokenFundsOneOperation, PastJournal
<1> QED
  BY <1>1, <1>2, <1>3, TypeInvariant, PTL DEF Spec

-----------------------------------------------------------------------------

(* An operation without a reservation is free, one whose only entry is its  *)
(* reservation is held.                                                     *)
LEMMA StatusOfReservation ==
    ASSUME TypeOK, EvidenceInv, NEW o \in Ops
    PROVE  /\ Entry("res", o) \notin posted => StatusOf(o) = "free"
           /\ Entry("res", o) \in posted /\ (\A e \in posted : e.op = o => e.kind = "res")
                => StatusOf(o) = "held"
<1>1. \A e \in posted : e.kind \in Kinds /\ e = Entry(e.kind, e.op)
  BY DEF TypeOK, Entry
<1>2. ASSUME Entry("res", o) \notin posted PROVE StatusOf(o) = "free"
  <2>1. \A e \in posted : e.op # o
    BY <1>1, <1>2 DEF EvidenceInv, SettlementFollowsEvidence
  <2> QED
    BY <2>1 DEF StatusOf, Booked
<1>3. ASSUME Entry("res", o) \in posted, \A e \in posted : e.op = o => e.kind = "res"
      PROVE  StatusOf(o) = "held"
  <2>1. Booked(o, "ESCROW", "EXTERNAL_SINK") = {} /\ Booked(o, "ESCROW", "TREASURY") = {}
    BY <1>3 DEF Booked, From
  <2>2. Entry("res", o) \in Booked(o, "TREASURY", "ESCROW")
    BY <1>3 DEF Booked, From, To, Entry
  <2> QED
    BY <2>1, <2>2 DEF StatusOf
<1> QED
  BY <1>2, <1>3

(* Posting an entry moves the status of its own operation only. *)
LEMMA StatusAfterPost ==
    ASSUME TypeOK, NEW k \in Kinds, NEW o \in Ops, Post(k, o),
           \A e \in posted : e.op = o => e.kind = "res"
    PROVE  /\ \A p \in Ops \ {o} : StatusOf(p)' = StatusOf(p)
           /\ k = "res" => StatusOf(o)' = "held"
           /\ k \in {"tx", "txRec"} => StatusOf(o)' = "settled"
           /\ k \in {"rollback", "rollbackRec"} => StatusOf(o)' = "refunded"
<1>1. posted' = posted \cup {Entry(k, o)}
  BY DEF Post
<1>2. \A p \in Ops \ {o} : StatusOf(p)' = StatusOf(p)
  <2> SUFFICES ASSUME NEW p \in Ops \ {o}
               PROVE  StatusOf(p)' = StatusOf(p)
    OBVIOUS
  <2>1. \A from, to \in Accounts : Booked(p, from, to)' = Booked(p, from, to)
    BY <1>1 DEF Booked, Entry
  <2> QED
    BY <2>1 DEF StatusOf, Accounts
<1>3. Entry(k, o) \in Booked(o, From[k], To[k])'
  BY <1>1 DEF Booked, Entry
<1>4. k = "res" => StatusOf(o)' = "held"
  <2> SUFFICES ASSUME k = "res"
               PROVE  StatusOf(o)' = "held"
    OBVIOUS
  <2>1. Booked(o, "ESCROW", "EXTERNAL_SINK")' = {} /\ Booked(o, "ESCROW", "TREASURY")' = {}
    BY <1>1 DEF Booked, From, Entry
  <2>2. Booked(o, "TREASURY", "ESCROW")' # {}
    BY <1>3 DEF From, To
  <2> QED
    BY <2>1, <2>2 DEF StatusOf
<1>5. k \in {"tx", "txRec"} => StatusOf(o)' = "settled"
  BY <1>3 DEF StatusOf, From, To
<1>6. k \in {"rollback", "rollbackRec"} => StatusOf(o)' = "refunded"
  <2> SUFFICES ASSUME k \in {"rollback", "rollbackRec"}
               PROVE  StatusOf(o)' = "refunded"
    OBVIOUS
  <2>1. Booked(o, "ESCROW", "EXTERNAL_SINK")' = {}
    BY <1>1 DEF Booked, From, To, Entry
  <2>2. Booked(o, "ESCROW", "TREASURY")' # {}
    BY <1>3 DEF From, To
  <2> QED
    BY <2>1, <2>2 DEF StatusOf
<1> QED
  BY <1>2, <1>4, <1>5, <1>6

(* The boundary implements what module Settlement promises: every step of   *)
(* every interleaving of workers, reconcilers and crashes is one holding,   *)
(* evidence, commit or release step of one operation, or invisible.         *)
THEOREM BoundaryImplementsSettlement ==
    ASSUME OperatorWaits
    PROVE  Spec => ImplementsSettlement
<1> USE ConstantsAssumption
<1> DEFINE st == [o \in Ops |-> StatusOf(o)]
<1>1. Init => Promise!AbsInit
  BY DEF Init, Promise!AbsInit, Promise!AccountNames, Accounts, StatusOf, Booked
<1>2. TypeOK /\ EvidenceInv /\ OnceInv /\ [Next]_vars => [Promise!AbsNext]_(Promise!absVars)
  <2> SUFFICES ASSUME TypeOK, EvidenceInv, OnceInv, [Next]_vars
               PROVE  [Promise!AbsNext]_(Promise!absVars)
    OBVIOUS
  <2>a. ASSUME UNCHANGED <<posted, prov, bal>>
        PROVE  UNCHANGED Promise!absVars
    BY <2>a DEF Promise!absVars, StatusOf, Booked
  <2>b. ASSUME UNCHANGED <<posted, prov, bal>>
        PROVE  [Promise!AbsNext]_(Promise!absVars)
    BY <2>a, <2>b
  <2>c. ASSUME NEW o \in Ops, NEW k \in Kinds, Post(k, o), ~Overdraft(k, o), UNCHANGED prov,
               \A e \in posted : e.op = o => e.kind = "res",
               Amount[o] > 0,
               \/ k = "res" /\ Entry("res", o) \notin posted
               \/ /\ Entry("res", o) \in posted
                  /\ \/ k \in {"tx", "txRec"} /\ prov[o] = "SUCCESS"
                     \/ k \in {"rollback", "rollbackRec"} /\ prov[o] = "FAILURE"
        PROVE  Promise!AbsNext
    <3>1. st' = [st EXCEPT ![o] = StatusOf(o)']
      BY <2>c, StatusAfterPost
    <3>2. bal' = [bal EXCEPT ![From[k]] = @ - Amount[o], ![To[k]] = @ + Amount[o]]
      BY <2>c DEF Post
    <3>3. bal[From[k]] >= Amount[o]
      BY <2>c DEF Overdraft, TypeOK, Accounts, Kinds, From
    <3>4. CASE k = "res"
      <4>1. st[o] = "free" /\ StatusOf(o)' = "held"
        BY <2>c, <3>4, StatusOfReservation, StatusAfterPost
      <4>2. Promise!Hold(o)
        BY <2>c, <3>1, <3>2, <3>3, <3>4, <4>1 DEF Promise!Hold, Promise!Move, From, To
      <4> QED
        BY <4>2 DEF Promise!AbsNext
    <3>5. CASE k \in {"tx", "txRec"}
      <4>1. st[o] = "held" /\ StatusOf(o)' = "settled"
        BY <2>c, <3>5, StatusOfReservation, StatusAfterPost
      <4>2. From[k] = "ESCROW" /\ To[k] = "EXTERNAL_SINK"
        BY <3>5 DEF From, To
      <4>3. prov[o] = "SUCCESS"
        BY <2>c, <3>5
      <4>4. Promise!Commit(o)
        BY <2>c, <3>1, <3>2, <3>3, <4>1, <4>2, <4>3 DEF Promise!Commit, Promise!Move
      <4> QED
        BY <4>4 DEF Promise!AbsNext
    <3>6. CASE k \in {"rollback", "rollbackRec"}
      <4>1. st[o] = "held" /\ StatusOf(o)' = "refunded"
        BY <2>c, <3>6, StatusOfReservation, StatusAfterPost
      <4>2. From[k] = "ESCROW" /\ To[k] = "TREASURY"
        BY <3>6 DEF From, To
      <4>3. prov[o] = "FAILURE"
        BY <2>c, <3>6
      <4>4. Promise!Release(o)
        BY <2>c, <3>1, <3>2, <3>3, <4>1, <4>2, <4>3 DEF Promise!Release, Promise!Move
      <4> QED
        BY <4>4 DEF Promise!AbsNext
    <3> QED
      BY <3>4, <3>5, <3>6 DEF Kinds
  <2>d. ASSUME NEW o \in Ops, NEW outcome \in {"SUCCESS", "FAILURE"}, prov[o] = "none",
               Reserved(o), prov' = [prov EXCEPT ![o] = outcome], UNCHANGED <<posted, bal>>
        PROVE  Promise!AbsNext
    <3>1. Amount[o] = 0 \/ st[o] = "held"
      <4>1. \A e \in posted : e.op = o => e.kind = "res"
        BY <2>d DEF EvidenceInv, SettlementFollowsEvidence
      <4> QED
        BY <2>d, <4>1, StatusOfReservation DEF Reserved
    <3>2. UNCHANGED st
      BY <2>d DEF StatusOf, Booked
    <3>3. Promise!Witness(o, outcome)
      BY <2>d, <3>1, <3>2 DEF Promise!Witness
    <3> QED
      BY <3>3 DEF Promise!AbsNext
  <2> USE DEF db, extern
  <2>1. ASSUME NEW w \in Workers, NEW o \in Ops, Start(w, o) PROVE [Promise!AbsNext]_(Promise!absVars)
    BY <2>1, <2>b DEF Start
  <2>2. ASSUME NEW w \in Workers, Insert(w) PROVE [Promise!AbsNext]_(Promise!absVars)
    BY <2>2, <2>b DEF Insert
  <2>3. ASSUME NEW w \in Workers, ConsumeToken(w) PROVE [Promise!AbsNext]_(Promise!absVars)
    BY <2>3, <2>b DEF ConsumeToken
  <2>4. ASSUME NEW w \in Workers, SaveTokenFailed(w) PROVE [Promise!AbsNext]_(Promise!absVars)
    BY <2>4, <2>b DEF SaveTokenFailed
  <2>5. ASSUME NEW w \in Workers, SaveAuthorized(w) PROVE [Promise!AbsNext]_(Promise!absVars)
    BY <2>5, <2>b DEF SaveAuthorized
  <2>6. ASSUME NEW w \in Workers, FindReserve(w) PROVE [Promise!AbsNext]_(Promise!absVars)
    BY <2>6, <2>b DEF FindReserve
  <2>7. ASSUME NEW w \in Workers, Reserve(w) PROVE [Promise!AbsNext]_(Promise!absVars)
    <3>1. CASE UNCHANGED <<posted, bal>>
      BY <2>7, <3>1, <2>b DEF Reserve
    <3>2. CASE ~Duplicate("res", arg[w]) /\ ~Overdraft("res", arg[w]) /\ Post("res", arg[w])
      <4>1. arg[w] \in Ops /\ Amount[arg[w]] > 0
        BY <2>7 DEF Reserve, TypeOK, EvidenceInv, ReservedFirst
      <4>2. Entry("res", arg[w]) \notin posted
        BY <3>2 DEF Duplicate, SameTransaction, Entry
      <4>3. \A e \in posted : e.op = arg[w] => e.kind = "res"
        BY <4>1, <4>2 DEF EvidenceInv, SettlementFollowsEvidence
      <4> QED
        BY <2>7, <2>c, <3>2, <4>1, <4>2, <4>3 DEF Reserve, Kinds
    <3> QED
      BY <2>7, <3>1, <3>2 DEF Reserve
  <2>8. ASSUME NEW w \in Workers, SaveEscrowed(w) PROVE [Promise!AbsNext]_(Promise!absVars)
    BY <2>8, <2>b DEF SaveEscrowed
  <2>9. ASSUME NEW w \in Workers, SaveSubmitted(w) PROVE [Promise!AbsNext]_(Promise!absVars)
    BY <2>9, <2>b DEF SaveSubmitted
  <2>10. ASSUME NEW w \in Workers, Dispatch(w) PROVE [Promise!AbsNext]_(Promise!absVars)
    <3> DEFINE o == arg[w]
    <3>1. o \in Ops /\ Reserved(o)
      BY <2>10 DEF Dispatch, TypeOK, EvidenceInv, ReservedFirst
    <3>2. PICK outcome \in IF prov[o] = "none" THEN {"none", "SUCCESS", "FAILURE"}
                                               ELSE {prov[o]} :
             prov' = [prov EXCEPT ![o] = outcome]
      BY <2>10 DEF Dispatch
    <3>3. UNCHANGED <<posted, bal>>
      BY <2>10 DEF Dispatch
    <3>4. CASE outcome = prov[o]
      <4>1. UNCHANGED prov
        BY <3>1, <3>2, <3>4 DEF TypeOK
      <4> QED
        BY <2>b, <3>3, <4>1
    <3>5. CASE outcome # prov[o]
      <4>1. prov[o] = "none" /\ outcome \in {"SUCCESS", "FAILURE"}
        BY <3>2, <3>5
      <4> QED
        BY <2>d, <3>1, <3>2, <3>3, <4>1
    <3> QED
      BY <3>4, <3>5
  <2>11. ASSUME NEW w \in Workers, Settle(w) PROVE [Promise!AbsNext]_(Promise!absVars)
    <3> DEFINE o == arg[w]
               k == IF res[w] = "SUCCESS" THEN "tx" ELSE "rollback"
    <3>1. CASE UNCHANGED <<posted, bal>>
      BY <2>11, <3>1, <2>b DEF Settle
    <3>2. CASE ~Duplicate(k, o) /\ ~Overdraft(k, o) /\ Post(k, o)
      <4>1. o \in Ops /\ k \in Kinds /\ Amount[o] > 0 /\ Entry("res", o) \in posted
        BY <2>11 DEF Settle, TypeOK, EvidenceInv, ReservedFirst, Reserved, Kinds
      <4>2. res[w] = prov[o] /\ res[w] \in {"SUCCESS", "FAILURE"}
        BY <2>11 DEF Settle, TypeOK, EvidenceInv, AnswersAreEvidence
      <4>3. \A e \in posted : e.op = o => e.kind = "res"
        BY <2>11, <3>2, SettleIsFirst DEF Settle
      <4> QED
        BY <2>11, <2>c, <3>2, <4>1, <4>2, <4>3 DEF Settle
    <3> QED
      BY <2>11, <3>1, <3>2 DEF Settle
  <2>12. ASSUME NEW w \in Workers, SaveOutcome(w) PROVE [Promise!AbsNext]_(Promise!absVars)
    BY <2>12, <2>b DEF SaveOutcome
  <2>13. ASSUME NEW w \in Workers, Crash(w) PROVE [Promise!AbsNext]_(Promise!absVars)
    BY <2>13, <2>b DEF Crash
  <2>14. ASSUME NEW r \in Reconcilers, NEW o \in Ops, RStart(r, o) PROVE [Promise!AbsNext]_(Promise!absVars)
    BY <2>14, <2>b DEF RStart
  <2>15. ASSUME NEW r \in Reconcilers, RMark(r) PROVE [Promise!AbsNext]_(Promise!absVars)
    BY <2>15, <2>b DEF RMark
  <2>16. ASSUME NEW r \in Reconcilers, RQueryAnswered(r) PROVE [Promise!AbsNext]_(Promise!absVars)
    BY <2>16, <2>b DEF RQueryAnswered
  <2>17. ASSUME NEW r \in Reconcilers, RQueryUnanswered(r) PROVE [Promise!AbsNext]_(Promise!absVars)
    BY <2>17, <2>b DEF RQueryUnanswered
  <2>18. ASSUME NEW r \in Reconcilers, RSaveUnknown(r) PROVE [Promise!AbsNext]_(Promise!absVars)
    BY <2>18, <2>b DEF RSaveUnknown
  <2>19. ASSUME NEW r \in Reconcilers, RCheck(r) PROVE [Promise!AbsNext]_(Promise!absVars)
    BY <2>19, <2>b DEF RCheck
  <2>20. ASSUME NEW r \in Reconcilers, RTransfer(r) PROVE [Promise!AbsNext]_(Promise!absVars)
    <3> DEFINE o == rarg[r]
               k == RKind(r)
    <3>1. CASE UNCHANGED <<posted, bal>>
      BY <2>20, <3>1, <2>b DEF RTransfer
    <3>2. CASE ~Duplicate(k, o) /\ ~Overdraft(k, o) /\ Post(k, o)
      <4>1. o \in Ops /\ k \in Kinds /\ Amount[o] > 0 /\ Entry("res", o) \in posted
        BY <2>20 DEF RTransfer, TypeOK, EvidenceInv, ReservedFirst, Reserved, Kinds, RKind
      <4>2. rres[r] = prov[o] /\ rres[r] \in {"SUCCESS", "FAILURE"}
        BY <2>20 DEF RTransfer, TypeOK, EvidenceInv, AnswersAreEvidence
      <4>3. \A e \in posted : e.op = o => e.kind = "res"
        BY <2>20, <3>2, TransferIsFirst DEF RTransfer
      <4> QED
        BY <2>20, <2>c, <3>2, <4>1, <4>2, <4>3 DEF RTransfer, RKind
    <3> QED
      BY <2>20, <3>1, <3>2 DEF RTransfer
  <2>21. ASSUME NEW r \in Reconcilers, RReread(r) PROVE [Promise!AbsNext]_(Promise!absVars)
    BY <2>21, <2>b DEF RReread
  <2>22. ASSUME NEW r \in Reconcilers, RSaveReconciled(r) PROVE [Promise!AbsNext]_(Promise!absVars)
    BY <2>22, <2>b DEF RSaveReconciled
  <2>23. ASSUME NEW r \in Reconcilers, RCrash(r) PROVE [Promise!AbsNext]_(Promise!absVars)
    BY <2>23, <2>b DEF RCrash
  <2>24. ASSUME NEW o \in Ops, ProviderRecords(o) PROVE [Promise!AbsNext]_(Promise!absVars)
    <3>1. Reserved(o)
      BY <2>24 DEF ProviderRecords, EvidenceInv, ReservedFirst
    <3> QED
      BY <2>24, <3>1, <2>d DEF ProviderRecords
  <2>25. ASSUME NEW o \in Ops, TokenExpires(o) PROVE [Promise!AbsNext]_(Promise!absVars)
    BY <2>25, <2>b DEF TokenExpires
  <2>26. CASE UNCHANGED vars
    BY <2>26, <2>b DEF vars
  <2> QED
    BY <2>1, <2>2, <2>3, <2>4, <2>5, <2>6, <2>7, <2>8, <2>9, <2>10, <2>11,
       <2>12, <2>13, <2>14, <2>15, <2>16, <2>17, <2>18, <2>19, <2>20, <2>21,
       <2>22, <2>23, <2>24, <2>25, <2>26
       DEF Next, WorkerStep, ReconcilerStep
<1> QED
  BY <1>1, <1>2, EvidenceInvInductive, OnceInvInductive, PTL
     DEF Spec, ImplementsSettlement, Promise!AbsSpec

-----------------------------------------------------------------------------

(* The row of the operation a call works on, by the step it is about to     *)
(* take: nobody else writes the row meanwhile.                              *)
RowAt ==
    [insert        |-> "absent",     consume         |-> "CREATED",
     saveAuthorized |-> "CREATED",   saveTokenFailed |-> "CREATED",
     findReserve   |-> "AUTHORIZED", reserve         |-> "AUTHORIZED",
     saveEscrowed  |-> "AUTHORIZED", saveSubmitted   |-> "ESCROWED",
     dispatch      |-> "SUBMITTED",  settle          |-> "SUBMITTED",
     saveOutcome   |-> "SUBMITTED"]

Resumable == {"absent", "CREATED", "AUTHORIZED", "ESCROWED"}

(* An operation has one live call, which alone decides its row; nothing was *)
(* submitted while a call may still submit it.                              *)
PathInv ==
    /\ \A v, w \in Workers : pc[v] # "idle" /\ arg[v] = arg[w] => v = w
    /\ \A w \in Workers : pc[w] # "idle" => row[arg[w]] = RowAt[pc[w]]
    /\ \A w \in Workers : pc[w] = "dispatch" => attempts[arg[w]] = 0
    /\ \A o \in Ops : row[o] \in Resumable => attempts[o] = 0
    /\ \A o \in Ops : attempts[o] = 0 => prov[o] = "none"
    /\ SubmittedAtMostOnce

(* The credits of o have left ESCROW. *)
Left(o) == \E e \in posted : e.op = o /\ e.kind # "res"

HeldAmount(o) == IF Entry("res", o) \in posted /\ ~Left(o) THEN Amount[o] ELSE 0

(* ESCROW is what is reserved and has not left. *)
EscrowIsHeld == bal["ESCROW"] = SumFunction([o \in Ops |-> HeldAmount(o)])

(* Nothing is left to do in the ledger for an operation with an outcome. *)
Final(o) == prov[o] # "none" /\ (Amount[o] > 0 => Left(o))

(* An operation is free until AUTHORIZED is durable, and the step that saves *)
(* a terminal row comes after the transfer it stands for.                    *)
TerminalInv ==
    /\ \A e \in posted : Amount[e.op] > 0
    /\ \A o \in Ops : row[o] \in {"absent", "CREATED"} => \A e \in posted : e.op # o
    /\ \A w \in Workers : pc[w] = "saveOutcome" /\ res[w] # "TIMEOUT" =>
          Final(arg[w]) /\ res[w] = prov[arg[w]]
    /\ \A r \in Reconcilers : rpc[r] \in {"reread", "saveReconciled"} => Final(rarg[r])
    /\ \A o \in Ops :
         /\ row[o] = "SUCCEEDED" => Final(o) /\ prov[o] = "SUCCESS"
         /\ row[o] = "FAILED" =>
               \/ Final(o) /\ prov[o] = "FAILURE"
               \/ attempts[o] = 0 /\ \A e \in posted : e.op # o
         /\ row[o] = "RECONCILED" => Final(o)

(* The states of an operation that reconciliation has taken over. *)
TakenOver == {"UNKNOWN", "RECONCILING", "RECONCILED"}

(* The row of the operation a reconciler works on. *)
ReconcilerRows ==
    \A r \in Reconcilers :
        /\ rpc[r] = "mark" => row[rarg[r]] \in {"SUBMITTED"} \cup TakenOver
        /\ rpc[r] \notin {"idle", "mark"} => row[rarg[r]] \in TakenOver

(* One live call per operation and an operator who waits: the row is where   *)
(* the call left it, and the submission is the first.                        *)
LEMMA PathInvInductive ==
    ASSUME SerialExecution, OperatorWaits
    PROVE  Spec => []PathInv
<1> USE ConstantsAssumption
<1>1. Init => PathInv
  BY DEF Init, PathInv, SubmittedAtMostOnce
<1>2. TypeOK /\ OnceInv /\ PathInv /\ [Next]_vars => PathInv'
  <2> SUFFICES ASSUME TypeOK, OnceInv, PathInv, [Next]_vars
               PROVE  PathInv'
    OBVIOUS
  <2>h. \A r \in Reconcilers : rpc[r] # "idle" =>
          /\ rarg[r] \in Ops /\ row[rarg[r]] \notin Resumable
          /\ \A w \in Workers : arg[w] # rarg[r]
    BY DEF TypeOK, OnceInv, HandedOver, InReconciliation, Resumable, Unresolved
  <2> USE DEF TypeOK, PathInv, SubmittedAtMostOnce, RowAt, Resumable, Live, db, extern, worker,
              recon, Go, Return, RGo, RReturn, Save, WorkerLabels, ReconcilerLabels, Unresolved
  <2>1. ASSUME NEW w \in Workers, NEW o \in Ops, Start(w, o) PROVE PathInv'
    BY <2>1, <2>h DEF Start, ResumeAt
  <2>2. ASSUME NEW w \in Workers, Insert(w) PROVE PathInv'
    BY <2>2, <2>h DEF Insert
  <2>3. ASSUME NEW w \in Workers, ConsumeToken(w) PROVE PathInv'
    BY <2>3, <2>h DEF ConsumeToken
  <2>4. ASSUME NEW w \in Workers, SaveTokenFailed(w) PROVE PathInv'
    BY <2>4, <2>h DEF SaveTokenFailed
  <2>5. ASSUME NEW w \in Workers, SaveAuthorized(w) PROVE PathInv'
    BY <2>5, <2>h DEF SaveAuthorized
  <2>6. ASSUME NEW w \in Workers, FindReserve(w) PROVE PathInv'
    BY <2>6, <2>h DEF FindReserve
  <2>7. ASSUME NEW w \in Workers, Reserve(w) PROVE PathInv'
    BY <2>7, <2>h, SMTT(30) DEF Reserve
  <2>8. ASSUME NEW w \in Workers, SaveEscrowed(w) PROVE PathInv'
    BY <2>8, <2>h DEF SaveEscrowed
  <2>9. ASSUME NEW w \in Workers, SaveSubmitted(w) PROVE PathInv'
    BY <2>9, <2>h DEF SaveSubmitted
  <2>10. ASSUME NEW w \in Workers, Dispatch(w) PROVE PathInv'
    BY <2>10, <2>h DEF Dispatch
  <2>11. ASSUME NEW w \in Workers, Settle(w) PROVE PathInv'
    BY <2>11, <2>h DEF Settle
  <2>12. ASSUME NEW w \in Workers, SaveOutcome(w) PROVE PathInv'
    BY <2>12, <2>h DEF SaveOutcome, OutcomeState
  <2>13. ASSUME NEW w \in Workers, Crash(w) PROVE PathInv'
    BY <2>13, <2>h DEF Crash
  <2>14. ASSUME NEW r \in Reconcilers, NEW o \in Ops, RStart(r, o) PROVE PathInv'
    BY <2>14, <2>h DEF RStart
  <2>15. ASSUME NEW r \in Reconcilers, RMark(r) PROVE PathInv'
    BY <2>15, <2>h DEF RMark
  <2>16. ASSUME NEW r \in Reconcilers, RQueryAnswered(r) PROVE PathInv'
    BY <2>16, <2>h DEF RQueryAnswered
  <2>17. ASSUME NEW r \in Reconcilers, RQueryUnanswered(r) PROVE PathInv'
    BY <2>17, <2>h DEF RQueryUnanswered
  <2>18. ASSUME NEW r \in Reconcilers, RSaveUnknown(r) PROVE PathInv'
    BY <2>18, <2>h DEF RSaveUnknown
  <2>19. ASSUME NEW r \in Reconcilers, RCheck(r) PROVE PathInv'
    BY <2>19, <2>h DEF RCheck
  <2>20. ASSUME NEW r \in Reconcilers, RTransfer(r) PROVE PathInv'
    BY <2>20, <2>h DEF RTransfer
  <2>21. ASSUME NEW r \in Reconcilers, RReread(r) PROVE PathInv'
    BY <2>21, <2>h DEF RReread
  <2>22. ASSUME NEW r \in Reconcilers, RSaveReconciled(r) PROVE PathInv'
    BY <2>22, <2>h DEF RSaveReconciled
  <2>23. ASSUME NEW r \in Reconcilers, RCrash(r) PROVE PathInv'
    BY <2>23, <2>h DEF RCrash
  <2>24. ASSUME NEW o \in Ops, ProviderRecords(o) PROVE PathInv'
    BY <2>24, <2>h DEF ProviderRecords
  <2>25. ASSUME NEW o \in Ops, TokenExpires(o) PROVE PathInv'
    BY <2>25, <2>h DEF TokenExpires
  <2>26. CASE UNCHANGED vars
    BY <2>26, <2>h DEF vars
  <2> QED
    BY <2>1, <2>2, <2>3, <2>4, <2>5, <2>6, <2>7, <2>8, <2>9, <2>10, <2>11,
       <2>12, <2>13, <2>14, <2>15, <2>16, <2>17, <2>18, <2>19, <2>20, <2>21,
       <2>22, <2>23, <2>24, <2>25, <2>26
       DEF Next, WorkerStep, ReconcilerStep
<1> QED
  BY <1>1, <1>2, EvidenceInvInductive, OnceInvInductive, PTL DEF Spec

(* Crashes, retries, expired tokens and reconciliation included, the         *)
(* provider receives no operation twice: UNKNOWN is never blindly retried.   *)
THEOREM SubmittedOnce ==
    ASSUME SerialExecution, OperatorWaits
    PROVE  Spec => []SubmittedAtMostOnce
  BY PathInvInductive, PTL DEF PathInv

(* A reconciler works on a row that was SUBMITTED when it read it, and that  *)
(* other reconcilers may have moved since.                                   *)
LEMMA ReconcilerRowsInductive ==
    ASSUME OperatorWaits
    PROVE  Spec => []ReconcilerRows
<1> USE ConstantsAssumption
<1>1. Init => ReconcilerRows
  BY DEF Init, ReconcilerRows
<1>2. TypeOK /\ OnceInv /\ ReconcilerRows /\ [Next]_vars => ReconcilerRows'
  <2> SUFFICES ASSUME TypeOK, OnceInv, ReconcilerRows, [Next]_vars
               PROVE  ReconcilerRows'
    OBVIOUS
  <2>h. \A r \in Reconcilers : rpc[r] # "idle" =>
          rarg[r] \in Ops /\ \A w \in Workers : arg[w] # rarg[r]
    BY DEF TypeOK, OnceInv, HandedOver, InReconciliation
  <2> USE DEF TypeOK, ReconcilerRows, db, extern, worker,
              recon, Go, Return, RGo, RReturn, Save, ReconcilerLabels, Unresolved, TakenOver
  <2>1. ASSUME NEW w \in Workers, NEW o \in Ops, Start(w, o) PROVE ReconcilerRows'
    BY <2>1, <2>h DEF Start
  <2>2. ASSUME NEW w \in Workers, Insert(w) PROVE ReconcilerRows'
    BY <2>2, <2>h DEF Insert
  <2>3. ASSUME NEW w \in Workers, ConsumeToken(w) PROVE ReconcilerRows'
    BY <2>3, <2>h DEF ConsumeToken
  <2>4. ASSUME NEW w \in Workers, SaveTokenFailed(w) PROVE ReconcilerRows'
    BY <2>4, <2>h DEF SaveTokenFailed
  <2>5. ASSUME NEW w \in Workers, SaveAuthorized(w) PROVE ReconcilerRows'
    BY <2>5, <2>h DEF SaveAuthorized
  <2>6. ASSUME NEW w \in Workers, FindReserve(w) PROVE ReconcilerRows'
    BY <2>6, <2>h DEF FindReserve
  <2>7. ASSUME NEW w \in Workers, Reserve(w) PROVE ReconcilerRows'
    BY <2>7, <2>h DEF Reserve
  <2>8. ASSUME NEW w \in Workers, SaveEscrowed(w) PROVE ReconcilerRows'
    BY <2>8, <2>h DEF SaveEscrowed
  <2>9. ASSUME NEW w \in Workers, SaveSubmitted(w) PROVE ReconcilerRows'
    BY <2>9, <2>h DEF SaveSubmitted
  <2>10. ASSUME NEW w \in Workers, Dispatch(w) PROVE ReconcilerRows'
    BY <2>10, <2>h DEF Dispatch
  <2>11. ASSUME NEW w \in Workers, Settle(w) PROVE ReconcilerRows'
    BY <2>11, <2>h DEF Settle
  <2>12. ASSUME NEW w \in Workers, SaveOutcome(w) PROVE ReconcilerRows'
    BY <2>12, <2>h DEF SaveOutcome
  <2>13. ASSUME NEW w \in Workers, Crash(w) PROVE ReconcilerRows'
    BY <2>13, <2>h DEF Crash
  <2>14. ASSUME NEW r \in Reconcilers, NEW o \in Ops, RStart(r, o) PROVE ReconcilerRows'
    BY <2>14, <2>h DEF RStart
  <2>15. ASSUME NEW r \in Reconcilers, RMark(r) PROVE ReconcilerRows'
    BY <2>15, <2>h DEF RMark
  <2>16. ASSUME NEW r \in Reconcilers, RQueryAnswered(r) PROVE ReconcilerRows'
    BY <2>16, <2>h DEF RQueryAnswered
  <2>17. ASSUME NEW r \in Reconcilers, RQueryUnanswered(r) PROVE ReconcilerRows'
    BY <2>17, <2>h DEF RQueryUnanswered
  <2>18. ASSUME NEW r \in Reconcilers, RSaveUnknown(r) PROVE ReconcilerRows'
    BY <2>18, <2>h DEF RSaveUnknown
  <2>19. ASSUME NEW r \in Reconcilers, RCheck(r) PROVE ReconcilerRows'
    BY <2>19, <2>h DEF RCheck
  <2>20. ASSUME NEW r \in Reconcilers, RTransfer(r) PROVE ReconcilerRows'
    BY <2>20, <2>h DEF RTransfer
  <2>21. ASSUME NEW r \in Reconcilers, RReread(r) PROVE ReconcilerRows'
    BY <2>21, <2>h DEF RReread
  <2>22. ASSUME NEW r \in Reconcilers, RSaveReconciled(r) PROVE ReconcilerRows'
    BY <2>22, <2>h DEF RSaveReconciled
  <2>23. ASSUME NEW r \in Reconcilers, RCrash(r) PROVE ReconcilerRows'
    BY <2>23, <2>h DEF RCrash
  <2>24. ASSUME NEW o \in Ops, ProviderRecords(o) PROVE ReconcilerRows'
    BY <2>24, <2>h DEF ProviderRecords
  <2>25. ASSUME NEW o \in Ops, TokenExpires(o) PROVE ReconcilerRows'
    BY <2>25, <2>h DEF TokenExpires
  <2>26. CASE UNCHANGED vars
    BY <2>26, <2>h DEF vars
  <2> QED
    BY <2>1, <2>2, <2>3, <2>4, <2>5, <2>6, <2>7, <2>8, <2>9, <2>10, <2>11,
       <2>12, <2>13, <2>14, <2>15, <2>16, <2>17, <2>18, <2>19, <2>20, <2>21,
       <2>22, <2>23, <2>24, <2>25, <2>26
       DEF Next, WorkerStep, ReconcilerStep
<1> QED
  BY <1>1, <1>2, EvidenceInvInductive, OnceInvInductive, PTL DEF Spec

(* What VALID_OPERATION_TRANSITIONS allows a step to do to the rows, and what *)
(* reconcilers with locks of their own do to a row they share.               *)
RowsLegal ==
    \A o \in Ops :
        row'[o] # row[o] =>
            \/ IF row[o] = "absent" THEN row'[o] = "CREATED"
                                    ELSE row'[o] \in VALID_OPERATION_TRANSITIONS[row[o]]
            \/ {row[o], row'[o]} \subseteq TakenOver

(* save writes without looking, and every request to the reconcile endpoint  *)
(* builds a service with a lock of its own.  Yet with one live call per      *)
(* operation and an operator who waits, every durable change is one that     *)
(* transition_to would allow, or moves a row that reconciliation has taken   *)
(* over among the three states it gives it: nothing brings such an operation *)
(* back to a state from which it would be submitted, failed or paid anew.    *)
THEOREM TransitionsLegal ==
    ASSUME SerialExecution, OperatorWaits
    PROVE  Spec => [][RowsLegal]_vars
<1> USE ConstantsAssumption
<1>1. TypeOK /\ PathInv /\ ReconcilerRows /\ [Next]_vars => RowsLegal
  <2> SUFFICES ASSUME TypeOK, PathInv, ReconcilerRows, [Next]_vars
               PROVE  RowsLegal
    OBVIOUS
  <2>h. /\ \A w \in Workers : pc[w] # "idle" => arg[w] \in Ops /\ row[arg[w]] = RowAt[pc[w]]
        /\ \A r \in Reconcilers : rpc[r] # "idle" => rarg[r] \in Ops
    BY DEF TypeOK, PathInv
  <2> USE DEF TypeOK, RowsLegal, ReconcilerRows, RowAt, VALID_OPERATION_TRANSITIONS, db, Save, ReconcilerLabels, TakenOver
  <2>1. ASSUME NEW w \in Workers, NEW o \in Ops, Start(w, o) PROVE RowsLegal
    BY <2>1, <2>h DEF Start
  <2>2. ASSUME NEW w \in Workers, Insert(w) PROVE RowsLegal
    BY <2>2, <2>h DEF Insert
  <2>3. ASSUME NEW w \in Workers, ConsumeToken(w) PROVE RowsLegal
    BY <2>3, <2>h DEF ConsumeToken
  <2>4. ASSUME NEW w \in Workers, SaveTokenFailed(w) PROVE RowsLegal
    BY <2>4, <2>h DEF SaveTokenFailed
  <2>5. ASSUME NEW w \in Workers, SaveAuthorized(w) PROVE RowsLegal
    BY <2>5, <2>h DEF SaveAuthorized
  <2>6. ASSUME NEW w \in Workers, FindReserve(w) PROVE RowsLegal
    BY <2>6, <2>h DEF FindReserve
  <2>7. ASSUME NEW w \in Workers, Reserve(w) PROVE RowsLegal
    BY <2>7, <2>h DEF Reserve
  <2>8. ASSUME NEW w \in Workers, SaveEscrowed(w) PROVE RowsLegal
    BY <2>8, <2>h DEF SaveEscrowed
  <2>9. ASSUME NEW w \in Workers, SaveSubmitted(w) PROVE RowsLegal
    BY <2>9, <2>h DEF SaveSubmitted
  <2>10. ASSUME NEW w \in Workers, Dispatch(w) PROVE RowsLegal
    BY <2>10, <2>h DEF Dispatch
  <2>11. ASSUME NEW w \in Workers, Settle(w) PROVE RowsLegal
    BY <2>11, <2>h DEF Settle
  <2>12. ASSUME NEW w \in Workers, SaveOutcome(w) PROVE RowsLegal
    BY <2>12, <2>h DEF SaveOutcome, OutcomeState
  <2>13. ASSUME NEW w \in Workers, Crash(w) PROVE RowsLegal
    BY <2>13, <2>h DEF Crash
  <2>14. ASSUME NEW r \in Reconcilers, NEW o \in Ops, RStart(r, o) PROVE RowsLegal
    BY <2>14, <2>h DEF RStart
  <2>15. ASSUME NEW r \in Reconcilers, RMark(r) PROVE RowsLegal
    BY <2>15, <2>h DEF RMark
  <2>16. ASSUME NEW r \in Reconcilers, RQueryAnswered(r) PROVE RowsLegal
    BY <2>16, <2>h DEF RQueryAnswered
  <2>17. ASSUME NEW r \in Reconcilers, RQueryUnanswered(r) PROVE RowsLegal
    BY <2>17, <2>h DEF RQueryUnanswered
  <2>18. ASSUME NEW r \in Reconcilers, RSaveUnknown(r) PROVE RowsLegal
    BY <2>18, <2>h DEF RSaveUnknown
  <2>19. ASSUME NEW r \in Reconcilers, RCheck(r) PROVE RowsLegal
    BY <2>19, <2>h DEF RCheck
  <2>20. ASSUME NEW r \in Reconcilers, RTransfer(r) PROVE RowsLegal
    BY <2>20, <2>h DEF RTransfer
  <2>21. ASSUME NEW r \in Reconcilers, RReread(r) PROVE RowsLegal
    BY <2>21, <2>h DEF RReread
  <2>22. ASSUME NEW r \in Reconcilers, RSaveReconciled(r) PROVE RowsLegal
    BY <2>22, <2>h DEF RSaveReconciled
  <2>23. ASSUME NEW r \in Reconcilers, RCrash(r) PROVE RowsLegal
    BY <2>23, <2>h DEF RCrash
  <2>24. ASSUME NEW o \in Ops, ProviderRecords(o) PROVE RowsLegal
    BY <2>24, <2>h DEF ProviderRecords
  <2>25. ASSUME NEW o \in Ops, TokenExpires(o) PROVE RowsLegal
    BY <2>25, <2>h DEF TokenExpires
  <2>26. CASE UNCHANGED vars
    BY <2>26, <2>h DEF vars
  <2> QED
    BY <2>1, <2>2, <2>3, <2>4, <2>5, <2>6, <2>7, <2>8, <2>9, <2>10, <2>11,
       <2>12, <2>13, <2>14, <2>15, <2>16, <2>17, <2>18, <2>19, <2>20, <2>21,
       <2>22, <2>23, <2>24, <2>25, <2>26
       DEF Next, WorkerStep, ReconcilerStep
<1>2. RowsLegal => [RowsLegal]_vars
  OBVIOUS
<1> QED
  BY <1>1, <1>2, TypeInvariant, PathInvInductive, ReconcilerRowsInductive, PTL
     DEF Spec

(* A reservation adds to what ESCROW holds, the one settlement of it takes   *)
(* the same amount out.                                                      *)
LEMMA EscrowAfterPost ==
    ASSUME TypeOK, EscrowIsHeld, NEW k \in Kinds, NEW o \in Ops, Post(k, o),
           \A e \in posted : e.op = o => e.kind = "res",
           k = "res" <=> Entry("res", o) \notin posted
    PROVE  EscrowIsHeld'
<1> DEFINE f == [p \in Ops |-> HeldAmount(p)]
           g == [p \in Ops |-> HeldAmount(p)']
<1>1. posted' = posted \cup {Entry(k, o)}
  BY DEF Post
<1>2. \A p \in Ops : p # o => HeldAmount(p)' = HeldAmount(p)
  BY <1>1 DEF HeldAmount, Left, Entry
<1>3. Amount[o] \in Nat /\ \A p \in Ops : Amount[p] \in Int
  BY ConstantsAssumption
<1>4. /\ k = "res" => HeldAmount(o) = 0 /\ HeldAmount(o)' = Amount[o]
      /\ k # "res" => HeldAmount(o) = Amount[o] /\ HeldAmount(o)' = 0
  <2>1. ~Left(o)
    BY DEF Left
  <2>2. k = "res" => ~Left(o)' /\ Entry("res", o) \in posted'
    BY <1>1 DEF Left, Entry
  <2>3. k # "res" => Left(o)'
    <3>1. Entry(k, o) \in posted' /\ Entry(k, o).op = o /\ Entry(k, o).kind = k
      BY <1>1 DEF Entry
    <3> QED
      BY <3>1 DEF Left
  <2> QED
    BY <2>1, <2>2, <2>3 DEF HeldAmount
<1>5. f \in [Ops -> Int] /\ g \in [Ops -> Int]
  BY <1>3 DEF HeldAmount
<1>6. (\A p \in Ops : p # o => f[p] = g[p]) /\ f[o] = HeldAmount(o) /\ g[o] = HeldAmount(o)'
  BY <1>2
<1>7. bal["ESCROW"] = SumFunction(f) /\ bal["ESCROW"] \in Int
  BY DEF EscrowIsHeld, TypeOK, Accounts
<1>8. bal'["ESCROW"] = bal["ESCROW"] + (IF k = "res" THEN Amount[o] ELSE 0 - Amount[o])
  BY <1>3 DEF Post, TypeOK, Accounts, Kinds, From, To
<1>9. IsFiniteSet(Ops)
  BY ConstantsAssumption
<1>10. SumFunction([p \in Ops |-> HeldAmount(p)])' = SumFunction(g)
  OBVIOUS
<1> HIDE DEF f, g
<1>11. SumFunction(g) = SumFunction(f) - f[o] + g[o]
  BY <1>5, <1>6, <1>9, SumChange
<1>12. bal'["ESCROW"] = SumFunction(g)
  <2>1. CASE k = "res"
    BY <2>1, <1>3, <1>4, <1>6, <1>7, <1>8, <1>11
  <2>2. CASE k # "res"
    BY <2>2, <1>3, <1>4, <1>6, <1>7, <1>8, <1>11
  <2> QED
    BY <2>1, <2>2
<1> QED
  BY <1>10, <1>12 DEF EscrowIsHeld

(* ESCROW covers every operation whose credits have not left. *)
LEMMA EscrowCovers ==
    ASSUME TypeOK, EscrowIsHeld, NEW o \in Ops, Entry("res", o) \in posted, ~Left(o)
    PROVE  bal["ESCROW"] >= Amount[o]
<1> DEFINE f == [p \in Ops |-> HeldAmount(p)]
<1>1. \A p \in Ops : Amount[p] \in Nat
  BY ConstantsAssumption
<1>2. f \in [Ops -> Nat] /\ f[o] = Amount[o] /\ bal["ESCROW"] = SumFunction(f)
  BY <1>1 DEF HeldAmount, EscrowIsHeld
<1>3. IsFiniteSet(Ops)
  BY ConstantsAssumption
<1> HIDE DEF f
<1>4. SumFunction(f) \in Nat /\ f[o] <= SumFunction(f)
  BY <1>2, <1>3, SumNat
<1> QED
  BY <1>1, <1>2, <1>4

(* ESCROW holds exactly what is reserved and has not left. *)
LEMMA EscrowIsHeldInductive ==
    ASSUME OperatorWaits
    PROVE  Spec => []EscrowIsHeld
<1> USE ConstantsAssumption
<1>1. Init => EscrowIsHeld
  <2> SUFFICES ASSUME Init PROVE EscrowIsHeld
    OBVIOUS
  <2> DEFINE f == [o \in Ops |-> HeldAmount(o)]
  <2>1. f \in [Ops -> Int] /\ \A o \in Ops : f[o] = 0
    BY DEF Init, HeldAmount
  <2>2. bal["ESCROW"] = 0
    BY DEF Init, Accounts
  <2> HIDE DEF f
  <2>3. SumFunction(f) = 0
    BY <2>1, SumZero
  <2> QED
    BY <2>2, <2>3 DEF EscrowIsHeld, f
<1>2. TypeOK /\ EvidenceInv /\ OnceInv /\ EscrowIsHeld /\ [Next]_vars => EscrowIsHeld'
  <2> SUFFICES ASSUME TypeOK, EvidenceInv, OnceInv, EscrowIsHeld, [Next]_vars
               PROVE  EscrowIsHeld'
    OBVIOUS
  <2>a. ASSUME UNCHANGED <<posted, bal>> PROVE EscrowIsHeld'
    BY <2>a DEF EscrowIsHeld, HeldAmount, Left
  <2> USE DEF db
  <2>1. ASSUME NEW w \in Workers, NEW o \in Ops, Start(w, o) PROVE EscrowIsHeld'
    BY <2>1, <2>a DEF Start
  <2>2. ASSUME NEW w \in Workers, Insert(w) PROVE EscrowIsHeld'
    BY <2>2, <2>a DEF Insert
  <2>3. ASSUME NEW w \in Workers, ConsumeToken(w) PROVE EscrowIsHeld'
    BY <2>3, <2>a DEF ConsumeToken
  <2>4. ASSUME NEW w \in Workers, SaveTokenFailed(w) PROVE EscrowIsHeld'
    BY <2>4, <2>a DEF SaveTokenFailed
  <2>5. ASSUME NEW w \in Workers, SaveAuthorized(w) PROVE EscrowIsHeld'
    BY <2>5, <2>a DEF SaveAuthorized
  <2>6. ASSUME NEW w \in Workers, FindReserve(w) PROVE EscrowIsHeld'
    BY <2>6, <2>a DEF FindReserve
  <2>7. ASSUME NEW w \in Workers, Reserve(w) PROVE EscrowIsHeld'
    <3>1. CASE UNCHANGED <<posted, bal>>
      BY <3>1, <2>a
    <3>2. CASE ~Duplicate("res", arg[w]) /\ Post("res", arg[w])
      <4>1. arg[w] \in Ops
        BY <2>7 DEF Reserve, TypeOK
      <4>2. Entry("res", arg[w]) \notin posted
        BY <3>2 DEF Duplicate, SameTransaction, Entry
      <4>3. \A e \in posted : e.op = arg[w] => e.kind = "res"
        BY <4>2 DEF EvidenceInv, SettlementFollowsEvidence
      <4> QED
        BY <3>2, <4>1, <4>2, <4>3, EscrowAfterPost DEF Kinds
    <3> QED
      BY <2>7, <3>1, <3>2 DEF Reserve
  <2>8. ASSUME NEW w \in Workers, SaveEscrowed(w) PROVE EscrowIsHeld'
    BY <2>8, <2>a DEF SaveEscrowed
  <2>9. ASSUME NEW w \in Workers, SaveSubmitted(w) PROVE EscrowIsHeld'
    BY <2>9, <2>a DEF SaveSubmitted
  <2>10. ASSUME NEW w \in Workers, Dispatch(w) PROVE EscrowIsHeld'
    BY <2>10, <2>a DEF Dispatch
  <2>11. ASSUME NEW w \in Workers, Settle(w) PROVE EscrowIsHeld'
    <3> DEFINE k == IF res[w] = "SUCCESS" THEN "tx" ELSE "rollback"
    <3>1. CASE UNCHANGED <<posted, bal>>
      BY <3>1, <2>a
    <3>2. CASE ~Duplicate(k, arg[w]) /\ Post(k, arg[w])
      <4>1. arg[w] \in Ops /\ Entry("res", arg[w]) \in posted
        BY <2>11 DEF Settle, TypeOK, EvidenceInv, ReservedFirst, Reserved
      <4>2. \A e \in posted : e.op = arg[w] => e.kind = "res"
        BY <2>11, <3>2, SettleIsFirst DEF Settle
      <4> QED
        BY <3>2, <4>1, <4>2, EscrowAfterPost DEF Kinds
    <3> QED
      BY <2>11, <3>1, <3>2 DEF Settle
  <2>12. ASSUME NEW w \in Workers, SaveOutcome(w) PROVE EscrowIsHeld'
    BY <2>12, <2>a DEF SaveOutcome
  <2>13. ASSUME NEW w \in Workers, Crash(w) PROVE EscrowIsHeld'
    BY <2>13, <2>a DEF Crash
  <2>14. ASSUME NEW r \in Reconcilers, NEW o \in Ops, RStart(r, o) PROVE EscrowIsHeld'
    BY <2>14, <2>a DEF RStart
  <2>15. ASSUME NEW r \in Reconcilers, RMark(r) PROVE EscrowIsHeld'
    BY <2>15, <2>a DEF RMark
  <2>16. ASSUME NEW r \in Reconcilers, RQueryAnswered(r) PROVE EscrowIsHeld'
    BY <2>16, <2>a DEF RQueryAnswered
  <2>17. ASSUME NEW r \in Reconcilers, RQueryUnanswered(r) PROVE EscrowIsHeld'
    BY <2>17, <2>a DEF RQueryUnanswered
  <2>18. ASSUME NEW r \in Reconcilers, RSaveUnknown(r) PROVE EscrowIsHeld'
    BY <2>18, <2>a DEF RSaveUnknown
  <2>19. ASSUME NEW r \in Reconcilers, RCheck(r) PROVE EscrowIsHeld'
    BY <2>19, <2>a DEF RCheck
  <2>20. ASSUME NEW r \in Reconcilers, RTransfer(r) PROVE EscrowIsHeld'
    <3>1. CASE UNCHANGED <<posted, bal>>
      BY <3>1, <2>a
    <3>2. CASE ~Duplicate(RKind(r), rarg[r]) /\ Post(RKind(r), rarg[r])
      <4>1. rarg[r] \in Ops /\ Entry("res", rarg[r]) \in posted
        BY <2>20 DEF RTransfer, TypeOK, EvidenceInv, ReservedFirst, Reserved
      <4>2. \A e \in posted : e.op = rarg[r] => e.kind = "res"
        BY <2>20, <3>2, TransferIsFirst DEF RTransfer
      <4> QED
        BY <3>2, <4>1, <4>2, EscrowAfterPost DEF Kinds, RKind
    <3> QED
      BY <2>20, <3>1, <3>2 DEF RTransfer
  <2>21. ASSUME NEW r \in Reconcilers, RReread(r) PROVE EscrowIsHeld'
    BY <2>21, <2>a DEF RReread
  <2>22. ASSUME NEW r \in Reconcilers, RSaveReconciled(r) PROVE EscrowIsHeld'
    BY <2>22, <2>a DEF RSaveReconciled
  <2>23. ASSUME NEW r \in Reconcilers, RCrash(r) PROVE EscrowIsHeld'
    BY <2>23, <2>a DEF RCrash
  <2>24. ASSUME NEW o \in Ops, ProviderRecords(o) PROVE EscrowIsHeld'
    BY <2>24, <2>a DEF ProviderRecords
  <2>25. ASSUME NEW o \in Ops, TokenExpires(o) PROVE EscrowIsHeld'
    BY <2>25, <2>a DEF TokenExpires
  <2>26. CASE UNCHANGED vars
    BY <2>26, <2>a DEF vars
  <2> QED
    BY <2>1, <2>2, <2>3, <2>4, <2>5, <2>6, <2>7, <2>8, <2>9, <2>10, <2>11,
       <2>12, <2>13, <2>14, <2>15, <2>16, <2>17, <2>18, <2>19, <2>20, <2>21,
       <2>22, <2>23, <2>24, <2>25, <2>26
       DEF Next, WorkerStep, ReconcilerStep
<1> QED
  BY <1>1, <1>2, EvidenceInvInductive, OnceInvInductive, PTL DEF Spec

(* Nothing is ever removed from the ledger, and an outcome never changes. *)
Keeps ==
    /\ posted \subseteq posted'
    /\ \A o \in Ops : prov[o] # "none" => prov'[o] = prov[o]

LEMMA NextKeeps == ASSUME TypeOK, [Next]_vars PROVE Keeps
<1>1. QED
  <2> USE DEF TypeOK, Keeps, db, extern
  <2>1. ASSUME NEW w \in Workers, NEW o \in Ops, Start(w, o) PROVE Keeps
    BY <2>1 DEF Start
  <2>2. ASSUME NEW w \in Workers, Insert(w) PROVE Keeps
    BY <2>2 DEF Insert
  <2>3. ASSUME NEW w \in Workers, ConsumeToken(w) PROVE Keeps
    BY <2>3 DEF ConsumeToken
  <2>4. ASSUME NEW w \in Workers, SaveTokenFailed(w) PROVE Keeps
    BY <2>4 DEF SaveTokenFailed
  <2>5. ASSUME NEW w \in Workers, SaveAuthorized(w) PROVE Keeps
    BY <2>5 DEF SaveAuthorized
  <2>6. ASSUME NEW w \in Workers, FindReserve(w) PROVE Keeps
    BY <2>6 DEF FindReserve
  <2>7. ASSUME NEW w \in Workers, Reserve(w) PROVE Keeps
    BY <2>7 DEF Reserve, Post
  <2>8. ASSUME NEW w \in Workers, SaveEscrowed(w) PROVE Keeps
    BY <2>8 DEF SaveEscrowed
  <2>9. ASSUME NEW w \in Workers, SaveSubmitted(w) PROVE Keeps
    BY <2>9 DEF SaveSubmitted
  <2>10. ASSUME NEW w \in Workers, Dispatch(w) PROVE Keeps
    BY <2>10 DEF Dispatch
  <2>11. ASSUME NEW w \in Workers, Settle(w) PROVE Keeps
    BY <2>11 DEF Settle, Post
  <2>12. ASSUME NEW w \in Workers, SaveOutcome(w) PROVE Keeps
    BY <2>12 DEF SaveOutcome
  <2>13. ASSUME NEW w \in Workers, Crash(w) PROVE Keeps
    BY <2>13 DEF Crash
  <2>14. ASSUME NEW r \in Reconcilers, NEW o \in Ops, RStart(r, o) PROVE Keeps
    BY <2>14 DEF RStart
  <2>15. ASSUME NEW r \in Reconcilers, RMark(r) PROVE Keeps
    BY <2>15 DEF RMark
  <2>16. ASSUME NEW r \in Reconcilers, RQueryAnswered(r) PROVE Keeps
    BY <2>16 DEF RQueryAnswered
  <2>17. ASSUME NEW r \in Reconcilers, RQueryUnanswered(r) PROVE Keeps
    BY <2>17 DEF RQueryUnanswered
  <2>18. ASSUME NEW r \in Reconcilers, RSaveUnknown(r) PROVE Keeps
    BY <2>18 DEF RSaveUnknown
  <2>19. ASSUME NEW r \in Reconcilers, RCheck(r) PROVE Keeps
    BY <2>19 DEF RCheck
  <2>20. ASSUME NEW r \in Reconcilers, RTransfer(r) PROVE Keeps
    BY <2>20 DEF RTransfer, Post
  <2>21. ASSUME NEW r \in Reconcilers, RReread(r) PROVE Keeps
    BY <2>21 DEF RReread
  <2>22. ASSUME NEW r \in Reconcilers, RSaveReconciled(r) PROVE Keeps
    BY <2>22 DEF RSaveReconciled
  <2>23. ASSUME NEW r \in Reconcilers, RCrash(r) PROVE Keeps
    BY <2>23 DEF RCrash
  <2>24. ASSUME NEW o \in Ops, ProviderRecords(o) PROVE Keeps
    BY <2>24 DEF ProviderRecords
  <2>25. ASSUME NEW o \in Ops, TokenExpires(o) PROVE Keeps
    BY <2>25 DEF TokenExpires
  <2>26. CASE UNCHANGED vars
    BY <2>26 DEF vars
  <2> QED
    BY <2>1, <2>2, <2>3, <2>4, <2>5, <2>6, <2>7, <2>8, <2>9, <2>10, <2>11,
       <2>12, <2>13, <2>14, <2>15, <2>16, <2>17, <2>18, <2>19, <2>20, <2>21,
       <2>22, <2>23, <2>24, <2>25, <2>26
       DEF Next, WorkerStep, ReconcilerStep

(* A terminal row is saved after the one transfer it stands for. *)
LEMMA TerminalInvInductive ==
    ASSUME SerialExecution, OperatorWaits
    PROVE  Spec => []TerminalInv
<1> USE ConstantsAssumption
<1>1. Init => TerminalInv
  BY DEF Init, TerminalInv
<1>2. TypeOK /\ EvidenceInv /\ OnceInv /\ PathInv /\ EscrowIsHeld /\ TerminalInv /\ [Next]_vars => TerminalInv'
  <2> SUFFICES ASSUME TypeOK, EvidenceInv, OnceInv, PathInv, EscrowIsHeld, TerminalInv, [Next]_vars
               PROVE  TerminalInv'
    OBVIOUS
  <2>h. /\ \A r \in Reconcilers : rpc[r] # "idle" =>
             /\ rarg[r] \in Ops /\ row[rarg[r]] \in Unresolved \cup {"RECONCILED"}
             /\ \A w \in Workers : arg[w] # rarg[r]
        /\ \A w \in Workers : pc[w] # "idle" => arg[w] \in Ops /\ row[arg[w]] = RowAt[pc[w]]
        /\ \A v, w \in Workers : pc[v] # "idle" /\ arg[v] = arg[w] => v = w
        /\ \A o \in Ops : attempts[o] = 0 => prov[o] = "none"
    BY DEF TypeOK, OnceInv, HandedOver, InReconciliation, PathInv
  <2>k. Keeps /\ \A o \in Ops : (Final(o) => Final(o)') /\ (prov[o] # "none" => prov'[o] = prov[o])
    BY NextKeeps DEF Keeps, Final, Left
  <2> USE DEF TypeOK, TerminalInv, RowAt, db, extern, worker, recon, Go, Return, RGo, RReturn, Save,
              WorkerLabels, ReconcilerLabels, Unresolved
  <2>1. ASSUME NEW w \in Workers, NEW o \in Ops, Start(w, o) PROVE TerminalInv'
    BY <2>1, <2>h, <2>k DEF Start, ResumeAt
  <2>2. ASSUME NEW w \in Workers, Insert(w) PROVE TerminalInv'
    BY <2>2, <2>h, <2>k DEF Insert
  <2>3. ASSUME NEW w \in Workers, ConsumeToken(w) PROVE TerminalInv'
    BY <2>3, <2>h, <2>k DEF ConsumeToken
  <2>4. ASSUME NEW w \in Workers, SaveTokenFailed(w) PROVE TerminalInv'
    BY <2>4, <2>h, <2>k DEF SaveTokenFailed, PathInv, RowAt, Resumable
  <2>5. ASSUME NEW w \in Workers, SaveAuthorized(w) PROVE TerminalInv'
    BY <2>5, <2>h, <2>k DEF SaveAuthorized
  <2>6. ASSUME NEW w \in Workers, FindReserve(w) PROVE TerminalInv'
    BY <2>6, <2>h, <2>k DEF FindReserve
  <2>7. ASSUME NEW w \in Workers, Reserve(w) PROVE TerminalInv'
    <3>1. PICK o : o = arg[w] /\ o \in Ops /\ Amount[o] > 0 /\ row[o] = "AUTHORIZED"
      BY <2>7, <2>h DEF Reserve, EvidenceInv, ReservedFirst
    <3>2. \A e \in posted' : e \in posted \/ e.op = o
      BY <2>7, <3>1 DEF Reserve, Post, Entry
    <3>3. /\ pc' \in [Workers -> WorkerLabels] /\ \A v \in Workers : v # w => pc'[v] = pc[v] /\ arg'[v] = arg[v] /\ res'[v] = res[v]
          /\ pc'[w] \in {"idle", "saveEscrowed"} /\ UNCHANGED <<row, recon, attempts, prov>>
      BY <2>7 DEF Reserve
    <3> QED
      BY <2>h, <2>k, <3>1, <3>2, <3>3
  <2>8. ASSUME NEW w \in Workers, SaveEscrowed(w) PROVE TerminalInv'
    BY <2>8, <2>h, <2>k DEF SaveEscrowed
  <2>9. ASSUME NEW w \in Workers, SaveSubmitted(w) PROVE TerminalInv'
    BY <2>9, <2>h, <2>k DEF SaveSubmitted
  <2>10. ASSUME NEW w \in Workers, Dispatch(w) PROVE TerminalInv'
    BY <2>10, <2>h, <2>k DEF Dispatch, Final
  <2>11. ASSUME NEW w \in Workers, Settle(w) PROVE TerminalInv'
    <3>0. PICK o, k : o = arg[w] /\ k = IF res[w] = "SUCCESS" THEN "tx" ELSE "rollback"
      OBVIOUS
    <3>1. /\ o \in Ops /\ Amount[o] > 0 /\ res[w] = prov[o] /\ res[w] \in {"SUCCESS", "FAILURE"}
          /\ row[o] = "SUBMITTED" /\ \A v \in Workers : arg[v] = o => v = w
      BY <2>11, <2>h, <3>0 DEF Settle, EvidenceInv, ReservedFirst, AnswersAreEvidence, PathInv, RowAt
    <3>2. posted' \subseteq posted \cup {Entry(k, o)}
      BY <2>11, <3>0 DEF Settle, Post
    <3>3. pc'[w] = "saveOutcome" => Entry(k, o) \in posted'
      BY <2>11, <3>0 DEF Settle, Post
    <3>4. k # "res" /\ Entry(k, o).op = o /\ Entry(k, o).kind = k
      BY <3>0 DEF Entry
    <3>5. \A e \in posted' : e \in posted \/ e.op = o
      BY <3>2, <3>4
    <3>6. pc'[w] = "saveOutcome" => Final(o)'
      BY <2>11, <3>0, <3>1, <3>3, <3>4 DEF Settle, Final, Left
    <3>7. /\ pc' \in [Workers -> WorkerLabels] /\ \A v \in Workers : v # w => pc'[v] = pc[v] /\ arg'[v] = arg[v] /\ res'[v] = res[v]
          /\ pc'[w] \in {"idle", "saveOutcome"} /\ (pc'[w] = "saveOutcome" => arg'[w] = o /\ res'[w] = res[w])
          /\ UNCHANGED <<row, recon, attempts, prov>>
      BY <2>11, <3>0 DEF Settle
    <3> QED
      BY <2>h, <2>k, <3>0, <3>1, <3>5, <3>6, <3>7
  <2>12. ASSUME NEW w \in Workers, SaveOutcome(w) PROVE TerminalInv'
    BY <2>12, <2>h, <2>k DEF SaveOutcome, OutcomeState, Final
  <2>13. ASSUME NEW w \in Workers, Crash(w) PROVE TerminalInv'
    BY <2>13, <2>h, <2>k DEF Crash
  <2>14. ASSUME NEW r \in Reconcilers, NEW o \in Ops, RStart(r, o) PROVE TerminalInv'
    BY <2>14, <2>h, <2>k DEF RStart
  <2>15. ASSUME NEW r \in Reconcilers, RMark(r) PROVE TerminalInv'
    BY <2>15, <2>h, <2>k DEF RMark
  <2>16. ASSUME NEW r \in Reconcilers, RQueryAnswered(r) PROVE TerminalInv'
    BY <2>16, <2>h, <2>k DEF RQueryAnswered, Final
  <2>17. ASSUME NEW r \in Reconcilers, RQueryUnanswered(r) PROVE TerminalInv'
    BY <2>17, <2>h, <2>k DEF RQueryUnanswered
  <2>18. ASSUME NEW r \in Reconcilers, RSaveUnknown(r) PROVE TerminalInv'
    BY <2>18, <2>h, <2>k DEF RSaveUnknown
  <2>19. ASSUME NEW r \in Reconcilers, RCheck(r) PROVE TerminalInv'
    <3> DEFINE o == rarg[r]
    <3>1. o \in Ops /\ Amount[o] > 0 /\ Entry("res", o) \in posted /\ rres[r] = prov[o] /\ rres[r] \in {"SUCCESS", "FAILURE"}
      BY <2>19 DEF RCheck, EvidenceInv, ReservedFirst, AnswersAreEvidence, Reserved
    <3>2. ~Left(o) => ~AlreadyBooked(r) /\ ~Overdraft(RKind(r), o)
      <4> SUFFICES ASSUME ~Left(o) PROVE ~AlreadyBooked(r) /\ ~Overdraft(RKind(r), o)
        OBVIOUS
      <4>1. RKind(r) \in {"txRec", "rollbackRec"} /\ From[RKind(r)] = "ESCROW"
        BY DEF RKind, From
      <4>2. \A e \in posted : e.op = o => e.kind = "res"
        BY DEF Left
      <4>3. ~Duplicate(RKind(r), o)
        BY <4>1, <4>2 DEF Duplicate, SameTransaction, Entry
      <4>4. Booked(o, "ESCROW", To[RKind(r)]) = {}
        BY <4>2 DEF Booked, From
      <4>5. bal["ESCROW"] >= Amount[o]
        BY <3>1, EscrowCovers
      <4>6. bal["ESCROW"] \in Int /\ Amount[o] \in Nat
        BY <3>1 DEF Accounts
      <4> QED
        BY <4>1, <4>3, <4>4, <4>5, <4>6 DEF AlreadyBooked, Overdraft
    <3>3. rpc'[r] = "reread" => Final(o)
      BY <2>19, <3>1, <3>2 DEF RCheck, Final
    <3> QED
      BY <2>19, <2>h, <2>k, <3>3 DEF RCheck
  <2>20. ASSUME NEW r \in Reconcilers, RTransfer(r) PROVE TerminalInv'
    <3>0. PICK o : o = rarg[r]
      OBVIOUS
    <3>1. /\ o \in Ops /\ Amount[o] > 0 /\ rres[r] = prov[o] /\ rres[r] \in {"SUCCESS", "FAILURE"}
          /\ row[o] \notin {"absent", "CREATED", "FAILED"} /\ \A w \in Workers : arg[w] # o
      BY <2>20, <2>h, <3>0 DEF RTransfer, EvidenceInv, ReservedFirst, AnswersAreEvidence
    <3>2. posted' \subseteq posted \cup {Entry(RKind(r), o)}
      BY <2>20, <3>0 DEF RTransfer, Post
    <3>3. rpc'[r] = "reread" => Left(o)'
      <4>1. RKind(r) # "res" /\ Entry(RKind(r), o).op = o /\ Entry(RKind(r), o).kind = RKind(r)
        BY DEF RKind, Entry
      <4>2. CASE Post(RKind(r), o)
        <5>1. Entry(RKind(r), o) \in posted'
          BY <4>2 DEF Post
        <5> QED
          BY <4>1, <5>1 DEF Left
      <4>3. CASE Duplicate(RKind(r), o)
        <5>1. PICK e \in posted : SameTransaction(e, Entry(RKind(r), o))
          BY <4>3 DEF Duplicate
        <5>2. e.op = o /\ e.kind = RKind(r) /\ e \in posted'
          BY <2>k, <5>1, <4>1 DEF SameTransaction, RKind, Keeps
        <5> QED
          BY <4>1, <5>2 DEF Left
      <4>4. CASE rpc' = [rpc EXCEPT ![r] = "idle"]
        BY <4>4
      <4> QED
        BY <2>20, <3>0, <4>2, <4>3, <4>4 DEF RTransfer
    <3>4. \A e \in posted' : e \in posted \/ (e.op = o /\ e.kind = RKind(r))
      BY <3>2 DEF Entry
    <3>5. rpc'[r] = "reread" => Final(o)'
      BY <2>20, <3>0, <3>1, <3>3 DEF RTransfer, Final
    <3>6. /\ rpc' \in [Reconcilers -> ReconcilerLabels] /\ \A q \in Reconcilers : q # r => rpc'[q] = rpc[q] /\ rarg'[q] = rarg[q]
          /\ rpc'[r] \in {"idle", "reread"} /\ (rpc'[r] = "reread" => rarg'[r] = o)
          /\ UNCHANGED <<row, worker, attempts, prov>>
      BY <2>20, <3>0 DEF RTransfer
    <3> QED
      BY <2>h, <2>k, <3>0, <3>1, <3>4, <3>5, <3>6, SMTT(30)
  <2>21. ASSUME NEW r \in Reconcilers, RReread(r) PROVE TerminalInv'
    BY <2>21, <2>h, <2>k DEF RReread
  <2>22. ASSUME NEW r \in Reconcilers, RSaveReconciled(r) PROVE TerminalInv'
    BY <2>22, <2>h, <2>k DEF RSaveReconciled
  <2>23. ASSUME NEW r \in Reconcilers, RCrash(r) PROVE TerminalInv'
    BY <2>23, <2>h, <2>k DEF RCrash
  <2>24. ASSUME NEW o \in Ops, ProviderRecords(o) PROVE TerminalInv'
    BY <2>24, <2>h, <2>k DEF ProviderRecords, PathInv
  <2>25. ASSUME NEW o \in Ops, TokenExpires(o) PROVE TerminalInv'
    BY <2>25, <2>h, <2>k DEF TokenExpires
  <2>26. CASE UNCHANGED vars
    BY <2>26, <2>h, <2>k DEF vars
  <2> QED
    BY <2>1, <2>2, <2>3, <2>4, <2>5, <2>6, <2>7, <2>8, <2>9, <2>10, <2>11,
       <2>12, <2>13, <2>14, <2>15, <2>16, <2>17, <2>18, <2>19, <2>20, <2>21,
       <2>22, <2>23, <2>24, <2>25, <2>26
       DEF Next, WorkerStep, ReconcilerStep
<1> QED
  BY <1>1, <1>2, EvidenceInvInductive, OnceInvInductive, PathInvInductive, EscrowIsHeldInductive, PTL DEF Spec

(* Where the credits of an operation are, once they have left ESCROW. *)
LEMMA StatusOnceLeft ==
    ASSUME TypeOK, EvidenceInv, NEW o \in Ops, Left(o)
    PROVE  /\ prov[o] = "SUCCESS" => StatusOf(o) = "settled"
           /\ prov[o] = "FAILURE" => StatusOf(o) = "refunded"
<1>1. PICK e \in posted : e.op = o /\ e.kind # "res"
  BY DEF Left
<1>2. \A d \in posted : d.kind \in Kinds
  BY DEF TypeOK
<1>3. \A d \in posted : d.op = o /\ d.kind # "res" =>
         prov[o] = IF To[d.kind] = "EXTERNAL_SINK" THEN "SUCCESS" ELSE "FAILURE"
  BY DEF EvidenceInv, SettlementFollowsEvidence
<1>4. ASSUME prov[o] = "SUCCESS" PROVE StatusOf(o) = "settled"
  <2>1. e \in Booked(o, "ESCROW", "EXTERNAL_SINK")
    BY <1>1, <1>2, <1>3, <1>4 DEF Booked, From, To, Kinds
  <2> QED
    BY <2>1 DEF StatusOf
<1>5. ASSUME prov[o] = "FAILURE" PROVE StatusOf(o) = "refunded"
  <2>1. e \in Booked(o, "ESCROW", "TREASURY")
    BY <1>1, <1>2, <1>3, <1>5 DEF Booked, From, To, Kinds
  <2>2. Booked(o, "ESCROW", "EXTERNAL_SINK") = {}
    BY <1>2, <1>3, <1>5 DEF Booked, From, To, Kinds
  <2> QED
    BY <2>1, <2>2 DEF StatusOf
<1> QED
  BY <1>4, <1>5

(* Every terminal row has the one ledger result the provider's evidence      *)
(* calls for: SUCCEEDED is settled, FAILED holds nothing back, RECONCILED    *)
(* follows the evidence, whatever crashed or was retried on the way.         *)
THEOREM TerminalRowsUnambiguous ==
    ASSUME SerialExecution, OperatorWaits
    PROVE  Spec => []TerminalUnambiguous
<1>1. ASSUME TypeOK, EvidenceInv, PathInv, TerminalInv PROVE TerminalUnambiguous
  <2> SUFFICES ASSUME NEW o \in Ops
               PROVE  /\ row[o] = "SUCCEEDED" => /\ prov[o] = "SUCCESS"
                                                 /\ Amount[o] > 0 => StatusOf(o) = "settled"
                      /\ row[o] = "FAILED" => /\ prov[o] # "SUCCESS"
                                              /\ StatusOf(o) \in {"free", "refunded"}
                      /\ row[o] = "RECONCILED" =>
                            /\ prov[o] # "none"
                            /\ Amount[o] > 0 => StatusOf(o) = IF prov[o] = "SUCCESS"
                                                              THEN "settled" ELSE "refunded"
    BY DEF TerminalUnambiguous
  <2>1. prov[o] \in {"none", "SUCCESS", "FAILURE"}
    BY <1>1 DEF TypeOK
  <2>2. (\A e \in posted : e.op # o) => StatusOf(o) = "free"
    BY DEF StatusOf, Booked
  <2>3. Amount[o] > 0 \/ \A e \in posted : e.op # o
    BY <1>1 DEF TerminalInv
  <2>4. Final(o) /\ Amount[o] > 0 => StatusOf(o) = IF prov[o] = "SUCCESS" THEN "settled" ELSE "refunded"
    BY <1>1, <2>1, StatusOnceLeft DEF Final
  <2>5. row[o] = "SUCCEEDED" => Final(o) /\ prov[o] = "SUCCESS"
    BY <1>1 DEF TerminalInv
  <2>6. row[o] = "FAILED" => \/ Final(o) /\ prov[o] = "FAILURE"
                             \/ prov[o] = "none" /\ \A e \in posted : e.op # o
    BY <1>1 DEF TerminalInv, PathInv
  <2>7. row[o] = "RECONCILED" => Final(o)
    BY <1>1 DEF TerminalInv
  <2> QED
    BY <2>2, <2>3, <2>4, <2>5, <2>6, <2>7 DEF Final
<1> QED
  BY <1>1, EvidenceInvInductive, PathInvInductive, TerminalInvInductive, PTL
=============================================================================
