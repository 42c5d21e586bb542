---------------------------- MODULE Consequential ----------------------------
(***************************************************************************)
(* The consequential execution boundary: ConsequentialExecutionManager     *)
(* (src/src/execution/consequential.py) drives an operation from a policy  *)
(* decision to a provider outcome; ReconciliationService                   *)
(* (src/src/settlement/reconciliation.py) resolves what was left UNKNOWN   *)
(* or was cut off by a crash.  They share four durable things and nothing  *)
(* else: the operation rows, the token journal, the ledger and the         *)
(* provider's own records.                                                 *)
(*                                                                         *)
(* A worker is one call of execute_proposal, a reconciler one call of      *)
(* reconcile_operation; every commit, every provider call and every read   *)
(* whose result is used after another actor could have moved is a step of  *)
(* its own.  An operation is identified with its idempotency key (the      *)
(* column is UNIQUE).  The in-memory copy an actor carries has the state   *)
(* its pc implies, so transition_to, which checks that copy, never refuses *)
(* a step taken here; save writes the copy over whatever the row holds.    *)
(***************************************************************************)
EXTENDS Integers, FiniteSets, FiniteSetsExt

CONSTANTS
    Ops,               \* consequential operations (idempotency keys)
    Tokens,            \* authorization tokens (nonces)
    TokenOf,           \* TokenOf[o]: the token presented with operation o
    Amount,            \* Amount[o]: credits operation o costs (0 is legal)
    InitialTreasury,   \* credits minted to TREASURY
    Workers,           \* concurrent callers of execute_proposal
    Reconcilers,       \* concurrent callers of reconcile_operation
    Services,          \* ReconciliationService instances
    ServiceOf,         \* ServiceOf[r]: the instance (and its lock) r calls
    MaxCrashes,        \* bound: actors lost in the middle of a call
    SerialExecution,   \* deployment: at most one live execute_proposal per op
    OperatorWaits,     \* deployment: no reconcile call while a worker is live
    TokensExpire,      \* whether the 60 s token TTL can run out
    None               \* no operation / no result

ASSUME ConstantsAssumption ==
    /\ IsFiniteSet(Ops)
    /\ TokenOf \in [Ops -> Tokens]
    /\ Amount \in [Ops -> Nat]
    /\ InitialTreasury \in Nat
    /\ ServiceOf \in [Reconcilers -> Services]
    /\ MaxCrashes \in Nat
    /\ SerialExecution \in BOOLEAN
    /\ OperatorWaits \in BOOLEAN
    /\ TokensExpire \in BOOLEAN
    /\ None \notin Ops
    /\ None \notin {"SUCCESS", "FAILURE", "TIMEOUT", "none"}

VARIABLES
    row,        \* row[o]: state column of consequential_operations, or "absent"
    consumed,   \* nonces in authorization_token_consumptions
    posted,     \* ledger entries, each known by its deterministic transaction
    bal,        \* account balances
    prov,       \* prov[o]: outcome in the provider's records, or "none"
    attempts,   \* attempts[o]: submissions the provider received for o
    tokenOK,    \* tokenOK[o]: verify_token still accepts o's token
    pc,         \* pc[w]: the step worker w is about to take
    arg,        \* arg[w]: the operation w executes
    res,        \* res[w]: what the provider call returned to w
    rpc,        \* rpc[r]: the step reconciler r is about to take
    rarg,       \* rarg[r]: the operation r reconciles
    rres,       \* rres[r]: the provider status r holds
    crashes     \* actors lost so far

db     == <<row, consumed, posted, bal>>
extern == <<prov, attempts, tokenOK>>
worker == <<pc, arg, res>>
recon  == <<rpc, rarg, rres>>
vars   == <<db, extern, worker, recon, crashes>>

-----------------------------------------------------------------------------
(* Operation states (domain/entities.py) *)

OperationStates ==
    {"CREATED", "AUTHORIZED", "ESCROWED", "SUBMITTED", "SUCCEEDED", "FAILED",
     "UNKNOWN", "RECONCILING", "RECONCILED"}

VALID_OPERATION_TRANSITIONS ==
    [CREATED     |-> {"AUTHORIZED", "FAILED"},
     AUTHORIZED  |-> {"ESCROWED", "FAILED"},
     ESCROWED    |-> {"SUBMITTED", "FAILED"},
     SUBMITTED   |-> {"SUCCEEDED", "FAILED", "UNKNOWN", "RECONCILING"},
     UNKNOWN     |-> {"RECONCILING"},
     RECONCILING |-> {"RECONCILED", "UNKNOWN"},
     SUCCEEDED   |-> {},
     FAILED      |-> {},
     RECONCILED  |-> {}]

Terminal   == {"SUCCEEDED", "FAILED", "RECONCILED"}

Unresolved == {"SUBMITTED", "UNKNOWN", "RECONCILING"}

-----------------------------------------------------------------------------
(* The ledger (economy/ledger.py, persistence/repositories.py).  Every      *)
(* transaction id is a hash of a prefix and the operation id or the token,  *)
(* so an entry is known by its kind and its operation.                      *)

Accounts == {"TREASURY", "ESCROW", "EXTERNAL_SINK"}

Kinds == {"res", "tx", "rollback", "txRec", "rollbackRec"}

From == [res |-> "TREASURY", tx |-> "ESCROW", rollback |-> "ESCROW",
         txRec |-> "ESCROW", rollbackRec |-> "ESCROW"]

To == [res |-> "ESCROW", tx |-> "EXTERNAL_SINK", rollback |-> "TREASURY",
       txRec |-> "EXTERNAL_SINK", rollbackRec |-> "TREASURY"]

Entry(k, o) == [kind |-> k, op |-> o]

(* tx- and rollback- ids hash the token, the others the operation id. *)
SameTransaction(e, f) ==
    /\ e.kind = f.kind
    /\ IF e.kind \in {"tx", "rollback"} THEN TokenOf[e.op] = TokenOf[f.op]
                                        ELSE e.op = f.op

Duplicate(k, o)  == \E e \in posted : SameTransaction(e, Entry(k, o))
OverdraftOffByOne(k, o) == bal[From[k]] + 1 < Amount[o]              \* mutant
Overdraft(k, o)  == bal[From[k]] < Amount[o]

(* Append the entry and move both balances, in one transaction. *)
Post(k, o) ==
    /\ posted' = posted \cup {Entry(k, o)}
    /\ bal' = [bal EXCEPT ![From[k]] = @ - Amount[o], ![To[k]] = @ + Amount[o]]

(* Entries whose memo names o and that go from one account to another. *)
Booked(o, from, to) ==
    {e \in posted : e.op = o /\ From[e.kind] = from /\ To[e.kind] = to}

-----------------------------------------------------------------------------
(* Bookkeeping of a call: go to the next step, or return / raise. *)

Go(w, label)  == pc' = [pc EXCEPT ![w] = label] /\ UNCHANGED <<arg, res>>
Return(w)     == /\ pc'  = [pc EXCEPT ![w] = "idle"]
                 /\ arg' = [arg EXCEPT ![w] = None]
                 /\ res' = [res EXCEPT ![w] = None]
RGo(r, label) == rpc' = [rpc EXCEPT ![r] = label] /\ UNCHANGED <<rarg, rres>>
RReturn(r)    == /\ rpc'  = [rpc EXCEPT ![r] = "idle"]
                 /\ rarg' = [rarg EXCEPT ![r] = None]
                 /\ rres' = [rres EXCEPT ![r] = None]

Save(o, s) == row' = [row EXCEPT ![o] = s]

Live(o) == \E w \in Workers : arg[w] = o

Init ==
    /\ row = [o \in Ops |-> "absent"]
    /\ consumed = {}
    /\ posted = {}
    /\ bal = [a \in Accounts |-> IF a = "TREASURY" THEN InitialTreasury ELSE 0]
    /\ prov = [o \in Ops |-> "none"]
    /\ attempts = [o \in Ops |-> 0]
    /\ tokenOK = [o \in Ops |-> TRUE]
    /\ pc = [w \in Workers |-> "idle"]
    /\ arg = [w \in Workers |-> None]
    /\ res = [w \in Workers |-> None]
    /\ rpc = [r \in Reconcilers |-> "idle"]
    /\ rarg = [r \in Reconcilers |-> None]
    /\ rres = [r \in Reconcilers |-> None]
    /\ crashes = 0

-----------------------------------------------------------------------------
(* execute_proposal: create_operation *)

ResumeResubmits ==                                                   \* mutant
    [absent |-> "insert", CREATED |-> "consume", AUTHORIZED |-> "findReserve",
     ESCROWED |-> "saveSubmitted", SUBMITTED |-> "saveSubmitted"]

(* Where execute_proposal resumes an operation loaded in state s; every     *)
(* other state is answered at once, with a replayed receipt or an error.    *)
ResumeAt ==
    [absent     |-> "insert",
     CREATED    |-> "consume",
     AUTHORIZED |-> "findReserve",
     ESCROWED   |-> "saveSubmitted"]

(* The token is verified, the row is looked up by key and the call resumes  *)
(* the operation where the row says it stands.                              *)
Start(w, o) ==
    /\ pc[w] = "idle"
    /\ SerialExecution => ~Live(o)
    /\ tokenOK[o]
    /\ row[o] \in DOMAIN ResumeAt
    /\ pc' = [pc EXCEPT ![w] = ResumeAt[row[o]]]
    /\ arg' = [arg EXCEPT ![w] = o]
    /\ UNCHANGED <<db, extern, res, recon, crashes>>

(* The INSERT of a new row; the UNIQUE key refuses the second of two. *)
Insert(w) ==
    /\ pc[w] = "insert"
    /\ \/ /\ row[arg[w]] = "absent"
          /\ Save(arg[w], "CREATED")
          /\ Go(w, "consume")
       \/ /\ row[arg[w]] # "absent"
          /\ Return(w)
          /\ UNCHANGED row
    /\ UNCHANGED <<consumed, posted, bal, extern, recon, crashes>>

ConsumeTokenUnchecked(w) ==                                          \* mutant
    /\ pc[w] = "consume"
    /\ consumed' = consumed \cup {TokenOf[arg[w]]}
    /\ Go(w, "saveAuthorized")
    /\ UNCHANGED <<row, posted, bal, extern, recon, crashes>>

(* authorize_operation: the nonce is inserted, or found already consumed. *)
ConsumeToken(w) ==
    /\ pc[w] = "consume"
    /\ LET t == TokenOf[arg[w]]
       IN /\ consumed' = consumed \cup {t}
          /\ Go(w, IF t \in consumed THEN "saveTokenFailed" ELSE "saveAuthorized")
    /\ UNCHANGED <<row, posted, bal, extern, recon, crashes>>

SaveTokenFailed(w) ==
    /\ pc[w] = "saveTokenFailed"
    /\ Save(arg[w], "FAILED")
    /\ Return(w)
    /\ UNCHANGED <<consumed, posted, bal, extern, recon, crashes>>

SaveAuthorized(w) ==
    /\ pc[w] = "saveAuthorized"
    /\ Save(arg[w], "AUTHORIZED")
    /\ Go(w, "findReserve")
    /\ UNCHANGED <<consumed, posted, bal, extern, recon, crashes>>

FindReserveAssumed(w) ==                                             \* mutant
    /\ pc[w] = "findReserve"
    /\ Go(w, "saveEscrowed")
    /\ UNCHANGED <<db, extern, recon, crashes>>

(* escrow_operation: an earlier attempt's reservation is found and reused. *)
FindReserve(w) ==
    /\ pc[w] = "findReserve"
    /\ Go(w, IF Amount[arg[w]] > 0 /\ Entry("res", arg[w]) \notin posted
             THEN "reserve" ELSE "saveEscrowed")
    /\ UNCHANGED <<db, extern, recon, crashes>>

Reserve(w) ==
    /\ pc[w] = "reserve"
    /\ LET o == arg[w]
       IN \/ /\ ~Duplicate("res", o) /\ ~Overdraft("res", o)
             /\ Post("res", o)
             /\ Go(w, "saveEscrowed")
          \/ /\ Duplicate("res", o) \/ Overdraft("res", o)
             /\ Return(w)
             /\ UNCHANGED <<posted, bal>>
    /\ UNCHANGED <<row, consumed, extern, recon, crashes>>

SaveEscrowed(w) ==
    /\ pc[w] = "saveEscrowed"
    /\ Save(arg[w], "ESCROWED")
    /\ Go(w, "saveSubmitted")
    /\ UNCHANGED <<consumed, posted, bal, extern, recon, crashes>>

(* submit_operation: SUBMITTED is durable before the provider is called. *)
SaveSubmitted(w) ==
    /\ pc[w] = "saveSubmitted"
    /\ Save(arg[w], "SUBMITTED")
    /\ Go(w, "dispatch")
    /\ UNCHANGED <<consumed, posted, bal, extern, recon, crashes>>

(* provider.execute: a key the provider knows keeps its recorded outcome; a *)
(* new one may be recorded; the answer may be lost (timeout, exception).    *)
Dispatch(w) ==
    /\ pc[w] = "dispatch"
    /\ LET o == arg[w]
       IN \E outcome \in IF prov[o] = "none" THEN {"none", "SUCCESS", "FAILURE"}
                                             ELSE {prov[o]} :
             /\ prov' = [prov EXCEPT ![o] = outcome]
             /\ attempts' = [attempts EXCEPT ![o] = @ + 1]
             /\ \E answer \in {"TIMEOUT", outcome} \ {"none"} :
                  /\ res' = [res EXCEPT ![w] = answer]
                  /\ pc' = [pc EXCEPT ![w] = IF answer # "TIMEOUT" /\ Amount[o] > 0
                                             THEN "settle" ELSE "saveOutcome"]
    /\ UNCHANGED <<db, tokenOK, arg, recon, crashes>>

(* The direct settlement. Nothing asks whether reconciliation has settled   *)
(* the operation meanwhile; a duplicate id or an overdraft raises.          *)
Settle(w) ==
    /\ pc[w] = "settle"
    /\ LET o == arg[w]
           k == IF res[w] = "SUCCESS" THEN "tx" ELSE "rollback"
       IN \/ /\ ~Duplicate(k, o) /\ ~Overdraft(k, o)
             /\ Post(k, o)
             /\ Go(w, "saveOutcome")
          \/ /\ Duplicate(k, o) \/ Overdraft(k, o)
             /\ Return(w)
             /\ UNCHANGED <<posted, bal>>
    /\ UNCHANGED <<row, consumed, extern, recon, crashes>>

TimeoutIsFailure ==                                                  \* mutant
    [SUCCESS |-> "SUCCEEDED", FAILURE |-> "FAILED", TIMEOUT |-> "FAILED"]

OutcomeState == [SUCCESS |-> "SUCCEEDED", FAILURE |-> "FAILED", TIMEOUT |-> "UNKNOWN"]

SaveOutcome(w) ==
    /\ pc[w] = "saveOutcome"
    /\ Save(arg[w], OutcomeState[res[w]])
    /\ Return(w)
    /\ UNCHANGED <<consumed, posted, bal, extern, recon, crashes>>

-----------------------------------------------------------------------------
(* reconcile_operation *)

(* The lock of r's service is free: it serialises callers of one instance.  *)
LockFree(r) ==
    \A q \in Reconcilers : rpc[q] # "idle" => ServiceOf[q] # ServiceOf[r]


(* The row is loaded; only an unresolved operation goes any further. *)
RStart(r, o) ==
    /\ rpc[r] = "idle"
    /\ LockFree(r)
    /\ OperatorWaits => ~Live(o)
    /\ row[o] \in Unresolved
    /\ rpc' = [rpc EXCEPT ![r] = IF row[o] = "RECONCILING" THEN "query" ELSE "mark"]
    /\ rarg' = [rarg EXCEPT ![r] = o]
    /\ UNCHANGED <<db, extern, worker, rres, crashes>>

RMark(r) ==
    /\ rpc[r] = "mark"
    /\ Save(rarg[r], "RECONCILING")
    /\ RGo(r, "query")
    /\ UNCHANGED <<consumed, posted, bal, extern, worker, crashes>>

(* provider.status finds an outcome for the operation.  It need not, ever:  *)
(* the blockchain provider knows an operation's transaction only in memory, *)
(* so after a restart it may have no answer for what it did (the next       *)
(* action).  No fairness is stated for either.                              *)
RQueryAnswered(r) ==
    /\ rpc[r] = "query"
    /\ prov[rarg[r]] # "none"
    /\ rres' = [rres EXCEPT ![r] = prov[rarg[r]]]
    /\ rpc' = [rpc EXCEPT ![r] = IF Amount[rarg[r]] > 0 THEN "check" ELSE "reread"]
    /\ UNCHANGED <<db, extern, worker, rarg, crashes>>

(* provider.status knows no outcome, has forgotten it, or is unreachable. *)
RQueryUnanswered(r) ==
    /\ rpc[r] = "query"
    /\ RGo(r, "saveUnknown")
    /\ UNCHANGED <<db, extern, worker, crashes>>

RSaveUnknown(r) ==
    /\ rpc[r] = "saveUnknown"
    /\ Save(rarg[r], "UNKNOWN")
    /\ RReturn(r)
    /\ UNCHANGED <<consumed, posted, bal, extern, worker, crashes>>

RKindAlwaysRefunds(r) == "rollbackRec"                               \* mutant
RKind(r) == IF rres[r] = "SUCCESS" THEN "txRec" ELSE "rollbackRec"

AlreadyBookedById(r) == Duplicate(RKind(r), rarg[r])                 \* mutant

(* The ledger is searched for a settlement of this operation, by either     *)
(* path; a short ESCROW balance skips the transfer without an error.        *)
AlreadyBooked(r) ==
    \/ Duplicate(RKind(r), rarg[r])
    \/ Booked(rarg[r], "ESCROW", To[RKind(r)]) # {}

RCheck(r) ==
    /\ rpc[r] = "check"
    /\ RGo(r, IF ~AlreadyBooked(r) /\ ~Overdraft(RKind(r), rarg[r])
              THEN "transfer" ELSE "reread")
    /\ UNCHANGED <<db, extern, worker, crashes>>

(* A duplicate id is swallowed, an overdraft is raised. *)
RTransfer(r) ==
    /\ rpc[r] = "transfer"
    /\ LET o == rarg[r]
           k == RKind(r)
       IN \/ /\ ~Duplicate(k, o) /\ ~Overdraft(k, o)
             /\ Post(k, o)
             /\ RGo(r, "reread")
          \/ /\ Duplicate(k, o)
             /\ RGo(r, "reread")
             /\ UNCHANGED <<posted, bal>>
          \/ /\ ~Duplicate(k, o) /\ Overdraft(k, o)
             /\ RReturn(r)
             /\ UNCHANGED <<posted, bal>>
    /\ UNCHANGED <<row, consumed, extern, worker, crashes>>

RReread(r) ==
    /\ rpc[r] = "reread"
    /\ \/ row[rarg[r]] = "RECONCILED" /\ RReturn(r)
       \/ row[rarg[r]] # "RECONCILED" /\ RGo(r, "saveReconciled")
    /\ UNCHANGED <<db, extern, worker, crashes>>

RSaveReconciled(r) ==
    /\ rpc[r] = "saveReconciled"
    /\ Save(rarg[r], "RECONCILED")
    /\ RReturn(r)
    /\ UNCHANGED <<consumed, posted, bal, extern, worker, crashes>>

-----------------------------------------------------------------------------
(* The environment *)

(* A process dies, or an unhandled error of the database or the provider    *)
(* ends the call, between two steps: the in-memory copy is gone.            *)
Crash(w) ==
    /\ pc[w] # "idle"
    /\ crashes < MaxCrashes
    /\ crashes' = crashes + 1
    /\ Return(w)
    /\ UNCHANGED <<db, extern, recon>>

RCrash(r) ==
    /\ rpc[r] # "idle"
    /\ crashes < MaxCrashes
    /\ crashes' = crashes + 1
    /\ RReturn(r)
    /\ UNCHANGED <<db, extern, worker>>

(* A submission the provider took without an outcome gets one later: a      *)
(* pending chain transaction is mined, a delayed request is executed.       *)
ProviderRecords(o) ==
    /\ attempts[o] > 0
    /\ prov[o] = "none"
    /\ \E outcome \in {"SUCCESS", "FAILURE"} : prov' = [prov EXCEPT ![o] = outcome]
    /\ UNCHANGED <<db, attempts, tokenOK, worker, recon, crashes>>

TokenExpires(o) ==
    /\ TokensExpire
    /\ tokenOK[o]
    /\ tokenOK' = [tokenOK EXCEPT ![o] = FALSE]
    /\ UNCHANGED <<db, prov, attempts, worker, recon, crashes>>

-----------------------------------------------------------------------------

WorkerStep(w) ==
    \/ Insert(w) \/ ConsumeToken(w) \/ SaveTokenFailed(w) \/ SaveAuthorized(w)
    \/ FindReserve(w) \/ Reserve(w) \/ SaveEscrowed(w)
    \/ SaveSubmitted(w) \/ Dispatch(w) \/ Settle(w) \/ SaveOutcome(w)

ReconcilerStep(r) ==
    \/ RMark(r) \/ RQueryAnswered(r) \/ RQueryUnanswered(r) \/ RSaveUnknown(r)
    \/ RCheck(r) \/ RTransfer(r) \/ RReread(r) \/ RSaveReconciled(r)

Next ==
    \/ \E w \in Workers : WorkerStep(w) \/ Crash(w) \/ \E o \in Ops : Start(w, o)
    \/ \E r \in Reconcilers : ReconcilerStep(r) \/ RCrash(r) \/ \E o \in Ops : RStart(r, o)
    \/ \E o \in Ops : ProviderRecords(o) \/ TokenExpires(o)

Spec == Init /\ [][Next]_vars

-----------------------------------------------------------------------------
(* Properties *)

(* Where the ledger says operation o's credits are. *)
StatusOf(o) ==
    IF Booked(o, "ESCROW", "EXTERNAL_SINK") # {} THEN "settled"
    ELSE IF Booked(o, "ESCROW", "TREASURY") # {} THEN "refunded"
    ELSE IF Booked(o, "TREASURY", "ESCROW") # {} THEN "held"
    ELSE "free"

WorkerLabels ==
    {"idle", "insert", "consume", "saveTokenFailed", "saveAuthorized", "findReserve",
     "reserve", "saveEscrowed", "saveSubmitted", "dispatch", "settle", "saveOutcome"}

ReconcilerLabels ==
    {"idle", "mark", "query", "saveUnknown", "check", "transfer", "reread",
     "saveReconciled"}

(* Every variable has its type, and an actor holds an operation and an      *)
(* answer exactly at the steps that use them.                               *)
TypeOK ==
    /\ row \in [Ops -> OperationStates \cup {"absent"}]
    /\ consumed \subseteq Tokens
    /\ posted \subseteq [kind : Kinds, op : Ops]
    /\ bal \in [Accounts -> Int]
    /\ prov \in [Ops -> {"none", "SUCCESS", "FAILURE"}]
    /\ attempts \in [Ops -> Nat]
    /\ tokenOK \in [Ops -> BOOLEAN]
    /\ pc \in [Workers -> WorkerLabels]
    /\ arg \in [Workers -> Ops \cup {None}]
    /\ res \in [Workers -> {"SUCCESS", "FAILURE", "TIMEOUT", None}]
    /\ rpc \in [Reconcilers -> ReconcilerLabels]
    /\ rarg \in [Reconcilers -> Ops \cup {None}]
    /\ rres \in [Reconcilers -> {"SUCCESS", "FAILURE", None}]
    /\ crashes \in Nat
    /\ \A w \in Workers :
         /\ pc[w] # "idle" <=> arg[w] # None
         /\ pc[w] = "settle" => res[w] \in {"SUCCESS", "FAILURE"}
         /\ pc[w] = "saveOutcome" => res[w] \in {"SUCCESS", "FAILURE", "TIMEOUT"}
    /\ \A r \in Reconcilers :
         /\ rpc[r] # "idle" <=> rarg[r] # None
         /\ rpc[r] \in {"check", "transfer"} => rres[r] \in {"SUCCESS", "FAILURE"}

(* Exactly-one economic settlement, the guarantee reconciliation.py opens   *)
(* with: an operation's credits leave ESCROW at most once, whichever of     *)
(* submit_operation and reconcile_operation moves them, and however often   *)
(* either is cut off and retried.                                           *)
SettledAtMostOnce ==
    \A e, f \in posted :
        e.op = f.op /\ e.kind # "res" /\ f.kind # "res" => e = f

(* TREASURY + ESCROW + EXTERNAL_SINK is what was minted and no account is   *)
(* overdrawn (docs/disaster_recovery.md, Economic Conservation).            *)
Conservation ==
    /\ bal["TREASURY"] + bal["ESCROW"] + bal["EXTERNAL_SINK"] = InitialTreasury
    /\ \A a \in Accounts : bal[a] >= 0

(* Credits leave ESCROW only for an operation that reserved them, and only  *)
(* the way the provider's evidence points: no operation is both paid for    *)
(* and refunded, even when reconciliation overlaps the call it settles.     *)
SettlementFollowsEvidence ==
    \A e \in posted :
        e.kind # "res" =>
            /\ Entry("res", e.op) \in posted
            /\ prov[e.op] = IF To[e.kind] = "EXTERNAL_SINK" THEN "SUCCESS" ELSE "FAILURE"

(* A token pays for one operation: of the operations presented with the     *)
(* same authorization token only one ever touches the ledger.               *)
TokenFundsOneOperation ==
    \A e, f \in posted : TokenOf[e.op] = TokenOf[f.op] => e.op = f.op

(* Every terminal row has one ledger result, the one the provider's         *)
(* evidence calls for (test_adversarial_terminal_economic_states_           *)
(* unambiguous): once no call works on the operation, SUCCEEDED is settled, *)
(* FAILED holds nothing back, and RECONCILED follows the evidence.          *)
TerminalUnambiguous ==
    \A o \in Ops :
        ~Live(o) =>
        /\ row[o] = "SUCCEEDED" => /\ prov[o] = "SUCCESS"
                                   /\ Amount[o] > 0 => StatusOf(o) = "settled"
        /\ row[o] = "FAILED" => /\ prov[o] # "SUCCESS"
                                /\ StatusOf(o) \in {"free", "refunded"}
        /\ row[o] = "RECONCILED" =>
              /\ prov[o] # "none"
              /\ Amount[o] > 0 => StatusOf(o) = IF prov[o] = "SUCCESS"
                                                THEN "settled" ELSE "refunded"

(* An operation is submitted to the provider at most once, crashes and      *)
(* retries included: UNKNOWN operations are never blindly retried.          *)
SubmittedAtMostOnce == \A o \in Ops : attempts[o] <= 1


Promise == INSTANCE Settlement
           WITH status <- [o \in Ops |-> StatusOf(o)], evidence <- prov, balance <- bal

(* The boundary implements the promise of module Settlement: credits are    *)
(* held before the external effect and move once, as the evidence says.     *)
ImplementsSettlement == Promise!AbsSpec
=============================================================================
