----------------------------- MODULE Activation -----------------------------
(***************************************************************************)
(* Activation of Orbio CREDIT on chain: the mainnet driver                  *)
(* (execute_orbio_activation_mainnet.py) with its policy, preflight,        *)
(* verifier and reconciliation by hash; the BlockchainSettlementProvider,   *)
(* the signers and the NonceManager it broadcasts through; and the API      *)
(* server's long-lived provider, which pays from the same account.          *)
(*                                                                         *)
(* A run is one call of the driver's main, with its own NonceManager, or    *)
(* one operation of the server, whose runs share a manager until a restart. *)
(* A run is cut at every RPC.  The chain, its mempool and the wallet that   *)
(* signs exported payloads are external; the Orbio API is left out, since   *)
(* its answer changes only what is printed.  Amounts are in units of        *)
(* MAX_ACTIVATION_AMOUNT; the fields that build_intent fixes (chain,        *)
(* network, contract, amount, gas limit) are one call, "activate".          *)
(***************************************************************************)
EXTENDS Integers, Sequences, FiniteSets, FiniteSetsExt

CONSTANTS
    Settings,        \* command lines and environments the driver is started with
    StrayBlobs,      \* signed transactions the operator holds from elsewhere
    PolicyMaxFee,    \* max_fee_per_gas of the policy, in units of a fee step
    InitialCredit,   \* CREDIT balance of the operator
    MaxPolls,        \* the driver's polls for a receipt (15 in the code)
    MaxRuns,         \* bound: driver and server runs
    MaxLive,         \* bound: runs in progress at once
    MaxFaults        \* bound: evictions, deaths of runs and server restarts

Txs == [by : {"nobody", "operator", "other"}, nonce : Nat, to : 0..MaxRuns, fee : Nat,
        call : {"none", "activate", "activate2", "transfer"}]
NoTx  == [by |-> "nobody", nonce |-> 0, call |-> "none", to |-> 0, fee |-> 0]

ASSUME ActivationAssumption ==
    /\ \A s \in Settings : s.fee \in Nat
    /\ StrayBlobs \subseteq Txs \ {NoTx}
    /\ PolicyMaxFee \in Nat /\ InitialCredit \in Nat
    /\ MaxPolls \in Nat \ {0} /\ MaxRuns \in Nat /\ MaxLive \in Nat /\ MaxFaults \in Nat

VARIABLES
    mined,     \* the account's transactions on chain in nonce order, with their status
    pool,      \* its transactions in the mempool
    credit,    \* CREDIT the operator still holds
    blobs,     \* signed raw transactions that can be pasted into --signed-tx-hex
    run,       \* run[r]: place, arguments and answer of a run
    manager,   \* the server's NonceManager: next nonce and assignments
    life,      \* lives of the server process so far
    careless,  \* history: an attempt began while an earlier one was unresolved
    evicted,   \* history: nonces whose transaction left the mempool unmined
    faults

vars == <<mined, pool, credit, blobs, run, manager, life, careless, evicted, faults>>
chain == <<mined, pool, credit>>

Runs == 1..MaxRuns          \* numbered in the order they start

NoRun == [pc |-> "idle", kind |-> "none", fee |-> 0, nonce |-> -1, tx |-> NoTx,
          sent |-> FALSE, polls |-> 0, report |-> "none", life |-> 0]

(* A run that ended before it signed or exported anything. *)
Nothing == [NoRun EXCEPT !.pc = "done"]

(* A fresh NonceManager. *)
NoNonces == [next |-> 0, assigned |-> {}]

Init ==
    /\ mined = <<>> /\ pool = {} /\ credit = InitialCredit
    /\ blobs = StrayBlobs
    /\ run = [r \in Runs |-> NoRun]
    /\ manager = NoNonces /\ life = 1
    /\ careless = FALSE /\ evicted = {} /\ faults = 0

-----------------------------------------------------------------------------
(* The chain, as the RPC client sees it.                                     *)

Mined == {mined[k].tx : k \in 1..Len(mined)}

(* A node counts the mined transactions and the pending ones it knows of.    *)
FirstFree == Min({n \in Len(mined)..(Len(mined) + Cardinality(pool)) :
                    \A t \in pool : t.nonce # n})
PendingCounts == Len(mined)..FirstFree

(* eth_getTransactionReceipt: what a read may answer.                        *)
ReceiptReads(t) ==
    {"error", "pending"} \cup
    {IF mined[k].ok THEN "success" ELSE "reverted" : k \in {j \in 1..Len(mined) : mined[j].tx = t}}

(* A node takes a transaction that is new and not underpriced.               *)
Acceptable(t) ==
    /\ t.nonce >= Len(mined)
    /\ \A u \in pool : u.nonce = t.nonce => u.fee < t.fee
WithTx(t) == {u \in pool : u.nonce # t.nonce} \cup {t}

Price(t) == CASE t.call = "activate" -> 1 [] t.call = "activate2" -> 2 [] OTHER -> 0

Mine(t, ok) ==
    /\ t \in pool /\ t.nonce = Len(mined)
    /\ ok => credit >= Price(t)
    /\ mined' = Append(mined, [tx |-> t, ok |-> ok])
    /\ pool' = pool \ {t}
    /\ credit' = IF ok THEN credit - Price(t) ELSE credit
    /\ UNCHANGED <<blobs, run, manager, life, careless, evicted, faults>>

Evict(t) ==
    /\ t \in pool /\ faults < MaxFaults
    /\ pool' = pool \ {t} /\ evicted' = evicted \cup {t.nonce} /\ faults' = faults + 1
    /\ UNCHANGED <<mined, credit, blobs, run, manager, life, careless>>

-----------------------------------------------------------------------------
(* load_config and build_signer.                                             *)
SignerMode(s) ==
    IF s.mode # "unset" THEN s.mode ELSE IF s.key # "none" THEN "local" ELSE "external"

ConfigLoads(s) ==
    /\ s.rpc /\ s.confirm
    /\ s.mode = "unset" => s.key # "none" \/ s.hash \/ s.export \/ s.hex
    /\ SignerMode(s) = "local" => s.key # "none"
    /\ s.operator = "operator"

SignerBuilds(s) == SignerMode(s) = "local" => s.key = "operator"

(* build_intent, and the human approval bound to its hash: the hash covers   *)
(* the decision, so the approval is issued again for the rebound intent.     *)
Intent(fee) == [fee |-> fee, decision |-> "pending"]
Approval(i) == [hash |-> i]

IsValidFor(a, i) == a.hash = i

Evaluate(i, a) == i.fee <= PolicyMaxFee /\ IsValidFor(a, i)

(* OrbioCreditActivationBridge.prepare_and_create_operation.                 *)
BridgeCreates(i, a) == Evaluate(i, a)

Authorize(fee) ==
    LET first == Intent(fee)
        bound == [first EXCEPT !.decision = "decided"]
    IN /\ Evaluate(first, Approval(first))
       /\ Evaluate(bound, Approval(bound))
       /\ BridgeCreates(bound, Approval(bound))

(* What main goes on to do, in the order in which it looks at its flags.     *)
Task(s) ==
    IF s.hash THEN "reconcile"
    ELSE IF s.export THEN "export"
    ELSE IF s.dry THEN "dry"
    ELSE IF SignerMode(s) = "local" THEN "local"
    ELSE IF s.hex THEN "signed" ELSE "export"

Ended == {"idle", "done", "dead"}
Live  == {r \in Runs : run[r].pc \notin Ended}

Known == (blobs \cup {run[r].tx : r \in Runs}) \ {NoTx}

(* An attempt is over for the operator when it never left the driver, or     *)
(* when some run reported its transaction as reverted.                       *)
Attempts == {r \in Runs : run[r].kind \in {"local", "signed", "export"}}
Exposed(r) == run[r].sent \/ run[r].kind = "export" \/ run[r].pc = "dead"
Resolved(r) ==
    /\ run[r].pc \in Ended
    /\ Exposed(r) => \E k \in Runs : run[k].tx = run[r].tx /\ run[k].report = "FAILED"

Arrives(r) ==
    /\ run[r].pc = "idle" /\ \A q \in 1..(r - 1) : run[q].pc # "idle"
    /\ Cardinality(Live) < MaxLive

(* The transaction of --reconcile-tx or --signed-tx-hex. *)
Inputs(kind) ==
    CASE kind = "reconcile" -> Known [] kind = "signed" -> blobs [] OTHER -> {NoTx}

(* main, up to its first look at the chain; up: the chain id was read and    *)
(* is the required one.                                                      *)
Start(r, s, t, up) ==
    LET kind == Task(s)
        goes == ConfigLoads(s) /\ SignerBuilds(s) /\ Authorize(s.fee) /\ up
    IN /\ Arrives(r)
       /\ run' = [run EXCEPT ![r] =
             IF goes THEN [NoRun EXCEPT !.pc = IF kind = "reconcile" THEN "lookup" ELSE "preflight",
                                        !.kind = kind, !.fee = s.fee, !.tx = t]
             ELSE Nothing]
       /\ careless' = (careless \/ (goes /\ kind \in {"local", "signed", "export"} /\
             \E q \in Attempts : ~Resolved(q) /\ (kind # "signed" \/ run[q].tx # t)))
       /\ UNCHANGED <<chain, blobs, manager, life, evicted, faults>>

(* A run ends with a report, or with an exception or a refusal; a run that   *)
(* put nothing out leaves nothing behind.                                    *)
Finished(r, report) == [run[r] EXCEPT !.pc = "done", !.report = report, !.polls = 0]
Refused(r) == IF run[r].sent THEN [run[r] EXCEPT !.pc = "done", !.polls = 0] ELSE Nothing
OnlyRun == UNCHANGED <<chain, blobs, manager, life, careless, evicted, faults>>

(* OrbioActivationPreflight.run; ok: every view answered, conserved the      *)
(* amount, and gas and ETH suffice.                                          *)
Preflight(r, ok) ==
    /\ run[r].pc = "preflight"
    /\ run' = [run EXCEPT ![r] =
          IF ~ok \/ credit < 1 THEN Refused(r)
          ELSE IF run[r].kind = "dry" THEN [Nothing EXCEPT !.kind = "dry"]
          ELSE [@ EXCEPT !.pc = IF run[r].kind = "export" THEN "export" ELSE "sign"]]
    /\ OnlyRun

(* The governed payload at the live nonce, printed for an external wallet.   *)
Export(r, n) ==
    /\ run[r].pc = "export"
    /\ run' = [run EXCEPT ![r] = [@ EXCEPT !.pc = "done", !.nonce = n,
          !.tx = [by |-> "operator", nonce |-> n, call |-> "activate", to |-> 0, fee |-> run[r].fee]]]
    /\ OnlyRun

WalletSigns(r) ==
    /\ run[r].kind = "export" /\ run[r].pc = "done" /\ run[r].tx \notin blobs \cup {NoTx}
    /\ blobs' = blobs \cup {run[r].tx}
    /\ UNCHANGED <<chain, run, manager, life, careless, evicted, faults>>

WalletSends(t) ==
    /\ t \in blobs \ StrayBlobs /\ Acceptable(t)
    /\ pool' = WithTx(t)
    /\ UNCHANGED <<mined, credit, blobs, run, manager, life, careless, evicted, faults>>

-----------------------------------------------------------------------------
(* BlockchainSettlementProvider.execute.                                     *)

(* NonceManager.get_or_allocate_nonce, with n from the chain.                *)
AllocateUncounted(m, r, n) ==                                         \* mutant
    [nonce |-> n, next |-> n + 1, assigned |-> m.assigned]

Allocate(m, r, n) ==
    IF \E a \in m.assigned : a.run = r
    THEN [nonce |-> (CHOOSE a \in m.assigned : a.run = r).nonce,
          next |-> m.next, assigned |-> m.assigned]
    ELSE LET allocated == Max({n, m.next})
         IN [nonce |-> allocated, next |-> allocated + 1,
             assigned |-> m.assigned \cup {[run |-> r, nonce |-> allocated]}]

(* The local key signs the intent at the nonce.  The external signer hands   *)
(* over the pasted transaction if the operator signed it, whatever it says.  *)
SignsAnything(r) == run[r].kind \in {"local", "signed", "server"}     \* mutant

Signs(r) == run[r].kind = "signed" => run[r].tx.by = "operator"

SignedTx(r, n) ==
    CASE run[r].kind = "local"  -> [by |-> "operator", nonce |-> n, call |-> "activate",
                                    to |-> 0, fee |-> run[r].fee]
      [] run[r].kind = "server" -> [by |-> "operator", nonce |-> n, call |-> "transfer",
                                    to |-> r, fee |-> 1]
      [] OTHER -> run[r].tx

Sign(r, n) ==
    /\ run[r].pc = "sign"
    /\ LET a == Allocate(IF run[r].kind = "server" THEN manager ELSE NoNonces, r, n)
       IN /\ run' = [run EXCEPT ![r] =
               IF Signs(r) THEN [@ EXCEPT !.pc = "send", !.nonce = a.nonce, !.tx = SignedTx(r, a.nonce)]
               ELSE Refused(r)]
          /\ manager' = IF run[r].kind = "server"
                        THEN [next |-> a.next, assigned |-> a.assigned] ELSE manager
    /\ UNCHANGED <<chain, blobs, life, careless, evicted, faults>>

(* The node could not be asked for the nonce: nothing is assigned or signed. *)
SignFails(r) ==
    /\ run[r].pc \in {"sign", "export"}
    /\ run' = [run EXCEPT ![r] = Refused(r)]
    /\ OnlyRun

(* send_raw_transaction.  An exception leaves open whether the node took the *)
(* transaction; the outcome is TIMEOUT and nobody polls.                     *)
Unknown(r) == Finished(r, IF run[r].kind = "server" THEN "TIMEOUT" ELSE "UNKNOWN_PENDING")

Broadcast(r, taken, answered) ==
    /\ run[r].pc = "send"
    /\ taken => Acceptable(run[r].tx)
    /\ answered => taken
    /\ pool' = IF taken THEN WithTx(run[r].tx) ELSE pool
    /\ run' = [run EXCEPT ![r] = IF answered THEN [@ EXCEPT !.pc = "receipt", !.sent = TRUE]
                                 ELSE [Unknown(r) EXCEPT !.sent = TRUE]]
    /\ UNCHANGED <<mined, credit, blobs, manager, life, careless, evicted, faults>>

(* OrbioCreditActivationVerifier.verify on a successful receipt: it carries  *)
(* an Activated event when the call was an activation.                       *)
Logs(t) == IF t.call \in {"activate", "activate2"} THEN {[amount |-> Price(t), from |-> t.by]} ELSE {}

VerifyAnyAmount(t) ==                                                 \* mutant
    IF \E e \in Logs(t) : e.from = "operator" THEN "VERIFIED_ON_CHAIN" ELSE "NOT_VERIFIED"

Verify(t) ==
    IF \E e \in Logs(t) : e.amount = 1 /\ e.from = "operator"
    THEN "VERIFIED_ON_CHAIN" ELSE "NOT_VERIFIED"

(* The provider's own look for the receipt; a failed read counts as pending. *)
Receipt(r, read) ==
    /\ run[r].pc = "receipt"
    /\ read \in ReceiptReads(run[r].tx)
    /\ run' = [run EXCEPT ![r] =
          IF run[r].kind = "server"
          THEN Finished(r, CASE read = "success" -> "SUCCESS" [] read = "reverted" -> "FAILURE"
                             [] OTHER -> "TIMEOUT")
          ELSE CASE read = "success"  -> [@ EXCEPT !.pc = "verify"]
                 [] read = "reverted" -> Finished(r, "FAILED")
                 [] OTHER             -> [@ EXCEPT !.pc = "poll"]]
    /\ OnlyRun

(* execute_via_provider after SUCCESS: a receipt without logs is fetched     *)
(* again, and a failed read ends the driver.                                 *)
VerifyReceipt(r, up) ==
    /\ run[r].pc = "verify"
    /\ run' = [run EXCEPT ![r] =
          IF Logs(run[r].tx) = {} /\ ~up THEN Refused(r)
          ELSE Finished(r, Verify(run[r].tx))]
    /\ OnlyRun

(* The driver's poll after a pending receipt; a failed read ends the driver  *)
(* with an exception although the transaction is out.                        *)
PollGivesUp(r, read) ==                                               \* mutant
    /\ run[r].pc = "poll" /\ read \in ReceiptReads(run[r].tx)
    /\ run' = [run EXCEPT ![r] =
          CASE read = "error"    -> Refused(r)
            [] read = "success"  -> Finished(r, Verify(run[r].tx))
            [] read = "reverted" -> Finished(r, "FAILED")
            [] OTHER -> IF run[r].polls + 1 = MaxPolls THEN Finished(r, "FAILED")
                        ELSE [@ EXCEPT !.polls = run[r].polls + 1]]
    /\ OnlyRun

Poll(r, read) ==
    /\ run[r].pc = "poll" /\ read \in ReceiptReads(run[r].tx)
    /\ run' = [run EXCEPT ![r] =
          CASE read = "error"    -> Refused(r)
            [] read = "success"  -> Finished(r, Verify(run[r].tx))
            [] read = "reverted" -> Finished(r, "FAILED")
            [] OTHER -> IF run[r].polls + 1 = MaxPolls THEN Unknown(r)
                        ELSE [@ EXCEPT !.polls = run[r].polls + 1]]
    /\ OnlyRun

-----------------------------------------------------------------------------
(* reconcile_via_tx_hash: the transaction must be known to the node, sent by *)
(* the operator, to the contract, with the governed calldata.                *)
Lookup(r, up) ==
    /\ run[r].pc = "lookup"
    /\ LET t == run[r].tx IN run' = [run EXCEPT ![r] =
          IF up /\ t \in pool \cup Mined /\ t.by = "operator" /\ t.call = "activate"
          THEN [@ EXCEPT !.pc = "reconcile"] ELSE Refused(r)]
    /\ OnlyRun

Reconcile(r, read) ==
    /\ run[r].pc = "reconcile" /\ read \in ReceiptReads(run[r].tx)
    /\ run' = [run EXCEPT ![r] =
          CASE read = "error"    -> Refused(r)
            [] read = "pending"  -> Finished(r, "UNKNOWN_PENDING")
            [] read = "reverted" -> Finished(r, "FAILED")
            [] OTHER -> Finished(r, Verify(run[r].tx))]
    /\ OnlyRun

-----------------------------------------------------------------------------
(* The API server: get_settlement_provider keeps one provider per process.   *)
StartServer(r) ==
    /\ Arrives(r)
    /\ run' = [run EXCEPT ![r] = [NoRun EXCEPT !.pc = "sign", !.kind = "server", !.life = life]]
    /\ OnlyRun

(* BlockchainSettlementProvider.status with the stored reference.            *)
Status(r, read) ==
    /\ run[r].kind = "server" /\ run[r].report = "TIMEOUT"
    /\ read \in ReceiptReads(run[r].tx) \cap {"success", "reverted"}
    /\ run' = [run EXCEPT ![r].report = IF read = "success" THEN "SUCCESS" ELSE "FAILURE"]
    /\ OnlyRun

RestartServer ==
    /\ faults < MaxFaults /\ faults' = faults + 1
    /\ life' = life + 1 /\ manager' = NoNonces
    /\ run' = [r \in Runs |-> IF run[r].kind = "server" /\ r \in Live
                              THEN [run[r] EXCEPT !.pc = "dead"] ELSE run[r]]
    /\ UNCHANGED <<chain, blobs, careless, evicted>>

KillDriver(r) ==
    /\ r \in Live /\ run[r].kind # "server"
    /\ faults < MaxFaults /\ faults' = faults + 1
    /\ run' = [run EXCEPT ![r] = IF run[r].pc \in {"send", "receipt", "verify", "poll"}
                                 THEN [@ EXCEPT !.pc = "dead", !.polls = 0] ELSE Nothing]
    /\ UNCHANGED <<chain, blobs, manager, life, careless, evicted>>

-----------------------------------------------------------------------------
Step(r) ==
    \/ \E ok \in BOOLEAN : Preflight(r, ok)
    \/ \E n \in PendingCounts : Export(r, n) \/ Sign(r, n)
    \/ SignFails(r)
    \/ \E taken, answered \in BOOLEAN : Broadcast(r, taken, answered)
    \/ \E read \in ReceiptReads(run[r].tx) :
          Receipt(r, read) \/ Poll(r, read) \/ Reconcile(r, read)
    \/ \E up \in BOOLEAN : VerifyReceipt(r, up) \/ Lookup(r, up)

Next ==
    \/ \E r \in Runs, s \in Settings, up \in BOOLEAN :
          Arrives(r) /\ \E t \in Inputs(Task(s)) : Start(r, s, t, up)
    \/ \E r \in Runs : StartServer(r)
    \/ \E r \in Runs : Step(r)
    \/ \E r \in Runs : \E read \in ReceiptReads(run[r].tx) : Status(r, read)
    \/ \E r \in Runs : WalletSigns(r)
    \/ \E t \in blobs : WalletSends(t)
    \/ \E t \in pool, ok \in BOOLEAN : Mine(t, ok)
    \/ \E t \in pool : Evict(t)
    \/ RestartServer
    \/ \E r \in Runs : KillDriver(r)

Spec == Init /\ [][Next]_vars

-----------------------------------------------------------------------------
(* Properties                                                                *)

Reports == {"none", "VERIFIED_ON_CHAIN", "NOT_VERIFIED", "FAILED", "UNKNOWN_PENDING",
            "SUCCESS", "FAILURE", "TIMEOUT"}

(* Every variable has its type; a run polls for a receipt at most MaxPolls   *)
(* times (the range of execute_via_provider's loop).                         *)
TypeOK ==
    /\ \A k \in 1..Len(mined) : mined[k].tx \in Txs /\ mined[k].tx.nonce = k - 1 /\ mined[k].ok \in BOOLEAN
    /\ pool \subseteq Txs /\ blobs \subseteq Txs /\ credit \in Nat
    /\ \A r \in Runs :
         /\ run[r].pc \in Ended \cup {"preflight", "lookup", "export", "sign", "send", "receipt",
                                      "verify", "poll", "reconcile"}
         /\ run[r].kind \in {"none", "local", "signed", "export", "dry", "reconcile", "server"}
         /\ run[r].tx \in Txs /\ run[r].polls \in 0..MaxPolls
         /\ run[r].report \in Reports
    /\ careless \in BOOLEAN /\ life \in Nat /\ faults \in 0..MaxFaults

Outcome(t) == {mined[k].ok : k \in {j \in 1..Len(mined) : mined[j].tx = t}}

(* main's exit code of a broadcast or a reconciliation.                      *)
ExitCode(report) ==
    CASE report = "UNKNOWN_PENDING" -> 2 [] report = "VERIFIED_ON_CHAIN" -> 0 [] OTHER -> 1

(* A report is what the chain says: exit code 0 only of a mined,       *)
(* successful activation of exactly the governed amount by the operator,     *)
(* FAILED and FAILURE only of a mined and reverted transaction, SUCCESS only *)
(* of a mined and successful one, whatever transaction was pasted and        *)
(* however reads, deaths and evictions fall.                                 *)
ReportTruthful ==
    \A r \in Runs : LET t == run[r].tx IN
        /\ r \notin Live /\ run[r].kind \in {"local", "signed", "reconcile"} /\ ExitCode(run[r].report) = 0 =>
              Outcome(t) = {TRUE} /\ t.by = "operator" /\ t.call = "activate"
        /\ run[r].report \in {"FAILED", "FAILURE"} => Outcome(t) = {FALSE}
        /\ run[r].report = "SUCCESS" => Outcome(t) = {TRUE}

Activations == {k \in 1..Len(mined) : mined[k].ok /\ mined[k].tx.call = "activate"}

(* An operator who starts a new attempt only when every earlier one either   *)
(* ended before its broadcast or was reported FAILED burns CREDIT at most    *)
(* once: a lost answer, a slow receipt or a killed driver is never reported  *)
(* as a failure ("Ambiguous broadcast; do not resend").                      *)
CarefulActivatesOnce == ~careless => Cardinality(Activations) <= 1

(* Whatever a run broadcasts, the operator's key signed; what the local key  *)
(* signs is the governed activation within the policy's fee bound.           *)
BroadcastAuthorised ==
    \A r \in Runs : run[r].sent =>
        /\ run[r].tx.by = "operator"
        /\ run[r].kind = "local" => run[r].tx.call = "activate" /\ run[r].tx.fee <= PolicyMaxFee

(* Two operations of one life of the server never share a nonce, however far *)
(* the node's pending count lags (NonceManager's "strictly sequential").     *)
NoncesDistinct ==
    \A q, r \in Runs :
        /\ q # r /\ run[q].kind = "server" /\ run[r].kind = "server"
        /\ run[q].life = run[r].life /\ run[q].nonce # -1
        => run[q].nonce # run[r].nonce

(* A transaction waits behind a missing nonce only if the missing one was    *)
(* evicted, or was assigned to a server operation of the same life whose     *)
(* broadcast did not get through: the manager advances past a lost broadcast *)
(* and never hands that nonce out again.                                     *)
GapExplained ==
    \A r \in Runs : run[r].tx \in pool /\ run[r].kind \in {"local", "server"} =>
        \A n \in Len(mined)..(run[r].tx.nonce - 1) :
            \/ \E t \in pool : t.nonce = n
            \/ n \in evicted
            \/ \E q \in Runs : run[q].kind = "server" /\ run[q].nonce = n /\ run[q].life = run[r].life

(* Every run stays within its bounds and its authority: it polls at most      *)
(* MaxPolls times, and sends only what the operator's key signed.             *)
RunsBounded == TypeOK /\ BroadcastAuthorised

(* The server's nonces are a sequence: none is handed out twice, and one is   *)
(* missing only for a reason.                                                 *)
NoncesSequential == NoncesDistinct /\ GapExplained
=============================================================================
