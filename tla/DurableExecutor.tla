--------------------------- MODULE DurableExecutor ---------------------------
(***************************************************************************)
(* External execution behind a durable idempotency journal: the             *)
(* DurableControlledExternalExecutor, the SQLiteIdempotencyJournal, the     *)
(* token consumption and the escrow of BaseExecutor, and the engine's save  *)
(* of the receipt, for one organisation.                                    *)
(*                                                                         *)
(* A call is one process_action_proposal that reached executor.execute.  It *)
(* is cut at each commit: the journal, the token journal, each ledger       *)
(* transfer, the external effect and the receipt row.  Calls of several     *)
(* workers interleave; a crash ends those in progress and empties the       *)
(* executor's own cache of consumed tokens.                                 *)
(***************************************************************************)
EXTENDS Integers, FiniteSets, Functions

CONSTANTS
    Keys,            \* operation keys: org id and proposal id
    Contents,        \* fingerprints a proposal may be presented with
    Tokens,          \* authorization tokens the policy engine issued
    Bound,           \* Bound[t]: the key and the content token t is for
    Fee,             \* Fee[k]: requested_credits
    InitialTreasury,
    MaxCalls,        \* bound: calls of execute
    MaxCrashes       \* bound: deaths of the process

ASSUME DurableAssumption ==
    /\ Bound \in [Tokens -> Keys \X Contents]
    /\ IsFiniteSet(Keys) /\ Fee \in [Keys -> Nat] /\ InitialTreasury \in Nat
    /\ MaxCalls \in Nat /\ MaxCrashes \in Nat

VARIABLES
    journal,    \* journal[k]: row of idempotency_operations
    consumed,   \* tokens whose nonce is in the durable token journal
    cache,      \* tokens in the executor's _consumed_tokens
    bal,        \* balances of TREASURY, ESCROW and EXTERNAL_SINK
    receipts,   \* calls with an execution_receipts row
    call,       \* call[i]: place and arguments of a call
    overlapped, \* history: keys an attempt began on while another was in progress
    crashes

vars == <<journal, consumed, cache, bal, receipts, call, overlapped, crashes>>

Calls == 1..MaxCalls        \* numbered in the order they arrive; i also names its receipt

NoRow  == [state |-> "absent", content |-> "none", receipt |-> 0]
NoCall == [pc |-> "idle", key |-> "none", content |-> "none", token |-> "none",
           began |-> "none", effect |-> FALSE, died |-> "no"]

Init ==
    /\ journal = [k \in Keys |-> NoRow]
    /\ consumed = {} /\ cache = {}
    /\ bal = [TREASURY |-> InitialTreasury, ESCROW |-> 0, EXTERNAL_SINK |-> 0]
    /\ receipts = {}
    /\ call = [i \in Calls |-> NoCall]
    /\ overlapped = {} /\ crashes = 0

Ended == {"idle", "refused", "raised", "missing", "returned", "dead"}
Live  == {i \in Calls : call[i].pc \notin Ended}

Goto(i, label) == call' = [call EXCEPT ![i].pc = label]

-----------------------------------------------------------------------------

(* SQLiteIdempotencyJournal.begin: the INSERT decides who owns a new key; a  *)
(* failed key lets everyone in and stays failed.                             *)
BeginStarted(row, content) ==                                         \* mutant
    IF row.state # "absent" /\ row.content # content THEN "refused"
    ELSE IF row.state = "succeeded" THEN "replay" ELSE "verify"

BeginVerdict(row, content) ==
    IF row.state # "absent" /\ row.content # content THEN "refused"
    ELSE IF row.state = "succeeded" THEN "replay"
    ELSE IF row.state = "started" THEN "refused" ELSE "verify"

Begin(i, k, c, t) ==
    /\ call[i].pc = "idle" /\ \A j \in 1..(i - 1) : call[j].pc # "idle"
    /\ call' = [call EXCEPT ![i] = [NoCall EXCEPT
                  !.pc = BeginVerdict(journal[k], c), !.key = k, !.content = c, !.token = t,
                  !.began = journal[k].state]]
    /\ journal' = IF journal[k].state = "absent"
                  THEN [journal EXCEPT ![k] = [state |-> "started", content |-> c, receipt |-> 0]]
                  ELSE journal
    /\ overlapped' = IF \E j \in Live : call[j].key = k THEN overlapped \cup {k} ELSE overlapped
    /\ UNCHANGED <<consumed, cache, bal, receipts, crashes>>

(* A succeeded key answers with the receipt row the journal names. *)
Replay(i) ==
    /\ call[i].pc = "replay"
    /\ Goto(i, IF journal[call[i].key].receipt \in receipts THEN "returned" ELSE "missing")
    /\ UNCHANGED <<journal, consumed, cache, bal, receipts, overlapped, crashes>>

-----------------------------------------------------------------------------
(* ControlledExternalExecutor.execute.                                       *)

(* Decision, token, capability, target, action type and payload are checked  *)
(* before anything moves; passes stands for the checks this model does not   *)
(* tell apart.                                                               *)
VerifyPreconditions(i, passes) ==
    /\ call[i].pc = "verify"
    /\ Goto(i, IF /\ passes
                  /\ call[i].token \notin cache
                  /\ Bound[call[i].token] = <<call[i].key, call[i].content>>
               THEN "consume" ELSE "fail")
    /\ UNCHANGED <<journal, consumed, cache, bal, receipts, overlapped, crashes>>

MarkTokenInMemory(i) ==                                               \* mutant
    /\ call[i].pc = "consume"
    /\ IF call[i].token \in cache
       THEN Goto(i, "fail") /\ UNCHANGED <<consumed, cache>>
       ELSE /\ consumed' = consumed /\ cache' = cache \cup {call[i].token}
            /\ Goto(i, "reserve")
    /\ UNCHANGED <<journal, bal, receipts, overlapped, crashes>>

MarkTokenConsumed(i) ==
    /\ call[i].pc = "consume"
    /\ IF call[i].token \in cache \cup consumed
       THEN Goto(i, "fail") /\ UNCHANGED <<consumed, cache>>
       ELSE /\ consumed' = consumed \cup {call[i].token}
            /\ cache' = cache \cup {call[i].token}
            /\ Goto(i, "reserve")
    /\ UNCHANGED <<journal, bal, receipts, overlapped, crashes>>

Transfer(from, to, n) == bal' = [bal EXCEPT ![from] = @ - n, ![to] = @ + n]

(* The reservation is outside the try: an overdraft ends the call with its   *)
(* token spent and nothing to roll back.                                     *)
ReserveCredits(i) ==
    /\ call[i].pc = "reserve"
    /\ IF bal.TREASURY >= Fee[call[i].key]
       THEN Transfer("TREASURY", "ESCROW", Fee[call[i].key]) /\ Goto(i, "dispatch")
       ELSE Goto(i, "fail") /\ UNCHANGED bal
    /\ UNCHANGED <<journal, consumed, cache, receipts, overlapped, crashes>>

(* The external call.  "answered": it happened and a usable answer came;     *)
(* "lost": it happened, but the caller met a timeout, a redirect or an       *)
(* oversized answer; "refused": it did not happen.                           *)
Outcomes == {"answered", "lost", "refused"}

Dispatch(i, outcome) ==
    /\ call[i].pc = "dispatch"
    /\ call' = [call EXCEPT ![i].effect = (outcome # "refused"),
                            ![i].pc = IF outcome = "answered" THEN "commit" ELSE "rollback"]
    /\ UNCHANGED <<journal, consumed, cache, bal, receipts, overlapped, crashes>>

CommitReservation(i) ==
    /\ call[i].pc = "commit"
    /\ Transfer("ESCROW", "EXTERNAL_SINK", Fee[call[i].key])
    /\ Goto(i, "succeed")
    /\ UNCHANGED <<journal, consumed, cache, receipts, overlapped, crashes>>

RollbackReservation(i) ==
    /\ call[i].pc = "rollback"
    /\ Transfer("ESCROW", "TREASURY", Fee[call[i].key])
    /\ Goto(i, "fail")
    /\ UNCHANGED <<journal, consumed, cache, receipts, overlapped, crashes>>

-----------------------------------------------------------------------------
(* The journal's other half, and the engine's receipt.                       *)

Succeed(i) ==
    /\ call[i].pc = "succeed"
    /\ journal' = [journal EXCEPT ![call[i].key] =
                     [state |-> "succeeded", content |-> @.content, receipt |-> i]]
    /\ Goto(i, "save")
    /\ UNCHANGED <<consumed, cache, bal, receipts, overlapped, crashes>>

FailAlways(i) ==                                                      \* mutant
    /\ call[i].pc = "fail"
    /\ journal' = [journal EXCEPT ![call[i].key].state = "failed"]
    /\ Goto(i, "raised")
    /\ UNCHANGED <<consumed, cache, bal, receipts, overlapped, crashes>>

FailSilent(i) ==                                                      \* mutant
    /\ call[i].pc = "fail"
    /\ journal' = journal
    /\ Goto(i, "raised")
    /\ UNCHANGED <<consumed, cache, bal, receipts, overlapped, crashes>>

Fail(i) ==
    /\ call[i].pc = "fail"
    /\ journal' = IF journal[call[i].key].state = "succeeded" THEN journal
                  ELSE [journal EXCEPT ![call[i].key].state = "failed"]
    /\ Goto(i, "raised")
    /\ UNCHANGED <<consumed, cache, bal, receipts, overlapped, crashes>>

(* The engine stores the receipt only after execute has returned. *)
SaveReceipt(i) ==
    /\ call[i].pc = "save"
    /\ receipts' = receipts \cup {i}
    /\ Goto(i, "returned")
    /\ UNCHANGED <<journal, consumed, cache, bal, overlapped, crashes>>

Crash ==
    /\ crashes < MaxCrashes /\ Live # {}
    /\ crashes' = crashes + 1
    /\ call' = [i \in Calls |-> IF i \in Live THEN [call[i] EXCEPT !.pc = "dead", !.died = call[i].pc]
                                   ELSE call[i]]
    /\ cache' = {}
    /\ UNCHANGED <<journal, consumed, bal, receipts, overlapped>>

-----------------------------------------------------------------------------
Step(i) ==
    \/ Replay(i)
    \/ \E passes \in BOOLEAN : VerifyPreconditions(i, passes)
    \/ MarkTokenConsumed(i) \/ ReserveCredits(i)
    \/ \E outcome \in Outcomes : Dispatch(i, outcome)
    \/ CommitReservation(i) \/ RollbackReservation(i)
    \/ Succeed(i) \/ Fail(i) \/ SaveReceipt(i)

Next ==
    \/ \E i \in Calls, k \in Keys, c \in Contents, t \in Tokens : Begin(i, k, c, t)
    \/ \E i \in Calls : Step(i)
    \/ Crash

Spec == Init /\ [][Next]_vars

(* A call that began runs on: every wait in it has a timeout. *)
FairSpec == Spec /\ \A i \in Calls : WF_vars(Step(i))

-----------------------------------------------------------------------------
(* Correctness. *)

Labels == {"replay", "verify", "consume", "reserve", "dispatch", "commit", "rollback",
           "succeed", "fail", "save"}

CallType ==
    [pc : Labels \cup Ended, key : Keys \cup {"none"}, content : Contents \cup {"none"},
     token : Tokens \cup {"none"}, began : {"none", "absent", "started", "succeeded", "failed"},
     effect : BOOLEAN, died : Labels \cup {"no"}]

(* Balances stay natural numbers however the calls interleave: the overdraft  *)
(* check is the ledger's, inside the transfer.                                *)
TypeOK ==
    /\ journal \in [Keys -> [state : {"absent", "started", "succeeded", "failed"},
                             content : Contents \cup {"none"}, receipt : Calls \cup {0}]]
    /\ consumed \subseteq Tokens /\ cache \subseteq Tokens
    /\ bal \in [{"TREASURY", "ESCROW", "EXTERNAL_SINK"} -> Nat]
    /\ receipts \subseteq Calls
    /\ call \in [Calls -> CallType]
    /\ overlapped \subseteq Keys /\ crashes \in 0..MaxCrashes

(* Where a call is, or was when the process died. *)
Place(i) == IF call[i].pc = "dead" THEN call[i].died ELSE call[i].pc

OfKey(k) == {i \in Calls : call[i].key = k}

HeldFee(i) == IF Place(i) \in {"dispatch", "commit", "rollback"} THEN Fee[call[i].key] ELSE 0
DueFee(k)  == IF journal[k].state = "succeeded" THEN Fee[k] ELSE 0

(* ESCROW holds the fees of the calls between their reservation and its end,  *)
(* those a crash stopped there included, and nothing else: a refused or lost  *)
(* call gives its fee back.                                                   *)
EscrowIsInFlight == bal.ESCROW = SumFunction([i \in Calls |-> HeldFee(i)])

(* A token reserves credits for one call, across retries, workers and         *)
(* restarts that empty the executor's own cache.                              *)
TokenReservesOnce ==
    LET reserved == {i \in Calls : Place(i) \in {"dispatch", "commit", "rollback", "succeed", "save"}
                                   \/ call[i].effect}
    IN \A i, j \in reserved : call[i].token = call[j].token => i = j

(* What was paid is what the journal says succeeded: with no crash and no two *)
(* attempts on one key at once, and nobody executing, EXTERNAL_SINK holds the *)
(* fee of every succeeded key once.                                           *)
ChargeMatchesJournal ==
    Live = {} /\ overlapped = {} /\ crashes = 0 =>
        bal.EXTERNAL_SINK = SumFunction([k \in Keys |-> DueFee(k)])

(* No retry reaches the outside while the first attempt on its key is at      *)
(* work, nor after that attempt succeeded or died with the process, wherever  *)
(* it died: only a failure the first attempt wrote itself lets retries in.    *)
FirstAttemptAlone ==
    \A k \in Keys : \A i, j \in OfKey(k) :
        i # j /\ call[i].began = "absent" /\ call[i].pc # "raised" => ~call[j].effect

(* Whatever reached the outside, retries included, is the content the key was *)
(* first presented with.                                                      *)
EffectsKeepContent ==
    \A i \in Calls : call[i].effect => journal[call[i].key].content = call[i].content

(* What the operation key does promise, crashes and lost answers included.    *)
IdempotencyKept == FirstAttemptAlone /\ EffectsKeepContent

(* The receipt a succeeded row names exists, or its call still has to store   *)
(* it, or died before it could: only then does a retry meet the error about   *)
(* a missing receipt.                                                         *)
ReceiptAccounted ==
    \A k \in Keys : journal[k].state = "succeeded" =>
        LET r == journal[k].receipt IN r \in receipts \/ (r \in OfKey(k) /\ Place(r) = "save")

(* Success is final: no late failure of another attempt takes a succeeded row *)
(* back, and its receipt changes only when two attempts overlapped.           *)
SuccessIsFinal ==
    [][\A k \in Keys : journal[k].state = "succeeded" =>
         /\ journal'[k].state = "succeeded"
         /\ journal'[k].receipt = journal[k].receipt \/ k \in overlapped]_vars

(* A key does not stay in progress: unless the process dies, its first        *)
(* attempt marks it succeeded or failed.                                      *)
StartedResolves ==
    \A k \in Keys : journal[k].state = "started" ~> journal[k].state # "started" \/ crashes > 0

(* Fees are accounted for: no balance goes negative, ESCROW is what the calls *)
(* in flight reserved, each on a token of its own, and what the journal says  *)
(* succeeded is charged and has its receipt, or gets it unless its call died. *)
FeesAccounted ==
    TypeOK /\ EscrowIsInFlight /\ TokenReservesOnce /\ ChargeMatchesJournal /\ ReceiptAccounted
=============================================================================
