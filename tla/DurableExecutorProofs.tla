------------------------- MODULE DurableExecutorProofs -------------------------
(***************************************************************************)
(* Proofs about the durable executor, for every finite set of operation      *)
(* keys, every binding of tokens, every fee and any number of interleaved    *)
(* calls and crashes.                                                        *)
(***************************************************************************)
EXTENDS DurableExecutor, SumTheorems

(* A call that has begun has its key, content and token; only one that has   *)
(* died remembers where.                                                     *)
CallsOK ==
    \A i \in Calls :
        /\ call[i].pc # "idle" => /\ call[i].key \in Keys /\ call[i].content \in Contents
                                  /\ call[i].token \in Tokens /\ call[i].began # "none"
        /\ call[i].pc = "dead" => call[i].died \in Labels
        /\ call[i].pc = "idle" => ~call[i].effect /\ call[i].began = "none"

(* A call past the consumption of its token, or that had an effect.          *)
Spent(i) ==
    Place(i) \in {"reserve", "dispatch", "commit", "rollback", "succeed", "save"} \/ call[i].effect

(* The durable nonce of a spent token is written, and is one call's.         *)
TokensSpent ==
    /\ \A i \in Calls : Spent(i) => call[i].token \in consumed
    /\ \A i, j \in Calls : Spent(i) /\ Spent(j) /\ call[i].token = call[j].token => i = j

Working == {"verify", "consume", "reserve", "dispatch", "commit", "rollback", "succeed", "fail"}

(* Two calls in progress on one key overlap, and so do a call at work and    *)
(* the success of its key.                                                   *)
OverlapsSeen ==
    /\ \A i, j \in Live : i # j /\ call[i].key = call[j].key => call[i].key \in overlapped
    /\ \A i \in Calls : call[i].pc \in Working /\ journal[call[i].key].state = "succeeded"
                            => call[i].key \in overlapped

(* A key is charged once its fee was committed, which the journal says one   *)
(* step later.                                                               *)
Charged(k) == journal[k].state = "succeeded" \/ \E i \in OfKey(k) : call[i].pc = "succeed"
ChargedFee(k) == IF Charged(k) THEN Fee[k] ELSE 0

SinkIsCharged ==
    overlapped = {} /\ crashes = 0 =>
        bal.EXTERNAL_SINK = SumFunction([k \in Keys |-> ChargedFee(k)])

(* What a call found in the journal when it began decides how far it goes.   *)
BeganDecides ==
    \A i \in Calls :
        /\ call[i].began \in {"started", "succeeded"} =>
               call[i].pc \in {"refused", "replay", "returned", "missing", "dead"} /\ ~call[i].effect
        /\ call[i].pc = "replay" => call[i].began = "succeeded"
        /\ call[i].pc \in {"refused", "replay", "missing"} =>
               ~call[i].effect /\ call[i].began # "absent"

Begun == Working \cup {"save", "returned", "dead"}

(* The call that inserted the row is alone on its key while the row is in    *)
(* progress, after its success and after its death: the others were refused  *)
(* or replayed.                                                              *)
InserterAlone ==
    /\ \A k \in Keys : journal[k].state = "absent" =>
           \A i \in Calls : call[i].key = k => call[i].pc = "idle"
    /\ \A i \in Calls : call[i].began = "absent" /\ call[i].pc \in Begun =>
           /\ call[i].pc \in Working => journal[call[i].key].state = "started"
           /\ call[i].pc \in {"save", "returned"} => journal[call[i].key].state = "succeeded"
           /\ journal[call[i].key].state \in {"started", "succeeded"}
           /\ \A j \in Calls : j # i /\ call[j].key = call[i].key /\ call[j].pc # "idle" =>
                  call[j].began \in {"started", "succeeded"}

(* A call the journal let through has the content of its row.                *)
ContentAgrees ==
    \A i \in Calls : call[i].pc \notin {"idle", "refused"} =>
        /\ journal[call[i].key].state # "absent"
        /\ journal[call[i].key].content = call[i].content

(* The inductive invariant. *)
IInv ==
    /\ TypeOK /\ CallsOK /\ EscrowIsInFlight /\ TokensSpent /\ OverlapsSeen
    /\ SinkIsCharged /\ BeganDecides /\ InserterAlone /\ ContentAgrees /\ ReceiptAccounted

-----------------------------------------------------------------------------

(* The calls are finitely many. *)
LEMMA CallsFinite == IsFiniteSet(Calls)
  BY FS_Interval, DurableAssumption DEF Calls

(* A call holds a fee, or nothing. *)
LEMMA HeldFeeNat ==
  ASSUME TypeOK, CallsOK
  PROVE  \A i \in Calls : HeldFee(i) \in Nat
<1> SUFFICES ASSUME NEW i \in Calls PROVE HeldFee(i) \in Nat
  OBVIOUS
<1>1. CASE Place(i) \in {"dispatch", "commit", "rollback"}
  <2>1. call[i].pc # "idle"
    BY <1>1 DEF Place
  <2>2. call[i].key \in Keys
    BY <2>1 DEF CallsOK
  <2> QED
    BY <1>1, <2>2, DurableAssumption DEF HeldFee
<1>2. CASE Place(i) \notin {"dispatch", "commit", "rollback"}
  BY <1>2 DEF HeldFee
<1> QED
  BY <1>1, <1>2

(* No call holds more than ESCROW. *)
LEMMA HeldFeeBound ==
  ASSUME TypeOK, CallsOK, EscrowIsInFlight
  PROVE  \A i \in Calls : HeldFee(i) <= bal.ESCROW
<1> DEFINE f == [i \in Calls |-> HeldFee(i)]
<1>1. f \in [Calls -> Nat]
  BY HeldFeeNat
<1>2. \A i \in Calls : f[i] <= SumFunction(f)
  <2> HIDE DEF f
  <2> QED
    BY <1>1, CallsFinite, SumNat
<1> QED
  BY <1>2 DEF EscrowIsInFlight

(* A step of call i leaves the other calls alone, and of its own record it   *)
(* changes the place and, at the dispatch, the effect.                       *)
MovesOnly(i) ==
    /\ call[i].pc \in Labels
    /\ call' \in [Calls -> CallType]
    /\ \A j \in Calls : j # i => call'[j] = call[j]
    /\ call'[i].pc \in (Labels \cup Ended) \ {"idle", "dead", "replay", "verify", "refused"}
    /\ call'[i].key = call[i].key /\ call'[i].content = call[i].content
    /\ call'[i].token = call[i].token /\ call'[i].began = call[i].began
    /\ call'[i].died = call[i].died
    /\ call'[i].effect # call[i].effect => call[i].pc = "dispatch"

(* Every step of a call is such a move. *)
LEMMA StepMoves ==
  ASSUME TypeOK, NEW i \in Calls, Step(i)
  PROVE  MovesOnly(i)
<1> USE DEF TypeOK, CallType, Labels, Ended, Goto, MovesOnly
<1>1. CASE Replay(i)
  BY <1>1, SMTT(30) DEF Replay
<1>2. ASSUME NEW passes \in BOOLEAN, VerifyPreconditions(i, passes) PROVE MovesOnly(i)
  BY <1>2 DEF VerifyPreconditions
<1>3. CASE MarkTokenConsumed(i)
  BY <1>3 DEF MarkTokenConsumed
<1>4. CASE ReserveCredits(i)
  BY <1>4 DEF ReserveCredits
<1>5. ASSUME NEW outcome \in Outcomes, Dispatch(i, outcome) PROVE MovesOnly(i)
  BY <1>5 DEF Dispatch
<1>6. CASE CommitReservation(i)
  BY <1>6, SMTT(30) DEF CommitReservation
<1>7. CASE RollbackReservation(i)
  BY <1>7, SMTT(30) DEF RollbackReservation
<1>8. CASE Succeed(i)
  BY <1>8 DEF Succeed
<1>9. CASE Fail(i)
  BY <1>9, SMTT(30) DEF Fail
<1>10. CASE SaveReceipt(i)
  BY <1>10, ZenonT(60) DEF SaveReceipt
<1> QED
  BY <1>1, <1>2, <1>3, <1>4, <1>5, <1>6, <1>7, <1>8, <1>9, <1>10 DEF Step

(* A call begins with the verdict of the journal. *)
Opens(i, k, c, t) ==
    /\ call[i].pc = "idle"
    /\ call' \in [Calls -> CallType]
    /\ \A j \in Calls : j # i => call'[j] = call[j]
    /\ call'[i].pc = BeginVerdict(journal[k], c)
    /\ call'[i].pc \in {"refused", "replay", "verify"}
    /\ call'[i].key = k /\ call'[i].content = c /\ call'[i].token = t
    /\ call'[i].began = journal[k].state /\ call'[i].began # "none"
    /\ call'[i].effect = FALSE /\ call'[i].died = "no"

LEMMA BeginOpens ==
  ASSUME TypeOK, NEW i \in Calls, NEW k \in Keys, NEW c \in Contents, NEW t \in Tokens,
         Begin(i, k, c, t)
  PROVE  Opens(i, k, c, t)
<1>1. BeginVerdict(journal[k], c) \in {"refused", "replay", "verify"}
  BY DEF BeginVerdict
<1>2. journal[k].state \in {"absent", "started", "succeeded", "failed"}
  BY DEF TypeOK
<1> HIDE DEF BeginVerdict
<1>3. /\ call[i].pc = "idle"
      /\ call' = [call EXCEPT ![i] = [NoCall EXCEPT
                  !.pc = BeginVerdict(journal[k], c), !.key = k, !.content = c, !.token = t,
                  !.began = journal[k].state]]
  BY DEF Begin
<1> QED
  BY <1>1, <1>2, <1>3 DEF Opens, NoCall, TypeOK, CallType, Labels, Ended

(* A crash moves the calls in progress to "dead" and keeps their places. *)
Dies ==
    /\ call' \in [Calls -> CallType]
    /\ \A i \in Calls :
         /\ call'[i].pc = IF i \in Live THEN "dead" ELSE call[i].pc
         /\ call'[i].died = IF i \in Live THEN call[i].pc ELSE call[i].died
         /\ call'[i].key = call[i].key /\ call'[i].content = call[i].content
         /\ call'[i].token = call[i].token /\ call'[i].began = call[i].began
         /\ call'[i].effect = call[i].effect
         /\ Place(i)' = Place(i)

LEMMA CrashKeepsPlaces ==
  ASSUME TypeOK, Crash
  PROVE  Dies
<1>1. ASSUME NEW i \in Calls, i \in Live PROVE call[i].pc \in Labels
  BY <1>1 DEF TypeOK, CallType, Live, Labels, Ended
<1>2. ASSUME NEW i \in Calls, i \in Live
      PROVE  call'[i] = [call[i] EXCEPT !.pc = "dead", !.died = call[i].pc] /\ call'[i] \in CallType
  <2>1. call'[i] = [call[i] EXCEPT !.pc = "dead", !.died = call[i].pc]
    BY <1>2 DEF Crash
  <2>2. call[i] \in CallType
    BY DEF TypeOK
  <2> QED
    BY <1>1, <1>2, <2>1, <2>2 DEF CallType, Ended
<1>3. ASSUME NEW i \in Calls, i \notin Live
      PROVE  call'[i] = call[i] /\ call'[i] \in CallType
  BY <1>3 DEF Crash, TypeOK
<1>4. call' \in [Calls -> CallType]
  BY <1>2, <1>3 DEF Crash
<1>5. ASSUME NEW i \in Calls, i \in Live
      PROVE  /\ call'[i].pc = "dead" /\ call'[i].died = call[i].pc
             /\ call'[i].key = call[i].key /\ call'[i].content = call[i].content
             /\ call'[i].token = call[i].token /\ call'[i].began = call[i].began
             /\ call'[i].effect = call[i].effect
  <2>1. call[i] \in CallType /\ call'[i] = [call[i] EXCEPT !.pc = "dead", !.died = call[i].pc]
    BY <1>2, <1>5 DEF TypeOK
  <2> QED
    BY <2>1 DEF CallType
<1>6. ASSUME NEW i \in Calls PROVE Place(i)' = Place(i)
  <2>1. i \in Live => call[i].pc # "dead"
    BY DEF Live, Ended
  <2> QED
    BY <1>3, <1>5, <2>1 DEF Place
<1> QED
  BY <1>3, <1>4, <1>5, <1>6 DEF Dies

(* Every call in progress has its arguments, before and after any step.      *)
LEMMA CallsKept ==
  ASSUME TypeOK, CallsOK, [Next]_vars
  PROVE  CallsOK'
<1>1. ASSUME NEW i \in Calls, NEW k \in Keys, NEW c \in Contents, NEW t \in Tokens,
             Begin(i, k, c, t)
      PROVE  CallsOK'
  <2>1. Opens(i, k, c, t)
    BY <1>1, BeginOpens
  <2> QED
    BY <2>1 DEF Opens, CallsOK
<1>2. ASSUME NEW i \in Calls, Step(i) PROVE CallsOK'
  BY <1>2, StepMoves DEF MovesOnly, CallsOK, Labels
<1>3. CASE Crash
  BY <1>3, CrashKeepsPlaces DEF Dies, CallsOK, Live, Ended, TypeOK, CallType, Labels
<1>4. CASE UNCHANGED vars
  BY <1>4 DEF vars, CallsOK
<1> QED
  BY <1>1, <1>2, <1>3, <1>4 DEF Next

(* The held fees change by those of the one call that moves. *)
LEMMA HeldChange ==
  ASSUME TypeOK, CallsOK, NEW i \in Calls, CallsOK', call' \in [Calls -> CallType],
         \A j \in Calls : j # i => call'[j] = call[j]
  PROVE  SumFunction([j \in Calls |-> HeldFee(j)])'
           = SumFunction([j \in Calls |-> HeldFee(j)]) - HeldFee(i) + HeldFee(i)'
<1> DEFINE f == [j \in Calls |-> HeldFee(j)]
           g == [j \in Calls |-> HeldFee(j)']
<1>1. f \in [Calls -> Int]
  BY HeldFeeNat
<1>2. \A j \in Calls : HeldFee(j)' \in Nat
  <2> SUFFICES ASSUME NEW j \in Calls PROVE HeldFee(j)' \in Nat
    OBVIOUS
  <2>1. CASE Place(j)' \in {"dispatch", "commit", "rollback"}
    <3>1. call'[j].key \in Keys
      BY <2>1 DEF CallsOK, Place
    <3> QED
      BY <2>1, <3>1, DurableAssumption DEF HeldFee
  <2> QED
    BY <2>1 DEF HeldFee
<1>3. g \in [Calls -> Int]
  BY <1>2
<1>4. \A j \in Calls : j # i => f[j] = g[j]
  BY DEF HeldFee, Place
<1>5. SumFunction(g) = SumFunction(f) - f[i] + g[i]
  <2> HIDE DEF f, g
  <2> QED
    BY <1>1, <1>3, <1>4, CallsFinite, SumChange
<1> QED
  BY <1>5

(* A transfer between two accounts, of what the first one holds. *)
LEMMA TransferNat ==
  ASSUME TypeOK, NEW from \in {"TREASURY", "ESCROW", "EXTERNAL_SINK"},
         NEW to \in {"TREASURY", "ESCROW", "EXTERNAL_SINK"}, from # to,
         NEW n \in Nat, n <= bal[from], Transfer(from, to, n)
  PROVE  /\ bal' \in [{"TREASURY", "ESCROW", "EXTERNAL_SINK"} -> Nat]
         /\ bal'[from] = bal[from] - n /\ bal'[to] = bal[to] + n
         /\ \A x \in {"TREASURY", "ESCROW", "EXTERNAL_SINK"} \ {from, to} : bal'[x] = bal[x]
  BY DEF TypeOK, Transfer

(* Types and the escrow balance go together: a commit and a rollback find    *)
(* their fee in ESCROW because the calls in flight put it there.             *)
LEMMA EscrowKept ==
  ASSUME TypeOK, CallsOK, EscrowIsInFlight, [Next]_vars
  PROVE  TypeOK' /\ EscrowIsInFlight'
<1>0. CallsOK'
  BY CallsKept
<1>a. /\ bal \in [{"TREASURY", "ESCROW", "EXTERNAL_SINK"} -> Nat]
      /\ bal.TREASURY \in Nat /\ bal.ESCROW \in Nat /\ bal.EXTERNAL_SINK \in Nat
  BY DEF TypeOK
<1>1. ASSUME NEW i \in Calls, NEW k \in Keys, NEW c \in Contents, NEW t \in Tokens,
             Begin(i, k, c, t)
      PROVE  TypeOK' /\ EscrowIsInFlight'
  <2>1. Opens(i, k, c, t)
    BY <1>1, BeginOpens
  <2>2. HeldFee(i) = 0 /\ HeldFee(i)' = 0
    BY <2>1 DEF Opens, HeldFee, Place
  <2>3. bal'.ESCROW = bal.ESCROW
    BY <1>1 DEF Begin
  <2>4. EscrowIsInFlight'
    BY <1>0, <1>a, <2>1, <2>2, <2>3, HeldChange DEF EscrowIsInFlight, Opens
  <2>5. journal' \in [Keys -> [state : {"absent", "started", "succeeded", "failed"},
                             content : Contents \cup {"none"}, receipt : Calls \cup {0}]]
    BY <1>1 DEF Begin, TypeOK
  <2>6. overlapped' \subseteq Keys
    BY <1>1 DEF Begin, TypeOK
  <2> QED
    BY <1>1, <2>1, <2>4, <2>5, <2>6 DEF Begin, Opens, TypeOK
<1>2. ASSUME NEW i \in Calls, Step(i) PROVE TypeOK' /\ EscrowIsInFlight'
  <2>1. MovesOnly(i)
    BY <1>2, StepMoves
  <2>2. SumFunction([j \in Calls |-> HeldFee(j)])'
           = SumFunction([j \in Calls |-> HeldFee(j)]) - HeldFee(i) + HeldFee(i)'
    BY <1>0, <2>1, HeldChange DEF MovesOnly
  <2>3. bal'.ESCROW = bal.ESCROW - HeldFee(i) + HeldFee(i)' => EscrowIsInFlight'
    BY <2>2 DEF EscrowIsInFlight
  <2>4. call[i].pc # "idle" /\ call[i].key \in Keys /\ Fee[call[i].key] \in Nat /\ call[i].token \in Tokens
    BY <2>1, DurableAssumption DEF MovesOnly, CallsOK, Labels
  <2>5. /\ call[i].pc \in {"dispatch", "commit", "rollback"} => HeldFee(i) = Fee[call[i].key]
        /\ call[i].pc \in Labels \ {"dispatch", "commit", "rollback"} => HeldFee(i) = 0
        /\ call'[i].pc \in {"dispatch", "commit", "rollback"} => HeldFee(i)' = Fee[call[i].key]
        /\ call'[i].pc \in (Labels \cup Ended) \ {"idle", "dead", "dispatch", "commit", "rollback"} => HeldFee(i)' = 0
    BY <2>1 DEF MovesOnly, HeldFee, Place, Labels, Ended
  <2>6. call[i].pc \in {"commit", "rollback"} => Fee[call[i].key] <= bal.ESCROW
    BY <2>5, HeldFeeBound
  <2>7. HeldFee(i) \in Nat
    BY HeldFeeNat
  <2>8. UNCHANGED bal /\ HeldFee(i)' = HeldFee(i) => EscrowIsInFlight'
    BY <1>a, <2>3, <2>7
  <2> USE DEF MovesOnly, Labels, Ended, TypeOK
  <2>9. CASE Replay(i)
    <3>1. call'[i].pc \in {"returned", "missing"}
      BY <2>9 DEF Replay, Goto, CallType
    <3> QED
      BY <2>1, <2>5, <2>8, <2>9, <3>1 DEF Replay
  <2>10. ASSUME NEW passes \in BOOLEAN, VerifyPreconditions(i, passes) PROVE TypeOK' /\ EscrowIsInFlight'
    <3>1. call'[i].pc \in {"consume", "fail"}
      BY <2>10 DEF VerifyPreconditions, Goto
    <3> QED
      BY <2>1, <2>5, <2>8, <2>10, <3>1 DEF VerifyPreconditions
  <2>11. CASE MarkTokenConsumed(i)
    <3>1. call'[i].pc \in {"reserve", "fail"} /\ UNCHANGED bal
      BY <2>11 DEF MarkTokenConsumed, Goto, CallType
    <3> QED
      BY <2>1, <2>4, <2>5, <2>8, <2>11, <3>1 DEF MarkTokenConsumed
  <2>12. CASE ReserveCredits(i)
    <3>1. CASE bal.TREASURY >= Fee[call[i].key]
      <4>1. Transfer("TREASURY", "ESCROW", Fee[call[i].key]) /\ call'[i].pc = "dispatch"
        BY <2>12, <3>1 DEF ReserveCredits, Goto, CallType
      <4>2. bal' \in [{"TREASURY", "ESCROW", "EXTERNAL_SINK"} -> Nat] /\ bal'.ESCROW = bal.ESCROW + Fee[call[i].key]
        BY <1>a, <2>4, <3>1, <4>1, TransferNat
      <4> QED
        BY <1>a, <2>1, <2>3, <2>4, <2>5, <2>12, <4>1, <4>2 DEF ReserveCredits
    <3>2. CASE ~(bal.TREASURY >= Fee[call[i].key])
      <4>1. UNCHANGED bal /\ call'[i].pc = "fail"
        BY <2>12, <3>2 DEF ReserveCredits, Goto, CallType
      <4> QED
        BY <2>1, <2>5, <2>8, <2>12, <4>1 DEF ReserveCredits
    <3> QED
      BY <3>1, <3>2
  <2>13. ASSUME NEW outcome \in Outcomes, Dispatch(i, outcome) PROVE TypeOK' /\ EscrowIsInFlight'
    <3>1. call'[i].pc \in {"commit", "rollback"}
      BY <2>13 DEF Dispatch
    <3> QED
      BY <2>1, <2>5, <2>8, <2>13, <3>1 DEF Dispatch
  <2>14. CASE CommitReservation(i)
    <3>1. Transfer("ESCROW", "EXTERNAL_SINK", Fee[call[i].key]) /\ call[i].pc = "commit" /\ call'[i].pc = "succeed"
      BY <2>14 DEF CommitReservation, Goto
    <3>2. bal' \in [{"TREASURY", "ESCROW", "EXTERNAL_SINK"} -> Nat] /\ bal'.ESCROW = bal.ESCROW - Fee[call[i].key]
      BY <1>a, <2>4, <2>6, <3>1, TransferNat
    <3> QED
      BY <1>a, <2>1, <2>3, <2>4, <2>5, <2>14, <3>1, <3>2 DEF CommitReservation
  <2>15. CASE RollbackReservation(i)
    <3>1. Transfer("ESCROW", "TREASURY", Fee[call[i].key]) /\ call[i].pc = "rollback" /\ call'[i].pc = "fail"
      BY <2>15 DEF RollbackReservation, Goto
    <3>2. bal' \in [{"TREASURY", "ESCROW", "EXTERNAL_SINK"} -> Nat] /\ bal'.ESCROW = bal.ESCROW - Fee[call[i].key]
      BY <1>a, <2>4, <2>6, <3>1, TransferNat
    <3> QED
      BY <1>a, <2>1, <2>3, <2>4, <2>5, <2>15, <3>1, <3>2 DEF RollbackReservation
  <2>16. CASE Succeed(i)
    <3>1. call'[i].pc = "save"
      BY <2>16 DEF Succeed, Goto
    <3> QED
      BY <2>1, <2>4, <2>5, <2>8, <2>16, <3>1 DEF Succeed
  <2>17. CASE Fail(i)
    <3>1. call'[i].pc = "raised"
      BY <2>17 DEF Fail, Goto
    <3> QED
      BY <2>1, <2>4, <2>5, <2>8, <2>17, <3>1, SMTT(30) DEF Fail
  <2>18. CASE SaveReceipt(i)
    <3>1. call'[i].pc = "returned"
      BY <2>18 DEF SaveReceipt, Goto
    <3> QED
      BY <2>1, <2>5, <2>8, <2>18, <3>1 DEF SaveReceipt
  <2> QED
    BY <1>2, <2>9, <2>10, <2>11, <2>12, <2>13, <2>14, <2>15, <2>16, <2>17, <2>18 DEF Step
<1>3. CASE Crash
  <2>1. Dies
    BY <1>3, CrashKeepsPlaces
  <2>2. \A i \in Calls : HeldFee(i)' = HeldFee(i)
    BY <2>1 DEF Dies, HeldFee
  <2>3. EscrowIsInFlight'
    BY <1>3, <2>2 DEF EscrowIsInFlight, Crash
  <2>4. crashes' \in 0..MaxCrashes
    <3>1. crashes < MaxCrashes /\ crashes' = crashes + 1
      BY <1>3 DEF Crash
    <3>2. crashes \in 0..MaxCrashes
      BY DEF TypeOK
    <3> QED
      BY <3>1, <3>2, DurableAssumption
  <2> QED
    BY <1>3, <2>1, <2>3, <2>4 DEF Crash, TypeOK, Dies
<1>4. CASE UNCHANGED vars
  BY <1>4 DEF vars, TypeOK, EscrowIsInFlight, HeldFee, Place
<1> QED
  BY <1>1, <1>2, <1>3, <1>4 DEF Next

(* A token spent is in the durable journal before the call that spent it     *)
(* does anything else, so no later call gets past it.                        *)
LEMMA TokensKept ==
  ASSUME TypeOK, CallsOK, TokensSpent, [Next]_vars
  PROVE  TokensSpent'
<1>1. ASSUME NEW i \in Calls, NEW k \in Keys, NEW c \in Contents, NEW t \in Tokens,
             Begin(i, k, c, t)
      PROVE  TokensSpent'
  <2>1. Opens(i, k, c, t) /\ consumed' = consumed
    BY <1>1, BeginOpens DEF Begin
  <2>2. ~Spent(i)'
    BY <2>1 DEF Opens, Spent, Place
  <2>3. \A j \in Calls : j # i => (Spent(j)' <=> Spent(j)) /\ call'[j].token = call[j].token
    BY <2>1 DEF Opens, Spent, Place
  <2> QED
    BY <2>1, <2>2, <2>3 DEF TokensSpent
<1>2. ASSUME NEW i \in Calls, Step(i) PROVE TokensSpent'
  <2>1. MovesOnly(i)
    BY <1>2, StepMoves
  <2>2. \A j \in Calls : j # i => (Spent(j)' <=> Spent(j)) /\ call'[j].token = call[j].token
    BY <2>1 DEF MovesOnly, Spent, Place
  <2>3. call'[i].token = call[i].token
    BY <2>1 DEF MovesOnly
  <2>4. CASE consumed' = consumed /\ (Spent(i)' => Spent(i))
    BY <2>2, <2>3, <2>4 DEF TokensSpent
  <2>5. CASE MarkTokenConsumed(i)
    <3>1. CASE call[i].token \in cache \cup consumed
      <4>1. consumed' = consumed /\ call'[i].pc = "fail"
        BY <2>5, <3>1 DEF MarkTokenConsumed, Goto, TypeOK, CallType
      <4>2. Spent(i)' => Spent(i)
        BY <2>1, <2>5, <4>1 DEF Spent, Place, MovesOnly, MarkTokenConsumed
      <4> QED
        BY <2>4, <4>1, <4>2
    <3>2. CASE call[i].token \notin cache \cup consumed
      <4>1. consumed' = consumed \cup {call[i].token}
        BY <2>5, <3>2 DEF MarkTokenConsumed
      <4>2. \A j \in Calls : Spent(j) => call[j].token # call[i].token
        BY <3>2 DEF TokensSpent
      <4> QED
        BY <2>2, <2>3, <4>1, <4>2 DEF TokensSpent
    <3> QED
      BY <3>1, <3>2
  <2>6. consumed' = consumed \/ MarkTokenConsumed(i)
    BY <1>2 DEF Step, Replay, VerifyPreconditions, ReserveCredits, Dispatch, CommitReservation,
                RollbackReservation, Succeed, Fail, SaveReceipt
  <2>7. (Spent(i)' => Spent(i)) \/ MarkTokenConsumed(i)
    <3>0. \/ Replay(i) \/ \E passes \in BOOLEAN : VerifyPreconditions(i, passes)
          \/ call[i].pc \in {"reserve", "dispatch", "commit", "rollback", "succeed", "save"}
          \/ Fail(i) \/ MarkTokenConsumed(i)
      BY <1>2 DEF Step, ReserveCredits, Dispatch, CommitReservation, RollbackReservation,
                  Succeed, SaveReceipt
    <3>1. CASE Replay(i)
      BY <2>1, <3>1 DEF Replay, MovesOnly, Spent, Place, Goto, TypeOK, CallType, Labels
    <3>2. ASSUME NEW passes \in BOOLEAN, VerifyPreconditions(i, passes) PROVE Spent(i)' => Spent(i)
      <4>1. call[i].pc = "verify" /\ call'[i].pc \in {"consume", "fail"}
        BY <3>2 DEF VerifyPreconditions, Goto, TypeOK, CallType
      <4>2. call'[i].effect = call[i].effect
        BY <2>1, <4>1 DEF MovesOnly
      <4> QED
        BY <4>1, <4>2 DEF Spent, Place
    <3>3. CASE call[i].pc \in {"reserve", "dispatch", "commit", "rollback", "succeed", "save"}
      BY <2>1, <3>3 DEF MovesOnly, Spent, Place
    <3>4. CASE Fail(i)
      BY <2>1, <3>4 DEF Fail, MovesOnly, Spent, Place, Goto, TypeOK, CallType, Labels
    <3> QED
      BY <3>0, <3>1, <3>2, <3>3, <3>4
  <2> QED
    BY <2>4, <2>5, <2>6, <2>7
<1>3. CASE Crash
  <2>1. Dies /\ consumed' = consumed
    BY <1>3, CrashKeepsPlaces DEF Crash
  <2>2. \A j \in Calls : (Spent(j)' <=> Spent(j)) /\ call'[j].token = call[j].token
    BY <2>1 DEF Dies, Spent
  <2> QED
    BY <2>1, <2>2 DEF TokensSpent
<1>4. CASE UNCHANGED vars
  BY <1>4 DEF vars, TokensSpent, Spent, Place
<1> QED
  BY <1>1, <1>2, <1>3, <1>4 DEF Next

(* What a step of a call does to the journal: only Succeed and Fail write it,*)
(* and only on the call's own key.                                           *)
LEMMA JournalStep ==
  ASSUME TypeOK, CallsOK, NEW i \in Calls, Step(i)
  PROVE  /\ \A k \in Keys : k # call[i].key => journal'[k] = journal[k]
         /\ overlapped' = overlapped /\ crashes' = crashes
         /\ \/ journal' = journal /\ ~(call[i].pc = "succeed" \/ call'[i].pc = "save")
            \/ /\ Succeed(i) /\ call[i].pc = "succeed" /\ call'[i].pc = "save"
               /\ journal'[call[i].key].state = "succeeded" /\ journal'[call[i].key].receipt = i
            \/ /\ Fail(i) /\ call[i].pc = "fail" /\ call'[i].pc = "raised"
               /\ journal[call[i].key].state = "succeeded" => journal' = journal
               /\ journal[call[i].key].state # "succeeded" => journal'[call[i].key].state = "failed"
<1>0. MovesOnly(i)
  BY StepMoves
<1>k. call[i].key \in Keys
  BY <1>0 DEF MovesOnly, CallsOK, Labels
<1> USE DEF TypeOK, CallType, Goto
<1>1. CASE Succeed(i)
  BY <1>k, <1>1 DEF Succeed
<1>2. CASE Fail(i)
  BY <1>k, <1>2 DEF Fail
<1>3. CASE Replay(i)
  BY <1>3 DEF Replay
<1>4. ASSUME NEW passes \in BOOLEAN, VerifyPreconditions(i, passes)
      PROVE  UNCHANGED <<journal, overlapped, crashes>> /\ call[i].pc # "succeed" /\ call'[i].pc # "save"
  BY <1>4 DEF VerifyPreconditions
<1>5. CASE MarkTokenConsumed(i)
  BY <1>5 DEF MarkTokenConsumed
<1>6. CASE ReserveCredits(i)
  BY <1>6 DEF ReserveCredits
<1>7. ASSUME NEW outcome \in Outcomes, Dispatch(i, outcome)
      PROVE  UNCHANGED <<journal, overlapped, crashes>> /\ call[i].pc # "succeed" /\ call'[i].pc # "save"
  BY <1>7 DEF Dispatch
<1>8. CASE CommitReservation(i)
  BY <1>8 DEF CommitReservation
<1>9. CASE RollbackReservation(i)
  BY <1>9 DEF RollbackReservation
<1>10. CASE SaveReceipt(i)
  BY <1>10 DEF SaveReceipt
<1> QED
  BY <1>1, <1>2, <1>3, <1>4, <1>5, <1>6, <1>7, <1>8, <1>9, <1>10 DEF Step

(* Calls that overlap on a key are seen when the later one begins.           *)
LEMMA OverlapsKept ==
  ASSUME TypeOK, CallsOK, OverlapsSeen, [Next]_vars
  PROVE  OverlapsSeen'
<1> USE DEF Live, Ended
<1>1. ASSUME NEW i \in Calls, NEW k \in Keys, NEW c \in Contents, NEW t \in Tokens,
             Begin(i, k, c, t)
      PROVE  OverlapsSeen'
  <2>1. Opens(i, k, c, t)
    BY <1>1, BeginOpens
  <2>2. /\ overlapped \subseteq overlapped'
        /\ (\E j \in Live : call[j].key = k) => k \in overlapped'
    BY <1>1 DEF Begin
  <2>3. i \notin Live
    BY <2>1 DEF Opens
  <2>4. \A j \in Calls : j # i => call'[j] = call[j]
    BY <2>1 DEF Opens
  <2>5. call'[i].key = k
    BY <2>1 DEF Opens
  <2>6. ASSUME NEW j1 \in Live', NEW j2 \in Live', j1 # j2, call'[j1].key = call'[j2].key
        PROVE  call'[j1].key \in overlapped'
    <3>1. CASE j1 = i
      BY <2>2, <2>4, <2>5, <2>6, <3>1
    <3>2. CASE j2 = i
      BY <2>2, <2>4, <2>5, <2>6, <3>2
    <3>3. CASE j1 # i /\ j2 # i
      BY <2>2, <2>4, <2>6, <3>3 DEF OverlapsSeen
    <3> QED
      BY <3>1, <3>2, <3>3
  <2>7. ASSUME NEW j \in Calls, call'[j].pc \in Working, journal'[call'[j].key].state = "succeeded"
        PROVE  call'[j].key \in overlapped'
    <3>1. CASE j = i
      <4>1. call'[i].pc = "verify" => journal[k].state # "succeeded"
        BY <2>1 DEF Opens, BeginVerdict
      <4>2. journal'[k].state = journal[k].state \/ journal'[k].state = "started"
        BY <1>1 DEF Begin, TypeOK
      <4> QED
        BY <2>1, <2>7, <3>1, <4>1, <4>2 DEF Opens, Working
    <3>2. CASE j # i
      <4>1. call'[j] = call[j] /\ call[j].key \in Keys
        BY <2>4, <2>7, <3>2 DEF CallsOK, Working
      <4>2. journal[call[j].key].state = "succeeded"
        BY <1>1, <2>7, <4>1 DEF Begin, TypeOK
      <4> QED
        BY <2>2, <2>7, <4>1, <4>2 DEF OverlapsSeen
    <3> QED
      BY <3>1, <3>2
  <2> QED
    BY <2>6, <2>7 DEF OverlapsSeen
<1>2. ASSUME NEW i \in Calls, Step(i) PROVE OverlapsSeen'
  <2>1. MovesOnly(i)
    BY <1>2, StepMoves
  <2>2. i \in Live /\ Live' \subseteq Live /\ \A j \in Calls : call'[j].key = call[j].key
    BY <2>1 DEF MovesOnly, Labels
  <2>3. overlapped' = overlapped
    BY <1>2, JournalStep
  <2>4. ASSUME NEW j1 \in Live', NEW j2 \in Live', j1 # j2, call'[j1].key = call'[j2].key
        PROVE  call'[j1].key \in overlapped'
    BY <2>2, <2>3, <2>4 DEF OverlapsSeen
  <2>5. ASSUME NEW j \in Calls, call'[j].pc \in Working, journal'[call'[j].key].state = "succeeded"
        PROVE  call'[j].key \in overlapped'
    <3>1. call[j].key \in Keys /\ call'[j].key = call[j].key /\ j \in Live
      BY <2>1, <2>5 DEF MovesOnly, CallsOK, Working, Labels
    <3>2. call[j].pc \in Working \/ j = i
      BY <2>1, <2>5 DEF MovesOnly
    <3>3. CASE journal[call[j].key].state = "succeeded" /\ call[j].pc \in Working
      BY <2>3, <3>1, <3>3 DEF OverlapsSeen
    <3>4. CASE journal[call[j].key].state # "succeeded"
      <4>1. call[i].key = call[j].key /\ Succeed(i) /\ call'[i].pc = "save"
        BY <1>2, <2>5, <3>1, <3>4, JournalStep
      <4>2. j # i
        BY <2>5, <4>1 DEF Working
      <4> QED
        BY <2>2, <2>3, <3>1, <4>1, <4>2 DEF OverlapsSeen
    <3>5. CASE j = i /\ call[j].pc \notin Working
      <4>1. call[i].pc \in {"replay", "save"}
        BY <2>1, <3>5 DEF MovesOnly, Labels, Working
      <4>2. call'[i].pc \in {"returned", "missing"}
        <5>1. Replay(i) \/ SaveReceipt(i)
          BY <1>2, <4>1 DEF Step, VerifyPreconditions, MarkTokenConsumed, ReserveCredits, Dispatch,
                            CommitReservation, RollbackReservation, Succeed, Fail
        <5> QED
          BY <5>1 DEF Replay, SaveReceipt, Goto, TypeOK, CallType
      <4> QED
        BY <2>5, <3>5, <4>2 DEF Working
    <3> QED
      BY <3>2, <3>3, <3>4, <3>5
  <2> QED
    BY <2>4, <2>5 DEF OverlapsSeen
<1>3. CASE Crash
  <2>1. Dies /\ UNCHANGED <<journal, overlapped>>
    BY <1>3, CrashKeepsPlaces DEF Crash
  <2>2. \A i \in Calls : i \notin Live' /\ call'[i].pc \notin Working
    BY <2>1 DEF Dies, Working
  <2> QED
    BY <2>1, <2>2 DEF OverlapsSeen
<1>4. CASE UNCHANGED vars
  BY <1>4 DEF vars, OverlapsSeen
<1> QED
  BY <1>1, <1>2, <1>3, <1>4 DEF Next

(* Success is final: see SuccessIsFinal. *)
LEMMA SuccessStep ==
  ASSUME TypeOK, CallsOK, OverlapsSeen, [Next]_vars,
         NEW k \in Keys, journal[k].state = "succeeded"
  PROVE  /\ journal'[k].state = "succeeded"
         /\ journal'[k].receipt = journal[k].receipt \/ k \in overlapped
<1>1. ASSUME NEW i \in Calls, NEW k2 \in Keys, NEW c \in Contents, NEW t \in Tokens,
             Begin(i, k2, c, t)
      PROVE  journal'[k] = journal[k]
  BY <1>1 DEF Begin, TypeOK
<1>2. ASSUME NEW i \in Calls, Step(i)
      PROVE  /\ journal'[k].state = "succeeded"
             /\ journal'[k].receipt = journal[k].receipt \/ k \in overlapped
  BY <1>2, JournalStep DEF OverlapsSeen, Working
<1> QED
  BY <1>1, <1>2 DEF Next, Crash, vars

(* The charged fees change by that of the one key a step works on. *)
LEMMA ChargeChange ==
  ASSUME NEW k \in Keys, \A x \in Keys : x # k => (Charged(x)' <=> Charged(x))
  PROVE  /\ SumFunction([x \in Keys |-> ChargedFee(x)])'
              = SumFunction([x \in Keys |-> ChargedFee(x)]) - ChargedFee(k) + ChargedFee(k)'
         /\ SumFunction([x \in Keys |-> ChargedFee(x)]) \in Int
<1> DEFINE f == [x \in Keys |-> ChargedFee(x)]
           g == [x \in Keys |-> ChargedFee(x)']
<1>1. f \in [Keys -> Int] /\ g \in [Keys -> Int] /\ \A x \in Keys : x # k => f[x] = g[x]
  BY DurableAssumption DEF ChargedFee
<1>2. SumFunction(g) = SumFunction(f) - f[k] + g[k] /\ SumFunction(f) \in Int
  <2> HIDE DEF f, g
  <2> QED
    BY <1>1, SumChange, DurableAssumption
<1> QED
  BY <1>2

(* Nothing charged before, the same charged after. *)
LEMMA ChargeSame ==
  ASSUME \A x \in Keys : Charged(x)' <=> Charged(x)
  PROVE  SumFunction([x \in Keys |-> ChargedFee(x)])' = SumFunction([x \in Keys |-> ChargedFee(x)])
<1>1. \A x \in Keys : ChargedFee(x)' = ChargedFee(x)
  BY DEF ChargedFee
<1> QED
  BY <1>1

(* EXTERNAL_SINK gains a fee at the commit, and the key is charged by then.  *)
LEMMA SinkKept ==
  ASSUME TypeOK, CallsOK, EscrowIsInFlight, OverlapsSeen, SinkIsCharged, [Next]_vars
  PROVE  SinkIsCharged'
<1> SUFFICES ASSUME overlapped' = {}, crashes' = 0
             PROVE  bal'.EXTERNAL_SINK = SumFunction([x \in Keys |-> ChargedFee(x)])'
  BY DEF SinkIsCharged
<1> USE DEF OfKey
<1>1. ASSUME NEW i \in Calls, NEW k \in Keys, NEW c \in Contents, NEW t \in Tokens,
             Begin(i, k, c, t)
      PROVE  bal'.EXTERNAL_SINK = SumFunction([x \in Keys |-> ChargedFee(x)])'
  <2>1. Opens(i, k, c, t)
    BY <1>1, BeginOpens
  <2>2. overlapped = {} /\ crashes = 0 /\ bal' = bal
    BY <1>1 DEF Begin
  <2>3. \A x \in Keys : journal'[x].state = "succeeded" <=> journal[x].state = "succeeded"
    BY <1>1 DEF Begin, TypeOK
  <2>4. \A x \in Keys : Charged(x)' <=> Charged(x)
    BY <2>1, <2>3 DEF Opens, Charged
  <2> QED
    BY <2>2, <2>4, ChargeSame DEF SinkIsCharged
<1>2. ASSUME NEW i \in Calls, Step(i)
      PROVE  bal'.EXTERNAL_SINK = SumFunction([x \in Keys |-> ChargedFee(x)])'
  <2>1. MovesOnly(i)
    BY <1>2, StepMoves
  <2>2. overlapped = {} /\ crashes = 0
    BY <1>2, JournalStep
  <2>3. PICK k \in Keys : call[i].key = k
    BY <2>1 DEF MovesOnly, CallsOK, Labels
  <2>i. i \in Live /\ call'[i].key = k
    BY <2>1, <2>3 DEF MovesOnly, Labels, Live, Ended
  <2>4. \A x \in Keys : x # k => (Charged(x)' <=> Charged(x))
    BY <1>2, <2>1, <2>3, JournalStep DEF MovesOnly, Charged
  <2>5. CASE CommitReservation(i)
    <3>1. call[i].pc = "commit" /\ call'[i].pc = "succeed"
      BY <2>5 DEF CommitReservation, Goto, TypeOK, CallType
    <3>2. bal'.EXTERNAL_SINK = bal.EXTERNAL_SINK + Fee[k]
      <4>1. HeldFee(i) = Fee[k] /\ HeldFee(i) \in Nat /\ HeldFee(i) <= bal.ESCROW
        BY <2>3, <3>1, HeldFeeNat, HeldFeeBound DEF HeldFee, Place
      <4> QED
        BY <2>3, <2>5, <4>1, TransferNat DEF CommitReservation
    <3>3. ~Charged(k)
      BY <2>2, <2>3, <2>i, <3>1 DEF OverlapsSeen, Charged, Working, Live, Ended
    <3>4. Charged(k)'
      BY <2>i, <3>1 DEF Charged
    <3>5. /\ SumFunction([x \in Keys |-> ChargedFee(x)])'
              = SumFunction([x \in Keys |-> ChargedFee(x)]) - ChargedFee(k) + ChargedFee(k)'
          /\ SumFunction([x \in Keys |-> ChargedFee(x)]) \in Int
      BY <2>4, ChargeChange
    <3>6. ChargedFee(k) = 0 /\ ChargedFee(k)' = Fee[k] /\ Fee[k] \in Nat
      BY <3>3, <3>4, DurableAssumption DEF ChargedFee
    <3> QED
      BY <2>2, <3>2, <3>5, <3>6 DEF SinkIsCharged
  <2>6. CASE ~CommitReservation(i)
    <3>1. bal'.EXTERNAL_SINK = bal.EXTERNAL_SINK /\ call'[i].pc # "succeed"
      <4> USE DEF Transfer, Goto, TypeOK, CallType
      <4>1. CASE Replay(i) \/ MarkTokenConsumed(i) \/ Succeed(i) \/ Fail(i) \/ SaveReceipt(i)
        BY <4>1 DEF Replay, MarkTokenConsumed, Succeed, Fail, SaveReceipt
      <4>2. CASE ReserveCredits(i)
        BY <4>2 DEF ReserveCredits
      <4>3. CASE RollbackReservation(i)
        BY <4>3 DEF RollbackReservation
      <4>4. ASSUME NEW passes \in BOOLEAN, VerifyPreconditions(i, passes)
            PROVE  bal'.EXTERNAL_SINK = bal.EXTERNAL_SINK /\ call'[i].pc # "succeed"
        BY <4>4 DEF VerifyPreconditions
      <4>5. ASSUME NEW outcome \in Outcomes, Dispatch(i, outcome)
            PROVE  bal'.EXTERNAL_SINK = bal.EXTERNAL_SINK /\ call'[i].pc # "succeed"
        BY <4>5 DEF Dispatch
      <4> QED
        BY <1>2, <2>6, <4>1, <4>2, <4>3, <4>4, <4>5 DEF Step
    <3>3. Charged(k)' <=> Charged(k)
      BY <1>2, <2>1, <2>3, <2>i, <3>1, JournalStep DEF Charged, MovesOnly
    <3> QED
      BY <2>2, <2>4, <3>1, <3>3, ChargeSame DEF SinkIsCharged
  <2> QED
    BY <2>5, <2>6
<1>3. CASE Crash
  <2>1. crashes \in Nat /\ crashes' = crashes + 1
    <3>1. crashes' = crashes + 1
      BY <1>3 DEF Crash
    <3>2. crashes \in 0..MaxCrashes
      BY DEF TypeOK
    <3> QED
      BY <3>1, <3>2, DurableAssumption
  <2> QED
    BY <2>1
<1>4. CASE UNCHANGED vars
  <2>1. \A x \in Keys : Charged(x)' <=> Charged(x)
    BY <1>4 DEF vars, Charged
  <2> QED
    BY <1>4, <2>1, ChargeSame DEF vars, SinkIsCharged
<1> QED
  BY <1>1, <1>2, <1>3, <1>4 DEF Next

(* The verdict of the journal follows from the row it read. *)
LEMMA BeganKept ==
  ASSUME TypeOK, CallsOK, BeganDecides, [Next]_vars
  PROVE  BeganDecides'
<1>1. ASSUME NEW i \in Calls, NEW k \in Keys, NEW c \in Contents, NEW t \in Tokens,
             Begin(i, k, c, t)
      PROVE  BeganDecides'
  <2>1. Opens(i, k, c, t)
    BY <1>1, BeginOpens
  <2>2. /\ journal[k].state \in {"started", "succeeded"} => BeginVerdict(journal[k], c) \in {"refused", "replay"}
        /\ BeginVerdict(journal[k], c) = "replay" => journal[k].state = "succeeded"
        /\ journal[k].state = "absent" => BeginVerdict(journal[k], c) = "verify"
    BY DEF BeginVerdict
  <2> QED
    BY <2>1, <2>2 DEF Opens, BeganDecides
<1>2. ASSUME NEW i \in Calls, Step(i) PROVE BeganDecides'
  <2>1. MovesOnly(i)
    BY <1>2, StepMoves
  <2>2. CASE call[i].began \in {"started", "succeeded"}
    <3>1. call[i].pc = "replay" /\ ~call[i].effect
      BY <2>1, <2>2 DEF BeganDecides, MovesOnly, Labels
    <3>2. Replay(i)
      BY <1>2, <3>1 DEF Step, VerifyPreconditions, MarkTokenConsumed, ReserveCredits, Dispatch,
                        CommitReservation, RollbackReservation, Succeed, Fail, SaveReceipt
    <3>3. call'[i].pc \in {"returned", "missing"}
      BY <3>2 DEF Replay, Goto, TypeOK, CallType
    <3>4. call'[i].effect = call[i].effect
      BY <2>1, <3>1 DEF MovesOnly
    <3> QED
      BY <2>1, <3>1, <3>3, <3>4 DEF MovesOnly, BeganDecides
  <2>3. CASE call[i].began \notin {"started", "succeeded"}
    <3>1. ~Replay(i)
      BY <2>3 DEF Replay, BeganDecides
    <3>2. call'[i].pc # "missing"
      <4> USE DEF Goto, TypeOK, CallType
      <4>1. CASE MarkTokenConsumed(i) \/ Succeed(i) \/ Fail(i) \/ SaveReceipt(i)
        BY <4>1 DEF MarkTokenConsumed, Succeed, Fail, SaveReceipt
      <4>2. CASE ReserveCredits(i) \/ RollbackReservation(i) \/ CommitReservation(i)
        BY <4>2 DEF ReserveCredits, RollbackReservation, CommitReservation
      <4>3. ASSUME NEW passes \in BOOLEAN, VerifyPreconditions(i, passes) PROVE call'[i].pc # "missing"
        BY <4>3 DEF VerifyPreconditions
      <4>4. ASSUME NEW outcome \in Outcomes, Dispatch(i, outcome) PROVE call'[i].pc # "missing"
        BY <4>4 DEF Dispatch
      <4> QED
        BY <1>2, <3>1, <4>1, <4>2, <4>3, <4>4 DEF Step
    <3> QED
      BY <2>1, <2>3, <3>2 DEF MovesOnly, BeganDecides
  <2> QED
    BY <2>2, <2>3
<1>3. CASE Crash
  <2>1. Dies
    BY <1>3, CrashKeepsPlaces
  <2> QED
    BY <2>1 DEF Dies, BeganDecides, Live, Ended
<1>4. CASE UNCHANGED vars
  BY <1>4 DEF vars, BeganDecides
<1> QED
  BY <1>1, <1>2, <1>3, <1>4 DEF Next

(* The journal row is as the call that inserted it left it, and every other  *)
(* call of the key came after it.                                            *)
LEMMA InserterKept ==
  ASSUME TypeOK, CallsOK, BeganDecides, InserterAlone, [Next]_vars
  PROVE  InserterAlone'
<1> DEFINE Absent(k) == journal[k].state = "absent" =>
                           \A i \in Calls : call[i].key = k => call[i].pc = "idle"
           Alone(i) == call[i].began = "absent" /\ call[i].pc \in Begun =>
             /\ call[i].pc \in Working => journal[call[i].key].state = "started"
             /\ call[i].pc \in {"save", "returned"} => journal[call[i].key].state = "succeeded"
             /\ journal[call[i].key].state \in {"started", "succeeded"}
             /\ \A j \in Calls : j # i /\ call[j].key = call[i].key /\ call[j].pc # "idle" =>
                    call[j].began \in {"started", "succeeded"}
<1>0. SUFFICES /\ \A k \in Keys : Absent(k)'
               /\ \A i \in Calls : Alone(i)'
  BY DEF InserterAlone
<1>a. (\A k \in Keys : Absent(k)) /\ (\A i \in Calls : Alone(i))
  BY DEF InserterAlone
<1>1. ASSUME NEW i \in Calls, NEW k \in Keys, NEW c \in Contents, NEW t \in Tokens,
             Begin(i, k, c, t)
      PROVE  (\A x \in Keys : Absent(x)') /\ (\A j \in Calls : Alone(j)')
  <2>1. Opens(i, k, c, t)
    BY <1>1, BeginOpens
  <2>2. /\ \A x \in Keys : x # k => journal'[x] = journal[x]
        /\ journal[k].state # "absent" => journal'[k] = journal[k]
        /\ journal[k].state = "absent" => journal'[k].state = "started"
    BY <1>1 DEF Begin, TypeOK
  <2>3. ASSUME NEW x \in Keys PROVE Absent(x)'
    BY <1>a, <2>1, <2>2 DEF Opens
  <2>4. ASSUME NEW j \in Calls PROVE Alone(j)'
    <3>1. CASE j = i
      <4>1. CASE journal[k].state = "absent"
        <5>1. \A j2 \in Calls : j2 # i /\ call'[j2].key = k => call'[j2].pc = "idle"
          BY <1>a, <2>1, <4>1 DEF Opens
        <5>2. call'[i].pc = "verify"
          BY <2>1, <4>1 DEF Opens, BeginVerdict
        <5> QED
          BY <2>1, <2>2, <3>1, <4>1, <5>1, <5>2 DEF Opens, Working, Begun
      <4>2. CASE journal[k].state # "absent"
        BY <2>1, <3>1, <4>2 DEF Opens
      <4> QED
        BY <4>1, <4>2
    <3>2. CASE j # i
      <4>1. call'[j] = call[j]
        BY <2>1, <3>2 DEF Opens
      <4>2. SUFFICES ASSUME call[j].began = "absent", call[j].pc \in Begun
                     PROVE  /\ call[j].pc \in Working => journal'[call[j].key].state = "started"
                            /\ call[j].pc \in {"save", "returned"} => journal'[call[j].key].state = "succeeded"
                            /\ journal'[call[j].key].state \in {"started", "succeeded"}
                            /\ \A j2 \in Calls : j2 # j /\ call'[j2].key = call[j].key /\ call'[j2].pc # "idle" =>
                                  call'[j2].began \in {"started", "succeeded"}
        BY <4>1
      <4>3. call[j].key \in Keys
        BY <4>2 DEF CallsOK, Working, Begun
      <4>4. /\ call[j].pc \in Working => journal[call[j].key].state = "started"
            /\ call[j].pc \in {"save", "returned"} => journal[call[j].key].state = "succeeded"
            /\ journal[call[j].key].state \in {"started", "succeeded"}
            /\ \A j2 \in Calls : j2 # j /\ call[j2].key = call[j].key /\ call[j2].pc # "idle" =>
                                  call[j2].began \in {"started", "succeeded"}
        BY <1>a, <4>2
      <4>5. call[j].key = k => journal[k].state \in {"started", "succeeded"}
        BY <4>4
      <4> QED
        BY <2>1, <2>2, <3>2, <4>3, <4>4, <4>5 DEF Opens
    <3> QED
      BY <3>1, <3>2
  <2> QED
    BY <2>3, <2>4
<1>2. ASSUME NEW i \in Calls, Step(i)
      PROVE  (\A x \in Keys : Absent(x)') /\ (\A j \in Calls : Alone(j)')
  <2>1. MovesOnly(i)
    BY <1>2, StepMoves
  <2>2. call[i].key \in Keys /\ journal[call[i].key].state # "absent"
    BY <1>a, <2>1 DEF MovesOnly, CallsOK, Labels
  <2>3. ASSUME NEW x \in Keys PROVE Absent(x)'
    <3>1. CASE x = call[i].key
      BY <1>2, <2>2, <3>1, JournalStep
    <3>2. CASE x # call[i].key
      BY <1>2, <1>a, <2>1, <3>2, JournalStep DEF MovesOnly
    <3> QED
      BY <3>1, <3>2
  <2>4. \A j \in Calls : call'[j].key = call[j].key /\ call'[j].began = call[j].began
                          /\ (call'[j].pc # "idle" => call[j].pc # "idle")
    BY <2>1 DEF MovesOnly, Labels
  <2>5. ASSUME NEW j \in Calls PROVE Alone(j)'
    <3>1. SUFFICES ASSUME call[j].began = "absent", call'[j].pc \in Begun
                   PROVE  /\ call'[j].pc \in Working => journal'[call[j].key].state = "started"
                          /\ call'[j].pc \in {"save", "returned"} => journal'[call[j].key].state = "succeeded"
                          /\ journal'[call[j].key].state \in {"started", "succeeded"}
                          /\ \A j2 \in Calls : j2 # j /\ call[j2].key = call[j].key /\ call[j2].pc # "idle" =>
                                  call[j2].began \in {"started", "succeeded"}
      BY <2>4
    <3>2. call[j].pc \in Begun
      BY <2>1, <3>1 DEF MovesOnly, Labels, Ended, Working, Begun, BeganDecides
    <3>3. /\ call[j].pc \in Working => journal[call[j].key].state = "started"
          /\ call[j].pc \in {"save", "returned"} => journal[call[j].key].state = "succeeded"
          /\ journal[call[j].key].state \in {"started", "succeeded"}
          /\ \A j2 \in Calls : j2 # j /\ call[j2].key = call[j].key /\ call[j2].pc # "idle" =>
                                  call[j2].began \in {"started", "succeeded"}
      BY <1>a, <3>1, <3>2
    <3>k. call[j].key \in Keys
      BY <3>2 DEF CallsOK, Working, Begun
    <3>4. CASE j # i
      <4>1. journal' = journal \/ call[i].key # call[j].key
        <5>1. call[i].pc \in {"succeed", "fail"} => call[i].began \notin {"started", "succeeded"}
          BY DEF BeganDecides
        <5>2. call[i].pc # "idle"
          BY <2>1 DEF MovesOnly, Labels
        <5> QED
          BY <1>2, <3>3, <3>4, <5>1, <5>2, JournalStep
      <4>2. journal'[call[j].key] = journal[call[j].key]
        BY <1>2, <3>k, <4>1, JournalStep
      <4> QED
        BY <2>1, <3>3, <3>4, <4>2 DEF MovesOnly
    <3>5. CASE j = i
      <4>1. call[i].pc # "replay"
        BY <3>1, <3>5 DEF BeganDecides
      <4>2. \/ journal' = journal /\ (call[i].pc \in Working <=> call'[i].pc \in Working)
            \/ journal'[call[i].key].state = "succeeded" /\ call'[i].pc = "save"
        <5> USE DEF Goto, TypeOK, CallType, Working
        <5>1. CASE Succeed(i)
          BY <2>2, <5>1 DEF Succeed
        <5>2. CASE Fail(i)
          BY <3>1, <3>5, <5>2 DEF Fail, Begun
        <5>3. CASE MarkTokenConsumed(i)
          BY <5>3 DEF MarkTokenConsumed
        <5>4. CASE ReserveCredits(i)
          BY <5>4 DEF ReserveCredits
        <5>5. CASE CommitReservation(i)
          BY <5>5 DEF CommitReservation
        <5>6. CASE RollbackReservation(i)
          BY <5>6 DEF RollbackReservation
        <5>7. CASE SaveReceipt(i)
          BY <5>7 DEF SaveReceipt
        <5>8. ASSUME NEW passes \in BOOLEAN, VerifyPreconditions(i, passes)
              PROVE  journal' = journal /\ (call[i].pc \in Working <=> call'[i].pc \in Working)
          BY <5>8 DEF VerifyPreconditions
        <5>9. ASSUME NEW outcome \in Outcomes, Dispatch(i, outcome)
              PROVE  journal' = journal /\ (call[i].pc \in Working <=> call'[i].pc \in Working)
          BY <5>9 DEF Dispatch
        <5>10. ~Replay(i)
          BY <4>1 DEF Replay
        <5> QED
          BY <1>2, <5>1, <5>2, <5>3, <5>4, <5>5, <5>6, <5>7, <5>8, <5>9, <5>10 DEF Step
      <4>3. call[i].pc \in Working \/ call[i].pc = "save"
        BY <2>1, <3>2, <3>5 DEF MovesOnly, Labels, Ended, Working, Begun
      <4>4. call'[i].pc \in Working => call'[i].pc \notin {"save", "returned"}
        BY DEF Working
      <4>5. CASE call[i].pc \in Working
        BY <3>3, <3>5, <4>2, <4>4, <4>5 DEF Working
      <4>6. CASE call[i].pc = "save"
        BY <3>3, <3>5, <4>2, <4>4, <4>6 DEF Working
      <4> QED
        BY <4>3, <4>5, <4>6
    <3> QED
      BY <3>4, <3>5
  <2> QED
    BY <2>3, <2>5
<1>3. CASE Crash
  <2>1. Dies /\ journal' = journal
    BY <1>3, CrashKeepsPlaces DEF Crash
  <2>2. ASSUME NEW x \in Keys PROVE Absent(x)'
    BY <1>a, <2>1 DEF Dies, Live, Ended
  <2>3. ASSUME NEW j \in Calls PROVE Alone(j)'
    <3>0. /\ call'[j].began = call[j].began /\ call'[j].key = call[j].key
          /\ call'[j].pc # "dead" => call[j].pc = call'[j].pc
      BY <2>1 DEF Dies
    <3>1. call[j].began = "absent" /\ call'[j].pc \in Begun => call[j].pc \in Begun
      <4>1. j \in Live => call[j].pc \in Labels
        BY DEF TypeOK, CallType, Live, Labels, Ended
      <4>2. call[j].began = "absent" => call[j].pc # "replay"
        BY DEF BeganDecides
      <4>3. j \notin Live => call'[j].pc = call[j].pc
        BY <2>1 DEF Dies
      <4> QED
        BY <4>1, <4>2, <4>3 DEF Labels, Begun, Working
    <3>2. \A j2 \in Calls : call'[j2].pc # "idle" => call[j2].pc # "idle"
      BY <2>1 DEF Dies, Live, Ended
    <3> QED
      BY <1>a, <2>1, <3>0, <3>1, <3>2 DEF Dies, Working
  <2> QED
    BY <2>2, <2>3
<1>4. CASE UNCHANGED vars
  BY <1>4, <1>a DEF vars
<1> QED
  BY <1>1, <1>2, <1>3, <1>4 DEF Next

(* The content of a row is the first attempt's, and never changes.           *)
LEMMA ContentKept ==
  ASSUME TypeOK, CallsOK, InserterAlone, ContentAgrees, [Next]_vars
  PROVE  ContentAgrees'
<1> DEFINE Agrees(i) == call[i].pc \notin {"idle", "refused"} =>
             /\ journal[call[i].key].state # "absent"
             /\ journal[call[i].key].content = call[i].content
<1>0. SUFFICES ASSUME NEW j \in Calls PROVE Agrees(j)'
  BY DEF ContentAgrees
<1>a. Agrees(j)
  BY DEF ContentAgrees
<1>k. call[j].pc # "idle" => call[j].key \in Keys
  BY DEF CallsOK
<1>1. ASSUME NEW i \in Calls, NEW k \in Keys, NEW c \in Contents, NEW t \in Tokens,
             Begin(i, k, c, t)
      PROVE  Agrees(j)'
  <2>1. Opens(i, k, c, t)
    BY <1>1, BeginOpens
  <2>2. /\ \A x \in Keys : x # k => journal'[x] = journal[x]
        /\ journal[k].state # "absent" => journal'[k] = journal[k]
        /\ journal[k].state = "absent" => journal'[k].state = "started" /\ journal'[k].content = c
    BY <1>1 DEF Begin, TypeOK
  <2>3. CASE j = i
    <3>1. BeginVerdict(journal[k], c) # "refused" => journal[k].state = "absent" \/ journal[k].content = c
      BY DEF BeginVerdict
    <3> QED
      BY <2>1, <2>2, <2>3, <3>1 DEF Opens
  <2>4. CASE j # i
    <3>1. call'[j] = call[j]
      BY <2>1, <2>4 DEF Opens
    <3> QED
      BY <1>a, <1>k, <2>2, <3>1
  <2> QED
    BY <2>3, <2>4
<1>2. ASSUME NEW i \in Calls, Step(i) PROVE Agrees(j)'
  <2>1. MovesOnly(i)
    BY <1>2, StepMoves
  <2>2. /\ call'[j].key = call[j].key /\ call'[j].content = call[j].content
        /\ call'[j].pc \notin {"idle", "refused"} => call[j].pc \notin {"idle", "refused"}
    BY <2>1 DEF MovesOnly, Labels
  <2>3. \A x \in Keys : /\ journal'[x].content = journal[x].content
                        /\ journal[x].state # "absent" => journal'[x].state # "absent"
    <3>1. CASE Succeed(i)
      BY <3>1 DEF Succeed, TypeOK
    <3>2. CASE Fail(i)
      BY <3>2 DEF Fail, TypeOK
    <3>3. CASE ~Succeed(i) /\ ~Fail(i)
      BY <1>2, <3>3, JournalStep
    <3> QED
      BY <3>1, <3>2, <3>3
  <2> QED
    BY <1>a, <1>k, <2>2, <2>3
<1>3. CASE Crash
  <2>1. Dies /\ journal' = journal
    BY <1>3, CrashKeepsPlaces DEF Crash
  <2>2. call'[j].pc \notin {"idle", "refused"} => call[j].pc \notin {"idle", "refused"}
    BY <2>1 DEF Dies, Live, Ended
  <2> QED
    BY <1>a, <2>1, <2>2 DEF Dies
<1>4. CASE UNCHANGED vars
  BY <1>4, <1>a DEF vars
<1> QED
  BY <1>1, <1>2, <1>3, <1>4 DEF Next

(* A succeeded row names a receipt that is stored, or a call that still      *)
(* holds it or died with it.                                                 *)
LEMMA ReceiptsKept ==
  ASSUME TypeOK, CallsOK, ReceiptAccounted, [Next]_vars
  PROVE  ReceiptAccounted'
<1> DEFINE Held(k) == journal[k].receipt \in receipts
                        \/ (journal[k].receipt \in OfKey(k) /\ Place(journal[k].receipt) = "save")
<1>0. SUFFICES ASSUME NEW k \in Keys, journal'[k].state = "succeeded"
               PROVE  Held(k)'
  BY DEF ReceiptAccounted
<1>a. journal[k].state = "succeeded" => Held(k)
  BY DEF ReceiptAccounted
<1>1. ASSUME NEW i \in Calls, NEW k2 \in Keys, NEW c \in Contents, NEW t \in Tokens,
             Begin(i, k2, c, t)
      PROVE  Held(k)'
  <2>1. Opens(i, k2, c, t) /\ receipts' = receipts
    BY <1>1, BeginOpens DEF Begin
  <2>2. journal'[k] = journal[k]
    BY <1>0, <1>1 DEF Begin, TypeOK
  <2>3. Place(i) = "idle"
    BY <2>1 DEF Opens, Place
  <2> QED
    BY <1>0, <1>a, <2>1, <2>2, <2>3 DEF Opens, OfKey, Place
<1>2. ASSUME NEW i \in Calls, Step(i) PROVE Held(k)'
  <2>1. MovesOnly(i)
    BY <1>2, StepMoves
  <2>2. CASE Succeed(i) /\ call[i].key = k
    <3>1. journal'[k].receipt = i /\ call'[i].pc = "save" /\ call'[i].key = k
      BY <2>1, <2>2 DEF Succeed, Goto, TypeOK, CallType, MovesOnly
    <3> QED
      BY <3>1 DEF OfKey, Place
  <2>3. CASE ~(Succeed(i) /\ call[i].key = k)
    <3>1. journal'[k] = journal[k]
      BY <1>0, <1>2, <2>3, JournalStep
    <3>2. CASE SaveReceipt(i)
      <4>1. receipts' = receipts \cup {i}
        BY <3>2 DEF SaveReceipt
      <4> QED
        BY <1>0, <1>a, <2>1, <3>1, <4>1 DEF MovesOnly, OfKey, Place
    <3>3. CASE ~SaveReceipt(i)
      <4>1. receipts' = receipts /\ call[i].pc # "save"
        BY <1>2, <3>3 DEF Step, Replay, VerifyPreconditions, MarkTokenConsumed, ReserveCredits, Dispatch,
             CommitReservation, RollbackReservation, Succeed, Fail
      <4>2. Place(i) # "save"
        BY <2>1, <4>1 DEF MovesOnly, Place, Labels
      <4> QED
        BY <1>0, <1>a, <2>1, <3>1, <4>1, <4>2 DEF MovesOnly, OfKey, Place
    <3> QED
      BY <3>2, <3>3
  <2> QED
    BY <2>2, <2>3
<1>3. CASE Crash
  <2>1. Dies /\ UNCHANGED <<journal, receipts>>
    BY <1>3, CrashKeepsPlaces DEF Crash
  <2> QED
    BY <1>0, <1>a, <2>1 DEF Dies, OfKey
<1>4. CASE UNCHANGED vars
  BY <1>0, <1>4, <1>a DEF vars, OfKey, Place
<1> QED
  BY <1>1, <1>2, <1>3, <1>4 DEF Next

-----------------------------------------------------------------------------

(* The inductive invariant holds at the start. *)
LEMMA InitIInv == Init => IInv
<1> SUFFICES ASSUME Init PROVE IInv
  OBVIOUS
<1>1. \A i \in Calls : call[i] = NoCall
  BY DEF Init
<1>2. \A k \in Keys : journal[k] = NoRow
  BY DEF Init
<1>3. TypeOK
  <2>1. NoCall \in CallType
    BY DEF NoCall, CallType, Ended, Labels
  <2>2. call \in [Calls -> CallType]
    BY <2>1 DEF Init
  <2>3. journal \in [Keys -> [state : {"absent", "started", "succeeded", "failed"},
                             content : Contents \cup {"none"}, receipt : Calls \cup {0}]]
    BY DEF Init, NoRow
  <2>4. bal \in [{"TREASURY", "ESCROW", "EXTERNAL_SINK"} -> Nat]
    BY DurableAssumption DEF Init
  <2> QED
    BY <2>2, <2>3, <2>4, DurableAssumption DEF Init, TypeOK
<1>4. EscrowIsInFlight
  <2> DEFINE f == [i \in Calls |-> HeldFee(i)]
  <2>1. f \in [Calls -> Int] /\ \A i \in Calls : f[i] = 0
    BY <1>1 DEF HeldFee, Place, NoCall
  <2>2. SumFunction(f) = 0
    <3> HIDE DEF f
    <3> QED
      BY <2>1, CallsFinite, SumZero
  <2> QED
    BY <2>2 DEF EscrowIsInFlight, Init
<1>5. SinkIsCharged
  <2> DEFINE f == [k \in Keys |-> ChargedFee(k)]
  <2>1. f \in [Keys -> Int] /\ \A k \in Keys : f[k] = 0
    BY <1>1, <1>2 DEF ChargedFee, Charged, OfKey, NoCall, NoRow
  <2>2. SumFunction(f) = 0
    <3> HIDE DEF f
    <3> QED
      BY <2>1, DurableAssumption, SumZero
  <2> QED
    BY <2>2 DEF SinkIsCharged, Init
<1> QED
  BY <1>1, <1>2, <1>3, <1>4, <1>5 DEF IInv, CallsOK, TokensSpent, OverlapsSeen, BeganDecides,
     InserterAlone, Begun, ContentAgrees, ReceiptAccounted, Spent, Place, Live, Ended, Working, NoCall, NoRow

(* Every step keeps it. *)
LEMMA NextIInv == IInv /\ [Next]_vars => IInv'
  BY CallsKept, EscrowKept, TokensKept, OverlapsKept, SinkKept, BeganKept, InserterKept, ContentKept,
     ReceiptsKept
     DEF IInv

(* The inductive invariant is an invariant of the specification. *)
THEOREM DurableInvariant == Spec => []IInv
  BY InitIInv, NextIInv, PTL DEF Spec

(* Fees are accounted for, whatever the interleaving, the retries and the    *)
(* crashes: ESCROW is exactly what the calls in flight or dead in flight     *)
(* reserved; a token reserves once; with no crash and no overlap the sink    *)
(* holds the fee of each succeeded key once; a succeeded row has its receipt *)
(* or a call that still owes it.                                             *)
THEOREM FeesTheorem == Spec => []FeesAccounted
<1>1. IInv => FeesAccounted
  <2> SUFFICES ASSUME IInv PROVE FeesAccounted
    OBVIOUS
  <2>1. TokenReservesOnce
    BY DEF IInv, TokensSpent, Spent, TokenReservesOnce
  <2>2. ChargeMatchesJournal
    <3> SUFFICES ASSUME Live = {}, overlapped = {}, crashes = 0
                 PROVE  bal.EXTERNAL_SINK = SumFunction([k \in Keys |-> DueFee(k)])
      BY DEF ChargeMatchesJournal
    <3>1. \A i \in Calls : call[i].pc # "succeed"
      BY DEF Live, Ended
    <3>2. \A k \in Keys : ChargedFee(k) = DueFee(k)
      BY <3>1 DEF ChargedFee, Charged, DueFee, OfKey
    <3> QED
      BY <3>2 DEF IInv, SinkIsCharged
  <2> QED
    BY <2>1, <2>2 DEF IInv, FeesAccounted
<1> QED
  BY <1>1, DurableInvariant, PTL

(* The first attempt on a key is the only one that reaches the outside,      *)
(* while it is at work, after it succeeded and after it died, unless it      *)
(* journalled its own failure; and nothing reaches the outside with another  *)
(* content than the first attempt's.                                         *)
THEOREM KeyTheorem == Spec => []IdempotencyKept
<1>1. IInv => IdempotencyKept
  <2> SUFFICES ASSUME IInv PROVE FirstAttemptAlone /\ EffectsKeepContent
    BY DEF IdempotencyKept
  <2>1. ASSUME NEW i \in Calls, NEW j \in Calls, call[i].key = call[j].key, i # j,
               call[i].began = "absent", call[i].pc # "raised"
        PROVE  ~call[j].effect
    <3>1. call[i].pc \notin {"idle", "refused", "replay", "missing"}
      BY <2>1 DEF IInv, CallsOK, BeganDecides
    <3>2. call[i].pc \in Begun
      BY <2>1, <3>1 DEF IInv, TypeOK, CallType, Labels, Ended, Working, Begun
    <3>3. call[j].pc # "idle" => call[j].began \in {"started", "succeeded"}
      BY <2>1, <3>2 DEF IInv, InserterAlone
    <3> QED
      BY <3>3 DEF IInv, CallsOK, BeganDecides
  <2>2. FirstAttemptAlone
    BY <2>1 DEF FirstAttemptAlone, OfKey
  <2>3. EffectsKeepContent
    <3>1. \A i \in Calls : call[i].effect => call[i].pc \notin {"idle", "refused"}
      BY DEF IInv, CallsOK, BeganDecides
    <3> QED
      BY <3>1 DEF IInv, ContentAgrees, EffectsKeepContent
  <2> QED
    BY <2>2, <2>3
<1> QED
  BY <1>1, DurableInvariant, PTL

(* No step takes a success back, and only overlapping attempts change which  *)
(* receipt it names.                                                         *)
THEOREM FinalTheorem == Spec => SuccessIsFinal
<1>1. IInv /\ [Next]_vars =>
        [\A k \in Keys : journal[k].state = "succeeded" =>
           /\ journal'[k].state = "succeeded"
           /\ journal'[k].receipt = journal[k].receipt \/ k \in overlapped]_vars
  BY SuccessStep DEF IInv
<1> QED
  BY <1>1, DurableInvariant, PTL DEF Spec, SuccessIsFinal
=============================================================================
