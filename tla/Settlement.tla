----------------------------- MODULE Settlement -----------------------------
(***************************************************************************)
(* What the consequential execution boundary promises about money.         *)
(*                                                                         *)
(* An operation's credits are free, then held in ESCROW, and leave ESCROW  *)
(* exactly once, in the direction the provider's evidence gives: SUCCESS   *)
(* to EXTERNAL_SINK, FAILURE back to TREASURY (the "Guarantees" of         *)
(* src/src/settlement/reconciliation.py and the failure semantics of       *)
(* src/src/execution/consequential.py).  The external effect may happen    *)
(* only while the credits that pay for it are held.  Who does the          *)
(* settling, what crashes and what is retried is of no concern here.       *)
(***************************************************************************)
EXTENDS Integers

CONSTANTS
    Ops,               \* consequential operations
    Amount,            \* Amount[o]: the credits operation o costs
    InitialTreasury    \* the credits minted to TREASURY at genesis

VARIABLES
    status,            \* status[o]: where operation o's credits are
    evidence,          \* evidence[o]: the provider's outcome for o
    balance            \* balance of each account

absVars == <<status, evidence, balance>>

AccountNames == {"TREASURY", "ESCROW", "EXTERNAL_SINK"}

(* Move o's credits between two different accounts, without overdraft. *)
Move(from, to, o) ==
    /\ balance[from] >= Amount[o]
    /\ balance' = [balance EXCEPT ![from] = @ - Amount[o], ![to] = @ + Amount[o]]

AbsInit ==
    /\ status = [o \in Ops |-> "free"]
    /\ evidence = [o \in Ops |-> "none"]
    /\ balance = [a \in AccountNames |-> IF a = "TREASURY" THEN InitialTreasury ELSE 0]

Hold(o) ==
    /\ status[o] = "free"
    /\ Amount[o] > 0
    /\ status' = [status EXCEPT ![o] = "held"]
    /\ Move("TREASURY", "ESCROW", o)
    /\ UNCHANGED evidence

(* The provider acts, once, and only for an operation whose cost is held. *)
Witness(o, outcome) ==
    /\ evidence[o] = "none"
    /\ Amount[o] = 0 \/ status[o] = "held"
    /\ evidence' = [evidence EXCEPT ![o] = outcome]
    /\ UNCHANGED <<status, balance>>

Commit(o) ==
    /\ status[o] = "held"
    /\ evidence[o] = "SUCCESS"
    /\ status' = [status EXCEPT ![o] = "settled"]
    /\ Move("ESCROW", "EXTERNAL_SINK", o)
    /\ UNCHANGED evidence

Release(o) ==
    /\ status[o] = "held"
    /\ evidence[o] = "FAILURE"
    /\ status' = [status EXCEPT ![o] = "refunded"]
    /\ Move("ESCROW", "TREASURY", o)
    /\ UNCHANGED evidence

AbsNext ==
    \E o \in Ops :
        \/ Hold(o)
        \/ \E outcome \in {"SUCCESS", "FAILURE"} : Witness(o, outcome)
        \/ Commit(o)
        \/ Release(o)

AbsSpec == AbsInit /\ [][AbsNext]_absVars
=============================================================================
