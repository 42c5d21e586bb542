--------------------------- MODULE QuorumBreaker ---------------------------
(***************************************************************************)
(* What the circuit breaker of an organisation promises: anybody may pause  *)
(* it at any moment, and it returns to NORMAL only on a quorum of approvals  *)
(* each of which has served fewer resumptions than run at once.  When one    *)
(* runs at a time, none has served any.                                      *)
(***************************************************************************)
EXTENDS Naturals

CONSTANTS Orgs, Approvals, Quorum, AtOnce

VARIABLES state, spent

Init == /\ state = [o \in Orgs |-> "NORMAL"]
        /\ spent = [a \in Approvals |-> 0]

Pause(o) == /\ state' = [state EXCEPT ![o] = "PAUSED"]
            /\ UNCHANGED spent

Resume(o, q) == /\ \A a \in q : spent[a] < AtOnce
                /\ state' = [state EXCEPT ![o] = "NORMAL"]
                /\ spent' = [a \in Approvals |-> IF a \in q THEN spent[a] + 1 ELSE spent[a]]

Next == \E o \in Orgs : Pause(o) \/ \E q \in Quorum[o] : Resume(o, q)

Spec == Init /\ [][Next]_<<state, spent>>
=============================================================================
