---------------------------- MODULE MCActivation ----------------------------
(* Activation for TLC.  Command lines: the local key at two fees and beyond   *)
(* the policy's, an export, a pasted signature, a hash to reconcile, a dry    *)
(* run and a wrong key.  The operator also holds a signature for another      *)
(* amount and one made by somebody else.                                      *)
EXTENDS Activation, TLC

Plain == [rpc |-> TRUE, confirm |-> TRUE, mode |-> "unset", key |-> "operator",
          operator |-> "operator", fee |-> 1, dry |-> FALSE, export |-> FALSE,
          hex |-> FALSE, hash |-> FALSE]
Wallet == [Plain EXCEPT !.key = "none"]

MCSettings ==
    {Plain, [Plain EXCEPT !.fee = 3], [Plain EXCEPT !.dry = TRUE],
     [Plain EXCEPT !.key = "other"], [Plain EXCEPT !.confirm = FALSE],
     [Wallet EXCEPT !.mode = "external", !.fee = 2],
     [Wallet EXCEPT !.hex = TRUE], [Wallet EXCEPT !.hash = TRUE]}

MCStrayBlobs ==
    {[by |-> "operator", nonce |-> 0, call |-> "activate2", to |-> 0, fee |-> 1],
     [by |-> "other", nonce |-> 0, call |-> "activate", to |-> 0, fee |-> 1]}
=============================================================================
