----------------------------- MODULE TrxLedger -----------------------------
(***************************************************************************)
(* What Neon EVM promises about a signed Ethereum transaction, whichever   *)
(* operators submit it and however many Solana transactions its execution  *)
(* is cut into: it takes effect at most once, at the moment its nonce is   *)
(* the caller's next one, and a caller's nonces are used up one by one in  *)
(* order.  A cancelled transaction uses its nonce up too.                  *)
(*                                                                         *)
(* This module is the abstract specification; IterativeTrx implements it.  *)
(***************************************************************************)
EXTENDS Naturals

CONSTANTS
    Trxs,     \* signed transactions, identified by their hash
    Callers,  \* the addresses that sign them
    caller,   \* [Trxs -> Callers], the recovered signer
    nonce     \* [Trxs -> Nat], the nonce that was signed

VARIABLES
    next,     \* [Callers -> Nat], the next nonce of every caller
    outcome   \* [Trxs -> {"pending", "executed", "cancelled"}]

vars == <<next, outcome>>

TypeOK ==
    /\ next \in [Callers -> Nat]
    /\ outcome \in [Trxs -> {"pending", "executed", "cancelled"}]

Init ==
    /\ next = [c \in Callers |-> 0]
    /\ outcome = [t \in Trxs |-> "pending"]

\* Transaction t takes its turn: it is executed or cancelled, once.
Settle(t, how) ==
    /\ outcome[t] = "pending"
    /\ next[caller[t]] = nonce[t]
    /\ outcome' = [outcome EXCEPT ![t] = how]
    /\ next' = [next EXCEPT ![caller[t]] = @ + 1]

Next == \E t \in Trxs, how \in {"executed", "cancelled"} : Settle(t, how)

Spec == Init /\ [][Next]_vars
=============================================================================
