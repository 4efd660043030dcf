--------------------------- MODULE MCIterativeTrx ---------------------------
(***************************************************************************)
(* Instances of IterativeTrx for TLC.  Two operators, each with a holder   *)
(* account of its own; a lamport, a byte and a signature cost 1.           *)
(***************************************************************************)
EXTENDS IterativeTrx, TLC

CONSTANTS a, b, c, o1, o2, h1, h2, t1, t2, t3

MCowner == [h \in Holders |-> IF h = h1 THEN o1 ELSE o2]

\* A call that transfers v and can pay for a few iterations.
Call(from, n, to, v, price, limit) ==
    [caller |-> from, nonce |-> n, target |-> to, create |-> FALSE,
     code_size |-> 0, value |-> v, gas_limit |-> limit, gas_price |-> price,
     chain_id |-> TRUE, parts |-> 1]

\* Two callers pay the same address, which does not exist at first.
SharedTarget ==
    (t1 :> Call(a, 0, c, 1, 0, 7)) @@ (t2 :> Call(b, 0, c, 1, 0, 7))

\* A caller signs nonce 0 twice, and nonce 1 without a chain id for a
\* transaction of two messages that calls a precompile.
Replacements ==
    (t1 :> Call(a, 0, b, 0, 0, 5)) @@ (t2 :> Call(a, 0, b, 1, 0, 4)) @@
    (t3 :> [Call(a, 1, c, 0, 0, 3) EXCEPT !.chain_id = FALSE, !.parts = 2])

\* A caller deploys a contract that takes three allocations, and another
\* account is paid at the address the contract is going to have.
Deployment ==
    (t1 :> [Call(a, 0, c, 1, 1, 13) EXCEPT !.create = TRUE, !.code_size = 3]) @@
    (t2 :> Call(b, 0, c, 1, 0, 3))
=============================================================================
