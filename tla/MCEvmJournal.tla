---------------------------- MODULE MCEvmJournal ----------------------------
(***************************************************************************)
(* Instances of EvmJournal for TLC: a user and the contract app.  The user *)
(* creates mine with its first transaction; app creates child with         *)
(* CREATE2, so that it can be created again once it was destroyed.  The    *)
(* user withdraws to wallet; vault is the token account of app.            *)
(***************************************************************************)
EXTENDS EvmJournal

CONSTANTS user, app, child, mine, token, legacy, eof1, zero, one,
          pool, wallet, vault, deposit, o1, o2

UserCreates == [c \in {<<user, 0>>} |-> mine]
NobodyCreates == [c \in {} |-> mine]
ContractCreates2 == [x \in {child} |-> app]

\* app and perhaps child are deployed, with the code c and with storage that
\* earlier transactions wrote
At(funds, deployed, c) ==
    [exists  |-> {user} \cup deployed,
     nonce   |-> [x \in Addresses |-> CASE x = app -> Cardinality(deployed)
                                   [] x = child /\ child \in deployed -> 1
                                   [] OTHER -> 0],
     balance |-> [x \in Addresses |-> IF x = user THEN funds ELSE 0],
     code    |-> [x \in Addresses |-> IF x \in deployed THEN c ELSE NoCode],
     storage |-> [x \in Addresses |-> [i \in Indices |->
                     IF x \in deployed THEN one ELSE zero]]]

OneContract == At(1, {app}, legacy)
\* The user can pay for two transactions, and app has a NEON of its own.
RichContract ==
    [At(2, {app, child}, legacy) EXCEPT !.balance[app] = 1]

NoVault == [k \in {} |-> app]
VaultOfApp == [k \in {vault} |-> app]

\* The pool has n tokens; the wallet is there or not, the vault is not.
Tokens(n, wallet_owner) ==
    [k \in SolanaKeys |->
        CASE k = pool -> [owner |-> "token", authority |-> deposit, amount |-> n]
          [] k = wallet -> [owner |-> wallet_owner, authority |-> wallet, amount |-> 0]
          [] OTHER -> [owner |-> "system", authority |-> app, amount |-> 0]]

WalletThere == Tokens(1, "token")
WalletMissing == Tokens(3, "system")

EofContract == At(1, {app}, eof1)
\* The address of child had an account before there was a contract: it is the
\* one that operators are paid to.
EofContractPaid == [EofContract EXCEPT !.exists = @ \cup {child}]
=============================================================================
