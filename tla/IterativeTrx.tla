---------------------------- MODULE IterativeTrx ----------------------------
(***************************************************************************)
(* The transaction protocol of the Neon EVM program: holder accounts,      *)
(* transactions executed in one Solana transaction or iteratively over     *)
(* many, the rw_blocked locks on Ethereum accounts that keep iterative     *)
(* transactions apart, operator takeover, cancellation, gas payment.       *)
(*                                                                         *)
(* One action is one Solana instruction.  Solana runs an instruction       *)
(* atomically and discards everything it did when it returns an error or   *)
(* panics, so an error path is an action that is not enabled.              *)
(*                                                                         *)
(* What a contract's code computes is abstracted: a run of the EVM lasts   *)
(* any number of iterations and ends in "stop" or "revert"; its effect is  *)
(* what Machine::new put in the journal (the nonce increments, the value   *)
(* transfer) and the deployed code.                                        *)
(***************************************************************************)
EXTENDS Integers, FiniteSets, FiniteSetsExt

CONSTANTS
    Operators,      \* Solana keys that sign instructions
    Authorized,     \* AUTHORIZED_OPERATOR_LIST
    Crashed,        \* operators that may stop serving at any time
    Addresses,      \* Ethereum addresses
    Holders,        \* Solana keys of holder accounts
    owner,          \* [Holders -> Operators]: a holder's key is derived from it
    Trxs,           \* signed transactions, identified by their hash
    NoTrx,          \* the zero hash of a holder nothing was written to
    trx,            \* [Trxs -> TrxRecord], the contents of the transactions
    Precompiles,    \* addresses of the EVM precompiles
    OPERATOR_PRIORITY_SLOTS,
    LAMPORTS_PER_SIGNATURE,
    PAYMENT_TO_TREASURE,
    GAS_LIMIT_MULTIPLIER_NO_CHAINID,
    MAX_PERMITTED_DATA_INCREASE,
    ACCOUNT_SIZE,            \* EthereumAccount::SIZE
    INTERNAL_STORAGE_SIZE,   \* the first 64 storage cells of a contract
    RENT_PER_BYTE,           \* price of rent exemption
    Amounts,                 \* amounts that can be deposited at once
    MaxSupply                \* bound: total of all deposits

TrxRecord == [
    caller    : Addresses,
    nonce     : Nat,
    target    : Addresses,   \* of a creation, the address derived for it
    create    : BOOLEAN,
    code_size : Nat,         \* of a creation, the length of the code returned
    value     : Nat,
    gas_limit : Nat,
    gas_price : Nat,
    chain_id  : BOOLEAN,     \* signed for CHAIN_ID, or without a chain id
    parts     : Nat ]        \* messages it takes to write it to a holder

(***************************************************************************)
(* An address has 20 bytes, so there are finitely many.  A created address *)
(* is a hash of its creator's address, so it is never the address of a key *)
(* that signs transactions; precompile addresses are nobody's key and      *)
(* nobody's contract.                                                      *)
(***************************************************************************)
ASSUME ConstantsAssumption ==
    /\ IsFiniteSet(Addresses)
    /\ Authorized \subseteq Operators
    /\ Crashed \subseteq Operators
    /\ owner \in [Holders -> Operators]
    /\ NoTrx \notin Trxs
    /\ trx \in [Trxs -> TrxRecord]
    /\ \A t, u \in Trxs : trx[t].create => trx[t].target # trx[u].caller
    /\ \A t \in Trxs : trx[t].create => trx[t].code_size > 0
    /\ \A t \in Trxs : trx[t].create => trx[t].target \notin Precompiles

ASSUME BoundsAssumption ==
    /\ OPERATOR_PRIORITY_SLOTS \in Nat
    /\ LAMPORTS_PER_SIGNATURE \in Nat \ {0}
    /\ PAYMENT_TO_TREASURE \in Nat
    /\ GAS_LIMIT_MULTIPLIER_NO_CHAINID \in Nat \ {0}
    /\ MAX_PERMITTED_DATA_INCREASE \in Nat \ {0}
    /\ ACCOUNT_SIZE \in Nat \ {0}
    /\ ACCOUNT_SIZE <= MAX_PERMITTED_DATA_INCREASE
    /\ INTERNAL_STORAGE_SIZE \in Nat
    /\ RENT_PER_BYTE \in Nat
    /\ Amounts \subseteq Nat
    /\ MaxSupply \in Nat

VARIABLES
    status,      \* [Addresses -> Status] of the Solana account of an address
    space,       \* [Addresses -> Nat], its length
    trx_count,   \* [Addresses -> Nat]
    balance,     \* [Addresses -> Nat]
    rw_blocked,  \* SUBSET Addresses: the accounts with the flag set
    code,        \* SUBSET Addresses: the accounts with code
    storage,     \* [Holders -> StorageRecord]
    outcome,     \* history: what became of every transaction
    charged,     \* history: NEON every transaction was charged for gas
    supply       \* history: NEON deposited so far

solana == <<status, space>>
ethereum == <<trx_count, balance, code>>
vars == <<status, space, trx_count, balance, rw_blocked, code,
          storage, outcome, charged, supply>>

(***************************************************************************)
(* The Solana account of an address is owned by the system program, owned  *)
(* by the program but not initialised (TAG_EMPTY), or an EthereumAccount.  *)
(* The other variables hold what the account storage reports of an         *)
(* address, which is zero, unblocked and no code for the first two: the    *)
(* invariant Pristine says that this is also what init finds to write.     *)
(***************************************************************************)
Status == {"system", "empty", "ether"}

(***************************************************************************)
(* A holder account and what it turns into.  "age" is the number of slots  *)
(* since storage.slot, the only way the code uses that slot; it saturates  *)
(* at MaxAge, where every comparison with it has been decided.             *)
(***************************************************************************)
MaxAge == OPERATOR_PRIORITY_SLOTS + 1

StorageRecord == [
    tag       : {"Empty", "Holder", "State", "Finalized"},
    trx       : Trxs \cup {NoTrx},
    written   : SUBSET Nat,
    operator  : Operators,
    age       : 0..MaxAge,
    listed    : SUBSET Addresses,   \* keys of the blocked accounts region
    existed   : SUBSET Addresses,   \* those with the exists flag
    gas_used  : Nat,
    gas_limit : Nat,
    evm       : {"none", "running", "stop", "revert"} ]

TypeOK ==
    /\ status \in [Addresses -> Status]
    /\ space \in [Addresses -> Nat]
    /\ trx_count \in [Addresses -> Nat]
    /\ balance \in [Addresses -> Nat]
    /\ rw_blocked \subseteq Addresses
    /\ code \subseteq Addresses
    /\ storage \in [Holders -> StorageRecord]
    /\ outcome \in [Trxs -> {"pending", "executed", "cancelled"}]
    /\ charged \in [Trxs -> Nat]
    /\ supply \in Nat

-----------------------------------------------------------------------------
(* Accounts *)

EmptyStorage(h) ==
    [tag |-> "Empty", trx |-> NoTrx, written |-> {}, operator |-> owner[h],
     age |-> 0, listed |-> {}, existed |-> {}, gas_used |-> 0,
     gas_limit |-> 0, evm |-> "none"]

InProgress(h) == storage[h].tag = "State"

\* account_exists, over the keys of an instruction
Existing(keys) == {x \in keys : status[x] = "ether"}

\* check_for_blocked_accounts
NoCheckForBlocked(keys) == TRUE

NoneBlocked(keys) == Existing(keys) \cap rw_blocked = {}

-----------------------------------------------------------------------------
(* Applying the journal of transaction t after its EVM run ended in r.     *)
(* The journal has an EvmIncrementNonce for the caller and, unless the run *)
(* was reverted, one for a created contract, a NeonTransfer, an EvmSetCode. *)

Transfers(t, r) ==
    r = "stop" /\ trx[t].value > 0 /\ trx[t].caller # trx[t].target

Deploys(t, r) == r = "stop" /\ trx[t].create

space_needed(code_size) ==
    ACCOUNT_SIZE + (IF code_size > 0 THEN code_size + INTERNAL_STORAGE_SIZE ELSE 0)

\* calc_accounts_operations: the space the target's account must have, zero
\* if the journal does not need the account
SpaceNeeded(t, r) ==
    IF Deploys(t, r) THEN space_needed(trx[t].code_size)
    ELSE IF Transfers(t, r) THEN space_needed(0) ELSE 0

\* process_accounts_operations: the space one instruction can give it
SpaceReached(t, r) ==
    LET have == space[trx[t].target]
        need == SpaceNeeded(t, r)
    IN  IF have >= need THEN have
        ELSE IF have + MAX_PERMITTED_DATA_INCREASE >= need THEN need
        ELSE have + MAX_PERMITTED_DATA_INCREASE

AccountsReady(t, r) == SpaceReached(t, r) >= SpaceNeeded(t, r)

Reallocated(t, r) == [space EXCEPT ![trx[t].target] = SpaceReached(t, r)]

\* The operator's lamports that go into rent exemption
Expenses(t, r) ==
    (SpaceReached(t, r) - space[trx[t].target]) * RENT_PER_BYTE

\* The target's account after that, and after create_account_if_not_exists
Allocated(t, r) ==
    [status EXCEPT ![trx[t].target] =
        IF SpaceNeeded(t, r) > 0 /\ @ = "system" THEN "empty" ELSE @]

Initialised(t, r) ==
    [status EXCEPT ![trx[t].target] = IF SpaceNeeded(t, r) > 0 THEN "ether" ELSE @]

\* The checks whose failure makes apply_state_change fail.
CanApply(t, r) ==
    /\ Transfers(t, r) => balance[trx[t].caller] >= trx[t].value
    /\ Deploys(t, r) => trx[t].target \notin code

Moved(t, r) ==
    IF Transfers(t, r)
    THEN [balance EXCEPT ![trx[t].caller] = @ - trx[t].value,
                         ![trx[t].target] = @ + trx[t].value]
    ELSE balance

Counted(t, r) ==
    [x \in Addresses |->
        trx_count[x] + (IF x = trx[t].caller THEN 1 ELSE 0)
                     + (IF x = trx[t].target /\ Deploys(t, r) THEN 1 ELSE 0)]

Deployed(t, r) == IF Deploys(t, r) THEN code \cup {trx[t].target} ELSE code

-----------------------------------------------------------------------------
(* Gas *)

\* transfer_gas_payment, out of bal, from the caller of t to the account e
CanPayOnCredit(bal, t, gas) == status[trx[t].caller] = "ether"

CanPay(bal, t, gas) ==
    /\ status[trx[t].caller] = "ether"
    /\ bal[trx[t].caller] >= gas * trx[t].gas_price

GasPaidAliased(bal, t, e, gas) ==
    [bal EXCEPT ![trx[t].caller] = @ - gas * trx[t].gas_price,
                ![e] = bal[e] + gas * trx[t].gas_price]

GasPaid(bal, t, e, gas) ==
    IF e = trx[t].caller THEN bal
    ELSE [bal EXCEPT ![trx[t].caller] = @ - gas * trx[t].gas_price,
                     ![e] = @ + gas * trx[t].gas_price]

\* What t was charged so far and now, whoever gets it
Charged(t, gas) == [charged EXCEPT ![t] = @ + gas * trx[t].gas_price]

\* record_write_to_holder
WriteGas(t) == trx[t].parts * LAMPORTS_PER_SIGNATURE

\* record_solana_transaction_cost and record_iterative_overhead
BeginGas == LAMPORTS_PER_SIGNATURE + 2 * LAMPORTS_PER_SIGNATURE

-----------------------------------------------------------------------------
(* Machine::new: the checks made once, when a transaction starts *)

CanStartAnyNonce(t, keys) ==
    /\ {trx[t].caller, trx[t].target} \subseteq keys
    /\ trx_count[trx[t].caller] <= trx[t].nonce + 1
    /\ balance[trx[t].caller] >= trx[t].value
    /\ trx[t].caller \notin code

CanStart(t, keys) ==
    /\ {trx[t].caller, trx[t].target} \subseteq keys
    /\ trx_count[trx[t].caller] = trx[t].nonce
    /\ balance[trx[t].caller] >= trx[t].value
    /\ trx[t].caller \notin code
    /\ trx[t].create => /\ trx_count[trx[t].target] = 0
                        /\ trx[t].target \notin code

-----------------------------------------------------------------------------
(* Holder accounts *)

HolderCreate(h) ==
    /\ storage[h].tag = "Empty"
    /\ storage' = [storage EXCEPT ![h] = [EmptyStorage(h) EXCEPT !.tag = "Holder"]]
    /\ UNCHANGED <<solana, ethereum, rw_blocked, outcome, charged, supply>>

HolderDelete(h) ==
    /\ storage[h].tag \in {"Holder", "Finalized"}
    /\ storage' = [storage EXCEPT ![h] = EmptyStorage(h)]
    /\ UNCHANGED <<solana, ethereum, rw_blocked, outcome, charged, supply>>

\* Message p of transaction t; what another hash left behind is cleared.
HolderWrite(h, t, p) ==
    /\ storage[h].tag \in {"Holder", "Finalized"}
    /\ LET kept == IF storage[h].tag = "Holder" /\ storage[h].trx = t
                   THEN storage[h].written ELSE {}
       IN  storage' = [storage EXCEPT ![h] =
               [EmptyStorage(h) EXCEPT !.tag = "Holder", !.trx = t,
                                       !.written = kept \cup {p}]]
    /\ UNCHANGED <<solana, ethereum, rw_blocked, outcome, charged, supply>>

\* The holder's bytes are a transaction with the hash it was written under.
HoldsTrx(h, t) ==
    /\ storage[h].tag = "Holder"
    /\ storage[h].trx = t
    /\ storage[h].written = 1..trx[t].parts

-----------------------------------------------------------------------------
(* Iterative execution *)

\* The state account that State::new and the first iteration leave.
NewState(h, t, keys, gas, limit) ==
    [tag |-> "State", trx |-> t, written |-> {}, operator |-> owner[h],
     age |-> 0, listed |-> keys, existed |-> Existing(keys),
     gas_used |-> gas, gas_limit |-> limit, evm |-> "running"]

\* State::new, do_begin and finalize: the owner of holder h starts t
\* in it with the given keys and has the caller's gas paid to e.
Begin(h, t, keys, e, gas, limit) ==
    /\ owner[h] \in Authorized
    /\ status[e] = "ether"
    /\ NoneBlocked(keys)
    /\ CanStart(t, keys)
    /\ gas <= limit
    /\ CanPay(balance, t, gas)
    /\ rw_blocked' = rw_blocked \cup Existing(keys)
    /\ balance' = GasPaid(balance, t, e, gas)
    /\ charged' = Charged(t, gas)
    /\ storage' = [storage EXCEPT ![h] = NewState(h, t, keys, gas, limit)]
    /\ UNCHANGED <<solana, trx_count, code, outcome, supply>>

\* The gas limit that was signed, raised for a transaction without chain id
GasAllowed(t) ==
    IF trx[t].chain_id THEN trx[t].gas_limit
    ELSE trx[t].gas_limit * GAS_LIMIT_MULTIPLIER_NO_CHAINID

BeginFromAccount(h, t, keys, e) ==
    /\ HoldsTrx(h, t)
    /\ Begin(h, t, keys, e, BeginGas + WriteGas(t), GasAllowed(t))

BeginFromInstruction(h, t, keys, e) ==
    /\ \/ storage[h].tag = "Holder"
       \/ storage[h].tag = "Finalized" /\ storage[h].trx # t
    /\ Begin(h, t, keys, e, BeginGas, trx[t].gas_limit)

\* State::restore: the operator that holds the transaction, or any other
\* once that one's priority has expired.
MayTakeOwnOnly(h, o) ==
    InProgress(h) /\ o \in Authorized /\ o = storage[h].operator

MayTake(h, o) ==
    /\ InProgress(h)
    /\ o \in Authorized
    /\ o # storage[h].operator => storage[h].age > OPERATOR_PRIORITY_SLOTS

\* check_blocked_accounts, when the transaction is not being cancelled
AppearanceIgnored(h) == TRUE

NothingAppeared(h) ==
    Existing(storage[h].listed) \subseteq storage[h].existed

\* Outcomes of Machine::execute: the exit status r and the steps it took,
\* where 2 stands for more than EVM_STEPS_LAST_ITERATION_MAX.
EvmRun(h, r, steps) ==
    IF storage[h].evm # "running" THEN r = storage[h].evm /\ steps = 0
    ELSE IF trx[storage[h].trx].target \in Precompiles THEN r = "stop" /\ steps = 0
    ELSE \/ r = "running" /\ steps = 2
         \/ r \in {"stop", "revert"} /\ steps \in {1, 2}

ContinueGas(steps) ==
    LAMPORTS_PER_SIGNATURE + (IF steps > 0 THEN PAYMENT_TO_TREASURE ELSE 0)

\* finalize: the gas of all iterations so far is within what was signed for.
WithinGasOfStep(h, gas) == gas <= storage[h].gas_limit

WithinGas(h, gas) == storage[h].gas_used + gas <= storage[h].gas_limit

\* The state account after an iteration by o that does not end it.
Resumed(h, o, gas, evm) ==
    [storage EXCEPT
        ![h].operator = o,
        ![h].age = IF o = storage[h].operator THEN @ ELSE 0,
        ![h].gas_used = @ + gas,
        ![h].evm = evm]

\* do_continue with no journal to apply yet
ContinueRun(h, o, e, r) ==
    LET t == storage[h].trx
        gas == ContinueGas(2) IN
    /\ MayTake(h, o)
    /\ status[e] = "ether"
    /\ NothingAppeared(h)
    /\ EvmRun(h, r, 2)
    /\ WithinGas(h, gas)
    /\ CanPay(balance, t, gas)
    /\ balance' = GasPaid(balance, t, e, gas)
    /\ charged' = Charged(t, gas)
    /\ storage' = Resumed(h, o, gas, r)
    /\ UNCHANGED <<solana, trx_count, code, rw_blocked, outcome, supply>>

\* do_continue that starts to apply the journal but has to leave it for the
\* next iteration, because an account needs more space than it can get now
ContinueRealloc(h, o, e, r, steps) ==
    LET t == storage[h].trx
        gas == ContinueGas(steps) + Expenses(t, r) IN
    /\ MayTake(h, o)
    /\ status[e] = "ether"
    /\ NothingAppeared(h)
    /\ EvmRun(h, r, steps)
    /\ ~AccountsReady(t, r)
    /\ WithinGas(h, gas)
    /\ CanPay(balance, t, gas)
    /\ space' = Reallocated(t, r)
    /\ status' = Allocated(t, r)
    /\ balance' = GasPaid(balance, t, e, gas)
    /\ charged' = Charged(t, gas)
    /\ storage' = Resumed(h, o, gas, IF steps > 0 THEN r ELSE storage[h].evm)
    /\ UNCHANGED <<trx_count, code, rw_blocked, outcome, supply>>

\* do_continue that applies the journal, unblocks the accounts and turns the
\* state account into a finalized one
ContinueFinish(h, o, e, r, steps) ==
    LET t == storage[h].trx
        gas == ContinueGas(steps) + Expenses(t, r) IN
    /\ MayTake(h, o)
    /\ status[e] = "ether"
    /\ NothingAppeared(h)
    /\ EvmRun(h, r, steps)
    /\ AccountsReady(t, r)
    /\ CanApply(t, r)
    /\ WithinGas(h, gas)
    /\ CanPay(Moved(t, r), t, gas)
    /\ space' = Reallocated(t, r)
    /\ status' = Initialised(t, r)
    /\ trx_count' = Counted(t, r)
    /\ balance' = GasPaid(Moved(t, r), t, e, gas)
    /\ charged' = Charged(t, gas)
    /\ code' = Deployed(t, r)
    /\ rw_blocked' = rw_blocked \ {x \in storage[h].listed : status'[x] = "ether"}
    /\ storage' = [storage EXCEPT ![h] =
           [EmptyStorage(h) EXCEPT !.tag = "Finalized", !.trx = t]]
    /\ outcome' = [outcome EXCEPT ![t] = "executed"]
    /\ UNCHANGED supply

Continue(h, o, e) ==
    \/ \E r \in {"running", "stop", "revert"} : ContinueRun(h, o, e, r)
    \/ \E r \in {"stop", "revert"}, steps \in {0, 1} :
          \/ ContinueRealloc(h, o, e, r, steps)
          \/ ContinueFinish(h, o, e, r, steps)

\* Two ways to get transaction_cancel wrong: to unblock every key of the
\* list, or to leave the nonce to the next transaction.
CancelOf(h, o, unblock, count) ==
    LET t == storage[h].trx IN
    /\ MayTake(h, o)
    /\ rw_blocked' = rw_blocked \ unblock
    /\ trx_count' = [trx_count EXCEPT ![trx[t].caller] = @ + count]
    /\ storage' = [storage EXCEPT ![h] =
           [EmptyStorage(h) EXCEPT !.tag = "Finalized", !.trx = t]]
    /\ outcome' = [outcome EXCEPT ![t] = "cancelled"]
    /\ UNCHANGED <<solana, balance, code, charged, supply>>

CancelAllListed(h, o) == CancelOf(h, o, Existing(storage[h].listed), 1)

CancelKeepsNonce(h, o) == CancelOf(h, o, Existing(storage[h].existed), 0)

\* transaction_cancel: unblock what the transaction had blocked, use up the
\* caller's nonce, take no gas
Cancel(h, o) ==
    LET t == storage[h].trx
        unblock == Existing(storage[h].existed) IN
    /\ MayTake(h, o)
    /\ rw_blocked' = rw_blocked \ unblock
    /\ trx_count' = [x \in Addresses |->
           IF x \in unblock /\ x = trx[t].caller
           THEN trx_count[x] + 1 ELSE trx_count[x]]
    /\ storage' = [storage EXCEPT ![h] =
           [EmptyStorage(h) EXCEPT !.tag = "Finalized", !.trx = t]]
    /\ outcome' = [outcome EXCEPT ![t] = "cancelled"]
    /\ UNCHANGED <<solana, balance, code, charged, supply>>

BlockAddUnchecked(h, keys) ==
    LET new == keys \ storage[h].listed IN
    /\ InProgress(h)
    /\ owner[h] \in Authorized
    /\ rw_blocked' = rw_blocked \cup Existing(new)
    /\ storage' = [storage EXCEPT ![h].listed = @ \cup new,
                                  ![h].existed = @ \cup Existing(new)]
    /\ UNCHANGED <<solana, ethereum, outcome, charged, supply>>

\* account_block_add: the owner of the state account, whoever the current
\* operator is, adds keys to the list
BlockAdd(h, keys) ==
    LET new == keys \ storage[h].listed IN
    /\ InProgress(h)
    /\ owner[h] \in Authorized
    /\ NoneBlocked(new)
    /\ rw_blocked' = rw_blocked \cup Existing(new)
    /\ storage' = [storage EXCEPT ![h].listed = @ \cup new,
                                  ![h].existed = @ \cup Existing(new)]
    /\ UNCHANGED <<solana, ethereum, outcome, charged, supply>>

-----------------------------------------------------------------------------
(* Everything else that touches the accounts *)

\* transaction_execute: the whole transaction in one instruction
Execute(t, keys, e, r, gas0) ==
    LET gas == gas0 + PAYMENT_TO_TREASURE + Expenses(t, r) IN
    /\ trx[t].chain_id
    /\ status[e] = "ether"
    /\ NoneBlocked(keys)
    /\ CanStart(t, keys)
    /\ AccountsReady(t, r)
    /\ CanApply(t, r)
    /\ gas <= trx[t].gas_limit
    /\ CanPay(Moved(t, r), t, gas)
    /\ space' = Reallocated(t, r)
    /\ status' = Initialised(t, r)
    /\ trx_count' = Counted(t, r)
    /\ balance' = GasPaid(Moved(t, r), t, e, gas)
    /\ charged' = Charged(t, gas)
    /\ code' = Deployed(t, r)
    /\ outcome' = [outcome EXCEPT ![t] = "executed"]
    /\ UNCHANGED <<rw_blocked, storage, supply>>

ExecuteFromInstruction(t, keys, e, r) ==
    Execute(t, keys, e, r, LAMPORTS_PER_SIGNATURE)

ExecuteFromAccount(h, t, keys, e, r) ==
    /\ HoldsTrx(h, t)
    /\ Execute(t, keys, e, r, LAMPORTS_PER_SIGNATURE + WriteGas(t))

CreateAccount(x) ==
    /\ status[x] = "system"
    /\ status' = [status EXCEPT ![x] = "ether"]
    /\ space' = [space EXCEPT ![x] = ACCOUNT_SIZE]
    /\ UNCHANGED <<ethereum, rw_blocked, storage, outcome, charged, supply>>

\* neon_tokens_deposit: creates the account if the system program owns it,
\* and fails if it is allocated but not initialised; locks are not looked at
Deposit(x, amount) ==
    /\ supply + amount <= MaxSupply
    /\ status[x] # "empty"
    /\ status' = [status EXCEPT ![x] = "ether"]
    /\ space' = [space EXCEPT ![x] = IF status[x] = "system" THEN ACCOUNT_SIZE ELSE @]
    /\ balance' = [balance EXCEPT ![x] = @ + amount]
    /\ supply' = supply + amount
    /\ UNCHANGED <<trx_count, code, rw_blocked, storage, outcome, charged>>

\* A Solana slot passes.
Tick ==
    /\ \E h \in Holders : InProgress(h) /\ storage[h].age < MaxAge
    /\ storage' = [h \in Holders |->
           IF InProgress(h) /\ storage[h].age < MaxAge
           THEN [storage[h] EXCEPT !.age = @ + 1] ELSE storage[h]]
    /\ UNCHANGED <<solana, ethereum, rw_blocked, outcome, charged, supply>>
-----------------------------------------------------------------------------
Init ==
    /\ status = [x \in Addresses |-> "system"]
    /\ space = [x \in Addresses |-> 0]
    /\ trx_count = [x \in Addresses |-> 0]
    /\ balance = [x \in Addresses |-> 0]
    /\ rw_blocked = {}
    /\ code = {}
    /\ storage = [h \in Holders |-> EmptyStorage(h)]
    /\ outcome = [t \in Trxs |-> "pending"]
    /\ charged = [t \in Trxs |-> 0]
    /\ supply = 0

StorageStep(h) ==
    \/ HolderCreate(h)
    \/ HolderDelete(h)
    \/ \E t \in Trxs : \E p \in 1..trx[t].parts : HolderWrite(h, t, p)
    \/ \E t \in Trxs, keys \in SUBSET Addresses, e \in Addresses :
          \/ BeginFromAccount(h, t, keys, e)
          \/ BeginFromInstruction(h, t, keys, e)
    \/ \E o \in Operators, e \in Addresses : Continue(h, o, e)
    \/ \E o \in Operators : Cancel(h, o)
    \/ \E keys \in SUBSET Addresses : BlockAdd(h, keys)

LedgerStep ==
    \/ \E t \in Trxs, keys \in SUBSET Addresses, e \in Addresses,
          r \in {"stop", "revert"} :
          \/ ExecuteFromInstruction(t, keys, e, r)
          \/ \E h \in Holders : ExecuteFromAccount(h, t, keys, e, r)
    \/ \E x \in Addresses : CreateAccount(x)
    \/ \E x \in Addresses, amount \in Amounts : Deposit(x, amount)

Next == (\E h \in Holders : StorageStep(h)) \/ LedgerStep \/ Tick

Spec == Init /\ [][Next]_vars

(***************************************************************************)
(* Fairness: slots keep passing, and at least the operators outside        *)
(* Crashed go on submitting cancellations for transactions that they may   *)
(* take.  Nobody has to continue a transaction.                            *)
(***************************************************************************)
FairSpec ==
    /\ Spec
    /\ WF_vars(Tick)
    /\ \A h \in Holders :
          WF_vars(\E o \in Authorized \ Crashed : Cancel(h, o))
-----------------------------------------------------------------------------
(* Correctness *)

\* State account h holds the lock of x.
Holds(h, x) == InProgress(h) /\ x \in storage[h].existed

(***************************************************************************)
(* rw_blocked is set in an account exactly while a state account lists the *)
(* account as one that existed, and no two state accounts do: no sequence  *)
(* of begin, block, continue, takeover, cancel and finish leaves a lock    *)
(* behind, drops one early or gives it to two transactions.                *)
(***************************************************************************)
LocksMatch ==
    \A x \in Addresses :
        x \in rw_blocked <=> \E h \in Holders : Holds(h, x)

LocksExclusive ==
    \A h, g \in Holders : \A x \in Addresses :
        Holds(h, x) /\ Holds(g, x) => h = g

(***************************************************************************)
(* While a transaction is in progress its caller is locked by it and still *)
(* has the nonce Machine::new checked in the first iteration, so that the  *)
(* increment applied many iterations later is the right one.               *)
(***************************************************************************)
CallerHeld ==
    \A h \in Holders : InProgress(h) =>
        LET t == storage[h].trx IN
        /\ t \in Trxs
        /\ Holds(h, trx[t].caller)
        /\ trx_count[trx[t].caller] = trx[t].nonce

(***************************************************************************)
(* A transaction that a state account is running has had no effect yet; a  *)
(* transaction that was settled used its nonce up; a finalized account     *)
(* names a settled transaction.                                            *)
(***************************************************************************)
SettledOnce ==
    /\ \A h \in Holders : InProgress(h) => outcome[storage[h].trx] = "pending"
    /\ \A h \in Holders : storage[h].tag = "Finalized" =>
           outcome[storage[h].trx] # "pending"
    /\ \A t \in Trxs : outcome[t] # "pending" =>
           trx_count[trx[t].caller] > trx[t].nonce

(***************************************************************************)
(* The induction: locked accounts are initialised ones, and a key that is  *)
(* not an initialised account carries no data, so that initialising it in  *)
(* the middle of somebody's transaction resets nothing.                    *)
(***************************************************************************)
HeldExist ==
    \A h \in Holders : InProgress(h) =>
        /\ storage[h].existed \subseteq storage[h].listed
        /\ \A x \in storage[h].existed : status[x] = "ether"

\* The keys of a transaction include its target, which an iteration may
\* initialise and reallocate.
TargetListed ==
    \A h \in Holders : InProgress(h) =>
        trx[storage[h].trx].target \in storage[h].listed

Pristine ==
    \A x \in Addresses : status[x] # "ether" =>
        /\ trx_count[x] = 0
        /\ balance[x] = 0
        /\ x \notin rw_blocked
        /\ x \notin code

IndInv ==
    /\ TypeOK
    /\ HeldExist
    /\ TargetListed
    /\ Pristine
    /\ LocksMatch
    /\ LocksExclusive
    /\ CallerHeld
    /\ SettledOnce

(***************************************************************************)
(* All that finalize ever takes for the gas of a transaction, in all its   *)
(* iterations by whichever operators, the last one and its rent included,  *)
(* or in a run of one instruction, and however often the transaction is    *)
(* submitted, is within the gas limit it was signed with (multiplied if it *)
(* has no chain id) at the gas price it was signed with.                   *)
(***************************************************************************)
GasBounded ==
    \A t \in Trxs : charged[t] <= GasAllowed(t) * trx[t].gas_price

(***************************************************************************)
(* Transfers, gas payments and account creation neither create nor destroy *)
(* NEON: all balances together are what has been deposited.                *)
(***************************************************************************)
SupplyConserved ==
    MapThenSumSet(LAMBDA x : balance[x], Addresses) = supply

(***************************************************************************)
(* Isolation: an account locked by a transaction changes only in a step of *)
(* that transaction, except that anybody may add to its balance (deposits  *)
(* and gas payments to an operator do not look at locks).                  *)
(***************************************************************************)
OnlyCredited(x) ==
    /\ balance'[x] >= balance[x]
    /\ x \in rw_blocked'
    /\ x \in code' <=> x \in code
    /\ <<status[x], space[x], trx_count[x]>>' = <<status[x], space[x], trx_count[x]>>

LockIsolation ==
    [][\A x \in rw_blocked :
          \/ OnlyCredited(x)
          \/ \E h \in Holders : Holds(h, x) /\ storage'[h] # storage[h]]_vars

(***************************************************************************)
(* An account that did not exist when a transaction listed it, and that    *)
(* somebody else has created since, is never modified by that transaction: *)
(* check_blocked_accounts leaves only cancellation, and cancellation does  *)
(* not touch it, whoever holds its lock by then.                           *)
(***************************************************************************)
Contents(x) ==
    <<status[x], space[x], trx_count[x], balance[x], x \in rw_blocked, x \in code>>

CreatedOutsideUntouched ==
    [][\A h \in Holders : \A x \in storage[h].listed \ storage[h].existed :
          /\ InProgress(h)
          /\ status[x] = "ether"
          /\ storage'[h].tag # "State" \/ storage'[h].gas_used # storage[h].gas_used
          => Contents(x)' = Contents(x)]_vars

\* The signers, and the abstract ledger that the program implements.
Callers == {trx[t].caller : t \in Trxs}

Ledger == INSTANCE TrxLedger WITH
    caller  <- [t \in Trxs |-> trx[t].caller],
    nonce   <- [t \in Trxs |-> trx[t].nonce],
    next    <- [x \in Callers |-> trx_count[x]]

(***************************************************************************)
(* Every signed transaction takes effect at most once, in nonce order, by  *)
(* execution or by cancellation but not both, however it is submitted,     *)
(* resubmitted, rewritten to a holder, continued or taken over.            *)
(***************************************************************************)
LedgerSpec == Ledger!Spec

(***************************************************************************)
(* No lock is held forever: whatever the operators in Crashed do or stop   *)
(* doing, an account that is locked is unlocked later.                     *)
(***************************************************************************)
LocksReleased ==
    \A x \in Addresses : x \in rw_blocked ~> x \notin rw_blocked
=============================================================================
