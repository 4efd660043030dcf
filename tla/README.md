# Neon EVM in TLA+

Neon EVM is a Solana program that executes signed Ethereum transactions. This
directory holds a formal model of it: TLA+ modules translated from
`src/evm_loader/program/src`, TLC configurations that check them on small
instances, and TLAPS proofs for all instances. Paths below are relative to
`src/evm_loader/program/src`.

## The system

An *operator* is a Solana key that pays for Solana transactions on behalf of
Ethereum users. A user signs an Ethereum transaction; an operator submits it to
the program, in one instruction or, when it does not fit into the compute
budget of one, in many.

| Part | State it keeps | Operations | Interacts with |
|---|---|---|---|
| Holder accounts (`account/holder.rs`, `instruction/account_holder_*.rs`) | owner, hash, bytes of a transaction | create, delete, write a message | become state accounts |
| State account (`state_account.rs`, `account/state.rs`) | transaction hash, caller, gas used and limit, current operator and its slot, blocked account list, serialized EVM and journal | new, restore, update list, finalize | holders, Ethereum accounts |
| Iterative execution (`instruction/transaction_step*.rs`) | none of its own | begin, continue, finalize | state account, EVM, journal, gas |
| Cancellation, `account_block_add` | none of their own | cancel, add accounts to the list | state account, locks |
| Single-instruction execution (`instruction/transaction_execute*.rs`) | none of its own | execute | EVM, journal, gas |
| Ethereum accounts (`account/ether_account.rs`, `ether_contract.rs`) | nonce, balance, `rw_blocked`, generation, code, first 64 storage cells | create, deposit, lock, pay | everything |
| Contract storage (`account/ether_storage.rs`) | chunks of 256 cells | get, set, create, clear | journal application |
| Journal application (`account_storage/apply.rs`) | none of its own | rearrange, allocate, apply | Ethereum accounts, storage, token programs |
| Executor state (`executor/state.rs`) | journal of actions, snapshot stack, cache | read, write, snapshot, revert, commit, queue and emulate instructions | EVM, account storage, token programs |
| Precompile extensions (`executor/precompile_extension/`), external programs (`external_programs/`) | none of their own | withdraw NEON, handle SPL tokens; emulate | executor state |
| EVM (`evm/mod.rs`, `opcode.rs`, `opcode_table.rs`) | call frames, program counter, opcode table | new, execute, call, create, exit | executor state |
| Stack, memory, buffers (`evm/stack.rs`, `memory.rs`, `buffer.rs`) | bytes, sizes, references into accounts | read, write, grow, serialize | EVM, holder account |
| EOF containers (`evm/eof.rs`, `validate.rs`, `analysis.rs`) | none of their own | parse, validate | EVM |
| Gasometer (`gasometer.rs`) | gas paid and being charged | record, used | finalize |
| Treasury (`account/treasury.rs`, `instruction/collect_treasury.rs`) | lamports | pay, collect | operators |
| Emulator, CLI, API (`evm_loader/lib`, `cli`, `api`) | off-chain copies | emulate, trace | RPC |

What is hard: a transaction in progress lives through many Solana transactions
of competing operators, with nothing but a flag in each account to keep others
out; operators stop at any time; accounts come into being under a running
transaction; checks made in the first iteration are relied upon in the last;
gas is paid piecewise out of the balance the transaction is about to spend;
applying the journal may itself take several Solana transactions; what contracts
do to token accounts is emulated now and done at the end, to accounts that nothing
locks; the machine is written to an account and rebuilt in every iteration, with
pointers into accounts in it.

### What makes each part correct

* **Iterative execution, state account, holders, cancellation, single
  execution.** Each signed transaction takes effect at most once, in nonce
  order; a lock belongs to one transaction, agrees with that transaction's list
  and isolates the account; no lock is held for ever; gas stays within what was
  signed; NEON is neither made nor lost.
* **EVM frames, journal, application.** A failed frame leaves no trace, a static
  frame writes nothing, snapshots match frames, what is applied is what the
  contracts read, every journal that a run can produce can be applied.
* **External instructions.** NEON in circulation is backed by the pool's tokens,
  and an instruction that was checked when it was queued is not refused when it is
  invoked unless others changed its accounts.
* **EOF containers.** Validation ends; code that is accepted has the stack heights
  the validator computed, wherever it jumps and under whichever opcode table it
  runs, and meets neither an empty stack nor an unknown opcode.
* **Stack, memory, buffers.** A contract sees zeroed memory and its buffers as if
  there were no allocation and no iteration; a machine that has not ended can be
  written to the holder account; opcodes compute what they are defined to.
* **Contract storage.** A cell reads as it was last written, or as zero, through
  destruction and redeployment; storage accounts do not outgrow their size and
  stay rent-exempt.
* **Block hashes.** The search ends, reads inside the sysvar and finds the slot.
* **Gas and lamport flows.** What operators pay, the treasury and the deposit of a
  state account add up (planned).
* **Transaction decoding.** It refuses what is not canonical (planned).
* **Emulator.** The accounts it collects contain all that the program will ask
  for (planned).

## Plan

Done, in this order: `TrxLedger`, `IterativeTrx` and its proofs (the protocol
that everything else runs in); `EvmJournal` and its proofs (what a transaction
does to accounts); `ContractStorage`, `SlotHashes` and its proofs; `OpcodeTable`
and `EofCode` (which code is accepted, and that it runs); `EvmMemory`, `EvmFrame`
and its proofs, `EvmStack` (what it computes on); token accounts and external
instructions, in `EvmJournal`; proofs about applying the journal, about contract
storage and about `EofCode`.

Next:

1. *Lamports.* `Gasometer` record and accounting, the state account's deposit
   (`make_deposit`, `withdraw_deposit`), the fees of external instructions,
   treasury payments, `collect_treasury`, `create_main_treasury`: one module;
   conservation of lamports, every deposit returned.
2. *External programs.* Mints, close, approve and the metaplex instructions.
3. *Transactions.* RLP decoding of legacy and typed transactions as an algorithm.
4. *Emulator.* Account collection against the keys an iteration needs.
5. *Composition.* `IterativeTrx` with the journal of `EvmJournal` in place of its
   abstract outcome, the faults found there as outcomes only a cancellation ends.

## The modules

| Module | Models | Run with |
|---|---|---|
| `TrxLedger` | the promise: transactions settle once, in nonce order | through `IterativeTrx` |
| `IterativeTrx` | instructions on holders, state accounts, locks, gas | `MCIterativeTrx` |
| `IterativeTrxProofs` | proofs about it | |
| `FoldLemmas` | no code: sums over finite sets and folds over sequences, for the proofs | |
| `EvmJournal` | call frames, journal, snapshots, token accounts, application | `MCEvmJournal` |
| `EvmJournalProofs` | proofs about it: frames, snapshots, reverts | |
| `EvmApplyProofs` | proofs about it: the journal's balances, creations, application | |
| `ContractStorage` | cells in contract and storage accounts | `MCContractStorage` |
| `ContractStorageProofs` | proofs about it | |
| `SlotHashes` | BLOCKHASH and `find_slot_hash` | itself |
| `SlotHashesProofs` | proofs about it | |
| `OpcodeTable` | the two dispatch tables and `OPCODE_INFO` | through `EofCode` |
| `EofCode` | EOF containers from bytes to execution | `MCEofCode` |
| `EofCodeProofs` | proofs about it: tables, scan, walk, execution | |
| `EvmMemory` | the promise: flat memory, no iterations | through `MCEvmFrame` |
| `EvmFrame` | memory, buffers, return data and image of the frames | `MCEvmFrame` |
| `EvmFrameFlat` | `EvmFrame` and `EvmMemory` side by side | `MCEvmFrame` |
| `EvmFrameProofs` | proofs about the pair and the machine | |
| `EvmStack` | words and the stack, with the laws they obey | through `MCEvmFrame` |

Definitions keep the names of the source where they can. An operator whose name
says that something is missing or wrong (`NoCheckForBlocked`, `CancelAllListed`,
`RevertOneTooFew`...) stands before the definition it is a faulty variant of. It
is not part of the specification: putting it in place of that definition must
make TLC report the property given for it in `PROJECT.json` under `mutants`, which
shows that the property depends on that piece of the code.

### IterativeTrx

One action is one Solana instruction. Solana executes it atomically and discards
its effects when it fails, so that a check that fails, an error or a panic is an
action that is not enabled.

| Variable | Code |
|---|---|
| `status`, `space` | owner, tag and length of the Solana account of an address |
| `trx_count`, `balance`, `rw_blocked`, `code` | fields of `EthereumAccount`; zero for an address without one |
| `storage[h]` | the holder, state or finalized account at key `h`: `tag`; `trx` (hash); `written`, the messages received; `operator`; `age`, which is `clock.slot - storage.slot`; `listed` and `existed`, the keys of the blocked accounts region and those with the exists flag; `gas_used`, `gas_limit`; `evm`, the exit status of the saved machine |
| `outcome`, `charged`, `supply` | history, not in the program: what became of a transaction, the NEON it was charged for gas, the NEON deposited |

| Action | Code |
|---|---|
| `HolderCreate`, `HolderDelete`, `HolderWrite` | `account_holder_*.rs` |
| `BeginFromAccount`, `BeginFromInstruction` | the three `transaction_step_from_*` handlers, `State::new`, `do_begin`, `finalize` |
| `ContinueRun`, `ContinueRealloc`, `ContinueFinish` | `State::restore`, `do_continue`, `finalize`: with no result to apply, with too little space for it, with its application |
| `Cancel` | `transaction_cancel.rs` |
| `BlockAdd` | `account_block_add.rs` |
| `ExecuteFromInstruction`, `ExecuteFromAccount` | `transaction_execute*.rs` |
| `CreateAccount`, `Deposit` | `account_create.rs`, `neon_tokens_deposit.rs` |
| `Tick` | a slot passes; `age` stops at the priority plus one, after which no comparison changes |

What a contract computes is any number of iterations and then "stop" or
"revert". Its effects are those of the transaction itself: nonces, the value, the
code of a creation, which is not empty here (`EvmJournal` has the empty case).

Points of the code that the model keeps and a reader might not expect: the last
iteration applies the journal before it takes the gas; `storage.slot` is renewed
when an operator takes a transaction over and not by every iteration; deposits and
gas payments to an operator's account ignore locks; `account_block_add` is for the
owner of the state account even when another operator has taken it over; a
cancelled deployment can leave an account that is allocated but not initialised,
to which deposits then fail; `gas_used` is written by the iterations that leave the
transaction in progress, so that what the last one takes (with the rent of accounts
that grow in it) and what `transaction_execute` takes is in `charged` only.

Left out: the lamports of the deposit and the treasury (planned), gas for address
lookup tables, saturation of gas arithmetic, `EVM_STEPS_MIN`, chain ids other than
"the right one" and "none". A caller's account exists when its transaction begins
(its nonce and balance are read from it and the gas is taken from it).

### EvmJournal

One action is one opcode that enters or leaves a frame or adds to the journal. The
frame's code is free to execute any of them; the stack and the memory are left
out, so the arguments are too. `world` is the accounts as the last transaction
left them, `actions` the journal, `stack` the snapshots, `frames` the machine with
its parents; `is_eof` is the opcode table `execute` chose for the iteration, which
`NextIteration` chooses again. `Apply` is `apply_state_change`: `into_actions`,
`rearrange_actions`, account creation, every action, storage at the end, the gas of
that iteration last (`GasCharged`). An
assertion that fails there is recorded in `fault` and leaves the rest alone, so
that the transaction remains for another attempt or for `Cancel`. A call that
fails its checks has no effect and is a stuttering step; only a creation spends
its creator's nonce then.

**Gas.** `finalize` of every iteration takes its price from the account of the origin,
whatever the journal has already spent of it, and gives it to the account of an
operator. `NextIteration` does so with a price from `GasCosts` and a payee from
`Collectors`: after `Start` it is the end of `do_begin`, in the middle an iteration
that reached its step limit, after the exit one that ran too long to apply or that
postponed application. An iteration that failed has paid nothing, a cancellation
takes nothing. `paid` is history: what was taken from each account since the
transaction began. An origin may thus be left with less than it has journaled. Then
`ExecutorState::balance` of it is an `IntegerOverflow` (`executor/state.rs:240`), and
applying the journal is an error ("insufficient funds", `apply.rs:429`), unless money
comes in from elsewhere. `balance` of the model may be negative here; no opcode that is
modelled reads it then, since an origin has no code. BALANCE would fail its frame, which is `Revert`.
The views that contracts are compared by have of each balance what the journal adds to
it, because the rest is changed by iterations.

**Token accounts.** `solana` is the accounts of the SPL token program as they are,
`cache` the copies `external_account` keeps of those the transaction has read,
`operator` who pays for this iteration. The journal holds two kinds of external
instruction: `TokenCreate`, which stands for the associated account of a
withdrawal and for transfer, allocate, assign and initialize of `create_account`,
and `TokenTransfer`. `CallWithdraw` is the NEON token's withdrawal,
`CallInitializeAccount`, `CallTokenTransfer` and `CallGetAccount` those of the SPL
token extension. Whether an account is there is answered by emulating the queued
instructions over the cached accounts (`ExternalAccount`); if one is refused, so is
the call (`Emulates`). `ApplyAction` invokes them on the real accounts, which
`OthersToggle` may have created or closed in the meantime. `NextIteration` lets
another operator go on. An instruction that creates an account names the operator of
the iteration that queued it as payer; if another operator runs the last iteration,
Solana misses the signature (fault "payer has not signed") and only the first
operator's return or a cancellation helps.

Left out: lamports and fees of these instructions (with enough lamports on the
account already, no payer is named); mint, burn, approve, revoke, freeze, thaw and
close, which are queued with no check, as transfer is; an owner of the account other
than its creator; QueryAccount, which reads the real accounts and not the emulated
ones, so that within a transaction it and the SPL token extension may disagree about
an account; withdrawals that are not a whole number of token units; deposits and
other operators' gas that credit an account from outside during a transaction (they
only raise balances; `IterativeTrx` has them).

### ContractStorage

`static` is the cells in the contract account, `accounts` the storage accounts,
each with index, generation, list of chunks and lamports, counted in the rent of a
chunk. Every action has the set `p` of storage accounts passed to it: those of an
old generation are cleared when they are loaded (`Loaded`). `Key` keeps of a
block's index what the seed keeps; `SEEDS` stands for 2^232. Blocks whose indices
differ only in the three most significant bytes share an account (`make_seed`,
`ether_storage.rs:60-61`); reading the second then fails the iteration on
`assert!(system_program::check_id(account.owner))` (`base.rs:93`), which is
`Unexpected`. No index of the run is that large. Destruction and
writes are separate steps, because `rearrange_actions` drops the writes to
contracts that are destroyed. `cells` is history: what was written last.

### SlotHashes

The sysvar as a sequence of slots, the clock, the transaction's cached block
number, and the loop of `find_slot_hash` turn by turn. Hashes are left out: the
answer is the hash of the slot, a fake one, or zero.

### OpcodeTable and EofCode

`OPCODE_INFO` is the table the validator computes heights from; `OPCODES` and
`EOF_OPCODES` say of the handlers of the two dispatch tables what they pop and push
and where they go on. They come from different files of the source and are kept
apart here, so that `EofCode` can compare them: the validator of `EofCode` uses the
first and its machine the others.

`EofCode` takes a container through `unmarshal_binary`, `validate_code` and
`validate_control_flow` as the actions `Unmarshal`, `ScanInstruction`, `ScanEnd`,
`NextPath`, `Revisit`, `Visit` and `FlowEnd`, one per turn of their loops; then the
machine executes it, with the height of its stack for the stack and any operand for
an operand. `Begin`, `CallOut` and `NextIteration` choose the opcode table as
`execute` does, once per iteration from the machine that runs then.

Points a reader might not expect. RJUMPV reads its offset at pc + 3 + 2 * idx,
the validator has checked the one at pc + 2 + 2 * idx, and an index equal to the
number of branches passes (`opcode.rs:922-936`); JUMP and JUMPI exist in the legacy
table, under which an EOF frame may run. Code that went where the validator did
not look is `astray`, and the properties except it. So do they a container with a
jump table of 128 branches or more: `analysis.rs:97` computes its length,
`count * 2 + 1`, in a byte, so that the bitmap takes the end of the table for code
(`LongTable`) and the scan accepts jumps into it. `Lost` says either. A jump that
starts there may go before the code; its negative position is past the code for the
walk (`InCode`). `validate.rs:56` refuses an
opcode only if it is unknown *and* deprecated, so the second loop is what refuses
unknown ones. `validate.rs:80` overwrites the count of instructions with the
number of branches of a jump table; `AllReachable` excepts sections with one. The
return stack has no limit of its own.

### EvmFrame, EvmMemory, EvmStack

`frames` is the machine with its parents: memory (`data`, whose length is the
capacity, and `size`), code, call data and return data as buffers (`empty`,
`owned`, `account`, `uninit`), the range for the result. One action is one opcode
with arbitrary operands; `Step` is what `execute` does with its result, an error
reverting the frame or, in the first frame, ending the transaction.
`NextIteration` serializes all frames and rebuilds them (`Reloaded`):
`reinit_machine` resolves the buffers that point into accounts.

`EvmMemory` is what this promises: one array of zeros per frame, and no iterations.
In `EvmFrameFlat` both take each step with the same operands, and `SeenAsFlat`
compares them. An operation of `EvmMemory` says what it makes of the frames for every
operand, an error included, so that it never keeps the machine from a step: the pair
does all that the machine does.

Points a reader might not expect. `realloc` sets the size before it refuses to
grow (`memory.rs:79-92`); in any frame but the first the error takes the frame away.
An error writing the result into the caller's memory fails the whole instruction
after a revert (`opcode_revert_impl`), and becomes an error of the caller after a
return (`opcode_return_impl`). `return_offset + return_length` wraps into an empty
range (`opcode.rs:1200`).

`EvmStack` is operators: every arithmetic opcode as it is computed, with the width
as a parameter; `ArithmeticLaws`, `StackLaws` and `CalldataLaws` compare them with
the definitions over all words of that width. SAR of a negative word by 256 or more
gives 0, where EIP-145 says -1; the law excepts it.

## What TLC checks

| Run | Question | Bounds |
|---|---|---|
| `locks` | Do locks stay exclusive, match the lists and isolate, with the target created in the middle of both transactions? | two operators with a holder each, two transactions of two callers to one address, three addresses |
| `nonces` | Is each transaction settled at most once, in order? Checks the refinement of `TrxLedger` and the invariant of the proofs. | three transactions of one caller: two with nonce 0, one of two messages without a chain id, to a precompile |
| `deploy` | Do gas, balances and supply add up while a deployment takes three allocations and its gas comes out of the same balance? Is all that a transaction is charged, its last iteration and its rent included, within its limit? Is every lock released although operator `o1` may stop? | one holder, two transactions, 13 units of NEON, a priority that ends with the next slot |
| `calls` | Do frames, snapshots, static mode, balances and application agree, while iterations take gas from the origin under the journal? | journal of 5, 3 frames, one transaction, EOF code, init code of both kinds, iterations that cost 0 or 1 of the origin's single NEON, collected by the account at the address of a contract to be |
| `redeploy` | Does a contract that is destroyed and created again start clean? Do withdrawals and token instructions add up and stay acceptable, whoever runs the iterations and whatever others do to the wallet? | journal of 4, 2 frames, two transactions, two operators, the pool with 3 tokens, a wallet and the contract's own account |
| `cells` | Do cells read as written, through two destructions, whichever accounts are passed? | one contract, one cell in its account, two blocks of two cells, two writes per transaction |
| `search` | Does the binary search end, in bounds and with the right answer? | 9 slots, any of them skipped, at most 6 entries |
| `code` | Is what the validator accepts safe to run, and does validation end? | all code of up to three pieces out of 16, alone or with one of six functions; every opcode on a stack that just has its operands; two jump tables with lengths that wrap; 14 malformed headers; 24 and 20 words of stack |
| `frame` | Do frames see flat memory across growth, calls, errors and iterations? Are the opcodes exact? | words of 2 bytes, 2 bytes allocated and 4 at most, usize of 3 bits, 3 frames, 4 opcodes; words of 4 bits for the arithmetic |

The bounds are the smallest in which the hazards happen: two holders because
locks are between two transactions; three addresses because two callers must
meet in a third account; two transactions with one nonce and a third after them
for replay; a deployment longer than two increases of an account for partial
allocation; three frames for a failure above a success below a frame that goes
on; two destructions so that a storage account can be two generations behind;
six entries so that both halves of a range are cut more than once; three tokens so
that the pool does not run dry; three pieces of code so that a jump can go over an
instruction, back, or into an immediate; four opcodes so that a callee can fail
after the caller's memory has grown. `locks` and `nonces` have a price of zero and
no rent: gas amounts are the business of `deploy`. In `redeploy` others open and
close only `wallet`, transfers start at accounts of contracts, every call moves
value, and iterations are free, as in `present` and `retf`: gas under the journal is the
business of `calls`, where one unit of gas is enough to leave the origin short of what it
has sent, and the contract that is created at the collector's address can spend it in the
same transaction. In `code`, `U8` is 8 so that a jump table of four branches wraps already (code is
bytes all the same), and a function has up to 20 inputs and outputs; `MaxReturns` is
more than the limit of the stack lets functions that push recurse. No run of `IterativeTrx` or
`ContractStorage` deadlocks. The others stop at a bound (`MaxTrxs`, `MaxSlot`,
`MaxSteps`) or when the code has ended, so deadlock is not checked there.

**Fairness.** `deploy` assumes weak fairness of `Tick` (slots pass) and, for each
holder, of cancellation by some authorized operator outside `Crashed`. Nobody is
assumed to continue a transaction, and `Crashed` operators are not assumed to do
anything. The program gives every authorized operator this means (`MayTake`);
that some operator uses it is the premise of the protocol. `search` assumes that
the loop goes on, and `code` that validation does: both are parts of one
instruction.

### Disagreements

Runs that are expected to end in a violation; each states an assertion or a
comment of the source.

| Run | Assertion | What the code does |
|---|---|---|
| `present` | "mutable accounts always present" (`base.rs:132`) | a creation without value whose code stops journals a nonce increment for an account that nothing creates |
| `retf` | `assert!(self.stack.is_empty())` (`executor/state.rs:68`), "exit cleanly" (`evm/opcode.rs:1078`) | RETF in the first section stops the machine without committing its snapshots |
| `overrun` | `serialize_bytes(&data[..self.size()])` (`memory.rs:230`) takes size to be within the allocation | the first frame's failed access leaves a size beyond it (`memory.rs:79-92`), the transaction ends with a revert, and `do_continue` serializes the machine all the same (`transaction_step.rs:76-77`) |

In all three the panic repeats with every attempt and the transaction ends by
cancellation. `Apply` has two more faults of that kind, which TLC reaches with the
constants of `present`: "no contract data" (a creation may return no code, against
"Contract data must be available at this point", `apply.rs:403`) and "contract
expected" (init code may write storage and stop, against `apply.rs:224`).

`find_slot_hash` never compares the last entry of the sysvar, which
`FoundIfListed` leaves out: that slot gets a fake hash. With the 512 entries of a
running cluster it lies outside the 256 slots that BLOCKHASH admits unless the
block number is old.

## What TLAPS proves

For every value of the constants that satisfies the assumptions named in the
modules.

**FoldLemmas.** The community modules define sums, filters and folds by a recursive
function over the subsets of a finite set, chosen by its equations. `SetRecursion`
and `SequenceRecursion` show that such a function exists, by induction on a set of
numbers, so that the chosen one satisfies them. From these: a sum changes by what one
summand changes (`TotalUpdate`), whatever the order of the summands (`AnyOrder`), and
a fold over a sequence one element longer takes one step more (`StepsUnique`). They
stand in for an induction over data in the proofs below.

**IterativeTrxProofs**, from `ConstantsAssumption` (an address derived for a
creation signs nothing, creations have code, there are finitely many addresses) and
`BoundsAssumption` (prices and sizes are numbers, an account without code fits in one
increase). `IndInv` is the inductive invariant. Lock matching and exclusion alone are
not inductive: a finishing transaction unblocks every initialised account of its list,
which is right only if those were the ones it locked; `HeldExist` (what was listed as
existing is initialised) and `NothingAppeared` give that. Initialising an account
resets its fields, which is harmless because of `Pristine` (an address without an
initialised account has nonce, balance, lock and code of zero). `CallerHeld`
carries the nonce check of the first iteration to the last, and `SettledOnce`
follows from it: whoever used a nonce moved the caller's count past it.
`TargetListed` says that what a transaction will write is in its list. From
`IndInv`: `TypeCorrect`, `LocksCorrect`, `LocksMutex`, `CallerStaysHeld`,
`SettledAtMostOnce`, and `Refinement`: a step that executes or cancels maps to
`Settle`, all others to a stutter. `LockedIsolated` takes each action and asks whose
account it changes: a credit, an account in its own list, or one that is not locked;
`AppearedUntouched` likewise for accounts that were created outside.
`SupplyIsConserved` compares the sum of balances before and after each transfer, with
payer and payee possibly the same. `GasWithinLimit` needs more than the check in
`finalize`, which compares `gas_used` of one state account: `GasInv` says besides
that `charged` is what that `gas_used` costs, and that a pending transaction in no state
account has been charged nothing. A transaction that is submitted again must not be
charged a second time; that is where `IndInv` is needed, for two state accounts would
both hold the caller's lock (`RunOnce`), and a settled transaction has used its nonce up.
The limit is the signed one, for a transaction without chain id the multiplied one.

**EvmJournalProofs**, from `JournalAssumption`. `JournalInv` says that frames,
snapshots and remembered views correspond (`Shape`: snapshots ascend, lie inside
the journal, and each view is what the journal up to its snapshot shows) and that
static frames pass static mode on and have added nothing (`Pure`). The lemmas here show
that every opcode keeps it; the theorems that follow from it, `SnapshotsAlwaysNested`,
`StaticCallsPure` and `FailuresUndone` (cutting the journal to the snapshot gives the
very sequence the view was taken of), stand in `EvmApplyProofs`: a journal is applied, and
its origin found to have paid, only under the invariant of that module.

**EvmApplyProofs**, from these and `GenesisAssumption` (finitely many addresses; at
first an address without nonce and code has no storage, and the pool backs all NEON).
The invariant, `LedgerInv`, is not about the accounts as they are but about `Lent`: the
accounts with the gas put back that the transaction's iterations have taken (`paid`).
The checks of the opcodes were made of balances that may have been higher than they are
now, never higher than those of `Lent`, and are true of `Lent` for the rest of the
transaction. `LedgerInv` has these parts besides `JournalInv`.

* *The journal is legal* (`Legal`): each entry fits what was there before it (`Fits`).
  What is transferred or withdrawn is covered by the balance the entries before it
  show; a withdrawal follows the pool's transfer of the same amount; cells are written
  of addresses in use only; code is set once, of an address without code whose nonce
  the journal has incremented. A prefix of a legal journal is legal, so that reverts,
  which cut it, keep this. `BalancesStayCovered` follows: a balance is that of `Lent`
less `paid`.
* *The frames are entitled* to what they will add (`Entitled`): the address of a running
  contract is in use, and a frame that creates a contract found its address unused and
  is the only one to set its code. This must be said of every frame on the stack for
  the part of the journal it saw last (`Reached`), or it would be lost when a callee
  returns. With `Clean` (no storage at an address that is not in use)
  `CreationsOnCleanStorage` follows.
* *The accounts* have natural balances and the pool holds as much as their sum
  (`PoolBacks`).
* *Faults* (`FailsAtTheEnd`, `JournalApplicable`): faults come after the
  machine has ended only, and one of funds has a reason that the journal and `paid` still
  show.

Application is followed through its three phases, each an induction over prefixes of
the sequence it works through. `AfterKept`: after the entries that `rearrange_actions`
keeps, every balance is what the journal's prefix shows, and so is the rest of every
address that is not destroyed, the writes put off to the end included; entries that
were dropped concern destroyed addresses only. `AfterBoth`: destructions have emptied
their addresses and nothing else, and left nothing to write there. `AfterWrites`: the
cells are as the writes put off say. A check cannot fail in the first phase, because
the entries it drops neither credit nor debit and the balances are those under which
`Fits` was established, unless one of them is lower by gas that was taken: then that
address has `paid`, and the entry that fails is where the journal overdraws it
(`JournalsApplicable`). At the end what is written is what was
read: `AppliedWasSeen`. `Backed` carries the sum of balances through the phases, with
the one withdrawal whose pool transfer has been made already (`Pending`):
`AllNeonBacked`.

**ContractStorageProofs**, from `StorageAssumption`. `StorageInv` says that a storage
account has at most one entry for a cell, no generation above its contract's and
lamports that cover its length (`Sound`), and that the value of a cell is the one its
entry has in an account of its block and of its contract's generation, or zero without
such an account or entry (`Agrees`). An entry may be zero: `EthereumStorage::set` keeps
and appends zeros once there is an account. An account of an older generation may list
anything; `Loaded` empties it before it is used, so that which accounts were passed in
between does not matter. From it:
`StorageAsWritten`, `OneEntryPerCell`, `StorageRentExempt`.

**SlotHashesProofs**, from `SlotHashesAssumption`. `LoopInv` says that the sysvar
descends and that entries before `left` are more recent than the value and entries
from `right` to the last but one older. From it: `ListedSlotsFound`,
`AllReadsInBounds`.

**EvmFrameProofs**, from `EvmFrameAssumption` (limits are positive, the first
allocation is within the limit, operands are of usize) and `NextPowerAssumption`
(`next_power_of_two` does not round down; that it gives a power of two is not
needed, and where Rust's would overflow it is over the limit); for the comparison
with `EvmMemory` also from `LimitAssumption` (a word has `ELEMENT_SIZE` bytes, the
limit is a number of words that rounding up does not pass, and usize has room for one
word more). Not inductive is
what one would expect, that the size is within the allocation in every frame
(`Sound`): `realloc` breaks it before it fails. `FrameInv` asks it of all frames
of a running machine; `Below`, of all frames but the last, is what `Error` and the
two ways to leave a frame need to give it back, and `AccessedProper` that every
failed access leaves just that. An error in the caller's memory after a return
fails one frame further down, again with sound frames below. From it:
`MachineStaysSerializable`. The run `overrun` shows that a machine that has ended
is not covered.

`BothInv` relates the machine to the flat one. While it runs, `Related` says of every
frame that its size, return range and buffers are those of the flat frame and that its
allocation, continued by zeros, is the flat array (`Shows`); and `AllShaped` that
sizes are whole words, allocations within their limits and buffers resolved.
`NewSizeFits` settles the boundaries: the word that `realloc` rounds up to fits the
limit exactly when the range itself does. `ReallocExtends` then says that growing
appends zeros only, `StoreAgrees` and `ReadAgrees` that a write and a read do on the
allocation what they do on the array. An error may come from a frame that no longer
relates, since `realloc` has set its size; `RelatedBelow` asks it of the frames below,
which is all that `Error` keeps. `ErrorAgrees`, `RevertAgrees` and `ReturnAgrees`
follow the ways out of a frame, an error while the result is written included
(`IntoAgrees`; `LengthOfRange`: a range past the last usize is empty on both sides),
and `ReloadedSame` that an image rebuilt is the frame it was taken of. From it:
`FrameTypes`, `MemoryIsFlat`.

**EofCodeProofs**, from `EofCodeAssumption` (limits are numbers, and the inputs of a
function fit on the stack of the validator), `StackLimitAssumption` (that stack holds
more than any opcode takes or leaves) and `BinaryAssumption` (sections are bytes, and
in a file of the announced length they have the announced sizes). `EofInv` has a part
for the validator and one for the machine, and follows a container through its two
loops into execution.

* *The tables match.* `HandlersMatch`: whatever handler either dispatch table has for
  an opcode that `OPCODE_INFO` knows pops and pushes what that entry says and goes on
  where the validator goes on; the EOF table has one for each.
* *The header.* `Unmarshalled`: a length equal to the sum of the sizes modulo 2^16 is
  short of that sum only if the sum exceeds 16 bits; otherwise the sections have the
  announced sizes, none empty, and valid types. A slice ends at a sum over the first
  sections, which is at most the whole one (`PrefixSums`).
* *The scan.* A bitmap is `Spaced`: the position behind an instruction's
  immediate begins the next one, and none in between does. `Scanning` says that the
  instructions before `i` are complete and jump to instructions only, and that without
  a jump table they have been counted; `Scanned` says it of all, the last one being
  terminal.
* *The walk.* `ValidatedHeight` is not inductive: where the next step leads to is for
  the walk over the control flow to say. `Explored` says of every visited
  instruction that it was accepted at its height, and that each successor has been
  visited with the height it leaves or is an open path: the current one or one on the
  worklist. When none is open every successor is visited (`Done`), and this is kept
  for every section that was validated. The visited positions are in the bitmap,
  and there are `height_update` of them; if that is the number of instructions, none
  is missing: `CountsReach`.
* *The machine.* `Agrees` says that the height of the current function is the one the
  validator found at `pc`, `Returns` the same of every context below: the position
  after the call is visited with the height the caller keeps plus the callee's output.
  RETF's test (`output` equal to the height) makes these meet. `Located` then finds for
  every step that the instruction at `pc` was accepted at this height, and `Faultless`,
  `DeclaredEnough` and `HeightsValidated` follow.

`Lost` is excepted for two reasons: after a jump of `opcode_rjumpv` or JUMP that the
walk knows nothing of, the machine may be anywhere; and in a section with a jump table
that wraps, a position of the bitmap need not be an instruction that was scanned.
`TypeOK` excepts only the positions of the walk in such a section. From `EofInv`:
`TypesCorrect`, `HeightsValidated`, `Faultless`, `DeclaredEnough`, `CountsReach`,
`SlicesFit`.

**Only model-checked.** `LocksReleased`, `SearchEnds` and `ValidationEnds`
(liveness under fairness is outside the prover's reach);
`CheckedInstructionsAccepted` (it compares what was emulated over cached accounts with
the outcome on the real ones, and what others may do to these in between is bounded by
the run's `wallet`); `OpcodesExact`, which evaluates recursive functions over words.

## What is not modelled

Cryptography and arithmetic of precompiles, recovery of signatures and hashing
(an address or hash is a value of its own); decoding of instruction data
(`entrypoint.rs`: the choice among actions); the allocator, error texts and
logging; tracing; the metaplex extension (argument decoding); the destinations of
legacy JUMP and what block and account opcodes return on the stack; RPC, databases and
the command line around the emulator. What is planned is listed under *Plan*.
`PROJECT.json` lists every component with its status, the source lines of every
definition and the hazards with the properties that are about them.
