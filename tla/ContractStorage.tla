-------------------------- MODULE ContractStorage ---------------------------
(***************************************************************************)
(* Where the storage cells of contracts are kept.  The first ones lie in   *)
(* the contract's own account; the others in storage accounts, one for     *)
(* each block of 256, as a list of the cells that were written.  A storage *)
(* account outlives the contract that wrote it: it carries the generation  *)
(* of the contract and is cleared when it is next loaded if the contract   *)
(* was destroyed since.                                                    *)
(*                                                                         *)
(* An instruction sees only the accounts passed to it.  All accounts of    *)
(* contracts are, here; the storage accounts that are, the set p, are part *)
(* of every action.  Lamports are counted in chunks' worth of rent.        *)
(***************************************************************************)
EXTENDS Integers, Sequences, SequencesExt, FiniteSetsExt

CONSTANTS
    Contracts,
    STATIC_STORAGE_LIMIT,  \* 64, cells in the account of the contract
    BLOCK,                 \* 256, cells in a storage account
    SEEDS,                 \* blocks that differ by this get the same seed
    MaxIndex,              \* bound: storage indices
    Cells, Zero,           \* the contents of a cell
    MaxWrites,             \* bound: writes of a transaction
    MaxGeneration,         \* bound: destructions of a contract
    MaxGift                \* bound: lamports sent by others

Indices == 0..MaxIndex
Block(i) == i - (i % BLOCK)
Subindex(i) == i % BLOCK

\* EthereumStorageAddress: the address of the account of a block
Key(x, b) == <<x, b % SEEDS>>
Keys == {Key(x, Block(i)) : x \in Contracts, i \in STATIC_STORAGE_LIMIT..MaxIndex}

Writes == [address : Contracts, index : Indices, value : Cells]

ASSUME StorageAssumption ==
    /\ STATIC_STORAGE_LIMIT \in Nat /\ MaxIndex \in Nat
    /\ BLOCK \in Nat \ {0} /\ SEEDS \in Nat \ {0}
    /\ Zero \in Cells

VARIABLES
    deployed,    \* the contracts with code
    generation,  \* of the account of every contract
    static,      \* the cells in it
    accounts,    \* the storage accounts
    cells        \* history: what the contracts wrote

vars == <<deployed, generation, static, accounts, cells>>

AllZero == [i \in Indices |-> Zero]
NoStatic == [i \in 0..(STATIC_STORAGE_LIMIT - 1) |-> Zero]

\* An address without an account, where there may be lamports all the same
Vacant(lamports) ==
    [owned |-> FALSE, index |-> 0, generation |-> 0, chunks |-> <<>>, lamports |-> lamports]

MinimumBalance(chunks) == 1 + Len(chunks)
-----------------------------------------------------------------------------
(* ProgramAccountStorage::new *)

Stale(k) == accounts[k].owned /\ accounts[k].generation # generation[k[1]]

\* EthereumStorage::clear; what is left over goes to the operator
Cleared(k) ==
    [accounts[k] EXCEPT !.generation = generation[k[1]], !.chunks = <<>>,
                        !.lamports = MinimumBalance(<<>>)]

Loaded(p) == [k \in Keys |-> IF k \in p /\ Stale(k) THEN Cleared(k) ELSE accounts[k]]

\* Is the account of the block b of x among the storage accounts as?
Present(as, x, b) == as[Key(x, b)].owned /\ as[Key(x, b)].index = b
-----------------------------------------------------------------------------
(* Reads *)

ChunkOf(chunks, sub) == SelectInSeq(chunks, LAMBDA c : c.sub = sub)

\* EthereumStorage::get
Get(chunks, sub) ==
    LET n == ChunkOf(chunks, sub) IN IF n = 0 THEN Zero ELSE chunks[n].value

\* ProgramAccountStorage::storage, with the storage account loaded
storage(x, i) ==
    LET as == Loaded(Keys) IN
    IF i < STATIC_STORAGE_LIMIT
    THEN IF x \in deployed THEN static[x][i] ELSE Zero
    ELSE IF Present(as, x, Block(i)) THEN Get(as[Key(x, Block(i))].chunks, Subindex(i))
    ELSE Zero

\* ethereum_storage asserts that the address of an account that is not there
\* has no owner; an iteration that reads a cell fails if it has.
Unexpected(x, i) ==
    /\ i >= STATIC_STORAGE_LIMIT
    /\ ~Present(accounts, x, Block(i)) /\ accounts[Key(x, Block(i))].owned

Read(p, x, i) ==
    /\ i >= STATIC_STORAGE_LIMIT => Key(x, Block(i)) \in p
    /\ accounts' = IF Unexpected(x, i) THEN accounts ELSE Loaded(p)
    /\ UNCHANGED <<deployed, generation, static, cells>>
-----------------------------------------------------------------------------
(* The last iteration: apply_state_change *)

OwedFirst(s, k, need) == IF s.owed[k] > 0 THEN s.owed[k] ELSE need

\* required_account_transfers: a later entry replaces an earlier one
Owed(s, k, need) == need

Added(s, k, sub, v) ==
    LET a == s.accounts[k]
        chunks == Append(a.chunks, [sub |-> sub, value |-> v])
        need == MinimumBalance(chunks) - a.lamports
    IN  [s EXCEPT !.accounts[k].chunks = chunks,
                  !.owed[k] = IF need > 0 THEN Owed(s, k, need) ELSE @]

SetUnsearched(s, k, sub, v) == Added(s, k, sub, v)

\* EthereumStorage::set
Set(s, k, sub, v) ==
    LET n == ChunkOf(s.accounts[k].chunks, sub)
    IN  IF n = 0 THEN Added(s, k, sub, v)
        ELSE [s EXCEPT !.accounts[k].chunks[n].value = v]

\* EthereumStorage::create
Created(s, x, b, sub, v) ==
    LET k == Key(x, b)
        chunks == <<[sub |-> sub, value |-> v]>>
        rent == MinimumBalance(chunks)
    IN  [s EXCEPT !.accounts[k] =
            [owned |-> TRUE, index |-> b, generation |-> generation[x], chunks |-> chunks,
             lamports |-> IF @.lamports > rent THEN @.lamports ELSE rent]]

\* apply_storage, one write
Written(s, a) ==
    LET x == a.address
        b == Block(a.index)
        k == Key(x, b)
    IN  IF ~s.ok THEN s
        ELSE IF a.index < STATIC_STORAGE_LIMIT
        THEN [s EXCEPT !.static[x][a.index] = a.value]
        ELSE IF Present(s.accounts, x, b) THEN Set(s, k, Subindex(a.index), a.value)
        ELSE IF s.accounts[k].owned THEN [s EXCEPT !.ok = FALSE]
        ELSE IF a.value = Zero THEN s
        ELSE Created(s, x, b, Subindex(a.index), a.value)

Begun(p) == [ok |-> TRUE, static |-> static, accounts |-> Loaded(p),
             owed |-> [k \in Keys |-> 0]]

\* A transaction deploys the contracts new and writes ws.  One that also
\* destroys others does that in a step of its own: they share no account.
Apply(p, new, ws) ==
    LET s == FoldLeft(Written, Begun(p), ws) IN
    /\ \A n \in DOMAIN ws :
          /\ ws[n].address \in deployed \cup new
          /\ ws[n].index >= STATIC_STORAGE_LIMIT =>
                Key(ws[n].address, Block(ws[n].index)) \in p
    /\ new \cap deployed = {}
    /\ s.ok
    /\ deployed' = deployed \cup new
    /\ static' = s.static
    /\ accounts' = [k \in Keys |-> [s.accounts[k] EXCEPT !.lamports = @ + s.owed[k]]]
    /\ cells' = FoldLeft(LAMBDA c, a : [c EXCEPT ![a.address][a.index] = a.value], cells, ws)
    /\ UNCHANGED generation

DestroySameGeneration(p, x) ==
    /\ generation[x] < MaxGeneration
    /\ static' = [static EXCEPT ![x] = IF x \in deployed THEN NoStatic ELSE @]
    /\ deployed' = deployed \ {x}
    /\ accounts' = Loaded(p)
    /\ cells' = [cells EXCEPT ![x] = AllZero]
    /\ UNCHANGED generation

\* delete_account; rearrange_actions has dropped the contract's writes
Destroy(p, x) ==
    /\ generation[x] < MaxGeneration
    /\ static' = [static EXCEPT ![x] = IF x \in deployed THEN NoStatic ELSE @]
    /\ deployed' = deployed \ {x}
    /\ generation' = [generation EXCEPT ![x] = @ + 1]
    /\ accounts' = Loaded(p)
    /\ cells' = [cells EXCEPT ![x] = AllZero]

\* Anybody can send lamports to any address. (external: the system program)
Gift(k) ==
    /\ accounts[k].lamports < MaxGift
    /\ accounts' = [accounts EXCEPT ![k].lamports = @ + 1]
    /\ UNCHANGED <<deployed, generation, static, cells>>
-----------------------------------------------------------------------------
Init ==
    /\ deployed = {} /\ generation = [x \in Contracts |-> 0]
    /\ static = [x \in Contracts |-> NoStatic]
    /\ accounts = [k \in Keys |-> Vacant(0)]
    /\ cells = [x \in Contracts |-> AllZero]

Next ==
    \/ \E p \in SUBSET Keys :
          \/ \E x \in Contracts, i \in Indices : Read(p, x, i)
          \/ \E new \in SUBSET Contracts, n \in 0..MaxWrites :
                \E ws \in [1..n -> Writes] : Apply(p, new, ws)
          \/ \E x \in Contracts : Destroy(p, x)
    \/ \E k \in Keys : Gift(k)

Spec == Init /\ [][Next]_vars
-----------------------------------------------------------------------------
(* Correctness *)

(***************************************************************************)
(* Every cell reads as what its contract wrote last, or as zero: through   *)
(* destruction and new deployment, with storage accounts of an older       *)
(* generation that were not passed to the instructions in between, and     *)
(* whatever blocks the cells of a transaction lie in.                      *)
(***************************************************************************)
CellsAsWritten == \A x \in Contracts, i \in Indices : storage(x, i) = cells[x][i]

(***************************************************************************)
(* No cell has two entries in its storage account, so that the account     *)
(* never outgrows its 256 ("new_len <= 8.25 kb" in EthereumStorage::set).  *)
(***************************************************************************)
OneChunkPerCell ==
    \A k \in Keys : \A m, n \in DOMAIN accounts[k].chunks :
        accounts[k].chunks[m].sub = accounts[k].chunks[n].sub => m = n

(***************************************************************************)
(* A storage account is rent-exempt after every instruction, however many  *)
(* cells were added to it and whatever it was sent; the runtime rejects    *)
(* the instruction otherwise.                                              *)
(***************************************************************************)
RentExempt ==
    \A k \in Keys :
        accounts[k].owned => accounts[k].lamports >= MinimumBalance(accounts[k].chunks)
=============================================================================
