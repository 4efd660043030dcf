----------------------------- MODULE EvmJournal -----------------------------
(***************************************************************************)
(* The call frames of the EVM (Machine), the journal in which they record  *)
(* what they change (ExecutorState) and the application of that journal    *)
(* to the accounts when the transaction is over (apply_state_change).      *)
(*                                                                         *)
(* An action is one opcode that touches the frames or the journal; all     *)
(* others compute on the stack and the memory and are left out.  What code *)
(* does is not fixed: a frame with code may execute any of the actions.    *)
(* An opcode that returns an error reverts its frame, which is Revert.     *)
(* The journal is saved whole between iterations, so where a transaction   *)
(* is cut into iterations shows only in the choice of the opcode table, in *)
(* who pays, in the gas that every iteration takes from the origin's       *)
(* account under the journal, and in what others do to Solana accounts in  *)
(* the meantime.                                                           *)
(***************************************************************************)
EXTENDS Integers, Sequences, SequencesExt, FiniteSetsExt

CONSTANTS
    Addresses,
    Origins,      \* addresses with a key: they sign, and have no code
    NeonToken,    \* SYSTEM_ACCOUNT_NEON_TOKEN
    from_create,  \* Address::from_create: <<creator, nonce>> to address
    from_create2, \* the creators of the addresses of Address::from_create2
    Codes,        \* the code a contract can have
    EofCodes,     \* the ones with the EOF magic
    NoCode,       \* no bytes
    Indices,      \* storage indices
    Cells,        \* storage values
    Zero,         \* the zero cell
    Values,       \* values of calls
    SolanaKeys,   \* accounts of the SPL token program, or that can be
    Pool,         \* the one with the tokens behind all NEON
    Wallets,      \* those of users, to which NEON is withdrawn
    derived,      \* those of contracts: the address whose seed gives the key
    Deposit,      \* the authority of the pool
    Operators,    \* keys that pay for Solana transactions
    Collectors,   \* the Ethereum accounts they are paid to
    GasCosts,     \* bound: what an iteration can cost, in NEON
    Genesis,      \* the accounts at first
    SolanaGenesis,
    Others,       \* bound: the wallets that others open and close
    MaxActions,   \* bound: length of the journal
    MaxDepth,     \* bound: number of frames
    MaxTrxs       \* bound: number of transactions

VARIABLES
    world,        \* the Ethereum accounts
    actions,      \* ExecutorState.actions, the journal
    stack,        \* ExecutorState.stack, snapshots: lengths of the journal
    frames,       \* the machine and its parents, the running one last
    is_eof,       \* execute's choice of opcode table
    exit,         \* exit status, "none" while the machine runs
    fault,        \* what made the last iteration fail
    solana,       \* the accounts of the token program
    cache,        \* ExecutorState.cache: those of them the transaction read
    operator,     \* who pays for the iteration
    entered,      \* history: what every frame saw when it was entered
    paid,         \* history: the gas taken since the transaction started
    trxs          \* history: transactions so far

machine == <<actions, stack, frames, is_eof, exit, entered, paid>>
outside == <<solana, operator>>
vars == <<world, actions, stack, frames, is_eof, exit, fault, entered, paid,
          trxs, solana, cache, operator>>

Creatable == {from_create[c] : c \in DOMAIN from_create} \cup DOMAIN from_create2

ASSUME JournalAssumption ==
    /\ Origins \subseteq Addresses
    /\ NeonToken \in Addresses
    /\ DOMAIN from_create \subseteq Addresses \X Nat
    /\ DOMAIN from_create2 \subseteq Addresses
    /\ \A x \in DOMAIN from_create2 : from_create2[x] \in Addresses \ {x}
    /\ Creatable \subseteq Addresses \ (Origins \cup {NeonToken})
    /\ NoCode \notin Codes
    /\ EofCodes \subseteq Codes
    /\ Zero \in Cells
    /\ Values \subseteq Nat
    /\ Pool \in SolanaKeys \ (Wallets \cup DOMAIN derived)
    /\ Wallets \cap DOMAIN derived = {}
    /\ Wallets \cup DOMAIN derived \subseteq SolanaKeys
    /\ Others \subseteq Wallets
    /\ Collectors \subseteq Addresses
    /\ GasCosts \subseteq Nat

\* What the token program keeps in an account, once it owns it
SolanaAccount ==
    [owner : {"system", "token"}, authority : Addresses \cup Wallets \cup {Deposit},
     amount : Nat]

World == [exists  : SUBSET Addresses,
          nonce   : [Addresses -> Nat],
          balance : [Addresses -> Nat],
          code    : [Addresses -> Codes \cup {NoCode}],
          storage : [Addresses -> [Indices -> Cells]]]

Frame == [contract  : Addresses,
          reason    : {"Call", "Create"},
          is_static : BOOLEAN,
          eof       : BOOLEAN,    \* it has an EOF container
          runs      : BOOLEAN]    \* it has code: without, it stops at once

Action ==
    [op : {"EvmIncrementNonce", "EvmSelfDestruct"}, address : Addresses]
    \cup [op : {"EvmSetStorage"}, address : Addresses, index : Indices, value : Cells]
    \cup [op : {"EvmSetCode"}, address : Addresses, code : Codes \cup {NoCode}]
    \cup [op : {"NeonWithdraw"}, source : {NeonToken}, value : Nat \ {0}]
    \cup [op : {"NeonTransfer"}, source : Addresses, target : Addresses, value : Nat \ {0}]
    \cup [op : {"TokenCreate"}, key : SolanaKeys, payer : Operators,
          authority : Addresses \cup Wallets]
    \cup [op : {"TokenTransfer"}, from : SolanaKeys, to : SolanaKeys,
          signer : Addresses \cup {Deposit}, value : Nat]

\* At first no address is without nonce and code but has storage, and the pool
\* backs all NEON.
ASSUME GenesisAssumption ==
    /\ IsFiniteSet(Addresses)
    /\ Genesis \in World
    /\ \A x \in Addresses : Genesis.nonce[x] = 0 /\ Genesis.code[x] = NoCode =>
          \A i \in Indices : Genesis.storage[x][i] = Zero
    /\ SolanaGenesis \in [SolanaKeys -> SolanaAccount]
    /\ MapThenSumSet(LAMBDA x : Genesis.balance[x], Addresses) <= SolanaGenesis[Pool].amount
    /\ MaxTrxs \in Nat

Running == frames # <<>> /\ exit = "none"
Top == Last(frames)

\* The elements of s that are in K, in the order they have in s
Filtered(s, K) ==
    FoldLeft(LAMBDA t, e : IF e \in K THEN Append(t, e) ELSE t, << >>, s)
-----------------------------------------------------------------------------
(* The journal *)

IncrementNonce(x) == [op |-> "EvmIncrementNonce", address |-> x]
SetStorage(x, i, v) ==
    [op |-> "EvmSetStorage", address |-> x, index |-> i, value |-> v]
SetCode(x, c) == [op |-> "EvmSetCode", address |-> x, code |-> c]
Withdraw(x, v) == [op |-> "NeonWithdraw", source |-> x, value |-> v]
Destruct(x) == [op |-> "EvmSelfDestruct", address |-> x]

TransferOfAny(x, y, v) ==
    << [op |-> "NeonTransfer", source |-> x, target |-> y, value |-> v] >>

\* ExecutorState::transfer, once the balance is known to suffice
Transfer(x, y, v) ==
    IF v = 0 \/ x = y THEN <<>>
    ELSE << [op |-> "NeonTransfer", source |-> x, target |-> y, value |-> v] >>

Credits(js, x) ==
    MapThenSumSet(LAMBDA i : js[i].value,
                  {i \in DOMAIN js : js[i].op = "NeonTransfer" /\ js[i].target = x})

Debits(js, x) ==
    MapThenSumSet(LAMBDA i : js[i].value,
                  {i \in DOMAIN js : js[i].op \in {"NeonTransfer", "NeonWithdraw"}
                                     /\ js[i].source = x})

\* The reads of ExecutorState over the accounts w: nonce and balance add the
\* journal up, code takes the first entry for the address, storage the last
\* for the cell.
nonce(w, js, x) ==
    w.nonce[x] + Cardinality({i \in DOMAIN js : js[i] = IncrementNonce(x)})

balance(w, js, x) == w.balance[x] + Credits(js, x) - Debits(js, x)

CodeSetFirst(js, x) ==
    SelectInSeq(js, LAMBDA a : a.op = "EvmSetCode" /\ a.address = x)

code(w, js, x) ==
    LET i == CodeSetFirst(js, x)
    IN  IF i = 0 THEN w.code[x] ELSE js[i].code

WritesCell(a, x, i) == a.op = "EvmSetStorage" /\ a.address = x /\ a.index = i

storageFirst(w, js, x, i) ==
    LET k == SelectInSeq(js, LAMBDA a : WritesCell(a, x, i))
    IN  IF k = 0 THEN w.storage[x][i] ELSE js[k].value

storage(w, js, x, i) ==
    LET k == SelectLastInSeq(js, LAMBDA a : WritesCell(a, x, i))
    IN  IF k = 0 THEN w.storage[x][i] ELSE js[k].value

\* Everything a contract can read; of a balance, what the journal makes of it,
\* because gas is taken and collected meanwhile.
View(w, js) ==
    [nonce   |-> [x \in Addresses |-> nonce(w, js, x)],
     moved   |-> [x \in Addresses |-> Credits(js, x) - Debits(js, x)],
     code    |-> [x \in Addresses |-> code(w, js, x)],
     storage |-> [x \in Addresses |-> [i \in Indices |-> storage(w, js, x, i)]]]
-----------------------------------------------------------------------------
(* Solana accounts under the journal *)

TokenCreate(k, o, x) ==
    [op |-> "TokenCreate", key |-> k, payer |-> o, authority |-> x]
TokenTransfer(j, k, x, v) ==
    [op |-> "TokenTransfer", from |-> j, to |-> k, signer |-> x, value |-> v]

External(a) == a.op \in {"TokenCreate", "TokenTransfer"}

Externals(js) == Filtered(js, {a \in Range(js) : External(a)})

\* The accounts of an external instruction
Metas(a) == IF a.op = "TokenCreate" THEN {a.key} ELSE {a.from, a.to}

Touched(js) == UNION {Metas(js[i]) : i \in {k \in DOMAIN js : External(js[k])}}

\* Whether the program called takes the instruction with the accounts as they
\* are, and what it makes of them
Accepted(accounts, a) ==
    \/ a.op = "TokenCreate" /\ accounts[a.key].owner = "system"
    \/ /\ a.op = "TokenTransfer"
       /\ accounts[a.from].owner = "token" /\ accounts[a.to].owner = "token"
       /\ accounts[a.from].authority = a.signer
       /\ accounts[a.from].amount >= a.value

Performed(accounts, a) ==
    IF a.op = "TokenCreate"
    THEN [accounts EXCEPT ![a.key] =
             [owner |-> "token", authority |-> a.authority, amount |-> 0]]
    ELSE LET taken == [accounts EXCEPT ![a.from].amount = @ - a.value]
         IN  [taken EXCEPT ![a.to].amount = @ + a.value]

\* The emulate functions of external_programs over a whole journal: the
\* accounts, and the number of instructions done before one was refused
Emulated(accounts, js) ==
    LET emulate(s, a) ==
            IF s.done < s.seen \/ ~Accepted(s.accounts, a)
            THEN [s EXCEPT !.seen = @ + 1]
            ELSE [accounts |-> Performed(s.accounts, a),
                  seen |-> s.seen + 1, done |-> s.done + 1]
    IN  FoldLeft(emulate, [accounts |-> accounts, seen |-> 0, done |-> 0],
                 Externals(js))

\* insert_account_if_not_present
CachedToo(keys) ==
    [k \in DOMAIN cache \cup keys |->
        IF k \in DOMAIN cache THEN cache[k] ELSE solana[k]]

\* external_account: an account no instruction in the journal writes to is
\* read from the cache; for any other the journal is emulated, and that must
\* succeed.
CacheWith(js, k) == CachedToo(IF k \in Touched(js) THEN Touched(js) ELSE {k})

Emulates(js, k) ==
    k \in Touched(js) =>
        LET s == Emulated(CacheWith(js, k), js) IN s.done = s.seen

ExternalAccountCached(js, k) == CacheWith(js, k)[k]

ExternalAccount(js, k) ==
    IF k \in Touched(js) THEN Emulated(CacheWith(js, k), js).accounts[k]
    ELSE CacheWith(js, k)[k]
-----------------------------------------------------------------------------
(* Machine::new *)

CallFrame(contract, static, c) ==
    [contract |-> contract, reason |-> "Call", is_static |-> static,
     eof |-> c \in EofCodes, runs |-> c # NoCode]

CreateFrame(contract, eof) ==
    [contract |-> contract, reason |-> "Create", is_static |-> FALSE,
     eof |-> eof, runs |-> TRUE]

\* A machine whose journal is js, with the snapshot after its first entry
Started(frame, js) ==
    /\ actions = <<>> /\ trxs < MaxTrxs
    /\ actions' = js
    /\ stack' = <<1>>
    /\ frames' = <<frame>>
    /\ is_eof' = frame.eof
    /\ exit' = "none"
    /\ entered' = <<View(world, <<js[1]>>)>>
    /\ trxs' = trxs + 1
    /\ cache' = << >>
    /\ UNCHANGED <<world, fault, paid, outside>>

CanSend(o, v) ==
    o \in world.exists /\ world.balance[o] >= v /\ world.code[o] = NoCode

StartCall(o, x, v) ==
    /\ CanSend(o, v)
    /\ LET js == <<IncrementNonce(o)>> \o Transfer(o, x, v)
       IN  Started(CallFrame(x, FALSE, world.code[x]), js)

StartCreate(o, x, v, eof) ==
    /\ CanSend(o, v)
    /\ <<o, world.nonce[o]>> \in DOMAIN from_create
    /\ x = from_create[<<o, world.nonce[o]>>]
    /\ world.nonce[x] = 0 /\ world.code[x] = NoCode
    /\ Started(CreateFrame(x, eof),
               <<IncrementNonce(o), IncrementNonce(x)>> \o Transfer(o, x, v))

-----------------------------------------------------------------------------
(* Opcodes *)

\* One step of a frame that has code and room left
CanStep ==
    Running /\ Top.runs /\ Len(actions) < MaxActions

Step(js) ==
    /\ actions' = js
    /\ UNCHANGED <<world, stack, frames, is_eof, exit, fault, entered, paid, trxs,
                   outside>>

\* fork and snapshot: js is the journal at the snapshot, more what follows
Enter(frame, js, more) ==
    /\ Len(frames) < MaxDepth
    /\ actions' = js \o more
    /\ stack' = Append(stack, Len(js))
    /\ frames' = Append(frames, frame)
    /\ entered' = Append(entered, View(world, js))
    /\ UNCHANGED <<world, is_eof, exit, fault, paid, trxs, cache, outside>>

\* opcode_sstore
SstoreInStatic(i, v) ==
    /\ CanStep /\ UNCHANGED cache
    /\ Step(Append(actions, SetStorage(Top.contract, i, v)))

Sstore(i, v) ==
    /\ CanStep /\ ~Top.is_static /\ UNCHANGED cache
    /\ Step(Append(actions, SetStorage(Top.contract, i, v)))

CallUnfunded(x, v) ==
    /\ CanStep /\ x # NeonToken
    /\ Top.is_static => v = 0
    /\ Enter(CallFrame(x, Top.is_static, code(world, actions, x)),
             actions, Transfer(Top.contract, x, v))

\* opcode_call and opcode_staticcall: into another contract, with value or
\* read-only from there on.  A call whose checks fail is reverted at once,
\* which leaves everything as it was.
Call(x, v) ==
    /\ CanStep /\ x # NeonToken
    /\ Top.is_static => v = 0
    /\ balance(world, actions, Top.contract) >= v
    /\ Enter(CallFrame(x, Top.is_static, code(world, actions, x)),
             actions, Transfer(Top.contract, x, v))

StaticCall(x) ==
    /\ CanStep /\ x # NeonToken
    /\ Enter(CallFrame(x, TRUE, code(world, actions, x)), actions, <<>>)

\* opcode_delegatecall, and opcode_callcode, which moves no value either
DelegateCall(x) ==
    /\ CanStep /\ x # NeonToken
    /\ Enter(CallFrame(Top.contract, Top.is_static, code(world, actions, x)), actions, <<>>)

WithdrawalNotDebited(k, v) ==
    (IF ExternalAccount(actions, k).owner = "token" THEN <<>>
     ELSE <<TokenCreate(k, operator, k)>>)
    \o <<TokenTransfer(Pool, k, Deposit, v)>>

\* opcode_call of the NEON token's withdraw to the wallet k: it returns in the
\* same step.  The wallet is created unless the token program owns it.
Withdrawal(k, v) ==
    (IF ExternalAccount(actions, k).owner = "token" THEN <<>>
     ELSE <<TokenCreate(k, operator, k)>>)
    \o <<TokenTransfer(Pool, k, Deposit, v)>> \o <<Withdraw(NeonToken, v)>>

CallWithdraw(k, v) ==
    /\ CanStep /\ ~Top.is_static /\ v > 0
    /\ balance(world, actions, Top.contract) >= v
    /\ cache' = CacheWith(actions, k)
    /\ IF Emulates(actions, k)
       THEN Step(actions \o (Transfer(Top.contract, NeonToken, v) \o Withdrawal(k, v)))
       ELSE Step(actions)

\* opcode_call of the SPL token extension: of initializeAccount, which looks
\* whether there is one; of transfer, which looks at nothing; and of
\* isSystemAccount, getAccount and getMint, which look only
CallInitializeAccount(k) ==
    /\ CanStep /\ ~Top.is_static
    /\ k \in DOMAIN derived /\ derived[k] = Top.contract
    /\ cache' = CacheWith(actions, k)
    /\ IF Emulates(actions, k) /\ ExternalAccount(actions, k).owner = "system"
       THEN Step(actions \o <<TokenCreate(k, operator, Top.contract)>>)
       ELSE Step(actions)

CallTokenTransfer(from, to, v) ==
    /\ CanStep /\ ~Top.is_static /\ UNCHANGED cache
    /\ Step(actions \o <<TokenTransfer(from, to, Top.contract, v)>>)

CallGetAccount(k) ==
    /\ CanStep
    /\ cache' = CacheWith(actions, k)
    /\ Step(actions)

\* The addresses of opcode_create and of opcode_create2
CreatedAddress(f) ==
    LET at == <<f.contract, nonce(world, actions, f.contract)>>
    IN  {from_create[c] : c \in {at} \cap DOMAIN from_create}
        \cup {x \in DOMAIN from_create2 : from_create2[x] = f.contract}

\* opcode_create_impl: the creator's nonce is spent even if the address is
\* taken or the value is not there
Create(x, v, eof) ==
    LET f == Top
        js == Append(actions, IncrementNonce(f.contract))
        free == nonce(world, js, x) = 0 /\ code(world, js, x) = NoCode IN
    /\ CanStep /\ ~f.is_static
    /\ x \in CreatedAddress(f)
    /\ eof => code(world, actions, f.contract) \in EofCodes
    /\ IF free /\ balance(world, js, f.contract) >= v
       THEN Enter(CreateFrame(x, eof), js,
                  <<IncrementNonce(x)>> \o Transfer(f.contract, x, v))
       ELSE Step(js) /\ UNCHANGED cache

\* commit_snapshot, then join or the end of the machine
Leave(js, status) ==
    /\ actions' = js
    /\ stack' = Front(stack)
    /\ frames' = Front(frames)
    /\ entered' = Front(entered)
    /\ exit' = IF Len(frames) = 1 THEN status ELSE "none"
    /\ UNCHANGED <<world, is_eof, fault, paid, trxs, cache, outside>>

\* opcode_return; the machine of a creation deploys what it returns
Return(c) ==
    /\ Running /\ Top.runs
    /\ Leave(IF Top.reason = "Create" THEN Append(actions, SetCode(Top.contract, c))
             ELSE actions, "return")

StopUncommitted ==
    /\ Running
    /\ frames' = Front(frames) /\ entered' = Front(entered)
    /\ exit' = IF Len(frames) = 1 THEN "stop" ELSE "none"
    /\ UNCHANGED <<world, actions, stack, is_eof, fault, paid, trxs, cache, outside>>

\* opcode_stop
Stop == Running /\ Leave(actions, "stop")

\* opcode_selfdestruct; it fails if the balance cannot be read
SelfDestruct(x) ==
    /\ CanStep /\ ~Top.is_static
    /\ balance(world, actions, Top.contract) >= 0
    /\ Leave(actions \o Transfer(Top.contract, x, balance(world, actions, Top.contract))
                     \o <<Destruct(Top.contract)>>, "suicide")

\* opcode_revert and every error: revert_snapshot, then join
RevertOneTooFew ==
    /\ Running /\ Top.runs
    /\ Leave(SubSeq(actions, 1, IF Last(stack) < Len(actions) THEN Last(stack) + 1
                                ELSE Last(stack)), "revert")

Revert ==
    /\ Running /\ Top.runs
    /\ Leave(SubSeq(actions, 1, Last(stack)), "revert")

\* opcode_retf in the first code section, if the opcode table has it: the
\* machine stops, whatever frame this is and without commit_snapshot
Retf ==
    /\ Running /\ Top.runs /\ is_eof
    /\ exit' = "stop"
    /\ UNCHANGED <<world, actions, stack, frames, is_eof, fault, entered, paid, trxs,
                   cache, outside>>

-----------------------------------------------------------------------------
(* Iterations *)

\* The balances b when a has transferred its value, to itself perhaps
Moved(b, a) ==
    LET taken == [b EXCEPT ![a.source] = @ - a.value]
    IN  [taken EXCEPT ![a.target] = @ + a.value]

\* The caller the transaction was begun for
Origin == actions[1].address

\* transfer_gas_payment, once the balance is known to suffice
GasPaid(b, e, g) == Moved(b, [source |-> Origin, target |-> e, value |-> g])

\* finalize of an iteration that is not the last takes its gas g from the
\* origin, whatever the journal has spent, and gives it to the account e of the
\* operator.  Then comes the next iteration, perhaps another operator's:
\* execute chooses the opcode table of the machine that runs now, and does not
\* change it when machines fork and join.  What failed at the end may be tried
\* again; it has paid nothing.
NextIteration(o, e, g) ==
    /\ actions # <<>>
    /\ fault # "none" => g = 0
    /\ e \in world.exists
    /\ world.balance[Origin] >= g
    /\ world' = [world EXCEPT !.balance = GasPaid(@, e, g)]
    /\ paid' = IF e = Origin THEN paid ELSE [paid EXCEPT ![Origin] = @ + g]
    /\ is_eof' = IF Running THEN Top.eof ELSE is_eof
    /\ operator' = o /\ fault' = "none"
    /\ UNCHANGED <<actions, stack, frames, exit, entered, trxs, cache, solana>>
-----------------------------------------------------------------------------
(* apply_state_change *)

Destroyed(js) == {js[i].address : i \in {k \in DOMAIN js : js[k].op = "EvmSelfDestruct"}}

rearranged_as_is(js) == js

\* rearrange_actions
Kept(js) ==
    {a \in Range(js) :
        \/ a.op \in {"NeonTransfer", "NeonWithdraw"} \/ External(a)
        \/ a.op # "EvmSelfDestruct" /\ a.address \notin Destroyed(js)}

Destructs(js) == {a \in Range(js) : a.op = "EvmSelfDestruct"}

rearranged(js) == Filtered(js, Kept(js)) \o Filtered(js, Destructs(js))

\* The addresses create_account_if_not_exists is called for
Targets(js) ==
    {js[i].target : i \in {k \in DOMAIN js : js[k].op = "NeonTransfer"}}
    \cup {js[i].address : i \in
            {k \in DOMAIN js : js[k].op \in {"EvmSetCode", "EvmSelfDestruct"}}}

DeletedButStorage(w, x) == [w EXCEPT !.nonce[x] = 0, !.code[x] = NoCode]

\* delete_account; storage outside the account is lost with the generation
Deleted(w, x) ==
    [w EXCEPT !.nonce[x] = 0, !.code[x] = NoCode,
              !.storage[x] = [i \in Indices |-> Zero]]

Failed(s, why) == [s EXCEPT !.fault = why]

\* One action of the journal on s: the accounts, the storage writes put
\* off to the end, the Solana accounts, and the fault, which is final.  Solana
\* wants the signature of the payer named in the instruction.
ApplyAction(s, a) ==
    LET w == s.w IN
    IF s.fault # "none" THEN s
    ELSE CASE a.op = "NeonTransfer" ->
            IF w.balance[a.source] < a.value THEN Failed(s, "insufficient funds")
            ELSE [s EXCEPT !.w.balance = Moved(@, a)]
         [] a.op = "NeonWithdraw" ->
            IF a.source \notin w.exists THEN Failed(s, "missing account")
            ELSE IF w.balance[a.source] < a.value THEN Failed(s, "insufficient funds")
            ELSE [s EXCEPT !.w.balance[a.source] = @ - a.value]
         [] a.op = "EvmIncrementNonce" ->
            IF a.address \notin w.exists THEN Failed(s, "missing account")
            ELSE [s EXCEPT !.w.nonce[a.address] = @ + 1]
         [] a.op = "EvmSetCode" ->
            IF w.code[a.address] # NoCode THEN Failed(s, "already deployed")
            ELSE IF a.code = NoCode THEN Failed(s, "no contract data")
            ELSE [s EXCEPT !.w.code[a.address] = a.code]
         [] a.op = "EvmSelfDestruct" ->
            [s EXCEPT !.w = Deleted(@, a.address),
                      !.writes = Filtered(@, {b \in Range(@) : b.address # a.address})]
         [] a.op = "EvmSetStorage" -> [s EXCEPT !.writes = Append(@, a)]
         [] a.op = "TokenCreate" /\ a.payer # operator -> Failed(s, "payer has not signed")
         [] OTHER ->
            IF Accepted(s.solana, a) THEN [s EXCEPT !.solana = Performed(@, a)]
            ELSE Failed(s, "instruction refused")

\* apply_storage
ApplyStorage(s, a) ==
    IF s.fault # "none" THEN s
    ELSE IF s.w.code[a.address] = NoCode THEN Failed(s, "contract expected")
    ELSE [s EXCEPT !.w.storage[a.address][a.index] = a.value]

Applied(js) ==
    LET order == rearranged(js)
        ready == [w |-> [world EXCEPT !.exists = @ \cup Targets(order)],
                  writes |-> <<>>, solana |-> solana, fault |-> "none"]
        done == FoldLeft(ApplyAction, ready, order)
    IN  FoldLeft(ApplyStorage, done, done.writes)

\* finalize of the last iteration, after apply_state_change
GasCharged(s, e, g) ==
    IF s.fault # "none" THEN s
    ELSE IF s.w.balance[Origin] < g THEN Failed(s, "gas not covered")
    ELSE [s EXCEPT !.w.balance = GasPaid(@, e, g)]

Idle ==
    /\ actions' = <<>> /\ stack' = <<>> /\ frames' = <<>>
    /\ is_eof' = FALSE /\ exit' = "none" /\ entered' = <<>>
    /\ paid' = [x \in Addresses |-> 0]
    /\ cache' = << >>

\* The last iteration: into_actions, then apply_state_change, then its gas g for
\* the account e of the operator.  A failed assertion or invocation undoes the
\* instruction.
Apply(e, g) ==
    /\ actions # <<>> /\ exit # "none" /\ fault = "none"
    /\ e \in world.exists
    /\ UNCHANGED <<trxs, operator>>
    /\ IF stack # <<>>
       THEN fault' = "snapshots left" /\ UNCHANGED <<world, machine, solana, cache>>
       ELSE LET done == GasCharged(Applied(actions), e, g) IN
            IF done.fault = "none"
            THEN world' = done.w /\ solana' = done.solana /\ Idle /\ UNCHANGED fault
            ELSE fault' = done.fault /\ UNCHANGED <<world, machine, solana, cache>>

\* transaction_cancel, seen from here: it takes no gas
Cancel ==
    /\ actions # <<>>
    /\ world' = [world EXCEPT !.nonce[actions[1].address] = @ + 1]
    /\ Idle /\ fault' = "none" /\ UNCHANGED <<trxs, outside>>

\* Nothing locks the accounts of the token program: others create the wallets
\* of users, and close them when they are empty.
OthersToggle(k) ==
    /\ solana[k].amount = 0
    /\ solana' = [solana EXCEPT ![k].owner = IF @ = "token" THEN "system" ELSE "token"]
    /\ UNCHANGED <<world, machine, fault, trxs, cache, operator>>
-----------------------------------------------------------------------------
Init ==
    /\ world = Genesis
    /\ actions = <<>> /\ stack = <<>> /\ frames = <<>>
    /\ is_eof = FALSE /\ exit = "none" /\ fault = "none" /\ entered = <<>>
    /\ trxs = 0 /\ paid = [x \in Addresses |-> 0]
    /\ solana = SolanaGenesis /\ cache = << >> /\ operator \in Operators

Start ==
    \E o \in Origins, v \in Values :
        \/ \E x \in Addresses : StartCall(o, x, v)
        \/ \E x \in Creatable, eof \in BOOLEAN : StartCreate(o, x, v, eof)

\* Only accounts that somebody may change are worth reading here, and only
\* contracts' own ones worth transferring from.
Opcode ==
    \/ \E i \in Indices, v \in Cells : Sstore(i, v)
    \/ \E x \in Addresses, v \in Values : Call(x, v)
    \/ \E x \in Addresses : StaticCall(x) \/ DelegateCall(x) \/ SelfDestruct(x)
    \/ \E k \in Wallets, v \in Values : CallWithdraw(k, v)
    \/ \E k \in DOMAIN derived : CallInitializeAccount(k)
    \/ \E k \in Others : CallGetAccount(k)
    \/ \E j \in DOMAIN derived, k \in Wallets, v \in Values : CallTokenTransfer(j, k, v)
    \/ \E x \in Creatable, v \in Values, eof \in BOOLEAN : Create(x, v, eof)
    \/ \E c \in Codes \cup {NoCode} : Return(c)
    \/ Stop \/ Revert \/ Retf

Next ==
    \/ Start \/ Opcode \/ Cancel
    \/ \E e \in Collectors, g \in GasCosts :
          \/ Apply(e, g)
          \/ \E o \in Operators : NextIteration(o, e, g)
    \/ \E k \in Others : OthersToggle(k)

Spec == Init /\ [][Next]_vars
-----------------------------------------------------------------------------
(* Correctness *)

(***************************************************************************)
(* Types; only withdrawals and transfers of something are in the journal.  *)
(***************************************************************************)
TypeOK ==
    /\ world \in World
    /\ actions \in Seq(Action)
    /\ stack \in Seq(Nat)
    /\ frames \in Seq(Frame)
    /\ is_eof \in BOOLEAN
    /\ exit \in {"none", "return", "stop", "suicide", "revert"}
    /\ trxs \in 0..MaxTrxs
    /\ paid \in [Addresses -> Nat]
    /\ solana \in [SolanaKeys -> SolanaAccount]
    /\ DOMAIN cache \subseteq SolanaKeys
    /\ \A k \in DOMAIN cache : cache[k] \in SolanaAccount

(***************************************************************************)
(* Snapshots and frames go together, and below all of them there is the    *)
(* increment of the origin's nonce and nothing else: what the assertions   *)
(* of revert_snapshot and commit_snapshot say.                             *)
(***************************************************************************)
SnapshotsNested ==
    Running =>
        /\ Len(stack) = Len(frames)
        /\ \A d \in 2..Len(stack) : stack[d - 1] <= stack[d]
        /\ Last(stack) <= Len(actions)
        /\ stack[1] = 1
        /\ actions[1].op = "EvmIncrementNonce" /\ actions[1].address \in Origins

(***************************************************************************)
(* A frame that fails leaves no trace: everything a contract can read is   *)
(* again what it was when the frame was entered, the effects of the calls  *)
(* it made that succeeded included; balances, but for the gas that was     *)
(* taken and collected in the meantime.                                    *)
(***************************************************************************)
FailureUndone == [][Revert => View(world, actions)' = Last(entered)]_vars

(***************************************************************************)
(* Nothing is written under a static call, at whatever depth.              *)
(***************************************************************************)
StaticPure ==
    \A d \in DOMAIN frames : frames[d].is_static => Len(actions) = stack[d]

(***************************************************************************)
(* No sequence of calls, creations, destructions and reverts overdraws a   *)
(* balance by more than the gas that iterations took from it since the     *)
(* transaction started: where no gas was taken, the subtractions of        *)
(* ExecutorState::balance do not fail.  An origin that has journaled what  *)
(* it needs for gas is overdrawn, and reading its balance then fails.      *)
(***************************************************************************)
BalancesCovered ==
    \A x \in Addresses : balance(world, actions, x) + paid[x] >= 0

(***************************************************************************)
(* What is applied is what the contracts saw: after the last iteration the *)
(* accounts hold the values that reads of the journal returned, whatever   *)
(* the journal's order and rearrange_actions' order, but for the gas of    *)
(* that iteration; destroyed accounts keep only their balance.             *)
(***************************************************************************)
AppliedAsViewed ==
    [][\A e \in Collectors, g \in GasCosts :
       Apply(e, g) /\ fault' = "none" =>
          LET seen == View(world, actions)
              left == [x \in Addresses |-> balance(world, actions, x)] IN
          /\ world'.balance = GasPaid(left, e, g)
          /\ \A x \in Addresses :
              /\ x \notin Destroyed(actions) =>
                    /\ world'.nonce[x] = seen.nonce[x]
                    /\ world'.code[x] = seen.code[x]
                    /\ world'.storage[x] = seen.storage[x]
              /\ x \in Destroyed(actions) =>
                    /\ world'.nonce[x] = 0
                    /\ world'.code[x] = NoCode
                    /\ world'.storage[x] = [i \in Indices |-> Zero]]_vars

(***************************************************************************)
(* A contract is created on clean storage, at an address where another     *)
(* one was destroyed too.                                                  *)
(***************************************************************************)
CreatedOnCleanStorage ==
    \A d \in DOMAIN frames :
        frames[d].reason = "Create" =>
            \A i \in Indices : entered[d].storage[frames[d].contract][i] = Zero

(***************************************************************************)
(* The checks made when a frame is entered are enough when the journal is  *)
(* applied: no address already has code, and no balance is short but one   *)
(* that the gas of earlier iterations was taken from, so much that some    *)
(* entry of the journal overdraws it.                                      *)
(***************************************************************************)
Overdrawn(x) ==
    \E n \in DOMAIN actions : balance(world, SubSeq(actions, 1, n), x) < 0

JournalApplicable ==
    /\ fault # "already deployed"
    /\ fault = "insufficient funds" =>
          \E x \in Addresses : paid[x] > 0 /\ Overdrawn(x)

(***************************************************************************)
(* Every NEON there is has its token in the pool, whatever contracts       *)
(* withdraw in frames that are reverted, in transactions that are          *)
(* cancelled, or before they destroy themselves.                           *)
(***************************************************************************)
NeonBacked ==
    MapThenSumSet(LAMBDA x : world.balance[x], Addresses) <= solana[Pool].amount

(***************************************************************************)
(* The check of an instruction when it is queued, over emulated accounts,  *)
(* holds for the real ones many iterations later: when an instruction is   *)
(* refused, then one that the extension queues unchecked (a contract's own *)
(* transfer), or others have changed an account since it was read.         *)
(***************************************************************************)
Stale == \E k \in DOMAIN cache : cache[k] # solana[k]

FirstRefused ==
    Externals(actions)[Emulated(solana, actions).done + 1]

CheckedInstructionsAccepted ==
    [][(\E e \in Collectors, g \in GasCosts : Apply(e, g))
       /\ fault' = "instruction refused" =>
          \/ Stale
          \/ FirstRefused.op = "TokenTransfer" /\ FirstRefused.signer # Deposit]_vars

\* Every account that an action of the journal changes was created before:
\* "mutable accounts always present" (account_storage/base.rs:132).
MutableAccountsPresent == fault # "missing account"

\* When the machine has stopped, every snapshot was committed or reverted:
\* assert!(self.stack.is_empty()) of into_actions (executor/state.rs:68).
SnapshotStackEmpty == fault # "snapshots left"
=============================================================================
