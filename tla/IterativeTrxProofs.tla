------------------------ MODULE IterativeTrxProofs ------------------------
(***************************************************************************)
(* IndInv is an inductive invariant of IterativeTrx for all values of its  *)
(* constants, and under it every step of IterativeTrx is a step of the     *)
(* abstract ledger TrxLedger or leaves the ledger unchanged.               *)
(***************************************************************************)
EXTENDS IterativeTrx, FoldLemmas, TLAPS

-----------------------------------------------------------------------------
(* Types of the helpers *)

LEMMA TrxType ==
    ASSUME NEW t \in Trxs
    PROVE  /\ trx[t].caller \in Addresses
           /\ trx[t].target \in Addresses
           /\ trx[t].nonce \in Nat
           /\ trx[t].value \in Nat
           /\ trx[t].code_size \in Nat
           /\ trx[t].gas_limit \in Nat
           /\ trx[t].gas_price \in Nat
           /\ trx[t].parts \in Nat
           /\ trx[t].create \in BOOLEAN
           /\ t # NoTrx
           /\ \A u \in Trxs : trx[t].create => trx[t].target # trx[u].caller
  BY ConstantsAssumption DEF TrxRecord

LEMMA GasType ==
    /\ BeginGas \in Nat
    /\ \A t \in Trxs : WriteGas(t) \in Nat
    /\ \A steps \in {0, 1, 2} : ContinueGas(steps) \in Nat
  BY BoundsAssumption, TrxType DEF BeginGas, WriteGas, ContinueGas

LEMMA GasAllowedType ==
    ASSUME NEW t \in Trxs
    PROVE  GasAllowed(t) \in Nat /\ trx[t].gas_limit <= GasAllowed(t)
<1>1. \A n, m \in Nat : m > 0 => n * m \in Nat /\ n <= n * m
  OBVIOUS
<1> QED
  BY <1>1, TrxType, BoundsAssumption DEF GasAllowed

LEMMA ChargedType ==
    ASSUME TypeOK, NEW t \in Trxs, NEW gas \in Nat
    PROVE  Charged(t, gas) \in [Trxs -> Nat]
<1>1. gas * trx[t].gas_price \in Nat
  BY TrxType
<1> QED
  BY <1>1 DEF Charged, TypeOK

LEMMA SpaceType ==
    ASSUME TypeOK, NEW t \in Trxs, NEW r
    PROVE  /\ SpaceNeeded(t, r) \in Nat
           /\ SpaceReached(t, r) \in Nat
           /\ Expenses(t, r) \in Nat
           /\ Reallocated(t, r) \in [Addresses -> Nat]
           /\ Transfers(t, r) => SpaceNeeded(t, r) > 0
           /\ Deploys(t, r) => SpaceNeeded(t, r) > 0
<1>1. /\ trx[t].code_size \in Nat
      /\ trx[t].target \in Addresses
      /\ space[trx[t].target] \in Nat
  BY TrxType DEF TypeOK
<1>2. /\ space_needed(trx[t].code_size) \in Nat \ {0}
      /\ space_needed(0) \in Nat \ {0}
  BY <1>1, BoundsAssumption DEF space_needed
<1>3. /\ SpaceNeeded(t, r) \in Nat
      /\ Transfers(t, r) => SpaceNeeded(t, r) > 0
      /\ Deploys(t, r) => SpaceNeeded(t, r) > 0
  BY <1>2 DEF SpaceNeeded
<1>4. /\ SpaceReached(t, r) \in Nat
      /\ SpaceReached(t, r) - space[trx[t].target] \in Nat
  BY <1>1, <1>3, BoundsAssumption DEF SpaceReached
<1> QED
  BY <1>1, <1>3, <1>4, BoundsAssumption DEF Expenses, Reallocated, TypeOK

\* Gas moves between initialised accounts and overdraws none.
LEMMA GasPaidType ==
    ASSUME NEW bal \in [Addresses -> Nat], NEW t \in Trxs,
           NEW e \in Addresses, status[e] = "ether",
           NEW gas \in Nat, CanPay(bal, t, gas)
    PROVE  /\ GasPaid(bal, t, e, gas) \in [Addresses -> Nat]
           /\ \A x \in Addresses :
                 status[x] # "ether" => GasPaid(bal, t, e, gas)[x] = bal[x]
<1> DEFINE cost == gas * trx[t].gas_price
<1>1. cost \in Nat /\ trx[t].caller \in Addresses
  BY TrxType
<1>2. bal[trx[t].caller] >= cost /\ status[trx[t].caller] = "ether"
  BY DEF CanPay
<1>3. GasPaid(bal, t, e, gas) =
        IF e = trx[t].caller THEN bal
        ELSE [bal EXCEPT ![trx[t].caller] = @ - cost, ![e] = @ + cost]
  BY DEF GasPaid
<1> HIDE DEF cost
<1> QED
  BY <1>1, <1>2, <1>3

\* So does the value of the transaction, to a target that apply initialises.
LEMMA MovedType ==
    ASSUME TypeOK, Pristine, NEW t \in Trxs, NEW r, CanApply(t, r),
           status[trx[t].caller] = "ether"
    PROVE  /\ Moved(t, r) \in [Addresses -> Nat]
           /\ \A x \in Addresses :
                 Initialised(t, r)[x] # "ether" => Moved(t, r)[x] = 0
<1>1. /\ trx[t].caller \in Addresses /\ trx[t].target \in Addresses
      /\ trx[t].value \in Nat
  BY TrxType
<1>2. Moved(t, r) \in [Addresses -> Nat]
  BY <1>1 DEF Moved, CanApply, TypeOK
<1>3. ASSUME NEW x \in Addresses, Initialised(t, r)[x] # "ether"
      PROVE  Moved(t, r)[x] = 0
  <2>1. status[x] # "ether"
    BY <1>1, <1>3 DEF Initialised, TypeOK
  <2>2. balance[x] = 0 /\ x # trx[t].caller
    BY <2>1 DEF Pristine
  <2>3. ~(Transfers(t, r) /\ x = trx[t].target)
    BY <1>1, <1>3, SpaceType DEF Initialised, TypeOK
  <2> QED
    BY <1>1, <2>2, <2>3 DEF Moved, TypeOK
<1> QED
  BY <1>2, <1>3

\* Accounts are initialised by apply and never the other way round.
LEMMA StatusType ==
    ASSUME TypeOK, NEW t \in Trxs, NEW r
    PROVE  /\ Initialised(t, r) \in [Addresses -> Status]
           /\ Allocated(t, r) \in [Addresses -> Status]
           /\ \A x \in Addresses :
                 /\ status[x] = "ether" => Initialised(t, r)[x] = "ether"
                 /\ Allocated(t, r)[x] = "ether" <=> status[x] = "ether"
                 /\ Initialised(t, r)[x] # status[x] => x = trx[t].target
                 /\ Deploys(t, r) => Initialised(t, r)[trx[t].target] = "ether"
  BY TrxType, SpaceType DEF Initialised, Allocated, TypeOK, Status

\* Exactly the caller's nonce, and that of a deployed contract, advance.
LEMMA CountedType ==
    ASSUME TypeOK, NEW t \in Trxs, NEW r
    PROVE  /\ Counted(t, r) \in [Addresses -> Nat]
           /\ Counted(t, r)[trx[t].caller] = trx_count[trx[t].caller] + 1
           /\ \A x \in Addresses : Counted(t, r)[x] >= trx_count[x]
           /\ \A x \in Addresses :
                 x # trx[t].caller /\ ~(Deploys(t, r) /\ x = trx[t].target) =>
                    Counted(t, r)[x] = trx_count[x]
           /\ \A u \in Trxs : trx[u].caller # trx[t].caller =>
                 Counted(t, r)[trx[u].caller] = trx_count[trx[u].caller]
<1>1. Deploys(t, r) => trx[t].create
  BY DEF Deploys
<1>2. \A u \in Trxs : trx[u].caller \in Addresses
  BY TrxType
<1>3. Deploys(t, r) => \A u \in Trxs : trx[t].target # trx[u].caller
  BY <1>1, TrxType
<1> QED
  BY <1>2, <1>3 DEF Counted, TypeOK

LEMMA EmptyStorageType ==
    ASSUME NEW h \in Holders
    PROVE  EmptyStorage(h) \in StorageRecord
  BY ConstantsAssumption, BoundsAssumption
  DEF EmptyStorage, StorageRecord, MaxAge

-----------------------------------------------------------------------------
(* Every action preserves IndInv *)

\* Creating, deleting and writing holders: nobody's transaction is touched.
LEMMA HolderPreserves ==
    ASSUME IndInv, NEW h \in Holders, ~InProgress(h),
           NEW new \in StorageRecord, new.tag \in {"Empty", "Holder"},
           storage' = [storage EXCEPT ![h] = new],
           UNCHANGED <<solana, ethereum, rw_blocked, outcome, charged, supply>>
    PROVE  IndInv'
<1> USE DEF IndInv, solana, ethereum
<1>1. /\ storage'[h] = new
      /\ \A k \in Holders : k # h => storage'[k] = storage[k]
  BY DEF TypeOK
<1>2. TypeOK'
  BY DEF TypeOK
<1>3. \A k \in Holders : InProgress(k)' => k # h /\ InProgress(k) /\ storage'[k] = storage[k]
  BY <1>1 DEF InProgress
<1>4. \A k \in Holders : InProgress(k) => InProgress(k)' /\ storage'[k] = storage[k]
  BY <1>1 DEF InProgress
<1>5. HeldExist'
  BY <1>3 DEF HeldExist
<1>6. Pristine'
  BY DEF Pristine
<1>7. LocksMatch'
  BY <1>3, <1>4 DEF LocksMatch, Holds
<1>8. LocksExclusive'
  BY <1>3 DEF LocksExclusive, Holds
<1>9. CallerHeld'
  BY <1>3 DEF CallerHeld, Holds
<1>10. SettledOnce'
  BY <1>1, <1>3 DEF SettledOnce
<1>11. TargetListed'
  BY <1>3 DEF TargetListed
<1> QED
  BY <1>2, <1>5, <1>6, <1>7, <1>8, <1>9, <1>10, <1>11

LEMMA BeginPreserves ==
    ASSUME IndInv, NEW h \in Holders, ~InProgress(h), NEW t \in Trxs,
           NEW keys \in SUBSET Addresses, NEW e \in Addresses,
           NEW gas \in Nat, NEW limit \in Nat,
           Begin(h, t, keys, e, gas, limit)
    PROVE  IndInv'
<1> USE DEF IndInv, solana
<1> DEFINE new == NewState(h, t, keys, gas, limit)
           c == trx[t].caller
<1>1. /\ new \in StorageRecord
      /\ new.tag = "State" /\ new.trx = t
      /\ new.listed = keys /\ new.existed = Existing(keys)
  <2>1. Existing(keys) \subseteq Addresses
    BY DEF Existing
  <2>2. 0 \in 0..MaxAge /\ owner[h] \in Operators
    BY ConstantsAssumption, BoundsAssumption DEF MaxAge
  <2> QED
    BY <2>1, <2>2 DEF StorageRecord, NewState
<1>2. storage' = [storage EXCEPT ![h] = new]
  BY DEF Begin
<1> HIDE DEF new
<1>3. /\ storage'[h] = new
      /\ \A k \in Holders : k # h => storage'[k] = storage[k]
      /\ storage' \in [Holders -> StorageRecord]
  BY <1>1, <1>2 DEF TypeOK
<1>4. balance' \in [Addresses -> Nat]
      /\ \A x \in Addresses : status[x] # "ether" => balance'[x] = balance[x]
  BY GasPaidType DEF Begin, TypeOK
<1>5. /\ c \in Addresses /\ c \in keys /\ status[c] = "ether"
      /\ trx_count[c] = trx[t].nonce
      /\ trx_count[c] \in Nat
      /\ c \in Existing(keys)
  BY TrxType DEF Begin, CanStart, CanPay, Existing, TypeOK
<1>6. /\ Existing(keys) \subseteq keys /\ keys \subseteq Addresses
      /\ \A x \in Existing(keys) : status[x] = "ether" /\ x \notin rw_blocked
  BY DEF Existing, Begin, NoneBlocked
<1>7. /\ rw_blocked' = rw_blocked \cup Existing(keys)
      /\ UNCHANGED <<status, space, trx_count, code, outcome, supply>>
  BY DEF Begin
<1>8. InProgress(h)' /\ \A k \in Holders : k # h => (InProgress(k)' <=> InProgress(k))
  BY <1>1, <1>3 DEF InProgress
<1>9. \A k \in Holders, x \in Addresses :
         Holds(k, x)' <=> IF k = h THEN x \in Existing(keys) ELSE Holds(k, x)
  BY <1>1, <1>3, <1>8 DEF Holds
<1>10. \A x \in Addresses : ~Holds(h, x)
  BY DEF Holds
<1>11. TypeOK'
  <2>1. charged' \in [Trxs -> Nat]
    BY ChargedType DEF Begin
  <2> QED
    BY <1>3, <1>4, <1>6, <1>7, <2>1 DEF TypeOK
<1>12. HeldExist'
  BY <1>1, <1>3, <1>6, <1>7, <1>8 DEF HeldExist
<1>13. Pristine'
  BY <1>4, <1>6, <1>7 DEF Pristine
<1>14. LocksMatch'
  BY <1>7, <1>9, <1>10 DEF LocksMatch
<1>15. LocksExclusive'
  BY <1>6, <1>9 DEF LocksExclusive, LocksMatch
<1>16. CallerHeld'
  <2>1. ASSUME NEW k \in Holders, InProgress(k)', NEW u, u = storage'[k].trx
        PROVE  /\ u \in Trxs
               /\ trx[u].caller \in storage'[k].existed
               /\ trx_count'[trx[u].caller] = trx[u].nonce
    <3>1. CASE k = h
      BY <1>1, <1>3, <1>5, <1>7, <2>1, <3>1
    <3>2. CASE k # h
      BY <1>3, <1>7, <1>8, <2>1, <3>2 DEF CallerHeld, Holds
    <3> QED
      BY <3>1, <3>2
  <2> QED
    BY <2>1 DEF CallerHeld, Holds
<1>17. SettledOnce'
  <2>1. outcome[t] = "pending"
    BY <1>5, TrxType DEF SettledOnce
  <2> QED
    BY <1>1, <1>3, <1>7, <1>8, <2>1 DEF SettledOnce
<1>18. TargetListed'
  <2>1. trx[t].target \in keys
    BY DEF Begin, CanStart
  <2> QED
    BY <1>1, <1>3, <1>8, <2>1 DEF TargetListed
<1> QED
  BY <1>11, <1>12, <1>13, <1>14, <1>15, <1>16, <1>17, <1>18

\* An iteration that does not end the transaction.
LEMMA ResumePreserves ==
    ASSUME IndInv, NEW h \in Holders, InProgress(h),
           NEW o \in Operators, NEW gas \in Nat,
           NEW evm \in {"none", "running", "stop", "revert"},
           storage' = Resumed(h, o, gas, evm),
           status' \in [Addresses -> Status],
           \A x \in Addresses : status'[x] = "ether" <=> status[x] = "ether",
           space' \in [Addresses -> Nat],
           balance' \in [Addresses -> Nat],
           \A x \in Addresses : status[x] # "ether" => balance'[x] = balance[x],
           charged' \in [Trxs -> Nat],
           UNCHANGED <<trx_count, code, rw_blocked, outcome, supply>>
    PROVE  IndInv'
<1> USE DEF IndInv
<1>1. /\ storage' \in [Holders -> StorageRecord]
      /\ \A k \in Holders :
            /\ storage'[k].tag = storage[k].tag
            /\ storage'[k].trx = storage[k].trx
            /\ storage'[k].listed = storage[k].listed
            /\ storage'[k].existed = storage[k].existed
  <2>1. \A k \in Holders : k # h => storage'[k] = storage[k]
    BY DEF Resumed, TypeOK
  <2>2. storage[h] \in StorageRecord
    BY DEF TypeOK
  <2>3. storage'[h] =
          [tag |-> storage[h].tag, trx |-> storage[h].trx,
           written |-> storage[h].written, operator |-> o,
           age |-> IF o = storage[h].operator THEN storage[h].age ELSE 0,
           listed |-> storage[h].listed, existed |-> storage[h].existed,
           gas_used |-> storage[h].gas_used + gas,
           gas_limit |-> storage[h].gas_limit, evm |-> evm]
    BY <2>2 DEF Resumed, TypeOK, StorageRecord
  <2>4. storage'[h] \in StorageRecord
    BY <2>2, <2>3, BoundsAssumption DEF StorageRecord, MaxAge
  <2>5. DOMAIN storage' = Holders /\ storage' = [k \in Holders |-> storage'[k]]
    BY DEF Resumed, TypeOK
  <2>6. storage' \in [Holders -> StorageRecord]
    BY <2>1, <2>4, <2>5 DEF TypeOK
  <2> QED
    BY <2>1, <2>3, <2>6
<1>2. TypeOK'
  BY <1>1 DEF TypeOK
<1>3. \A k \in Holders : InProgress(k)' <=> InProgress(k)
  BY <1>1 DEF InProgress
<1>4. HeldExist'
  BY <1>1, <1>3 DEF HeldExist, TypeOK, StorageRecord
<1>5. Pristine'
  BY DEF Pristine
<1>6. LocksMatch' /\ LocksExclusive'
  BY <1>1, <1>3 DEF LocksMatch, LocksExclusive, Holds
<1>7. CallerHeld'
  BY <1>1, <1>3 DEF CallerHeld, Holds
<1>8. SettledOnce'
  BY <1>1, <1>3 DEF SettledOnce
<1>9. TargetListed'
  BY <1>1, <1>3 DEF TargetListed
<1> QED
  BY <1>2, <1>4, <1>5, <1>6, <1>7, <1>8, <1>9

\* A transaction ends, executed or cancelled, and its accounts are unlocked.
LEMMA SettlePreserves ==
    ASSUME IndInv, NEW h \in Holders, InProgress(h),
           NEW t \in Trxs, t = storage[h].trx,
           storage' = [storage EXCEPT ![h] =
               [EmptyStorage(h) EXCEPT !.tag = "Finalized", !.trx = t]],
           rw_blocked' = rw_blocked \ storage[h].existed,
           NEW how \in {"executed", "cancelled"},
           outcome' = [outcome EXCEPT ![t] = how],
           status' \in [Addresses -> Status],
           \A x \in Addresses : status[x] = "ether" => status'[x] = "ether",
           space' \in [Addresses -> Nat],
           trx_count' \in [Addresses -> Nat],
           trx_count'[trx[t].caller] = trx_count[trx[t].caller] + 1,
           \A x \in Addresses : trx_count'[x] >= trx_count[x],
           \A u \in Trxs : trx[u].caller # trx[t].caller =>
               trx_count'[trx[u].caller] = trx_count[trx[u].caller],
           balance' \in [Addresses -> Nat],
           code' \subseteq Addresses,
           charged' \in [Trxs -> Nat],
           \A x \in Addresses : status'[x] # "ether" =>
               trx_count'[x] = 0 /\ balance'[x] = 0 /\ x \notin code',
           UNCHANGED supply
    PROVE  IndInv'
<1> USE DEF IndInv
<1> DEFINE new == [EmptyStorage(h) EXCEPT !.tag = "Finalized", !.trx = t]
<1>1. new \in StorageRecord /\ new.tag = "Finalized" /\ new.trx = t
  BY EmptyStorageType DEF EmptyStorage, StorageRecord
<1> HIDE DEF new
<1>2. /\ storage'[h] = new
      /\ \A k \in Holders : k # h => storage'[k] = storage[k]
      /\ storage' \in [Holders -> StorageRecord]
  BY <1>1 DEF TypeOK, new
<1>3. \A k \in Holders : InProgress(k)' <=> InProgress(k) /\ k # h
  BY <1>1, <1>2 DEF InProgress
<1>4. \A k \in Holders, x \in Addresses : Holds(k, x)' <=> Holds(k, x) /\ k # h
  BY <1>2, <1>3 DEF Holds
<1>5. \A x \in Addresses : Holds(h, x) <=> x \in storage[h].existed
  BY DEF Holds
<1>6. TypeOK'
  BY <1>2 DEF TypeOK
<1>7. HeldExist'
  <2>1. ASSUME NEW k \in Holders, InProgress(k)'
        PROVE  /\ storage'[k].existed \subseteq storage'[k].listed
               /\ \A x \in storage'[k].existed : status'[x] = "ether"
    <3>1. k # h /\ InProgress(k) /\ storage'[k] = storage[k]
      BY <1>2, <1>3, <2>1
    <3>2. storage[k].existed \subseteq Addresses
      BY DEF TypeOK, StorageRecord
    <3> QED
      BY <3>1, <3>2 DEF HeldExist
  <2> QED
    BY <2>1 DEF HeldExist
<1>8. Pristine'
  BY DEF Pristine
<1>9. LocksMatch'
  BY <1>4, <1>5 DEF LocksMatch, LocksExclusive
<1>10. LocksExclusive'
  BY <1>4 DEF LocksExclusive
<1>11. ASSUME NEW k \in Holders, InProgress(k)', NEW u, u = storage'[k].trx
       PROVE  /\ u \in Trxs
              /\ u = storage[k].trx /\ InProgress(k) /\ k # h
              /\ trx[u].caller # trx[t].caller
              /\ trx[u].caller \in storage'[k].existed
              /\ trx_count[trx[u].caller] = trx[u].nonce
  <2>1. k # h /\ InProgress(k) /\ storage'[k] = storage[k]
    BY <1>2, <1>3, <1>11
  <2>2. /\ u \in Trxs /\ Holds(k, trx[u].caller)
        /\ trx_count[trx[u].caller] = trx[u].nonce
    BY <1>11, <2>1 DEF CallerHeld
  <2>3. Holds(h, trx[t].caller)
    BY DEF CallerHeld
  <2>4. trx[u].caller \in Addresses
    BY <2>2, TrxType
  <2> QED
    BY <1>11, <2>1, <2>2, <2>3, <2>4 DEF LocksExclusive, Holds
<1>12. CallerHeld'
  <2>1. ASSUME NEW k \in Holders, InProgress(k)', NEW u, u = storage'[k].trx
        PROVE  /\ u \in Trxs
               /\ trx[u].caller \in storage'[k].existed
               /\ trx_count'[trx[u].caller] = trx[u].nonce
    BY <1>11, <2>1
  <2> QED
    BY <2>1 DEF CallerHeld, Holds
<1>13. SettledOnce'
  <2>1. ASSUME NEW k \in Holders, InProgress(k)', NEW u, u = storage'[k].trx
        PROVE  outcome'[u] = "pending"
    BY <1>11, <2>1 DEF SettledOnce, TypeOK
  <2>2. ASSUME NEW k \in Holders, storage'[k].tag = "Finalized"
        PROVE  outcome'[storage'[k].trx] # "pending"
    <3>1. CASE k = h
      BY <1>1, <1>2, <3>1 DEF TypeOK
    <3>2. CASE k # h
      <4>1. storage'[k] = storage[k]
        BY <1>2, <3>2
      <4> QED
        BY <2>2, <4>1 DEF SettledOnce, TypeOK
    <3> QED
      BY <3>1, <3>2
  <2>3. ASSUME NEW u \in Trxs, outcome'[u] # "pending"
        PROVE  trx_count'[trx[u].caller] > trx[u].nonce
    <3>1. /\ trx[u].caller \in Addresses /\ trx[u].nonce \in Nat
          /\ trx[t].caller \in Addresses
      BY TrxType
    <3>2. CASE u = t
      BY <3>1, <3>2 DEF CallerHeld, TypeOK
    <3>3. CASE u # t
      BY <2>3, <3>1, <3>3 DEF SettledOnce, TypeOK
    <3> QED
      BY <3>2, <3>3
  <2> QED
    BY <2>1, <2>2, <2>3 DEF SettledOnce
<1>14. TargetListed'
  BY <1>2, <1>3 DEF TargetListed
<1> QED
  BY <1>6, <1>7, <1>8, <1>9, <1>10, <1>12, <1>13, <1>14

\* More accounts are locked for a transaction in progress.
LEMMA BlockAddPreserves ==
    ASSUME IndInv, NEW h \in Holders, NEW keys \in SUBSET Addresses,
           BlockAdd(h, keys)
    PROVE  IndInv'
<1> USE DEF IndInv, solana, ethereum
<1> DEFINE add == keys \ storage[h].listed
           more == Existing(add)
<1>1. /\ InProgress(h)
      /\ more \subseteq add /\ add \subseteq Addresses
      /\ \A x \in more : status[x] = "ether" /\ x \notin rw_blocked
      /\ rw_blocked' = rw_blocked \cup more
      /\ UNCHANGED <<status, space, trx_count, balance, code, outcome, charged, supply>>
  BY DEF BlockAdd, NoneBlocked, Existing
<1>2. storage' = [storage EXCEPT ![h].listed = @ \cup add, ![h].existed = @ \cup more]
  BY DEF BlockAdd
<1> HIDE DEF add, more
<1>3. storage[h] \in StorageRecord
  BY DEF TypeOK
<1>4. storage'[h] =
        [tag |-> storage[h].tag, trx |-> storage[h].trx,
         written |-> storage[h].written, operator |-> storage[h].operator,
         age |-> storage[h].age,
         listed |-> storage[h].listed \cup add,
         existed |-> storage[h].existed \cup more,
         gas_used |-> storage[h].gas_used,
         gas_limit |-> storage[h].gas_limit, evm |-> storage[h].evm]
  BY <1>2, <1>3 DEF TypeOK, StorageRecord
<1>5. \A k \in Holders : k # h => storage'[k] = storage[k]
  BY <1>2 DEF TypeOK
<1>6. storage' \in [Holders -> StorageRecord]
  <2>1. DOMAIN storage' = Holders /\ storage' = [k \in Holders |-> storage'[k]]
    BY <1>2 DEF TypeOK
  <2>2. storage'[h] \in StorageRecord
    BY <1>1, <1>3, <1>4 DEF StorageRecord
  <2> QED
    BY <1>5, <2>1, <2>2 DEF TypeOK
<1>7. \A k \in Holders : /\ storage'[k].tag = storage[k].tag
                         /\ storage'[k].trx = storage[k].trx
                         /\ storage[k].existed \subseteq storage'[k].existed
                         /\ InProgress(k)' <=> InProgress(k)
  BY <1>4, <1>5 DEF InProgress
<1>8. \A k \in Holders, x \in Addresses :
         Holds(k, x)' <=> Holds(k, x) \/ (k = h /\ x \in more)
  BY <1>1, <1>4, <1>5, <1>7 DEF Holds
<1>9. TypeOK'
  BY <1>1, <1>6 DEF TypeOK
<1>10. HeldExist'
  <2>1. ASSUME NEW k \in Holders, InProgress(k)'
        PROVE  /\ storage'[k].existed \subseteq storage'[k].listed
               /\ \A x \in storage'[k].existed : status'[x] = "ether"
    <3>1. CASE k = h
      BY <1>1, <1>4, <3>1 DEF HeldExist
    <3>2. CASE k # h
      BY <1>1, <1>5, <1>7, <2>1, <3>2 DEF HeldExist
    <3> QED
      BY <3>1, <3>2
  <2> QED
    BY <2>1 DEF HeldExist
<1>11. Pristine'
  BY <1>1 DEF Pristine
<1>12. LocksMatch'
  BY <1>1, <1>8 DEF LocksMatch
<1>13. LocksExclusive'
  BY <1>1, <1>8 DEF LocksExclusive, LocksMatch
<1>14. CallerHeld'
  <2>1. ASSUME NEW k \in Holders, InProgress(k)', NEW u, u = storage'[k].trx
        PROVE  /\ u \in Trxs
               /\ trx[u].caller \in storage'[k].existed
               /\ trx_count'[trx[u].caller] = trx[u].nonce
    BY <1>1, <1>7, <2>1 DEF CallerHeld, Holds
  <2> QED
    BY <2>1 DEF CallerHeld, Holds
<1>15. SettledOnce'
  BY <1>1, <1>7 DEF SettledOnce
<1>16. TargetListed'
  <2>1. \A k \in Holders : storage[k].listed \subseteq storage'[k].listed
    BY <1>4, <1>5
  <2> QED
    BY <1>7, <2>1 DEF TargetListed
<1> QED
  BY <1>9, <1>10, <1>11, <1>12, <1>13, <1>14, <1>15, <1>16

\* What applying a journal and paying the gas leaves in the accounts.
LEMMA AppliedType ==
    ASSUME TypeOK, Pristine, NEW t \in Trxs, NEW r,
           NEW e \in Addresses, status[e] = "ether",
           NEW gas \in Nat, CanApply(t, r), CanPay(Moved(t, r), t, gas)
    PROVE  /\ GasPaid(Moved(t, r), t, e, gas) \in [Addresses -> Nat]
           /\ Deployed(t, r) \subseteq Addresses
           /\ \A x \in Addresses : Initialised(t, r)[x] # "ether" =>
                 /\ Counted(t, r)[x] = 0
                 /\ GasPaid(Moved(t, r), t, e, gas)[x] = 0
                 /\ x \notin Deployed(t, r)
<1>1. status[trx[t].caller] = "ether"
  BY DEF CanPay
<1>2. /\ Moved(t, r) \in [Addresses -> Nat]
      /\ \A x \in Addresses : Initialised(t, r)[x] # "ether" => Moved(t, r)[x] = 0
  BY <1>1, MovedType
<1>3. trx[t].target \in Addresses
  BY TrxType
<1>4. Deployed(t, r) \subseteq Addresses
  BY <1>3 DEF Deployed, TypeOK
<1>5. GasPaid(Moved(t, r), t, e, gas) \in [Addresses -> Nat]
  BY <1>2, GasPaidType
<1>6. ASSUME NEW x \in Addresses, Initialised(t, r)[x] # "ether"
      PROVE  /\ Counted(t, r)[x] = 0
             /\ GasPaid(Moved(t, r), t, e, gas)[x] = 0
             /\ x \notin Deployed(t, r)
  <2>1. status[x] # "ether" /\ ~(Deploys(t, r) /\ x = trx[t].target)
    BY <1>6, StatusType
  <2>2. x # trx[t].caller /\ trx_count[x] = 0 /\ x \notin code
    BY <1>1, <2>1 DEF Pristine
  <2>3. Counted(t, r)[x] = 0
    BY <2>1, <2>2, CountedType
  <2>4. GasPaid(Moved(t, r), t, e, gas)[x] = 0
    BY <1>2, <1>6, <2>1, GasPaidType
  <2> QED
    BY <2>1, <2>2, <2>3, <2>4 DEF Deployed
<1> QED
  BY <1>4, <1>5, <1>6

LEMMA ContinueFinishPreserves ==
    ASSUME IndInv, NEW h \in Holders, NEW o \in Operators, NEW e \in Addresses,
           NEW r \in {"stop", "revert"}, NEW steps \in {0, 1},
           ContinueFinish(h, o, e, r, steps)
    PROVE  IndInv'
<1> DEFINE t == storage[h].trx
           gas == ContinueGas(steps) + Expenses(t, r)
<1>1. InProgress(h) /\ t \in Trxs /\ TypeOK /\ Pristine /\ HeldExist
  BY DEF ContinueFinish, MayTake, IndInv, CallerHeld
<1>2. gas \in Nat
  BY <1>1, GasType, SpaceType
<1>3. /\ status[e] = "ether" /\ CanApply(t, r) /\ CanPay(Moved(t, r), t, gas)
      /\ NothingAppeared(h)
      /\ space' = Reallocated(t, r)
      /\ status' = Initialised(t, r)
      /\ trx_count' = Counted(t, r)
      /\ balance' = GasPaid(Moved(t, r), t, e, gas)
      /\ charged' = Charged(t, gas)
      /\ code' = Deployed(t, r)
      /\ rw_blocked' = rw_blocked \ {x \in storage[h].listed : status'[x] = "ether"}
      /\ storage' = [storage EXCEPT ![h] =
             [EmptyStorage(h) EXCEPT !.tag = "Finalized", !.trx = t]]
      /\ outcome' = [outcome EXCEPT ![t] = "executed"]
      /\ UNCHANGED supply
  BY DEF ContinueFinish
<1> HIDE DEF t, gas
<1>4. /\ status' \in [Addresses -> Status]
      /\ \A x \in Addresses : status[x] = "ether" => status'[x] = "ether"
      /\ \A x \in Addresses : status'[x] # status[x] => x = trx[t].target
  BY <1>1, <1>3, StatusType
<1>5. /\ balance' \in [Addresses -> Nat]
      /\ code' \subseteq Addresses
      /\ \A x \in Addresses : status'[x] # "ether" =>
             trx_count'[x] = 0 /\ balance'[x] = 0 /\ x \notin code'
  BY <1>1, <1>2, <1>3, AppliedType
<1>6. /\ trx_count' \in [Addresses -> Nat]
      /\ trx_count'[trx[t].caller] = trx_count[trx[t].caller] + 1
      /\ \A x \in Addresses : trx_count'[x] >= trx_count[x]
      /\ \A u \in Trxs : trx[u].caller # trx[t].caller =>
             trx_count'[trx[u].caller] = trx_count[trx[u].caller]
  BY <1>1, <1>3, CountedType
\* What is listed and did not exist is not blocked: it either still does not
\* exist or is the account that this step initialises.
<1>7. rw_blocked' = rw_blocked \ storage[h].existed
  <2>1. storage[h].listed \subseteq Addresses
    BY <1>1 DEF TypeOK, StorageRecord
  <2>2. storage[h].existed \subseteq storage[h].listed
    BY <1>1 DEF HeldExist
  <2>3. \A x \in storage[h].existed : status'[x] = "ether"
    BY <1>1, <1>4, <2>1, <2>2 DEF HeldExist
  <2>4. ASSUME NEW x \in storage[h].listed \ storage[h].existed
        PROVE  x \notin rw_blocked
    <3>1. status[x] # "ether"
      BY <1>3 DEF NothingAppeared, Existing
    <3> QED
      BY <1>1, <2>1, <3>1 DEF Pristine
  <2> QED
    BY <1>3, <2>2, <2>3, <2>4
<1>8. space' \in [Addresses -> Nat] /\ charged' \in [Trxs -> Nat]
  BY <1>1, <1>2, <1>3, SpaceType, ChargedType
<1>9. /\ storage' = [storage EXCEPT ![h] =
             [EmptyStorage(h) EXCEPT !.tag = "Finalized", !.trx = t]]
      /\ outcome' = [outcome EXCEPT ![t] = "executed"]
      /\ UNCHANGED supply
      /\ t = storage[h].trx
  BY <1>3 DEF t
<1> QED
  BY <1>1, <1>4, <1>5, <1>6, <1>7, <1>8, <1>9, SettlePreserves

LEMMA CancelPreserves ==
    ASSUME IndInv, NEW h \in Holders, NEW o \in Operators, Cancel(h, o)
    PROVE  IndInv'
<1> USE DEF IndInv
<1> DEFINE t == storage[h].trx
<1>1. /\ InProgress(h) /\ t \in Trxs
      /\ trx[t].caller \in storage[h].existed
      /\ trx[t].caller \in Addresses
  BY TrxType DEF Cancel, MayTake, CallerHeld, Holds
<1>2. storage[h].existed \subseteq Addresses
  BY DEF TypeOK, StorageRecord
<1>3. Existing(storage[h].existed) = storage[h].existed
  BY <1>1 DEF Existing, HeldExist
<1>4. /\ rw_blocked' = rw_blocked \ storage[h].existed
      /\ trx_count' = [x \in Addresses |->
             IF x \in storage[h].existed /\ x = trx[t].caller
             THEN trx_count[x] + 1 ELSE trx_count[x]]
      /\ storage' = [storage EXCEPT ![h] =
             [EmptyStorage(h) EXCEPT !.tag = "Finalized", !.trx = t]]
      /\ outcome' = [outcome EXCEPT ![t] = "cancelled"]
      /\ UNCHANGED <<status, space, balance, code, charged, supply>>
  BY <1>3 DEF Cancel, solana
<1>5. status[trx[t].caller] = "ether"
  BY <1>1 DEF HeldExist
<1>6. /\ trx_count' \in [Addresses -> Nat]
      /\ trx_count'[trx[t].caller] = trx_count[trx[t].caller] + 1
      /\ \A x \in Addresses : trx_count'[x] >= trx_count[x]
      /\ \A x \in Addresses : x # trx[t].caller => trx_count'[x] = trx_count[x]
  BY <1>1, <1>4 DEF TypeOK
<1>7. \A u \in Trxs : trx[u].caller # trx[t].caller =>
         trx_count'[trx[u].caller] = trx_count[trx[u].caller]
  BY <1>6, TrxType
<1>8. \A x \in Addresses : status'[x] # "ether" =>
         trx_count'[x] = 0 /\ balance'[x] = 0 /\ x \notin code'
  BY <1>4, <1>5, <1>6 DEF Pristine
<1>9. /\ status' \in [Addresses -> Status]
      /\ space' \in [Addresses -> Nat]
      /\ balance' \in [Addresses -> Nat]
      /\ code' \subseteq Addresses
      /\ charged' \in [Trxs -> Nat]
      /\ \A x \in Addresses : status[x] = "ether" => status'[x] = "ether"
  BY <1>4 DEF TypeOK
<1> QED
  BY <1>1, <1>4, <1>6, <1>7, <1>8, <1>9, SettlePreserves

\* A transaction executed in one instruction: its caller is not locked, so
\* it is not the caller of a transaction in progress.
LEMMA ExecutePreserves ==
    ASSUME IndInv, NEW t \in Trxs, NEW keys \in SUBSET Addresses,
           NEW e \in Addresses, NEW r \in {"stop", "revert"}, NEW gas0 \in Nat,
           Execute(t, keys, e, r, gas0)
    PROVE  IndInv'
<1> USE DEF IndInv
<1> DEFINE gas == gas0 + PAYMENT_TO_TREASURE + Expenses(t, r)
           c == trx[t].caller
<1>1. gas \in Nat
  BY BoundsAssumption, SpaceType
<1>2. /\ status[e] = "ether" /\ CanApply(t, r) /\ CanPay(Moved(t, r), t, gas)
      /\ space' = Reallocated(t, r)
      /\ status' = Initialised(t, r)
      /\ trx_count' = Counted(t, r)
      /\ balance' = GasPaid(Moved(t, r), t, e, gas)
      /\ charged' = Charged(t, gas)
      /\ code' = Deployed(t, r)
      /\ outcome' = [outcome EXCEPT ![t] = "executed"]
      /\ UNCHANGED <<rw_blocked, storage, supply>>
  BY DEF Execute
<1>3. /\ c \in Addresses /\ trx[t].nonce \in Nat /\ c \notin rw_blocked
      /\ trx_count[c] = trx[t].nonce
  BY TrxType DEF Execute, NoneBlocked, Existing, CanStart, CanPay
<1> HIDE DEF gas
<1>4. /\ status' \in [Addresses -> Status]
      /\ \A x \in Addresses : status[x] = "ether" => status'[x] = "ether"
  BY <1>2, StatusType
<1>5. /\ balance' \in [Addresses -> Nat]
      /\ code' \subseteq Addresses
      /\ \A x \in Addresses : status'[x] # "ether" =>
             trx_count'[x] = 0 /\ balance'[x] = 0 /\ x \notin code'
  BY <1>1, <1>2, AppliedType
<1>6. /\ trx_count' \in [Addresses -> Nat]
      /\ trx_count'[c] = trx_count[c] + 1
      /\ \A x \in Addresses : trx_count'[x] >= trx_count[x]
      /\ \A u \in Trxs : trx[u].caller # c =>
             trx_count'[trx[u].caller] = trx_count[trx[u].caller]
  BY <1>2, CountedType
<1>7. TypeOK'
  BY <1>1, <1>2, <1>4, <1>5, <1>6, SpaceType, ChargedType DEF TypeOK
<1>8. \A k \in Holders : InProgress(k)' <=> InProgress(k)
  BY <1>2 DEF InProgress
<1>9. HeldExist'
  BY <1>2, <1>4, <1>8 DEF HeldExist, TypeOK, StorageRecord
<1>10. Pristine'
  BY <1>2, <1>4, <1>5 DEF Pristine
<1>11. LocksMatch' /\ LocksExclusive'
  BY <1>2, <1>8 DEF LocksMatch, LocksExclusive, Holds
<1>12. ASSUME NEW k \in Holders, InProgress(k), NEW u, u = storage[k].trx
       PROVE  /\ u \in Trxs
              /\ trx[u].caller \in storage[k].existed
              /\ trx[u].caller # c
              /\ trx_count'[trx[u].caller] = trx[u].nonce
              /\ outcome'[u] = "pending"
  <2>1. /\ u \in Trxs /\ Holds(k, trx[u].caller)
        /\ trx_count[trx[u].caller] = trx[u].nonce /\ outcome[u] = "pending"
    BY <1>12 DEF CallerHeld, SettledOnce
  <2>2. trx[u].caller \in rw_blocked
    BY <2>1, TrxType DEF LocksMatch
  <2> QED
    BY <1>2, <1>3, <1>6, <2>1, <2>2 DEF Holds, TypeOK
<1>13. CallerHeld'
  BY <1>2, <1>8, <1>12 DEF CallerHeld, Holds
<1>14. SettledOnce'
  <2>1. \A k \in Holders : InProgress(k)' => outcome'[storage'[k].trx] = "pending"
    BY <1>2, <1>8, <1>12
  <2>2. \A k \in Holders : storage'[k].tag = "Finalized" =>
            outcome'[storage'[k].trx] # "pending"
    BY <1>2 DEF SettledOnce, TypeOK
  <2>3. ASSUME NEW u \in Trxs, outcome'[u] # "pending"
        PROVE  trx_count'[trx[u].caller] > trx[u].nonce
    <3>1. trx[u].caller \in Addresses /\ trx[u].nonce \in Nat
      BY TrxType
    <3>2. CASE u = t
      BY <1>3, <1>6, <3>1, <3>2
    <3>3. CASE u # t
      BY <1>2, <1>6, <2>3, <3>1, <3>3 DEF SettledOnce, TypeOK
    <3> QED
      BY <3>2, <3>3
  <2> QED
    BY <2>1, <2>2, <2>3 DEF SettledOnce
<1>15. TargetListed'
  BY <1>2, <1>8 DEF TargetListed
<1> QED
  BY <1>7, <1>9, <1>10, <1>11, <1>13, <1>14, <1>15

\* Creating and crediting accounts.
LEMMA CreditPreserves ==
    ASSUME IndInv,
           status' \in [Addresses -> Status],
           \A x \in Addresses : status[x] = "ether" => status'[x] = "ether",
           space' \in [Addresses -> Nat],
           balance' \in [Addresses -> Nat],
           \A x \in Addresses : status'[x] # "ether" => balance'[x] = balance[x],
           supply' \in Nat,
           UNCHANGED <<trx_count, code, rw_blocked, storage, outcome, charged>>
    PROVE  IndInv'
<1> USE DEF IndInv
<1>1. TypeOK'
  BY DEF TypeOK
<1>2. \A k \in Holders : InProgress(k)' <=> InProgress(k)
  BY DEF InProgress
<1>3. HeldExist'
  BY <1>2 DEF HeldExist, TypeOK, StorageRecord
<1>4. Pristine'
  BY DEF Pristine
<1>5. LocksMatch' /\ LocksExclusive'
  BY <1>2 DEF LocksMatch, LocksExclusive, Holds
<1>6. CallerHeld' /\ SettledOnce' /\ TargetListed'
  BY <1>2 DEF CallerHeld, SettledOnce, TargetListed, Holds
<1> QED
  BY <1>1, <1>3, <1>4, <1>5, <1>6

LEMMA TickPreserves ==
    ASSUME IndInv, Tick
    PROVE  IndInv'
<1> USE DEF IndInv, solana, ethereum
<1>1. ASSUME NEW k \in Holders
      PROVE  /\ storage'[k] \in StorageRecord
             /\ storage'[k].tag = storage[k].tag
             /\ storage'[k].trx = storage[k].trx
             /\ storage'[k].listed = storage[k].listed
             /\ storage'[k].existed = storage[k].existed
  <2>1. storage[k] \in StorageRecord
    BY DEF TypeOK
  <2>2. CASE InProgress(k) /\ storage[k].age < MaxAge
    <3>1. storage'[k] = [storage[k] EXCEPT !.age = @ + 1]
      BY <2>2 DEF Tick
    <3>2. storage[k].age + 1 \in 0..MaxAge
      BY <2>1, <2>2, BoundsAssumption DEF StorageRecord, MaxAge
    <3> QED
      BY <2>1, <3>1, <3>2 DEF StorageRecord
  <2>3. CASE ~(InProgress(k) /\ storage[k].age < MaxAge)
    BY <2>1, <2>3 DEF Tick
  <2> QED
    BY <2>2, <2>3
<1>2. storage' \in [Holders -> StorageRecord]
  BY <1>1 DEF Tick
<1>3. UNCHANGED <<status, space, trx_count, balance, code, rw_blocked, outcome, charged,
                  supply>>
  BY DEF Tick
<1>4. TypeOK'
  BY <1>2, <1>3 DEF TypeOK
<1>5. \A k \in Holders : InProgress(k)' <=> InProgress(k)
  BY <1>1 DEF InProgress
<1>6. HeldExist' /\ Pristine'
  BY <1>1, <1>3, <1>5 DEF HeldExist, Pristine
<1>7. LocksMatch' /\ LocksExclusive'
  BY <1>1, <1>3, <1>5 DEF LocksMatch, LocksExclusive, Holds
<1>8. CallerHeld' /\ SettledOnce' /\ TargetListed'
  BY <1>1, <1>3, <1>5 DEF CallerHeld, SettledOnce, TargetListed, Holds
<1> QED
  BY <1>4, <1>6, <1>7, <1>8

-----------------------------------------------------------------------------
(* The steps of the specification *)

\* Transaction t takes its turn in this step.
Settles(t, how) ==
    /\ outcome[t] = "pending"
    /\ trx_count[trx[t].caller] = trx[t].nonce
    /\ outcome' = [outcome EXCEPT ![t] = how]
    /\ trx_count'[trx[t].caller] = trx_count[trx[t].caller] + 1
    /\ \A u \in Trxs : trx[u].caller # trx[t].caller =>
           trx_count'[trx[u].caller] = trx_count[trx[u].caller]

LedgerStutter == UNCHANGED <<trx_count, outcome>>

LedgerMove ==
    LedgerStutter \/ \E t \in Trxs, how \in {"executed", "cancelled"} : Settles(t, how)

LEMMA ContinueStep ==
    ASSUME IndInv, NEW h \in Holders, NEW o \in Operators, NEW e \in Addresses,
           Continue(h, o, e)
    PROVE  IndInv' /\ LedgerMove
<1> DEFINE t == storage[h].trx
<1>1. TypeOK /\ Pristine
  BY DEF IndInv
<1>2. InProgress(h) /\ t \in Trxs
  BY DEF Continue, ContinueRun, ContinueRealloc, ContinueFinish, MayTake, IndInv, CallerHeld
<1>3. ASSUME NEW r \in {"running", "stop", "revert"}, ContinueRun(h, o, e, r)
      PROVE  IndInv' /\ LedgerStutter
  <2> DEFINE gas == ContinueGas(2)
  <2>1. gas \in Nat
    BY GasType
  <2>2. /\ status[e] = "ether" /\ CanPay(balance, t, gas)
        /\ balance' = GasPaid(balance, t, e, gas)
        /\ charged' = Charged(t, gas)
        /\ storage' = Resumed(h, o, gas, r)
        /\ UNCHANGED <<status, space, trx_count, code, rw_blocked, outcome, supply>>
    BY <1>3 DEF ContinueRun, solana
  <2> HIDE DEF gas
  <2>3. /\ balance' \in [Addresses -> Nat]
        /\ \A x \in Addresses : status[x] # "ether" => balance'[x] = balance[x]
        /\ charged' \in [Trxs -> Nat]
    BY <1>1, <1>2, <2>1, <2>2, GasPaidType, ChargedType DEF TypeOK
  <2>4. status' \in [Addresses -> Status] /\ space' \in [Addresses -> Nat]
    BY <1>1, <2>2 DEF TypeOK
  <2> QED
    BY <1>2, <2>1, <2>2, <2>3, <2>4, ResumePreserves DEF LedgerStutter
<1>4. ASSUME NEW r \in {"stop", "revert"}, NEW steps \in {0, 1},
             ContinueRealloc(h, o, e, r, steps)
      PROVE  IndInv' /\ LedgerStutter
  <2> DEFINE gas == ContinueGas(steps) + Expenses(t, r)
             evm == IF steps > 0 THEN r ELSE storage[h].evm
  <2>1. gas \in Nat
    BY <1>1, <1>2, GasType, SpaceType
  <2>2. /\ status[e] = "ether" /\ CanPay(balance, t, gas)
        /\ space' = Reallocated(t, r)
        /\ status' = Allocated(t, r)
        /\ balance' = GasPaid(balance, t, e, gas)
        /\ charged' = Charged(t, gas)
        /\ storage' = Resumed(h, o, gas, evm)
        /\ UNCHANGED <<trx_count, code, rw_blocked, outcome, supply>>
    BY <1>4 DEF ContinueRealloc
  <2>3. evm \in {"none", "running", "stop", "revert"}
    BY <1>1 DEF TypeOK, StorageRecord
  <2> HIDE DEF gas, evm
  <2>4. /\ balance' \in [Addresses -> Nat]
        /\ \A x \in Addresses : status[x] # "ether" => balance'[x] = balance[x]
        /\ charged' \in [Trxs -> Nat]
    BY <1>1, <1>2, <2>1, <2>2, GasPaidType, ChargedType DEF TypeOK
  <2>5. /\ status' \in [Addresses -> Status]
        /\ \A x \in Addresses : status'[x] = "ether" <=> status[x] = "ether"
        /\ space' \in [Addresses -> Nat]
    BY <1>1, <1>2, <2>2, StatusType, SpaceType
  <2> QED
    BY <1>2, <2>1, <2>2, <2>3, <2>4, <2>5, ResumePreserves DEF LedgerStutter
<1>5. ASSUME NEW r \in {"stop", "revert"}, NEW steps \in {0, 1},
             ContinueFinish(h, o, e, r, steps)
      PROVE  IndInv' /\ Settles(t, "executed")
  <2>1. IndInv'
    BY <1>5, ContinueFinishPreserves
  <2>2. outcome[t] = "pending" /\ trx_count[trx[t].caller] = trx[t].nonce
    BY <1>2 DEF IndInv, CallerHeld, SettledOnce
  <2>3. /\ trx_count' = Counted(t, r)
        /\ outcome' = [outcome EXCEPT ![t] = "executed"]
    BY <1>5 DEF ContinueFinish
  <2>4. /\ trx_count'[trx[t].caller] = trx_count[trx[t].caller] + 1
        /\ \A u \in Trxs : trx[u].caller # trx[t].caller =>
               trx_count'[trx[u].caller] = trx_count[trx[u].caller]
    BY <1>1, <1>2, <2>3, CountedType
  <2> QED
    BY <2>1, <2>2, <2>3, <2>4 DEF Settles
<1> QED
  BY <1>2, <1>3, <1>4, <1>5 DEF Continue, LedgerMove

LEMMA StorageStepStep ==
    ASSUME IndInv, NEW h \in Holders, StorageStep(h)
    PROVE  IndInv' /\ LedgerMove
<1> USE DEF ethereum
<1>1. ASSUME HolderCreate(h) \/ HolderDelete(h)
      PROVE  IndInv' /\ LedgerStutter
  <2>1. PICK new \in {EmptyStorage(h), [EmptyStorage(h) EXCEPT !.tag = "Holder"]} :
           storage' = [storage EXCEPT ![h] = new]
    BY <1>1 DEF HolderCreate, HolderDelete
  <2>2. new \in StorageRecord /\ new.tag \in {"Empty", "Holder"}
    BY EmptyStorageType DEF EmptyStorage, StorageRecord
  <2>3. /\ ~InProgress(h)
        /\ UNCHANGED <<solana, ethereum, rw_blocked, outcome, charged, supply>>
    BY <1>1 DEF HolderCreate, HolderDelete, InProgress
  <2> QED
    BY <2>1, <2>2, <2>3, HolderPreserves DEF LedgerStutter
<1>2. ASSUME NEW t \in Trxs, NEW p \in 1..trx[t].parts, HolderWrite(h, t, p)
      PROVE  IndInv' /\ LedgerStutter
  <2> DEFINE kept == IF storage[h].tag = "Holder" /\ storage[h].trx = t
                     THEN storage[h].written ELSE {}
             new == [EmptyStorage(h) EXCEPT !.tag = "Holder", !.trx = t,
                                            !.written = kept \cup {p}]
  <2>1. storage' = [storage EXCEPT ![h] = new]
    BY <1>2 DEF HolderWrite
  <2>2. kept \subseteq Nat /\ p \in Nat
    BY TrxType DEF IndInv, TypeOK, StorageRecord
  <2> HIDE DEF kept
  <2>3. new \in StorageRecord /\ new.tag = "Holder"
    BY <2>2, EmptyStorageType DEF EmptyStorage, StorageRecord
  <2>4. /\ ~InProgress(h)
        /\ UNCHANGED <<solana, ethereum, rw_blocked, outcome, charged, supply>>
    BY <1>2 DEF HolderWrite, InProgress
  <2> QED
    BY <2>1, <2>3, <2>4, HolderPreserves DEF LedgerStutter
<1>3. ASSUME NEW t \in Trxs, NEW keys \in SUBSET Addresses, NEW e \in Addresses,
             BeginFromAccount(h, t, keys, e) \/ BeginFromInstruction(h, t, keys, e)
      PROVE  IndInv' /\ LedgerStutter
  <2>1. ~InProgress(h)
    BY <1>3 DEF BeginFromAccount, BeginFromInstruction, HoldsTrx, InProgress
  <2>2. PICK gas \in Nat, limit \in Nat : Begin(h, t, keys, e, gas, limit)
    <3>1. /\ BeginGas \in Nat /\ BeginGas + WriteGas(t) \in Nat
          /\ trx[t].gas_limit \in Nat /\ GasAllowed(t) \in Nat
      BY GasType, TrxType, GasAllowedType
    <3> QED
      BY <1>3, <3>1 DEF BeginFromAccount, BeginFromInstruction
  <2>3. IndInv'
    BY <2>1, <2>2, BeginPreserves
  <2> QED
    BY <2>2, <2>3 DEF Begin, LedgerStutter
<1>4. ASSUME NEW o \in Operators, NEW e \in Addresses, Continue(h, o, e)
      PROVE  IndInv' /\ LedgerMove
  BY <1>4, ContinueStep
<1>5. ASSUME NEW o \in Operators, Cancel(h, o)
      PROVE  IndInv' /\ LedgerMove
  <2> DEFINE t == storage[h].trx
  <2>1. IndInv'
    BY <1>5, CancelPreserves
  <2>2. /\ t \in Trxs /\ trx[t].caller \in storage[h].existed
        /\ status[trx[t].caller] = "ether"
        /\ outcome[t] = "pending" /\ trx_count[trx[t].caller] = trx[t].nonce
    BY <1>5 DEF Cancel, MayTake, IndInv, CallerHeld, Holds, SettledOnce, HeldExist
  <2>3. \A u \in Trxs : trx[u].caller \in Addresses
    BY TrxType
  <2>4. /\ outcome' = [outcome EXCEPT ![t] = "cancelled"]
        /\ trx_count'[trx[t].caller] = trx_count[trx[t].caller] + 1
        /\ \A u \in Trxs : trx[u].caller # trx[t].caller =>
               trx_count'[trx[u].caller] = trx_count[trx[u].caller]
    BY <1>5, <2>2, <2>3 DEF Cancel, Existing
  <2>5. Settles(t, "cancelled")
    BY <2>2, <2>4 DEF Settles
  <2> QED
    BY <2>1, <2>2, <2>5 DEF LedgerMove
<1>6. ASSUME NEW keys \in SUBSET Addresses, BlockAdd(h, keys)
      PROVE  IndInv' /\ LedgerStutter
  BY <1>6, BlockAddPreserves DEF BlockAdd, LedgerStutter
<1> QED
  BY <1>1, <1>2, <1>3, <1>4, <1>5, <1>6 DEF StorageStep, LedgerMove

LEMMA LedgerStepStep ==
    ASSUME IndInv, LedgerStep
    PROVE  IndInv' /\ LedgerMove
<1>1. ASSUME NEW t \in Trxs, NEW keys \in SUBSET Addresses, NEW e \in Addresses,
             NEW r \in {"stop", "revert"}, NEW gas0 \in Nat,
             Execute(t, keys, e, r, gas0)
      PROVE  IndInv' /\ LedgerMove
  <2>1. IndInv'
    BY <1>1, ExecutePreserves
  <2>2. /\ trx_count[trx[t].caller] = trx[t].nonce
        /\ trx_count' = Counted(t, r)
        /\ outcome' = [outcome EXCEPT ![t] = "executed"]
    BY <1>1 DEF Execute, CanStart
  <2>3. outcome[t] = "pending"
    BY <2>2, TrxType DEF IndInv, SettledOnce
  <2>4. /\ trx_count'[trx[t].caller] = trx_count[trx[t].caller] + 1
        /\ \A u \in Trxs : trx[u].caller # trx[t].caller =>
               trx_count'[trx[u].caller] = trx_count[trx[u].caller]
    BY <2>2, CountedType DEF IndInv
  <2>5. Settles(t, "executed")
    BY <2>2, <2>3, <2>4 DEF Settles
  <2> QED
    BY <2>1, <2>5 DEF LedgerMove
<1>2. ASSUME NEW t \in Trxs, NEW keys \in SUBSET Addresses, NEW e \in Addresses,
             NEW r \in {"stop", "revert"},
             \/ ExecuteFromInstruction(t, keys, e, r)
             \/ \E h \in Holders : ExecuteFromAccount(h, t, keys, e, r)
      PROVE  IndInv' /\ LedgerMove
  <2>1. PICK gas0 \in Nat : Execute(t, keys, e, r, gas0)
    BY <1>2, GasType, BoundsAssumption DEF ExecuteFromInstruction, ExecuteFromAccount
  <2> QED
    BY <1>1, <2>1
<1>3. ASSUME NEW x \in Addresses, CreateAccount(x)
      PROVE  IndInv' /\ LedgerStutter
  BY <1>3, CreditPreserves, BoundsAssumption
  DEF CreateAccount, LedgerStutter, ethereum, IndInv, TypeOK, Status
<1>4. ASSUME NEW x \in Addresses, NEW amount \in Amounts, Deposit(x, amount)
      PROVE  IndInv' /\ LedgerStutter
  BY <1>4, CreditPreserves, BoundsAssumption
  DEF Deposit, LedgerStutter, IndInv, TypeOK, Status
<1> QED
  BY <1>2, <1>3, <1>4 DEF LedgerStep, LedgerMove

LEMMA NextStep ==
    ASSUME IndInv, [Next]_vars
    PROVE  IndInv' /\ LedgerMove
<1>1. CASE Next
  <2>1. ASSUME Tick PROVE IndInv' /\ LedgerStutter
    BY <2>1, TickPreserves DEF Tick, LedgerStutter, ethereum
  <2> QED
    BY <1>1, <2>1, StorageStepStep, LedgerStepStep DEF Next, LedgerMove
<1>2. CASE UNCHANGED vars
  BY <1>2 DEF vars, IndInv, TypeOK, HeldExist, TargetListed, Pristine, LocksMatch, LocksExclusive,
     CallerHeld, SettledOnce, Holds, InProgress, LedgerMove, LedgerStutter
<1> QED
  BY <1>1, <1>2

LEMMA InitIndInv == Init => IndInv
<1> SUFFICES ASSUME Init PROVE IndInv
  OBVIOUS
<1>1. TypeOK
  BY EmptyStorageType DEF Init, TypeOK, Status
<1>2. \A h \in Holders : storage[h].tag = "Empty"
  BY DEF Init, EmptyStorage
<1> QED
  BY <1>1, <1>2 DEF Init, IndInv, HeldExist, TargetListed, Pristine, LocksMatch, LocksExclusive,
     CallerHeld, SettledOnce, Holds, InProgress

(***************************************************************************)
(* Whatever the operators, holders and transactions are, the lock flags    *)
(* agree with the state accounts, callers keep their nonces while their    *)
(* transactions run and no transaction is settled twice.                   *)
(***************************************************************************)
THEOREM Invariance == Spec => []IndInv
<1>1. IndInv /\ [Next]_vars => IndInv'
  BY NextStep
<1> QED
  BY <1>1, InitIndInv, PTL DEF Spec

\* Every variable keeps its type; in particular no balance, nonce or gas
\* counter becomes negative.
THEOREM TypeCorrect == Spec => []TypeOK
  BY Invariance, PTL DEF IndInv

\* rw_blocked flags and blocked account lists agree.
THEOREM LocksCorrect == Spec => []LocksMatch
  BY Invariance, PTL DEF IndInv

\* No account is locked for two transactions.
THEOREM LocksMutex == Spec => []LocksExclusive
  BY Invariance, PTL DEF IndInv

\* A caller stays locked, at the nonce that was checked, while its
\* transaction is in progress.
THEOREM CallerStaysHeld == Spec => []CallerHeld
  BY Invariance, PTL DEF IndInv

\* A settled transaction has used up its nonce and is not in progress.
THEOREM SettledAtMostOnce == Spec => []SettledOnce
  BY Invariance, PTL DEF IndInv

-----------------------------------------------------------------------------
(* Refinement *)

LEMMA SettlesRefines ==
    ASSUME IndInv, NEW t \in Trxs, NEW how \in {"executed", "cancelled"},
           Settles(t, how)
    PROVE  Ledger!Next
<1>1. trx[t].caller \in Callers
  BY DEF Callers
<1>2. \A x \in Callers : \E u \in Trxs : x = trx[u].caller
  BY DEF Callers
<1>3. [x \in Callers |-> trx_count'[x]] =
        [[x \in Callers |-> trx_count[x]] EXCEPT ![trx[t].caller] = @ + 1]
  BY <1>1, <1>2 DEF Settles
<1>4. Ledger!Settle(t, how)
  BY <1>1, <1>3 DEF Ledger!Settle, Settles
<1> QED
  BY <1>4 DEF Ledger!Next

(***************************************************************************)
(* The program implements TrxLedger: every instruction settles exactly one *)
(* transaction whose turn it is, or leaves the abstract ledger alone.      *)
(***************************************************************************)
THEOREM Refinement == Spec => LedgerSpec
<1>1. Init => Ledger!Init
  <2> SUFFICES ASSUME Init PROVE Ledger!Init
    OBVIOUS
  <2>1. \A x \in Callers : x \in Addresses
    BY TrxType DEF Callers
  <2> QED
    BY <2>1 DEF Init, Ledger!Init
<1>2. IndInv /\ [Next]_vars => [Ledger!Next]_(Ledger!vars)
  <2> SUFFICES ASSUME IndInv, [Next]_vars
               PROVE  [Ledger!Next]_(Ledger!vars)
    OBVIOUS
  <2>1. CASE LedgerStutter
    BY <2>1 DEF LedgerStutter, Ledger!vars
  <2>2. ASSUME NEW t \in Trxs, NEW how \in {"executed", "cancelled"}, Settles(t, how)
        PROVE  Ledger!Next
    BY <2>2, SettlesRefines
  <2> QED
    BY <2>1, <2>2, NextStep DEF LedgerMove
<1> QED
  BY <1>1, <1>2, Invariance, PTL DEF Spec, LedgerSpec, Ledger!Spec

-----------------------------------------------------------------------------
(* Gas *)

LEMMA Times ==
    \A m, n, p \in Nat :
        /\ m * p \in Nat
        /\ (m + n) * p = m * p + n * p
        /\ m <= n => m * p <= n * p
  OBVIOUS

\* No state account runs t.
NotRun(t) == \A k \in Holders : InProgress(k) => storage[k].trx # t

(***************************************************************************)
(* What is charged for a transaction in progress is what its only state    *)
(* account counts, within that account's limit; for one that is not begun  *)
(* nothing is charged.                                                     *)
(***************************************************************************)
GasCounted ==
    \A k \in Holders : InProgress(k) =>
        LET t == storage[k].trx IN
        /\ charged[t] = storage[k].gas_used * trx[t].gas_price
        /\ storage[k].gas_used <= storage[k].gas_limit
        /\ storage[k].gas_limit <= GasAllowed(t)

NothingCharged ==
    \A t \in Trxs : outcome[t] = "pending" /\ NotRun(t) => charged[t] = 0

GasInv == GasCounted /\ NothingCharged /\ GasBounded

\* Two state accounts do not run the same transaction.
LEMMA RunOnce ==
    ASSUME IndInv, NEW h \in Holders, NEW k \in Holders,
           InProgress(h), InProgress(k), storage[h].trx = storage[k].trx
    PROVE  h = k
<1> DEFINE t == storage[h].trx
<1>1. t \in Trxs /\ Holds(h, trx[t].caller) /\ Holds(k, trx[t].caller)
  BY DEF IndInv, CallerHeld
<1> QED
  BY <1>1, TrxType DEF IndInv, LocksExclusive

\* A transaction that starts has not been begun, here or elsewhere, and has
\* not been settled.
LEMMA StartsUncharged ==
    ASSUME IndInv, GasInv, NEW t \in Trxs, NEW keys \in SUBSET Addresses,
           NoneBlocked(keys), CanStart(t, keys), status[trx[t].caller] = "ether"
    PROVE  outcome[t] = "pending" /\ NotRun(t) /\ charged[t] = 0
<1>1. /\ trx[t].caller \in Existing(keys) /\ trx[t].caller \in Addresses
      /\ trx_count[trx[t].caller] = trx[t].nonce /\ trx[t].nonce \in Nat
  BY TrxType DEF CanStart, Existing
<1>2. outcome[t] = "pending"
  BY <1>1 DEF IndInv, SettledOnce
<1>3. trx[t].caller \notin rw_blocked
  BY <1>1 DEF NoneBlocked
<1>4. NotRun(t)
  <2> SUFFICES ASSUME NEW k \in Holders, InProgress(k), storage[k].trx = t
               PROVE  FALSE
    BY DEF NotRun
  <2>1. Holds(k, trx[t].caller)
    BY DEF IndInv, CallerHeld
  <2> QED
    BY <1>1, <1>3, <2>1 DEF IndInv, LocksMatch
<1> QED
  BY <1>2, <1>4 DEF GasInv, NothingCharged

LEMMA GasTypes ==
    ASSUME IndInv, NEW k \in Holders
    PROVE  /\ storage[k].gas_used \in Nat /\ storage[k].gas_limit \in Nat
           /\ storage[k] \in StorageRecord
           /\ InProgress(k) => storage[k].trx \in Trxs
  BY DEF IndInv, TypeOK, StorageRecord, CallerHeld

\* Steps that charge nothing and, at most, settle a transaction.
LEMMA UnchargedStep ==
    ASSUME GasInv, charged' = charged,
           \A k \in Holders : InProgress(k)' =>
               /\ InProgress(k)
               /\ storage'[k].trx = storage[k].trx
               /\ storage'[k].gas_used = storage[k].gas_used
               /\ storage'[k].gas_limit = storage[k].gas_limit,
           \A t \in Trxs : outcome'[t] = "pending" =>
               /\ outcome[t] = "pending"
               /\ \A k \in Holders : InProgress(k) /\ storage[k].trx = t =>
                     InProgress(k)' /\ storage'[k].trx = t
    PROVE  GasInv'
<1>1. GasCounted'
  BY DEF GasInv, GasCounted
<1>2. NothingCharged'
  BY DEF GasInv, NothingCharged, NotRun
<1>3. GasBounded'
  BY DEF GasInv, GasBounded
<1> QED
  BY <1>1, <1>2, <1>3 DEF GasInv

LEMMA BeginGasStep ==
    ASSUME IndInv, GasInv, NEW h \in Holders, ~InProgress(h), NEW t \in Trxs,
           NEW keys \in SUBSET Addresses, NEW e \in Addresses,
           NEW gas \in Nat, NEW limit \in Nat, limit <= GasAllowed(t),
           Begin(h, t, keys, e, gas, limit)
    PROVE  GasInv'
<1> DEFINE p == trx[t].gas_price
<1>1. outcome[t] = "pending" /\ NotRun(t) /\ charged[t] = 0
  BY StartsUncharged DEF Begin, CanPay
<1>2. /\ gas <= limit
      /\ storage' = [storage EXCEPT ![h] = NewState(h, t, keys, gas, limit)]
      /\ charged' = Charged(t, gas)
      /\ outcome' = outcome
  BY DEF Begin
<1>3. /\ storage'[h].tag = "State" /\ storage'[h].trx = t
      /\ storage'[h].gas_used = gas /\ storage'[h].gas_limit = limit
      /\ \A k \in Holders : k # h => storage'[k] = storage[k]
  BY <1>2 DEF IndInv, TypeOK, NewState
<1>4. p \in Nat /\ GasAllowed(t) \in Nat
  BY TrxType, GasAllowedType
<1>5. /\ charged'[t] = gas * p
      /\ \A u \in Trxs : u # t => charged'[u] = charged[u]
  BY <1>1, <1>2, <1>4, Times DEF Charged, IndInv, TypeOK
<1>6. charged'[t] <= GasAllowed(t) * p
  BY <1>2, <1>4, <1>5, Times
<1>7. GasCounted'
  <2> SUFFICES ASSUME NEW k \in Holders, InProgress(k)', NEW u, u = storage'[k].trx
               PROVE  /\ charged'[u] = storage'[k].gas_used * trx[u].gas_price
                      /\ storage'[k].gas_used <= storage'[k].gas_limit
                      /\ storage'[k].gas_limit <= GasAllowed(u)
    BY DEF GasCounted
  <2>1. CASE k = h
    BY <1>2, <1>3, <1>5, <2>1
  <2>2. CASE k # h
    <3>1. InProgress(k) /\ storage'[k] = storage[k] /\ u \in Trxs /\ u # t
      BY <1>1, <1>3, <2>2, GasTypes DEF InProgress, NotRun
    <3> QED
      BY <1>5, <3>1 DEF GasInv, GasCounted
  <2> QED
    BY <2>1, <2>2
<1>8. NothingCharged'
  <2> SUFFICES ASSUME NEW u \in Trxs, outcome'[u] = "pending", NotRun(u)'
               PROVE  charged'[u] = 0
    BY DEF NothingCharged
  <2>1. u # t
    BY <1>3 DEF NotRun, InProgress
  <2>2. NotRun(u)
    BY <1>3 DEF NotRun, InProgress
  <2> QED
    BY <1>2, <1>5, <2>1, <2>2 DEF GasInv, NothingCharged
<1>9. GasBounded'
  BY <1>5, <1>6 DEF GasInv, GasBounded
<1> QED
  BY <1>7, <1>8, <1>9 DEF GasInv

\* An iteration of h that is charged: it ends the transaction or does not.
LEMMA ContinueGasStep ==
    ASSUME IndInv, GasInv, NEW h \in Holders, InProgress(h),
           NEW t \in Trxs, t = storage[h].trx, NEW gas \in Nat,
           WithinGas(h, gas), charged' = Charged(t, gas),
           \A k \in Holders : k # h => storage'[k] = storage[k],
           \/ /\ storage'[h].tag = "State" /\ storage'[h].trx = t
              /\ storage'[h].gas_used = storage[h].gas_used + gas
              /\ storage'[h].gas_limit = storage[h].gas_limit
              /\ outcome' = outcome
           \/ /\ storage'[h].tag # "State"
              /\ outcome' = [outcome EXCEPT ![t] = "executed"]
    PROVE  GasInv'
<1> DEFINE p == trx[t].gas_price
           used == storage[h].gas_used
<1>1. /\ p \in Nat /\ GasAllowed(t) \in Nat
      /\ used \in Nat /\ storage[h].gas_limit \in Nat
  BY TrxType, GasAllowedType, GasTypes
<1>2. /\ charged[t] = used * p
      /\ used + gas <= storage[h].gas_limit
      /\ storage[h].gas_limit <= GasAllowed(t)
  BY DEF GasInv, GasCounted, WithinGas
<1>3. /\ charged'[t] = (used + gas) * p
      /\ \A u \in Trxs : u # t => charged'[u] = charged[u]
  BY <1>1, <1>2, Times DEF Charged, IndInv, TypeOK
<1>4. charged'[t] <= GasAllowed(t) * p
  BY <1>1, <1>2, <1>3, Times
<1>5. ASSUME NEW k \in Holders, k # h, InProgress(k)
      PROVE  storage[k].trx # t
  BY <1>5, RunOnce
<1>6. GasCounted'
  <2> SUFFICES ASSUME NEW k \in Holders, InProgress(k)', NEW u, u = storage'[k].trx
               PROVE  /\ charged'[u] = storage'[k].gas_used * trx[u].gas_price
                      /\ storage'[k].gas_used <= storage'[k].gas_limit
                      /\ storage'[k].gas_limit <= GasAllowed(u)
    BY DEF GasCounted
  <2>1. CASE k = h
    <3>1. /\ u = t
          /\ storage'[h].gas_used = used + gas
          /\ storage'[h].gas_limit = storage[h].gas_limit
      BY <2>1 DEF InProgress
    <3> QED
      BY <1>2, <1>3, <2>1, <3>1
  <2>2. CASE k # h
    <3>1. InProgress(k) /\ storage'[k] = storage[k] /\ u \in Trxs /\ u # t
      BY <1>5, <2>2, GasTypes DEF InProgress
    <3> QED
      BY <1>3, <3>1 DEF GasInv, GasCounted
  <2> QED
    BY <2>1, <2>2
<1>7. NothingCharged'
  <2> SUFFICES ASSUME NEW u \in Trxs, outcome'[u] = "pending", NotRun(u)'
               PROVE  charged'[u] = 0
    BY DEF NothingCharged
  <2>1. u # t
    <3>1. CASE storage'[h].tag = "State" /\ storage'[h].trx = t
      BY <3>1 DEF NotRun, InProgress
    <3>2. CASE outcome' = [outcome EXCEPT ![t] = "executed"]
      BY <3>2 DEF IndInv, TypeOK
    <3> QED
      BY <3>1, <3>2
  <2>2. NotRun(u)
    <3> SUFFICES ASSUME NEW k \in Holders, InProgress(k) PROVE storage[k].trx # u
      BY DEF NotRun
    <3>1. CASE k = h
      BY <2>1, <3>1
    <3>2. CASE k # h
      BY <3>2 DEF NotRun, InProgress
    <3> QED
      BY <3>1, <3>2
  <2>3. outcome[u] = "pending"
    BY <2>1 DEF IndInv, TypeOK
  <2> QED
    BY <1>3, <2>1, <2>2, <2>3 DEF GasInv, NothingCharged
<1>8. GasBounded'
  BY <1>3, <1>4 DEF GasInv, GasBounded
<1> QED
  BY <1>6, <1>7, <1>8 DEF GasInv

LEMMA ExecuteGasStep ==
    ASSUME IndInv, GasInv, NEW t \in Trxs, NEW keys \in SUBSET Addresses,
           NEW e \in Addresses, NEW r \in {"stop", "revert"}, NEW gas0 \in Nat,
           Execute(t, keys, e, r, gas0)
    PROVE  GasInv'
<1> DEFINE p == trx[t].gas_price
           gas == gas0 + PAYMENT_TO_TREASURE + Expenses(t, r)
<1>1. gas \in Nat
  BY BoundsAssumption, SpaceType DEF IndInv
<1>2. /\ gas <= trx[t].gas_limit
      /\ charged' = Charged(t, gas)
      /\ storage' = storage
      /\ outcome' = [outcome EXCEPT ![t] = "executed"]
  BY DEF Execute
<1>3. outcome[t] = "pending" /\ NotRun(t) /\ charged[t] = 0
  BY StartsUncharged DEF Execute, CanPay
<1> HIDE DEF gas
<1>4. /\ p \in Nat /\ GasAllowed(t) \in Nat /\ trx[t].gas_limit \in Nat
      /\ trx[t].gas_limit <= GasAllowed(t)
  BY TrxType, GasAllowedType
<1>5. /\ charged'[t] = gas * p
      /\ \A u \in Trxs : u # t => charged'[u] = charged[u]
  BY <1>1, <1>2, <1>3, <1>4, Times DEF Charged, IndInv, TypeOK
<1>6. charged'[t] <= GasAllowed(t) * p
  BY <1>1, <1>2, <1>4, <1>5, Times
<1>7. GasCounted'
  <2> SUFFICES ASSUME NEW k \in Holders, InProgress(k), NEW u, u = storage[k].trx
               PROVE  u \in Trxs /\ u # t
    BY <1>2, <1>5 DEF GasInv, GasCounted, InProgress
  <2> QED
    BY <1>3, GasTypes DEF NotRun
<1>8. NothingCharged'
  BY <1>2, <1>5 DEF GasInv, NothingCharged, NotRun, InProgress, IndInv, TypeOK
<1>9. GasBounded'
  BY <1>5, <1>6 DEF GasInv, GasBounded
<1> QED
  BY <1>7, <1>8, <1>9 DEF GasInv

LEMMA StorageStepGas ==
    ASSUME IndInv, GasInv, NEW h \in Holders, StorageStep(h)
    PROVE  GasInv'
<1>1. \A k \in Holders : storage[k] \in StorageRecord
  BY GasTypes
<1>2. ASSUME NEW new, storage' = [storage EXCEPT ![h] = new], ~InProgress(h),
             new.tag # "State", outcome' = outcome, charged' = charged
      PROVE  GasInv'
  <2>1. /\ storage'[h] = new
        /\ \A k \in Holders : k # h => storage'[k] = storage[k]
    BY <1>2 DEF IndInv, TypeOK
  <2>2. \A k \in Holders : InProgress(k)' <=> InProgress(k)
    BY <1>2, <2>1 DEF InProgress
  <2> QED
    BY <1>2, <2>1, <2>2, UnchargedStep
<1>3. ASSUME \/ HolderCreate(h) \/ HolderDelete(h)
             \/ \E t \in Trxs : \E p \in 1..trx[t].parts : HolderWrite(h, t, p)
      PROVE  GasInv'
  <2>1. ~InProgress(h) /\ outcome' = outcome /\ charged' = charged
    BY <1>3 DEF HolderCreate, HolderDelete, HolderWrite, InProgress
  <2>2. CASE HolderCreate(h)
    <3>1. [EmptyStorage(h) EXCEPT !.tag = "Holder"].tag # "State"
      BY DEF EmptyStorage
    <3> QED
      BY <1>2, <2>1, <2>2, <3>1 DEF HolderCreate
  <2>3. CASE HolderDelete(h)
    <3>1. EmptyStorage(h).tag # "State"
      BY DEF EmptyStorage
    <3> QED
      BY <1>2, <2>1, <2>3, <3>1 DEF HolderDelete
  <2>4. ASSUME NEW t \in Trxs, NEW p \in 1..trx[t].parts, HolderWrite(h, t, p)
        PROVE  GasInv'
    <3> DEFINE kept == IF storage[h].tag = "Holder" /\ storage[h].trx = t
                       THEN storage[h].written ELSE {}
               new == [EmptyStorage(h) EXCEPT !.tag = "Holder", !.trx = t,
                                              !.written = kept \cup {p}]
    <3>1. new.tag # "State"
      BY DEF EmptyStorage
    <3>2. storage' = [storage EXCEPT ![h] = new]
      BY <2>4 DEF HolderWrite
    <3> HIDE DEF new
    <3> QED
      BY <1>2, <2>1, <3>1, <3>2
  <2> QED
    BY <1>3, <2>2, <2>3, <2>4
<1>4. ASSUME NEW t \in Trxs, NEW keys \in SUBSET Addresses, NEW e \in Addresses,
             BeginFromAccount(h, t, keys, e) \/ BeginFromInstruction(h, t, keys, e)
      PROVE  GasInv'
  <2>1. ~InProgress(h)
    BY <1>4 DEF BeginFromAccount, BeginFromInstruction, HoldsTrx, InProgress
  <2>2. /\ BeginGas \in Nat /\ BeginGas + WriteGas(t) \in Nat
        /\ trx[t].gas_limit \in Nat /\ GasAllowed(t) \in Nat
        /\ trx[t].gas_limit <= GasAllowed(t)
    BY GasType, TrxType, GasAllowedType
  <2>3. PICK gas \in Nat, limit \in Nat :
           Begin(h, t, keys, e, gas, limit) /\ limit <= GasAllowed(t)
    BY <1>4, <2>2 DEF BeginFromAccount, BeginFromInstruction
  <2> QED
    BY <2>1, <2>3, BeginGasStep
<1>5. ASSUME NEW o \in Operators, NEW e \in Addresses, Continue(h, o, e)
      PROVE  GasInv'
  <2> DEFINE t == storage[h].trx
  <2>1. InProgress(h) /\ t \in Trxs /\ TypeOK
    BY <1>5, GasTypes
    DEF Continue, ContinueRun, ContinueRealloc, ContinueFinish, MayTake, IndInv
  <2>2. ASSUME NEW gas \in Nat, NEW evm, WithinGas(h, gas), charged' = Charged(t, gas),
               storage' = Resumed(h, o, gas, evm), outcome' = outcome
        PROVE  GasInv'
    <3>1. /\ storage'[h].tag = storage[h].tag /\ storage'[h].trx = t
          /\ storage'[h].gas_used = storage[h].gas_used + gas
          /\ storage'[h].gas_limit = storage[h].gas_limit
          /\ \A k \in Holders : k # h => storage'[k] = storage[k]
      BY <1>1, <2>1, <2>2 DEF Resumed, StorageRecord, TypeOK
    <3> QED
      BY <2>1, <2>2, <3>1, ContinueGasStep DEF InProgress
  <2>3. ASSUME NEW r \in {"running", "stop", "revert"}, ContinueRun(h, o, e, r)
        PROVE  GasInv'
    <3>1. ContinueGas(2) \in Nat
      BY GasType
    <3> QED
      BY <2>2, <2>3, <3>1 DEF ContinueRun
  <2>4. ASSUME NEW r \in {"stop", "revert"}, NEW steps \in {0, 1},
               ContinueRealloc(h, o, e, r, steps)
        PROVE  GasInv'
    <3>1. ContinueGas(steps) + Expenses(t, r) \in Nat
      BY <2>1, GasType, SpaceType
    <3> QED
      BY <2>2, <2>4, <3>1 DEF ContinueRealloc
  <2>5. ASSUME NEW r \in {"stop", "revert"}, NEW steps \in {0, 1},
               ContinueFinish(h, o, e, r, steps)
        PROVE  GasInv'
    <3> DEFINE gas == ContinueGas(steps) + Expenses(t, r)
    <3>1. gas \in Nat
      BY <2>1, GasType, SpaceType
    <3>2. /\ WithinGas(h, gas) /\ charged' = Charged(t, gas)
          /\ outcome' = [outcome EXCEPT ![t] = "executed"]
          /\ storage' = [storage EXCEPT ![h] =
                 [EmptyStorage(h) EXCEPT !.tag = "Finalized", !.trx = t]]
      BY <2>5 DEF ContinueFinish
    <3>3. /\ storage'[h].tag # "State"
          /\ \A k \in Holders : k # h => storage'[k] = storage[k]
      BY <2>1, <3>2 DEF EmptyStorage, TypeOK
    <3> HIDE DEF gas
    <3> QED
      BY <2>1, <3>1, <3>2, <3>3, ContinueGasStep
  <2> QED
    BY <1>5, <2>3, <2>4, <2>5 DEF Continue
<1>6. ASSUME NEW o \in Operators, Cancel(h, o)
      PROVE  GasInv'
  <2> DEFINE t == storage[h].trx
  <2>1. /\ outcome' = [outcome EXCEPT ![t] = "cancelled"] /\ charged' = charged
        /\ storage' = [storage EXCEPT ![h] =
               [EmptyStorage(h) EXCEPT !.tag = "Finalized", !.trx = t]]
        /\ InProgress(h)
    BY <1>6 DEF Cancel, MayTake
  <2>2. /\ storage'[h].tag # "State"
        /\ \A k \in Holders : k # h => storage'[k] = storage[k]
    BY <2>1 DEF EmptyStorage, IndInv, TypeOK
  <2>3. \A k \in Holders : InProgress(k)' <=> InProgress(k) /\ k # h
    BY <2>2 DEF InProgress
  <2>4. \A u \in Trxs : outcome'[u] = "pending" => outcome[u] = "pending" /\ u # t
    BY <2>1 DEF IndInv, TypeOK
  <2> QED
    BY <2>1, <2>2, <2>3, <2>4, UnchargedStep
<1>7. ASSUME NEW keys \in SUBSET Addresses, BlockAdd(h, keys)
      PROVE  GasInv'
  <2>1. /\ outcome' = outcome /\ charged' = charged
        /\ \A k \in Holders : k # h => storage'[k] = storage[k]
    BY <1>7 DEF BlockAdd, IndInv, TypeOK
  <2>2. /\ storage'[h].tag = storage[h].tag /\ storage'[h].trx = storage[h].trx
        /\ storage'[h].gas_used = storage[h].gas_used
        /\ storage'[h].gas_limit = storage[h].gas_limit
    BY <1>1, <1>7 DEF BlockAdd, StorageRecord, IndInv, TypeOK
  <2> QED
    BY <2>1, <2>2, UnchargedStep DEF InProgress
<1> QED
  BY <1>3, <1>4, <1>5, <1>6, <1>7 DEF StorageStep

LEMMA GasStep ==
    ASSUME IndInv, GasInv, [Next]_vars
    PROVE  GasInv'
<1>1. ASSUME UNCHANGED <<storage, outcome, charged>>
      PROVE  GasInv'
  BY <1>1, UnchargedStep DEF InProgress
<1>2. ASSUME LedgerStep
      PROVE  GasInv'
  <2>1. ASSUME NEW t \in Trxs, NEW keys \in SUBSET Addresses, NEW e \in Addresses,
               NEW r \in {"stop", "revert"},
               \/ ExecuteFromInstruction(t, keys, e, r)
               \/ \E h \in Holders : ExecuteFromAccount(h, t, keys, e, r)
        PROVE  GasInv'
    <3>1. PICK gas0 \in Nat : Execute(t, keys, e, r, gas0)
      BY <2>1, GasType, BoundsAssumption DEF ExecuteFromInstruction, ExecuteFromAccount
    <3> QED
      BY <3>1, ExecuteGasStep
  <2>2. ASSUME \/ \E x \in Addresses : CreateAccount(x)
               \/ \E x \in Addresses, amount \in Amounts : Deposit(x, amount)
        PROVE  GasInv'
    BY <1>1, <2>2 DEF CreateAccount, Deposit
  <2> QED
    BY <1>2, <2>1, <2>2 DEF LedgerStep
<1>3. ASSUME Tick
      PROVE  GasInv'
  <2>1. \A k \in Holders :
           /\ storage'[k].tag = storage[k].tag /\ storage'[k].trx = storage[k].trx
           /\ storage'[k].gas_used = storage[k].gas_used
           /\ storage'[k].gas_limit = storage[k].gas_limit
    BY <1>3, GasTypes DEF Tick, StorageRecord
  <2>2. outcome' = outcome /\ charged' = charged
    BY <1>3 DEF Tick
  <2> QED
    BY <2>1, <2>2, UnchargedStep DEF InProgress
<1> QED
  BY <1>1, <1>2, <1>3, StorageStepGas DEF Next, vars

(***************************************************************************)
(* Whatever finalize takes for the gas of a transaction, in iterations of  *)
(* any operators, the last one with its rent, or in one instruction, and   *)
(* however often the transaction is submitted, is all together within the  *)
(* limit of the transaction at its price.                                  *)
(***************************************************************************)
THEOREM GasWithinLimit == Spec => []GasBounded
<1>1. Init => GasInv
  <2> SUFFICES ASSUME Init PROVE GasInv
    OBVIOUS
  <2>1. \A t \in Trxs : charged[t] = 0 /\ 0 <= GasAllowed(t) * trx[t].gas_price
    BY TrxType, GasAllowedType, Times DEF Init
  <2>2. \A k \in Holders : ~InProgress(k)
    BY DEF Init, InProgress, EmptyStorage
  <2> QED
    BY <2>1, <2>2 DEF GasInv, GasCounted, NothingCharged, GasBounded
<1>2. GasInv => GasBounded
  BY DEF GasInv
<1> QED
  BY <1>1, <1>2, GasStep, Invariance, PTL DEF Spec

-----------------------------------------------------------------------------
(* The supply *)

Transfer(old, new, a, b, n) ==
    /\ new[a] = old[a] - n
    /\ new[b] = old[b] + n
    /\ \A x \in Addresses \ {a, b} : new[x] = old[x]

\* Moving n from a to b leaves the sum of all balances as it is.
LEMMA TransferTotal ==
    ASSUME NEW bal \in [Addresses -> Nat], NEW a \in Addresses,
           NEW b \in Addresses, a # b, NEW n \in Nat,
           NEW given, Transfer(bal, given, a, b, n)
    PROVE  Total(given, Addresses) = Total(bal, Addresses)
<1> DEFINE taken == [bal EXCEPT ![a] = @ - n]
<1>1. IsFiniteSet(Addresses) /\ (-n) \in Int
  BY ConstantsAssumption
<1>2. /\ \A x \in Addresses : bal[x] \in Int /\ taken[x] \in Int
      /\ taken[a] = bal[a] + (-n)
      /\ \A x \in Addresses : x # a => taken[x] = bal[x]
      /\ given[b] = taken[b] + n
      /\ \A x \in Addresses : x # b => given[x] = taken[x]
  BY DEF Transfer
<1> HIDE DEF taken
<1>3. Total(taken, Addresses) = Total(bal, Addresses) + (-n)
  BY <1>1, <1>2, TotalUpdate
<1>4. Total(given, Addresses) = Total(taken, Addresses) + n
  BY <1>1, <1>2, TotalUpdate
<1>5. Total(bal, Addresses) \in Int
  BY <1>1, <1>2, TotalType
<1> QED BY <1>3, <1>4, <1>5

LEMMA GasPaidTotal ==
    ASSUME NEW bal \in [Addresses -> Nat], NEW t \in Trxs,
           NEW e \in Addresses, NEW gas \in Nat
    PROVE  Total(GasPaid(bal, t, e, gas), Addresses) = Total(bal, Addresses)
<1> DEFINE cost == gas * trx[t].gas_price
           c == trx[t].caller
<1>1. cost \in Nat /\ c \in Addresses
  BY TrxType
<1>2. CASE e = c
  BY <1>2 DEF GasPaid
<1>3. CASE e # c
  <2>1. Transfer(bal, GasPaid(bal, t, e, gas), c, e, cost)
    <3>1. GasPaid(bal, t, e, gas) = [bal EXCEPT ![c] = @ - cost, ![e] = @ + cost]
      BY <1>3 DEF GasPaid
    <3> HIDE DEF cost, c
    <3> QED BY <1>1, <1>3, <3>1 DEF Transfer
  <2> HIDE DEF cost, c
  <2> QED BY <1>1, <1>3, <2>1, TransferTotal
<1> QED BY <1>2, <1>3

LEMMA MovedTotal ==
    ASSUME TypeOK, NEW t \in Trxs, NEW r
    PROVE  Total(Moved(t, r), Addresses) = Total(balance, Addresses)
<1>1. CASE Transfers(t, r)
  <2> DEFINE from == trx[t].caller
             to == trx[t].target
             value == trx[t].value
  <2>1. from \in Addresses /\ to \in Addresses /\ from # to /\ value \in Nat
    BY <1>1, TrxType DEF Transfers
  <2>2. balance \in [Addresses -> Nat]
    BY DEF TypeOK
  <2>3. Transfer(balance, Moved(t, r), from, to, value)
    <3>1. Moved(t, r) = [balance EXCEPT ![from] = @ - value, ![to] = @ + value]
      BY <1>1 DEF Moved
    <3> HIDE DEF from, to, value
    <3> QED BY <2>1, <2>2, <3>1 DEF Transfer
  <2> HIDE DEF from, to, value
  <2> QED BY <2>1, <2>2, <2>3, TransferTotal
<1>2. CASE ~Transfers(t, r)
  BY <1>2 DEF Moved
<1> QED BY <1>1, <1>2

\* What a step does to the balances as a whole.
SupplyMove ==
    Total(balance', Addresses) - supply' = Total(balance, Addresses) - supply

LEMMA AppliedTotal ==
    ASSUME TypeOK, Pristine, NEW t \in Trxs, NEW r, NEW e \in Addresses,
           NEW gas \in Nat, CanApply(t, r), CanPay(Moved(t, r), t, gas),
           balance' = GasPaid(Moved(t, r), t, e, gas), UNCHANGED supply
    PROVE  SupplyMove
<1>1. status[trx[t].caller] = "ether"
  BY DEF CanPay
<1>2. Moved(t, r) \in [Addresses -> Nat]
  BY <1>1, MovedType
<1>3. Total(balance', Addresses) = Total(balance, Addresses)
  BY <1>2, MovedTotal, GasPaidTotal
<1> QED BY <1>3 DEF SupplyMove

LEMMA StorageStepSupply ==
    ASSUME IndInv, NEW h \in Holders, StorageStep(h)
    PROVE  SupplyMove
<1> DEFINE t == storage[h].trx
<1>1. TypeOK /\ Pristine
  BY DEF IndInv
<1>2. ASSUME UNCHANGED <<balance, supply>> PROVE SupplyMove
  BY <1>2 DEF SupplyMove
<1>3. ASSUME NEW u \in Trxs, NEW e \in Addresses, NEW gas \in Nat,
             balance' = GasPaid(balance, u, e, gas), UNCHANGED supply
      PROVE  SupplyMove
  BY <1>1, <1>3, GasPaidTotal DEF SupplyMove, TypeOK
<1>4. ASSUME NEW u \in Trxs, NEW keys \in SUBSET Addresses, NEW e \in Addresses,
             BeginFromAccount(h, u, keys, e) \/ BeginFromInstruction(h, u, keys, e)
      PROVE  SupplyMove
  <2>1. BeginGas \in Nat /\ BeginGas + WriteGas(u) \in Nat
    BY GasType
  <2>2. PICK gas \in Nat : balance' = GasPaid(balance, u, e, gas) /\ UNCHANGED supply
    BY <1>4, <2>1 DEF BeginFromAccount, BeginFromInstruction, Begin
  <2> QED BY <1>3, <2>2
<1>5. ASSUME NEW o \in Operators, NEW e \in Addresses, Continue(h, o, e)
      PROVE  SupplyMove
  <2>1. t \in Trxs
    BY <1>5 DEF Continue, ContinueRun, ContinueRealloc, ContinueFinish, MayTake,
       IndInv, CallerHeld
  <2>2. ASSUME NEW r, ContinueRun(h, o, e, r) PROVE SupplyMove
    BY <1>3, <2>1, <2>2, GasType DEF ContinueRun
  <2>3. ASSUME NEW r, NEW steps \in {0, 1}, ContinueRealloc(h, o, e, r, steps)
        PROVE  SupplyMove
    <3>1. ContinueGas(steps) + Expenses(t, r) \in Nat
      BY <1>1, <2>1, GasType, SpaceType
    <3> QED BY <1>3, <2>1, <2>3, <3>1 DEF ContinueRealloc
  <2>4. ASSUME NEW r, NEW steps \in {0, 1}, ContinueFinish(h, o, e, r, steps)
        PROVE  SupplyMove
    <3>1. ContinueGas(steps) + Expenses(t, r) \in Nat
      BY <1>1, <2>1, GasType, SpaceType
    <3> QED BY <1>1, <2>1, <2>4, <3>1, AppliedTotal DEF ContinueFinish
  <2> QED BY <1>5, <2>2, <2>3, <2>4 DEF Continue
<1> QED
  BY <1>2, <1>4, <1>5 DEF StorageStep, HolderCreate, HolderDelete, HolderWrite,
     Cancel, BlockAdd, ethereum

LEMMA LedgerStepSupply ==
    ASSUME IndInv, LedgerStep
    PROVE  SupplyMove
<1>1. TypeOK /\ Pristine
  BY DEF IndInv
<1>2. ASSUME NEW t \in Trxs, NEW keys, NEW e \in Addresses, NEW r,
             NEW gas0 \in Nat, Execute(t, keys, e, r, gas0)
      PROVE  SupplyMove
  <2>1. gas0 + PAYMENT_TO_TREASURE + Expenses(t, r) \in Nat
    BY <1>1, BoundsAssumption, SpaceType
  <2> QED BY <1>1, <1>2, <2>1, AppliedTotal DEF Execute
<1>3. ASSUME NEW x \in Addresses, NEW amount \in Amounts, Deposit(x, amount)
      PROVE  SupplyMove
  <2>1. /\ balance \in [Addresses -> Nat] /\ supply \in Nat /\ amount \in Nat
        /\ supply' = supply + amount
        /\ balance' = [balance EXCEPT ![x] = @ + amount]
    BY <1>1, <1>3, BoundsAssumption DEF TypeOK, Deposit
  <2>2. /\ balance'[x] = balance[x] + amount
        /\ \A y \in Addresses : y # x => balance'[y] = balance[y]
        /\ \A y \in Addresses : balance[y] \in Int
        /\ amount \in Int
    BY <2>1
  <2>3. IsFiniteSet(Addresses)
    BY ConstantsAssumption
  <2>4. Total(balance', Addresses) = Total(balance, Addresses) + amount
    BY <2>2, <2>3, TotalUpdate
  <2>5. Total(balance, Addresses) \in Int
    BY <2>2, <2>3, TotalType
  <2> QED BY <2>1, <2>4, <2>5 DEF SupplyMove
<1>4. \A t \in Trxs : LAMPORTS_PER_SIGNATURE \in Nat
                      /\ LAMPORTS_PER_SIGNATURE + WriteGas(t) \in Nat
  BY GasType, BoundsAssumption
<1>5. ASSUME NEW x, CreateAccount(x) PROVE SupplyMove
  BY <1>5 DEF CreateAccount, ethereum, SupplyMove
<1> QED
  BY <1>2, <1>3, <1>4, <1>5 DEF LedgerStep, ExecuteFromInstruction, ExecuteFromAccount

(***************************************************************************)
(* NEON is only created by deposits: value transfers, gas payments and the *)
(* creation of accounts leave the sum over any number of addresses as it   *)
(* is, those that pay or call themselves included.                         *)
(***************************************************************************)
THEOREM SupplyIsConserved == Spec => []SupplyConserved
<1>1. SupplyConserved <=> Total(balance, Addresses) = supply
  BY DEF SupplyConserved, Total
<1>2. SupplyConserved' <=> Total(balance', Addresses) = supply'
  BY DEF SupplyConserved, Total, MapThenSumSet, MapThenFoldSet
<1>3. Init => SupplyConserved
  <2> SUFFICES ASSUME Init PROVE Total(balance, Addresses) = 0
    BY <1>1 DEF Init
  <2>1. \A x \in Addresses : balance[x] = 0
    BY DEF Init
  <2> QED BY <2>1, ConstantsAssumption, TotalZero
<1>4. IndInv /\ SupplyConserved /\ [Next]_vars => SupplyConserved'
  <2> SUFFICES ASSUME IndInv, SupplyConserved, [Next]_vars PROVE SupplyConserved'
    OBVIOUS
  <2>1. SupplyMove
    <3>1. CASE Tick
      BY <3>1 DEF Tick, ethereum, SupplyMove
    <3>2. CASE UNCHANGED vars
      BY <3>2 DEF vars, SupplyMove
    <3> QED BY <3>1, <3>2, StorageStepSupply, LedgerStepSupply DEF Next
  <2>2. supply \in Nat /\ supply' \in Nat
    BY NextStep DEF IndInv, TypeOK
  <2>3. Total(balance, Addresses) = supply
    BY <1>1
  <2>4. Total(balance', Addresses) \in Int
    <3>1. \A x \in Addresses : balance'[x] \in Int
      BY NextStep DEF IndInv, TypeOK
    <3> QED BY <3>1, ConstantsAssumption, TotalType
  <2> QED BY <1>2, <2>1, <2>2, <2>3, <2>4 DEF SupplyMove
<1> QED
  BY <1>3, <1>4, Invariance, PTL DEF Spec

-----------------------------------------------------------------------------
(* Isolation *)

\* Neither paying gas nor receiving it takes from anybody but the payer.
LEMMA GasPaidCredits ==
    ASSUME NEW bal \in [Addresses -> Nat], NEW t \in Trxs,
           NEW e \in Addresses, NEW gas \in Nat,
           NEW x \in Addresses, x # trx[t].caller
    PROVE  GasPaid(bal, t, e, gas)[x] >= bal[x]
<1> DEFINE cost == gas * trx[t].gas_price
<1>1. cost \in Nat /\ trx[t].caller \in Addresses
  BY TrxType
<1>2. GasPaid(bal, t, e, gas) =
        IF e = trx[t].caller THEN bal
        ELSE [bal EXCEPT ![trx[t].caller] = @ - cost, ![e] = @ + cost]
  BY DEF GasPaid
<1> HIDE DEF cost
<1> QED BY <1>1, <1>2

\* Applying a journal changes nothing but the caller's and the target's
\* accounts, and the balance of the operator.
LEMMA AppliedElsewhere ==
    ASSUME TypeOK, Pristine, NEW t \in Trxs, NEW r, NEW e \in Addresses,
           NEW gas \in Nat, CanApply(t, r), CanPay(Moved(t, r), t, gas),
           NEW x \in Addresses, x # trx[t].caller, x # trx[t].target
    PROVE  /\ Reallocated(t, r)[x] = space[x]
           /\ Initialised(t, r)[x] = status[x]
           /\ Counted(t, r)[x] = trx_count[x]
           /\ x \in Deployed(t, r) <=> x \in code
           /\ GasPaid(Moved(t, r), t, e, gas)[x] >= balance[x]
<1>1. status[trx[t].caller] = "ether"
  BY DEF CanPay
<1>2. Moved(t, r) \in [Addresses -> Nat]
  BY <1>1, MovedType
<1>3. Moved(t, r)[x] = balance[x]
  BY TrxType DEF Moved, TypeOK
<1>4. GasPaid(Moved(t, r), t, e, gas)[x] >= balance[x]
  BY <1>2, <1>3, GasPaidCredits
<1> QED
  BY <1>4, TrxType, StatusType, CountedType
  DEF Reallocated, Deployed, TypeOK

\* The accounts a running transaction may change are locked by it, or do
\* not exist and are locked by nobody.
LEMMA BlockedElsewhere ==
    ASSUME IndInv, NEW h \in Holders, InProgress(h),
           NEW x \in rw_blocked, ~Holds(h, x)
    PROVE  /\ x \in Addresses
           /\ x # trx[storage[h].trx].caller
           /\ NothingAppeared(h) => x # trx[storage[h].trx].target
<1>1. x \in Addresses
  BY DEF IndInv, TypeOK
<1>2. x # trx[storage[h].trx].caller
  BY DEF IndInv, CallerHeld
<1>3. status[x] = "ether"
  BY <1>1 DEF IndInv, Pristine
<1>4. ASSUME NothingAppeared(h), x = trx[storage[h].trx].target PROVE FALSE
  <2>1. x \in storage[h].listed
    BY <1>4 DEF IndInv, TargetListed
  <2>2. x \in storage[h].existed
    BY <1>3, <1>4, <2>1 DEF NothingAppeared, Existing
  <2> QED BY <2>2 DEF Holds
<1> QED BY <1>1, <1>2, <1>4

Isolated(x) ==
    OnlyCredited(x) \/ \E h \in Holders : Holds(h, x) /\ storage'[h] # storage[h]

LEMMA BeginIsolates ==
    ASSUME IndInv, NEW h \in Holders, NEW t \in Trxs, NEW keys \in SUBSET Addresses,
           NEW e \in Addresses, NEW gas \in Nat, NEW limit,
           Begin(h, t, keys, e, gas, limit), NEW x \in rw_blocked
    PROVE  OnlyCredited(x)
<1>1. balance \in [Addresses -> Nat] /\ x \in Addresses
  BY DEF IndInv, TypeOK
<1>2. trx[t].caller \in Existing(keys)
  BY TrxType DEF Begin, CanStart, CanPay, Existing
<1>3. x # trx[t].caller
  BY <1>2 DEF Begin, NoneBlocked
<1>4. balance'[x] >= balance[x]
  BY <1>1, <1>3, GasPaidCredits DEF Begin
<1> QED BY <1>4 DEF OnlyCredited, Begin, solana

LEMMA ContinueIsolates ==
    ASSUME IndInv, NEW h \in Holders, NEW o \in Operators, NEW e \in Addresses,
           Continue(h, o, e), NEW x \in rw_blocked, ~Holds(h, x)
    PROVE  OnlyCredited(x)
<1> DEFINE t == storage[h].trx
<1>1. /\ InProgress(h) /\ NothingAppeared(h)
      /\ t \in Trxs /\ TypeOK /\ Pristine
  BY DEF Continue, ContinueRun, ContinueRealloc, ContinueFinish, MayTake, IndInv, CallerHeld
<1>2. x \in Addresses /\ x # trx[t].caller /\ x # trx[t].target
  BY <1>1, BlockedElsewhere
<1>3. ASSUME NEW gas \in Nat, balance' = GasPaid(balance, t, e, gas)
      PROVE  balance'[x] >= balance[x]
  BY <1>1, <1>2, <1>3, GasPaidCredits DEF TypeOK
<1>4. ASSUME NEW r, ContinueRun(h, o, e, r) PROVE OnlyCredited(x)
  <2>1. balance'[x] >= balance[x]
    BY <1>3, <1>4, GasType DEF ContinueRun
  <2> QED BY <1>4, <2>1 DEF ContinueRun, OnlyCredited, solana
<1>5. ASSUME NEW r, NEW steps \in {0, 1}, ContinueRealloc(h, o, e, r, steps)
      PROVE  OnlyCredited(x)
  <2>1. ContinueGas(steps) + Expenses(t, r) \in Nat
    BY <1>1, GasType, SpaceType
  <2>2. balance'[x] >= balance[x]
    BY <1>3, <1>5, <2>1 DEF ContinueRealloc
  <2>3. space'[x] = space[x] /\ status'[x] = status[x]
    BY <1>1, <1>2, <1>5, TrxType DEF ContinueRealloc, Reallocated, Allocated, TypeOK
  <2> QED BY <1>5, <2>2, <2>3 DEF ContinueRealloc, OnlyCredited
<1>6. ASSUME NEW r, NEW steps \in {0, 1}, ContinueFinish(h, o, e, r, steps)
      PROVE  OnlyCredited(x)
  <2>1. ContinueGas(steps) + Expenses(t, r) \in Nat
    BY <1>1, GasType, SpaceType
  <2>2. /\ space'[x] = space[x] /\ status'[x] = status[x]
        /\ trx_count'[x] = trx_count[x] /\ balance'[x] >= balance[x]
        /\ x \in code' <=> x \in code
    BY <1>1, <1>2, <1>6, <2>1, AppliedElsewhere DEF ContinueFinish
  <2>3. x \in rw_blocked'
    <3>1. ~(x \in storage[h].listed)
      <4>1. status[x] = "ether" /\ x \notin storage[h].existed
        BY <1>1, <1>2 DEF Pristine, Holds
      <4> QED BY <1>1, <4>1 DEF NothingAppeared, Existing
    <3> QED BY <1>6, <3>1 DEF ContinueFinish
  <2> QED BY <2>2, <2>3 DEF OnlyCredited
<1> QED BY <1>4, <1>5, <1>6 DEF Continue

\* The step changes the state account: it takes gas for a signature, or
\* turns the account into a finalized one.
LEMMA ContinueCharges ==
    ASSUME IndInv, NEW h \in Holders, NEW o \in Operators, NEW e \in Addresses,
           Continue(h, o, e)
    PROVE  storage'[h] # storage[h]
<1>1. /\ InProgress(h) /\ storage[h].trx \in Trxs /\ TypeOK
      /\ storage[h] \in StorageRecord
  BY DEF Continue, ContinueRun, ContinueRealloc, ContinueFinish, MayTake, IndInv,
     CallerHeld, TypeOK
<1>2. ASSUME NEW gas \in Nat \ {0}, NEW evm, storage' = Resumed(h, o, gas, evm)
      PROVE  storage'[h] # storage[h]
  <2>1. storage'[h].gas_used = storage[h].gas_used + gas /\ storage[h].gas_used \in Nat
    BY <1>1, <1>2 DEF Resumed, StorageRecord, TypeOK
  <2> QED BY <2>1
<1>3. ASSUME NEW r, NEW steps \in {0, 1}
      PROVE  ContinueGas(steps) + Expenses(storage[h].trx, r) \in Nat \ {0}
  <2>1. ContinueGas(steps) \in Nat \ {0}
    BY BoundsAssumption DEF ContinueGas
  <2>2. Expenses(storage[h].trx, r) \in Nat
    BY <1>1, SpaceType
  <2> QED BY <2>1, <2>2
<1>4. ContinueGas(2) \in Nat \ {0}
  BY BoundsAssumption DEF ContinueGas
<1>5. ASSUME NEW r, ContinueRun(h, o, e, r) PROVE storage'[h] # storage[h]
  BY <1>2, <1>4, <1>5 DEF ContinueRun
<1>6. ASSUME NEW r, NEW steps \in {0, 1}, ContinueRealloc(h, o, e, r, steps)
      PROVE  storage'[h] # storage[h]
  BY <1>2, <1>3, <1>6 DEF ContinueRealloc
<1>7. ASSUME NEW r, NEW steps \in {0, 1}, ContinueFinish(h, o, e, r, steps)
      PROVE  storage'[h] # storage[h]
  BY <1>1, <1>7 DEF ContinueFinish, EmptyStorage, InProgress, TypeOK
<1> QED BY <1>5, <1>6, <1>7 DEF Continue

LEMMA CancelIsolates ==
    ASSUME IndInv, NEW h \in Holders, NEW o \in Operators, Cancel(h, o),
           NEW x \in rw_blocked
    PROVE  Isolated(x)
<1>1. /\ InProgress(h) /\ TypeOK /\ HeldExist
      /\ balance \in [Addresses -> Nat] /\ x \in Addresses
  BY DEF Cancel, MayTake, IndInv, TypeOK
<1>2. CASE Holds(h, x)
  <2>1. storage'[h].tag = "Finalized" /\ storage[h].tag = "State"
    BY <1>1 DEF Cancel, EmptyStorage, InProgress, TypeOK
  <2>2. storage'[h] # storage[h]
    BY <2>1
  <2> QED BY <1>2, <2>2 DEF Isolated
<1>3. CASE ~Holds(h, x)
  <2>1. x \notin Existing(storage[h].existed)
    BY <1>1, <1>3 DEF Holds, Existing
  <2>2. trx_count'[x] = trx_count[x] /\ x \in rw_blocked'
    BY <1>1, <2>1 DEF Cancel
  <2>3. balance'[x] >= balance[x]
    BY <1>1 DEF Cancel
  <2> QED BY <2>2, <2>3 DEF Cancel, solana, OnlyCredited, Isolated
<1> QED BY <1>2, <1>3

LEMMA ExecuteIsolates ==
    ASSUME IndInv, NEW t \in Trxs, NEW keys \in SUBSET Addresses,
           NEW e \in Addresses, NEW r, NEW gas0 \in Nat,
           Execute(t, keys, e, r, gas0), NEW x \in rw_blocked
    PROVE  OnlyCredited(x)
<1> DEFINE gas == gas0 + PAYMENT_TO_TREASURE + Expenses(t, r)
<1>1. TypeOK /\ Pristine /\ x \in Addresses /\ gas \in Nat
  BY BoundsAssumption, SpaceType DEF IndInv, TypeOK
<1>2. x \notin keys
  BY <1>1 DEF Execute, NoneBlocked, Existing, Pristine
<1>3. x # trx[t].caller /\ x # trx[t].target
  BY <1>2 DEF Execute, CanStart
<1>4. /\ space'[x] = space[x] /\ status'[x] = status[x]
      /\ trx_count'[x] = trx_count[x] /\ balance'[x] >= balance[x]
      /\ x \in code' <=> x \in code
  BY <1>1, <1>3, AppliedElsewhere DEF Execute
<1> QED BY <1>4 DEF Execute, OnlyCredited

LEMMA StorageStepIsolates ==
    ASSUME IndInv, NEW h \in Holders, StorageStep(h), NEW x \in rw_blocked
    PROVE  Isolated(x)
<1>1. x \in Addresses /\ balance \in [Addresses -> Nat]
  BY DEF IndInv, TypeOK
<1>2. ASSUME UNCHANGED <<solana, ethereum, rw_blocked>> PROVE Isolated(x)
  <2>1. balance'[x] >= balance[x]
    BY <1>1, <1>2 DEF ethereum
  <2> QED BY <1>2, <2>1 DEF solana, ethereum, OnlyCredited, Isolated
<1>3. ASSUME NEW t \in Trxs, NEW keys \in SUBSET Addresses, NEW e \in Addresses,
             BeginFromAccount(h, t, keys, e) \/ BeginFromInstruction(h, t, keys, e)
      PROVE  Isolated(x)
  <2>1. BeginGas \in Nat /\ BeginGas + WriteGas(t) \in Nat
    BY GasType
  <2>2. PICK gas, limit : gas \in Nat /\ Begin(h, t, keys, e, gas, limit)
    BY <1>3, <2>1 DEF BeginFromAccount, BeginFromInstruction
  <2> QED BY <2>2, BeginIsolates DEF Isolated
<1>4. ASSUME NEW o \in Operators, NEW e \in Addresses, Continue(h, o, e)
      PROVE  Isolated(x)
  <2>1. CASE Holds(h, x)
    BY <1>4, <2>1, ContinueCharges DEF Isolated
  <2>2. CASE ~Holds(h, x)
    BY <1>4, <2>2, ContinueIsolates DEF Isolated
  <2> QED BY <2>1, <2>2
<1>5. ASSUME NEW keys, BlockAdd(h, keys) PROVE Isolated(x)
  <2>1. balance'[x] >= balance[x]
    BY <1>1, <1>5 DEF BlockAdd, ethereum
  <2> QED BY <1>5, <2>1 DEF BlockAdd, solana, ethereum, OnlyCredited, Isolated
<1> QED
  BY <1>2, <1>3, <1>4, <1>5, CancelIsolates
  DEF StorageStep, HolderCreate, HolderDelete, HolderWrite

LEMMA LedgerStepIsolates ==
    ASSUME IndInv, LedgerStep, NEW x \in rw_blocked
    PROVE  OnlyCredited(x)
<1>1. /\ x \in Addresses /\ balance \in [Addresses -> Nat]
      /\ status \in [Addresses -> Status] /\ space \in [Addresses -> Nat]
      /\ status[x] = "ether"
  BY DEF IndInv, TypeOK, Pristine
<1>2. \A t \in Trxs : LAMPORTS_PER_SIGNATURE \in Nat
                      /\ LAMPORTS_PER_SIGNATURE + WriteGas(t) \in Nat
  BY GasType, BoundsAssumption
<1>3. ASSUME NEW y \in Addresses, CreateAccount(y) PROVE OnlyCredited(x)
  <2>1. x # y /\ balance'[x] >= balance[x]
    BY <1>1, <1>3 DEF CreateAccount, ethereum
  <2> QED BY <1>1, <1>3, <2>1 DEF CreateAccount, ethereum, OnlyCredited
<1>4. ASSUME NEW y \in Addresses, NEW amount \in Amounts, Deposit(y, amount)
      PROVE  OnlyCredited(x)
  <2>1. amount \in Nat
    BY BoundsAssumption
  <2>2. balance'[x] >= balance[x]
    BY <1>1, <1>4, <2>1 DEF Deposit
  <2>3. status'[x] = status[x] /\ space'[x] = space[x]
    BY <1>1, <1>4 DEF Deposit
  <2> QED BY <1>4, <2>2, <2>3 DEF Deposit, OnlyCredited
<1>5. ASSUME NEW t \in Trxs, NEW keys \in SUBSET Addresses, NEW e \in Addresses,
             NEW r \in {"stop", "revert"},
             \/ ExecuteFromInstruction(t, keys, e, r)
             \/ \E h \in Holders : ExecuteFromAccount(h, t, keys, e, r)
      PROVE  OnlyCredited(x)
  <2>1. PICK gas0 \in Nat : Execute(t, keys, e, r, gas0)
    BY <1>2, <1>5 DEF ExecuteFromInstruction, ExecuteFromAccount
  <2> QED BY <2>1, ExecuteIsolates
<1> QED BY <1>3, <1>4, <1>5 DEF LedgerStep

LEMMA NextIsolates ==
    ASSUME IndInv, Next, NEW x \in rw_blocked
    PROVE  Isolated(x)
<1>1. ASSUME Tick PROVE Isolated(x)
  <2>1. balance'[x] >= balance[x]
    BY <1>1 DEF Tick, ethereum, IndInv, TypeOK
  <2> QED BY <1>1, <2>1 DEF Tick, solana, ethereum, OnlyCredited, Isolated
<1> QED
  BY <1>1, StorageStepIsolates, LedgerStepIsolates DEF Next, Isolated

(***************************************************************************)
(* An account that a transaction in progress has locked changes only in a  *)
(* step that changes that transaction's state account too, other than by   *)
(* being credited.                                                         *)
(***************************************************************************)
THEOREM LockedIsolated == Spec => LockIsolation
<1> DEFINE A == \A x \in rw_blocked : Isolated(x)
<1>1. IndInv /\ [Next]_vars => [A]_vars
  BY NextIsolates
<1>2. A <=> \A x \in rw_blocked :
               \/ OnlyCredited(x)
               \/ \E h \in Holders : Holds(h, x) /\ storage'[h] # storage[h]
  BY DEF Isolated
<1> HIDE DEF A
<1>3. IndInv /\ [Next]_vars =>
         [\A x \in rw_blocked :
             \/ OnlyCredited(x)
             \/ \E h \in Holders : Holds(h, x) /\ storage'[h] # storage[h]]_vars
  BY <1>1, <1>2
<1> QED BY <1>3, Invariance, PTL DEF Spec, LockIsolation

-----------------------------------------------------------------------------
(* Accounts that appeared in the meantime *)

\* Only an iteration, which NothingAppeared rules out, and a cancellation
\* end or charge a transaction in progress.
LEMMA StorageStepUntouched ==
    ASSUME IndInv, NEW h \in Holders, StorageStep(h), InProgress(h),
           NEW x \in storage[h].listed \ storage[h].existed, status[x] = "ether",
           storage'[h].tag # "State" \/ storage'[h].gas_used # storage[h].gas_used
    PROVE  Contents(x)' = Contents(x)
<1>1. /\ storage[h] \in StorageRecord /\ storage \in [Holders -> StorageRecord]
      /\ x \in Addresses
  BY DEF IndInv, TypeOK, StorageRecord
<1>2. ASSUME NEW o, NEW e, Continue(h, o, e) PROVE FALSE
  <2>1. NothingAppeared(h)
    BY <1>2 DEF Continue, ContinueRun, ContinueRealloc, ContinueFinish
  <2> QED BY <2>1 DEF NothingAppeared, Existing
<1>3. ASSUME NEW keys, BlockAdd(h, keys) PROVE FALSE
  <2>1. storage'[h].tag = "State" /\ storage'[h].gas_used = storage[h].gas_used
    BY <1>1, <1>3 DEF BlockAdd, InProgress, StorageRecord
  <2> QED BY <2>1
<1>4. ASSUME NEW o, Cancel(h, o) PROVE Contents(x)' = Contents(x)
  <2>1. x \notin Existing(storage[h].existed)
    BY DEF Existing
  <2>2. trx_count'[x] = trx_count[x] /\ (x \in rw_blocked' <=> x \in rw_blocked)
    BY <1>1, <1>4, <2>1 DEF Cancel
  <2> QED BY <1>4, <2>2 DEF Cancel, solana, Contents
<1> QED
  BY <1>2, <1>3, <1>4 DEF StorageStep, HolderCreate, HolderDelete, HolderWrite,
     BeginFromAccount, BeginFromInstruction, HoldsTrx, InProgress

\* No other step ends or charges it.
LEMMA OthersKeepState ==
    ASSUME IndInv, Next, NEW h \in Holders, InProgress(h), ~StorageStep(h)
    PROVE  storage'[h].tag = "State" /\ storage'[h].gas_used = storage[h].gas_used
<1>1. storage[h] \in StorageRecord /\ storage \in [Holders -> StorageRecord]
  BY DEF IndInv, TypeOK
<1>2. ASSUME storage'[h] = storage[h]
      PROVE  storage'[h].tag = "State" /\ storage'[h].gas_used = storage[h].gas_used
  BY <1>2 DEF InProgress
<1>3. ASSUME NEW g \in Holders, StorageStep(g) PROVE storage'[h] = storage[h]
  <2>1. g # h
    BY <1>3
  <2>2. ASSUME HolderCreate(g) \/ HolderDelete(g) PROVE storage'[h] = storage[h]
    BY <1>1, <2>1, <2>2 DEF HolderCreate, HolderDelete
  <2>3. ASSUME NEW t \in Trxs, NEW p \in 1..trx[t].parts, HolderWrite(g, t, p)
        PROVE  storage'[h] = storage[h]
    BY <1>1, <2>1, <2>3 DEF HolderWrite
  <2>4. ASSUME NEW t \in Trxs, NEW keys \in SUBSET Addresses, NEW e \in Addresses,
               BeginFromAccount(g, t, keys, e) \/ BeginFromInstruction(g, t, keys, e)
        PROVE  storage'[h] = storage[h]
    <3>1. PICK gas, limit : Begin(g, t, keys, e, gas, limit)
      BY <2>4 DEF BeginFromAccount, BeginFromInstruction
    <3> QED BY <1>1, <2>1, <3>1 DEF Begin
  <2>5. ASSUME NEW o \in Operators, NEW e \in Addresses, Continue(g, o, e)
        PROVE  storage'[h] = storage[h]
    <3>1. ASSUME NEW gas, NEW evm, storage' = Resumed(g, o, gas, evm)
          PROVE  storage'[h] = storage[h]
      BY <1>1, <2>1, <3>1 DEF Resumed
    <3>2. ASSUME NEW r, NEW steps, ContinueFinish(g, o, e, r, steps)
          PROVE  storage'[h] = storage[h]
      BY <1>1, <2>1, <3>2 DEF ContinueFinish
    <3> QED BY <2>5, <3>1, <3>2 DEF Continue, ContinueRun, ContinueRealloc
  <2>6. ASSUME NEW o \in Operators, Cancel(g, o) PROVE storage'[h] = storage[h]
    BY <1>1, <2>1, <2>6 DEF Cancel
  <2>7. ASSUME NEW keys \in SUBSET Addresses, BlockAdd(g, keys)
        PROVE  storage'[h] = storage[h]
    BY <1>1, <2>1, <2>7 DEF BlockAdd
  <2> QED BY <1>3, <2>2, <2>3, <2>4, <2>5, <2>6, <2>7 DEF StorageStep
<1>4. ASSUME LedgerStep PROVE storage'[h] = storage[h]
  BY <1>4 DEF LedgerStep, ExecuteFromInstruction, ExecuteFromAccount, Execute,
     CreateAccount, Deposit
<1>5. ASSUME Tick
      PROVE  storage'[h].tag = "State" /\ storage'[h].gas_used = storage[h].gas_used
  <2>1. CASE storage[h].age < MaxAge
    <3>1. storage'[h] = [storage[h] EXCEPT !.age = @ + 1]
      BY <1>5, <2>1 DEF Tick
    <3> QED BY <1>1, <3>1 DEF StorageRecord, InProgress
  <2>2. CASE ~(storage[h].age < MaxAge)
    BY <1>5, <2>2 DEF Tick, InProgress
  <2> QED BY <2>1, <2>2
<1> QED BY <1>2, <1>3, <1>4, <1>5 DEF Next

(***************************************************************************)
(* An account that somebody else created after a transaction listed its    *)
(* key keeps its contents in every step that charges or ends the           *)
(* transaction.                                                            *)
(***************************************************************************)
THEOREM AppearedUntouched == Spec => CreatedOutsideUntouched
<1>1. IndInv /\ [Next]_vars =>
        [\A h \in Holders : \A x \in storage[h].listed \ storage[h].existed :
            /\ InProgress(h)
            /\ status[x] = "ether"
            /\ storage'[h].tag # "State" \/ storage'[h].gas_used # storage[h].gas_used
            => Contents(x)' = Contents(x)]_vars
  BY StorageStepUntouched, OthersKeepState
<1> QED BY <1>1, Invariance, PTL DEF Spec, CreatedOutsideUntouched
=============================================================================
