----------------------- MODULE ContractStorageProofs -----------------------
(***************************************************************************)
(* The cells of contracts read as they were written, have one entry in     *)
(* their storage account, and the accounts stay rent-exempt, for any       *)
(* contracts, limits, block size and number of seeds.                      *)
(*                                                                         *)
(* apply_storage is a fold over the writes of a transaction; the invariant *)
(* is stated of the accounts in the middle of it (Sound, Agrees) and kept  *)
(* by every single write (WrittenSound), whatever the other accounts hold. *)
(***************************************************************************)
EXTENDS ContractStorage, FoldLemmas, SequenceTheorems, TLAPS

Chunk == [sub : Nat, value : Cells]

Account == [owned : BOOLEAN, index : Nat, generation : Nat,
            chunks : Seq(Chunk), lamports : Nat]

Static == [0..(STATIC_STORAGE_LIMIT - 1) -> Cells]

-----------------------------------------------------------------------------
(* Entries of a storage account *)

OneEach(chunks) ==
    \A m, n \in DOMAIN chunks : chunks[m].sub = chunks[n].sub => m = n

Has(chunks, sub) == \E n \in DOMAIN chunks : chunks[n].sub = sub

\* ChunkOf finds the first entry of a cell.
LEMMA ChunkOfFinds ==
    ASSUME NEW chunks \in Seq(Chunk), NEW sub
    PROVE  /\ ChunkOf(chunks, sub) \in {0} \cup DOMAIN chunks
           /\ ~Has(chunks, sub) => ChunkOf(chunks, sub) = 0
           /\ Has(chunks, sub) => /\ ChunkOf(chunks, sub) \in DOMAIN chunks
                                  /\ chunks[ChunkOf(chunks, sub)].sub = sub
<1> DEFINE I == {i \in 1..Len(chunks) : chunks[i].sub = sub}
<1>1. ChunkOf(chunks, sub) = IF I # {} THEN Min(I) ELSE 0
  BY DEF ChunkOf, SelectInSeq
<1>2. I \in SUBSET Nat /\ DOMAIN chunks = 1..Len(chunks)
  OBVIOUS
<1>3. I # {} <=> Has(chunks, sub)
  BY <1>2 DEF Has
<1>4. I # {} => Min(I) \in I
  BY <1>2, MinIsLeast
<1> QED BY <1>1, <1>2, <1>3, <1>4

\* What Get returns when there is one entry, and when there is none.
LEMMA GetIs ==
    ASSUME NEW chunks \in Seq(Chunk), OneEach(chunks), NEW sub
    PROVE  /\ ~Has(chunks, sub) => Get(chunks, sub) = Zero
           /\ \A n \in DOMAIN chunks : chunks[n].sub = sub =>
                 Get(chunks, sub) = chunks[n].value
           /\ Get(chunks, sub) \in Cells
<1>1. DOMAIN chunks = 1..Len(chunks) /\ Len(chunks) \in Nat
  OBVIOUS
<1>2. CASE ~Has(chunks, sub)
  BY <1>2, ChunkOfFinds, StorageAssumption DEF Get, Has
<1>3. CASE Has(chunks, sub)
  <2> DEFINE n == ChunkOf(chunks, sub)
  <2>1. n \in DOMAIN chunks /\ chunks[n].sub = sub
    BY <1>3, ChunkOfFinds
  <2>2. n # 0
    BY <1>1, <2>1
  <2>3. Get(chunks, sub) = chunks[n].value
    BY <2>2 DEF Get
  <2>4. chunks[n] \in Chunk
    BY <2>1, ElementOfSeq
  <2> HIDE DEF n
  <2> QED BY <1>3, <2>1, <2>3, <2>4 DEF OneEach, Chunk
<1> QED BY <1>2, <1>3

\* new reads as chunks but for the cell sub, which has v.
ReadsAs(new, chunks, sub, v) ==
    \A s : Get(new, s) = IF s = sub THEN v ELSE Get(chunks, s)

WithEntry(new, chunks, sub, v) == new = Append(chunks, [sub |-> sub, value |-> v])

WithValue(new, chunks, n, v) == new = [chunks EXCEPT ![n].value = v]

\* EthereumStorage::set of a cell that has no entry.
LEMMA GetAppended ==
    ASSUME NEW chunks \in Seq(Chunk), OneEach(chunks), NEW sub, sub \in Nat, NEW v \in Cells,
           ~Has(chunks, sub),
           NEW new, WithEntry(new, chunks, sub, v)
    PROVE  /\ new \in Seq(Chunk) /\ OneEach(new) /\ Len(new) = Len(chunks) + 1
           /\ ReadsAs(new, chunks, sub, v)
<1> DEFINE last == Len(chunks) + 1
           c == [sub |-> sub, value |-> v]
<1>1. c \in Chunk /\ c.sub = sub /\ c.value = v
  BY DEF Chunk
<1> HIDE DEF c
<1>2. /\ new \in Seq(Chunk) /\ Len(new) = last /\ new[last] = c
      /\ DOMAIN chunks = 1..Len(chunks) /\ DOMAIN new = 1..last
      /\ \A i \in 1..Len(chunks) : new[i] = chunks[i]
  BY <1>1, AppendProperties DEF c, WithEntry
<1>3. Len(chunks) \in Nat /\ DOMAIN new = DOMAIN chunks \cup {last} /\ last \notin DOMAIN chunks
  BY <1>2
<1>4. \A i \in DOMAIN chunks : new[i] = chunks[i] /\ new[i].sub # sub
  BY <1>2 DEF Has
<1> HIDE DEF last
<1>5. OneEach(new)
  BY <1>1, <1>2, <1>3, <1>4 DEF OneEach
<1>6. ASSUME NEW s PROVE Get(new, s) = IF s = sub THEN v ELSE Get(chunks, s)
  <2>1. CASE s = sub
    <3>1. last \in DOMAIN new /\ new[last].sub = s /\ new[last].value = v
      BY <1>1, <1>2, <1>3, <2>1
    <3>2. Get(new, s) = new[last].value
      BY <1>2, <1>5, <3>1, GetIs
    <3> QED BY <2>1, <3>1, <3>2
  <2>2. CASE s # sub /\ Has(chunks, s)
    <3>1. PICK n \in DOMAIN chunks : chunks[n].sub = s
      BY <2>2 DEF Has
    <3>2. Get(chunks, s) = chunks[n].value
      BY <3>1, GetIs
    <3>3. n \in DOMAIN new /\ new[n] = chunks[n]
      BY <1>3, <1>4
    <3>4. Get(new, s) = new[n].value
      BY <1>2, <1>5, <3>1, <3>3, GetIs
    <3> QED BY <2>2, <3>2, <3>3, <3>4
  <2>3. CASE s # sub /\ ~Has(chunks, s)
    <3>1. ~Has(new, s)
      BY <1>1, <1>2, <1>3, <1>4, <2>3 DEF Has
    <3> QED BY <1>2, <1>5, <2>3, <3>1, GetIs
  <2> QED BY <2>1, <2>2, <2>3
<1> QED BY <1>2, <1>5, <1>6 DEF last, ReadsAs

\* EthereumStorage::set of a cell that has one.
LEMMA GetReplaced ==
    ASSUME NEW chunks \in Seq(Chunk), OneEach(chunks), NEW sub, NEW v \in Cells,
           NEW n \in DOMAIN chunks, chunks[n].sub = sub,
           NEW new, WithValue(new, chunks, n, v)
    PROVE  /\ new \in Seq(Chunk) /\ OneEach(new) /\ Len(new) = Len(chunks)
           /\ ReadsAs(new, chunks, sub, v)
<1>1. /\ DOMAIN chunks = 1..Len(chunks) /\ Len(chunks) \in Nat
      /\ \A i \in DOMAIN chunks : chunks[i] \in Chunk
  BY ElementOfSeq
<1> DEFINE c == [chunks[n] EXCEPT !.value = v]
<1>2. c \in Chunk /\ c.sub = sub /\ c.value = v
  BY <1>1 DEF Chunk
<1>3. new = [chunks EXCEPT ![n] = c]
  BY DEF WithValue
<1> HIDE DEF c
<1>4. /\ new \in Seq(Chunk) /\ Len(new) = Len(chunks) /\ DOMAIN new = DOMAIN chunks
      /\ new[n] = c /\ \A i \in DOMAIN chunks : i # n => new[i] = chunks[i]
  BY <1>1, <1>2, <1>3, ExceptSeq
<1>5. \A i \in DOMAIN chunks : new[i].sub = chunks[i].sub
  BY <1>2, <1>4
<1>6. OneEach(new)
  BY <1>4, <1>5 DEF OneEach
<1>7. ASSUME NEW s PROVE Get(new, s) = IF s = sub THEN v ELSE Get(chunks, s)
  <2>1. CASE s = sub
    <3>1. n \in DOMAIN new /\ new[n].sub = s /\ new[n].value = v
      BY <1>2, <1>4, <2>1
    <3>2. Get(new, s) = new[n].value
      BY <1>4, <1>6, <3>1, GetIs
    <3> QED BY <2>1, <3>1, <3>2
  <2>2. CASE s # sub /\ Has(chunks, s)
    <3>1. PICK m \in DOMAIN chunks : chunks[m].sub = s
      BY <2>2 DEF Has
    <3>2. Get(chunks, s) = chunks[m].value
      BY <3>1, GetIs
    <3>3. m # n /\ new[m] = chunks[m]
      BY <1>4, <2>2, <3>1
    <3>4. Get(new, s) = new[m].value
      BY <1>4, <1>6, <3>1, <3>3, GetIs
    <3> QED BY <2>2, <3>2, <3>3, <3>4
  <2>3. CASE s # sub /\ ~Has(chunks, s)
    <3>1. ~Has(new, s)
      BY <1>4, <1>5, <2>3 DEF Has
    <3> QED BY <1>4, <1>6, <2>3, <3>1, GetIs
  <2> QED BY <2>1, <2>2, <2>3
<1> QED BY <1>4, <1>6, <1>7 DEF ReadsAs

-----------------------------------------------------------------------------
(* The accounts in the middle of an instruction *)

\* The entries and lamports of the storage account of contract x, which is
\* owed w more lamports.
Funded(a, x, w) ==
    /\ OneEach(a.chunks)
    /\ a.owned => a.lamports + w >= MinimumBalance(a.chunks)
    /\ ~a.owned => a.chunks = <<>>
    /\ a.generation <= generation[x]

\* Those of the accounts as that were passed, in p, are of the present
\* generation.
Sound(as, owed, p) ==
    /\ as \in [Keys -> Account]
    /\ owed \in [Keys -> Nat]
    /\ \A k \in Keys : Funded(as[k], k[1], owed[k])
    /\ \A k \in p \cap Keys : as[k].owned => as[k].generation = generation[k[1]]

\* What a cell of a storage account reads as.
Current(as, x, i) ==
    LET a == as[Key(x, Block(i))] IN
    IF a.owned /\ a.index = Block(i) /\ a.generation = generation[x]
    THEN Get(a.chunks, Subindex(i)) ELSE Zero

\* The accounts st and as hold the cells c of the contracts that are live.
Agrees(st, as, c, live) ==
    /\ st \in [Contracts -> Static]
    /\ c \in [Contracts -> [Indices -> Cells]]
    /\ \A x \in Contracts \ live : st[x] = NoStatic
    /\ \A x \in Contracts, i \in Indices :
          c[x][i] = IF i < STATIC_STORAGE_LIMIT
                    THEN IF x \in live THEN st[x][i] ELSE Zero
                    ELSE Current(as, x, i)

StorageInv ==
    /\ deployed \subseteq Contracts
    /\ generation \in [Contracts -> Nat]
    /\ Sound(accounts, [k \in Keys |-> 0], {})
    /\ Agrees(static, accounts, cells, deployed)

LEMMA IndexParts ==
    ASSUME NEW i \in Indices
    PROVE  /\ i \in Nat /\ Block(i) \in Nat /\ Subindex(i) \in Nat
           /\ i = Block(i) + Subindex(i)
<1>1. i \in Nat /\ i % BLOCK \in 0..(BLOCK - 1) /\ i % BLOCK <= i
  BY StorageAssumption DEF Indices
<1> QED BY <1>1 DEF Block, Subindex

LEMMA KeyIsKey ==
    ASSUME NEW x \in Contracts, NEW i \in Indices, i >= STATIC_STORAGE_LIMIT
    PROVE  Key(x, Block(i)) \in Keys
<1>1. i \in STATIC_STORAGE_LIMIT..MaxIndex
  BY StorageAssumption DEF Indices
<1> QED BY <1>1 DEF Keys

LEMMA KeyOwner ==
    /\ \A x, b : Key(x, b)[1] = x
    /\ \A k \in Keys : k[1] \in Contracts
BY DEF Keys, Key

LEMMA EmptySound ==
    /\ <<>> \in Seq(Chunk) /\ OneEach(<<>>) /\ MinimumBalance(<<>>) = 1
    /\ \A sub : Get(<<>>, sub) = Zero
<1>1. <<>> \in Seq(Chunk) /\ OneEach(<<>>) /\ MinimumBalance(<<>>) = 1
  BY DEF OneEach, MinimumBalance
<1>2. \A sub : ~Has(<<>>, sub)
  BY DEF Has
<1> QED BY <1>1, <1>2, GetIs

-----------------------------------------------------------------------------
(* ProgramAccountStorage::new: loading clears what is stale *)

LEMMA LoadedSound ==
    ASSUME StorageInv, NEW p
    PROVE  /\ Sound(Loaded(p), [k \in Keys |-> 0], p)
           /\ \A x \in Contracts, i \in Indices : i >= STATIC_STORAGE_LIMIT =>
                 Current(Loaded(p), x, i) = Current(accounts, x, i)
           /\ Agrees(static, Loaded(p), cells, deployed)
<1> DEFINE as == Loaded(p)
           none == [k \in Keys |-> 0]
<1>1. /\ accounts \in [Keys -> Account] /\ generation \in [Contracts -> Nat]
      /\ \A k \in Keys : none[k] = 0 /\ Funded(accounts[k], k[1], 0)
  BY DEF StorageInv, Sound
<1>2. none \in [Keys -> Nat]
  OBVIOUS
<1> HIDE DEF none
<1>3. ASSUME NEW k \in Keys
      PROVE  /\ as[k] \in Account
             /\ Funded(as[k], k[1], 0)
             /\ k \in p /\ as[k].owned => as[k].generation = generation[k[1]]
             /\ as[k].owned = accounts[k].owned /\ as[k].index = accounts[k].index
             /\ as[k] # accounts[k] =>
                   /\ as[k].chunks = <<>> /\ accounts[k].generation # generation[k[1]]
  <2>1. accounts[k] \in Account /\ k[1] \in Contracts
    BY <1>1, KeyOwner
  <2>2. CASE ~(k \in p /\ Stale(k))
    BY <1>1, <2>1, <2>2 DEF Loaded, Stale
  <2>3. CASE k \in p /\ Stale(k)
    <3>1. as[k] = [owned |-> accounts[k].owned, index |-> accounts[k].index,
                   generation |-> generation[k[1]], chunks |-> <<>>,
                   lamports |-> 1]
      BY <2>1, <2>3, EmptySound DEF Loaded, Cleared, Account
    <3>2. accounts[k].generation # generation[k[1]]
      BY <2>3 DEF Stale
    <3>3. Funded(as[k], k[1], 0)
      BY <1>1, <2>1, <3>1, EmptySound DEF Funded, Account
    <3> QED BY <1>1, <2>1, <3>1, <3>2, <3>3, EmptySound DEF Account
  <2> QED BY <2>2, <2>3
<1>4. as \in [Keys -> Account]
  BY <1>3 DEF Loaded
<1> HIDE DEF as
<1>5. Sound(as, none, p)
  BY <1>1, <1>2, <1>3, <1>4 DEF Sound
<1>6. ASSUME NEW x \in Contracts, NEW i \in Indices, i >= STATIC_STORAGE_LIMIT
      PROVE  Current(as, x, i) = Current(accounts, x, i)
  <2> DEFINE k == Key(x, Block(i))
  <2>1. k \in Keys /\ k[1] = x
    BY <1>6, KeyIsKey, KeyOwner
  <2>2. CASE as[k] = accounts[k]
    BY <2>2 DEF Current
  <2>3. CASE as[k] # accounts[k]
    <3>1. as[k].chunks = <<>> /\ accounts[k].generation # generation[x]
      BY <1>3, <2>1, <2>3
    <3>2. Current(as, x, i) = Zero
      BY <3>1, EmptySound DEF Current
    <3>3. Current(accounts, x, i) = Zero
      BY <3>1 DEF Current
    <3> QED BY <3>2, <3>3
  <2> QED BY <2>2, <2>3
<1>7. Agrees(static, as, cells, deployed)
  <2>1. \A i \in Indices : i < STATIC_STORAGE_LIMIT \/ i >= STATIC_STORAGE_LIMIT
    BY StorageAssumption DEF Indices
  <2> QED BY <1>6, <2>1 DEF StorageInv, Agrees
<1> QED BY <1>5, <1>6, <1>7 DEF as, none

-----------------------------------------------------------------------------
(* apply_storage: one write *)

FoldState == [ok : BOOLEAN, static : [Contracts -> Static],
              accounts : [Keys -> Account], owed : [Keys -> Nat]]

\* The fold with another storage account under k, owed w lamports.
Replaced(s, k, b, w) ==
    [ok |-> s.ok, static |-> s.static,
     accounts |-> [s.accounts EXCEPT ![k] = b], owed |-> [s.owed EXCEPT ![k] = w]]

\* t is what a write of v to cell i of x leaves, where c held the cells.
Result(t, x, i, v, p, c, live) ==
    /\ Sound(t.accounts, t.owed, p)
    /\ Agrees(t.static, t.accounts, [c EXCEPT ![x][i] = v], live)

\* The storage account b, owed w, is of the present generation, has v for cell
\* i of x, and has for the other cells of the block what the account a had.
Enters(b, w, a, x, i, v) ==
    /\ b \in Account /\ w \in Nat
    /\ b.owned /\ b.index = Block(i) /\ b.generation = generation[x]
    /\ OneEach(b.chunks)
    /\ b.lamports + w >= MinimumBalance(b.chunks)
    /\ a.owned => a.index = Block(i) /\ a.generation = generation[x]
    /\ \A sub : Get(b.chunks, sub) =
          IF sub = Subindex(i) THEN v
          ELSE IF a.owned THEN Get(a.chunks, sub) ELSE Zero

LEMMA EnteredSound ==
    ASSUME NEW s \in FoldState, generation \in [Contracts -> Nat], NEW p, NEW c, NEW live,
           Sound(s.accounts, s.owed, p), Agrees(s.static, s.accounts, c, live),
           NEW x \in Contracts, NEW i \in Indices, i >= STATIC_STORAGE_LIMIT,
           NEW v \in Cells, NEW k, k = Key(x, Block(i)),
           NEW b, NEW w, Enters(b, w, s.accounts[k], x, i, v),
           NEW t, t = Replaced(s, k, b, w)
    PROVE  Result(t, x, i, v, p, c, live)
<1>0. b \in Account /\ w \in Nat
  BY DEF Enters
<1>1. k \in Keys /\ k[1] = x
  BY KeyIsKey, KeyOwner
<1>2. /\ s.accounts \in [Keys -> Account] /\ s.owed \in [Keys -> Nat]
      /\ t.accounts = [s.accounts EXCEPT ![k] = b]
      /\ t.owed = [s.owed EXCEPT ![k] = w]
      /\ t.static = s.static
  BY DEF FoldState, Replaced
<1>3. /\ t.accounts \in [Keys -> Account] /\ t.owed \in [Keys -> Nat]
      /\ t.accounts[k] = b /\ t.owed[k] = w
      /\ \A l \in Keys : l # k => /\ t.accounts[l] = s.accounts[l]
                                  /\ t.owed[l] = s.owed[l]
  BY <1>0, <1>1, <1>2
<1>4. Funded(b, x, w)
  <2>1. b.generation \in Nat /\ b.generation <= b.generation
    BY <1>0 DEF Account
  <2> QED BY <2>1 DEF Enters, Funded
<1>5. Sound(t.accounts, t.owed, p)
  <2>1. ASSUME NEW l \in Keys
        PROVE  /\ Funded(t.accounts[l], l[1], t.owed[l])
               /\ l \in p /\ t.accounts[l].owned =>
                     t.accounts[l].generation = generation[l[1]]
    <3>1. CASE l = k
      BY <1>1, <1>3, <1>4, <3>1 DEF Enters
    <3>2. CASE l # k
      BY <1>3, <3>2 DEF Sound
    <3> QED BY <3>1, <3>2
  <2> QED BY <1>3, <2>1 DEF Sound
<1>6. ASSUME NEW y \in Contracts, NEW j \in Indices, j >= STATIC_STORAGE_LIMIT
      PROVE  Current(t.accounts, y, j) =
                IF y = x /\ j = i THEN v ELSE Current(s.accounts, y, j)
  <2> DEFINE l == Key(y, Block(j))
  <2>1. l \in Keys /\ l[1] = y
    BY <1>6, KeyIsKey, KeyOwner
  <2>2. CASE l # k
    <3>1. ~(y = x /\ j = i)
      BY <2>2
    <3> QED BY <1>3, <2>1, <2>2, <3>1 DEF Current
  <2>3. CASE l = k
    <3>1. y = x
      BY <1>1, <2>1, <2>3
    <3>2. CASE Block(j) # Block(i)
      <4>1. Current(t.accounts, y, j) = Zero
        BY <1>3, <2>3, <3>2 DEF Current, Enters
      <4>2. Current(s.accounts, y, j) = Zero
        BY <2>3, <3>2 DEF Current, Enters
      <4> QED BY <3>2, <4>1, <4>2
    <3>3. CASE Block(j) = Block(i)
      <4>1. Current(t.accounts, y, j) = Get(b.chunks, Subindex(j))
        BY <1>3, <2>3, <3>1, <3>3 DEF Current, Enters
      <4>2. Current(s.accounts, y, j) =
               IF s.accounts[k].owned THEN Get(s.accounts[k].chunks, Subindex(j)) ELSE Zero
        BY <2>3, <3>1, <3>3 DEF Current, Enters
      <4>3. j = i <=> Subindex(j) = Subindex(i)
        BY <3>3, IndexParts
      <4> QED BY <3>1, <4>1, <4>2, <4>3 DEF Enters
    <3> QED BY <3>2, <3>3
  <2> QED BY <2>2, <2>3
<1>7. Agrees(t.static, t.accounts, [c EXCEPT ![x][i] = v], live)
  <2> DEFINE d == [c EXCEPT ![x][i] = v]
  <2>1. /\ c \in [Contracts -> [Indices -> Cells]]
        /\ \A y \in Contracts, j \in Indices :
              c[y][j] = IF j < STATIC_STORAGE_LIMIT
                        THEN IF y \in live THEN s.static[y][j] ELSE Zero
                        ELSE Current(s.accounts, y, j)
    BY DEF Agrees
  <2>2. /\ d \in [Contracts -> [Indices -> Cells]]
        /\ \A y \in Contracts, j \in Indices :
              d[y][j] = IF y = x /\ j = i THEN v ELSE c[y][j]
    BY <2>1
  <2> HIDE DEF d
  <2>3. ASSUME NEW y \in Contracts, NEW j \in Indices
        PROVE  d[y][j] = IF j < STATIC_STORAGE_LIMIT
                         THEN IF y \in live THEN t.static[y][j] ELSE Zero
                         ELSE Current(t.accounts, y, j)
    <3>1. (j < STATIC_STORAGE_LIMIT \/ j >= STATIC_STORAGE_LIMIT)
          /\ ~(j < STATIC_STORAGE_LIMIT /\ j >= STATIC_STORAGE_LIMIT)
      BY StorageAssumption, IndexParts
    <3>2. CASE j < STATIC_STORAGE_LIMIT
      BY <1>2, <2>1, <2>2, <3>1, <3>2
    <3>3. CASE j >= STATIC_STORAGE_LIMIT
      BY <1>6, <2>1, <2>2, <3>1, <3>3
    <3> QED BY <3>1, <3>2, <3>3
  <2>4. t.static \in [Contracts -> Static] /\ \A y \in Contracts \ live : t.static[y] = NoStatic
    BY <1>2 DEF Agrees
  <2>5. Agrees(t.static, t.accounts, d, live)
    BY <2>2, <2>3, <2>4 DEF Agrees
  <2> QED BY <2>5 DEF d
<1> QED BY <1>5, <1>7 DEF Result

LEMMA ReplacedType ==
    ASSUME NEW s \in FoldState, NEW k \in Keys, NEW b \in Account, NEW w \in Nat
    PROVE  Replaced(s, k, b, w) \in FoldState
BY DEF FoldState, Replaced

LEMMA Rechunked ==
    ASSUME NEW a \in Account, NEW chunks \in Seq(Chunk)
    PROVE  [a EXCEPT !.chunks = chunks] =
              [owned |-> a.owned, index |-> a.index, generation |-> a.generation,
               chunks |-> chunks, lamports |-> a.lamports]
BY DEF Account

\* The account a with the entries chunks.
WithChunks(a, chunks) ==
    [owned |-> a.owned, index |-> a.index, generation |-> a.generation,
     chunks |-> chunks, lamports |-> a.lamports]

\* EthereumStorage::set of a cell without an entry leaves an account that
\* will be rent-exempt when it gets what it is owed.
Appended(s, k, sub, v) == Append(s.accounts[k].chunks, [sub |-> sub, value |-> v])

Due(s, k, chunks) ==
    LET need == MinimumBalance(chunks) - s.accounts[k].lamports
    IN  IF need > 0 THEN need ELSE s.owed[k]

IsAdded(t, b, w, chunks, s, k, sub, v) ==
    /\ t = Added(s, k, sub, v)
    /\ chunks = Appended(s, k, sub, v)
    /\ b = WithChunks(s.accounts[k], chunks)
    /\ w = Due(s, k, chunks)

LEMMA AddedIs ==
    ASSUME NEW s \in FoldState, NEW k \in Keys, NEW sub, sub \in Nat, NEW v \in Cells,
           NEW chunks, NEW b, NEW w, NEW t, IsAdded(t, b, w, chunks, s, k, sub, v)
    PROVE  /\ t \in FoldState /\ t = Replaced(s, k, b, w)
           /\ b \in Account /\ w \in Nat
           /\ b.lamports + w >= MinimumBalance(chunks)
<1> DEFINE a == s.accounts[k]
<1>1. a \in Account /\ s.owed[k] \in Nat /\ s.accounts \in [Keys -> Account]
      /\ s.owed \in [Keys -> Nat]
  BY DEF FoldState
<1>2. chunks \in Seq(Chunk)
  BY <1>1 DEF Account, Chunk, Appended, IsAdded
<1>3. MinimumBalance(chunks) \in Nat /\ a.lamports \in Nat
  <2>1. Len(chunks) \in Nat
    BY <1>2
  <2> QED BY <1>1, <2>1 DEF MinimumBalance, Account
<1>4. w \in Nat /\ a.lamports + w >= MinimumBalance(chunks)
  BY <1>1, <1>3 DEF Due, IsAdded
<1>5. b \in Account /\ b.lamports = a.lamports
  BY <1>1, <1>2 DEF Account, WithChunks, IsAdded
<1>6. t = [s EXCEPT !.accounts[k].chunks = chunks, !.owed[k] = w]
  BY DEF Added, Owed, Due, Appended, IsAdded
<1>7. [s.accounts EXCEPT ![k].chunks = chunks] = [s.accounts EXCEPT ![k] = b]
  <2>1. [a EXCEPT !.chunks = chunks] = b
    BY <1>1, <1>2, Rechunked DEF WithChunks, IsAdded
  <2> QED BY <2>1
<1>8. t = Replaced(s, k, b, w)
  BY <1>6, <1>7 DEF Replaced, FoldState
<1>9. t \in FoldState
  BY <1>4, <1>5, <1>8, ReplacedType
<1> QED BY <1>4, <1>5, <1>8, <1>9

SetAt(s, k, n, v) == [s EXCEPT !.accounts[k].chunks[n].value = v]

ChunksSet(s, k, n, v) == [s.accounts[k].chunks EXCEPT ![n].value = v]

\* EthereumStorage::set of a cell that has an entry.
LEMMA SetAtIs ==
    ASSUME NEW s \in FoldState, NEW k \in Keys, NEW v \in Cells,
           NEW n \in DOMAIN s.accounts[k].chunks,
           NEW chunks, chunks = ChunksSet(s, k, n, v),
           NEW b, b = WithChunks(s.accounts[k], chunks),
           NEW t, t = SetAt(s, k, n, v)
    PROVE  /\ t \in FoldState /\ t = Replaced(s, k, b, s.owed[k])
           /\ b \in Account
<1> DEFINE a == s.accounts[k]
           old == a.chunks
<1>1. a \in Account /\ s.owed[k] \in Nat /\ s.accounts \in [Keys -> Account]
      /\ s.owed \in [Keys -> Nat]
  BY DEF FoldState
<1>2. old \in Seq(Chunk)
  BY <1>1 DEF Account
<1>3. chunks \in Seq(Chunk)
  <2>1. old[n] \in Chunk
    BY <1>2, ElementOfSeq
  <2>2. [old[n] EXCEPT !.value = v] \in Chunk
    BY <2>1 DEF Chunk
  <2>3. chunks = [old EXCEPT ![n] = [old[n] EXCEPT !.value = v]]
    BY DEF ChunksSet
  <2>4. n \in 1..Len(old)
    BY <1>2
  <2> HIDE DEF old
  <2> QED BY <1>2, <2>2, <2>3, <2>4, ExceptSeq
<1>4. t = [s EXCEPT !.accounts[k].chunks = chunks]
  BY DEF SetAt, ChunksSet
<1> HIDE DEF old
<1>5. b \in Account
  BY <1>1, <1>3 DEF Account, WithChunks
<1>6. [s.accounts EXCEPT ![k].chunks = chunks] = [s.accounts EXCEPT ![k] = b]
  <2>1. [a EXCEPT !.chunks = chunks] = b
    BY <1>1, <1>3, Rechunked DEF WithChunks
  <2> QED BY <2>1
<1>7. [s.owed EXCEPT ![k] = s.owed[k]] = s.owed
  BY <1>1
<1>8. t = Replaced(s, k, b, s.owed[k])
  BY <1>4, <1>6, <1>7 DEF Replaced, FoldState
<1>9. t \in FoldState
  BY <1>1, <1>5, <1>8, ReplacedType
<1> QED BY <1>5, <1>8, <1>9

\* EthereumStorage::create.
FirstChunk(i, v) == <<[sub |-> Subindex(i), value |-> v]>>

CreatedAccount(s, x, i, v) ==
    LET rent == MinimumBalance(FirstChunk(i, v))
        old == s.accounts[Key(x, Block(i))].lamports
    IN  [owned |-> TRUE, index |-> Block(i), generation |-> generation[x],
         chunks |-> FirstChunk(i, v), lamports |-> IF old > rent THEN old ELSE rent]

LEMMA CreatedIs ==
    ASSUME NEW s \in FoldState, generation \in [Contracts -> Nat],
           NEW x \in Contracts, NEW i \in Indices, i >= STATIC_STORAGE_LIMIT,
           NEW v \in Cells, NEW k, k = Key(x, Block(i)),
           NEW b, b = CreatedAccount(s, x, i, v),
           NEW t, t = Created(s, x, Block(i), Subindex(i), v)
    PROVE  /\ t \in FoldState /\ t = Replaced(s, k, b, s.owed[k])
           /\ b \in Account /\ b.owned /\ b.chunks = FirstChunk(i, v)
           /\ b.index = Block(i) /\ b.generation = generation[x]
           /\ b.lamports + s.owed[k] >= MinimumBalance(b.chunks)
<1> DEFINE rent == MinimumBalance(FirstChunk(i, v))
           old == s.accounts[k].lamports
           lamports == IF old > rent THEN old ELSE rent
<1>1. /\ k \in Keys /\ s.accounts \in [Keys -> Account] /\ s.owed \in [Keys -> Nat]
      /\ old \in Nat /\ s.owed[k] \in Nat
  BY KeyIsKey DEF FoldState, Account
<1>2. FirstChunk(i, v) \in Seq(Chunk)
  BY IndexParts DEF Chunk, FirstChunk
<1>3. rent = 2
  BY DEF MinimumBalance, FirstChunk
<1>4. t = [s EXCEPT !.accounts[k] = b]
  BY DEF Created, CreatedAccount, FirstChunk
<1>5. b = [owned |-> TRUE, index |-> Block(i), generation |-> generation[x],
           chunks |-> FirstChunk(i, v), lamports |-> lamports]
  BY DEF CreatedAccount
<1> HIDE DEF rent
<1>6. lamports \in Nat /\ lamports + s.owed[k] >= rent
  BY <1>1, <1>3
<1> HIDE DEF lamports
<1>7. b \in Account
  BY <1>2, <1>5, <1>6, IndexParts DEF Account
<1>8. [s.owed EXCEPT ![k] = s.owed[k]] = s.owed
  BY <1>1
<1>9. t = Replaced(s, k, b, s.owed[k])
  BY <1>4, <1>8 DEF Replaced, FoldState
<1>10. t \in FoldState
  BY <1>1, <1>7, <1>9, ReplacedType
<1> QED BY <1>5, <1>6, <1>7, <1>9, <1>10 DEF rent

\* The cases of apply_storage.
StaticWrite(s, a) == [s EXCEPT !.static[a.address][a.index] = a.value]

KeyOf(a) == Key(a.address, Block(a.index))

LEMMA WrittenCases ==
    ASSUME NEW s \in FoldState, NEW a \in Writes, s.ok
    PROVE  \/ /\ a.index < STATIC_STORAGE_LIMIT
              /\ Written(s, a) = StaticWrite(s, a)
           \/ /\ a.index >= STATIC_STORAGE_LIMIT
              /\ Present(s.accounts, a.address, Block(a.index))
              /\ Written(s, a) = Set(s, KeyOf(a), Subindex(a.index), a.value)
           \/ Written(s, a) = [s EXCEPT !.ok = FALSE]
           \/ /\ a.index >= STATIC_STORAGE_LIMIT
              /\ ~s.accounts[KeyOf(a)].owned /\ a.value = Zero
              /\ Written(s, a) = s
           \/ /\ a.index >= STATIC_STORAGE_LIMIT
              /\ ~s.accounts[KeyOf(a)].owned
              /\ Written(s, a) =
                   Created(s, a.address, Block(a.index), Subindex(a.index), a.value)
<1>1. a.index \in Nat /\ STATIC_STORAGE_LIMIT \in Nat
  BY StorageAssumption DEF Writes, Indices
<1>2. a.index < STATIC_STORAGE_LIMIT \/ a.index >= STATIC_STORAGE_LIMIT
  BY <1>1
<1> QED BY <1>1, <1>2 DEF Written, StaticWrite, KeyOf

LEMMA StaticWriteType ==
    ASSUME NEW s \in FoldState, NEW a \in Writes, a.index < STATIC_STORAGE_LIMIT,
           NEW t, t = StaticWrite(s, a)
    PROVE  /\ t \in FoldState /\ t.ok = s.ok
           /\ t.accounts = s.accounts /\ t.owed = s.owed
           /\ t.static \in [Contracts -> Static]
           /\ \A y \in Contracts, j \in 0..(STATIC_STORAGE_LIMIT - 1) :
                 t.static[y][j] = IF y = a.address /\ j = a.index THEN a.value
                                  ELSE s.static[y][j]
           /\ \A y \in Contracts : y # a.address => t.static[y] = s.static[y]
<1> DEFINE x == a.address
           i == a.index
           v == a.value
           static2 == [s.static EXCEPT ![x] = [@ EXCEPT ![i] = v]]
<1>1. /\ x \in Contracts /\ i \in 0..(STATIC_STORAGE_LIMIT - 1) /\ v \in Cells
  BY StorageAssumption DEF Writes, Indices
<1>2. /\ s.static \in [Contracts -> Static] /\ s.accounts \in [Keys -> Account]
      /\ s.owed \in [Keys -> Nat] /\ s.ok \in BOOLEAN
  BY DEF FoldState
<1>3. t = [s EXCEPT !.static = static2]
  BY DEF StaticWrite
<1> HIDE DEF x, i, v
<1>4. /\ static2 \in [Contracts -> Static]
      /\ \A y \in Contracts, j \in 0..(STATIC_STORAGE_LIMIT - 1) :
            static2[y][j] = IF y = x /\ j = i THEN v ELSE s.static[y][j]
      /\ \A y \in Contracts : y # x => static2[y] = s.static[y]
  BY <1>1, <1>2 DEF Static
<1> HIDE DEF static2
<1>5. /\ t = [ok |-> s.ok, static |-> static2, accounts |-> s.accounts, owed |-> s.owed]
      /\ t \in FoldState
  BY <1>2, <1>3, <1>4 DEF FoldState
<1> QED BY <1>4, <1>5 DEF x, i, v

LEMMA WrittenType ==
    ASSUME NEW s \in FoldState, NEW a \in Writes, generation \in [Contracts -> Nat]
    PROVE  Written(s, a) \in FoldState
<1>1. /\ a.address \in Contracts /\ a.index \in Indices /\ a.value \in Cells
      /\ Subindex(a.index) \in Nat
  BY IndexParts DEF Writes
<1>2. s.owed \in [Keys -> Nat] /\ s.accounts \in [Keys -> Account]
  BY DEF FoldState
<1>3. CASE ~s.ok
  BY <1>3 DEF Written
<1>4. CASE s.ok /\ a.index < STATIC_STORAGE_LIMIT /\ Written(s, a) = StaticWrite(s, a)
  BY <1>4, StaticWriteType
<1>5. CASE /\ a.index >= STATIC_STORAGE_LIMIT
           /\ Written(s, a) = Set(s, KeyOf(a), Subindex(a.index), a.value)
  <2> DEFINE k == KeyOf(a)
             sub == Subindex(a.index)
             n == ChunkOf(s.accounts[k].chunks, sub)
  <2>1. k \in Keys /\ s.accounts[k].chunks \in Seq(Chunk)
    BY <1>1, <1>2, <1>5, KeyIsKey DEF KeyOf, Account
  <2>2. CASE n = 0
    <3>1. Written(s, a) = Added(s, k, sub, a.value)
      BY <1>5, <2>2 DEF Set
    <3> HIDE DEF k, sub
    <3>2. Added(s, k, sub, a.value) \in FoldState
      <4>1. sub \in Nat /\ a.value \in Cells /\ k \in Keys
        BY <1>1, <2>1 DEF sub
      <4>2. PICK t, b, w, chunks : IsAdded(t, b, w, chunks, s, k, sub, a.value)
        BY DEF IsAdded
      <4>3. t \in FoldState
        BY <4>1, <4>2, AddedIs
      <4> QED BY <4>2, <4>3 DEF IsAdded
    <3> QED BY <3>1, <3>2
  <2>3. CASE n # 0
    <3>1. n \in DOMAIN s.accounts[k].chunks
      BY <2>1, <2>3, ChunkOfFinds
    <3>2. Written(s, a) = SetAt(s, k, n, a.value)
      BY <1>5, <2>3 DEF Set, SetAt
    <3> HIDE DEF k, n
    <3>3. SetAt(s, k, n, a.value) \in FoldState
      <4>1. a.value \in Cells
        BY <1>1
      <4> QED BY <2>1, <3>1, <4>1, SetAtIs
    <3> QED BY <3>2, <3>3
  <2> QED BY <2>2, <2>3
<1>6. CASE Written(s, a) = [s EXCEPT !.ok = FALSE]
  BY <1>6 DEF FoldState
<1>7. CASE Written(s, a) = s
  BY <1>7
<1>8. CASE /\ a.index >= STATIC_STORAGE_LIMIT
           /\ Written(s, a) =
                Created(s, a.address, Block(a.index), Subindex(a.index), a.value)
  <2> DEFINE x == a.address
             i == a.index
             k == Key(x, Block(i))
  <2>1. x \in Contracts /\ i \in Indices /\ i >= STATIC_STORAGE_LIMIT /\ a.value \in Cells
    BY <1>1, <1>8
  <2> HIDE DEF x, i
  <2>2. Created(s, x, Block(i), Subindex(i), a.value) \in FoldState
    BY <2>1, CreatedIs
  <2> QED BY <1>8, <2>2 DEF x, i
<1> QED BY <1>3, <1>4, <1>5, <1>6, <1>7, <1>8, WrittenCases

LEMMA StaticWriteSound ==
    ASSUME NEW s \in FoldState, NEW p, NEW c, NEW live,
           Sound(s.accounts, s.owed, p), Agrees(s.static, s.accounts, c, live),
           NEW a \in Writes, a.index < STATIC_STORAGE_LIMIT, a.address \in live
    PROVE  Result(StaticWrite(s, a), a.address, a.index, a.value, p, c, live)
<1> DEFINE t == StaticWrite(s, a)
           x == a.address
           i == a.index
           v == a.value
           d == [c EXCEPT ![x][i] = v]
<1>1. /\ t.accounts = s.accounts /\ t.owed = s.owed
      /\ t.static \in [Contracts -> Static]
      /\ \A y \in Contracts, j \in 0..(STATIC_STORAGE_LIMIT - 1) :
            t.static[y][j] = IF y = x /\ j = i THEN v ELSE s.static[y][j]
      /\ \A y \in Contracts : y # x => t.static[y] = s.static[y]
  BY StaticWriteType
<1>2. x \in Contracts /\ i \in Indices /\ v \in Cells /\ x \in live
      /\ i < STATIC_STORAGE_LIMIT
  BY DEF Writes
<1> HIDE DEF t, x, i, v
<1>3. /\ c \in [Contracts -> [Indices -> Cells]]
      /\ \A y \in Contracts, j \in Indices :
            c[y][j] = IF j < STATIC_STORAGE_LIMIT
                      THEN IF y \in live THEN s.static[y][j] ELSE Zero
                      ELSE Current(s.accounts, y, j)
  BY DEF Agrees
<1>4. /\ d \in [Contracts -> [Indices -> Cells]]
      /\ \A y \in Contracts, j \in Indices :
            d[y][j] = IF y = x /\ j = i THEN v ELSE c[y][j]
  BY <1>2, <1>3
<1> HIDE DEF d
<1>5. ASSUME NEW y \in Contracts, NEW j \in Indices
      PROVE  d[y][j] = IF j < STATIC_STORAGE_LIMIT
                       THEN IF y \in live THEN t.static[y][j] ELSE Zero
                       ELSE Current(t.accounts, y, j)
  <2>1. CASE j < STATIC_STORAGE_LIMIT
    <3>1. j \in 0..(STATIC_STORAGE_LIMIT - 1)
      BY <2>1, StorageAssumption, IndexParts
    <3> QED BY <1>1, <1>2, <1>3, <1>4, <2>1, <3>1
  <2>2. CASE ~(j < STATIC_STORAGE_LIMIT)
    <3>1. d[y][j] = c[y][j]
      BY <1>2, <1>4, <2>2
    <3> QED BY <1>1, <1>3, <2>2, <3>1
  <2> QED BY <2>1, <2>2
<1>6. \A y \in Contracts \ live : t.static[y] = NoStatic
  BY <1>1, <1>2 DEF Agrees
<1>7. Sound(t.accounts, t.owed, p) /\ Agrees(t.static, t.accounts, d, live)
  BY <1>1, <1>4, <1>5, <1>6 DEF Agrees
<1> QED BY <1>7 DEF Result, d, t, x, i, v

\* A write of zero to a storage account that is not there.
LEMMA NothingWrittenSound ==
    ASSUME NEW s \in FoldState, NEW p, NEW c, NEW live,
           Sound(s.accounts, s.owed, p), Agrees(s.static, s.accounts, c, live),
           NEW x \in Contracts, NEW i \in Indices, i >= STATIC_STORAGE_LIMIT,
           ~s.accounts[Key(x, Block(i))].owned
    PROVE  Result(s, x, i, Zero, p, c, live)
<1>1. Current(s.accounts, x, i) = Zero
  BY DEF Current
<1>2. ~(i < STATIC_STORAGE_LIMIT)
  BY StorageAssumption, IndexParts
<1>3. c[x][i] = Zero /\ c \in [Contracts -> [Indices -> Cells]]
  BY <1>1, <1>2 DEF Agrees
<1>4. [c EXCEPT ![x][i] = Zero] = c
  BY <1>3
<1> QED BY <1>4 DEF Result

LEMMA PresentSound ==
    ASSUME NEW s \in FoldState, generation \in [Contracts -> Nat], NEW p, NEW c, NEW live,
           Sound(s.accounts, s.owed, p), Agrees(s.static, s.accounts, c, live),
           NEW x \in Contracts, NEW i \in Indices, i >= STATIC_STORAGE_LIMIT,
           NEW v \in Cells, NEW k, k = Key(x, Block(i)), k \in p,
           Present(s.accounts, x, Block(i)),
           NEW sub, sub = Subindex(i), NEW t, t = Set(s, k, sub, v)
    PROVE  Result(t, x, i, v, p, c, live)
<1> DEFINE a == s.accounts[k]
           old == a.chunks
           n == ChunkOf(old, sub)
<1>1. /\ k \in Keys /\ k[1] = x /\ sub \in Nat
      /\ a \in Account /\ s.owed[k] \in Nat /\ old \in Seq(Chunk)
  BY KeyIsKey, KeyOwner, IndexParts DEF FoldState, Account
<1>2. /\ a.owned /\ a.index = Block(i) /\ a.generation = generation[x]
      /\ OneEach(old) /\ a.lamports + s.owed[k] >= MinimumBalance(old)
  BY <1>1 DEF Present, Sound, Funded
<1>3. CASE n = 0
  <2> DEFINE chunks == Appended(s, k, sub, v)
             b == WithChunks(a, chunks)
             w == Due(s, k, chunks)
  <2>1. t = Added(s, k, sub, v)
    BY <1>3 DEF Set
  <2>2. ~Has(old, sub)
    BY <1>1, <1>3, ChunkOfFinds
  <2>3. /\ b.owned = a.owned /\ b.index = a.index /\ b.generation = a.generation
        /\ b.chunks = chunks
    BY DEF WithChunks
  <2>4. WithEntry(chunks, old, sub, v)
    BY DEF Appended, WithEntry
  <2>5. /\ t = Replaced(s, k, b, w)
        /\ b \in Account /\ w \in Nat
        /\ b.lamports + w >= MinimumBalance(chunks)
    <3>1. IsAdded(t, b, w, chunks, s, k, sub, v)
      BY <2>1 DEF IsAdded
    <3> HIDE DEF chunks, b, w, old, n, a
    <3> QED BY <1>1, <3>1, AddedIs
  <2> HIDE DEF chunks, b, w, old, n
  <2>6. OneEach(chunks) /\ ReadsAs(chunks, old, sub, v)
    BY <1>1, <1>2, <2>2, <2>4, GetAppended
  <2>7. Enters(b, w, a, x, i, v)
    BY <1>2, <2>3, <2>5, <2>6 DEF Enters, ReadsAs, old
  <2> HIDE DEF a
  <2> QED BY <2>5, <2>7, EnteredSound DEF a
<1>4. CASE n # 0
  <2> DEFINE chunks == ChunksSet(s, k, n, v)
             b == WithChunks(a, chunks)
             w == s.owed[k]
  <2>1. n \in DOMAIN old /\ old[n].sub = sub
    BY <1>1, <1>4, ChunkOfFinds
  <2>2. t = SetAt(s, k, n, v)
    BY <1>4 DEF Set, SetAt
  <2>3. /\ b.owned = a.owned /\ b.index = a.index /\ b.generation = a.generation
        /\ b.chunks = chunks /\ b.lamports = a.lamports
    BY DEF WithChunks
  <2> HIDE DEF n
  <2>4. WithValue(chunks, old, n, v)
    BY DEF ChunksSet, WithValue
  <2>5. t = Replaced(s, k, b, w) /\ b \in Account
    <3> HIDE DEF chunks, b
    <3> QED BY <1>1, <2>1, <2>2, SetAtIs DEF chunks, b
  <2> HIDE DEF chunks, b, old
  <2>6. /\ OneEach(chunks) /\ Len(chunks) = Len(old)
        /\ ReadsAs(chunks, old, sub, v)
    BY <1>1, <1>2, <2>1, <2>4, GetReplaced
  <2>7. b.lamports + w >= MinimumBalance(chunks)
    BY <1>2, <2>3, <2>6 DEF MinimumBalance, old
  <2>8. Enters(b, w, a, x, i, v)
    BY <1>1, <1>2, <2>3, <2>5, <2>6, <2>7 DEF Enters, ReadsAs, old
  <2> HIDE DEF a
  <2> QED BY <2>5, <2>8, EnteredSound DEF a
<1> QED BY <1>3, <1>4

LEMMA CreatedSound ==
    ASSUME NEW s \in FoldState, generation \in [Contracts -> Nat], NEW p, NEW c, NEW live,
           Sound(s.accounts, s.owed, p), Agrees(s.static, s.accounts, c, live),
           NEW x \in Contracts, NEW i \in Indices, i >= STATIC_STORAGE_LIMIT,
           NEW v \in Cells, NEW k, k = Key(x, Block(i)), ~s.accounts[k].owned,
           NEW t, t = Created(s, x, Block(i), Subindex(i), v)
    PROVE  Result(t, x, i, v, p, c, live)
<1> DEFINE sub == Subindex(i)
           b == CreatedAccount(s, x, i, v)
<1>1. k \in Keys /\ sub \in Nat /\ s.owed[k] \in Nat
  BY KeyIsKey, IndexParts DEF FoldState
<1>2. /\ t = Replaced(s, k, b, s.owed[k])
      /\ b \in Account /\ b.owned /\ b.chunks = FirstChunk(i, v)
      /\ b.index = Block(i) /\ b.generation = generation[x]
      /\ b.lamports + s.owed[k] >= MinimumBalance(b.chunks)
  <2> HIDE DEF b
  <2> QED BY CreatedIs DEF b
<1>3. WithEntry(FirstChunk(i, v), <<>>, sub, v)
  BY DEF FirstChunk, WithEntry
<1> HIDE DEF b, sub
<1>4. /\ OneEach(b.chunks)
      /\ \A u : Get(b.chunks, u) = IF u = sub THEN v ELSE Zero
  <2>1. ~Has(<<>>, sub)
    BY DEF Has
  <2>2. <<>> \in Seq(Chunk) /\ OneEach(<<>>)
    BY EmptySound
  <2>3. sub \in Nat
    BY <1>1
  <2>4. OneEach(FirstChunk(i, v))
    BY <1>3, <2>1, <2>2, <2>3, GetAppended
  <2>5. ReadsAs(FirstChunk(i, v), <<>>, sub, v)
    BY <1>3, <2>1, <2>2, <2>3, GetAppended
  <2> QED BY <1>2, <2>4, <2>5, EmptySound DEF ReadsAs
<1>5. Enters(b, s.owed[k], s.accounts[k], x, i, v)
  BY <1>1, <1>2, <1>4 DEF Enters, sub
<1> QED BY <1>2, <1>5, EnteredSound

\* apply_storage: a write that succeeds changes the cell it is meant for and
\* no other.
LEMMA WrittenSound ==
    ASSUME NEW s \in FoldState, generation \in [Contracts -> Nat], NEW p, NEW c, NEW live,
           Sound(s.accounts, s.owed, p), Agrees(s.static, s.accounts, c, live), s.ok,
           NEW a \in Writes, a.address \in live,
           a.index >= STATIC_STORAGE_LIMIT => KeyOf(a) \in p,
           NEW t, t = Written(s, a), t.ok
    PROVE  Result(t, a.address, a.index, a.value, p, c, live)
<1> DEFINE x == a.address
           i == a.index
           v == a.value
           k == KeyOf(a)
           sub == Subindex(i)
<1>1. x \in Contracts /\ i \in Indices /\ v \in Cells /\ k = Key(x, Block(i))
  BY DEF Writes, KeyOf
<1>2. CASE i < STATIC_STORAGE_LIMIT /\ t = StaticWrite(s, a)
  BY <1>2, StaticWriteSound
<1>3. CASE /\ i >= STATIC_STORAGE_LIMIT /\ Present(s.accounts, x, Block(i))
           /\ t = Set(s, k, sub, v)
  <2>1. k \in p /\ sub = Subindex(i)
    BY <1>3
  <2> HIDE DEF k, x, i, v, sub
  <2> QED BY <1>1, <1>3, <2>1, PresentSound DEF x, i, v
<1>4. CASE t = [s EXCEPT !.ok = FALSE]
  BY <1>4 DEF FoldState
<1>5. CASE i >= STATIC_STORAGE_LIMIT /\ ~s.accounts[k].owned /\ v = Zero /\ t = s
  <2> HIDE DEF k, x, i, v
  <2> QED BY <1>1, <1>5, NothingWrittenSound DEF x, i, v
<1>6. CASE /\ i >= STATIC_STORAGE_LIMIT /\ ~s.accounts[k].owned
           /\ t = Created(s, x, Block(i), sub, v)
  <2>1. t = Created(s, x, Block(i), Subindex(i), v)
    BY <1>6
  <2> HIDE DEF k, x, i, v, sub
  <2> QED BY <1>1, <1>6, <2>1, CreatedSound DEF x, i, v
<1> QED BY <1>2, <1>3, <1>4, <1>5, <1>6, WrittenCases

-----------------------------------------------------------------------------
(* apply_state_change: the writes of a transaction, one after the other *)

AllWritten(base, ws) == FoldLeft(Written, base, ws)

\* h gives the fold after the first k writes, at 1..k.
WriteSteps(h, n, base, ws) ==
    /\ h[1..0] = base
    /\ \A k \in 1..n : h[1..k] = Written(h[1..(k - 1)], ws[k])

LEMMA WritesFold ==
    ASSUME NEW n \in Nat, NEW ws \in [1..n -> Writes], generation \in [Contracts -> Nat],
           NEW base \in FoldState
    PROVE  \E h : WriteSteps(h, n, base, ws) /\ AllWritten(base, ws) = h[1..n]
<1> DEFINE S == 1..n
           Folds(g) == g = [s \in SUBSET S |->
                              IF s = {} THEN base
                              ELSE Written(g[s \ {Max(s)}], ws[Max(s)])]
           iter == CHOOSE g : Folds(g)
           step == [k \in S |-> [v \in FoldState |-> Written(v, ws[k])]]
<1>1. \A k \in S : ws[k] \in Writes
  OBVIOUS
<1>2. \A k \in S, v \in FoldState : Written(v, ws[k]) \in FoldState
  BY <1>1, WrittenType
<1>3. StepsOver(step, n, FoldState)
  BY <1>2 DEF StepsOver
<1> HIDE DEF step
<1>4. PICK h \in [SUBSET S -> FoldState] : Iteration(h, n, base, step)
  BY <1>3, SequenceRecursion
<1>5. \A s \in SUBSET S : s # {} => Max(s) \in S /\ s \ {Max(s)} \in SUBSET S
  BY MaxIsLargest
<1>6. Folds(h)
  <2>1. \A s \in SUBSET S : s # {} => h[s] = Written(h[s \ {Max(s)}], ws[Max(s)])
    BY <1>4, <1>5 DEF Iteration, step
  <2>2. h[{}] = base /\ h = [s \in SUBSET S |-> h[s]]
    BY <1>4 DEF Iteration
  <2> QED BY <2>1, <2>2
<1>7. Folds(iter)
  BY <1>6
<1>8. AllWritten(base, ws) = iter[S]
  <2>1. DOMAIN ws = S
    OBVIOUS
  <2> QED BY <2>1 DEF AllWritten, FoldLeft, MapThenFoldSet
<1> HIDE DEF iter
<1>9. /\ iter[{}] = base
      /\ \A s \in SUBSET S : s # {} => iter[s] = Written(iter[s \ {Max(s)}], ws[Max(s)])
  BY <1>7
<1>10. 1..0 = {} /\ iter[1..0] = base
  BY <1>9
<1>11. ASSUME NEW k \in 1..n PROVE iter[1..k] = Written(iter[1..(k - 1)], ws[k])
  <2>1. 1..k \in SUBSET S /\ k \in Nat \ {0}
    OBVIOUS
  <2> QED BY <1>9, <2>1, MaxOfPrefix
<1>12. WriteSteps(iter, n, base, ws)
  BY <1>10, <1>11 DEF WriteSteps
<1> QED BY <1>8, <1>12

Memory == [Contracts -> [Indices -> Cells]]

Noted(c, a) == [c EXCEPT ![a.address][a.index] = a.value]

AllNoted(base, ws) ==
    FoldLeft(LAMBDA c, a : [c EXCEPT ![a.address][a.index] = a.value], base, ws)

NoteSteps(h, n, base, ws) ==
    /\ h[1..0] = base
    /\ \A k \in 1..n : h[1..k] = Noted(h[1..(k - 1)], ws[k])

LEMMA CellsFold ==
    ASSUME NEW n \in Nat, NEW ws \in [1..n -> Writes], NEW base \in Memory
    PROVE  \E h : NoteSteps(h, n, base, ws) /\ AllNoted(base, ws) = h[1..n]
<1> DEFINE S == 1..n
           Folds(g) == g = [s \in SUBSET S |->
                              IF s = {} THEN base
                              ELSE Noted(g[s \ {Max(s)}], ws[Max(s)])]
           iter == CHOOSE g : Folds(g)
           step == [k \in S |-> [v \in Memory |-> Noted(v, ws[k])]]
<1>1. \A k \in S, v \in Memory : Noted(v, ws[k]) \in Memory
  <2> SUFFICES ASSUME NEW k \in S, NEW v \in Memory PROVE Noted(v, ws[k]) \in Memory
    OBVIOUS
  <2>1. /\ ws[k].address \in Contracts /\ ws[k].index \in Indices /\ ws[k].value \in Cells
    BY DEF Writes
  <2> QED BY <2>1 DEF Noted, Memory
<1>2. StepsOver(step, n, Memory)
  BY <1>1 DEF StepsOver
<1> HIDE DEF step
<1>3. PICK h \in [SUBSET S -> Memory] : Iteration(h, n, base, step)
  BY <1>2, SequenceRecursion
<1>4. \A s \in SUBSET S : s # {} => Max(s) \in S /\ s \ {Max(s)} \in SUBSET S
  BY MaxIsLargest
<1>5. Folds(h)
  <2>1. \A s \in SUBSET S : s # {} => h[s] = Noted(h[s \ {Max(s)}], ws[Max(s)])
    BY <1>3, <1>4 DEF Iteration, step
  <2>2. h[{}] = base /\ h = [s \in SUBSET S |-> h[s]]
    BY <1>3 DEF Iteration
  <2> QED BY <2>1, <2>2
<1>6. Folds(iter)
  BY <1>5
<1>7. AllNoted(base, ws) = iter[S]
  <2>1. DOMAIN ws = S
    OBVIOUS
  <2> QED BY <2>1 DEF AllNoted, FoldLeft, MapThenFoldSet, Noted
<1> HIDE DEF iter
<1>8. /\ iter[{}] = base
      /\ \A s \in SUBSET S : s # {} => iter[s] = Noted(iter[s \ {Max(s)}], ws[Max(s)])
  BY <1>6
<1>9. 1..0 = {} /\ iter[1..0] = base
  BY <1>8
<1>10. ASSUME NEW k \in 1..n PROVE iter[1..k] = Noted(iter[1..(k - 1)], ws[k])
  <2>1. 1..k \in SUBSET S /\ k \in Nat \ {0}
    OBVIOUS
  <2> QED BY <1>8, <2>1, MaxOfPrefix
<1>11. NoteSteps(iter, n, base, ws)
  BY <1>9, <1>10 DEF NoteSteps
<1> QED BY <1>7, <1>11

\* What the fold keeps: when every write succeeded, the accounts are sound and
\* hold what the writes left in the cells.
Kept(s, c, p, live) ==
    s.ok => Sound(s.accounts, s.owed, p) /\ Agrees(s.static, s.accounts, c, live)

LEMMA AppliedSound ==
    ASSUME NEW n \in Nat, NEW ws \in [1..n -> Writes], generation \in [Contracts -> Nat],
           NEW base \in FoldState, NEW c \in Memory, NEW p, NEW live,
           Kept(base, c, p, live),
           \A k \in 1..n : /\ ws[k].address \in live
                           /\ ws[k].index >= STATIC_STORAGE_LIMIT => KeyOf(ws[k]) \in p,
           NEW s, s = AllWritten(base, ws), NEW d, d = AllNoted(c, ws)
    PROVE  s \in FoldState /\ Kept(s, d, p, live)
<1>1. PICK h : WriteSteps(h, n, base, ws) /\ s = h[1..n]
  BY WritesFold
<1>2. PICK g : NoteSteps(g, n, c, ws) /\ d = g[1..n]
  BY CellsFold
<1> DEFINE Inv(k) == h[1..k] \in FoldState /\ Kept(h[1..k], g[1..k], p, live)
           T == {k \in Nat : k <= n => Inv(k)}
<1>3. 0 \in T
  BY <1>1, <1>2 DEF WriteSteps, NoteSteps
<1>4. ASSUME NEW j \in Nat, j \in T PROVE j + 1 \in T
  <2> DEFINE k == j + 1
             a == ws[k]
             before == h[1..j]
             old == g[1..j]
             t == h[1..k]
  <2>0. SUFFICES ASSUME j + 1 <= n PROVE Inv(k)
    BY <1>4
  <2>1. k \in 1..n /\ k - 1 = j
    BY <2>0
  <2>2. before \in FoldState /\ Kept(before, old, p, live)
    BY <1>4, <2>0
  <2>3. t = Written(before, a) /\ g[1..k] = Noted(old, a)
    BY <1>1, <1>2, <2>1 DEF WriteSteps, NoteSteps
  <2>4. /\ a \in Writes /\ a.address \in live
        /\ a.index >= STATIC_STORAGE_LIMIT => KeyOf(a) \in p
    BY <2>1
  <2> HIDE DEF a, before, old, t, k
  <2>5. t \in FoldState
    BY <2>2, <2>3, <2>4, WrittenType
  <2>6. ASSUME t.ok PROVE Kept(t, Noted(old, a), p, live)
    <3>1. before.ok
      <4>1. CASE ~before.ok
        BY <2>3, <2>6, <4>1 DEF Written
      <4> QED BY <4>1
    <3>2. Result(t, a.address, a.index, a.value, p, old, live)
      BY <2>2, <2>3, <2>4, <2>6, <3>1, WrittenSound DEF Kept
    <3> QED BY <3>2 DEF Result, Kept, Noted
  <2>7. Kept(t, g[1..k], p, live)
    BY <2>3, <2>6 DEF Kept
  <2> QED BY <2>5, <2>7 DEF t
<1> HIDE DEF Inv
<1>5. \A k \in Nat : k \in T
  <2> HIDE DEF T
  <2> QED BY <1>3, <1>4, NumberInduction
<1>6. Inv(n)
  BY <1>5
<1> QED BY <1>1, <1>2, <1>6 DEF Inv

-----------------------------------------------------------------------------
(* The invariant *)

NoneOwed == [k \in Keys |-> 0]

\* What is sound between instructions, whichever accounts were passed.
LEMMA StorageInvIs ==
    ASSUME deployed \subseteq Contracts, generation \in [Contracts -> Nat], NEW p,
           Sound(accounts, NoneOwed, p), Agrees(static, accounts, cells, deployed)
    PROVE  StorageInv
BY DEF StorageInv, Sound, NoneOwed

LEMMA StorageInit == Init => StorageInv
<1> SUFFICES ASSUME Init PROVE StorageInv
  OBVIOUS
<1>1. Zero \in Cells /\ STATIC_STORAGE_LIMIT \in Nat
  BY StorageAssumption
<1>2. Vacant(0) \in Account /\ ~Vacant(0).owned /\ Vacant(0).chunks = <<>>
      /\ Vacant(0).generation = 0 /\ Vacant(0).lamports = 0
  BY EmptySound DEF Vacant, Account
<1> DEFINE none == [k \in Keys |-> 0]
<1>3. Sound(accounts, none, {})
  <2>1. accounts \in [Keys -> Account] /\ none \in [Keys -> Nat]
    BY <1>2 DEF Init
  <2>2. ASSUME NEW k \in Keys PROVE Funded(accounts[k], k[1], none[k])
    <3>1. accounts[k] = Vacant(0) /\ generation[k[1]] = 0
      BY KeyOwner DEF Init
    <3> QED BY <1>2, <3>1, EmptySound DEF Funded
  <2> QED BY <2>1, <2>2 DEF Sound
<1>4. Agrees(static, accounts, cells, deployed)
  <2>1. static \in [Contracts -> Static] /\ cells \in [Contracts -> [Indices -> Cells]]
    BY <1>1 DEF Init, NoStatic, AllZero, Static
  <2>2. ASSUME NEW x \in Contracts, NEW i \in Indices, ~(i < STATIC_STORAGE_LIMIT)
        PROVE  Current(accounts, x, i) = Zero
    <3>1. Key(x, Block(i)) \in Keys
      BY <1>1, <2>2, KeyIsKey, IndexParts
    <3>2. ~accounts[Key(x, Block(i))].owned
      BY <1>2, <3>1 DEF Init
    <3> QED BY <3>2 DEF Current
  <2> QED BY <2>1, <2>2 DEF Agrees, Init, AllZero
<1> QED BY <1>3, <1>4 DEF StorageInv, Init

\* Loading changes nothing that can be read.
LEMMA LoadedKept ==
    ASSUME StorageInv, NEW p, accounts' = Loaded(p),
           UNCHANGED <<deployed, generation, static, cells>>
    PROVE  StorageInv'
<1>1. Sound(Loaded(p), NoneOwed, p) /\ Agrees(static, Loaded(p), cells, deployed)
  BY LoadedSound DEF NoneOwed
<1>2. deployed \subseteq Contracts /\ generation \in [Contracts -> Nat]
  BY DEF StorageInv
<1>3. Sound(accounts, NoneOwed, p)'
  BY <1>1 DEF Sound, Funded, NoneOwed
<1>4. Agrees(static, accounts, cells, deployed)'
  BY <1>1 DEF Agrees, Current
<1> QED BY <1>2, <1>3, <1>4 DEF StorageInv, Sound, NoneOwed

LEMMA ReadKept ==
    ASSUME StorageInv, NEW p, NEW x, NEW i, Read(p, x, i)
    PROVE  StorageInv'
<1>1. CASE accounts' = accounts
  BY <1>1 DEF Read, StorageInv, Sound, Funded, Agrees, Current
<1>2. CASE accounts' = Loaded(p)
  BY <1>2, LoadedKept DEF Read
<1> QED BY <1>1, <1>2 DEF Read

LEMMA GiftKept ==
    ASSUME StorageInv, NEW k \in Keys, Gift(k)
    PROVE  StorageInv'
<1>1. accounts \in [Keys -> Account] /\ generation' = generation
  BY DEF StorageInv, Sound, Gift
<1>2. accounts' = [accounts EXCEPT
                       ![k] = [accounts[k] EXCEPT !.lamports = accounts[k].lamports + 1]]
  BY DEF Gift
<1>3. ASSUME NEW l \in Keys
      PROVE  /\ accounts'[l] \in Account
             /\ accounts'[l].owned = accounts[l].owned /\ accounts'[l].index = accounts[l].index
             /\ accounts'[l].generation = accounts[l].generation
             /\ accounts'[l].chunks = accounts[l].chunks
             /\ accounts'[l].lamports >= accounts[l].lamports
             /\ accounts'[l].lamports \in Nat /\ accounts[l].lamports \in Nat
  <2>1. accounts[l] \in Account
    BY <1>1
  <2>2. CASE l = k
    <3> DEFINE a == accounts[l]
    <3>1. accounts'[l] = [a EXCEPT !.lamports = a.lamports + 1]
      BY <1>1, <1>2, <2>2
    <3>2. a \in Account
      BY <2>1
    <3> HIDE DEF a
    <3>3. a.lamports \in Nat
      BY <3>2 DEF Account
    <3>4. accounts'[l] = [owned |-> a.owned, index |-> a.index, generation |-> a.generation,
                          chunks |-> a.chunks, lamports |-> a.lamports + 1]
      BY <3>1, <3>2 DEF Account
    <3>5. accounts'[l] \in Account
      BY <3>2, <3>3, <3>4 DEF Account
    <3> QED BY <3>3, <3>4, <3>5 DEF a
  <2>3. CASE l # k
    <3>1. accounts'[l] = accounts[l]
      BY <1>1, <1>2, <2>3
    <3>2. accounts[l].lamports \in Nat
      BY <2>1 DEF Account
    <3> QED BY <2>1, <3>1, <3>2
  <2> QED BY <2>2, <2>3
<1>4. accounts' \in [Keys -> Account]
  BY <1>2, <1>3, <1>1
<1>5. Sound(accounts, NoneOwed, {})'
  <2>1. ASSUME NEW l \in Keys PROVE Funded(accounts[l], l[1], NoneOwed[l])'
    <3>1. Funded(accounts[l], l[1], 0) /\ NoneOwed[l] = 0 /\ NoneOwed'[l] = 0
      BY DEF StorageInv, Sound, NoneOwed
    <3>2. accounts[l].chunks \in Seq(Chunk)
      BY <1>1 DEF Account
    <3>3. MinimumBalance(accounts[l].chunks) \in Nat
      BY <3>2 DEF MinimumBalance
    <3> QED BY <1>1, <1>3, <3>1, <3>3 DEF Funded, MinimumBalance
  <2> QED BY <1>4, <2>1 DEF Sound, NoneOwed
<1>6. Agrees(static, accounts, cells, deployed)'
  <2>1. ASSUME NEW x \in Contracts, NEW i \in Indices, ~(i < STATIC_STORAGE_LIMIT)
        PROVE  Current(accounts, x, i)' = Current(accounts, x, i)
    <3>1. Key(x, Block(i)) \in Keys
      BY <2>1, KeyIsKey, IndexParts, StorageAssumption
    <3> QED BY <1>1, <1>3, <3>1 DEF Current
  <2> QED BY <2>1 DEF StorageInv, Agrees, Gift
<1> QED BY <1>5, <1>6 DEF StorageInv, Sound, NoneOwed, Gift

LEMMA DestroyKept ==
    ASSUME StorageInv, NEW p, NEW x \in Contracts, Destroy(p, x)
    PROVE  StorageInv'
<1> DEFINE as == Loaded(p)
<1>1. /\ deployed \subseteq Contracts /\ generation \in [Contracts -> Nat]
      /\ Sound(as, NoneOwed, p) /\ Agrees(static, as, cells, deployed)
  BY LoadedSound DEF StorageInv, NoneOwed
<1>2. /\ accounts' = as /\ deployed' = deployed \ {x}
      /\ generation' = [generation EXCEPT ![x] = generation[x] + 1]
      /\ static' = [static EXCEPT ![x] = IF x \in deployed THEN NoStatic ELSE static[x]]
      /\ cells' = [cells EXCEPT ![x] = AllZero]
  BY DEF Destroy
<1> HIDE DEF as
<1>3. /\ generation' \in [Contracts -> Nat]
      /\ \A y \in Contracts : /\ generation'[y] >= generation[y]
                              /\ y # x => generation'[y] = generation[y]
      /\ generation'[x] = generation[x] + 1
  BY <1>1, <1>2
<1>4. Zero \in Cells /\ STATIC_STORAGE_LIMIT \in Nat
  BY StorageAssumption
<1>5. Sound(accounts, NoneOwed, {})'
  <2>1. ASSUME NEW l \in Keys PROVE Funded(accounts[l], l[1], NoneOwed[l])'
    <3>1. Funded(as[l], l[1], NoneOwed[l]) /\ as[l].generation \in Nat
      BY <1>1 DEF Sound, Account
    <3>2. l[1] \in Contracts
      BY KeyOwner
    <3>3. as[l].generation <= generation'[l[1]]
      <4>1. /\ as[l].generation <= generation[l[1]] /\ generation[l[1]] <= generation'[l[1]]
            /\ generation[l[1]] \in Nat /\ generation'[l[1]] \in Nat
        BY <1>1, <1>3, <3>1, <3>2 DEF Funded
      <4>2. ASSUME NEW a, NEW b, NEW c, a \in Nat, b \in Nat, c \in Nat, a <= b, b <= c
            PROVE  a <= c
        BY <4>2
      <4> QED BY <3>1, <4>1, <4>2
    <3> QED BY <1>2, <3>1, <3>3 DEF Funded, NoneOwed
  <2> QED BY <1>1, <1>2, <2>1 DEF Sound, NoneOwed
<1>6. ASSUME NEW y \in Contracts, NEW i \in Indices, i >= STATIC_STORAGE_LIMIT
      PROVE  Current(accounts, y, i)' = IF y = x THEN Zero ELSE Current(as, y, i)
  <2> DEFINE a == as[Key(y, Block(i))]
  <2>1. Key(y, Block(i)) \in Keys /\ Key(y, Block(i))[1] = y
    BY <1>6, KeyIsKey, KeyOwner
  <2>2. CASE y = x
    <3>1. a.generation <= generation[x] /\ a.generation \in Nat
      BY <1>1, <2>1, <2>2 DEF Sound, Funded, Account
    <3>2. a.generation # generation'[x]
      <4>1. generation[x] \in Nat /\ generation'[x] = generation[x] + 1
        BY <1>1, <1>3
      <4> HIDE DEF a
      <4> QED BY <3>1, <4>1
    <3> QED BY <1>2, <2>2, <3>2 DEF Current
  <2>3. CASE y # x
    BY <1>2, <1>3, <2>3 DEF Current
  <2> QED BY <2>2, <2>3
<1>7. /\ static' \in [Contracts -> Static]
      /\ \A y \in Contracts \ deployed' : static'[y] = NoStatic
  <2>1. NoStatic \in Static
    BY <1>4 DEF NoStatic, Static
  <2> QED BY <1>1, <1>2, <2>1 DEF Agrees
<1>8. AllZero \in [Indices -> Cells] /\ \A i \in Indices : AllZero[i] = Zero
  BY <1>4 DEF AllZero
<1>9. cells' \in [Contracts -> [Indices -> Cells]]
  BY <1>1, <1>2, <1>8 DEF Agrees
<1>10. ASSUME NEW y \in Contracts, NEW i \in Indices
       PROVE  cells'[y][i] = IF i < STATIC_STORAGE_LIMIT
                             THEN IF y \in deployed' THEN static'[y][i] ELSE Zero
                             ELSE Current(accounts, y, i)'
  <2>1. ~(i < STATIC_STORAGE_LIMIT) => i >= STATIC_STORAGE_LIMIT
    BY <1>4, IndexParts
  <2>2. cells[y][i] = IF i < STATIC_STORAGE_LIMIT
                      THEN IF y \in deployed THEN static[y][i] ELSE Zero
                      ELSE Current(as, y, i)
    BY <1>1 DEF Agrees
  <2>3. CASE y = x
    <3>1. cells'[y][i] = Zero
      BY <1>1, <1>2, <1>8, <2>3 DEF Agrees
    <3>2. y \notin deployed'
      BY <1>2, <2>3
    <3>3. CASE i < STATIC_STORAGE_LIMIT
      BY <3>1, <3>2, <3>3
    <3>4. CASE ~(i < STATIC_STORAGE_LIMIT)
      <4>1. Current(accounts, y, i)' = Zero
        BY <1>6, <2>1, <2>3, <3>4
      <4> QED BY <3>1, <3>4, <4>1
    <3> QED BY <3>3, <3>4
  <2>4. CASE y # x
    <3>1. cells'[y] = cells[y] /\ static'[y] = static[y] /\ (y \in deployed' <=> y \in deployed)
      BY <1>1, <1>2, <2>4 DEF Agrees
    <3> QED BY <1>6, <2>1, <2>2, <2>4, <3>1
  <2> QED BY <2>3, <2>4
<1>11. Agrees(static, accounts, cells, deployed)'
  BY <1>7, <1>9, <1>10 DEF Agrees
<1> QED BY <1>1, <1>2, <1>3, <1>5, <1>11 DEF StorageInv, NoneOwed

LEMMA BegunKept ==
    ASSUME StorageInv, NEW p, NEW new, new \cap deployed = {}
    PROVE  /\ Begun(p) \in FoldState /\ cells \in Memory
           /\ Kept(Begun(p), cells, p, deployed \cup new)
<1> DEFINE as == Loaded(p)
           live == deployed \cup new
<1>1. Sound(as, NoneOwed, p) /\ Agrees(static, as, cells, deployed)
  BY LoadedSound DEF NoneOwed
<1> HIDE DEF as
<1>2. Begun(p) = [ok |-> TRUE, static |-> static, accounts |-> as, owed |-> NoneOwed]
  BY DEF Begun, as, NoneOwed
<1>3. Begun(p) \in FoldState
  <2>1. /\ static \in [Contracts -> Static] /\ as \in [Keys -> Account]
        /\ NoneOwed \in [Keys -> Nat]
    BY <1>1 DEF Sound, Agrees
  <2>2. ASSUME NEW o \in BOOLEAN
        PROVE  [ok |-> o, static |-> static, accounts |-> as, owed |-> NoneOwed] \in FoldState
    BY <2>1 DEF FoldState
  <2> QED BY <1>2, <2>2
<1>4. cells \in Memory
  BY <1>1 DEF Memory, Agrees
<1>5. Agrees(static, as, cells, live)
  <2>1. ASSUME NEW x \in Contracts, NEW i \in Indices, i < STATIC_STORAGE_LIMIT
        PROVE  cells[x][i] = IF x \in live THEN static[x][i] ELSE Zero
    <3>1. i \in 0..(STATIC_STORAGE_LIMIT - 1)
      BY <2>1, IndexParts, StorageAssumption
    <3>2. x \notin deployed => static[x][i] = Zero
      BY <1>1, <3>1 DEF Agrees, NoStatic
    <3> QED BY <1>1, <2>1, <3>2 DEF Agrees
  <2> QED BY <1>1, <2>1 DEF Agrees
<1> QED BY <1>1, <1>2, <1>3, <1>4, <1>5 DEF Kept

LEMMA ApplyKept ==
    ASSUME StorageInv, NEW p, NEW new \in SUBSET Contracts, NEW n \in 0..MaxWrites,
           NEW ws \in [1..n -> Writes], Apply(p, new, ws)
    PROVE  StorageInv'
<1> DEFINE s == AllWritten(Begun(p), ws)
           live == deployed \cup new
<1>1. /\ deployed' = live /\ static' = s.static /\ s.ok /\ generation' = generation
      /\ accounts' = [k \in Keys |->
                        [s.accounts[k] EXCEPT !.lamports = s.accounts[k].lamports + s.owed[k]]]
      /\ cells' = AllNoted(cells, ws)
      /\ new \cap deployed = {}
  BY DEF Apply, AllWritten, AllNoted
<1>2. \A k \in 1..n : /\ ws[k].address \in live
                      /\ ws[k].index >= STATIC_STORAGE_LIMIT => KeyOf(ws[k]) \in p
  BY DEF Apply, KeyOf
<1>3. deployed \subseteq Contracts /\ generation \in [Contracts -> Nat] /\ n \in Nat
  BY DEF StorageInv
<1> HIDE DEF s, live
<1>4. s \in FoldState /\ Kept(s, cells', p, live)
  <2>1. Begun(p) \in FoldState /\ cells \in Memory /\ Kept(Begun(p), cells, p, live)
    BY <1>1, BegunKept DEF live
  <2> QED BY <1>1, <1>2, <1>3, <2>1, AppliedSound DEF s
<1>5. /\ s.accounts \in [Keys -> Account] /\ s.owed \in [Keys -> Nat]
      /\ \A k \in Keys : Funded(s.accounts[k], k[1], s.owed[k])
      /\ Agrees(s.static, s.accounts, cells', live)
  BY <1>1, <1>4 DEF Kept, Sound
<1>6. ASSUME NEW k \in Keys
      PROVE  /\ accounts'[k] \in Account
             /\ accounts'[k].lamports = s.accounts[k].lamports + s.owed[k]
             /\ accounts'[k].owned = s.accounts[k].owned
             /\ accounts'[k].index = s.accounts[k].index
             /\ accounts'[k].generation = s.accounts[k].generation
             /\ accounts'[k].chunks = s.accounts[k].chunks
  <2> DEFINE a == s.accounts[k]
             w == s.owed[k]
  <2>1. accounts'[k] = [a EXCEPT !.lamports = a.lamports + w]
    BY <1>1
  <2>2. a \in Account /\ w \in Nat
    BY <1>5
  <2> HIDE DEF a, w
  <2>3. a.lamports \in Nat /\ a.lamports + w \in Nat
    BY <2>2 DEF Account
  <2>4. accounts'[k] = [owned |-> a.owned, index |-> a.index, generation |-> a.generation,
                        chunks |-> a.chunks, lamports |-> a.lamports + w]
    BY <2>1, <2>2 DEF Account
  <2>5. accounts'[k] \in Account
    BY <2>2, <2>3, <2>4 DEF Account
  <2> QED BY <2>4, <2>5 DEF a, w
<1>7. accounts' \in [Keys -> Account]
  BY <1>1, <1>6
<1>8. Sound(accounts, NoneOwed, {})'
  <2>1. ASSUME NEW k \in Keys PROVE Funded(accounts[k], k[1], NoneOwed[k])'
    <3>1. Funded(s.accounts[k], k[1], s.owed[k]) /\ NoneOwed'[k] = 0
      BY <1>5 DEF NoneOwed
    <3>2. accounts'[k].lamports \in Nat
      BY <1>6 DEF Account
    <3> QED BY <1>1, <1>6, <3>1, <3>2 DEF Funded, MinimumBalance
  <2> QED BY <1>7, <2>1 DEF Sound, NoneOwed
<1>9. Agrees(static, accounts, cells, deployed)'
  <2>1. ASSUME NEW x \in Contracts, NEW i \in Indices, ~(i < STATIC_STORAGE_LIMIT)
        PROVE  Current(accounts, x, i)' = Current(s.accounts, x, i)
    <3>1. Key(x, Block(i)) \in Keys
      BY <2>1, KeyIsKey, IndexParts, StorageAssumption
    <3> QED BY <1>1, <1>6, <3>1 DEF Current
  <2> QED BY <1>1, <1>5, <2>1 DEF Agrees
<1> QED BY <1>1, <1>3, <1>8, <1>9 DEF StorageInv, NoneOwed, live

LEMMA StorageStep == StorageInv /\ [Next]_vars => StorageInv'
<1> SUFFICES ASSUME StorageInv, [Next]_vars PROVE StorageInv'
  OBVIOUS
<1>1. ASSUME NEW p \in SUBSET Keys, NEW x \in Contracts, NEW i \in Indices, Read(p, x, i)
      PROVE  StorageInv'
  BY <1>1, ReadKept
<1>2. ASSUME NEW p \in SUBSET Keys, NEW new \in SUBSET Contracts, NEW n \in 0..MaxWrites,
             NEW ws \in [1..n -> Writes], Apply(p, new, ws)
      PROVE  StorageInv'
  BY <1>2, ApplyKept
<1>3. ASSUME NEW p \in SUBSET Keys, NEW x \in Contracts, Destroy(p, x) PROVE StorageInv'
  BY <1>3, DestroyKept
<1>4. ASSUME NEW k \in Keys, Gift(k) PROVE StorageInv'
  BY <1>4, GiftKept
<1>5. CASE UNCHANGED vars
  BY <1>5 DEF vars, StorageInv, Sound, Funded, Agrees, Current
<1> QED BY <1>1, <1>2, <1>3, <1>4, <1>5 DEF Next

(***************************************************************************)
(* In a storage account no cell has two entries, the generation is at most *)
(* that of its contract and the lamports cover the length; one without an  *)
(* owner has no entries.  A cell has the value last written, or zero, in   *)
(* the account of its block if that is of the contract's generation, and   *)
(* is zero otherwise.                                                      *)
(***************************************************************************)
THEOREM StorageInvariant == Spec => []StorageInv
<1> QED BY StorageInit, StorageStep, PTL DEF Spec

LEMMA StorageReads == StorageInv => CellsAsWritten
<1> SUFFICES ASSUME StorageInv, NEW x \in Contracts, NEW i \in Indices
             PROVE  storage(x, i) = cells[x][i]
  BY DEF CellsAsWritten
<1> DEFINE as == Loaded(Keys)
           k == Key(x, Block(i))
<1>1. Sound(as, NoneOwed, Keys) /\ Agrees(static, as, cells, deployed)
  BY LoadedSound DEF NoneOwed
<1>2. i < STATIC_STORAGE_LIMIT \/ (i >= STATIC_STORAGE_LIMIT /\ ~(i < STATIC_STORAGE_LIMIT))
  BY StorageAssumption, IndexParts
<1>3. CASE i < STATIC_STORAGE_LIMIT
  BY <1>1, <1>3 DEF storage, Agrees
<1>4. CASE i >= STATIC_STORAGE_LIMIT /\ ~(i < STATIC_STORAGE_LIMIT)
  <2>1. k \in Keys /\ k[1] = x
    BY <1>4, KeyIsKey, KeyOwner
  <2>2. as[k].owned => as[k].generation = generation[x]
    BY <1>1, <2>1 DEF Sound
  <2>3. storage(x, i) = Current(as, x, i)
    BY <1>4, <2>2 DEF storage, Current, Present
  <2> QED BY <1>1, <1>4, <2>3 DEF Agrees
<1> QED BY <1>2, <1>3, <1>4

(***************************************************************************)
(* ProgramAccountStorage::storage returns what the contract wrote last, or *)
(* zero: for any contracts and sizes, any order of transactions and any    *)
(* choice of the storage accounts passed to them.                          *)
(***************************************************************************)
THEOREM StorageAsWritten == Spec => []CellsAsWritten
<1> QED BY StorageInvariant, StorageReads, PTL

(***************************************************************************)
(* EthereumStorage::set never adds a second entry for a cell.              *)
(***************************************************************************)
THEOREM OneEntryPerCell == Spec => []OneChunkPerCell
<1>1. StorageInv => OneChunkPerCell
  BY DEF StorageInv, Sound, Funded, OneEach, OneChunkPerCell
<1> QED BY <1>1, StorageInvariant, PTL

(***************************************************************************)
(* A storage account is rent-exempt after every instruction: what          *)
(* apply_state_change transfers covers every entry added.                  *)
(***************************************************************************)
THEOREM StorageRentExempt == Spec => []RentExempt
<1>1. StorageInv => RentExempt
  <2> SUFFICES ASSUME StorageInv, NEW k \in Keys, accounts[k].owned
               PROVE  accounts[k].lamports >= MinimumBalance(accounts[k].chunks)
    BY DEF RentExempt
  <2>1. accounts[k] \in Account /\ Funded(accounts[k], k[1], 0)
    BY DEF StorageInv, Sound
  <2>2. accounts[k].lamports \in Nat
    BY <2>1 DEF Account
  <2>3. accounts[k].lamports + 0 = accounts[k].lamports
    BY <2>2
  <2> QED BY <2>1, <2>3 DEF Funded
<1> QED BY <1>1, StorageInvariant, PTL
=============================================================================
