--------------------------- MODULE EvmFrameProofs ---------------------------
(***************************************************************************)
(* Proofs about EvmFrame for any word, allocation, limit and code: a       *)
(* machine that has not ended can be written to the holder account, and    *)
(* contracts see the memory and the machine of EvmMemory.                  *)
(***************************************************************************)
EXTENDS EvmFrameFlat, SequenceTheorems, TLAPS

Bytes == Seq(Byte)
Offset == 0..USIZE - 1
Memory == [data : Bytes, size : Offset]
Result == [ok : BOOLEAN, memory : Memory]
Buffer == [inner : {"empty", "owned", "account", "uninit"}, bytes : Bytes]
Machine == [reason : {"call", "create"}, execution_code : Buffer, call_data : Buffer,
            return_data : Buffer, return_range : [start : Offset, end : Offset],
            memory : Memory]

\* The allocation holds what the size says.
Sound(m) == m.size <= Len(m.data)

\* Frames that may go on
Machines(fs) == fs \in Seq(Machine) /\ fs # <<>>

\* What a step may end with: only a running machine has to be sound.
Proper(o) ==
    /\ Machines(o.frames)
    /\ o.status = "running" => Serializable(o.frames)

\* The inductive invariant
FrameInv == Machines(frames) /\ RunningSerializable
-----------------------------------------------------------------------------
(* Numbers *)

LEMMA MaxOfTwo ==
    ASSUME NEW x \in Int, NEW y \in Int
    PROVE  Max({x, y}) \in {x, y} /\ Max({x, y}) >= x /\ Max({x, y}) >= y
<1>1. \E z \in {x, y} : \A w \in {x, y} : z >= w
  <2>1. CASE x >= y
    BY <2>1
  <2>2. CASE ~(x >= y)
    BY <2>2
  <2> QED BY <2>1, <2>2
<1> QED BY <1>1 DEF Max

\* Rounding up to whole words does not round down.
LEMMA RoundedUp ==
    ASSUME NEW n \in Nat, NEW e \in Nat \ {0}
    PROVE  /\ e * ((n + e - 1) \div e) \in Nat
           /\ e * ((n + e - 1) \div e) >= n
           /\ e * ((n + e - 1) \div e) <= n + e - 1
<1> DEFINE q == (n + e - 1) \div e
           r == (n + e - 1) % e
<1>1. q \in Int /\ r \in 0..e - 1 /\ n + e - 1 = e * q + r
  BY Z3
<1>2. e * q \in Int
  BY <1>1
<1> HIDE DEF q, r
<1>3. e * q \in Nat /\ e * q >= n /\ e * q <= n + e - 1
  BY <1>1, <1>2
<1> QED BY <1>3 DEF q

LEMMA NewSize ==
    ASSUME NEW n \in Nat
    PROVE  \/ checked_next_multiple_of_32(n) = NoSize
           \/ checked_next_multiple_of_32(n) \in Offset /\ checked_next_multiple_of_32(n) >= n
<1>1. CASE n + ELEMENT_SIZE - 1 >= USIZE
  BY <1>1 DEF checked_next_multiple_of_32
<1>2. CASE ~(n + ELEMENT_SIZE - 1 >= USIZE)
  <2>1. ELEMENT_SIZE \in Nat \ {0} /\ USIZE \in Nat \ {0}
    BY EvmFrameAssumption
  <2>2. checked_next_multiple_of_32(n) = ELEMENT_SIZE * ((n + ELEMENT_SIZE - 1) \div ELEMENT_SIZE)
    BY <1>2 DEF checked_next_multiple_of_32
  <2> DEFINE s == ELEMENT_SIZE * ((n + ELEMENT_SIZE - 1) \div ELEMENT_SIZE)
  <2>3. s \in Nat /\ s >= n /\ s <= n + ELEMENT_SIZE - 1
    BY <2>1, RoundedUp
  <2> HIDE DEF s
  <2>4. s \in Offset
    BY <2>1, <2>3, <1>2 DEF Offset
  <2> QED BY <2>2, <2>3, <2>4 DEF s
<1> QED BY <1>1, <1>2
-----------------------------------------------------------------------------
(* Memory *)

LEMMA ZerosBytes ==
    ASSUME NEW n \in Nat
    PROVE  Zeros(n) \in Bytes /\ Len(Zeros(n)) = n
<1>1. Zeros(n) \in [1..n -> Byte]
  BY DEF Zeros, Byte
<1> QED BY <1>1 DEF Bytes

\* What an access to length bytes at offset needs to know
Reaches(r, offset, length) ==
    /\ r \in Result
    /\ r.ok => offset + length <= Len(r.memory.data)

\* realloc keeps the allocation at least as large as the size unless it fails.
LEMMA ReallocSound ==
    ASSUME NEW m \in Memory, NEW offset \in Offset, NEW length \in Nat
    PROVE  LET r == realloc(m, offset, length)
           IN  Reaches(r, offset, length) /\ (r.ok /\ Sound(m) => Sound(r.memory))
<1> DEFINE n == checked_next_multiple_of_32(offset + length)
           size == Max({m.size, n})
           grown == [m EXCEPT !.size = size]
           capacity == next_power_of_two(n)
           z == Zeros(capacity - Len(grown.data))
           larger == [grown EXCEPT !.data = grown.data \o z]
           r == realloc(m, offset, length)
<1>1. offset + length \in Nat /\ USIZE \in Nat \ {0} /\ MAX_MEMORY_SIZE \in Nat
  BY EvmFrameAssumption DEF Offset
<1>2. n = NoSize \/ (n \in Offset /\ n >= offset + length)
  BY <1>1, NewSize
<1>3. r = IF offset + length >= USIZE \/ n = NoSize THEN MemoryAccessOutOfLimits(m)
          ELSE IF n <= Len(m.data) THEN Ok(grown)
          ELSE IF capacity > MAX_MEMORY_SIZE THEN MemoryAccessOutOfLimits(grown)
          ELSE Ok(larger)
  BY DEF realloc
<1>4. m.data \in Bytes /\ Len(m.data) \in Nat /\ m.size \in Offset
  BY DEF Memory, Bytes
<1>5. CASE offset + length >= USIZE \/ n = NoSize
  <2>1. r = MemoryAccessOutOfLimits(m)
    BY <1>3, <1>5
  <2> QED BY <2>1 DEF MemoryAccessOutOfLimits, Reaches, Result, r
<1>6. CASE n \in Offset /\ n >= offset + length /\ ~(offset + length >= USIZE)
  <2>1. n \in Int /\ m.size \in Int /\ n # NoSize
    BY <1>1, <1>4, <1>6 DEF Offset, NoSize
  <2>2. size \in {m.size, n} /\ size >= m.size /\ size >= n
    BY <2>1, MaxOfTwo
  <2> HIDE DEF size
  <2>3. grown \in Memory /\ grown.size = size /\ grown.data = m.data
    BY <1>4, <1>6, <2>2 DEF Memory
  <2> HIDE DEF grown
  <2>4. CASE n <= Len(m.data)
    <3>1. r = Ok(grown)
      BY <1>3, <1>6, <2>1, <2>4
    <3>2. offset + length <= Len(grown.data)
      BY <1>1, <1>4, <1>6, <2>1, <2>3, <2>4
    <3>3. Sound(m) => Sound(grown)
      BY <2>2, <2>3, <2>4 DEF Sound
    <3> QED BY <2>3, <3>1, <3>2, <3>3 DEF Ok, Reaches, Result, r
  <2>5. CASE ~(n <= Len(m.data)) /\ capacity > MAX_MEMORY_SIZE
    <3>1. r = MemoryAccessOutOfLimits(grown)
      BY <1>3, <1>6, <2>1, <2>5
    <3> QED BY <2>3, <3>1 DEF MemoryAccessOutOfLimits, Reaches, Result, r
  <2>6. CASE ~(n <= Len(m.data)) /\ ~(capacity > MAX_MEMORY_SIZE)
    <3>1. r = Ok(larger)
      BY <1>3, <1>6, <2>1, <2>6
    <3>2. capacity \in Nat /\ capacity >= n
      BY <1>6, NextPowerAssumption DEF Offset
    <3> HIDE DEF capacity
    <3>3. capacity - Len(grown.data) \in Nat
      BY <1>4, <2>1, <2>3, <2>6, <3>2
    <3>4. z \in Bytes /\ Len(z) = capacity - Len(grown.data)
      BY <3>3, ZerosBytes
    <3> HIDE DEF z
    <3>5. grown.data \o z \in Bytes /\ Len(grown.data \o z) = capacity
      BY <1>4, <2>3, <3>2, <3>4 DEF Bytes
    <3>7. larger \in Memory /\ larger.size = size /\ larger.data = grown.data \o z
      BY <2>3, <3>5 DEF Memory
    <3> HIDE DEF larger
    <3>8. Sound(m) => Sound(larger)
      BY <1>4, <2>1, <2>2, <2>6, <3>2, <3>5, <3>7 DEF Sound
    <3>9. offset + length <= Len(larger.data)
      BY <1>1, <1>6, <2>1, <3>2, <3>5, <3>7
    <3>10. r \in Result /\ r.ok = TRUE /\ r.memory = larger
      BY <3>1, <3>7 DEF Ok, Result
    <3> HIDE DEF r
    <3> QED BY <3>7, <3>8, <3>9, <3>10 DEF Reaches, r
  <2> QED BY <2>4, <2>5, <2>6
<1> QED BY <1>2, <1>5, <1>6

\* Writing leaves the size of the memory and of its allocation.
LEMMA WrittenSound ==
    ASSUME NEW r \in Result, NEW offset \in Offset, NEW v \in Bytes
    PROVE  LET w == Written(r, offset, v)
           IN  w \in Result /\ w.ok = r.ok /\ (Sound(r.memory) => Sound(w.memory))
<1> DEFINE d == r.memory.data
           e == [k \in DOMAIN d |-> IF k - offset \in DOMAIN v THEN v[k - offset] ELSE d[k]]
           x == IF r.ok THEN e ELSE d
<1>1. r.memory \in Memory /\ d \in Bytes
  BY DEF Result, Memory
<1>2. e \in [1..Len(d) -> Byte]
  BY <1>1 DEF Bytes
<1>3. e \in Bytes /\ Len(e) = Len(d)
  BY <1>1, <1>2 DEF Bytes
<1>4. x \in Bytes /\ Len(x) = Len(d)
  BY <1>1, <1>3
<1>5. Written(r, offset, v) = [r EXCEPT !.memory.data = x]
  BY DEF Written
<1> HIDE DEF x
<1> QED BY <1>1, <1>4, <1>5 DEF Result, Memory, Sound

\* What an access says of the memory it is made to
Keeps(r, m) == r \in Result /\ (r.ok /\ Sound(m) => Sound(r.memory))

LEMMA ReadSound ==
    ASSUME NEW m \in Memory, NEW offset \in Offset, NEW length \in Nat
    PROVE  LET r == read(m, offset, length)
           IN  Keeps(r, m) /\ (r.ok => Slice(r.memory, offset, length) \in Bytes)
<1> DEFINE r == read(m, offset, length)
<1>1. Keeps(r, m) /\ (r.ok /\ length # 0 => offset + length <= Len(r.memory.data))
  BY ReallocSound DEF read, Keeps, Reaches, Ok, Result
<1> HIDE DEF r
<1>2. r.memory.data \in Seq(Byte) /\ offset \in Nat
  BY <1>1, EvmFrameAssumption DEF Keeps, Result, Memory, Bytes, Offset
<1>3. ASSUME r.ok
      PROVE  SubSeq(r.memory.data, offset + 1, offset + length) \in Seq(Byte)
  <2>1. CASE length = 0
    BY <1>2, <2>1
  <2>2. CASE length # 0
    BY <1>1, <1>2, <1>3, <2>2
  <2> QED BY <2>1, <2>2
<1> QED BY <1>1, <1>3 DEF Slice, Bytes, r

LEMMA WriteSound ==
    ASSUME NEW m \in Memory, NEW offset \in Offset, NEW length \in Nat, NEW v \in Bytes
    PROVE  Keeps(Written(realloc(m, offset, length), offset, v), m)
BY ReallocSound, WrittenSound DEF Keeps, Reaches, Result

LEMMA WriteBufferSound ==
    ASSUME NEW m \in Memory, NEW offset \in Offset, NEW length \in Nat,
           NEW source \in Bytes, NEW from \in Nat
    PROVE  Keeps(write_buffer(m, offset, length, source, from), m)
<1> DEFINE v == [k \in 1..length |-> IF from + k \in DOMAIN source THEN source[from + k] ELSE 0]
<1>1. v \in [1..length -> Byte]
  <2>1. 0 \in Byte
    BY DEF Byte
  <2>2. source \in Seq(Byte) /\ DOMAIN source = 1..Len(source)
    BY DEF Bytes
  <2>3. \A k \in DOMAIN source : source[k] \in Byte
    BY <2>2, ElementOfSeq
  <2> QED BY <2>1, <2>3
<1>2. v \in Bytes
  BY <1>1 DEF Bytes
<1>3. Keeps(Ok(m), m)
  BY DEF Keeps, Ok, Result
<1>4. write_buffer(m, offset, length, source, from) =
        IF length = 0 THEN Ok(m) ELSE Written(realloc(m, offset, length), offset, v)
  BY DEF write_buffer
<1> HIDE DEF v
<1> QED BY <1>2, <1>3, <1>4, WriteSound
-----------------------------------------------------------------------------
(* Frames *)

\* The frames below the last may be written: what an error needs, whose frame
\* is the last
Below(fs) == \A k \in 1..Len(fs) - 1 : Sound(fs[k].memory)

LEMMA CountOfFrames ==
    ASSUME NEW fs, Machines(fs)
    PROVE  fs \in Seq(Machine) /\ Len(fs) \in Nat \ {0} /\ DOMAIN fs = 1..Len(fs)
<1>1. fs \in Seq(Machine) /\ fs # <<>>
  BY DEF Machines
<1>2. Len(fs) # 0
  BY <1>1, EmptySeq
<1> QED BY <1>1, <1>2

LEMMA SerializableFrames ==
    ASSUME NEW fs, Machines(fs)
    PROVE  Serializable(fs) <=> Below(fs) /\ Sound(Last(fs).memory)
<1> DEFINE n == Len(fs)
<1>1. n \in Nat \ {0} /\ DOMAIN fs = 1..n
  BY CountOfFrames
<1> HIDE DEF n
<1>2. /\ \A k \in 1..n : k # n => k \in 1..n - 1
      /\ n \in 1..n /\ \A k \in 1..n - 1 : k \in 1..n
  BY <1>1
<1> QED BY <1>1, <1>2 DEF Serializable, Below, Sound, Last, n

\* The last frame
LEMMA LastFrame ==
    ASSUME NEW fs, Machines(fs)
    PROVE  Last(fs) \in Machine
<1>1. fs \in Seq(Machine) /\ Len(fs) \in 1..Len(fs)
  BY CountOfFrames
<1> QED BY <1>1, ElementOfSeq DEF Last

LEMMA ParentsOfMachines ==
    ASSUME NEW fs, Machines(fs), Len(fs) # 1
    PROVE  Machines(Parents(fs)) /\ (Below(fs) => Serializable(Parents(fs)))
<1>1. fs \in Seq(Machine) /\ Len(fs) \in Nat /\ Len(fs) > 1
  <2>1. fs \in Seq(Machine) /\ Len(fs) \in Nat \ {0}
    BY CountOfFrames
  <2> QED BY <2>1
<1> DEFINE joined == SubSeq(fs, 1, Len(fs) - 1)
<1>2. /\ joined \in Seq(Machine) /\ Len(joined) = Len(fs) - 1
      /\ \A k \in 1..Len(fs) - 1 : joined[k] = fs[k]
  BY <1>1
<1>3. Parents(fs) = joined
  BY DEF Parents, Front
<1> HIDE DEF joined
<1>4. joined # <<>> /\ DOMAIN joined = 1..Len(fs) - 1
  BY <1>1, <1>2
<1> QED BY <1>2, <1>3, <1>4 DEF Machines, Serializable, Below, Sound

LEMMA WithMemorySound ==
    ASSUME NEW fs, Machines(fs), NEW m \in Memory
    PROVE  LET w == WithMemory(fs, m)
           IN  /\ Machines(w) /\ Len(w) = Len(fs)
               /\ Below(fs) => Below(w)
               /\ Below(fs) /\ Sound(m) => Serializable(w)
<1> DEFINE f == [fs[Len(fs)] EXCEPT !.memory = m]
           w == WithMemory(fs, m)
<1>1. fs \in Seq(Machine) /\ Len(fs) \in Nat /\ Len(fs) \in 1..Len(fs)
  BY CountOfFrames
<1>2. fs[Len(fs)] \in Machine
  BY <1>1, ElementOfSeq
<1>3. f \in Machine /\ f.memory = m
  BY <1>2 DEF Machine
<1>4. w = [fs EXCEPT ![Len(fs)] = f]
  BY DEF WithMemory
<1> HIDE DEF f, w
<1>5. /\ w \in Seq(Machine) /\ Len(w) = Len(fs) /\ w[Len(fs)] = f
      /\ \A k \in 1..Len(fs) - 1 : w[k] = fs[k]
  BY <1>1, <1>3, <1>4
<1>6. Machines(w)
  BY <1>1, <1>5 DEF Machines
<1>7. Below(fs) => Below(w)
  BY <1>5 DEF Below
<1>8. Sound(m) => Sound(Last(w).memory)
  BY <1>3, <1>5 DEF Last
<1> QED BY <1>5, <1>6, <1>7, <1>8, SerializableFrames DEF w

LEMMA WithReturnDataSound ==
    ASSUME NEW fs, Machines(fs), NEW b \in Buffer
    PROVE  LET w == WithReturnData(fs, b)
           IN  /\ Machines(w)
               /\ Serializable(fs) => Serializable(w)
<1> DEFINE f == [fs[Len(fs)] EXCEPT !.return_data = b]
           w == WithReturnData(fs, b)
<1>1. fs \in Seq(Machine) /\ Len(fs) \in Nat /\ Len(fs) \in 1..Len(fs)
  BY CountOfFrames
<1>2. fs[Len(fs)] \in Machine
  BY <1>1, ElementOfSeq
<1>3. f \in Machine /\ f.memory = fs[Len(fs)].memory
  BY <1>2 DEF Machine
<1>4. w = [fs EXCEPT ![Len(fs)] = f]
  BY DEF WithReturnData
<1> HIDE DEF f, w
<1>5. /\ w \in Seq(Machine) /\ DOMAIN w = DOMAIN fs /\ w # <<>>
      /\ \A k \in DOMAIN fs : w[k].memory = fs[k].memory
  BY <1>1, <1>3, <1>4
<1> QED BY <1>5 DEF Machines, Serializable, w

LEMMA FromSlice ==
    /\ \A v \in Bytes : from_slice(v) \in Buffer /\ from_account(v) \in Buffer
    /\ Empty \in Buffer
<1>1. <<>> \in Bytes
  BY DEF Bytes
<1> QED BY <1>1 DEF from_slice, from_account, Empty, Buffer

LEMMA ForkedMachine ==
    ASSUME NEW reason \in {"call", "create"}, NEW code \in Buffer, NEW call_data \in Buffer
    PROVE  fork(reason, code, call_data) \in Machine /\ Sound(fork(reason, code, call_data).memory)
<1>1. MEMORY_CAPACITY \in Nat /\ 0 \in Offset
  BY EvmFrameAssumption DEF Offset
<1>2. new_memory \in Memory /\ Sound(new_memory)
  BY <1>1, ZerosBytes DEF new_memory, with_capacity, Memory, Sound
<1>3. NoRange \in [start : Offset, end : Offset]
  BY <1>1 DEF NoRange
<1> QED BY <1>2, <1>3, FromSlice DEF fork, Machine
-----------------------------------------------------------------------------
(* The ends of a frame *)

\* What a parent receives in its range
LEMMA WriteRangeSound ==
    ASSUME NEW f \in Machine, NEW b \in Buffer
    PROVE  Keeps(write_range(f.memory, f.return_range, b.bytes), f.memory)
<1> DEFINE range == f.return_range
<1>1. f.memory \in Memory /\ b.bytes \in Bytes /\ range.start \in Offset /\ range.end \in Offset
  BY DEF Machine, Buffer
<1>2. range.start \in Int /\ range.end \in Int
  BY <1>1 DEF Offset
<1> HIDE DEF range
<1>3. range.end - range.start \in Int
  BY <1>2
<1>4. Max({0, range.end - range.start}) \in Nat
  <2> DEFINE n == range.end - range.start
  <2>1. n \in Int /\ 0 \in Int
    BY <1>3
  <2> HIDE DEF n
  <2>2. Max({0, n}) \in {0, n} /\ Max({0, n}) >= 0
    BY <2>1, MaxOfTwo, Zenon
  <2>3. Max({0, n}) \in Nat
    BY <2>1, <2>2
  <2> QED BY <2>3 DEF n
<1> QED BY <1>1, <1>4, WriteBufferSound DEF write_range, RangeLen, range

LEMMA Received ==
    ASSUME NEW fs, Machines(fs), Serializable(fs), NEW m \in Memory, Sound(m), NEW b \in Buffer
    PROVE  Proper(Outcome("running", WithReturnData(WithMemory(fs, m), b)))
<1>1. Below(fs)
  BY SerializableFrames
<1>2. Machines(WithMemory(fs, m)) /\ Serializable(WithMemory(fs, m))
  BY <1>1, WithMemorySound
<1> QED BY <1>2, WithReturnDataSound DEF Proper, Outcome

LEMMA RevertProper ==
    ASSUME NEW fs, Machines(fs), Below(fs), NEW b \in Buffer
    PROVE  Proper(opcode_revert_impl(fs, b))
<1> DEFINE joined == Parents(fs)
           parent == Last(joined)
           w == write_range(parent.memory, parent.return_range, b.bytes)
<1>1. CASE Len(fs) = 1
  BY <1>1 DEF opcode_revert_impl, Outcome, Proper
<1>2. CASE Len(fs) # 1
  <2>1. Machines(joined) /\ Serializable(joined)
    BY <1>2, ParentsOfMachines
  <2>2. parent \in Machine /\ Sound(parent.memory)
    BY <2>1, LastFrame, SerializableFrames
  <2>3. w \in Result /\ (w.ok => w.memory \in Memory /\ Sound(w.memory))
    BY <2>2, WriteRangeSound DEF Keeps, Result
  <2>4. Proper(Outcome("running", WithReturnData(joined, b)))
    BY <2>1, WithReturnDataSound DEF Proper, Outcome
  <2>5. w.ok => Proper(Outcome("running", WithReturnData(WithMemory(joined, w.memory), b)))
    BY <2>1, <2>3, Received
  <2>6. Proper(Outcome("failed", fs))
    BY DEF Proper, Outcome
  <2>7. opcode_revert_impl(fs, b) =
          IF Last(fs).reason = "create" THEN Outcome("running", WithReturnData(joined, b))
          ELSE IF w.ok THEN Outcome("running", WithReturnData(WithMemory(joined, w.memory), b))
          ELSE Outcome("failed", fs)
    BY <1>2 DEF opcode_revert_impl
  <2> HIDE DEF joined, w
  <2> QED BY <2>4, <2>5, <2>6, <2>7
<1> QED BY <1>1, <1>2

LEMMA ErrorProper ==
    ASSUME NEW fs, Machines(fs), Below(fs)
    PROVE  Proper(Error(fs))
<1>1. from_slice(Message) \in Buffer
  BY EvmFrameAssumption, FromSlice DEF Bytes
<1> QED BY <1>1, RevertProper DEF Error

LEMMA ReturnProper ==
    ASSUME NEW fs, Machines(fs), Below(fs), NEW b \in Buffer
    PROVE  Proper(opcode_return_impl(fs, b))
<1> DEFINE joined == Parents(fs)
           parent == Last(joined)
           w == write_range(parent.memory, parent.return_range, b.bytes)
<1>1. CASE Len(fs) = 1
  BY <1>1 DEF opcode_return_impl, Outcome, Proper
<1>2. CASE Len(fs) # 1
  <2>1. Machines(joined) /\ Serializable(joined)
    BY <1>2, ParentsOfMachines
  <2>2. parent \in Machine /\ Sound(parent.memory) /\ Below(joined)
    BY <2>1, LastFrame, SerializableFrames
  <2>3. w.memory \in Memory /\ (w.ok => Sound(w.memory))
    BY <2>2, WriteRangeSound DEF Keeps, Result
  <2>4. Proper(Outcome("running", joined))
    BY <2>1 DEF Proper, Outcome
  <2>5. w.ok => Proper(Outcome("running", WithReturnData(WithMemory(joined, w.memory), b)))
    BY <2>1, <2>3, Received
  <2>6. Proper(Error(WithMemory(joined, w.memory)))
    BY <2>1, <2>2, <2>3, WithMemorySound, ErrorProper
  <2>7. opcode_return_impl(fs, b) =
          IF Last(fs).reason = "create" THEN Outcome("running", joined)
          ELSE IF w.ok THEN Outcome("running", WithReturnData(WithMemory(joined, w.memory), b))
          ELSE Error(WithMemory(joined, w.memory))
    BY <1>2 DEF opcode_return_impl
  <2> HIDE DEF joined, w
  <2> QED BY <2>4, <2>5, <2>6, <2>7
<1> QED BY <1>1, <1>2
-----------------------------------------------------------------------------
(* The opcodes *)

LEMMA StepKeeps ==
    ASSUME NEW o, Proper(o), Step(o)
    PROVE  FrameInv'
BY DEF Proper, Step, FrameInv, RunningSerializable

\* A machine about to execute an opcode
Running == Machines(frames) /\ Serializable(frames)

LEMMA RunningFrames ==
    ASSUME Running
    PROVE  /\ Machines(frames) /\ Below(frames) /\ Top \in Machine
           /\ Top.memory \in Memory /\ Sound(Top.memory)
BY SerializableFrames, LastFrame DEF Running, Top, Machine

\* An error leaves the parents, which are sound.
LEMMA AccessedProper ==
    ASSUME Running, NEW r, Keeps(r, Top.memory), NEW then, r.ok => Proper(then)
    PROVE  Proper(IF r.ok THEN then ELSE Error(WithMemory(frames, r.memory)))
<1>1. r.memory \in Memory
  BY DEF Keeps, Result
<1>2. Proper(Error(WithMemory(frames, r.memory)))
  BY <1>1, RunningFrames, WithMemorySound, ErrorProper
<1> QED BY <1>2

LEMMA AccessProper ==
    ASSUME Running, NEW r, Keeps(r, Top.memory), Access(r)
    PROVE  FrameInv'
<1> DEFINE then == Outcome("running", WithMemory(frames, r.memory))
<1>1. r.ok => Proper(then)
  BY RunningFrames, WithMemorySound DEF Keeps, Result, Proper, Outcome
<1>2. Step(IF r.ok THEN then ELSE Error(WithMemory(frames, r.memory)))
  BY DEF Access, Accessed
<1> HIDE DEF then
<1> QED BY <1>1, <1>2, AccessedProper, StepKeeps

LEMMA MemoryOpcodes ==
    ASSUME Running, NEW offset \in Offset, NEW length \in Offset
    PROVE  /\ Mload(offset) => FrameInv'
           /\ ReadMemory(offset, length) => FrameInv'
           /\ \A v \in Words : Mstore(offset, v) \/ Mstore8(offset, v) => FrameInv'
<1>1. Top.memory \in Memory /\ ELEMENT_SIZE \in Nat /\ 1 \in Nat /\ length \in Nat
  BY RunningFrames, EvmFrameAssumption DEF Offset
<1>2. Keeps(read_32(Top.memory, offset), Top.memory)
  BY <1>1, ReallocSound DEF read_32, Keeps, Reaches
<1>3. Keeps(read(Top.memory, offset, length), Top.memory)
  BY <1>1, ReadSound
<1>4. ASSUME NEW v \in Words
      PROVE  /\ Keeps(write_32(Top.memory, offset, v), Top.memory)
             /\ Keeps(write_byte(Top.memory, offset, Last(v)), Top.memory)
  <2>1. v \in Seq(Byte) /\ v # <<>>
    BY EvmFrameAssumption
  <2>2. Len(v) \in 1..Len(v)
    <3>1. Len(v) \in Nat \ {0}
      BY <2>1, EmptySeq
    <3> QED BY <3>1
  <2>3. Last(v) \in Byte
    BY <2>1, <2>2, ElementOfSeq DEF Last
  <2>4. v \in Bytes /\ <<Last(v)>> \in Bytes
    BY <2>1, <2>3 DEF Bytes
  <2> QED BY <1>1, <2>4, WriteSound DEF write_32, write_byte
<1> QED BY <1>2, <1>3, <1>4, AccessProper DEF Mload, ReadMemory, Mstore, Mstore8

LEMMA Copies ==
    ASSUME Running, NEW offset \in Offset, NEW length \in Offset, NEW from \in Offset,
           \/ Calldatacopy(offset, length, from)
           \/ Codecopy(offset, length, from)
           \/ Extcodecopy(offset, length, from)
           \/ Returndatacopy(offset, length, from)
    PROVE  FrameInv'
<1>1. /\ Top.memory \in Memory /\ length \in Nat /\ from \in Nat
      /\ Top.call_data.bytes \in Bytes /\ Top.execution_code.bytes \in Bytes
      /\ Top.return_data.bytes \in Bytes /\ Code \in Bytes
  BY RunningFrames, EvmFrameAssumption DEF Offset, Machine, Buffer, Bytes
<1>2. \A source \in Bytes :
        Access(write_buffer(Top.memory, offset, length, source, from)) => FrameInv'
  BY <1>1, WriteBufferSound, AccessProper
<1>3. Step(Error(frames)) => FrameInv'
  BY RunningFrames, ErrorProper, StepKeeps
<1> QED BY <1>1, <1>2, <1>3 DEF Calldatacopy, Codecopy, Extcodecopy, Returndatacopy

LEMMA EnteredSound ==
    ASSUME Running, NEW r, r.memory \in Memory, Sound(r.memory),
           NEW reason \in {"call", "create"}, NEW code \in Buffer, NEW call_data \in Buffer,
           NEW range \in [start : Offset, end : Offset]
    PROVE  LET fs == Entered(r, reason, code, call_data, range)
           IN  Machines(fs) /\ Serializable(fs) /\ Below(fs)
<1> DEFINE a == WithReturnData(WithMemory(frames, r.memory), Empty)
           n == Len(frames)
           f == [a[n] EXCEPT !.return_range = range]
           b == [a EXCEPT ![n] = f]
           callee == fork(reason, code, call_data)
           fs == Entered(r, reason, code, call_data, range)
<1>1. Machines(a) /\ Serializable(a)
  BY RunningFrames, WithMemorySound, WithReturnDataSound, FromSlice
<1>2. callee \in Machine /\ Sound(callee.memory)
  BY ForkedMachine
<1>3. fs = Append(b, callee)
  BY DEF Entered
<1>4. a \in Seq(Machine) /\ Len(a) = n /\ n \in Nat \ {0} /\ DOMAIN a = 1..n
  <2>1. Len(a) = n /\ n \in Nat
    BY RunningFrames, CountOfFrames DEF WithReturnData, WithMemory
  <2> QED BY <1>1, <2>1, CountOfFrames
<1> HIDE DEF a, n, callee
<1>5. f \in Machine /\ f.memory = a[n].memory
  <2>1. a[n] \in Machine
    BY <1>4, ElementOfSeq
  <2> QED BY <2>1 DEF Machine
<1> HIDE DEF f
<1>6. /\ b \in Seq(Machine) /\ Len(b) = n
      /\ \A k \in 1..n : b[k].memory = a[k].memory
  BY <1>4, <1>5
<1> HIDE DEF b
<1>7. /\ Append(b, callee) \in Seq(Machine) /\ Len(Append(b, callee)) = n + 1
      /\ Append(b, callee)[n + 1] = callee
      /\ \A k \in 1..n : Append(b, callee)[k] = b[k]
  BY <1>2, <1>4, <1>6
<1> HIDE DEF fs
<1>8. fs \in Seq(Machine) /\ Len(fs) = n + 1 /\ DOMAIN fs = 1..n + 1 /\ fs # <<>>
  BY <1>3, <1>4, <1>7
<1>9. \A k \in 1..n + 1 : Sound(fs[k].memory)
  <2>1. \A k \in 1..n : Sound(a[k].memory)
    BY <1>1, <1>4 DEF Serializable, Sound
  <2>2. \A k \in 1..n + 1 : k = n + 1 \/ k \in 1..n
    BY <1>4
  <2> QED BY <1>2, <1>3, <1>6, <1>7, <2>1, <2>2
<1>10. Machines(fs) /\ Serializable(fs)
  BY <1>8, <1>9 DEF Machines, Serializable, Sound
<1> QED BY <1>10, SerializableFrames DEF fs

LEMMA ReadFrame ==
    ASSUME Running, NEW offset \in Offset, NEW length \in Offset
    PROVE  LET r == read(Top.memory, offset, length)
           IN  /\ Keeps(r, Top.memory) /\ r.memory \in Memory
               /\ r.ok => /\ Sound(r.memory)
                          /\ from_slice(Slice(r.memory, offset, length)) \in Buffer
<1>1. Top.memory \in Memory /\ Sound(Top.memory) /\ length \in Nat
  BY RunningFrames, EvmFrameAssumption DEF Offset
<1> QED BY <1>1, ReadSound, FromSlice DEF Keeps, Result

LEMMA CallOpcodes ==
    ASSUME Running, NEW offset \in Offset, NEW length \in Offset,
           NEW to \in Offset, NEW toLength \in Offset
    PROVE  /\ Call(offset, length, to, toLength) => FrameInv'
           /\ CallRefused(offset, length, to, toLength) => FrameInv'
           /\ \A out \in Outputs : CallPrecompile(offset, length, to, toLength, out) => FrameInv'
<1> DEFINE r == read(Top.memory, offset, length)
           input == from_slice(Slice(r.memory, offset, length))
           fs == Entered(r, "call", from_account(Code), input, return_range_of(to, toLength))
           Ends(then) == Step(IF r.ok THEN then ELSE Error(WithMemory(frames, r.memory)))
<1>1. /\ Keeps(r, Top.memory) /\ r.memory \in Memory
      /\ r.ok => Sound(r.memory) /\ input \in Buffer
  BY ReadFrame
<1>2. return_range_of(to, toLength) \in [start : Offset, end : Offset]
  <2>1. to + toLength \in Int /\ USIZE \in Nat \ {0}
    BY EvmFrameAssumption DEF Offset
  <2>2. (to + toLength) % USIZE \in Offset
    BY <2>1 DEF Offset
  <2> QED BY <2>2 DEF return_range_of
<1>3. from_account(Code) \in Buffer /\ \A out \in Outputs : from_slice(out) \in Buffer
  BY EvmFrameAssumption, FromSlice DEF Bytes
<1> HIDE DEF r, input
<1>4. r.ok => Machines(fs) /\ Serializable(fs) /\ Below(fs)
  BY <1>1, <1>2, <1>3, EnteredSound
<1>5. Call(offset, length, to, toLength) => Ends(Outcome("running", fs))
  BY DEF Call, Called, r, input
<1>6. CallRefused(offset, length, to, toLength) => Ends(Error(fs))
  BY DEF CallRefused, Called, r, input
<1>7. \A out \in Outputs : CallPrecompile(offset, length, to, toLength, out) =>
        Ends(opcode_return_impl(fs, from_slice(out)))
  BY DEF CallPrecompile, Called, r, input
<1> HIDE DEF fs
<1>8. r.ok => /\ Proper(Outcome("running", fs)) /\ Proper(Error(fs))
              /\ \A out \in Outputs : Proper(opcode_return_impl(fs, from_slice(out)))
  BY <1>3, <1>4, ErrorProper, ReturnProper DEF Proper, Outcome
<1>9. \A then : (r.ok => Proper(then)) /\ Ends(then) => FrameInv'
  BY <1>1, AccessedProper, StepKeeps
<1> HIDE DEF Ends
<1> QED BY <1>5, <1>6, <1>7, <1>8, <1>9

LEMMA CreateOpcodes ==
    ASSUME Running, NEW offset \in Offset, NEW length \in Offset,
           Create(offset, length) \/ CreateRefused(offset, length)
    PROVE  FrameInv'
<1> DEFINE r == read(Top.memory, offset, length)
           init_code == from_slice(Slice(r.memory, offset, length))
           fs == Entered(r, "create", init_code, Empty, NoRange)
           Ends(then) == Step(IF r.ok THEN then ELSE Error(WithMemory(frames, r.memory)))
<1>1. /\ Keeps(r, Top.memory) /\ r.memory \in Memory
      /\ r.ok => Sound(r.memory) /\ init_code \in Buffer
  BY ReadFrame
<1>2. NoRange \in [start : Offset, end : Offset] /\ Empty \in Buffer
  BY EvmFrameAssumption, FromSlice DEF NoRange, Offset
<1> HIDE DEF r, init_code
<1>3. r.ok => Machines(fs) /\ Serializable(fs) /\ Below(fs)
  BY <1>1, <1>2, EnteredSound
<1>4. Create(offset, length) => Ends(Outcome("running", fs))
  BY DEF Create, Created, r, init_code
<1>5. CreateRefused(offset, length) => Ends(Error(fs))
  BY DEF CreateRefused, Created, r, init_code
<1> HIDE DEF fs
<1>6. r.ok => Proper(Outcome("running", fs)) /\ Proper(Error(fs))
  BY <1>3, ErrorProper DEF Proper, Outcome
<1>7. \A then : (r.ok => Proper(then)) /\ Ends(then) => FrameInv'
  BY <1>1, AccessedProper, StepKeeps
<1> HIDE DEF Ends
<1> QED BY <1>4, <1>5, <1>6, <1>7

LEMMA EndOpcodes ==
    ASSUME Running, NEW offset \in Offset, NEW length \in Offset
    PROVE  /\ Return(offset, length) => FrameInv'
           /\ Revert(offset, length) => FrameInv'
<1> DEFINE r == read(Top.memory, offset, length)
           b == from_slice(Slice(r.memory, offset, length))
           fs == WithMemory(frames, r.memory)
           Ends(then) == Step(IF r.ok THEN then ELSE Error(fs))
<1>1. Keeps(r, Top.memory) /\ r.memory \in Memory /\ (r.ok => b \in Buffer)
  BY ReadFrame
<1>2. Return(offset, length) => Ends(opcode_return_impl(fs, b))
  BY DEF Return, Accessed
<1>3. Revert(offset, length) => Ends(opcode_revert_impl(fs, b))
  BY DEF Revert, Accessed
<1> HIDE DEF r, b
<1>4. Machines(fs) /\ Below(fs)
  BY <1>1, RunningFrames, WithMemorySound
<1>5. \A then : (r.ok => Proper(then)) /\ Ends(then) => FrameInv'
  BY <1>1, AccessedProper, StepKeeps
<1> HIDE DEF fs, Ends
<1> QED BY <1>1, <1>2, <1>3, <1>4, <1>5, ReturnProper, RevertProper
-----------------------------------------------------------------------------
(* The next iteration *)

\* The memory a frame is given back holds what was written.
LEMMA FromBuffer ==
    ASSUME NEW v \in Bytes, Len(v) \in Offset
    PROVE  from_buffer(v) \in Memory /\ Sound(from_buffer(v))
<1> DEFINE p == next_power_of_two(Len(v))
           capacity == Max({p, MEMORY_CAPACITY})
<1>1. p \in Int /\ p >= Len(v) /\ MEMORY_CAPACITY \in Int /\ Len(v) \in Int
  BY NextPowerAssumption, EvmFrameAssumption DEF Offset
<1> HIDE DEF p
<1>2. capacity \in {p, MEMORY_CAPACITY} /\ capacity >= p
  BY <1>1, MaxOfTwo
<1> HIDE DEF capacity
<1>3. capacity - Len(v) \in Nat
  BY <1>1, <1>2
<1> DEFINE z == Zeros(capacity - Len(v))
<1>4. z \in Bytes
  BY <1>3, ZerosBytes
<1>5. from_buffer(v) = [data |-> v \o z, size |-> Len(v)]
  BY DEF from_buffer, capacity, p
<1> HIDE DEF z
<1>6. v \o z \in Bytes /\ Len(v \o z) >= Len(v)
  BY <1>4 DEF Bytes
<1> QED BY <1>5, <1>6 DEF Memory, Sound

LEMMA ReloadedSound ==
    ASSUME NEW f \in Machine, Sound(f.memory)
    PROVE  Reloaded(f) \in Machine /\ Sound(Reloaded(f).memory)
<1> DEFINE v == SubSeq(f.memory.data, 1, f.memory.size)
<1>1. f.memory.data \in Seq(Byte) /\ f.memory.size \in Offset /\ f.memory.size \in Nat
  BY EvmFrameAssumption DEF Machine, Memory, Bytes, Offset
<1>2. v \in Seq(Byte) /\ Len(v) = f.memory.size
  BY <1>1 DEF Sound
<1> HIDE DEF v
<1>3. from_buffer(v) \in Memory /\ Sound(from_buffer(v))
  BY <1>1, <1>2, FromBuffer DEF Bytes
<1>4. \A b, c \in Buffer : reinit_buffer(Deserialized(b), c.bytes) \in Buffer
  <2>1. <<>> \in Bytes
    BY DEF Bytes
  <2> QED BY <2>1, FromSlice DEF reinit_buffer, Deserialized, Buffer
<1> DEFINE B(b) == reinit_buffer(Deserialized(b), b.bytes)
<1>5. Reloaded(f) = [f EXCEPT !.execution_code = B(@), !.call_data = B(@),
                              !.return_data = B(@), !.memory = from_buffer(v)]
  BY DEF Reloaded, reinit_machine, Machine, v
<1>6. /\ f.execution_code \in Buffer /\ f.call_data \in Buffer /\ f.return_data \in Buffer
  BY DEF Machine
<1>7. B(f.execution_code) \in Buffer /\ B(f.call_data) \in Buffer /\ B(f.return_data) \in Buffer
  BY <1>4, <1>6
<1> HIDE DEF B
<1> QED BY <1>3, <1>5, <1>7 DEF Machine

LEMMA IterationKeeps ==
    ASSUME FrameInv, NextIteration
    PROVE  FrameInv'
<1>1. CASE UNCHANGED frames /\ status' = "panic"
  BY <1>1 DEF FrameInv, RunningSerializable
<1>2. CASE Serializable(frames) /\ frames' = [k \in DOMAIN frames |-> Reloaded(frames[k])]
  <2>1. frames \in Seq(Machine) /\ Len(frames) \in Nat \ {0} /\ DOMAIN frames = 1..Len(frames)
    BY CountOfFrames DEF FrameInv
  <2>2. \A k \in 1..Len(frames) :
          Reloaded(frames[k]) \in Machine /\ Sound(Reloaded(frames[k]).memory)
    BY <1>2, <2>1, ElementOfSeq, ReloadedSound DEF Serializable, Sound
  <2>3. frames' \in [1..Len(frames) -> Machine]
    BY <1>2, <2>1, <2>2
  <2>4. frames' \in Seq(Machine) /\ frames' # <<>>
    BY <2>1, <2>3
  <2>5. \A k \in DOMAIN frames' : Sound(frames'[k].memory)
    BY <1>2, <2>1, <2>2
  <2> QED BY <2>4, <2>5 DEF FrameInv, Machines, RunningSerializable, Serializable, Sound
<1> QED BY <1>1, <1>2 DEF NextIteration
-----------------------------------------------------------------------------
(* The specification *)

\* A machine begins with an empty memory.
LEMMA FrameInit == Init => FrameInv
<1> SUFFICES ASSUME Init PROVE FrameInv
  OBVIOUS
<1> DEFINE f == fork("call", from_account(Code), from_slice(CallData))
<1>1. from_account(Code) \in Buffer /\ from_slice(CallData) \in Buffer
  BY EvmFrameAssumption, FromSlice DEF Bytes
<1>2. f \in Machine /\ Sound(f.memory)
  BY <1>1, ForkedMachine
<1>3. frames = <<f>>
  BY DEF Init
<1> HIDE DEF f
<1>4. frames \in Seq(Machine) /\ frames # <<>> /\ DOMAIN frames = {1} /\ frames[1] = f
  BY <1>2, <1>3
<1> QED BY <1>2, <1>4 DEF FrameInv, Machines, RunningSerializable, Serializable, Sound

\* A machine that has ended executes no opcode.
LEMMA Stopped ==
    ASSUME status # "running"
    PROVE  /\ \A v, x, y, z :
                 /\ ~Mload(x) /\ ~ReadMemory(x, y) /\ ~Mstore(x, v) /\ ~Mstore8(x, v)
                 /\ ~Calldatacopy(x, y, z) /\ ~Codecopy(x, y, z)
                 /\ ~Extcodecopy(x, y, z) /\ ~Returndatacopy(x, y, z)
           /\ \A x, y, z, w, out :
                 ~Call(x, y, z, w) /\ ~CallRefused(x, y, z, w) /\ ~CallPrecompile(x, y, z, w, out)
           /\ \A x, y :
                 ~Create(x, y) /\ ~CreateRefused(x, y) /\ ~Return(x, y) /\ ~Revert(x, y)
           /\ ~Stop /\ ~OtherError
<1>1. \A o : ~Step(o)
  BY DEF Step
<1>2. ASSUME NEW r, NEW then PROVE ~Accessed(r, then) /\ ~Access(r)
  BY <1>1 DEF Accessed, Access
<1>3. \A v, x, y, z :
        /\ ~Mload(x) /\ ~ReadMemory(x, y) /\ ~Mstore(x, v) /\ ~Mstore8(x, v)
        /\ ~Calldatacopy(x, y, z) /\ ~Codecopy(x, y, z)
        /\ ~Extcodecopy(x, y, z) /\ ~Returndatacopy(x, y, z)
  BY <1>1, <1>2 DEF Mload, ReadMemory, Mstore, Mstore8, Calldatacopy, Codecopy,
     Extcodecopy, Returndatacopy
<1>4. \A x, y, z, w, out :
        ~Call(x, y, z, w) /\ ~CallRefused(x, y, z, w) /\ ~CallPrecompile(x, y, z, w, out)
  BY <1>1 DEF Call, CallRefused, CallPrecompile, Called
<1>5. \A x, y :
        ~Create(x, y) /\ ~CreateRefused(x, y) /\ ~Return(x, y) /\ ~Revert(x, y)
  BY <1>1, <1>2 DEF Create, CreateRefused, Created, Return, Revert
<1>6. ~Stop /\ ~OtherError
  BY <1>1 DEF Stop, OtherError
<1> QED BY <1>3, <1>4, <1>5, <1>6

LEMMA FrameNext == FrameInv /\ [Next]_vars => FrameInv'
<1> SUFFICES ASSUME FrameInv, [Next]_vars PROVE FrameInv'
  OBVIOUS
<1>1. CASE UNCHANGED vars
  BY <1>1 DEF vars, FrameInv, RunningSerializable, Machines, Serializable
<1>2. CASE NextIteration
  BY <1>2, IterationKeeps
<1>3. CASE status = "running"
  <2>1. Running
    BY <1>3 DEF FrameInv, RunningSerializable, Running
  <2>2. \A r \in Ranges : r[1] \in Offset /\ r[2] \in Offset
    BY EvmFrameAssumption DEF Offset
  <2>3. \A from \in Froms : from \in Offset
    BY EvmFrameAssumption DEF Offset
  <2>4. ASSUME NEW r \in Ranges,
               \/ Mload(r[1]) \/ ReadMemory(r[1], r[2])
               \/ \E v \in Words : Mstore(r[1], v) \/ Mstore8(r[1], v)
        PROVE  FrameInv'
    BY <2>1, <2>2, <2>4, MemoryOpcodes
  <2>5. ASSUME NEW r \in Ranges, NEW from \in Froms,
               \/ Calldatacopy(r[1], r[2], from) \/ Codecopy(r[1], r[2], from)
               \/ Extcodecopy(r[1], r[2], from) \/ Returndatacopy(r[1], r[2], from)
        PROVE  FrameInv'
    BY <2>1, <2>2, <2>3, <2>5, Copies
  <2>6. ASSUME NEW r \in Ranges, NEW to \in Ranges,
               \/ Call(r[1], r[2], to[1], to[2]) \/ CallRefused(r[1], r[2], to[1], to[2])
               \/ \E out \in Outputs : CallPrecompile(r[1], r[2], to[1], to[2], out)
        PROVE  FrameInv'
    BY <2>1, <2>2, <2>6, CallOpcodes
  <2>7. ASSUME NEW r \in Ranges, Create(r[1], r[2]) \/ CreateRefused(r[1], r[2])
        PROVE  FrameInv'
    BY <2>1, <2>2, <2>7, CreateOpcodes
  <2>8. ASSUME NEW r \in Ranges, Return(r[1], r[2]) \/ Revert(r[1], r[2])
        PROVE  FrameInv'
    BY <2>1, <2>2, <2>8, EndOpcodes
  <2>9. CASE Stop \/ OtherError
    BY <2>1, <2>9, RunningFrames, FromSlice, ReturnProper, ErrorProper, StepKeeps
       DEF Stop, OtherError
  <2> QED BY <1>1, <1>2, <2>4, <2>5, <2>6, <2>7, <2>8, <2>9 DEF Next
<1>4. CASE status # "running" /\ Next
  BY <1>2, <1>4, Stopped DEF Next
<1> QED BY <1>1, <1>3, <1>4

\* A machine that has not ended can always be written to the holder account,
\* whatever its operands, code and limits, however many opcodes it executed
\* and wherever its iterations were cut: Memory's serialize, the errors that
\* Machine::execute turns into reverts, and from_buffer.
THEOREM MachineStaysSerializable == Spec => []RunningSerializable
<1>1. FrameInv => RunningSerializable
  BY DEF FrameInv
<1> QED BY <1>1, FrameInit, FrameNext, PTL DEF Spec

-----------------------------------------------------------------------------
(* Beside EvmMemory: numbers *)

WholeWords(n) == n % ELEMENT_SIZE = 0

LEMMA Multiples ==
    ASSUME NEW e \in Nat \ {0}, NEW q \in Int
    PROVE  (e * q) % e = 0
<1>1. e * q \in Int
  OBVIOUS
<1> DEFINE n == e * q
           d == n \div e
           r == n % e
<1>2. n \in Int /\ d \in Int /\ r \in 0..e - 1 /\ n = e * d + r
  BY <1>1, Z3
<1>3. r = e * (q - d)
  BY <1>2, Z3
<1>4. q - d \in Int
  BY <1>2
<1> HIDE DEF n, d, r
<1>5. CASE q - d >= 1
  <2>1. e * (q - d) >= e
    BY <1>4, <1>5, Z3
  <2> QED BY <1>2, <1>3, <2>1
<1>6. CASE q - d <= -1
  <2>1. e * (q - d) <= -e
    BY <1>4, <1>6, Z3
  <2> QED BY <1>2, <1>3, <2>1
<1>7. CASE q - d = 0
  BY <1>3, <1>7 DEF r, n
<1> QED BY <1>4, <1>5, <1>6, <1>7

\* Whole words that reach n do not pass a limit that is a number of words.
LEMMA UpToLimit ==
    ASSUME NEW e \in Nat \ {0}, NEW limit \in Nat, limit % e = 0,
           NEW n \in Nat, n <= limit
    PROVE  e * ((n + e - 1) \div e) <= limit
<1> DEFINE q == (n + e - 1) \div e
           k == limit \div e
<1>1. k \in Int /\ limit = e * k
  BY Z3
<1>2. q \in Int /\ e * q <= n + e - 1
  BY RoundedUp
<1> HIDE DEF q, k
<1>3. e * q < e * k + e
  <2>1. e * q \in Int /\ e * k \in Int
    BY <1>1, <1>2
  <2> QED BY <1>1, <1>2, <2>1
<1>4. CASE q >= k + 1
  <2>1. e * q >= e * (k + 1)
    BY <1>1, <1>2, <1>4, Z3
  <2>2. e * (k + 1) = e * k + e
    BY <1>1, Z3
  <2>3. e * q \in Int /\ e * k \in Int
    BY <1>1, <1>2
  <2> QED BY <1>3, <2>1, <2>2, <2>3
<1>5. CASE q <= k
  <2>1. e * q <= e * k
    BY <1>1, <1>2, <1>5, Z3
  <2> QED BY <1>1, <2>1 DEF q
<1> QED BY <1>1, <1>2, <1>4, <1>5

\* The size that realloc asks for is that of the flat memory, or past the limit.
LEMMA NewSizeFits ==
    ASSUME NEW n \in Nat
    PROVE  LET s == checked_next_multiple_of_32(n)
           IN  /\ n <= MAX_MEMORY_SIZE =>
                     /\ s = Flat!Word(n) /\ s # NoSize /\ s \in Offset /\ n < USIZE
                     /\ s >= n /\ s <= MAX_MEMORY_SIZE /\ WholeWords(s)
               /\ n > MAX_MEMORY_SIZE /\ s # NoSize =>
                     s \in Offset /\ s > MAX_MEMORY_SIZE /\ WholeWords(s)
<1> DEFINE e == ELEMENT_SIZE
           s == checked_next_multiple_of_32(n)
           q == (n + e - 1) \div e
<1>1. /\ e \in Nat \ {0} /\ MAX_MEMORY_SIZE \in Nat /\ USIZE \in Nat
      /\ MAX_MEMORY_SIZE % e = 0 /\ MAX_MEMORY_SIZE + e <= USIZE
  BY EvmFrameAssumption, LimitAssumption
<1>2. q \in Int
  BY <1>1
<1>3. e * q \in Nat /\ e * q >= n /\ e * q <= n + e - 1
  BY <1>1, RoundedUp
<1>4. n <= MAX_MEMORY_SIZE => e * q <= MAX_MEMORY_SIZE
  BY <1>1, UpToLimit
<1>5. WholeWords(e * q)
  BY <1>1, <1>2, Multiples DEF WholeWords
<1>6. s = IF n + e - 1 >= USIZE THEN NoSize ELSE e * q
  BY DEF checked_next_multiple_of_32
<1>7. Flat!Word(n) = e * q
  BY DEF Flat!Word
<1> HIDE DEF q, s
<1>8. ASSUME n <= MAX_MEMORY_SIZE
      PROVE  /\ s = Flat!Word(n) /\ s # NoSize /\ s \in Offset /\ n < USIZE
             /\ s >= n /\ s <= MAX_MEMORY_SIZE /\ WholeWords(s)
  <2>1. ~(n + e - 1 >= USIZE)
    BY <1>1, <1>8
  <2>2. s = e * q
    BY <1>6, <2>1
  <2> HIDE DEF e
  <2> DEFINE w == e * q
  <2>3. w \in Nat /\ w >= n /\ w <= MAX_MEMORY_SIZE
    BY <1>3, <1>4, <1>8
  <2> HIDE DEF w
  <2>4. w # NoSize /\ w \in Offset
    BY <1>1, <2>3 DEF NoSize, Offset
  <2>5. n < USIZE
    BY <1>1, <1>8
  <2> QED BY <1>5, <1>7, <2>2, <2>3, <2>4, <2>5 DEF w
<1>9. ASSUME n > MAX_MEMORY_SIZE, s # NoSize
      PROVE  s \in Offset /\ s > MAX_MEMORY_SIZE /\ WholeWords(s)
  <2>1. s = e * q /\ ~(n + e - 1 >= USIZE)
    BY <1>6, <1>9
  <2> DEFINE w == e * q
  <2>2. w \in Nat /\ w >= n /\ w <= n + e - 1
    BY <1>3
  <2> HIDE DEF w
  <2>3. w \in Offset /\ w > MAX_MEMORY_SIZE
    BY <1>1, <1>9, <2>1, <2>2 DEF Offset
  <2> QED BY <1>5, <2>1, <2>3 DEF w
<1> QED BY <1>8, <1>9 DEF s

-----------------------------------------------------------------------------
(* Beside EvmMemory: memory *)

Trim(m) == WholeWords(m.size) /\ Len(m.data) \in MEMORY_CAPACITY..MAX_MEMORY_SIZE

\* r is what realloc makes of m, for an access that ends at end.
Extended(m, end, r) ==
    /\ r.ok <=> end <= MAX_MEMORY_SIZE
    /\ Trim(r.memory)
    /\ r.ok => /\ r.memory.size = Max({m.size, Flat!Word(end)})
               /\ end <= r.memory.size /\ end <= Len(r.memory.data)
               /\ m.size <= r.memory.size
               /\ Len(m.data) <= Len(r.memory.data)
               /\ \A k \in 1..Len(r.memory.data) :
                     r.memory.data[k] = IF k <= Len(m.data) THEN m.data[k] ELSE 0

LEMMA ReallocExtends ==
    ASSUME NEW m \in Memory, Trim(m), NEW offset \in Offset, NEW length \in Nat
    PROVE  Extended(m, offset + length, realloc(m, offset, length))
<1> DEFINE end == offset + length
           n == checked_next_multiple_of_32(end)
           size == Max({m.size, n})
           grown == [m EXCEPT !.size = size]
           capacity == next_power_of_two(n)
           z == Zeros(capacity - Len(grown.data))
           larger == [grown EXCEPT !.data = grown.data \o z]
           r == realloc(m, offset, length)
<1>1. end \in Nat /\ USIZE \in Nat \ {0} /\ MAX_MEMORY_SIZE \in Nat /\ MAX_MEMORY_SIZE < USIZE
      /\ MEMORY_CAPACITY \in Nat
  BY EvmFrameAssumption DEF Offset
<1>2. /\ end <= MAX_MEMORY_SIZE =>
            /\ n = Flat!Word(end) /\ n # NoSize /\ n \in Offset /\ end < USIZE
            /\ n >= end /\ n <= MAX_MEMORY_SIZE /\ WholeWords(n)
      /\ end > MAX_MEMORY_SIZE /\ n # NoSize =>
            n \in Offset /\ n > MAX_MEMORY_SIZE /\ WholeWords(n)
  BY <1>1, NewSizeFits
<1>3. r = IF end >= USIZE \/ n = NoSize THEN MemoryAccessOutOfLimits(m)
          ELSE IF n <= Len(m.data) THEN Ok(grown)
          ELSE IF capacity > MAX_MEMORY_SIZE THEN MemoryAccessOutOfLimits(grown)
          ELSE Ok(larger)
  BY DEF realloc
<1>4. /\ m.data \in Seq(Byte) /\ Len(m.data) \in Nat /\ m.size \in Offset
      /\ WholeWords(m.size) /\ Len(m.data) \in MEMORY_CAPACITY..MAX_MEMORY_SIZE
  BY DEF Memory, Bytes, Trim
<1> HIDE DEF end, n, r
<1>5. CASE end >= USIZE \/ n = NoSize
  <2>1. r.ok = FALSE /\ r.memory = m
    BY <1>3, <1>5 DEF MemoryAccessOutOfLimits
  <2>2. ~(end <= MAX_MEMORY_SIZE)
    BY <1>1, <1>2, <1>5
  <2> QED BY <2>1, <2>2 DEF Extended, end, r
<1>6. CASE n \in Offset /\ n # NoSize /\ WholeWords(n) /\ ~(end >= USIZE)
  <2>1. n \in Int /\ m.size \in Int
    BY <1>1, <1>4, <1>6 DEF Offset
  <2>2. size \in {m.size, n} /\ size >= m.size /\ size >= n
    BY <2>1, MaxOfTwo
  <2>3. WholeWords(size)
    BY <1>4, <1>6, <2>2
  <2> HIDE DEF size
  <2>4. grown \in Memory /\ grown.size = size /\ grown.data = m.data
    BY <1>4, <1>6, <2>2 DEF Memory
  <2>5. Trim(grown)
    BY <1>4, <2>3, <2>4 DEF Trim
  <2> HIDE DEF grown
  <2>6. size \in Int
    BY <2>1, <2>2
  <2>7. CASE n <= Len(m.data)
    <3>1. r.ok = TRUE /\ r.memory = grown
      BY <1>3, <1>6, <2>7 DEF Ok
    <3>2. end <= MAX_MEMORY_SIZE
      BY <1>1, <1>2, <1>4, <1>6, <2>1, <2>7
    <3>3. end <= n /\ n = Flat!Word(end)
      BY <1>2, <3>2
    <3>4. end <= size /\ end <= Len(m.data) /\ m.size <= size
      BY <1>1, <1>4, <2>1, <2>2, <2>6, <2>7, <3>3
    <3>5. size = Max({m.size, Flat!Word(end)})
      BY <3>3 DEF size
    <3>6. \A k \in 1..Len(grown.data) :
             grown.data[k] = IF k <= Len(m.data) THEN m.data[k] ELSE 0
      BY <1>4, <2>4
    <3>7. Extended(m, end, r)
      BY <1>4, <2>4, <2>5, <3>1, <3>2, <3>4, <3>5, <3>6 DEF Extended
    <3> QED BY <3>7 DEF end, r
  <2>8. CASE ~(n <= Len(m.data)) /\ capacity > MAX_MEMORY_SIZE
    <3>1. r.ok = FALSE /\ r.memory = grown
      BY <1>3, <1>6, <2>8 DEF MemoryAccessOutOfLimits
    <3>2. ~(end <= MAX_MEMORY_SIZE)
      <4>1. ASSUME end <= MAX_MEMORY_SIZE PROVE FALSE
        <5>1. n \in 0..MAX_MEMORY_SIZE
          BY <1>1, <1>2, <1>6, <2>1, <4>1 DEF Offset
        <5>2. n \in Offset /\ capacity \in Nat /\ capacity <= MAX_MEMORY_SIZE
          BY <1>6, <5>1, NextPowerAssumption, LimitAssumption DEF Offset
        <5> HIDE DEF capacity
        <5> QED BY <1>1, <2>8, <5>2
      <4> QED BY <4>1
    <3> QED BY <2>5, <3>1, <3>2 DEF Extended, end, r
  <2>9. CASE ~(n <= Len(m.data)) /\ ~(capacity > MAX_MEMORY_SIZE)
    <3>1. r.ok = TRUE /\ r.memory = larger
      BY <1>3, <1>6, <2>9 DEF Ok
    <3>2. capacity \in Nat /\ capacity >= n
      BY <1>6, NextPowerAssumption DEF Offset
    <3> HIDE DEF capacity
    <3>3. capacity <= MAX_MEMORY_SIZE /\ n <= MAX_MEMORY_SIZE /\ Len(m.data) <= capacity
      BY <1>1, <1>4, <2>1, <2>9, <3>2
    <3>4. end <= MAX_MEMORY_SIZE
      BY <1>1, <1>2, <1>6, <2>1, <3>3
    <3>5. end <= n /\ n = Flat!Word(end)
      BY <1>2, <3>4
    <3>6. capacity - Len(grown.data) \in Nat
      BY <1>4, <2>4, <3>2, <3>3
    <3>7. /\ z \in Seq(Byte) /\ Len(z) = capacity - Len(grown.data)
          /\ \A k \in 1..Len(z) : z[k] = 0
      BY <3>6, ZerosBytes DEF Bytes, Zeros
    <3> HIDE DEF z
    <3> DEFINE d == m.data \o z
    <3>8. /\ d \in Seq(Byte) /\ Len(d) = capacity
          /\ \A k \in 1..Len(d) : d[k] = IF k <= Len(m.data) THEN m.data[k] ELSE 0
      BY <1>4, <2>4, <3>2, <3>7
    <3> HIDE DEF d
    <3>9. larger.size = size /\ larger.data = d
      BY <2>4, <3>8 DEF Memory, d
    <3> HIDE DEF larger
    <3>10. end <= size /\ end <= capacity /\ m.size <= size
      BY <1>1, <2>1, <2>2, <2>6, <3>2, <3>5
    <3>11. size = Max({m.size, Flat!Word(end)})
      BY <3>5 DEF size
    <3>12. Trim(larger)
      <4>1. capacity \in MEMORY_CAPACITY..MAX_MEMORY_SIZE
        BY <1>1, <1>4, <3>2, <3>3
      <4> QED BY <2>3, <3>8, <3>9, <4>1 DEF Trim
    <3>13. Extended(m, end, r)
      BY <3>1, <3>3, <3>4, <3>8, <3>9, <3>10, <3>11, <3>12 DEF Extended
    <3> QED BY <3>13 DEF end, r
  <2> QED BY <2>7, <2>8, <2>9
<1>7. CASE end > MAX_MEMORY_SIZE \/ end <= MAX_MEMORY_SIZE
  BY <1>2, <1>5, <1>6, <1>7
<1> QED BY <1>1, <1>7

Places == 0..MAX_MEMORY_SIZE - 1

\* A memory m shows the bytes of a flat one, of which size are in use.
Shows(m, size, bytes) ==
    /\ m.size = size
    /\ \A n \in Places : bytes[n] = IF n < Len(m.data) THEN m.data[n + 1] ELSE 0
    /\ \A n \in Places : n >= size => bytes[n] = 0

FlatFrame ==
    [reason : {"call", "create"}, code : Bytes, input : Bytes, output : Bytes,
     to : Offset, toLength : Offset, size : Nat, bytes : [Places -> Byte]]

LEMMA ExtendedShows ==
    ASSUME NEW m, NEW end \in Nat, NEW r \in Result, Extended(m, end, r), r.ok,
           m \in Memory, NEW bytes, Shows(m, m.size, bytes)
    PROVE  Shows(r.memory, r.memory.size, bytes)
<1>1. /\ m.size \in Nat /\ r.memory.size \in Nat /\ m.size <= r.memory.size
      /\ Len(m.data) \in Nat /\ Len(r.memory.data) \in Nat
      /\ Len(m.data) <= Len(r.memory.data) /\ MAX_MEMORY_SIZE \in Nat
  BY EvmFrameAssumption DEF Extended, Result, Memory, Offset, Bytes
<1>2. ASSUME NEW n \in Places
      PROVE  bytes[n] = IF n < Len(r.memory.data) THEN r.memory.data[n + 1] ELSE 0
  <2>1. n \in Nat
    BY <1>1 DEF Places
  <2>2. bytes[n] = IF n < Len(m.data) THEN m.data[n + 1] ELSE 0
    BY DEF Shows
  <2>3. CASE n < Len(r.memory.data)
    <3>1. n + 1 \in 1..Len(r.memory.data)
      BY <1>1, <2>1, <2>3
    <3>2. r.memory.data[n + 1] = IF n + 1 <= Len(m.data) THEN m.data[n + 1] ELSE 0
      BY <3>1 DEF Extended
    <3> QED BY <1>1, <2>1, <2>2, <2>3, <3>2
  <2>4. CASE ~(n < Len(r.memory.data))
    BY <1>1, <2>1, <2>2, <2>4
  <2> QED BY <2>3, <2>4
<1>3. \A n \in Places : n >= r.memory.size => bytes[n] = 0
  <2>1. \A n \in Places : n \in Nat
    BY <1>1 DEF Places
  <2> QED BY <1>1, <2>1 DEF Shows
<1> QED BY <1>2, <1>3 DEF Shows

\* The bytes with v written at offset
Overwritten(bytes, offset, v) ==
    [n \in Places |-> IF n - offset + 1 \in DOMAIN v THEN v[n - offset + 1] ELSE bytes[n]]

LEMMA WrittenShows ==
    ASSUME NEW r \in Result, r.ok, Trim(r.memory), NEW bytes, Shows(r.memory, r.memory.size, bytes),
           NEW offset \in Offset, NEW v \in Bytes,
           offset + Len(v) <= r.memory.size, offset + Len(v) <= Len(r.memory.data)
    PROVE  LET w == Written(r, offset, v)
           IN  /\ w.ok /\ Trim(w.memory)
               /\ Shows(w.memory, r.memory.size, Overwritten(bytes, offset, v))
<1> DEFINE d == r.memory.data
           e == [k \in DOMAIN d |-> IF k - offset \in DOMAIN v THEN v[k - offset] ELSE d[k]]
           w == Written(r, offset, v)
           after == Overwritten(bytes, offset, v)
<1>1. /\ r.memory \in Memory /\ d \in Seq(Byte) /\ Len(d) \in Nat /\ DOMAIN d = 1..Len(d)
      /\ r.memory.size \in Nat /\ v \in Seq(Byte) /\ Len(v) \in Nat /\ DOMAIN v = 1..Len(v)
      /\ offset \in Nat /\ MAX_MEMORY_SIZE \in Nat /\ r.ok = TRUE
  BY EvmFrameAssumption DEF Result, Memory, Bytes, Offset
<1>2. w = [r EXCEPT !.memory.data = e]
  BY DEF Written
<1>3. e \in [1..Len(d) -> Byte]
  BY <1>1
<1>4. e \in Seq(Byte) /\ Len(e) = Len(d)
  BY <1>1, <1>3
<1>5. w.ok = TRUE /\ w.memory.size = r.memory.size /\ w.memory.data = e
  BY <1>1, <1>2 DEF Result, Memory
<1>6. \A k \in 1..Len(d) : e[k] = IF k - offset \in 1..Len(v) THEN v[k - offset] ELSE d[k]
  BY <1>1
<1> HIDE DEF e, w
<1>7. Trim(w.memory)
  BY <1>4, <1>5 DEF Trim
<1>8. \A n \in Places : after[n] = IF n - offset + 1 \in 1..Len(v) THEN v[n - offset + 1] ELSE bytes[n]
  BY <1>1 DEF Overwritten
<1> HIDE DEF after
<1>9. ASSUME NEW n \in Places
      PROVE  after[n] = IF n < Len(e) THEN e[n + 1] ELSE 0
  <2>1. n \in Nat
    BY <1>1 DEF Places
  <2>2. bytes[n] = IF n < Len(d) THEN d[n + 1] ELSE 0
    BY DEF Shows
  <2>3. n - offset + 1 = n + 1 - offset /\ n + 1 \in Nat
    BY <1>1, <2>1
  <2>4. CASE n < Len(d)
    <3>1. n + 1 \in 1..Len(d)
      BY <1>1, <2>1, <2>4
    <3>2. e[n + 1] = IF n + 1 - offset \in 1..Len(v) THEN v[n + 1 - offset] ELSE d[n + 1]
      <4> DEFINE j == n + 1
      <4>1. j \in 1..Len(d)
        BY <3>1
      <4> HIDE DEF j
      <4>2. e[j] = IF j - offset \in 1..Len(v) THEN v[j - offset] ELSE d[j]
        BY <1>6, <4>1
      <4>3. j - offset = n + 1 - offset /\ j = n + 1
        BY <1>1, <2>1 DEF j
      <4> QED BY <4>2, <4>3
    <3> QED BY <1>4, <1>8, <2>2, <2>3, <2>4, <3>2
  <2>5. CASE ~(n < Len(d))
    <3>1. n - offset + 1 \notin 1..Len(v)
      BY <1>1, <2>1, <2>5
    <3> QED BY <1>4, <1>8, <2>2, <2>5, <3>1
  <2> QED BY <2>4, <2>5
<1>10. ASSUME NEW n \in Places, n >= r.memory.size
       PROVE  after[n] = 0
  <2>1. n \in Nat
    BY <1>1 DEF Places
  <2>2. n - offset + 1 \notin 1..Len(v)
    BY <1>1, <1>10, <2>1
  <2>3. bytes[n] = 0
    BY <1>10 DEF Shows
  <2> QED BY <1>8, <2>2, <2>3
<1>11. Shows(w.memory, r.memory.size, after)
  BY <1>5, <1>9, <1>10 DEF Shows
<1> QED BY <1>5, <1>7, <1>11 DEF w, after

\* EvmMemory has its own instance of what it takes from the community modules.
LEMMA FlatOperators ==
    /\ \A S : Flat!Max(S) = Max(S)
    /\ \A s : Flat!Last(s) = Last(s) /\ Flat!Front(s) = Front(s)
BY DEF Flat!Max, Max, Flat!Last, Last, Flat!Front, Front

\* h differs from g in its memory only.
Rest(h, g) ==
    /\ h.reason = g.reason /\ h.code = g.code /\ h.input = g.input /\ h.output = g.output
    /\ h.to = g.to /\ h.toLength = g.toLength

Over(m, g) == Shows(m, g.size, g.bytes)

UsedSize(g, offset, length) ==
    IF length = 0 THEN g.size ELSE Max({g.size, Flat!Word(offset + length)})

LEMMA FlatUsed ==
    ASSUME NEW g \in FlatFrame, NEW offset \in Offset, NEW length \in Nat
    PROVE  LET h == Flat!Used(g, offset, length)
           IN  /\ h \in FlatFrame /\ Rest(h, g) /\ h.bytes = g.bytes
               /\ h.size = UsedSize(g, offset, length)
<1> DEFINE s == UsedSize(g, offset, length)
<1>1. s \in Nat
  <2> DEFINE w == Flat!Word(offset + length)
  <2>1. w \in Nat
    <3>1. ELEMENT_SIZE \in Nat \ {0} /\ offset + length \in Nat
      BY EvmFrameAssumption DEF Offset
    <3> QED BY <3>1, RoundedUp DEF Flat!Word
  <2>2. g.size \in Nat
    BY DEF FlatFrame
  <2> HIDE DEF w
  <2>3. Max({g.size, w}) \in {g.size, w}
    <3>1. g.size \in Int /\ w \in Int
      BY <2>1, <2>2
    <3> QED BY <3>1, MaxOfTwo, Zenon
  <2>4. s = IF length = 0 THEN g.size ELSE Max({g.size, w})
    BY DEF UsedSize, w
  <2> HIDE DEF s
  <2> QED BY <2>1, <2>2, <2>3, <2>4
<1>2. Flat!Used(g, offset, length) = [g EXCEPT !.size = s]
  BY FlatOperators DEF Flat!Used, UsedSize
<1> HIDE DEF s
<1>3. [g EXCEPT !.size = s] \in FlatFrame
  BY <1>1 DEF FlatFrame
<1> QED BY <1>2, <1>3 DEF FlatFrame, Rest, s

LEMMA FlatPut ==
    ASSUME NEW g \in FlatFrame, NEW offset \in Offset, NEW v \in Bytes
    PROVE  LET h == Flat!Put(g, offset, v)
           IN  /\ h \in FlatFrame /\ Rest(h, g)
               /\ h.bytes = Overwritten(g.bytes, offset, v)
               /\ h.size = UsedSize(g, offset, Len(v))
<1> DEFINE u == Flat!Used(g, offset, Len(v))
           b == Overwritten(g.bytes, offset, v)
<1>1. Len(v) \in Nat /\ v \in Seq(Byte)
  BY DEF Bytes
<1>2. /\ u \in FlatFrame /\ Rest(u, g) /\ u.bytes = g.bytes
      /\ u.size = UsedSize(g, offset, Len(v))
  BY <1>1, FlatUsed
<1>3. g.bytes \in [Places -> Byte]
  BY DEF FlatFrame
<1>4. b \in [Places -> Byte]
  <2>1. \A k \in DOMAIN v : v[k] \in Byte
    BY <1>1, ElementOfSeq
  <2> QED BY <1>3, <2>1 DEF Overwritten
<1>5. Flat!Put(g, offset, v) = [u EXCEPT !.bytes = b]
  <2>1. DOMAIN u.bytes = Places
    BY <1>2, <1>3
  <2>2. Flat!Put(g, offset, v) = [u EXCEPT !.bytes =
           [n \in DOMAIN u.bytes |-> IF n - offset + 1 \in DOMAIN v
                                     THEN v[n - offset + 1] ELSE u.bytes[n]]]
    BY DEF Flat!Put
  <2> HIDE DEF u
  <2> QED BY <1>2, <2>1, <2>2 DEF Overwritten
<1> HIDE DEF u, b
<1>6. [u EXCEPT !.bytes = b] \in FlatFrame
  BY <1>2, <1>4 DEF FlatFrame
<1> QED BY <1>2, <1>5, <1>6 DEF FlatFrame, Rest, b

\* The memory m after v was written to it
Stored(m, offset, v) ==
    IF Len(v) = 0 THEN Ok(m) ELSE Written(realloc(m, offset, Len(v)), offset, v)

LEMMA StoreAgrees ==
    ASSUME NEW m \in Memory, Trim(m), NEW g \in FlatFrame, Over(m, g),
           NEW offset \in Offset, NEW v \in Bytes
    PROVE  LET w == Stored(m, offset, v)
           IN  /\ w.ok <=> Flat!Fits(offset, Len(v))
               /\ w.memory \in Memory /\ Trim(w.memory)
               /\ w.ok => Over(w.memory, Flat!Put(g, offset, v))
<1> DEFINE h == Flat!Put(g, offset, v)
           w == Stored(m, offset, v)
           r == realloc(m, offset, Len(v))
<1>1. Len(v) \in Nat /\ offset + Len(v) \in Nat /\ m.size = g.size /\ Shows(m, m.size, g.bytes)
  BY EvmFrameAssumption DEF Bytes, Offset, Over, Shows
<1>2. /\ h.bytes = Overwritten(g.bytes, offset, v)
      /\ h.size = UsedSize(g, offset, Len(v))
  BY FlatPut
<1>3. Flat!Fits(offset, Len(v)) <=> Len(v) = 0 \/ offset + Len(v) <= MAX_MEMORY_SIZE
  BY DEF Flat!Fits
<1>4. CASE Len(v) = 0
  <2>1. w.ok = TRUE /\ w.memory = m
    BY <1>4 DEF Stored, Ok
  <2>2. h.size = g.size
    BY <1>2, <1>4 DEF UsedSize
  <2>3. v = <<>>
    BY <1>4, EmptySeq DEF Bytes
  <2>4. DOMAIN v = {}
    BY <2>3
  <2>5. \A n \in Places : h.bytes[n] = g.bytes[n]
    BY <1>2, <2>4 DEF Overwritten
  <2> HIDE DEF w, h
  <2>6. Over(w.memory, h)
    BY <2>1, <2>2, <2>5 DEF Over, Shows
  <2> QED BY <1>3, <1>4, <2>1, <2>6 DEF w, h
<1>5. CASE Len(v) # 0
  <2>1. r \in Result /\ Extended(m, offset + Len(v), r)
    BY <1>1, ReallocSound, ReallocExtends DEF Reaches
  <2>2. w = Written(r, offset, v)
    BY <1>5 DEF Stored
  <2> HIDE DEF r
  <2>3. w \in Result /\ w.ok = r.ok
    BY <2>1, <2>2, WrittenSound
  <2>4. Trim(r.memory) /\ (r.ok <=> offset + Len(v) <= MAX_MEMORY_SIZE)
    BY <2>1 DEF Extended
  <2>5. ASSUME r.ok PROVE Trim(w.memory) /\ Over(w.memory, h)
    <3>1. Shows(r.memory, r.memory.size, g.bytes)
      BY <1>1, <2>1, <2>5, ExtendedShows
    <3>2. /\ offset + Len(v) <= r.memory.size /\ offset + Len(v) <= Len(r.memory.data)
          /\ r.memory.size = Max({m.size, Flat!Word(offset + Len(v))})
      BY <2>1, <2>5 DEF Extended
    <3>3. h.size = r.memory.size
      BY <1>1, <1>2, <1>5, <3>2 DEF UsedSize
    <3>4. Trim(w.memory) /\ Shows(w.memory, r.memory.size, Overwritten(g.bytes, offset, v))
      BY <2>1, <2>2, <2>4, <2>5, <3>1, <3>2, WrittenShows
    <3> QED BY <1>2, <3>3, <3>4 DEF Over
  <2>6. ASSUME ~r.ok PROVE Trim(w.memory)
    <3>1. w = [r EXCEPT !.memory.data = r.memory.data]
      BY <2>2, <2>6 DEF Written
    <3>2. w.memory = r.memory
      BY <2>1, <3>1 DEF Result, Memory
    <3> QED BY <2>4, <3>2
  <2> HIDE DEF w, h
  <2>7. w.memory \in Memory
    BY <2>3 DEF Result
  <2> QED BY <1>3, <1>5, <2>3, <2>4, <2>5, <2>6, <2>7 DEF w, h
<1> QED BY <1>4, <1>5

LEMMA ReadAgrees ==
    ASSUME NEW m \in Memory, Trim(m), NEW g \in FlatFrame, Over(m, g),
           NEW offset \in Offset, NEW length \in Nat
    PROVE  LET r == read(m, offset, length)
           IN  /\ r.ok <=> Flat!Fits(offset, length)
               /\ r.memory \in Memory /\ Trim(r.memory)
               /\ r.ok => /\ Over(r.memory, Flat!Used(g, offset, length))
                          /\ Slice(r.memory, offset, length) = Flat!Get(g, offset, length)
<1> DEFINE h == Flat!Used(g, offset, length)
           r == read(m, offset, length)
<1>1. /\ offset + length \in Nat /\ offset \in Nat /\ m.size = g.size /\ Shows(m, m.size, g.bytes)
      /\ MAX_MEMORY_SIZE \in Nat
  BY EvmFrameAssumption DEF Offset, Over, Shows
<1>2. h.bytes = g.bytes /\ h.size = UsedSize(g, offset, length)
  BY FlatUsed
<1>3. Flat!Fits(offset, length) <=> length = 0 \/ offset + length <= MAX_MEMORY_SIZE
  BY DEF Flat!Fits
<1>4. Flat!Get(g, offset, length) = [k \in 1..length |-> g.bytes[offset + k - 1]]
  BY DEF Flat!Get
<1> HIDE DEF h
<1>5. CASE length = 0
  <2>1. r.ok = TRUE /\ r.memory = m
    BY <1>5 DEF read, Ok
  <2>2. h.size = g.size
    BY <1>2, <1>5 DEF UsedSize
  <2> HIDE DEF r
  <2>3. Over(r.memory, h)
    BY <1>2, <2>1, <2>2 DEF Over, Shows
  <2>4. r.memory.data \in Seq(Byte)
    BY <2>1 DEF Memory, Bytes
  <2>5. Slice(r.memory, offset, length) = <<>>
    BY <1>1, <1>5, <2>4 DEF Slice
  <2>6. Flat!Get(g, offset, length) = <<>>
    BY <1>4, <1>5
  <2> QED BY <1>3, <1>5, <2>1, <2>3, <2>5, <2>6 DEF r, h
<1>6. CASE length # 0
  <2>1. r = realloc(m, offset, length)
    BY <1>6 DEF read
  <2>2. r \in Result /\ Extended(m, offset + length, r)
    BY <2>1, ReallocSound, ReallocExtends DEF Reaches
  <2> HIDE DEF r
  <2>3. Trim(r.memory) /\ (r.ok <=> offset + length <= MAX_MEMORY_SIZE)
    BY <2>2 DEF Extended
  <2>4. r.memory \in Memory
    BY <2>2 DEF Result
  <2>5. ASSUME r.ok
        PROVE  Over(r.memory, h) /\ Slice(r.memory, offset, length) = Flat!Get(g, offset, length)
    <3>1. Shows(r.memory, r.memory.size, g.bytes)
      BY <1>1, <2>2, <2>5, ExtendedShows
    <3>2. /\ offset + length <= r.memory.size /\ offset + length <= Len(r.memory.data)
          /\ r.memory.size = Max({m.size, Flat!Word(offset + length)})
      BY <2>2, <2>5 DEF Extended
    <3>3. h.size = r.memory.size
      BY <1>1, <1>2, <1>6, <3>2 DEF UsedSize
    <3>4. Over(r.memory, h)
      BY <1>2, <3>1, <3>3 DEF Over
    <3> DEFINE d == r.memory.data
    <3>5. d \in Seq(Byte) /\ Len(d) \in Nat
      BY <2>4 DEF Memory, Bytes
    <3>6. offset + length <= Len(d) /\ offset + length <= MAX_MEMORY_SIZE
      BY <2>3, <2>5, <3>2
    <3>7. SubSeq(d, offset + 1, offset + length) = [k \in 1..length |-> d[offset + k]]
      BY <1>1, <3>5, <3>6
    <3>8. ASSUME NEW k \in 1..length PROVE g.bytes[offset + k - 1] = d[offset + k]
      <4>1. offset + k - 1 \in Places /\ offset + k - 1 < Len(d) /\ offset + k - 1 + 1 = offset + k
        BY <1>1, <3>5, <3>6 DEF Places
      <4> DEFINE n == offset + k - 1
      <4>2. n \in Places /\ n < Len(d) /\ n + 1 = offset + k
        BY <4>1
      <4> HIDE DEF n
      <4>3. g.bytes[n] = IF n < Len(d) THEN d[n + 1] ELSE 0
        BY <3>1, <4>2 DEF Shows
      <4> QED BY <4>2, <4>3 DEF n
    <3> QED BY <1>4, <3>4, <3>7, <3>8 DEF Slice
  <2> QED BY <1>3, <1>6, <2>3, <2>4, <2>5 DEF r, h
<1> QED BY <1>5, <1>6
-----------------------------------------------------------------------------
(* Beside EvmMemory: frames *)

Known(b) == b.inner \in {"empty", "owned", "account"}
Shaped(f) ==
    Trim(f.memory) /\ Known(f.call_data) /\ Known(f.execution_code) /\ Known(f.return_data)
AllShaped(fs) == \A k \in 1..Len(fs) : Shaped(fs[k])

\* A frame f and its flat one agree on all but the memory.
Beside(f, g) ==
    /\ f.reason = g.reason
    /\ f.execution_code.bytes = g.code /\ f.call_data.bytes = g.input
    /\ f.return_data.bytes = g.output
    /\ f.return_range = return_range_of(g.to, g.toLength)
Same(f, g) == Beside(f, g) /\ Over(f.memory, g)

Related(fs, gs) ==
    /\ gs \in Seq(FlatFrame) /\ Len(gs) = Len(fs)
    /\ \A k \in 1..Len(fs) : Same(fs[k], gs[k])

\* What an error needs, whose frame is the last
RelatedBelow(fs, gs) ==
    /\ gs \in Seq(FlatFrame) /\ Len(gs) = Len(fs)
    /\ \A k \in 1..Len(fs) - 1 : Same(fs[k], gs[k])
    /\ Last(fs).reason = Last(gs).reason

\* w is fs but for its last frame.
Kin(w, fs) ==
    /\ Machines(w) /\ Len(w) = Len(fs)
    /\ \A k \in 1..Len(fs) - 1 : w[k] = fs[k]

LEMMA LastRelated ==
    ASSUME NEW fs, Machines(fs), AllShaped(fs), NEW gs, Related(fs, gs)
    PROVE  /\ Last(gs) \in FlatFrame /\ Same(Last(fs), Last(gs)) /\ Shaped(Last(fs))
           /\ RelatedBelow(fs, gs)
<1> DEFINE n == Len(fs)
<1>1. n \in 1..n /\ \A k \in 1..n - 1 : k \in 1..n
  BY CountOfFrames
<1>2. gs \in Seq(FlatFrame) /\ Len(gs) = n
  BY DEF Related
<1>3. gs[n] \in FlatFrame
  BY <1>1, <1>2, ElementOfSeq
<1>4. Same(fs[n], gs[n]) /\ Shaped(fs[n])
  BY <1>1 DEF Related, AllShaped
<1>5. Last(fs) = fs[n] /\ Last(gs) = gs[n]
  BY <1>2 DEF Last
<1>6. Last(fs).reason = Last(gs).reason
  BY <1>4, <1>5 DEF Same, Beside
<1>7. \A k \in 1..n - 1 : Same(fs[k], gs[k])
  BY <1>1 DEF Related
<1> QED BY <1>2, <1>3, <1>4, <1>5, <1>6, <1>7 DEF RelatedBelow

\* A frame takes the place of the last one, here and there.
LEMMA ReplacedRelated ==
    ASSUME NEW fs, Machines(fs), AllShaped(fs), NEW gs, RelatedBelow(fs, gs),
           NEW w, Kin(w, fs), Shaped(Last(w)),
           NEW h \in FlatFrame, Same(Last(w), h)
    PROVE  AllShaped(w) /\ Related(w, Flat!Replaced(gs, h))
<1> DEFINE n == Len(fs)
           front == SubSeq(gs, 1, n - 1)
           r == Append(front, h)
<1>1. n \in Nat /\ n \in 1..n /\ \A k \in 1..n : k = n \/ k \in 1..n - 1
  BY CountOfFrames
<1>2. gs \in Seq(FlatFrame) /\ Len(gs) = n /\ Len(w) = n
  BY DEF RelatedBelow, Kin
<1>3. Flat!Replaced(gs, h) = r
  BY <1>2, FlatOperators DEF Flat!Replaced, Front
<1> HIDE DEF n
<1>4. /\ front \in Seq(FlatFrame) /\ Len(front) = n - 1
      /\ \A k \in 1..n - 1 : front[k] = gs[k]
  BY <1>1, <1>2
<1> HIDE DEF front
<1>5. /\ r \in Seq(FlatFrame) /\ Len(r) = n /\ r[n] = h
      /\ \A k \in 1..n - 1 : r[k] = front[k]
  BY <1>1, <1>4
<1> HIDE DEF r
<1>6. Last(w) = w[n]
  BY <1>2 DEF Last
<1>7. \A k \in 1..n - 1 : Same(w[k], r[k]) /\ Shaped(w[k])
  <2>1. \A k \in 1..n - 1 : Same(fs[k], gs[k]) /\ w[k] = fs[k]
    BY DEF RelatedBelow, Kin, n
  <2>2. \A k \in 1..n - 1 : k \in 1..n
    BY <1>1
  <2>3. \A k \in 1..n - 1 : Shaped(fs[k])
    BY <2>2 DEF AllShaped, n
  <2> QED BY <1>4, <1>5, <2>1, <2>3
<1>8. \A k \in 1..n : Same(w[k], r[k]) /\ Shaped(w[k])
  BY <1>1, <1>5, <1>6, <1>7
<1> QED BY <1>2, <1>3, <1>5, <1>8 DEF AllShaped, Related

\* The parents of related frames are related.
LEMMA ParentsRelated ==
    ASSUME NEW fs, Machines(fs), AllShaped(fs), NEW gs, RelatedBelow(fs, gs), Len(fs) # 1
    PROVE  AllShaped(Parents(fs)) /\ Related(Parents(fs), Flat!Front(gs))
<1> DEFINE n == Len(fs)
           front == SubSeq(gs, 1, n - 1)
           joined == SubSeq(fs, 1, n - 1)
<1>1. fs \in Seq(Machine) /\ n \in Nat /\ n > 1 /\ \A k \in 1..n - 1 : k \in 1..n
  <2>1. fs \in Seq(Machine) /\ n \in Nat \ {0}
    BY CountOfFrames
  <2>2. n # 1
    OBVIOUS
  <2> HIDE DEF n
  <2>3. n > 1
    BY <2>1, <2>2
  <2> QED BY <2>1, <2>3
<1>2. gs \in Seq(FlatFrame) /\ Len(gs) = n
  BY DEF RelatedBelow
<1>3. Flat!Front(gs) = front /\ Parents(fs) = joined
  BY <1>2, FlatOperators DEF Front, Parents
<1>4. \A k \in 1..n - 1 : Same(fs[k], gs[k]) /\ Shaped(fs[k])
  BY <1>1 DEF RelatedBelow, AllShaped
<1> HIDE DEF n
<1>5. /\ front \in Seq(FlatFrame) /\ Len(front) = n - 1
      /\ \A k \in 1..n - 1 : front[k] = gs[k]
  BY <1>1, <1>2
<1>6. /\ Len(joined) = n - 1
      /\ \A k \in 1..n - 1 : joined[k] = fs[k]
  BY <1>1 DEF n
<1> HIDE DEF front, joined
<1> QED BY <1>3, <1>4, <1>5, <1>6 DEF AllShaped, Related

LEMMA KinOfKin ==
    ASSUME NEW u, NEW v, NEW w, Kin(u, v), Kin(v, w)
    PROVE  Kin(u, w)
BY DEF Kin

\* Two frames that differ in their memory only
Likewise(e, f) ==
    /\ e.reason = f.reason /\ e.execution_code = f.execution_code
    /\ e.call_data = f.call_data /\ e.return_range = f.return_range

LEMMA WithMemoryKin ==
    ASSUME NEW fs, Machines(fs), NEW m \in Memory
    PROVE  LET w == WithMemory(fs, m)
           IN  /\ Kin(w, fs) /\ Likewise(Last(w), Last(fs))
               /\ Last(w).return_data = Last(fs).return_data /\ Last(w).memory = m
<1> DEFINE n == Len(fs)
           f == [fs[n] EXCEPT !.memory = m]
           w == WithMemory(fs, m)
<1>1. fs \in Seq(Machine) /\ n \in Nat /\ n \in 1..n
  BY CountOfFrames
<1>2. fs[n] \in Machine
  BY <1>1, ElementOfSeq
<1>3. /\ f \in Machine /\ f.memory = m /\ Likewise(f, fs[n])
      /\ f.return_data = fs[n].return_data
  BY <1>2 DEF Machine, Likewise
<1>4. w = [fs EXCEPT ![n] = f]
  BY DEF WithMemory
<1> HIDE DEF f, w
<1>5. /\ w \in Seq(Machine) /\ Len(w) = n /\ w[n] = f /\ w # <<>>
      /\ \A k \in 1..n - 1 : w[k] = fs[k]
  BY <1>1, <1>3, <1>4
<1> QED BY <1>3, <1>5 DEF Kin, Machines, Last, w

LEMMA WithReturnDataKin ==
    ASSUME NEW fs, Machines(fs), NEW b \in Buffer
    PROVE  LET w == WithReturnData(fs, b)
           IN  /\ Kin(w, fs) /\ Likewise(Last(w), Last(fs))
               /\ Last(w).return_data = b /\ Last(w).memory = Last(fs).memory
<1> DEFINE n == Len(fs)
           f == [fs[n] EXCEPT !.return_data = b]
           w == WithReturnData(fs, b)
<1>1. fs \in Seq(Machine) /\ n \in Nat /\ n \in 1..n
  BY CountOfFrames
<1>2. fs[n] \in Machine
  BY <1>1, ElementOfSeq
<1>3. /\ f \in Machine /\ f.return_data = b /\ Likewise(f, fs[n])
      /\ f.memory = fs[n].memory
  BY <1>2 DEF Machine, Likewise
<1>4. w = [fs EXCEPT ![n] = f]
  BY DEF WithReturnData
<1> HIDE DEF f, w
<1>5. /\ w \in Seq(Machine) /\ Len(w) = n /\ w[n] = f /\ w # <<>>
      /\ \A k \in 1..n - 1 : w[k] = fs[k]
  BY <1>1, <1>3, <1>4
<1> QED BY <1>3, <1>5 DEF Kin, Machines, Last, w
-----------------------------------------------------------------------------
(* Beside EvmMemory: the ends of a frame *)

\* The bytes that write_buffer writes
LEMMA PaddedBytes ==
    ASSUME NEW v \in Bytes, NEW from \in Nat, NEW length \in Nat
    PROVE  /\ Flat!Padded(v, from, length) \in Bytes
           /\ Len(Flat!Padded(v, from, length)) = length
           /\ \A m, offset : write_buffer(m, offset, length, v, from)
                             = Stored(m, offset, Flat!Padded(v, from, length))
<1> DEFINE p == Flat!Padded(v, from, length)
<1>1. p = [k \in 1..length |-> IF from + k \in DOMAIN v THEN v[from + k] ELSE 0]
  BY DEF Flat!Padded
<1>2. p \in [1..length -> Byte]
  <2>1. 0 \in Byte
    BY DEF Byte
  <2>2. \A k \in DOMAIN v : v[k] \in Byte
    BY ElementOfSeq DEF Bytes
  <2> QED BY <1>1, <2>1, <2>2
<1>3. p \in Seq(Byte) /\ Len(p) = length
  BY <1>2
<1>4. \A m, offset : write_buffer(m, offset, length, v, from) = Stored(m, offset, p)
  BY <1>1, <1>3 DEF write_buffer, Stored
<1> QED BY <1>3, <1>4 DEF Bytes

\* A range that ends past the last usize has no length.
LEMMA LengthOfRange ==
    ASSUME NEW to \in Offset, NEW length \in Offset
    PROVE  /\ return_range_of(to, length).start = to
           /\ RangeLen(return_range_of(to, length)) \in Nat
           /\ RangeLen(return_range_of(to, length)) =
                IF to + length >= USIZE THEN 0 ELSE length
<1> DEFINE end == (to + length) % USIZE
<1>1. USIZE \in Nat \ {0} /\ to \in 0..USIZE - 1 /\ length \in 0..USIZE - 1
  BY EvmFrameAssumption DEF Offset
<1>2. end = IF to + length >= USIZE THEN to + length - USIZE ELSE to + length
  <2>1. CASE to + length >= USIZE
    <3>1. to + length = USIZE * 1 + (to + length - USIZE) /\ to + length - USIZE \in 0..USIZE - 1
      BY <1>1, <2>1
    <3> QED BY <1>1, <2>1, <3>1, Z3
  <2>2. CASE ~(to + length >= USIZE)
    BY <1>1, <2>2
  <2> QED BY <2>1, <2>2
<1>3. return_range_of(to, length).start = to /\ return_range_of(to, length).end = end
  BY DEF return_range_of
<1> HIDE DEF end
<1>4. RangeLen(return_range_of(to, length)) = Max({0, end - to})
  BY <1>3 DEF RangeLen
<1> DEFINE d == end - to
<1>5. d \in Int /\ d = IF to + length >= USIZE THEN length - USIZE ELSE length
  BY <1>1, <1>2
<1> HIDE DEF d
<1>6. 0 \in Int
  OBVIOUS
<1>7. Max({0, d}) \in {0, d} /\ Max({0, d}) >= 0 /\ Max({0, d}) >= d
  BY <1>5, <1>6, MaxOfTwo, Zenon
<1>8. Max({0, d}) = IF to + length >= USIZE THEN 0 ELSE length
  BY <1>1, <1>5, <1>7
<1>9. Max({0, d}) = RangeLen(return_range_of(to, length))
  BY <1>4 DEF d
<1> QED BY <1>1, <1>3, <1>8, <1>9

\* What a caller receives
LEMMA IntoAgrees ==
    ASSUME NEW e \in Machine, Trim(e.memory), NEW g \in FlatFrame, Same(e, g), NEW v \in Bytes
    PROVE  LET w == write_range(e.memory, e.return_range, v)
               i == Flat!Into(g, v)
           IN  /\ w.ok <=> i.fits
               /\ w.memory \in Memory /\ Trim(w.memory)
               /\ i.frame \in FlatFrame /\ Rest(i.frame, g)
               /\ w.ok => Over(w.memory, i.frame)
<1> DEFINE length == IF g.to + g.toLength >= USIZE THEN 0 ELSE g.toLength
           p == Flat!Padded(v, 0, length)
           i == Flat!Into(g, v)
           w == write_range(e.memory, e.return_range, v)
<1>1. g.to \in Offset /\ g.toLength \in Offset /\ e.memory \in Memory
  BY DEF FlatFrame, Machine
<1>2. e.return_range = return_range_of(g.to, g.toLength) /\ Over(e.memory, g)
  BY DEF Same, Beside
<1>3. /\ e.return_range.start = g.to /\ RangeLen(e.return_range) = length
      /\ length \in Nat
  BY <1>1, <1>2, LengthOfRange
<1>4. i = [fits |-> Flat!Fits(g.to, length), frame |-> Flat!Put(g, g.to, p)]
  BY DEF Flat!Into
<1> HIDE DEF length
<1>5. w = write_buffer(e.memory, g.to, length, v, 0)
  BY <1>3 DEF write_range
<1>6. /\ p \in Bytes /\ Len(p) = length
      /\ write_buffer(e.memory, g.to, length, v, 0) = Stored(e.memory, g.to, p)
  BY <1>3, PaddedBytes
<1> HIDE DEF p, w, i
<1>7. i.fits = Flat!Fits(g.to, Len(p)) /\ i.frame = Flat!Put(g, g.to, p)
  BY <1>4, <1>6
<1>8. i.frame \in FlatFrame /\ Rest(i.frame, g)
  BY <1>1, <1>6, <1>7, FlatPut
<1>9. w = Stored(e.memory, g.to, p)
  BY <1>5, <1>6
<1>10. /\ w.ok <=> Flat!Fits(g.to, Len(p))
       /\ w.memory \in Memory /\ Trim(w.memory)
       /\ w.ok => Over(w.memory, Flat!Put(g, g.to, p))
  BY <1>1, <1>2, <1>6, <1>9, StoreAgrees
<1> QED BY <1>7, <1>8, <1>10 DEF w, i

\* The outcome o of an opcode agrees with a result of EvmMemory.
Agrees(o, result) ==
    /\ AllShaped(o.frames)
    /\ o.status \in {"running", "ended", "failed"} /\ o.status = result.ending
    /\ o.status = "running" => Related(o.frames, result.frames)

\* A caller's frame with the output of the callee
Answered(g, v) == [g EXCEPT !.output = v]

LEMMA AnsweredFrame ==
    ASSUME NEW g \in FlatFrame, NEW v \in Bytes
    PROVE  /\ Answered(g, v) \in FlatFrame /\ Answered(g, v).output = v
           /\ Answered(g, v).reason = g.reason /\ Answered(g, v).code = g.code
           /\ Answered(g, v).input = g.input /\ Answered(g, v).to = g.to
           /\ Answered(g, v).toLength = g.toLength
           /\ Answered(g, v).size = g.size /\ Answered(g, v).bytes = g.bytes
BY DEF Answered, FlatFrame

\* The caller takes the output, with its memory as it was or as written.
LEMMA ReceivedRelated ==
    ASSUME NEW fs, Machines(fs), AllShaped(fs), NEW gs, Related(fs, gs),
           NEW m \in Memory, Trim(m),
           NEW g \in FlatFrame, Rest(g, Last(gs)), Over(m, g),
           NEW b \in Buffer, Known(b)
    PROVE  LET w == WithReturnData(WithMemory(fs, m), b)
           IN  AllShaped(w) /\ Related(w, Flat!Replaced(gs, Answered(g, b.bytes)))
<1> DEFINE u == WithMemory(fs, m)
           w == WithReturnData(u, b)
           h == Answered(g, b.bytes)
<1>1. Kin(u, fs) /\ Likewise(Last(u), Last(fs)) /\ Last(u).memory = m
  BY WithMemoryKin
<1>2. Machines(u)
  BY <1>1 DEF Kin
<1> HIDE DEF u
<1>3. /\ Kin(w, u) /\ Likewise(Last(w), Last(u))
      /\ Last(w).return_data = b /\ Last(w).memory = Last(u).memory
  BY <1>2, WithReturnDataKin
<1> HIDE DEF w
<1>4. Kin(w, fs)
  BY <1>1, <1>3, KinOfKin
<1>5. Same(Last(fs), Last(gs)) /\ Shaped(Last(fs)) /\ RelatedBelow(fs, gs)
  BY LastRelated
<1>6. Shaped(Last(w))
  BY <1>1, <1>3, <1>5 DEF Shaped, Likewise
<1>7. /\ h \in FlatFrame /\ h.output = b.bytes /\ h.reason = g.reason /\ h.code = g.code
      /\ h.input = g.input /\ h.to = g.to /\ h.toLength = g.toLength
      /\ h.size = g.size /\ h.bytes = g.bytes
  <2>1. b.bytes \in Bytes
    BY DEF Buffer
  <2> QED BY <2>1, AnsweredFrame
<1> HIDE DEF h
<1>8. Beside(Last(w), h)
  BY <1>1, <1>3, <1>5, <1>7 DEF Same, Beside, Rest, Likewise
<1>9. Over(Last(w).memory, h)
  BY <1>1, <1>3, <1>7 DEF Over
<1>10. AllShaped(w) /\ Related(w, Flat!Replaced(gs, h))
  BY <1>4, <1>5, <1>6, <1>7, <1>8, <1>9, ReplacedRelated DEF Same
<1> QED BY <1>10 DEF u, w, h

LEMMA AnsweredRelated ==
    ASSUME NEW fs, Machines(fs), AllShaped(fs), NEW gs, Related(fs, gs),
           NEW b \in Buffer, Known(b)
    PROVE  LET w == WithReturnData(fs, b)
           IN  AllShaped(w) /\ Related(w, Flat!Replaced(gs, Answered(Last(gs), b.bytes)))
<1> DEFINE w == WithReturnData(fs, b)
           g == Last(gs)
           h == Answered(g, b.bytes)
<1>1. /\ Kin(w, fs) /\ Likewise(Last(w), Last(fs))
      /\ Last(w).return_data = b /\ Last(w).memory = Last(fs).memory
  BY WithReturnDataKin
<1> HIDE DEF w
<1>2. /\ g \in FlatFrame /\ Same(Last(fs), g) /\ Shaped(Last(fs)) /\ RelatedBelow(fs, gs)
  BY LastRelated
<1> HIDE DEF g
<1>3. Shaped(Last(w))
  BY <1>1, <1>2 DEF Shaped, Likewise
<1>4. /\ h \in FlatFrame /\ h.output = b.bytes /\ h.reason = g.reason /\ h.code = g.code
      /\ h.input = g.input /\ h.to = g.to /\ h.toLength = g.toLength
      /\ h.size = g.size /\ h.bytes = g.bytes
  <2>1. b.bytes \in Bytes
    BY DEF Buffer
  <2> QED BY <1>2, <2>1, AnsweredFrame
<1> HIDE DEF h
<1>5. Beside(Last(w), h)
  BY <1>1, <1>2, <1>4 DEF Same, Beside, Likewise
<1>6. Over(Last(w).memory, h)
  BY <1>1, <1>2, <1>4 DEF Over, Same
<1>7. AllShaped(w) /\ Related(w, Flat!Replaced(gs, h))
  BY <1>1, <1>2, <1>3, <1>4, <1>5, <1>6, ReplacedRelated DEF Same
<1> QED BY <1>7 DEF w, g, h

\* Reverted and Returned in the terms of the proofs
LEMMA FlatEnds ==
    ASSUME NEW gs, NEW v
    PROVE  LET front == Flat!Front(gs)
               g == Last(front)
               i == Flat!Into(g, v)
               received == Flat!Kept(Flat!Replaced(front, Answered(i.frame, v)))
           IN  /\ Flat!Reverted(gs, v) =
                     IF Len(gs) = 1 THEN Flat!Result(gs, "ended")
                     ELSE IF Last(gs).reason = "create"
                          THEN Flat!Kept(Flat!Replaced(front, Answered(g, v)))
                     ELSE IF i.fits THEN received ELSE Flat!Result(gs, "failed")
               /\ Flat!Returned(gs, v) =
                     IF Len(gs) = 1 THEN Flat!Result(gs, "ended")
                     ELSE IF Last(gs).reason = "create" THEN Flat!Kept(front)
                     ELSE IF i.fits THEN received ELSE Flat!Failed(front)
<1>1. Flat!Last(gs) = Last(gs) /\ Flat!Last(Flat!Front(gs)) = Last(Flat!Front(gs))
  BY FlatOperators
<1> QED BY <1>1 DEF Flat!Reverted, Flat!Returned, Answered

\* What both ends of a frame find: a reason, and a caller to write to
LEMMA Caller ==
    ASSUME NEW fs, Machines(fs), AllShaped(fs), NEW gs, RelatedBelow(fs, gs)
    PROVE  /\ Len(gs) = Len(fs) /\ Len(gs) \in Nat \ {0}
           /\ Last(gs).reason = Last(fs).reason /\ Last(fs).reason \in {"call", "create"}
           /\ Len(fs) # 1 =>
                 /\ Machines(Parents(fs)) /\ AllShaped(Parents(fs))
                 /\ Related(Parents(fs), Flat!Front(gs))
                 /\ Last(Parents(fs)) \in Machine /\ Shaped(Last(Parents(fs)))
                 /\ Last(Flat!Front(gs)) \in FlatFrame
                 /\ Same(Last(Parents(fs)), Last(Flat!Front(gs)))
<1>1. Last(fs).reason \in {"call", "create"}
  BY LastFrame DEF Machine
<1>2. Len(gs) = Len(fs) /\ Last(gs).reason = Last(fs).reason
  BY DEF RelatedBelow
<1>3. Len(gs) \in Nat \ {0}
  BY <1>2, CountOfFrames
<1>4. ASSUME Len(fs) # 1
      PROVE  /\ Machines(Parents(fs)) /\ AllShaped(Parents(fs))
             /\ Related(Parents(fs), Flat!Front(gs))
  BY <1>4, ParentsOfMachines, ParentsRelated
<1>5. ASSUME Len(fs) # 1
      PROVE  /\ Last(Parents(fs)) \in Machine /\ Shaped(Last(Parents(fs)))
             /\ Last(Flat!Front(gs)) \in FlatFrame
             /\ Same(Last(Parents(fs)), Last(Flat!Front(gs)))
  BY <1>4, <1>5, LastFrame, LastRelated
<1> QED BY <1>1, <1>2, <1>3, <1>4, <1>5

LEMMA RunningAgrees ==
    ASSUME NEW fs, AllShaped(fs), NEW gs, Related(fs, gs)
    PROVE  Agrees(Outcome("running", fs), Flat!Kept(gs))
BY DEF Flat!Kept, Flat!Result, Agrees, Outcome

LEMMA EndAgrees ==
    ASSUME NEW fs, AllShaped(fs), NEW gs, NEW how \in {"ended", "failed"}
    PROVE  Agrees(Outcome(how, fs), Flat!Result(gs, how))
BY DEF Flat!Result, Agrees, Outcome

LEMMA RevertAgrees ==
    ASSUME NEW fs, Machines(fs), AllShaped(fs),
           NEW gs, RelatedBelow(fs, gs), NEW b \in Buffer, Known(b)
    PROVE  Agrees(opcode_revert_impl(fs, b), Flat!Reverted(gs, b.bytes))
<1> DEFINE joined == Parents(fs)
           e == Last(joined)
           w == write_range(e.memory, e.return_range, b.bytes)
           front == Flat!Front(gs)
           g == Last(front)
           i == Flat!Into(g, b.bytes)
           o == opcode_revert_impl(fs, b)
           p == Flat!Reverted(gs, b.bytes)
<1>1. /\ Len(gs) = Len(fs) /\ Last(gs).reason = Last(fs).reason
      /\ Last(fs).reason \in {"call", "create"}
  BY Caller
<1>2. p = IF Len(fs) = 1 THEN Flat!Result(gs, "ended")
          ELSE IF Last(fs).reason = "create"
               THEN Flat!Kept(Flat!Replaced(front, Answered(g, b.bytes)))
          ELSE IF i.fits THEN Flat!Kept(Flat!Replaced(front, Answered(i.frame, b.bytes)))
          ELSE Flat!Result(gs, "failed")
  BY <1>1, FlatEnds
<1>3. o = IF Len(fs) = 1 THEN Outcome("ended", fs)
          ELSE IF Last(fs).reason = "create" THEN Outcome("running", WithReturnData(joined, b))
          ELSE IF w.ok THEN Outcome("running", WithReturnData(WithMemory(joined, w.memory), b))
          ELSE Outcome("failed", fs)
  BY DEF opcode_revert_impl
<1> HIDE DEF o, p
<1>4. CASE Len(fs) = 1
  BY <1>2, <1>3, <1>4, EndAgrees DEF o, p
<1>5. CASE Len(fs) # 1
  <2>1. /\ Machines(joined) /\ AllShaped(joined) /\ Related(joined, front)
        /\ e \in Machine /\ Shaped(e) /\ g \in FlatFrame /\ Same(e, g)
    BY <1>5, Caller
  <2>2. b.bytes \in Bytes /\ Trim(e.memory)
    BY <2>1 DEF Buffer, Shaped
  <2> HIDE DEF joined, front
  <2>3. CASE Last(fs).reason = "create"
    <3>1. /\ AllShaped(WithReturnData(joined, b))
          /\ Related(WithReturnData(joined, b), Flat!Replaced(front, Answered(g, b.bytes)))
      BY <2>1, AnsweredRelated
    <3> QED BY <1>2, <1>3, <1>5, <2>3, <3>1, RunningAgrees DEF o, p
  <2> HIDE DEF e, g
  <2>4. /\ w.ok <=> i.fits
        /\ w.memory \in Memory /\ Trim(w.memory)
        /\ i.frame \in FlatFrame /\ Rest(i.frame, g)
        /\ w.ok => Over(w.memory, i.frame)
    BY <2>1, <2>2, IntoAgrees
  <2> HIDE DEF w, i
  <2>5. CASE Last(fs).reason = "call" /\ w.ok
    <3> DEFINE a == WithReturnData(WithMemory(joined, w.memory), b)
    <3>1. AllShaped(a) /\ Related(a, Flat!Replaced(front, Answered(i.frame, b.bytes)))
      <4>1. Over(w.memory, i.frame) /\ Rest(i.frame, Last(front))
        BY <2>4, <2>5 DEF g
      <4> QED BY <2>1, <2>4, <4>1, ReceivedRelated
    <3>2. o = Outcome("running", a)
      BY <1>3, <1>5, <2>5
    <3>3. p = Flat!Kept(Flat!Replaced(front, Answered(i.frame, b.bytes)))
      BY <1>2, <1>5, <2>4, <2>5
    <3> HIDE DEF a
    <3> QED BY <3>1, <3>2, <3>3, RunningAgrees DEF o, p
  <2>6. CASE Last(fs).reason = "call" /\ ~w.ok
    <3>1. o = Outcome("failed", fs) /\ p = Flat!Result(gs, "failed")
      BY <1>2, <1>3, <1>5, <2>4, <2>6
    <3> QED BY <3>1, EndAgrees DEF o, p
  <2> QED BY <1>1, <2>3, <2>5, <2>6
<1> QED BY <1>4, <1>5

LEMMA MessageBuffer == from_slice(Message) \in Buffer /\ Known(from_slice(Message))
                       /\ from_slice(Message).bytes = Message
<1>1. Message \in Bytes
  BY EvmFrameAssumption DEF Bytes
<1> QED BY <1>1, FromSlice DEF from_slice, Empty, Known

LEMMA ErrorAgrees ==
    ASSUME NEW fs, Machines(fs), AllShaped(fs), NEW gs, RelatedBelow(fs, gs)
    PROVE  Agrees(Error(fs), Flat!Failed(gs))
BY MessageBuffer, RevertAgrees DEF Error, Flat!Failed

\* The last frame may have any memory when it fails.
LEMMA StillBelow ==
    ASSUME NEW fs, Machines(fs), AllShaped(fs), NEW gs, RelatedBelow(fs, gs),
           NEW m \in Memory, Trim(m)
    PROVE  LET w == WithMemory(fs, m)
           IN  Machines(w) /\ AllShaped(w) /\ RelatedBelow(w, gs)
<1> DEFINE w == WithMemory(fs, m)
           n == Len(fs)
<1>1. Kin(w, fs) /\ Likewise(Last(w), Last(fs)) /\ Last(w).memory = m
      /\ Last(w).return_data = Last(fs).return_data
  BY WithMemoryKin
<1> HIDE DEF w
<1>2. n \in 1..n /\ (\A k \in 1..n - 1 : k \in 1..n) /\ \A k \in 1..n : k = n \/ k \in 1..n - 1
  BY CountOfFrames
<1> HIDE DEF n
<1>3. Last(fs) = fs[n] /\ Last(w) = w[n] /\ Len(w) = n
  BY <1>1 DEF Last, Kin, n
<1>4. Shaped(fs[n])
  BY <1>2 DEF AllShaped, n
<1>5. Shaped(w[n])
  BY <1>1, <1>3, <1>4 DEF Shaped, Likewise
<1>6. \A k \in 1..n - 1 : Shaped(w[k])
  BY <1>1, <1>2 DEF AllShaped, Kin, n
<1>7. AllShaped(w)
  BY <1>2, <1>3, <1>5, <1>6 DEF AllShaped
<1>8. \A k \in 1..n - 1 : Same(w[k], gs[k])
  BY <1>1 DEF RelatedBelow, Kin, n
<1>9. RelatedBelow(w, gs)
  BY <1>1, <1>3, <1>8 DEF RelatedBelow, Likewise, n
<1> QED BY <1>1, <1>7, <1>9 DEF Kin, w

LEMMA ReturnAgrees ==
    ASSUME NEW fs, Machines(fs), AllShaped(fs),
           NEW gs, RelatedBelow(fs, gs), NEW b \in Buffer, Known(b)
    PROVE  Agrees(opcode_return_impl(fs, b), Flat!Returned(gs, b.bytes))
<1> DEFINE joined == Parents(fs)
           e == Last(joined)
           w == write_range(e.memory, e.return_range, b.bytes)
           front == Flat!Front(gs)
           g == Last(front)
           i == Flat!Into(g, b.bytes)
           o == opcode_return_impl(fs, b)
           p == Flat!Returned(gs, b.bytes)
<1>1. /\ Len(gs) = Len(fs) /\ Last(gs).reason = Last(fs).reason
      /\ Last(fs).reason \in {"call", "create"}
  BY Caller
<1>2. p = IF Len(fs) = 1 THEN Flat!Result(gs, "ended")
          ELSE IF Last(fs).reason = "create" THEN Flat!Kept(front)
          ELSE IF i.fits THEN Flat!Kept(Flat!Replaced(front, Answered(i.frame, b.bytes)))
          ELSE Flat!Failed(front)
  BY <1>1, FlatEnds
<1>3. o = IF Len(fs) = 1 THEN Outcome("ended", fs)
          ELSE IF Last(fs).reason = "create" THEN Outcome("running", joined)
          ELSE IF w.ok THEN Outcome("running", WithReturnData(WithMemory(joined, w.memory), b))
          ELSE Error(WithMemory(joined, w.memory))
  BY DEF opcode_return_impl
<1> HIDE DEF o, p
<1>4. CASE Len(fs) = 1
  BY <1>2, <1>3, <1>4, EndAgrees DEF o, p
<1>5. CASE Len(fs) # 1
  <2>1. /\ Machines(joined) /\ AllShaped(joined) /\ Related(joined, front)
        /\ e \in Machine /\ Shaped(e) /\ g \in FlatFrame /\ Same(e, g)
    BY <1>5, Caller
  <2>2. b.bytes \in Bytes /\ Trim(e.memory)
    BY <2>1 DEF Buffer, Shaped
  <2> HIDE DEF joined, front
  <2>3. CASE Last(fs).reason = "create"
    BY <1>2, <1>3, <1>5, <2>1, <2>3, RunningAgrees DEF o, p
  <2> HIDE DEF e, g
  <2>4. /\ w.ok <=> i.fits
        /\ w.memory \in Memory /\ Trim(w.memory)
        /\ i.frame \in FlatFrame /\ Rest(i.frame, g)
        /\ w.ok => Over(w.memory, i.frame)
    BY <2>1, <2>2, IntoAgrees
  <2> HIDE DEF w, i
  <2>5. CASE Last(fs).reason = "call" /\ w.ok
    <3> DEFINE a == WithReturnData(WithMemory(joined, w.memory), b)
    <3>1. AllShaped(a) /\ Related(a, Flat!Replaced(front, Answered(i.frame, b.bytes)))
      <4>1. Over(w.memory, i.frame) /\ Rest(i.frame, Last(front))
        BY <2>4, <2>5 DEF g
      <4> QED BY <2>1, <2>4, <4>1, ReceivedRelated
    <3>2. o = Outcome("running", a)
      BY <1>3, <1>5, <2>5
    <3>3. p = Flat!Kept(Flat!Replaced(front, Answered(i.frame, b.bytes)))
      BY <1>2, <1>5, <2>4, <2>5
    <3> HIDE DEF a
    <3> QED BY <3>1, <3>2, <3>3, RunningAgrees DEF o, p
  <2>6. CASE Last(fs).reason = "call" /\ ~w.ok
    <3> DEFINE a == WithMemory(joined, w.memory)
    <3>1. o = Error(a) /\ p = Flat!Failed(front)
      BY <1>2, <1>3, <1>5, <2>4, <2>6
    <3>2. RelatedBelow(joined, front)
      BY <2>1, LastRelated
    <3>3. Machines(a) /\ AllShaped(a) /\ RelatedBelow(a, front)
      BY <2>1, <2>4, <3>2, StillBelow
    <3> HIDE DEF a
    <3> QED BY <3>1, <3>3, ErrorAgrees DEF o, p
  <2> QED BY <1>1, <2>3, <2>5, <2>6
<1> QED BY <1>4, <1>5
-----------------------------------------------------------------------------
(* Beside EvmMemory: the opcodes *)

\* Both machines about to execute an opcode
Live == Running /\ AllShaped(frames) /\ Related(frames, flat)

\* They executed it, and agree.
Together == \E o, p : Step(o) /\ Flat!Step(p) /\ Agrees(o, p)

LEMMA LiveTop ==
    ASSUME Live
    PROVE  /\ Machines(frames) /\ AllShaped(frames) /\ Related(frames, flat)
           /\ RelatedBelow(frames, flat)
           /\ Top \in Machine /\ Top.memory \in Memory /\ Trim(Top.memory) /\ Shaped(Top)
           /\ Flat!f = Last(flat) /\ Flat!f \in FlatFrame
           /\ Same(Top, Flat!f) /\ Over(Top.memory, Flat!f)
<1>1. Machines(frames) /\ AllShaped(frames) /\ Related(frames, flat)
  BY DEF Live, Running
<1>2. Flat!f = Last(flat)
  BY FlatOperators DEF Flat!f
<1>3. Top \in Machine /\ Top.memory \in Memory
  BY RunningFrames DEF Live
<1> QED BY <1>1, <1>2, <1>3, LastRelated DEF Top, Shaped, Same

\* An access out of limits
LEMMA OutOfLimits ==
    ASSUME Live, NEW m \in Memory, Trim(m)
    PROVE  Agrees(Error(WithMemory(frames, m)), Flat!Failed(flat))
BY LiveTop, StillBelow, ErrorAgrees

\* An access within them leaves the frame with the memory m, and flat with g.
LEMMA WithinLimits ==
    ASSUME Live, NEW m \in Memory, Trim(m), NEW g \in FlatFrame,
           Rest(g, Flat!f), Over(m, g)
    PROVE  LET w == WithMemory(frames, m)
           IN  Machines(w) /\ AllShaped(w) /\ Related(w, Flat!Replaced(flat, g))
<1> DEFINE w == WithMemory(frames, m)
<1>1. Kin(w, frames) /\ Likewise(Last(w), Top) /\ Last(w).memory = m
      /\ Last(w).return_data = Top.return_data
  BY LiveTop, WithMemoryKin DEF Top
<1> HIDE DEF w
<1>2. Shaped(Last(w))
  BY <1>1, LiveTop DEF Shaped, Likewise
<1>3. Beside(Last(w), g)
  BY <1>1, LiveTop DEF Same, Beside, Rest, Likewise
<1>4. Same(Last(w), g)
  BY <1>1, <1>3 DEF Same
<1>5. AllShaped(w) /\ Related(w, Flat!Replaced(flat, g))
  BY <1>1, <1>2, <1>4, LiveTop, ReplacedRelated
<1> QED BY <1>1, <1>5 DEF Kin, w

\* What an access to memory does in both
LEMMA AccessTogether ==
    ASSUME Live, NEW r, r.memory \in Memory, Trim(r.memory), NEW fits, r.ok <=> fits,
           NEW g \in FlatFrame, Rest(g, Flat!f), r.ok => Over(r.memory, g),
           Access(r), Flat!OrFail(fits, Flat!Kept(Flat!Replaced(flat, g)))
    PROVE  Together
<1> DEFINE w == WithMemory(frames, r.memory)
           after == Flat!Replaced(flat, g)
           o == IF r.ok THEN Outcome("running", w) ELSE Error(w)
           p == IF fits THEN Flat!Kept(after) ELSE Flat!Failed(flat)
<1>1. Step(o) /\ Flat!Step(p)
  BY DEF Access, Accessed, Flat!OrFail
<1>2. r.ok => AllShaped(w) /\ Related(w, after)
  BY WithinLimits
<1>3. Agrees(Error(w), Flat!Failed(flat))
  BY OutOfLimits
<1> HIDE DEF w, after
<1>4. r.ok => Agrees(Outcome("running", w), Flat!Kept(after))
  BY <1>2, RunningAgrees
<1>5. Agrees(o, p)
  BY <1>3, <1>4
<1> QED BY <1>1, <1>5 DEF Together

LEMMA ReadTogether ==
    ASSUME Live, NEW offset \in Offset, NEW length \in Nat,
           Access(read(Top.memory, offset, length)), Flat!ReadMemory(offset, length)
    PROVE  Together
<1> DEFINE r == read(Top.memory, offset, length)
           fits == Flat!Fits(offset, length)
           g == Flat!Used(Flat!f, offset, length)
<1>1. /\ r.ok <=> fits
      /\ r.memory \in Memory /\ Trim(r.memory)
      /\ r.ok => Over(r.memory, g)
  BY LiveTop, ReadAgrees
<1>2. g \in FlatFrame /\ Rest(g, Flat!f)
  BY LiveTop, FlatUsed
<1>3. Flat!OrFail(fits, Flat!Kept(Flat!Replaced(flat, g)))
  BY DEF Flat!ReadMemory
<1>4. Access(r)
  OBVIOUS
<1> HIDE DEF r, fits, g
<1> QED BY <1>1, <1>2, <1>3, <1>4, AccessTogether

LEMMA StoreTogether ==
    ASSUME Live, NEW offset \in Offset, NEW v \in Bytes,
           Access(Stored(Top.memory, offset, v)), Flat!Store(offset, v)
    PROVE  Together
<1> DEFINE r == Stored(Top.memory, offset, v)
           fits == Flat!Fits(offset, Len(v))
           g == Flat!Put(Flat!f, offset, v)
<1>1. /\ r.ok <=> fits
      /\ r.memory \in Memory /\ Trim(r.memory)
      /\ r.ok => Over(r.memory, g)
  BY LiveTop, StoreAgrees
<1>2. g \in FlatFrame /\ Rest(g, Flat!f)
  BY LiveTop, FlatPut
<1>3. Flat!OrFail(fits, Flat!Kept(Flat!Replaced(flat, g)))
  BY DEF Flat!Store, Flat!Stored, Flat!OrFail
<1>4. Access(r)
  OBVIOUS
<1> HIDE DEF r, fits, g
<1> QED BY <1>1, <1>2, <1>3, <1>4, AccessTogether

LEMMA MemoryTogether ==
    ASSUME Live, NEW offset \in Offset, NEW length \in Offset
    PROVE  /\ Mload(offset) /\ Flat!Mload(offset) => Together
           /\ ReadMemory(offset, length) /\ Flat!ReadMemory(offset, length) => Together
           /\ \A v \in Words :
                 /\ Mstore(offset, v) /\ Flat!Mstore(offset, v) => Together
                 /\ Mstore8(offset, v) /\ Flat!Mstore8(offset, v) => Together
<1>1. ELEMENT_SIZE \in Nat \ {0} /\ length \in Nat
  BY EvmFrameAssumption DEF Offset
<1>2. ASSUME Mload(offset), Flat!Mload(offset) PROVE Together
  <2>1. read(Top.memory, offset, ELEMENT_SIZE) = read_32(Top.memory, offset)
    BY <1>1 DEF read, read_32
  <2>2. Access(read(Top.memory, offset, ELEMENT_SIZE)) /\ Flat!ReadMemory(offset, ELEMENT_SIZE)
    BY <1>2, <2>1 DEF Mload, Flat!Mload
  <2> QED BY <1>1, <2>2, ReadTogether
<1>3. ASSUME ReadMemory(offset, length), Flat!ReadMemory(offset, length) PROVE Together
  BY <1>1, <1>3, ReadTogether DEF ReadMemory
<1>4. ASSUME NEW v \in Words
      PROVE  /\ Mstore(offset, v) /\ Flat!Mstore(offset, v) => Together
             /\ Mstore8(offset, v) /\ Flat!Mstore8(offset, v) => Together
  <2>1. v \in Seq(Byte) /\ v # <<>> /\ Len(v) = ELEMENT_SIZE
    BY EvmFrameAssumption, LimitAssumption
  <2>2. Last(v) \in Byte
    <3>1. Len(v) \in 1..Len(v)
      BY <1>1, <2>1
    <3> QED BY <2>1, <3>1, ElementOfSeq DEF Last
  <2> DEFINE b == Last(v)
  <2>3. v \in Bytes /\ <<b>> \in Bytes /\ Len(<<b>>) = 1
    BY <2>1, <2>2 DEF Bytes
  <2>4. write_32(Top.memory, offset, v) = Stored(Top.memory, offset, v)
    BY <1>1, <2>1 DEF write_32, Stored
  <2>5. Flat!Last(v) = b
    BY FlatOperators
  <2>6. write_byte(Top.memory, offset, Last(v)) = Stored(Top.memory, offset, <<b>>)
    BY <2>3 DEF write_byte, Stored
  <2>7. ASSUME Mstore(offset, v), Flat!Mstore(offset, v) PROVE Together
    BY <2>3, <2>4, <2>7, StoreTogether DEF Mstore, Flat!Mstore
  <2>8. ASSUME Mstore8(offset, v), Flat!Mstore8(offset, v) PROVE Together
    <3>1. Access(Stored(Top.memory, offset, <<b>>))
      BY <2>6, <2>8 DEF Mstore8
    <3>2. Flat!Store(offset, <<b>>)
      BY <2>5, <2>8 DEF Flat!Mstore8
    <3> HIDE DEF b
    <3> QED BY <2>3, <3>1, <3>2, StoreTogether
  <2> QED BY <2>7, <2>8
<1> QED BY <1>2, <1>3, <1>4

LEMMA CopyTogether ==
    ASSUME Live, NEW offset \in Offset, NEW length \in Nat, NEW source \in Bytes, NEW from \in Nat,
           Access(write_buffer(Top.memory, offset, length, source, from)),
           Flat!Store(offset, Flat!Padded(source, from, length))
    PROVE  Together
<1> DEFINE p == Flat!Padded(source, from, length)
<1>1. p \in Bytes /\ write_buffer(Top.memory, offset, length, source, from)
                     = Stored(Top.memory, offset, p)
  BY PaddedBytes
<1>2. Access(Stored(Top.memory, offset, p)) /\ Flat!Store(offset, p)
  BY <1>1
<1> HIDE DEF p
<1> QED BY <1>1, <1>2, StoreTogether

LEMMA CopiesTogether ==
    ASSUME Live, NEW offset \in Offset, NEW length \in Offset, NEW from \in Offset
    PROVE  /\ Calldatacopy(offset, length, from) /\ Flat!Calldatacopy(offset, length, from)
                => Together
           /\ Codecopy(offset, length, from) /\ Flat!Codecopy(offset, length, from)
                => Together
           /\ Extcodecopy(offset, length, from) /\ Flat!Extcodecopy(offset, length, from)
                => Together
           /\ Returndatacopy(offset, length, from) /\ Flat!Returndatacopy(offset, length, from)
                => Together
<1>1. length \in Nat /\ from \in Nat /\ Code \in Bytes
  BY EvmFrameAssumption DEF Offset, Bytes
<1>2. /\ Top.call_data.bytes = Flat!f.input /\ Top.execution_code.bytes = Flat!f.code
      /\ Top.return_data.bytes = Flat!f.output
      /\ Flat!f.input \in Bytes /\ Flat!f.code \in Bytes /\ Flat!f.output \in Bytes
  BY LiveTop DEF Same, Beside, FlatFrame
<1>3. ASSUME Calldatacopy(offset, length, from), Flat!Calldatacopy(offset, length, from)
      PROVE  Together
  BY <1>1, <1>2, <1>3, CopyTogether DEF Calldatacopy, Flat!Calldatacopy
<1>4. ASSUME Codecopy(offset, length, from), Flat!Codecopy(offset, length, from)
      PROVE  Together
  BY <1>1, <1>2, <1>4, CopyTogether DEF Codecopy, Flat!Codecopy
<1>5. ASSUME Extcodecopy(offset, length, from), Flat!Extcodecopy(offset, length, from)
      PROVE  Together
  BY <1>1, <1>5, CopyTogether DEF Extcodecopy, Flat!Extcodecopy
<1>6. ASSUME Returndatacopy(offset, length, from), Flat!Returndatacopy(offset, length, from)
      PROVE  Together
  <2> DEFINE n == Len(Flat!f.output)
  <2>1. n \in Nat
    BY <1>2 DEF Bytes
  <2>2. IF from + length > n THEN Step(Error(frames))
        ELSE Access(write_buffer(Top.memory, offset, length, Flat!f.output, from))
    BY <1>2, <1>6 DEF Returndatacopy
  <2>3. IF from + length <= n
        THEN Flat!Store(offset, Flat!Padded(Flat!f.output, from, length))
        ELSE Flat!Step(Flat!Failed(flat))
    BY <1>6 DEF Flat!Returndatacopy, Flat!OrFail, Flat!Store
  <2> HIDE DEF n
  <2>4. CASE from + length <= n
    <3>1. ~(from + length > n)
      BY <1>1, <2>1, <2>4
    <3> QED BY <1>1, <1>2, <2>2, <2>3, <2>4, <3>1, CopyTogether
  <2>5. CASE ~(from + length <= n)
    <3>1. from + length > n
      BY <1>1, <2>1, <2>5
    <3>2. Agrees(Error(frames), Flat!Failed(flat))
      BY LiveTop, ErrorAgrees
    <3> QED BY <2>2, <2>3, <2>5, <3>1, <3>2 DEF Together
  <2> QED BY <2>4, <2>5
<1> QED BY <1>3, <1>4, <1>5, <1>6

LEMMA OtherErrorTogether ==
    ASSUME Live, OtherError, Flat!OtherError
    PROVE  Together
<1>1. Agrees(Error(frames), Flat!Failed(flat))
  BY LiveTop, ErrorAgrees
<1> QED BY <1>1 DEF OtherError, Flat!OtherError, Together
-----------------------------------------------------------------------------
(* Beside EvmMemory: calls and creations *)

\* An array of zeros shows the first allocation, before and after it grows.
LEMMA FreshMachine ==
    ASSUME NEW reason \in {"call", "create"},
           NEW code \in Buffer, NEW call_data \in Buffer, Known(code), Known(call_data)
    PROVE  LET m == fork(reason, code, call_data)
               g == Flat!Fresh(reason, code.bytes, call_data.bytes)
           IN  m \in Machine /\ g \in FlatFrame /\ Same(m, g) /\ Shaped(m)
<1> DEFINE m == fork(reason, code, call_data)
           g == Flat!Fresh(reason, code.bytes, call_data.bytes)
           d == Zeros(MEMORY_CAPACITY)
           b == [n \in Places |-> 0]
<1>1. /\ MEMORY_CAPACITY \in Nat \ {0} /\ MAX_MEMORY_SIZE \in Nat /\ USIZE \in Nat \ {0}
      /\ ELEMENT_SIZE \in Nat \ {0} /\ MEMORY_CAPACITY <= MAX_MEMORY_SIZE
  BY EvmFrameAssumption
<1>2. Len(d) = MEMORY_CAPACITY /\ \A k \in 1..MEMORY_CAPACITY : d[k] = 0
  BY <1>1, ZerosBytes DEF Zeros
<1> HIDE DEF d
<1>3. /\ m.reason = reason /\ m.execution_code = code /\ m.call_data = call_data
      /\ m.return_data = Empty /\ m.return_range = NoRange
      /\ m.memory.data = d /\ m.memory.size = 0
  BY DEF fork, new_memory, with_capacity, d
<1>4. g = [reason |-> reason, code |-> code.bytes, input |-> call_data.bytes, output |-> <<>>,
           to |-> 0, toLength |-> 0, size |-> 0, bytes |-> b]
  BY DEF Flat!Fresh, Places
<1>5. m \in Machine
  BY ForkedMachine
<1> HIDE DEF m, g
<1>6. b \in [Places -> Byte] /\ \A n \in Places : b[n] = 0
  BY DEF Byte
<1> HIDE DEF b
<1>7. code.bytes \in Bytes /\ call_data.bytes \in Bytes /\ <<>> \in Bytes /\ 0 \in Offset
  BY <1>1 DEF Buffer, Bytes, Offset
<1>8. g \in FlatFrame
  BY <1>4, <1>6, <1>7 DEF FlatFrame
<1>9. NoRange = return_range_of(0, 0)
  <2>1. (0 + 0) % USIZE = 0
    BY <1>1, Z3
  <2> QED BY <2>1 DEF NoRange, return_range_of
<1>10. Beside(m, g)
  BY <1>3, <1>4, <1>9 DEF Beside, Empty
<1>11. Over(m.memory, g)
  <2>1. \A n \in Places : n \in Nat
    BY <1>1 DEF Places
  <2>2. \A n \in Places : n < Len(d) => d[n + 1] = 0
    BY <1>1, <1>2, <2>1
  <2>3. m.memory.size = g.size /\ g.bytes = b
    BY <1>3, <1>4
  <2> QED BY <1>3, <1>6, <2>2, <2>3 DEF Over, Shows
<1>12. Shaped(m)
  <2>1. WholeWords(0)
    BY <1>1, Z3 DEF WholeWords
  <2>2. Len(m.memory.data) \in MEMORY_CAPACITY..MAX_MEMORY_SIZE
    BY <1>1, <1>2, <1>3
  <2> QED BY <1>3, <2>1, <2>2 DEF Shaped, Trim, Known, Empty
<1> QED BY <1>5, <1>8, <1>10, <1>11, <1>12 DEF Same, m, g

LEMMA AppendedRelated ==
    ASSUME NEW fs, Machines(fs), AllShaped(fs), NEW gs, Related(fs, gs),
           NEW e \in Machine, Shaped(e), NEW g \in FlatFrame, Same(e, g)
    PROVE  AllShaped(Append(fs, e)) /\ Related(Append(fs, e), Append(gs, g))
<1> DEFINE n == Len(fs)
           w == Append(fs, e)
           r == Append(gs, g)
<1>1. fs \in Seq(Machine) /\ n \in Nat /\ \A k \in 1..n + 1 : k = n + 1 \/ k \in 1..n
  BY CountOfFrames
<1>2. gs \in Seq(FlatFrame) /\ Len(gs) = n
  BY DEF Related
<1>3. \A k \in 1..n : Same(fs[k], gs[k]) /\ Shaped(fs[k])
  BY DEF Related, AllShaped
<1> HIDE DEF n
<1>4. Len(w) = n + 1 /\ w[n + 1] = e /\ \A k \in 1..n : w[k] = fs[k]
  BY <1>1 DEF n
<1>5. /\ r \in Seq(FlatFrame) /\ Len(r) = n + 1 /\ r[n + 1] = g
      /\ \A k \in 1..n : r[k] = gs[k]
  BY <1>1, <1>2
<1> HIDE DEF w, r
<1>6. \A k \in 1..n + 1 : Same(w[k], r[k]) /\ Shaped(w[k])
  BY <1>1, <1>3, <1>4, <1>5
<1>7. AllShaped(w) /\ Related(w, r)
  BY <1>4, <1>5, <1>6 DEF AllShaped, Related
<1> QED BY <1>7 DEF w, r

\* The caller waits for the output in its range.
LEMMA EnteredRelated ==
    ASSUME Live, NEW r, r.memory \in Memory, Trim(r.memory),
           NEW offset \in Offset, NEW length \in Nat,
           Over(r.memory, Flat!Used(Flat!f, offset, length)),
           NEW reason \in {"call", "create"}, NEW code \in Buffer, Known(code),
           NEW call_data \in Buffer, Known(call_data),
           NEW to \in Offset, NEW toLength \in Offset
    PROVE  LET fs == Entered(r, reason, code, call_data, return_range_of(to, toLength))
               gs == Flat!Entered(reason, code.bytes, call_data.bytes, offset, length, to, toLength)
           IN  AllShaped(fs) /\ Related(fs, gs)
<1> DEFINE u == WithMemory(frames, r.memory)
           a == WithReturnData(u, Empty)
           n == Len(frames)
           range == return_range_of(to, toLength)
           e == [a[n] EXCEPT !.return_range = range]
           b == [a EXCEPT ![n] = e]
           callee == fork(reason, code, call_data)
           g == Flat!Used(Flat!f, offset, length)
           h == [g EXCEPT !.output = <<>>, !.to = to, !.toLength = toLength]
           new == Flat!Fresh(reason, code.bytes, call_data.bytes)
           fs == Entered(r, reason, code, call_data, range)
           gs == Flat!Entered(reason, code.bytes, call_data.bytes, offset, length, to, toLength)
<1>1. fs = Append(b, callee)
  BY DEF Entered
<1>2. gs = Append(Flat!Replaced(flat, h), new)
  BY DEF Flat!Entered
<1>3. callee \in Machine /\ new \in FlatFrame /\ Same(callee, new) /\ Shaped(callee)
  BY FreshMachine
<1>4. range \in [start : Offset, end : Offset]
  <2>1. to + toLength \in Int /\ USIZE \in Nat \ {0}
    BY EvmFrameAssumption DEF Offset
  <2>2. (to + toLength) % USIZE \in Offset
    BY <2>1 DEF Offset
  <2> QED BY <2>2 DEF return_range_of
<1>5. g \in FlatFrame /\ Rest(g, Flat!f) /\ Over(r.memory, g)
  BY LiveTop, FlatUsed
<1> HIDE DEF callee, new, fs, gs, g
<1>6. /\ h \in FlatFrame /\ h.reason = g.reason /\ h.code = g.code /\ h.input = g.input
      /\ h.output = <<>> /\ h.to = to /\ h.toLength = toLength
      /\ h.size = g.size /\ h.bytes = g.bytes
  <2>1. <<>> \in Bytes
    BY DEF Bytes
  <2> QED BY <1>5, <2>1 DEF FlatFrame
<1> HIDE DEF h
<1>7. Kin(u, frames) /\ Likewise(Last(u), Top) /\ Last(u).memory = r.memory
  BY LiveTop, WithMemoryKin DEF Top
<1> HIDE DEF u
<1>8. /\ Kin(a, u) /\ Likewise(Last(a), Last(u))
      /\ Last(a).return_data = Empty /\ Last(a).memory = Last(u).memory
  BY <1>7, FromSlice, WithReturnDataKin DEF Kin
<1> HIDE DEF a
<1>9. a \in Seq(Machine) /\ Len(a) = n /\ n \in Nat /\ n \in 1..n
  <2>1. Len(a) = n /\ Machines(a)
    BY <1>7, <1>8 DEF Kin
  <2> QED BY <2>1, CountOfFrames
<1>10. a[n] \in Machine /\ Last(a) = a[n]
  BY <1>9, ElementOfSeq DEF Last
<1> HIDE DEF n, range
<1>11. /\ e \in Machine /\ e.reason = a[n].reason /\ e.execution_code = a[n].execution_code
       /\ e.call_data = a[n].call_data /\ e.return_data = a[n].return_data
       /\ e.memory = a[n].memory /\ e.return_range = range
  BY <1>4, <1>10 DEF Machine
<1> HIDE DEF e
<1>12. /\ b \in Seq(Machine) /\ Len(b) = n /\ b[n] = e /\ b # <<>>
       /\ \A k \in 1..n - 1 : b[k] = a[k]
  BY <1>9, <1>11
<1> HIDE DEF b
<1>13. Kin(b, a) /\ Last(b) = e
  BY <1>9, <1>12 DEF Kin, Machines, Last
<1>14. Kin(b, frames)
  BY <1>7, <1>8, <1>13, KinOfKin
<1>15. Shaped(Last(b))
  <2>1. Known(Empty)
    BY DEF Known, Empty
  <2> QED BY <1>7, <1>8, <1>10, <1>11, <1>13, <2>1, LiveTop DEF Shaped, Likewise
<1>16. Beside(Last(b), h)
  <2>1. Empty.bytes = <<>>
    BY DEF Empty
  <2> QED BY <1>5, <1>6, <1>7, <1>8, <1>10, <1>11, <1>13, <2>1, LiveTop
      DEF Same, Beside, Rest, Likewise, range
<1>17. Over(Last(b).memory, h)
  BY <1>5, <1>6, <1>7, <1>8, <1>10, <1>11, <1>13 DEF Over
<1>18. AllShaped(b) /\ Related(b, Flat!Replaced(flat, h))
  BY <1>6, <1>14, <1>15, <1>16, <1>17, LiveTop, ReplacedRelated DEF Same
<1>19. AllShaped(fs) /\ Related(fs, gs)
  BY <1>1, <1>2, <1>3, <1>14, <1>18, AppendedRelated DEF Kin
<1> QED BY <1>19 DEF fs, gs, range

\* Bytes handed to a frame
LEMMA SliceBuffer ==
    ASSUME NEW v \in Bytes
    PROVE  /\ from_slice(v) \in Buffer /\ Known(from_slice(v)) /\ from_slice(v).bytes = v
           /\ from_account(v) \in Buffer /\ Known(from_account(v)) /\ from_account(v).bytes = v
BY FromSlice DEF from_slice, from_account, Empty, Known

\* What a read of the last frame gives both machines
LEMMA ReadTop ==
    ASSUME Live, NEW offset \in Offset, NEW length \in Offset
    PROVE  LET r == read(Top.memory, offset, length)
               v == Slice(r.memory, offset, length)
           IN  /\ length \in Nat /\ (r.ok <=> Flat!Fits(offset, length))
               /\ r.memory \in Memory /\ Trim(r.memory)
               /\ r.ok => /\ Sound(r.memory) /\ Over(r.memory, Flat!Used(Flat!f, offset, length))
                          /\ v \in Bytes /\ v = Flat!Get(Flat!f, offset, length)
<1>1. length \in Nat
  BY EvmFrameAssumption DEF Offset
<1>2. Sound(Top.memory)
  BY RunningFrames DEF Live
<1> QED BY <1>1, <1>2, LiveTop, ReadAgrees, ReadSound DEF Keeps

LEMMA CallsTogether ==
    ASSUME Live, NEW offset \in Offset, NEW length \in Offset,
           NEW to \in Offset, NEW toLength \in Offset
    PROVE  /\ Call(offset, length, to, toLength) /\ Flat!Call(offset, length, to, toLength)
                => Together
           /\ /\ CallRefused(offset, length, to, toLength)
              /\ Flat!CallRefused(offset, length, to, toLength)
              => Together
           /\ \A out \in Outputs :
                 /\ CallPrecompile(offset, length, to, toLength, out)
                 /\ Flat!CallPrecompile(offset, length, to, toLength, out)
                 => Together
<1> DEFINE r == read(Top.memory, offset, length)
           v == Slice(r.memory, offset, length)
           fs == Entered(r, "call", from_account(Code), from_slice(v), return_range_of(to, toLength))
           gs == Flat!Called(offset, length, to, toLength)
           fits == Flat!Fits(offset, length)
           failed == Error(WithMemory(frames, r.memory))
           Ends(then) == Step(IF r.ok THEN then ELSE failed)
<1>1. /\ length \in Nat /\ (r.ok <=> fits)
      /\ r.memory \in Memory /\ Trim(r.memory)
      /\ r.ok => /\ Sound(r.memory) /\ Over(r.memory, Flat!Used(Flat!f, offset, length))
                 /\ v \in Bytes /\ v = Flat!Get(Flat!f, offset, length)
  BY ReadTop
<1>2. /\ from_account(Code) \in Buffer /\ Known(from_account(Code)) /\ from_account(Code).bytes = Code
      /\ \A out \in Outputs :
            from_slice(out) \in Buffer /\ Known(from_slice(out)) /\ from_slice(out).bytes = out
  <2>1. Code \in Bytes /\ \A out \in Outputs : out \in Bytes
    BY EvmFrameAssumption DEF Bytes
  <2> QED BY <2>1, SliceBuffer
<1>3. Call(offset, length, to, toLength) => Ends(Outcome("running", fs))
  BY DEF Call, Called
<1>4. CallRefused(offset, length, to, toLength) => Ends(Error(fs))
  BY DEF CallRefused, Called
<1>5. ASSUME NEW out \in Outputs
      PROVE  CallPrecompile(offset, length, to, toLength, out)
               => Ends(opcode_return_impl(fs, from_slice(out)))
  BY DEF CallPrecompile, Called
<1>6. gs = Flat!Entered("call", Code, Flat!Get(Flat!f, offset, length), offset, length, to, toLength)
  BY DEF Flat!Called
<1> HIDE DEF r, v, fits, gs
<1>7. ASSUME r.ok PROVE Machines(fs) /\ AllShaped(fs) /\ Related(fs, gs) /\ RelatedBelow(fs, gs)
  <2>1. from_slice(v) \in Buffer /\ Known(from_slice(v)) /\ from_slice(v).bytes = v
    BY <1>1, <1>7, SliceBuffer
  <2>2. AllShaped(fs) /\ Related(fs, gs)
    BY <1>1, <1>2, <1>6, <1>7, <2>1, EnteredRelated
  <2>3. return_range_of(to, toLength) \in [start : Offset, end : Offset]
    <3>1. to + toLength \in Int /\ USIZE \in Nat \ {0}
      BY EvmFrameAssumption DEF Offset
    <3>2. (to + toLength) % USIZE \in Offset
      BY <3>1 DEF Offset
    <3> QED BY <3>2 DEF return_range_of
  <2>4. Machines(fs)
    BY <1>1, <1>2, <1>7, <2>1, <2>3, EnteredSound DEF Live
  <2> QED BY <2>2, <2>4, LastRelated
<1>8. Agrees(failed, Flat!Failed(flat))
  BY <1>1, OutOfLimits
<1> HIDE DEF fs, failed
<1>9. ASSUME NEW o, NEW p, Ends(o), Flat!OrFail(fits, p), r.ok => Agrees(o, p)
      PROVE  Together
  BY <1>1, <1>8, <1>9 DEF Together, Flat!OrFail
<1>10. ASSUME Call(offset, length, to, toLength), Flat!Call(offset, length, to, toLength)
       PROVE  Together
  <2>1. r.ok => Agrees(Outcome("running", fs), Flat!Kept(gs))
    BY <1>7, RunningAgrees
  <2>2. Flat!OrFail(fits, Flat!Kept(gs))
    BY <1>10 DEF Flat!Call, fits, gs
  <2> QED BY <1>3, <1>9, <1>10, <2>1, <2>2
<1>11. ASSUME CallRefused(offset, length, to, toLength), Flat!CallRefused(offset, length, to, toLength)
       PROVE  Together
  <2>1. r.ok => Agrees(Error(fs), Flat!Failed(gs))
    BY <1>7, ErrorAgrees
  <2>2. Flat!OrFail(fits, Flat!Failed(gs))
    BY <1>11 DEF Flat!CallRefused, fits, gs
  <2> QED BY <1>4, <1>9, <1>11, <2>1, <2>2
<1>12. ASSUME NEW out \in Outputs,
              CallPrecompile(offset, length, to, toLength, out),
              Flat!CallPrecompile(offset, length, to, toLength, out)
       PROVE  Together
  <2> DEFINE b == from_slice(out)
  <2>1. b \in Buffer /\ Known(b) /\ b.bytes = out
    BY <1>2
  <2>2. Ends(opcode_return_impl(fs, b))
    BY <1>5, <1>12
  <2> HIDE DEF b
  <2>3. r.ok => Agrees(opcode_return_impl(fs, b), Flat!Returned(gs, out))
    BY <1>7, <2>1, ReturnAgrees
  <2>4. Flat!OrFail(fits, Flat!Returned(gs, out))
    BY <1>12 DEF Flat!CallPrecompile, fits, gs
  <2> QED BY <1>9, <2>2, <2>3, <2>4
<1> QED BY <1>10, <1>11, <1>12

LEMMA CreatesTogether ==
    ASSUME Live, NEW offset \in Offset, NEW length \in Offset
    PROVE  /\ Create(offset, length) /\ Flat!Create(offset, length) => Together
           /\ CreateRefused(offset, length) /\ Flat!CreateRefused(offset, length) => Together
<1> DEFINE r == read(Top.memory, offset, length)
           v == Slice(r.memory, offset, length)
           fs == Entered(r, "create", from_slice(v), Empty, NoRange)
           gs == Flat!Created(offset, length)
           fits == Flat!Fits(offset, length)
           failed == Error(WithMemory(frames, r.memory))
           Ends(then) == Step(IF r.ok THEN then ELSE failed)
<1>1. /\ length \in Nat /\ (r.ok <=> fits)
      /\ r.memory \in Memory /\ Trim(r.memory)
      /\ r.ok => /\ Sound(r.memory) /\ Over(r.memory, Flat!Used(Flat!f, offset, length))
                 /\ v \in Bytes /\ v = Flat!Get(Flat!f, offset, length)
  BY ReadTop
<1>2. Empty \in Buffer /\ Known(Empty) /\ Empty.bytes = <<>>
  BY FromSlice DEF Empty, Known
<1>3. Create(offset, length) => Ends(Outcome("running", fs))
  BY DEF Create, Created
<1>4. CreateRefused(offset, length) => Ends(Error(fs))
  BY DEF CreateRefused, Created
<1>5. gs = Flat!Entered("create", Flat!Get(Flat!f, offset, length), <<>>, offset, length, 0, 0)
  BY DEF Flat!Created
<1>6. /\ 0 \in Offset /\ NoRange = return_range_of(0, 0)
      /\ NoRange \in [start : Offset, end : Offset]
  <2>1. USIZE \in Nat \ {0}
    BY EvmFrameAssumption
  <2>2. (0 + 0) % USIZE = 0
    BY <2>1, Z3
  <2> QED BY <2>1, <2>2 DEF NoRange, return_range_of, Offset
<1> HIDE DEF r, v, fits, gs
<1>7. ASSUME r.ok PROVE Machines(fs) /\ AllShaped(fs) /\ Related(fs, gs) /\ RelatedBelow(fs, gs)
  <2>1. from_slice(v) \in Buffer /\ Known(from_slice(v)) /\ from_slice(v).bytes = v
    BY <1>1, <1>7, SliceBuffer
  <2>2. AllShaped(fs) /\ Related(fs, gs)
    BY <1>1, <1>2, <1>5, <1>6, <1>7, <2>1, EnteredRelated
  <2>3. Machines(fs)
    BY <1>1, <1>2, <1>6, <1>7, <2>1, EnteredSound DEF Live
  <2> QED BY <2>2, <2>3, LastRelated
<1>8. Agrees(failed, Flat!Failed(flat))
  BY <1>1, OutOfLimits
<1> HIDE DEF fs, failed
<1>9. ASSUME NEW o, NEW p, Ends(o), Flat!OrFail(fits, p), r.ok => Agrees(o, p)
      PROVE  Together
  BY <1>1, <1>8, <1>9 DEF Together, Flat!OrFail
<1>10. ASSUME Create(offset, length), Flat!Create(offset, length)
       PROVE  Together
  <2>1. r.ok => Agrees(Outcome("running", fs), Flat!Kept(gs))
    BY <1>7, RunningAgrees
  <2>2. Flat!OrFail(fits, Flat!Kept(gs))
    BY <1>10 DEF Flat!Create, fits, gs
  <2> QED BY <1>3, <1>9, <1>10, <2>1, <2>2
<1>11. ASSUME CreateRefused(offset, length), Flat!CreateRefused(offset, length)
       PROVE  Together
  <2>1. r.ok => Agrees(Error(fs), Flat!Failed(gs))
    BY <1>7, ErrorAgrees
  <2>2. Flat!OrFail(fits, Flat!Failed(gs))
    BY <1>11 DEF Flat!CreateRefused, fits, gs
  <2> QED BY <1>4, <1>9, <1>11, <2>1, <2>2
<1> QED BY <1>10, <1>11

LEMMA EndsTogether ==
    ASSUME Live, NEW offset \in Offset, NEW length \in Offset
    PROVE  /\ Return(offset, length) /\ Flat!Return(offset, length) => Together
           /\ Revert(offset, length) /\ Flat!Revert(offset, length) => Together
<1> DEFINE r == read(Top.memory, offset, length)
           v == Slice(r.memory, offset, length)
           b == from_slice(v)
           fs == WithMemory(frames, r.memory)
           fits == Flat!Fits(offset, length)
           got == Flat!Get(Flat!f, offset, length)
           Ends(then) == Step(IF r.ok THEN then ELSE Error(fs))
<1>1. /\ (r.ok <=> fits) /\ r.memory \in Memory /\ Trim(r.memory)
      /\ r.ok => v \in Bytes /\ v = got
  BY ReadTop
<1>2. Return(offset, length) => Ends(opcode_return_impl(fs, b))
  BY DEF Return, Accessed
<1>3. Revert(offset, length) => Ends(opcode_revert_impl(fs, b))
  BY DEF Revert, Accessed
<1>4. Agrees(Error(fs), Flat!Failed(flat))
  BY <1>1, OutOfLimits
<1>5. Machines(fs) /\ AllShaped(fs) /\ RelatedBelow(fs, flat)
  BY <1>1, LiveTop, StillBelow
<1> HIDE DEF r, v, fs
<1>6. r.ok => b \in Buffer /\ Known(b) /\ b.bytes = got
  BY <1>1, SliceBuffer
<1> HIDE DEF b, got, fits
<1>7. ASSUME NEW o, NEW p, Ends(o), Flat!OrFail(fits, p), r.ok => Agrees(o, p)
      PROVE  Together
  BY <1>1, <1>4, <1>7 DEF Together, Flat!OrFail
<1>8. ASSUME Return(offset, length), Flat!Return(offset, length)
      PROVE  Together
  <2>1. r.ok => Agrees(opcode_return_impl(fs, b), Flat!Returned(flat, got))
    BY <1>5, <1>6, ReturnAgrees
  <2>2. Flat!OrFail(fits, Flat!Returned(flat, got))
    BY <1>8 DEF Flat!Return, fits, got
  <2> QED BY <1>2, <1>7, <1>8, <2>1, <2>2
<1>9. ASSUME Revert(offset, length), Flat!Revert(offset, length)
      PROVE  Together
  <2>1. r.ok => Agrees(opcode_revert_impl(fs, b), Flat!Reverted(flat, got))
    BY <1>5, <1>6, RevertAgrees
  <2>2. Flat!OrFail(fits, Flat!Reverted(flat, got))
    BY <1>9 DEF Flat!Revert, fits, got
  <2> QED BY <1>3, <1>7, <1>9, <2>1, <2>2
<1> QED BY <1>8, <1>9

LEMMA StopTogether ==
    ASSUME Live, Stop, Flat!Stop
    PROVE  Together
<1>1. Empty \in Buffer /\ Known(Empty) /\ Empty.bytes = <<>>
  BY FromSlice DEF Empty, Known
<1>2. Agrees(opcode_return_impl(frames, Empty), Flat!Returned(flat, <<>>))
  BY <1>1, LiveTop, ReturnAgrees
<1> QED BY <1>2 DEF Stop, Flat!Stop, Together
-----------------------------------------------------------------------------
(* Beside EvmMemory: the next iteration *)

\* The image has the bytes in use, and the rest of a memory is zeros.
LEMMA FromBufferShows ==
    ASSUME NEW m \in Memory, Trim(m), Sound(m), NEW bytes, Shows(m, m.size, bytes)
    PROVE  LET w == from_buffer(SubSeq(m.data, 1, m.size))
           IN  Trim(w) /\ Shows(w, m.size, bytes)
<1> DEFINE s == m.size
           v == SubSeq(m.data, 1, s)
           p == next_power_of_two(s)
           capacity == Max({p, MEMORY_CAPACITY})
           z == Zeros(capacity - s)
           d == v \o z
           w == from_buffer(v)
<1>1. /\ m.data \in Seq(Byte) /\ Len(m.data) \in Nat /\ s \in Offset /\ s \in Nat
      /\ s <= Len(m.data) /\ Len(m.data) \in MEMORY_CAPACITY..MAX_MEMORY_SIZE /\ WholeWords(s)
      /\ MEMORY_CAPACITY \in Nat /\ MAX_MEMORY_SIZE \in Nat
      /\ MEMORY_CAPACITY <= MAX_MEMORY_SIZE
  BY EvmFrameAssumption DEF Memory, Bytes, Offset, Trim, Sound
<1> HIDE DEF s
<1>2. v \in Seq(Byte) /\ Len(v) = s /\ \A k \in 1..s : v[k] = m.data[k]
  BY <1>1
<1>3. p \in Nat /\ p >= s /\ p <= MAX_MEMORY_SIZE
  <2>1. s \in 0..MAX_MEMORY_SIZE
    BY <1>1
  <2> QED BY <1>1, <2>1, NextPowerAssumption, LimitAssumption DEF Offset
<1>4. w = [data |-> v \o Zeros(Max({next_power_of_two(Len(v)), MEMORY_CAPACITY}) - Len(v)),
           size |-> Len(v)]
  BY DEF from_buffer
<1>5. w = [data |-> d, size |-> s]
  BY <1>2, <1>4
<1> HIDE DEF v, p, w
<1>6. capacity \in {p, MEMORY_CAPACITY} /\ capacity >= p /\ capacity >= MEMORY_CAPACITY
  <2>1. p \in Int /\ MEMORY_CAPACITY \in Int
    BY <1>1, <1>3
  <2> QED BY <2>1, MaxOfTwo, Zenon
<1> HIDE DEF capacity
<1>7. capacity \in MEMORY_CAPACITY..MAX_MEMORY_SIZE /\ capacity - s \in Nat /\ capacity \in Nat
  BY <1>1, <1>3, <1>6
<1>8. z \in Seq(Byte) /\ Len(z) = capacity - s /\ \A k \in 1..capacity - s : z[k] = 0
  BY <1>7, ZerosBytes DEF Bytes, Zeros
<1> HIDE DEF z
<1>9. /\ Len(d) = capacity
      /\ \A k \in 1..capacity : d[k] = IF k <= s THEN v[k] ELSE z[k - s]
  BY <1>1, <1>2, <1>7, <1>8
<1> HIDE DEF d
<1>10. Trim(w)
  BY <1>1, <1>5, <1>7, <1>9 DEF Trim
<1>11. ASSUME NEW n \in Places
       PROVE  bytes[n] = IF n < Len(d) THEN d[n + 1] ELSE 0
  <2>1. n \in Nat
    BY <1>1 DEF Places
  <2>2. /\ bytes[n] = IF n < Len(m.data) THEN m.data[n + 1] ELSE 0
        /\ n >= s => bytes[n] = 0
    BY DEF Shows, s
  <2> DEFINE j == n + 1
  <2>3. j \in Nat /\ j >= 1 /\ (n < s <=> j <= s) /\ (n < Len(d) <=> j <= capacity)
        /\ (n < s => n < Len(m.data)) /\ (~(n < s) <=> n >= s)
    BY <1>1, <1>7, <1>9, <2>1
  <2>4. bytes[n] = IF n < Len(m.data) THEN m.data[j] ELSE 0
    BY <2>2
  <2> HIDE DEF j
  <2>5. CASE n < s
    <3>1. j \in 1..s /\ j \in 1..capacity /\ n < Len(d)
      BY <1>1, <1>3, <1>6, <1>7, <2>3, <2>5
    <3>2. d[j] = m.data[j]
      BY <1>2, <1>9, <2>3, <2>5, <3>1
    <3> QED BY <2>3, <2>4, <2>5, <3>1, <3>2 DEF j
  <2>6. CASE n >= s /\ n < Len(d)
    <3>1. j \in 1..capacity /\ j - s \in 1..capacity - s /\ ~(j <= s)
      BY <1>1, <1>7, <2>3, <2>6
    <3>2. d[j] = z[j - s] /\ z[j - s] = 0
      BY <1>8, <1>9, <3>1
    <3> QED BY <2>2, <2>6, <3>2 DEF j
  <2>7. CASE n >= s /\ ~(n < Len(d))
    BY <2>2, <2>7
  <2> QED BY <2>3, <2>5, <2>6, <2>7
<1>12. Shows(w, s, bytes)
  BY <1>5, <1>11 DEF Shows, s
<1> QED BY <1>10, <1>12 DEF w, v, s

LEMMA ReloadedSame ==
    ASSUME NEW e \in Machine, Sound(e.memory), Shaped(e), NEW g, Same(e, g)
    PROVE  Shaped(Reloaded(e)) /\ Same(Reloaded(e), g)
<1> DEFINE v == SubSeq(e.memory.data, 1, e.memory.size)
           w == from_buffer(v)
           B(b) == reinit_buffer(Deserialized(b), b.bytes)
           c == B(e.execution_code)
           i == B(e.call_data)
           d == B(e.return_data)
           r == Reloaded(e)
<1>1. r = [e EXCEPT !.execution_code = B(@), !.call_data = B(@),
                    !.return_data = B(@), !.memory = from_buffer(v)]
  BY DEF Reloaded, reinit_machine, Machine
<1>2. ASSUME NEW b, Known(b) PROVE Known(B(b)) /\ B(b).bytes = b.bytes
  BY <1>2 DEF Known, Deserialized, reinit_buffer, from_account
<1>3. /\ Known(c) /\ c.bytes = e.execution_code.bytes
      /\ Known(i) /\ i.bytes = e.call_data.bytes
      /\ Known(d) /\ d.bytes = e.return_data.bytes
  <2> HIDE DEF B
  <2>1. Known(e.execution_code) /\ Known(e.call_data) /\ Known(e.return_data)
    BY DEF Shaped
  <2> QED BY <1>2, <2>1
<1>4. e.memory \in Memory /\ Trim(e.memory) /\ Shows(e.memory, e.memory.size, g.bytes)
      /\ e.memory.size = g.size
  BY DEF Machine, Shaped, Same, Over, Shows
<1>5. Trim(w) /\ Shows(w, e.memory.size, g.bytes)
  BY <1>4, FromBufferShows
<1> HIDE DEF v, w, B
<1>6. r = [e EXCEPT !.execution_code = c, !.call_data = i, !.return_data = d, !.memory = w]
  BY <1>1 DEF w
<1> HIDE DEF c, i, d, r
<1>7. /\ r.execution_code = c /\ r.call_data = i /\ r.return_data = d /\ r.memory = w
      /\ r.reason = e.reason /\ r.return_range = e.return_range
  BY <1>6 DEF Machine
<1>8. Shaped(r)
  BY <1>3, <1>5, <1>7 DEF Shaped
<1>9. Same(r, g)
  BY <1>3, <1>4, <1>5, <1>7 DEF Same, Beside, Over
<1> QED BY <1>8, <1>9 DEF r
-----------------------------------------------------------------------------
(* Beside EvmMemory: the specification *)

\* The inductive invariant of both machines
BothInv ==
    /\ FrameInv /\ AllShaped(frames)
    /\ status \in {"running", "ended", "failed", "panic"} /\ steps \in 0..MaxSteps
    /\ status # "panic" => ending = status
    /\ status = "running" => Related(frames, flat)

LEMMA BothInitial == BothInit => BothInv
<1> SUFFICES ASSUME BothInit PROVE BothInv
  OBVIOUS
<1> DEFINE code == from_account(Code)
           input == from_slice(CallData)
           e == fork("call", code, input)
           g == Flat!Fresh("call", Code, CallData)
<1>1. /\ code \in Buffer /\ Known(code) /\ code.bytes = Code
      /\ input \in Buffer /\ Known(input) /\ input.bytes = CallData
  <2>1. Code \in Bytes /\ CallData \in Bytes
    BY EvmFrameAssumption DEF Bytes
  <2> QED BY <2>1, SliceBuffer
<1>2. frames = <<e>> /\ status = "running" /\ steps = 0
  BY DEF BothInit, Init
<1>3. flat = <<g>> /\ ending = "running"
  BY DEF BothInit, Flat!Init
<1> HIDE DEF code, input
<1>4. g \in FlatFrame /\ Same(e, g) /\ Shaped(e)
  BY <1>1, FreshMachine
<1> HIDE DEF e, g
<1>5. AllShaped(frames) /\ Related(frames, flat)
  <2>1. Len(frames) = 1 /\ frames[1] = e
    BY <1>2
  <2>2. flat \in Seq(FlatFrame) /\ Len(flat) = 1 /\ flat[1] = g
    BY <1>3, <1>4
  <2>3. \A k \in 1..1 : k = 1
    OBVIOUS
  <2> QED BY <1>4, <2>1, <2>2, <2>3 DEF AllShaped, Related
<1>6. FrameInv
  BY FrameInit DEF BothInit
<1>7. steps \in 0..MaxSteps
  BY <1>2, EvmFrameAssumption
<1> QED BY <1>2, <1>3, <1>5, <1>6, <1>7 DEF BothInv

\* A pair of steps is a step of EvmFrame.
LEMMA BothStep == [BothNext]_both => [Next]_vars
<1>1. BothRead \/ BothWrite \/ BothCall \/ BothCreate \/ BothEnd => Next
  BY DEF BothRead, BothWrite, BothCall, BothCreate, BothEnd, Next
<1>2. NextIteration => Next
  BY DEF Next
<1> QED BY <1>1, <1>2 DEF BothNext, both

LEMMA TogetherKeeps ==
    ASSUME BothInv, FrameInv', Together
    PROVE  BothInv'
<1>1. PICK o, p : Step(o) /\ Flat!Step(p) /\ Agrees(o, p)
  BY DEF Together
<1>2. /\ frames' = o.frames /\ status' = o.status /\ steps' = steps + 1 /\ steps < MaxSteps
      /\ flat' = p.frames /\ ending' = p.ending
  BY <1>1 DEF Step, Flat!Step
<1>3. steps' \in 0..MaxSteps
  BY <1>2, EvmFrameAssumption DEF BothInv
<1>4. /\ AllShaped(o.frames)
      /\ o.status \in {"running", "ended", "failed"} /\ o.status = ending'
      /\ o.status = "running" => Related(o.frames, flat')
  BY <1>1, <1>2 DEF Agrees
<1>5. AllShaped(frames')
  BY <1>2, <1>4
<1>6. status' = "running" => Related(frames', flat')
  BY <1>2, <1>4
<1> QED BY <1>2, <1>3, <1>4, <1>5, <1>6 DEF BothInv, AllShaped, Related

LEMMA IterationTogether ==
    ASSUME BothInv, FrameInv', NextIteration, Flat!NextIteration
    PROVE  BothInv'
<1>1. flat' = flat /\ ending' = ending /\ steps' = steps
  BY DEF NextIteration, Flat!NextIteration
<1>2. CASE status' = "panic" /\ frames' = frames
  <2>1. AllShaped(frames')
    BY <1>2 DEF BothInv
  <2> QED BY <1>1, <1>2, <2>1 DEF BothInv, AllShaped
<1>3. CASE /\ Serializable(frames) /\ status = "running" /\ status' = status
           /\ frames' = [k \in DOMAIN frames |-> Reloaded(frames[k])]
  <2> DEFINE n == Len(frames)
             w == [k \in 1..n |-> Reloaded(frames[k])]
  <2>1. frames \in Seq(Machine) /\ n \in Nat /\ DOMAIN frames = 1..n
    BY CountOfFrames DEF BothInv, FrameInv
  <2>2. AllShaped(frames) /\ Related(frames, flat)
    BY <1>3 DEF BothInv
  <2>3. ASSUME NEW k \in 1..n
        PROVE  Shaped(Reloaded(frames[k])) /\ Same(Reloaded(frames[k]), flat[k])
    <3>1. frames[k] \in Machine /\ Sound(frames[k].memory)
      BY <1>3, <2>1, ElementOfSeq DEF Serializable, Sound
    <3>2. Shaped(frames[k]) /\ Same(frames[k], flat[k])
      BY <2>2 DEF AllShaped, Related
    <3> QED BY <3>1, <3>2, ReloadedSame
  <2>4. frames' = w
    BY <1>3, <2>1
  <2>5. Len(w) = n /\ \A k \in 1..n : w[k] = Reloaded(frames[k])
    BY <2>1
  <2>6. flat \in Seq(FlatFrame) /\ Len(flat) = n
    BY <2>2 DEF Related
  <2> HIDE DEF w, n
  <2>7. AllShaped(w) /\ Related(w, flat)
    BY <2>3, <2>5, <2>6 DEF AllShaped, Related
  <2>8. AllShaped(frames') /\ Related(frames', flat')
    BY <1>1, <2>4, <2>7
  <2> QED BY <1>1, <1>3, <2>8 DEF BothInv, AllShaped, Related
<1> QED BY <1>2, <1>3 DEF NextIteration

LEMMA BothKeeps == BothInv /\ [BothNext]_both => BothInv'
<1> SUFFICES ASSUME BothInv, [BothNext]_both PROVE BothInv'
  OBVIOUS
<1>1. FrameInv'
  BY BothStep, FrameNext DEF BothInv
<1>2. CASE UNCHANGED both
  BY <1>1, <1>2 DEF both, vars, BothInv, AllShaped, Related
<1>3. CASE NextIteration /\ Flat!NextIteration
  BY <1>1, <1>3, IterationTogether
<1>4. CASE BothRead \/ BothWrite \/ BothCall \/ BothCreate \/ BothEnd
  <2>1. Live
    <3>1. status = "running"
      BY <1>4, Stopped DEF BothRead, BothWrite, BothCall, BothCreate, BothEnd
    <3> QED BY <3>1 DEF BothInv, FrameInv, RunningSerializable, Running, Live
  <2>2. \A r \in Ranges : r[1] \in Offset /\ r[2] \in Offset
    BY EvmFrameAssumption DEF Offset
  <2>3. \A from \in Froms : from \in Offset
    BY EvmFrameAssumption DEF Offset
  <2>4. ASSUME BothRead PROVE Together
    BY <2>1, <2>2, <2>4, MemoryTogether DEF BothRead
  <2>5. ASSUME BothWrite PROVE Together
    BY <2>1, <2>2, <2>3, <2>5, MemoryTogether, CopiesTogether DEF BothWrite
  <2>6. ASSUME BothCall PROVE Together
    BY <2>1, <2>2, <2>6, CallsTogether DEF BothCall
  <2>7. ASSUME BothCreate PROVE Together
    BY <2>1, <2>2, <2>7, CreatesTogether DEF BothCreate
  <2>8. ASSUME BothEnd PROVE Together
    BY <2>1, <2>2, <2>8, EndsTogether, StopTogether, OtherErrorTogether DEF BothEnd
  <2>9. Together
    BY <1>4, <2>4, <2>5, <2>6, <2>7, <2>8
  <2> QED BY <1>1, <2>9, TogetherKeeps
<1> QED BY <1>2, <1>3, <1>4 DEF BothNext

LEMMA BothInvTypeOK == BothInv => TypeOK
<1> SUFFICES ASSUME BothInv PROVE TypeOK
  OBVIOUS
<1>1. DOMAIN frames = 1..Len(frames)
  BY CountOfFrames DEF BothInv, FrameInv
<1>2. ASSUME NEW k \in DOMAIN frames
      PROVE  /\ frames[k].memory.size % ELEMENT_SIZE = 0
             /\ Len(frames[k].memory.data) \in MEMORY_CAPACITY..MAX_MEMORY_SIZE
             /\ {frames[k].call_data.inner, frames[k].execution_code.inner,
                 frames[k].return_data.inner} \subseteq {"empty", "owned", "account"}
  <2>1. Shaped(frames[k])
    BY <1>1 DEF BothInv, AllShaped
  <2> QED BY <2>1 DEF Shaped, Trim, WholeWords, Known
<1> QED BY <1>2 DEF BothInv, TypeOK

LEMMA BothInvSeen == BothInv => SeenAsFlat
<1> SUFFICES ASSUME BothInv, status = "running"
             PROVE  /\ Len(frames) = Len(flat)
                    /\ \A k \in DOMAIN frames :
                          /\ frames[k].memory.size = flat[k].size
                          /\ \A n \in DOMAIN flat[k].bytes :
                                flat[k].bytes[n] = IF n < Len(frames[k].memory.data)
                                                   THEN frames[k].memory.data[n + 1] ELSE 0
                          /\ frames[k].call_data.bytes = flat[k].input
                          /\ frames[k].execution_code.bytes = flat[k].code
                          /\ frames[k].return_data.bytes = flat[k].output
  BY DEF SeenAsFlat, BothInv
<1>1. DOMAIN frames = 1..Len(frames)
  BY CountOfFrames DEF BothInv, FrameInv
<1>2. flat \in Seq(FlatFrame) /\ Len(flat) = Len(frames)
  BY DEF BothInv, Related
<1>3. ASSUME NEW k \in DOMAIN frames
      PROVE  Same(frames[k], flat[k]) /\ DOMAIN flat[k].bytes = Places
  <2>1. Same(frames[k], flat[k])
    BY <1>1 DEF BothInv, Related
  <2>2. flat[k] \in FlatFrame
    BY <1>1, <1>2, ElementOfSeq
  <2> QED BY <2>1, <2>2 DEF FlatFrame
<1> QED BY <1>2, <1>3 DEF Same, Beside, Over, Shows

\* Whatever the opcodes, operands and cuts into iterations: a memory is whole
\* words in an allocation within its limits, and the buffers of a machine
\* know their bytes (Memory::realloc, Buffer's reinit_buffer).
THEOREM FrameTypes == BothSpec => []TypeOK
BY BothInitial, BothKeeps, BothInvTypeOK, PTL DEF BothSpec

\* Machine implements the machine of EvmMemory, whose memory is one zeroed
\* array and whose transaction runs in one piece: frames see the same bytes
\* and sizes and end, or fail, at the same opcode.
THEOREM MemoryIsFlat == BothSpec => []SeenAsFlat
BY BothInitial, BothKeeps, BothInvSeen, PTL DEF BothSpec
=============================================================================
