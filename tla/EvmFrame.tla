------------------------------ MODULE EvmFrame ------------------------------
(***************************************************************************)
(* The memory, the buffers and the return data of the machine's frames:    *)
(* the allocation that grows, the copies between code, call data, return   *)
(* data and memory, calls and creations and how they end, errors, and the  *)
(* machine's image in the holder account between two iterations.  The      *)
(* operands an opcode pops are arbitrary.  Positions count from 0.         *)
(***************************************************************************)
EXTENDS Integers, Sequences, SequencesExt, FiniteSetsExt

CONSTANTS
    ELEMENT_SIZE,      \* bytes of a word, 32
    MEMORY_CAPACITY,   \* first allocation, 1024
    MAX_MEMORY_SIZE,   \* 64 * 1024
    USIZE,             \* 2^64: usize wraps here
    Code,              \* the code of every contract
    CallData,          \* the call data of the transaction
    Message,           \* what build_revert_message makes of an error
    next_power_of_two(_),  \* over the limit where Rust's would overflow
    Ranges,            \* operands: pairs of an offset and a length
    Froms,             \* operands: offsets into the sources of copies
    Words,             \* operands: stored words
    Outputs,           \* of precompiles
    MaxDepth,          \* bound: frames
    MaxSteps           \* bound: opcodes executed

Byte == 0..255

ASSUME EvmFrameAssumption ==
    /\ {ELEMENT_SIZE, MEMORY_CAPACITY, MAX_MEMORY_SIZE, USIZE} \subseteq Nat \ {0}
    /\ MEMORY_CAPACITY <= MAX_MEMORY_SIZE /\ MAX_MEMORY_SIZE < USIZE
    /\ {MaxDepth, MaxSteps} \subseteq Nat
    /\ {Code, CallData, Message} \subseteq Seq(Byte)
    /\ Words \subseteq Seq(Byte) \ {<<>>} /\ Outputs \subseteq Seq(Byte)
    /\ Ranges \subseteq (0..USIZE - 1) \X (0..USIZE - 1) /\ Froms \subseteq 0..USIZE - 1

ASSUME NextPowerAssumption ==
    \A n \in 0..USIZE - 1 : next_power_of_two(n) \in Nat /\ next_power_of_two(n) >= n

VARIABLES
    frames,   \* the machine and its parents, the machine that runs last
    status,   \* "running", "ended", "failed" (the instruction fails, and Solana
              \* takes all it did back) or "panic" (it fails while it serializes)
    steps

vars == <<frames, status, steps>>

-----------------------------------------------------------------------------
(* Buffer *)

Empty == [inner |-> "empty", bytes |-> <<>>]
from_slice(v) == IF v = <<>> THEN Empty ELSE [inner |-> "owned", bytes |-> v]
from_account(v) == [inner |-> "account", bytes |-> v]

\* A buffer in an account is written as its key and range, and knows its
\* bytes again when reinit_buffer finds the account
Deserialized(b) ==
    IF b.inner = "account" THEN [inner |-> "uninit", bytes |-> <<>>] ELSE b
reinit_buffer(b, bytes) == IF b.inner = "uninit" THEN from_account(bytes) ELSE b

-----------------------------------------------------------------------------
(* Memory: the allocation is data, whose length is the capacity *)

Zeros(n) == [k \in 1..n |-> 0]

with_capacity(n) == [data |-> Zeros(n), size |-> 0]
new_memory == with_capacity(MEMORY_CAPACITY)

from_buffer(v) ==
    LET capacity == Max({next_power_of_two(Len(v)), MEMORY_CAPACITY})
    IN  [data |-> v \o Zeros(capacity - Len(v)), size |-> Len(v)]

NoSize == -1
checked_next_multiple_of_32(n) ==
    IF n + ELEMENT_SIZE - 1 >= USIZE THEN NoSize
    ELSE ELEMENT_SIZE * ((n + ELEMENT_SIZE - 1) \div ELEMENT_SIZE)

Ok(m) == [ok |-> TRUE, memory |-> m]
MemoryAccessOutOfLimits(m) == [ok |-> FALSE, memory |-> m]

\* The size is set before the limit is checked
realloc(m, offset, length) ==
    LET new_size == checked_next_multiple_of_32(offset + length)
        grown == [m EXCEPT !.size = Max({@, new_size})]
        new_capacity == next_power_of_two(new_size) IN
    IF offset + length >= USIZE \/ new_size = NoSize THEN MemoryAccessOutOfLimits(m)
    ELSE IF new_size <= Len(m.data) THEN Ok(grown)
    ELSE IF new_capacity > MAX_MEMORY_SIZE THEN MemoryAccessOutOfLimits(grown)
    ELSE Ok([grown EXCEPT !.data = @ \o Zeros(new_capacity - Len(@))])

read(m, offset, length) == IF length = 0 THEN Ok(m) ELSE realloc(m, offset, length)
read_32(m, offset) == realloc(m, offset, ELEMENT_SIZE)

\* What is found at the range of a successful read
Slice(m, offset, length) == SubSeq(m.data, offset + 1, offset + length)

Written(r, offset, v) ==
    [r EXCEPT !.memory.data =
        IF r.ok THEN [k \in DOMAIN @ |-> IF k - offset \in DOMAIN v THEN v[k - offset] ELSE @[k]]
        ELSE @]

write_32(m, offset, v) == Written(realloc(m, offset, ELEMENT_SIZE), offset, v)
write_byte(m, offset, b) == Written(realloc(m, offset, 1), offset, <<b>>)

write_buffer_unfilled(m, offset, length, source, source_offset) ==
    IF length = 0 THEN Ok(m)
    ELSE Written(realloc(m, offset, length), offset,
                 SubSeq(source, source_offset + 1, Min({source_offset + length, Len(source)})))

\* Past the end of the source there are zeros
write_buffer(m, offset, length, source, source_offset) ==
    IF length = 0 THEN Ok(m)
    ELSE Written(realloc(m, offset, length), offset,
                 [k \in 1..length |-> IF source_offset + k \in DOMAIN source
                                      THEN source[source_offset + k] ELSE 0])

RangeLen(range) == Max({0, range.end - range.start})
write_range(m, range, source) == write_buffer(m, range.start, RangeLen(range), source, 0)

-----------------------------------------------------------------------------
(* Machine *)

NoRange == [start |-> 0, end |-> 0]
return_range_of(offset, length) == [start |-> offset, end |-> (offset + length) % USIZE]

fork(reason, code, call_data) ==
    [reason |-> reason, execution_code |-> code, call_data |-> call_data,
     return_data |-> Empty, return_range |-> NoRange, memory |-> new_memory]

Top == Last(frames)
Parents(fs) == Front(fs)
WithMemory(fs, m) == [fs EXCEPT ![Len(fs)].memory = m]
WithReturnData(fs, b) == [fs EXCEPT ![Len(fs)].return_data = b]

Outcome(s, fs) == [status |-> s, frames |-> fs]

\* join, and what the parent receives; an error there fails the instruction
opcode_revert_impl(fs, b) ==
    IF Len(fs) = 1 THEN Outcome("ended", fs)
    ELSE LET joined == Parents(fs)
             parent == Last(joined)
             w == write_range(parent.memory, parent.return_range, b.bytes) IN
         IF Last(fs).reason = "create" THEN Outcome("running", WithReturnData(joined, b))
         ELSE IF w.ok THEN Outcome("running", WithReturnData(WithMemory(joined, w.memory), b))
         ELSE Outcome("failed", fs)

\* Machine::execute turns the error of an opcode into a revert
Error(fs) == opcode_revert_impl(fs, from_slice(Message))

opcode_return_unchecked(fs, b) ==
    IF Len(fs) = 1 THEN Outcome("ended", fs)
    ELSE LET joined == Parents(fs)
             parent == Last(joined)
             w == write_range(parent.memory, parent.return_range, b.bytes) IN
         IF Last(fs).reason = "create" THEN Outcome("running", joined)
         ELSE Outcome("running", WithReturnData(WithMemory(joined, w.memory), b))

\* An error in the parent's memory is already the parent's
opcode_return_impl(fs, b) ==
    IF Len(fs) = 1 THEN Outcome("ended", fs)
    ELSE LET joined == Parents(fs)
             parent == Last(joined)
             w == write_range(parent.memory, parent.return_range, b.bytes) IN
         IF Last(fs).reason = "create" THEN Outcome("running", joined)
         ELSE IF w.ok THEN Outcome("running", WithReturnData(WithMemory(joined, w.memory), b))
         ELSE Error(WithMemory(joined, w.memory))

-----------------------------------------------------------------------------
(* The opcodes: one step of Machine::execute *)

Step(outcome) ==
    /\ status = "running" /\ steps < MaxSteps
    /\ frames' = outcome.frames /\ status' = outcome.status
    /\ steps' = steps + 1

\* An access to memory, and what follows if it succeeds
Accessed(r, then) ==
    Step(IF r.ok THEN then ELSE Error(WithMemory(frames, r.memory)))
Access(r) == Accessed(r, Outcome("running", WithMemory(frames, r.memory)))

Mload(offset) == Access(read_32(Top.memory, offset))
\* opcode_sha3, opcode_log_0_4
ReadMemory(offset, length) == Access(read(Top.memory, offset, length))
Mstore(offset, v) == Access(write_32(Top.memory, offset, v))
Mstore8(offset, v) == Access(write_byte(Top.memory, offset, Last(v)))

Calldatacopy(offset, length, from) ==
    Access(write_buffer(Top.memory, offset, length, Top.call_data.bytes, from))
Codecopy(offset, length, from) ==
    Access(write_buffer(Top.memory, offset, length, Top.execution_code.bytes, from))
Extcodecopy(offset, length, from) ==
    Access(write_buffer(Top.memory, offset, length, Code, from))
Returndatacopy(offset, length, from) ==
    IF from + length > Len(Top.return_data.bytes) THEN Step(Error(frames))
    ELSE Access(write_buffer(Top.memory, offset, length, Top.return_data.bytes, from))

\* Any other error: too few operands, an operand that is no usize, an opcode
\* that is invalid or not allowed
OtherError == Step(Error(frames))

\* The frames with the callee's on top of the caller's
Entered(r, reason, code, call_data, range) ==
    Append([WithReturnData(WithMemory(frames, r.memory), Empty)
               EXCEPT ![Len(frames)].return_range = range],
           fork(reason, code, call_data))

\* What the four calls have in common
Called(offset, length, to, toLength, then(_)) ==
    LET r == read(Top.memory, offset, length)
        input == from_slice(Slice(r.memory, offset, length)) IN
    /\ Len(frames) < MaxDepth
    /\ Step(IF r.ok THEN then(Entered(r, "call", from_account(Code), input, return_range_of(to, toLength)))
            ELSE Error(WithMemory(frames, r.memory)))

\* opcode_call, opcode_callcode, opcode_delegatecall, opcode_staticcall
Call(offset, length, to, toLength) ==
    Called(offset, length, to, toLength, LAMBDA fs : Outcome("running", fs))
\* The value cannot be transferred
CallRefused(offset, length, to, toLength) == Called(offset, length, to, toLength, Error)
CallPrecompile(offset, length, to, toLength, output) ==
    Called(offset, length, to, toLength, LAMBDA fs : opcode_return_impl(fs, from_slice(output)))

Created(offset, length, then(_)) ==
    LET r == read(Top.memory, offset, length)
        init_code == from_slice(Slice(r.memory, offset, length)) IN
    /\ Len(frames) < MaxDepth
    /\ Step(IF r.ok THEN then(Entered(r, "create", init_code, Empty, NoRange))
            ELSE Error(WithMemory(frames, r.memory)))

\* opcode_create, opcode_create2
Create(offset, length) == Created(offset, length, LAMBDA fs : Outcome("running", fs))
CreateRefused(offset, length) == Created(offset, length, Error)

Return(offset, length) ==
    LET r == read(Top.memory, offset, length)
    IN  Accessed(r, opcode_return_impl(WithMemory(frames, r.memory),
                                       from_slice(Slice(r.memory, offset, length))))
Revert(offset, length) ==
    LET r == read(Top.memory, offset, length)
    IN  Accessed(r, opcode_revert_impl(WithMemory(frames, r.memory),
                                       from_slice(Slice(r.memory, offset, length))))
\* opcode_stop, opcode_selfdestruct
Stop == Step(opcode_return_impl(frames, Empty))

-----------------------------------------------------------------------------
(* The end of an iteration: serialize_evm_state here, deserialize_evm_state *)
(* in the next one                                                          *)

Serializable(fs) == \A k \in DOMAIN fs : fs[k].memory.size <= Len(fs[k].memory.data)

reinit_call_data(f, bytes) ==
    [f EXCEPT !.call_data = reinit_buffer(@, bytes.call_data)]

reinit_machine(f, bytes) ==
    [f EXCEPT !.execution_code = reinit_buffer(@, bytes.execution_code),
              !.call_data = reinit_buffer(@, bytes.call_data),
              !.return_data = reinit_buffer(@, bytes.return_data)]

Reloaded(f) ==
    LET loaded == [f EXCEPT !.execution_code = Deserialized(@),
                            !.call_data = Deserialized(@),
                            !.return_data = Deserialized(@),
                            !.memory = from_buffer(SubSeq(@.data, 1, @.size))]
        accounts == [execution_code |-> f.execution_code.bytes,
                     call_data |-> f.call_data.bytes,
                     return_data |-> f.return_data.bytes]
    IN  reinit_machine(loaded, accounts)

NextIteration ==
    /\ status \in {"running", "ended"}
    /\ IF Serializable(frames)
       THEN status = "running" /\ frames' = [k \in DOMAIN frames |-> Reloaded(frames[k])]
            /\ UNCHANGED status
       ELSE status' = "panic" /\ UNCHANGED frames
    /\ UNCHANGED steps

Init ==
    /\ frames = <<fork("call", from_account(Code), from_slice(CallData))>>
    /\ status = "running"
    /\ steps = 0

Next ==
    \/ \E r \in Ranges :
          \/ Mload(r[1]) \/ ReadMemory(r[1], r[2])
          \/ \E v \in Words : Mstore(r[1], v) \/ Mstore8(r[1], v)
          \/ \E from \in Froms :
                \/ Calldatacopy(r[1], r[2], from) \/ Codecopy(r[1], r[2], from)
                \/ Extcodecopy(r[1], r[2], from) \/ Returndatacopy(r[1], r[2], from)
          \/ \E to \in Ranges :
                \/ Call(r[1], r[2], to[1], to[2]) \/ CallRefused(r[1], r[2], to[1], to[2])
                \/ \E out \in Outputs : CallPrecompile(r[1], r[2], to[1], to[2], out)
          \/ Create(r[1], r[2]) \/ CreateRefused(r[1], r[2])
          \/ Return(r[1], r[2]) \/ Revert(r[1], r[2])
    \/ Stop \/ OtherError \/ NextIteration

Spec == Init /\ [][Next]_vars
-----------------------------------------------------------------------------
(* Properties *)

\* A machine that has not ended can be written to the holder account: the
\* frame whose access was out of limits, and whose size is past its
\* allocation since then, is always gone.
RunningSerializable == status = "running" => Serializable(frames)

\* serialize takes data[..size] of an allocation of capacity bytes: the slice
\* is in bounds whenever an iteration ends.
ImageInBounds == status # "panic"
=============================================================================
