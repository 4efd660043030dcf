---------------------------- MODULE EvmFrameFlat ----------------------------
(***************************************************************************)
(* EvmFrame side by side with EvmMemory, which is what it promises: both   *)
(* take the same opcodes with the same operands.                           *)
(***************************************************************************)
EXTENDS EvmFrame

VARIABLES flat, ending

Flat == INSTANCE EvmMemory

\* A word has ELEMENT_SIZE bytes; the limit is a number of words and a power
\* of two, and usize has room for one word more.
ASSUME LimitAssumption ==
    /\ \A v \in Words : Len(v) = ELEMENT_SIZE
    /\ MAX_MEMORY_SIZE % ELEMENT_SIZE = 0
    /\ MAX_MEMORY_SIZE + ELEMENT_SIZE <= USIZE
    /\ \A n \in 0..MAX_MEMORY_SIZE : next_power_of_two(n) <= MAX_MEMORY_SIZE

BothInit == Init /\ Flat!Init

BothRead ==
    \E r \in Ranges :
       \/ Mload(r[1]) /\ Flat!Mload(r[1])
       \/ ReadMemory(r[1], r[2]) /\ Flat!ReadMemory(r[1], r[2])

BothWrite ==
    \E r \in Ranges :
       \/ \E v \in Words : Mstore(r[1], v) /\ Flat!Mstore(r[1], v)
       \/ \E v \in Words : Mstore8(r[1], v) /\ Flat!Mstore8(r[1], v)
       \/ \E from \in Froms : Calldatacopy(r[1], r[2], from) /\ Flat!Calldatacopy(r[1], r[2], from)
       \/ \E from \in Froms : Codecopy(r[1], r[2], from) /\ Flat!Codecopy(r[1], r[2], from)
       \/ \E from \in Froms : Extcodecopy(r[1], r[2], from) /\ Flat!Extcodecopy(r[1], r[2], from)
       \/ \E from \in Froms : Returndatacopy(r[1], r[2], from) /\ Flat!Returndatacopy(r[1], r[2], from)

BothCall ==
    \E r, to \in Ranges :
       \/ Call(r[1], r[2], to[1], to[2]) /\ Flat!Call(r[1], r[2], to[1], to[2])
       \/ CallRefused(r[1], r[2], to[1], to[2]) /\ Flat!CallRefused(r[1], r[2], to[1], to[2])
       \/ \E out \in Outputs :
             /\ CallPrecompile(r[1], r[2], to[1], to[2], out)
             /\ Flat!CallPrecompile(r[1], r[2], to[1], to[2], out)

BothCreate ==
    \E r \in Ranges :
       \/ Create(r[1], r[2]) /\ Flat!Create(r[1], r[2])
       \/ CreateRefused(r[1], r[2]) /\ Flat!CreateRefused(r[1], r[2])

BothEnd ==
    \/ \E r \in Ranges :
          \/ Return(r[1], r[2]) /\ Flat!Return(r[1], r[2])
          \/ Revert(r[1], r[2]) /\ Flat!Revert(r[1], r[2])
    \/ Stop /\ Flat!Stop
    \/ OtherError /\ Flat!OtherError

BothNext ==
    \/ BothRead \/ BothWrite \/ BothCall \/ BothCreate \/ BothEnd
    \/ NextIteration /\ Flat!NextIteration

both == <<vars, flat, ending>>

BothSpec == BothInit /\ [][BothNext]_both

-----------------------------------------------------------------------------
(* Properties *)

\* Sizes are whole words, the allocation is within its limits, and the buffers
\* of a machine know their bytes: no frame of a reloaded machine is left with
\* a buffer that is only a key and a range.
TypeOK ==
    /\ status \in {"running", "ended", "failed", "panic"}
    /\ steps \in 0..MaxSteps
    /\ \A k \in DOMAIN frames :
          /\ frames[k].memory.size % ELEMENT_SIZE = 0
          /\ Len(frames[k].memory.data) \in MEMORY_CAPACITY..MAX_MEMORY_SIZE
          /\ {frames[k].call_data.inner, frames[k].execution_code.inner,
              frames[k].return_data.inner} \subseteq {"empty", "owned", "account"}

\* Every frame sees its memory, its code, its call data and the data its last
\* call returned as if memory were one zeroed array and the transaction ran
\* in one piece, however the allocation grew and wherever iterations were cut;
\* and the machine ends, or fails, exactly where that machine does.
SeenAsFlat ==
    /\ status # "panic" => ending = status
    /\ status = "running" =>
        /\ Len(frames) = Len(flat)
        /\ \A k \in DOMAIN frames :
              /\ frames[k].memory.size = flat[k].size
              /\ \A n \in DOMAIN flat[k].bytes :
                    flat[k].bytes[n] = IF n < Len(frames[k].memory.data)
                                       THEN frames[k].memory.data[n + 1] ELSE 0
              /\ frames[k].call_data.bytes = flat[k].input
              /\ frames[k].execution_code.bytes = flat[k].code
              /\ frames[k].return_data.bytes = flat[k].output
=============================================================================
