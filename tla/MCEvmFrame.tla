----------------------------- MODULE MCEvmFrame -----------------------------
(***************************************************************************)
(* Instances of EvmFrame beside EvmMemory.  The run also evaluates what    *)
(* EvmStack says of words and stacks.                                      *)
(***************************************************************************)
EXTENDS EvmFrameFlat, EvmStack

PowerOfTwo(n) == Min({p \in {2 ^ k : k \in 0..n} : p >= n})

MCCode == <<1, 0, 1>>
MCCallData == <<1>>
MCMessage == <<1, 1>>
MCWords == {<<1, 1>>}
MCOutputs == {<<1>>}

\* Nothing, across the first allocation, past the limit, next to the last
\* usize and past it
MCRanges == {<<0, 0>>, <<1, 2>>, <<3, 2>>, <<6, 1>>, <<6, 7>>}

-----------------------------------------------------------------------------
(* Properties *)

\* From its first step on a machine computes with opcodes that are exact on
\* all words: ADDMOD, MULMOD, EXP, SDIV, SMOD, SIGNEXTEND and the shifts of
\* opcode.rs (ArithmeticLaws); with a stack that is a sequence of words
\* whatever its allocation holds above the top, in its image too (StackLaws);
\* and with CALLDATALOAD at any index, the last usize included (CalldataLaws).
OpcodesExact == steps = 0 => ArithmeticLaws /\ StackLaws /\ CalldataLaws
=============================================================================
