------------------------------ MODULE EvmStack ------------------------------
(***************************************************************************)
(* Words, and the machine's stack of words: the arithmetic of opcode.rs as *)
(* it is computed, and a stack that is an allocation with a top.  A word   *)
(* is a number; an allocation has slots 0..STACK_ELEMENTS - 1 and keeps    *)
(* what was popped.                                                        *)
(***************************************************************************)
EXTENDS Integers, Sequences

CONSTANTS
    ByteBits,        \* 8
    WordBytes,       \* 32
    UsizeBytes,      \* 8
    AddressBytes,    \* 20
    STACK_ELEMENTS   \* STACK_SIZE / ELEMENT_SIZE, 128

ASSUME EvmStackAssumption ==
    /\ {ByteBits, WordBytes, UsizeBytes, AddressBytes, STACK_ELEMENTS} \subseteq Nat \ {0}
    /\ UsizeBytes <= WordBytes /\ AddressBytes <= WordBytes

WordBits == ByteBits * WordBytes
Base == 2 ^ ByteBits
Wrap == 2 ^ WordBits
Word == 0..Wrap - 1

\* I256 and back
I(x) == IF 2 * x < Wrap THEN x ELSE x - Wrap
U(x) == x % Wrap
Abs(x) == IF x < 0 THEN -x ELSE x
Sign(x) == IF x < 0 THEN -1 ELSE 1
Bool(p) == IF p THEN 1 ELSE 0
Odd(x) == x % 2 = 1
Bit(x, n) == (x \div 2 ^ n) % 2

\* Bit by bit, with f on the bits
Bitwise2(f(_, _), x, y) ==
    LET upTo[n \in 0..WordBits] ==
            IF n = 0 THEN 0 ELSE upTo[n - 1] + 2 ^ (n - 1) * f(Bit(x, n - 1), Bit(y, n - 1))
    IN  upTo[WordBits]

-----------------------------------------------------------------------------
(* opcode_add .. opcode_sar, without the stack *)

wrapping_add(a, b) == U(a + b)
wrapping_sub(a, b) == U(a - b)
wrapping_mul(a, b) == U(a * b)

opcode_div(a, b) == IF b = 0 THEN 0 ELSE a \div b
opcode_mod(a, b) == IF b = 0 THEN 0 ELSE a % b

\* wrapping_div and wrapping_rem of I256 truncate
opcode_sdiv(a, b) ==
    IF b = 0 THEN 0 ELSE U(Sign(I(a)) * Sign(I(b)) * (Abs(I(a)) \div Abs(I(b))))
opcode_smod(a, b) ==
    IF b = 0 THEN 0 ELSE U(Sign(I(a)) * (Abs(I(a)) % Abs(I(b))))

opcode_addmod_above(a, b, m) ==
    IF m = 0 THEN 0
    ELSE IF b = 0 THEN a % m
    ELSE LET x == a % m
             y == m - (b % m)
         IN  IF x > y THEN x - y ELSE wrapping_add(m - y, x)

opcode_addmod(a, b, m) ==
    IF m = 0 THEN 0
    ELSE IF b = 0 THEN a % m
    ELSE LET x == a % m
             y == m - (b % m)
         IN  IF x >= y THEN x - y ELSE wrapping_add(m - y, x)

opcode_mulmod(a, b, m) ==
    LET add(x, y) == wrapping_add(IF y >= wrapping_sub(m, x) THEN wrapping_sub(x, m) ELSE x, y)
        loop[x \in Word, y \in Word, result \in Word] ==
            IF x = 0 THEN result
            ELSE loop[x \div 2, add(y, y), IF Odd(x) THEN add(result, y) ELSE result]
        least == IF b < a THEN b ELSE a
        most == IF b < a THEN a ELSE b
    IN  IF m = 0 THEN 0 ELSE loop[least, IF most >= m THEN most % m ELSE most, 0]

opcode_exp(a, b) ==
    LET loop[x \in Word, n \in Word, result \in Word] ==
            CASE n = 0 -> result
              [] n = 1 -> wrapping_mul(result, x)
              [] OTHER -> loop[wrapping_mul(x, x), n \div 2,
                               IF Odd(n) THEN wrapping_mul(result, x) ELSE result]
    IN  loop[a, b, 1]

opcode_signextend(b, x) ==
    LET bit_index == ByteBits * b + ByteBits - 1
        below == 2 ^ bit_index
    IN  CASE b >= WordBytes -> x
          [] b < WordBytes /\ Bit(x, bit_index) = 1 -> Wrap - below + (x % below)
          [] OTHER -> x % below

opcode_lt(a, b) == Bool(a < b)
opcode_gt(a, b) == Bool(a > b)
opcode_slt(a, b) == Bool(I(a) < I(b))
opcode_sgt(a, b) == Bool(I(a) > I(b))
opcode_eq(a, b) == Bool(a = b)
opcode_iszero(a) == Bool(a = 0)
opcode_and(a, b) == Bitwise2(LAMBDA x, y : x * y, a, b)
opcode_or(a, b) == Bitwise2(LAMBDA x, y : x + y - x * y, a, b)
opcode_xor(a, b) == Bitwise2(LAMBDA x, y : (x + y) % 2, a, b)
opcode_not(a) == Wrap - 1 - a

to_be_bytes(x, n) == [k \in 1..n |-> (x \div Base ^ (n - k)) % Base]
from_be_bytes(v) ==
    LET upTo[n \in 0..Len(v)] == IF n = 0 THEN 0 ELSE Base * upTo[n - 1] + v[n]
    IN  upTo[Len(v)]

opcode_byte(i, x) == IF i >= WordBytes THEN 0 ELSE to_be_bytes(x, WordBytes)[i + 1]
opcode_shl(shift, x) == IF shift < WordBits THEN U(x * 2 ^ shift) ELSE 0
opcode_shr(shift, x) == IF shift < WordBits THEN x \div 2 ^ shift ELSE 0
\* Zero for a long shift, whatever the sign
opcode_sar(shift, x) == IF shift < WordBits THEN U(I(x) \div 2 ^ shift) ELSE 0

\* call_data.get(index..index + 32), where the sum may wrap
opcode_calldataload(data, index) ==
    LET end == (index + WordBytes) % Base ^ UsizeBytes
        rest == IF index <= Len(data) THEN SubSeq(data, index + 1, Len(data)) ELSE <<>>
    IN  IF index <= end /\ end <= Len(data) THEN SubSeq(data, index + 1, end)
        ELSE [k \in 1..WordBytes |-> IF k <= Len(rest) THEN rest[k] ELSE 0]

-----------------------------------------------------------------------------
(* Stack.  A result is a stack and how it went; a push writes the slot at  *)
(* the top before it looks whether there is room to move the top.          *)

Result(s, how) == [stack |-> s, how |-> how]

push(s) == IF s.top = STACK_ELEMENTS - 1 THEN Result(s, "overflow")
           ELSE Result([s EXCEPT !.top = @ + 1], "ok")
push_array(s, v) == push([s EXCEPT !.slots[s.top] = v])
push_array_2_31(s, v) ==
    push_array(s, [k \in 1..WordBytes - Len(v) |-> 0] \o v)
push_usize(s, n) == push_array_2_31(s, to_be_bytes(n, UsizeBytes))
push_u256(s, x) == push_array(s, to_be_bytes(x, WordBytes))

pop(s) == IF s.top = 0 THEN Result(s, "underflow")
          ELSE Result([s EXCEPT !.top = @ - 1], "ok")
\* What a successful pop leaves under the top
pop_u256(s) == from_be_bytes(pop(s).stack.slots[s.top - 1])
pop_address(s) == SubSeq(pop(s).stack.slots[s.top - 1], WordBytes - AddressBytes + 1, WordBytes)

dup_1_16(s, n) ==
    IF s.top < n THEN Result(s, "underflow")
    ELSE push([s EXCEPT !.slots[s.top] = s.slots[s.top - n]])
swap_1_16(s, n) ==
    IF s.top < n + 1 THEN Result(s, "underflow")
    ELSE Result([s EXCEPT !.slots[s.top - 1] = s.slots[s.top - n - 1],
                          !.slots[s.top - n - 1] = s.slots[s.top - 1]], "ok")

\* data[..top], into an allocation whose other slots hold anything
serialize(s) == [k \in 1..s.top |-> s.slots[k - 1]]
deserialize(image, garbage) ==
    [top |-> Len(image),
     slots |-> [k \in 0..STACK_ELEMENTS - 1 |-> IF k < Len(image) THEN image[k + 1] ELSE garbage]]

-----------------------------------------------------------------------------
(* The laws, over all words and over stacks with slots from Arrays *)

Power(a, b) ==
    LET times[n \in 0..b] == IF n = 0 THEN 1 ELSE (a * times[n - 1]) % Wrap
    IN  times[b]

\* The loops and the borrowed modular arithmetic of the opcodes compute what
\* the opcodes are for, with every intermediate result a word: sums and
\* products modulo m, powers, division that truncates with a remainder of the
\* dividend's sign, the sign of the low b + 1 bytes, shifts and bytes.  A SAR
\* by WordBits or more is left out: it gives 0 for negative numbers, too.
ArithmeticLaws ==
    \A a, b \in Word :
        /\ \A m \in Word \ {0} :
              opcode_addmod(a, b, m) = (a + b) % m /\ opcode_mulmod(a, b, m) = (a * b) % m
        /\ opcode_exp(a, b) = Power(a, b)
        /\ b # 0 =>
              LET q == I(opcode_sdiv(a, b))
                  r == I(opcode_smod(a, b))
              IN  /\ U(q * I(b) + r) = a
                  /\ Abs(r) < Abs(I(b)) /\ (r = 0 \/ Sign(r) = Sign(I(a)))
                  /\ opcode_div(a, b) * b + opcode_mod(a, b) = a
        /\ b < WordBytes =>
              LET low == a % Base ^ (b + 1)
              IN  I(opcode_signextend(b, a)) =
                      IF 2 * low < Base ^ (b + 1) THEN low ELSE low - Base ^ (b + 1)
        /\ opcode_and(a, b) + opcode_or(a, b) = a + b
        /\ opcode_or(a, b) - opcode_and(a, b) = opcode_xor(a, b)
        /\ opcode_slt(a, b) + opcode_sgt(a, b) + opcode_eq(a, b) = 1
        /\ opcode_slt(a, b) = opcode_lt(U(a + Wrap \div 2), U(b + Wrap \div 2))
        /\ b < WordBits =>
              opcode_sar(b, a) = IF I(a) >= 0 THEN opcode_shr(b, a)
                                 ELSE opcode_not(opcode_shr(b, opcode_not(a)))

Arrays == {[k \in 1..WordBytes |-> 0], [k \in 1..WordBytes |-> k % Base],
           [k \in 1..WordBytes |-> Base - 1]}
Stacks == [top : 0..STACK_ELEMENTS - 1, slots : [0..STACK_ELEMENTS - 1 -> Arrays]]

Does2(r, s, contents) ==
    IF r.how = "ok" THEN serialize(r.stack) = contents ELSE serialize(r.stack) = serialize(s)

\* The stack in its allocation is a sequence of at most STACK_ELEMENTS - 1
\* words: pushes, DUP and SWAP change its end only, one that fails changes
\* nothing although it has written a slot, what was popped is never seen
\* again, not even after the machine was written to an account and read
\* back, and narrow values come back as they were pushed.
StackLaws ==
    \A s \in Stacks :
        LET c == serialize(s)
            room == Len(c) < STACK_ELEMENTS - 1 IN
        /\ \A v \in Arrays : (push_array(s, v).how = "ok") = room /\ Does2(push_array(s, v), s, Append(c, v))
        /\ \A n \in 1..STACK_ELEMENTS :
              /\ (dup_1_16(s, n).how = "ok") = (room /\ n <= Len(c))
              /\ n <= Len(c) => Does2(dup_1_16(s, n), s, Append(c, c[Len(c) - n + 1]))
              /\ (swap_1_16(s, n).how = "ok") = (n < Len(c))
              /\ n < Len(c) => Does2(swap_1_16(s, n), s,
                    [c EXCEPT ![Len(c)] = c[Len(c) - n], ![Len(c) - n] = c[Len(c)]])
        /\ \A v \in Arrays : serialize(deserialize(c, v)) = c
        /\ room =>
              /\ \A n \in 0..Base ^ UsizeBytes - 1 : pop_u256(push_usize(s, n).stack) = n
              /\ \A x \in Word :
                    /\ pop_u256(push_u256(s, x).stack) = x
                    /\ from_be_bytes(pop_address(push_u256(s, x).stack)) = x % Base ^ AddressBytes

\* CALLDATALOAD reads zeros past the call data, also where index + 32 wraps.
CalldataLaws ==
    \A n \in 0..WordBytes + 1, index \in 0..Base ^ UsizeBytes - 1 :
        opcode_calldataload([k \in 1..n |-> k % Base], index) =
            [k \in 1..WordBytes |-> IF index + k <= n THEN (index + k) % Base ELSE 0]
=============================================================================
