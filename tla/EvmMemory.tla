----------------------------- MODULE EvmMemory -----------------------------
(***************************************************************************)
(* What EvmFrame promises a contract.  The memory of a frame is an array   *)
(* of zeros as long as the limit allows, of which size bytes are in use;   *)
(* there is no allocation, no image and no iteration.  An operation names  *)
(* its operands as EvmFrame does.                                          *)
(***************************************************************************)
EXTENDS Integers, Sequences, SequencesExt, FiniteSetsExt

CONSTANTS ELEMENT_SIZE, MAX_MEMORY_SIZE, USIZE, Code, CallData, Message

VARIABLES
    flat,    \* the frames
    ending   \* "running", "ended" or "failed"

Fresh(reason, code, input) ==
    [reason |-> reason, code |-> code, input |-> input, output |-> <<>>,
     to |-> 0, toLength |-> 0, size |-> 0,
     bytes |-> [n \in 0..MAX_MEMORY_SIZE - 1 |-> 0]]

Init ==
    /\ flat = <<Fresh("call", Code, CallData)>>
    /\ ending = "running"

f == Last(flat)
Replaced(fs, g) == Append(Front(fs), g)

\* What an operation makes of the frames; it always makes something.
Result(fs, how) == [frames |-> fs, ending |-> how]
Kept(fs) == Result(fs, "running")
Step(result) == flat' = result.frames /\ ending' = result.ending

Fits(offset, length) == length = 0 \/ offset + length <= MAX_MEMORY_SIZE
Word(n) == ELEMENT_SIZE * ((n + ELEMENT_SIZE - 1) \div ELEMENT_SIZE)
Used(g, offset, length) ==
    [g EXCEPT !.size = IF length = 0 THEN @ ELSE Max({@, Word(offset + length)})]
Put(g, offset, v) ==
    [Used(g, offset, Len(v)) EXCEPT !.bytes =
        [n \in DOMAIN @ |-> IF n - offset + 1 \in DOMAIN v THEN v[n - offset + 1] ELSE @[n]]]
Get(g, offset, length) == [k \in 1..length |-> g.bytes[offset + k - 1]]

\* length bytes of v, zeros where it has none
Padded(v, from, length) ==
    [k \in 1..length |-> IF from + k \in DOMAIN v THEN v[from + k] ELSE 0]

\* The callee is gone; its caller finds the output in the range it gave.  A
\* range that ends past the last usize is taken as empty.
Into(g, output) ==
    LET length == IF g.to + g.toLength >= USIZE THEN 0 ELSE g.toLength
    IN  [fits |-> Fits(g.to, length), frame |-> Put(g, g.to, Padded(output, 0, length))]

Reverted(fs, output) ==
    LET caller == Last(Front(fs))
        into == Into(caller, output) IN
    IF Len(fs) = 1 THEN Result(fs, "ended")
    ELSE IF Last(fs).reason = "create"
         THEN Kept(Replaced(Front(fs), [caller EXCEPT !.output = output]))
    ELSE IF into.fits THEN Kept(Replaced(Front(fs), [into.frame EXCEPT !.output = output]))
    ELSE Result(fs, "failed")

Failed(fs) == Reverted(fs, Message)

Returned(fs, output) ==
    LET caller == Last(Front(fs))
        into == Into(caller, output) IN
    IF Len(fs) = 1 THEN Result(fs, "ended")
    ELSE IF Last(fs).reason = "create" THEN Kept(Front(fs))
    ELSE IF into.fits THEN Kept(Replaced(Front(fs), [into.frame EXCEPT !.output = output]))
    ELSE Failed(Front(fs))

OrFail(fits, result) == Step(IF fits THEN result ELSE Failed(flat))

ReadMemory(offset, length) ==
    OrFail(Fits(offset, length), Kept(Replaced(flat, Used(f, offset, length))))
Mload(offset) == ReadMemory(offset, ELEMENT_SIZE)
Stored(offset, v) ==
    IF Fits(offset, Len(v)) THEN Kept(Replaced(flat, Put(f, offset, v))) ELSE Failed(flat)
Store(offset, v) == Step(Stored(offset, v))
Mstore(offset, v) == Store(offset, v)
Mstore8(offset, v) == Store(offset, <<Last(v)>>)
Calldatacopy(offset, length, from) == Store(offset, Padded(f.input, from, length))
Codecopy(offset, length, from) == Store(offset, Padded(f.code, from, length))
Extcodecopy(offset, length, from) == Store(offset, Padded(Code, from, length))
Returndatacopy(offset, length, from) ==
    OrFail(from + length <= Len(f.output), Stored(offset, Padded(f.output, from, length)))
OtherError == Step(Failed(flat))

Entered(reason, code, input, offset, length, to, toLength) ==
    Append(Replaced(flat, [Used(f, offset, length) EXCEPT
               !.output = <<>>, !.to = to, !.toLength = toLength]),
           Fresh(reason, code, input))
Called(offset, length, to, toLength) ==
    Entered("call", Code, Get(f, offset, length), offset, length, to, toLength)
Created(offset, length) ==
    Entered("create", Get(f, offset, length), <<>>, offset, length, 0, 0)

Call(offset, length, to, toLength) ==
    OrFail(Fits(offset, length), Kept(Called(offset, length, to, toLength)))
CallRefused(offset, length, to, toLength) ==
    OrFail(Fits(offset, length), Failed(Called(offset, length, to, toLength)))
CallPrecompile(offset, length, to, toLength, output) ==
    OrFail(Fits(offset, length), Returned(Called(offset, length, to, toLength), output))
Create(offset, length) == OrFail(Fits(offset, length), Kept(Created(offset, length)))
CreateRefused(offset, length) == OrFail(Fits(offset, length), Failed(Created(offset, length)))
Return(offset, length) ==
    OrFail(Fits(offset, length), Returned(flat, Get(f, offset, length)))
Revert(offset, length) ==
    OrFail(Fits(offset, length), Reverted(flat, Get(f, offset, length)))
Stop == Step(Returned(flat, <<>>))
NextIteration == UNCHANGED <<flat, ending>>
=============================================================================
