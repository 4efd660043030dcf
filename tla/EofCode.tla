------------------------------ MODULE EofCode ------------------------------
(***************************************************************************)
(* An EOF container from its bytes to its execution: unmarshal_binary      *)
(* takes the sections apart, validate_container walks every code section   *)
(* twice (instruction by instruction, then along the control flow), and    *)
(* the machine runs what was accepted.  Of the operand stack the model     *)
(* keeps the height, so what the code computes, and with it the branch a   *)
(* jump takes, is arbitrary.  Positions count from 0, as in the code.      *)
(***************************************************************************)
EXTENDS OpcodeTable, Sequences, SequencesExt, FiniteSetsExt

CONSTANTS
    STACK_ELEMENTS,  \* STACK_SIZE / ELEMENT_SIZE of the machine's stack, 128
    U8, U16,         \* 2^8 and 2^16, where lengths of jump tables and sizes wrap
    MAX_INPUT_ITEMS, \* of a function, 127
    MAX_OUTPUT_ITEMS,
    Binaries,        \* the containers that are deployed
    MaxReturns       \* bound: contexts on the return stack

ASSUME EofCodeAssumption ==
    /\ STACK_ELEMENTS \in Nat \ {0} /\ U8 \in Nat \ {0} /\ U16 \in Nat \ {0} /\ MaxReturns \in Nat
    /\ MAX_INPUT_ITEMS \in 0..STACK_LIMIT /\ MAX_OUTPUT_ITEMS \in Nat

UNVISITED == -1

VARIABLES
    phase,        \* "bytes", "scan", "flow", "valid", "rejected", "panic",
                  \* "run" or "ended"
    binary,       \* the container
    section, i, instruction_count, opcode,                          \* validate_code
    heights, worklist, pos, height, max_stack_height, height_update, \* validate_control_flow
    is_eof, code_section, pc, stack, return_stack,                  \* Machine
    status,       \* how the machine ended
    astray        \* a jump went where the validator did not look

scanning == <<section, i, instruction_count, opcode>>
flow == <<heights, worklist, pos, height, max_stack_height, height_update>>
machine == <<is_eof, code_section, pc, stack, return_stack, status, astray>>
vars == <<phase, binary, scanning, flow, machine>>

types == binary.types
code == binary.code

-----------------------------------------------------------------------------
(* Buffer *)

get_or_default(c, n) == IF n \in 0..Len(c) - 1 THEN c[n + 1] ELSE 0

get_u16_or_default(c, n) ==
    IF Len(c) < n + 2 THEN 0 ELSE 256 * c[n + 1] + c[n + 2]

get_i16_or_default(c, n) ==
    LET u == get_u16_or_default(c, n) IN IF u < 32768 THEN u ELSE u - 65536

-----------------------------------------------------------------------------
(* Container::unmarshal_binary.  A binary is a header (len is the length   *)
(* of all its bytes) with the contents its sizes announce.                 *)

CodeSize(b, k) == FoldLeft(+, 0, SubSeq(b.code_sizes, 1, k))

offset_data_kind(b) == 6 + 2 + 2 * Len(b.code_sizes) + 1
Contents(b) == offset_data_kind(b) + 4

\* The sizes as the header means them
DeclaredSize(b) ==
    Contents(b) + b.type_size + CodeSize(b, Len(b.code_sizes)) + b.data_size

expected_size_without_data(b) == (DeclaredSize(b) - b.data_size) % U16

\* The same sum in u16
expected_size(b) == DeclaredSize(b) % U16

\* The sections of a binary are bytes; they are the announced ones unless
\* the header is wrong about them.
ASSUME BinaryAssumption ==
    \A b \in Binaries :
        /\ b.types \in Seq([input : 0..255, output : 0..255, max_stack_height : Nat])
        /\ b.code \in Seq(Seq(0..255))
        /\ Len(b.types) = Len(b.code) /\ b.code # <<>>
        /\ b.code_sizes \in Seq(0..U16 - 1)
        /\ b.len \in Nat /\ b.type_size \in 0..U16 - 1 /\ b.data_size \in 0..U16 - 1
        /\ b.len = DeclaredSize(b) => b.code_sizes = [k \in DOMAIN b.code |-> Len(b.code[k])]

HeaderAccepted(b) ==
    /\ b.magic /\ b.len >= 14 /\ b.version = 1
    /\ b.kinds = <<1, 2, 3>>
    /\ b.type_size >= 4 /\ b.type_size % 4 = 0 /\ b.type_size \div 4 <= 1024
    /\ Len(b.code_sizes) = b.type_size \div 4
    /\ b.len > offset_data_kind(b) + 3
    /\ b.terminator = 0
    /\ b.len = expected_size(b)

assert_valid(t) ==
    /\ t.input <= MAX_INPUT_ITEMS /\ t.output <= MAX_OUTPUT_ITEMS
    /\ t.max_stack_height <= STACK_LIMIT - 1

\* An index past the bytes panics; errors in front of it come first
UnmarshalError(b) ==
    LET fits(end) == end <= b.len
        codeEnd(k) == Contents(b) + b.type_size + CodeSize(b, k) IN
    \/ ~HeaderAccepted(b)
    \/ \E k \in DOMAIN b.code_sizes :
          fits(Contents(b) + 4 * k) /\ ~assert_valid(b.types[k])
    \/ /\ fits(Contents(b) + b.type_size)
       /\ \/ b.types[1].input # 0 \/ b.types[1].output # 0
          \/ \E k \in DOMAIN b.code_sizes :
                b.code_sizes[k] = 0 /\ \A j \in 1..k - 1 : fits(codeEnd(j))

Unmarshal ==
    /\ phase = "bytes"
    /\ phase' = IF UnmarshalError(binary) THEN "rejected"
                ELSE IF binary.len < DeclaredSize(binary) THEN "panic"
                ELSE "scan"
    /\ UNCHANGED <<binary, scanning, flow, machine>>

-----------------------------------------------------------------------------
(* Container::validate_code: every instruction in turn *)

\* The bytes of the immediate of the instruction at n
Immediate(c, n) ==
    LET op == get_or_default(c, n) IN
    IF op \in PUSH1..PUSH32 THEN op - PUSH0
    ELSE IF op \in {RJUMP, RJUMPI, CALLF} THEN 2
    ELSE IF op = RJUMPV THEN 1 + 2 * get_or_default(c, n + 1)
    ELSE 0

\* Bitvec::eof_code_bitmap: the positions it leaves unmarked, which begin
\* instructions; the length of a jump table is computed in a byte
Marked(c, n) ==
    IF get_or_default(c, n) = RJUMPV THEN Immediate(c, n) % U8 ELSE Immediate(c, n)

eof_code_bitmap(c) ==
    LET from[n \in Nat] ==
            IF n >= Len(c) THEN {} ELSE {n} \cup from[n + 1 + Marked(c, n)]
    IN  from[0]

\* The end of a jump table whose length wraps is taken for code
LongTable(c) == \E n \in eof_code_bitmap(c) : Marked(c, n) # Immediate(c, n)

\* The destinations of the relative jump at n, in the order of the immediate
Destinations(c, n) ==
    LET count == get_or_default(c, n + 1) IN
    IF get_or_default(c, n) \in {RJUMP, RJUMPI}
    THEN <<n + 3 + get_i16_or_default(c, n + 1)>>
    ELSE IF get_or_default(c, n) = RJUMPV
    THEN [j \in 1..count |-> n + 2 + 2 * count + get_i16_or_default(c, n + 2 * j)]
    ELSE <<>>

check_dest_sign(c, n) ==
    \A d \in ToSet(Destinations(c, n)) : d >= 0

check_dest(c, n) ==
    \A d \in ToSet(Destinations(c, n)) : d \in eof_code_bitmap(c)

InstructionValid(c, n) ==
    LET op == get_or_default(c, n) IN
    /\ is_opcode_valid(op) \/ op \notin DEPRECATED_OPCODES
    /\ n + Immediate(c, n) < Len(c)
    /\ op = RJUMPV => get_or_default(c, n + 1) > 0
    /\ check_dest(c, n)
    /\ op = CALLF => get_u16_or_default(c, n + 1) < Len(types)

ScanInstruction ==
    LET c == code[section]
        op == get_or_default(c, i) IN
    /\ phase = "scan" /\ i < Len(c)
    /\ phase' = IF InstructionValid(c, i) THEN "scan" ELSE "rejected"
    /\ opcode' = op
    \* the count of branches of a jump table replaces the count so far
    /\ instruction_count' = IF op = RJUMPV THEN get_or_default(c, i + 1)
                            ELSE instruction_count + 1
    /\ i' = i + 1 + Immediate(c, i)
    /\ UNCHANGED <<section, binary, flow, machine>>

ScanEnd ==
    LET c == code[section] IN
    /\ phase = "scan" /\ i >= Len(c)
    /\ phase' = IF is_terminal_opcode(opcode) THEN "flow" ELSE "rejected"
    /\ heights' = [heights EXCEPT ![section] = [n \in 0..Len(c) - 1 |-> UNVISITED]]
    /\ worklist' = <<[pos |-> 0, height |-> types[section].input]>>
    /\ pos' = Len(c) /\ height' = 0
    /\ max_stack_height' = types[section].input
    /\ height_update' = 0
    /\ UNCHANGED <<scanning, binary, machine>>

-----------------------------------------------------------------------------
(* Container::validate_control_flow: every path in turn *)

Current == code[section]
Op == get_or_default(Current, pos)
Callee == types[get_u16_or_default(Current, pos + 1) + 1]

\* A path ends past the code; a negative position wraps to one far past it
InCode == pos \in 0..Len(Current) - 1

\* The height the table gives the instruction at pos
Height == height + STACK_LIMIT - OPCODE_INFO[Op].max_stack

StackAcceptedAbove == height <= OPCODE_INFO[Op].max_stack

StackAccepted ==
    /\ OPCODE_INFO[Op].min_stack <= height
    /\ height <= OPCODE_INFO[Op].max_stack

FlowAccepted ==
    /\ is_opcode_valid(Op)
    /\ StackAccepted
    /\ Op = CALLF =>
          /\ get_u16_or_default(Current, pos + 1) < Len(types)
          /\ Callee.input <= Height /\ Callee.output + Height <= STACK_LIMIT
    /\ Op = RETF => types[section].output = Height

Ends(op) == is_terminal_opcode(op) /\ op # RJUMP

\* Where the walk goes on after an instruction
After ==
    IF Ends(Op) THEN Len(Current)
    ELSE IF Op = RJUMP THEN Destinations(Current, pos)[1]
    ELSE pos + 1 + Immediate(Current, pos)

\* The next path; a path that ended has its position past the code
NextPath ==
    /\ phase = "flow" /\ ~InCode /\ worklist # <<>>
    /\ pos' = Last(worklist).pos
    /\ height' = Last(worklist).height
    /\ worklist' = Front(worklist)
    /\ UNCHANGED <<phase, binary, scanning, heights, max_stack_height, height_update, machine>>

RevisitAnyHeight ==
    /\ phase = "flow" /\ InCode /\ heights[section][pos] # UNVISITED
    /\ pos' = Len(Current)
    /\ UNCHANGED <<phase, binary, scanning, heights, worklist, height, max_stack_height, height_update, machine>>

RevisitAgain ==
    /\ phase = "flow" /\ InCode /\ heights[section][pos] # UNVISITED
    /\ pos' = After
    /\ UNCHANGED <<phase, binary, scanning, heights, worklist, height, max_stack_height, height_update, machine>>

\* A position seen before ends the path, if the heights agree
Revisit ==
    /\ phase = "flow" /\ InCode /\ heights[section][pos] # UNVISITED
    /\ phase' = IF heights[section][pos] = height THEN "flow" ELSE "rejected"
    /\ pos' = Len(Current)
    /\ UNCHANGED <<binary, scanning, heights, worklist, height, max_stack_height, height_update, machine>>

Visit ==
    LET after == IF Op = CALLF THEN Height - Callee.input + Callee.output ELSE Height
        more == IF Op \in {RJUMPI, RJUMPV} THEN Destinations(Current, pos) ELSE <<>> IN
    /\ phase = "flow" /\ InCode /\ heights[section][pos] = UNVISITED
    /\ IF FlowAccepted
       THEN /\ heights' = [heights EXCEPT ![section][pos] = height]
            /\ height_update' = height_update + 1
            /\ height' = after
            /\ worklist' = worklist \o [k \in DOMAIN more |-> [pos |-> more[k], height |-> after]]
            /\ pos' = After
            /\ max_stack_height' = IF Ends(Op) THEN max_stack_height
                                   ELSE Max({max_stack_height, after})
            /\ UNCHANGED phase
       ELSE phase' = "rejected" /\ UNCHANGED flow
    /\ UNCHANGED <<binary, scanning, machine>>

SectionAcceptedLower ==
    /\ max_stack_height >= types[section].max_stack_height
    /\ height_update = instruction_count

SectionAcceptedUnreached ==
    max_stack_height = types[section].max_stack_height

SectionAccepted ==
    /\ max_stack_height = types[section].max_stack_height
    /\ height_update = instruction_count

FlowEnd ==
    /\ phase = "flow" /\ ~InCode /\ worklist = <<>>
    /\ IF ~SectionAccepted THEN phase' = "rejected" /\ UNCHANGED scanning
       ELSE IF section = Len(code) THEN phase' = "valid" /\ UNCHANGED scanning
       ELSE /\ phase' = "scan"
            /\ section' = section + 1
            /\ i' = 0 /\ instruction_count' = 0 /\ opcode' = STOP
    /\ UNCHANGED <<binary, flow, machine>>

Validate ==
    \/ Unmarshal \/ ScanInstruction \/ ScanEnd
    \/ NextPath \/ Revisit \/ Visit \/ FlowEnd

-----------------------------------------------------------------------------
(* Machine::execute on an accepted container *)

Running == phase = "run"
Executed == code[code_section]
Handler ==
    LET op == get_or_default(Executed, pc)
    IN  IF is_eof THEN EOF_OPCODES[op] ELSE OPCODES[op]

\* The opcode table was chosen for the machine that ran first in this
\* iteration, which may be one that called this one
Begin(eof) ==
    /\ phase = "valid"
    /\ phase' = "run"
    /\ is_eof' = eof
    /\ UNCHANGED <<binary, scanning, flow, code_section, pc, stack, return_stack, status, astray>>

NextIteration ==
    /\ Running /\ ~is_eof
    /\ is_eof' = TRUE
    /\ UNCHANGED <<phase, binary, scanning, flow, code_section, pc, stack, return_stack, status, astray>>

Ended(how) ==
    /\ phase' = "ended" /\ status' = how
    /\ UNCHANGED <<binary, scanning, flow, is_eof, code_section, pc, stack, return_stack, astray>>

PushTruncated ==
    /\ Handler.does = "push"
    /\ Len(Executed) <= pc + 1 + Immediate(Executed, pc)

\* What the handler fails with before it has had any effect
Failure ==
    IF Handler.does \in {"unknown", "error"} THEN Handler.does
    ELSE IF stack < Handler.pops THEN "underflow"
    ELSE IF PushTruncated THEN "bounds"
    ELSE IF stack - Handler.pops + Handler.pushes >= STACK_ELEMENTS THEN "overflow"
    ELSE "none"

Fail == Running /\ Failure # "none" /\ Ended(Failure)

\* An operand may be out of range, or the code not allowed to do this
OperandError == Running /\ Failure = "none" /\ Handler.pops > 0 /\ Ended("error")

Halt == Running /\ Failure = "none" /\ Handler.does = "halt" /\ Ended("halt")

Goes(does) == Running /\ Failure = "none" /\ Handler.does = does

Moved(target, eof, lost) ==
    /\ pc' = target
    /\ stack' = stack - Handler.pops + Handler.pushes
    /\ is_eof' = eof
    /\ astray' = (astray \/ lost)
    /\ UNCHANGED <<phase, binary, scanning, flow, code_section, return_stack, status>>

Continue == Goes("next") /\ Moved(pc + 1, is_eof, FALSE)
Push == Goes("push") /\ Moved(pc + 1 + Immediate(Executed, pc), is_eof, FALSE)

\* The callee may leave the opcode table of a later iteration behind
CallOut(eof) == Goes("call") /\ Moved(pc + 1, eof, FALSE)

\* opcode_jump and opcode_jumpi look for JUMPDEST in the container's bytes
\* and then jump in the code section
Jump(target) == Goes("jump") /\ Moved(target, is_eof, TRUE)
Jumpi(target) == Goes("jumpi") /\ Moved(target, is_eof, target # pc + 1)

\* opcode_rjump and opcode_rjumpi
Rjump == Goes("rjump") /\ Moved(Destinations(Executed, pc)[1], is_eof, FALSE)
Rjumpi(taken) ==
    /\ Goes("rjumpi")
    /\ Moved(IF taken THEN Destinations(Executed, pc)[1] ELSE pc + 3, is_eof, FALSE)

\* opcode_rjumpv reads the offset one byte after its place in the table
Rjumpv(idx) ==
    LET count == get_or_default(Executed, pc + 1)
        past == pc + 2 + 2 * count
        target == IF idx > count THEN past
                  ELSE past + get_i16_or_default(Executed, pc + 1 + 2 + 2 * idx)
        meant == IF idx >= count THEN past ELSE Destinations(Executed, pc)[idx + 1]
    IN  Goes("rjumpv") /\ Moved(target, is_eof, target # meant)

CallfOverflows ==
    stack + types[get_u16_or_default(Executed, pc + 1) + 1].max_stack_height >= STACK_LIMIT

\* The panic is the program's: the index of a section is not checked again
Callf ==
    LET idx == get_u16_or_default(Executed, pc + 1) + 1 IN
    /\ Goes("callf")
    /\ IF idx > Len(types) THEN Ended("panic")
       ELSE IF CallfOverflows THEN Ended("overflow")
       ELSE /\ Len(return_stack) < MaxReturns
            /\ return_stack' = Append(return_stack,
                   [section |-> code_section, pc |-> pc + 3,
                    stack_height |-> stack - types[idx].input])
            /\ code_section' = idx /\ pc' = 0
            /\ UNCHANGED <<phase, binary, scanning, flow, is_eof, stack, status, astray>>

\* Returning from the first section ends the machine
Retf ==
    /\ Goes("retf")
    /\ IF Len(return_stack) = 1 THEN Ended("halt")
       ELSE /\ return_stack' = Front(return_stack)
            /\ code_section' = Last(return_stack).section
            /\ pc' = Last(return_stack).pc
            /\ UNCHANGED <<phase, binary, scanning, flow, is_eof, stack, status, astray>>

Execute ==
    \/ \E eof \in BOOLEAN : Begin(eof) \/ CallOut(eof)
    \/ NextIteration \/ Fail \/ OperandError \/ Halt \/ Continue \/ Push
    \/ Running /\ \E target \in 0..Len(Executed) : Jump(target) \/ Jumpi(target)
    \/ Rjump \/ (\E taken \in BOOLEAN : Rjumpi(taken))
    \/ Running /\ \E idx \in 0..get_or_default(Executed, pc + 1) + 1 : Rjumpv(idx)
    \/ Callf \/ Retf

-----------------------------------------------------------------------------
Init ==
    /\ phase = "bytes"
    /\ binary \in Binaries
    /\ section = 1 /\ i = 0 /\ instruction_count = 0 /\ opcode = STOP
    /\ heights = [s \in DOMAIN code |-> <<>>]
    /\ worklist = <<>> /\ pos = 0 /\ height = 0
    /\ max_stack_height = 0 /\ height_update = 0
    /\ is_eof = TRUE /\ code_section = 1 /\ pc = 0 /\ stack = 0
    /\ return_stack = <<[section |-> 1, pc |-> 0, stack_height |-> 0]>>
    /\ status = "none" /\ astray = FALSE

Next == Validate \/ Execute

Spec == Init /\ [][Next]_vars

\* validate_container is one call of a sequential program
FairSpec == Spec /\ WF_vars(Validate)

-----------------------------------------------------------------------------
(* Properties *)

\* Where the bitmap takes a jump table for code, a jump into it is accepted.
LongTables == \E s \in DOMAIN code : LongTable(code[s])

\* The validator's indices stay in the code, its heights and the machine's
\* stack within their limits; only the machine's pc may run away, and the walk
\* through a section with a table the bitmap is wrong about.
TypeOK ==
    /\ phase \in {"bytes", "scan", "flow", "valid", "rejected", "panic", "run", "ended"}
    /\ section \in DOMAIN code /\ i \in Nat /\ instruction_count \in Nat /\ opcode \in 0..255
    /\ \A s \in DOMAIN code : \A n \in DOMAIN heights[s] : heights[s][n] \in UNVISITED..STACK_LIMIT
    /\ pos \in Int /\ height \in 0..STACK_LIMIT
    /\ phase = "flow" /\ ~LongTable(Current) => pos \in 0..Len(Current)
    /\ \A w \in ToSet(worklist) : w.pos \in Int /\ w.height \in 0..STACK_LIMIT
    /\ worklist # <<>> /\ ~LongTable(Current) =>
          \A w \in ToSet(worklist) : w.pos \in DOMAIN heights[section]
    /\ max_stack_height \in 0..STACK_LIMIT /\ height_update \in Nat
    /\ is_eof \in BOOLEAN /\ astray \in BOOLEAN
    /\ code_section \in DOMAIN code /\ pc \in Int /\ stack \in 0..STACK_ELEMENTS - 1
    /\ \A r \in ToSet(return_stack) : r.section \in DOMAIN code /\ r.pc \in Nat /\ r.stack_height \in Int

Accepted == phase \in {"valid", "run", "ended"}

\* Code that left the paths the validator walks, through RJUMPV's table or
\* through JUMP in an iteration with the legacy opcode table, and code the
\* bitmap is wrong about.
Lost == astray \/ LongTables

\* Wherever accepted code gets, it is at an instruction the validator
\* visited, and the words the function has on the stack are as many as the
\* validator found there: jumps, calls between sections and returns all
\* agree with validate_control_flow.
ValidatedHeight ==
    Running /\ ~Lost =>
        /\ pc \in DOMAIN heights[code_section]
        /\ heights[code_section][pc] # UNVISITED
        /\ heights[code_section][pc] = stack - Last(return_stack).stack_height

\* Accepted code never finds the stack empty, never has an immediate cut off,
\* never calls a section that is not there and, under the EOF opcode table,
\* never meets an opcode without a handler.
NoFault ==
    phase = "ended" /\ ~Lost =>
        status \notin {"underflow", "bounds", "panic"} /\ (is_eof => status # "unknown")

\* A function uses no more words than its type section announces; CALLF
\* relies on it to keep the stack below STACK_LIMIT.
WithinDeclared ==
    Running /\ ~Lost =>
        stack - Last(return_stack).stack_height <= types[code_section].max_stack_height

\* In an accepted section without a jump table (whose count of branches
\* replaces the count of instructions) every instruction is reachable.
AllReachable ==
    Accepted => \A s \in DOMAIN code :
        \/ RJUMPV \in {get_or_default(code[s], n) : n \in eof_code_bitmap(code[s])}
        \/ \A n \in eof_code_bitmap(code[s]) : heights[s][n] # UNVISITED

\* unmarshal_binary indexes past the bytes only if the sizes in the header
\* exceed 16 bits together.
SlicesInBounds == phase = "panic" => DeclaredSize(binary) >= U16

\* Validation ends, whatever the code jumps to.
ValidationEnds == phase = "bytes" ~> Accepted \/ phase \in {"rejected", "panic"}
=============================================================================
