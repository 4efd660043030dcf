---------------------------- MODULE OpcodeTable ----------------------------
(***************************************************************************)
(* The two descriptions the program has of an opcode: what the validator   *)
(* of EOF code takes it to do to the stack (OPCODE_INFO), and what the     *)
(* handler the machine dispatches it to does (OPCODES, EOF_OPCODES and the *)
(* handlers of opcode.rs).  Opcodes are their bytes.                       *)
(***************************************************************************)
EXTENDS Integers

CONSTANT STACK_LIMIT   \* 1024

ASSUME StackLimitAssumption == STACK_LIMIT \in Nat /\ STACK_LIMIT > 17

STOP == 0
JUMP == 86
JUMPI == 87
PC == 88
RJUMP == 92
RJUMPI == 93
RJUMPV == 94
PUSH0 == 95
PUSH1 == 96
PUSH32 == 127
CALLF == 176
RETF == 177
CALLCODE == 242
RETURN == 243
REVERT == 253
INVALID == 254
SELFDESTRUCT == 255

DEPRECATED_OPCODES == {CALLCODE, SELFDESTRUCT, JUMP, JUMPI, PC}

-----------------------------------------------------------------------------
(* Tables are put together out of parts, the first that knows an opcode    *)
(* deciding                                                                *)

f ++ g == [o \in DOMAIN f \cup DOMAIN g |-> IF o \in DOMAIN f THEN f[o] ELSE g[o]]

-----------------------------------------------------------------------------
(* OpcodeInfo *)

max_stack(pop, push) == STACK_LIMIT + pop - push

Info(pop, push, terminal) ==
    [min_stack |-> pop, max_stack |-> max_stack(pop, push), terminal |-> terminal]

Plain(ops, pop, push) == [o \in ops |-> Info(pop, push, FALSE)]
Terminal(ops, pop) == [o \in ops |-> Info(pop, 0, TRUE)]

\* ADD..SIGNEXTEND, LT..SAR, KECCAK256
ComputingInfo ==
    Plain({8, 9}, 3, 1) ++ Plain({21, 25}, 1, 1)
    ++ Plain((1..11) \cup (16..29) \cup {32}, 2, 1)

\* ADDRESS..EXTCODEHASH, BLOCKHASH..BASEFEE
EnvironmentInfo ==
    Plain({49, 53, 59, 63, 64}, 1, 1) ++ Plain({55, 57, 62}, 3, 0)
    ++ Plain({60}, 4, 0) ++ Plain(48..72, 0, 1)

\* POP..JUMPDEST
MemoryInfo ==
    Plain({80, JUMP}, 1, 0) ++ Plain({81, 84}, 1, 1)
    ++ Plain({82, 83, 85, JUMPI}, 2, 0) ++ Plain({PC, 89, 90}, 0, 1)
    ++ Plain({91}, 0, 0)

push_info == Plain(PUSH0..PUSH32, 0, 1)

create_dup_opcode_info(n) == Info(n, n + 1, FALSE)
create_swap_opcode_info(n) == Info(n, n, FALSE)
create_log_opcode_info(n) == Info(n, 0, FALSE)

\* DUP1..DUP16, SWAP1..SWAP16, LOG0..LOG4
StackInfo ==
    [o \in 128..143 |-> create_dup_opcode_info(o - 127)]
    ++ [o \in 144..159 |-> create_swap_opcode_info(o - 142)]
    ++ [o \in 160..164 |-> create_log_opcode_info(o - 158)]

\* STOP, CREATE..SELFDESTRUCT
SystemInfo ==
    Plain({240}, 3, 1) ++ Plain({241, CALLCODE}, 7, 1)
    ++ Plain({244, 250}, 6, 1) ++ Plain({245}, 4, 1) ++ Plain({SELFDESTRUCT}, 1, 0)
    ++ Terminal({RETURN, REVERT}, 2) ++ Terminal({STOP, INVALID}, 0)

EofInfo ==
    Terminal({RJUMP, RETF}, 0) ++ Plain({RJUMPI, RJUMPV}, 1, 0)
    ++ Plain({CALLF}, 0, 0)

OPCODE_INFO ==
    ComputingInfo ++ EnvironmentInfo ++ MemoryInfo ++ push_info ++ StackInfo
    ++ SystemInfo ++ EofInfo

is_opcode_valid(op) == op \in DOMAIN OPCODE_INFO
is_terminal_opcode(op) == is_opcode_valid(op) /\ OPCODE_INFO[op].terminal

-----------------------------------------------------------------------------
(* The handlers: how many words one pops and pushes, and what it does then *)

Does(ops, what, pops, pushes) ==
    [o \in ops |-> [does |-> what, pops |-> pops, pushes |-> pushes]]
Next1(ops, pops, pushes) == Does(ops, "next", pops, pushes)

\* opcode_add..opcode_signextend
ArithmeticHandlers == Next1({8, 9}, 3, 1) ++ Next1(1..11, 2, 1)

\* opcode_lt..opcode_sar, opcode_sha3
BitwiseHandlers == Next1({21, 25}, 1, 1) ++ Next1((16..29) \cup {32}, 2, 1)

\* opcode_address..opcode_extcodehash
AccountHandlers ==
    Next1({48, 50, 51, 52, 54, 56, 58, 61}, 0, 1)
    ++ Next1({49, 53, 59, 63}, 1, 1)
    ++ Next1({55, 57, 62}, 3, 0) ++ Next1({60}, 4, 0)

\* opcode_blockhash..opcode_basefee
BlockHandlers == Next1({64}, 1, 1) ++ Next1(65..72, 0, 1)

\* opcode_pop..opcode_jumpdest
MemoryHandlers ==
    Next1({80}, 1, 0) ++ Next1({81, 84}, 1, 1) ++ Next1({82, 83, 85}, 2, 0)
    ++ Does({JUMP}, "jump", 1, 0) ++ Does({JUMPI}, "jumpi", 2, 0)
    ++ Next1({PC, 89, 90}, 0, 1) ++ Next1({91}, 0, 0)

\* opcode_push_0, opcode_push_1, opcode_push_2_31, opcode_push_32
PushHandlers == Next1({PUSH0}, 0, 1) ++ Does(PUSH1..PUSH32, "push", 0, 1)

\* dup_1_16 and swap_1_16 need the words they reach, opcode_log_0_4 pops its topics
StackHandlers ==
    [o \in 128..143 |-> [does |-> "next", pops |-> o - 127, pushes |-> o - 126]]
    ++ [o \in 144..159 |-> [does |-> "next", pops |-> o - 142, pushes |-> o - 142]]
    ++ [o \in 160..164 |-> [does |-> "next", pops |-> o - 158, pushes |-> 0]]

\* opcode_create, opcode_call, ...: the word is pushed when the callee's
\* machine is joined
CreateHandlers == Does({240}, "call", 3, 1) ++ Does({245}, "call", 4, 1)
CallHandlers ==
    Does({241, CALLCODE}, "call", 7, 1) ++ Does({244, 250}, "call", 6, 1)

\* opcode_stop, opcode_return, opcode_revert, opcode_selfdestruct, opcode_invalid
HaltHandlers ==
    Does({STOP}, "halt", 0, 0) ++ Does({RETURN, REVERT}, "halt", 2, 0)
    ++ Does({SELFDESTRUCT}, "halt", 1, 0) ++ Does({INVALID}, "error", 0, 0)

LegacyHandlers ==
    ArithmeticHandlers ++ BitwiseHandlers ++ AccountHandlers ++ BlockHandlers
    ++ MemoryHandlers ++ PushHandlers ++ StackHandlers ++ CreateHandlers
    ++ CallHandlers ++ HaltHandlers

EofHandlers ==
    Does({RJUMP}, "rjump", 0, 0) ++ Does({RJUMPI}, "rjumpi", 1, 0)
    ++ Does({RJUMPV}, "rjumpv", 1, 0) ++ Does({CALLF}, "callf", 0, 0)
    ++ Does({RETF}, "retf", 0, 0)

\* opcode_table!: every other byte is opcode_unknown
OPCODES ==
    [o \in 0..255 |-> IF o \in DOMAIN LegacyHandlers THEN LegacyHandlers[o]
                      ELSE [does |-> "unknown", pops |-> 0, pushes |-> 0]]

\* eof_opcode_table!: opcode_deprecated fails before it pops anything
EOF_OPCODES ==
    EofHandlers ++ Does(DEPRECATED_OPCODES, "error", 0, 0) ++ OPCODES
=============================================================================
