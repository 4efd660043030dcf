---------------------------- MODULE EofCodeProofs ----------------------------
(***************************************************************************)
(* Code that validate_container accepts runs with the stack heights that   *)
(* validate_control_flow computed.  First the two opcode tables are        *)
(* compared, then the bitmap with the scan, then the walk over the control *)
(* flow and the machine are followed step by step.                         *)
(***************************************************************************)
EXTENDS EofCode, FoldLemmas, SequenceTheorems

-----------------------------------------------------------------------------
(* The tables of opcodes: what each part says of each opcode it has *)

LEMMA ComputingTable ==
    /\ DOMAIN ComputingInfo = (1..11) \cup (16..29) \cup {32}
    /\ \A op \in {8, 9} : ComputingInfo[op] = Info(3, 1, FALSE)
    /\ \A op \in {21, 25} : ComputingInfo[op] = Info(1, 1, FALSE)
    /\ \A op \in ((1..11) \cup (16..29) \cup {32}) \ {8, 9, 21, 25} :
          ComputingInfo[op] = Info(2, 1, FALSE)
BY DEF ComputingInfo, Plain, ++, Info

LEMMA EnvironmentTable ==
    /\ DOMAIN EnvironmentInfo = 48..72
    /\ \A op \in {49, 53, 59, 63, 64} : EnvironmentInfo[op] = Info(1, 1, FALSE)
    /\ \A op \in {55, 57, 62} : EnvironmentInfo[op] = Info(3, 0, FALSE)
    /\ EnvironmentInfo[60] = Info(4, 0, FALSE)
    /\ \A op \in {48, 50, 51, 52, 54, 56, 58, 61} \cup 65..72 :
          EnvironmentInfo[op] = Info(0, 1, FALSE)
<1> DEFINE a == Plain({49, 53, 59, 63, 64}, 1, 1)
           b == Plain({55, 57, 62}, 3, 0)
           c == Plain({60}, 4, 0)
           d == Plain(48..72, 0, 1)
<1>1. EnvironmentInfo = a ++ b ++ c ++ d
  BY DEF EnvironmentInfo
<1>2. /\ DOMAIN a = {49, 53, 59, 63, 64} /\ \A op \in {49, 53, 59, 63, 64} : a[op] = Info(1, 1, FALSE)
      /\ DOMAIN b = {55, 57, 62} /\ \A op \in {55, 57, 62} : b[op] = Info(3, 0, FALSE)
      /\ DOMAIN c = {60} /\ \A op \in {60} : c[op] = Info(4, 0, FALSE)
      /\ DOMAIN d = 48..72 /\ \A op \in 48..72 : d[op] = Info(0, 1, FALSE)
  BY DEF Plain
<1> HIDE DEF a, b, c, d
<1>3. DOMAIN EnvironmentInfo = (DOMAIN a) \cup (DOMAIN b) \cup (DOMAIN c) \cup (DOMAIN d)
  BY <1>1 DEF ++
<1>4. \A op \in DOMAIN EnvironmentInfo : EnvironmentInfo[op] =
            IF op \in DOMAIN a THEN a[op] ELSE IF op \in DOMAIN b THEN b[op] ELSE
            IF op \in DOMAIN c THEN c[op] ELSE d[op]
  BY <1>1 DEF ++
<1>5. DOMAIN EnvironmentInfo = 48..72
  BY <1>2, <1>3
<1>6. /\ \A op \in {49, 53, 59, 63, 64} : EnvironmentInfo[op] = a[op]
      /\ \A op \in {55, 57, 62} : EnvironmentInfo[op] = b[op]
      /\ \A op \in {60} : EnvironmentInfo[op] = c[op]
      /\ \A op \in 48..72 \ ({49, 53, 59, 63, 64} \cup {55, 57, 62} \cup {60}) :
            EnvironmentInfo[op] = d[op]
  BY <1>2, <1>3, <1>4
<1> QED BY <1>2, <1>5, <1>6 DEF Info

LEMMA MemoryTable ==
    /\ DOMAIN MemoryInfo = 80..91
    /\ \A op \in {80, JUMP} : MemoryInfo[op] = Info(1, 0, FALSE)
    /\ \A op \in {81, 84} : MemoryInfo[op] = Info(1, 1, FALSE)
    /\ \A op \in {82, 83, 85, JUMPI} : MemoryInfo[op] = Info(2, 0, FALSE)
    /\ \A op \in {PC, 89, 90} : MemoryInfo[op] = Info(0, 1, FALSE)
    /\ MemoryInfo[91] = Info(0, 0, FALSE)
<1> DEFINE a == Plain({80, JUMP}, 1, 0)
           b == Plain({81, 84}, 1, 1)
           c == Plain({82, 83, 85, JUMPI}, 2, 0)
           d == Plain({PC, 89, 90}, 0, 1)
           e == Plain({91}, 0, 0)
<1>1. MemoryInfo = a ++ b ++ c ++ d ++ e
  BY DEF MemoryInfo
<1>2. /\ DOMAIN a = {80, JUMP} /\ \A op \in {80, JUMP} : a[op] = Info(1, 0, FALSE)
      /\ DOMAIN b = {81, 84} /\ \A op \in {81, 84} : b[op] = Info(1, 1, FALSE)
      /\ DOMAIN c = {82, 83, 85, JUMPI} /\ \A op \in {82, 83, 85, JUMPI} : c[op] = Info(2, 0, FALSE)
      /\ DOMAIN d = {PC, 89, 90} /\ \A op \in {PC, 89, 90} : d[op] = Info(0, 1, FALSE)
      /\ DOMAIN e = {91} /\ \A op \in {91} : e[op] = Info(0, 0, FALSE)
  BY DEF Plain
<1> HIDE DEF a, b, c, d, e
<1>3. DOMAIN MemoryInfo = (DOMAIN a) \cup (DOMAIN b) \cup (DOMAIN c) \cup (DOMAIN d) \cup (DOMAIN e)
  BY <1>1 DEF ++
<1>4. \A op \in DOMAIN MemoryInfo : MemoryInfo[op] =
            IF op \in DOMAIN a THEN a[op] ELSE IF op \in DOMAIN b THEN b[op] ELSE
            IF op \in DOMAIN c THEN c[op] ELSE IF op \in DOMAIN d THEN d[op] ELSE e[op]
  BY <1>1 DEF ++
<1> USE DEF JUMP, JUMPI, PC
<1>5. DOMAIN MemoryInfo = 80..91
  BY <1>2, <1>3
<1>6. /\ \A op \in {80, JUMP} : MemoryInfo[op] = a[op]
      /\ \A op \in {81, 84} : MemoryInfo[op] = b[op]
      /\ \A op \in {82, 83, 85, JUMPI} : MemoryInfo[op] = c[op]
      /\ \A op \in {PC, 89, 90} : MemoryInfo[op] = d[op]
      /\ \A op \in {91} : MemoryInfo[op] = e[op]
  BY <1>2, <1>3, <1>4
<1> QED BY <1>2, <1>5, <1>6 DEF Info

LEMMA PushTable ==
    /\ DOMAIN push_info = 95..127
    /\ \A op \in 95..127 : push_info[op] = Info(0, 1, FALSE)
BY DEF push_info, Plain, PUSH0, PUSH32, Info

LEMMA StackTable ==
    /\ DOMAIN StackInfo = 128..164
    /\ \A op \in 128..143 : StackInfo[op] = Info(op - 127, op - 127 + 1, FALSE)
    /\ \A op \in 144..159 : StackInfo[op] = Info(op - 142, op - 142, FALSE)
    /\ \A op \in 160..164 : StackInfo[op] = Info(op - 158, 0, FALSE)
BY DEF StackInfo, create_dup_opcode_info, create_swap_opcode_info, create_log_opcode_info, ++

LEMMA SystemTable ==
    /\ DOMAIN SystemInfo = {0, 240, 241, 242, 243, 244, 245, 250, 253, 254, 255}
    /\ SystemInfo[240] = Info(3, 1, FALSE)
    /\ \A op \in {241, CALLCODE} : SystemInfo[op] = Info(7, 1, FALSE)
    /\ \A op \in {244, 250} : SystemInfo[op] = Info(6, 1, FALSE)
    /\ SystemInfo[245] = Info(4, 1, FALSE)
    /\ SystemInfo[SELFDESTRUCT] = Info(1, 0, FALSE)
    /\ \A op \in {RETURN, REVERT} : SystemInfo[op] = Info(2, 0, TRUE)
    /\ \A op \in {STOP, INVALID} : SystemInfo[op] = Info(0, 0, TRUE)
<1> DEFINE a == Plain({240}, 3, 1)
           b == Plain({241, CALLCODE}, 7, 1)
           c == Plain({244, 250}, 6, 1)
           d == Plain({245}, 4, 1)
           e == Plain({SELFDESTRUCT}, 1, 0)
           f == Terminal({RETURN, REVERT}, 2)
           g == Terminal({STOP, INVALID}, 0)
<1>1. SystemInfo = a ++ b ++ c ++ d ++ e ++ f ++ g
  BY DEF SystemInfo
<1>2. /\ DOMAIN a = {240} /\ \A op \in {240} : a[op] = Info(3, 1, FALSE)
      /\ DOMAIN b = {241, CALLCODE} /\ \A op \in {241, CALLCODE} : b[op] = Info(7, 1, FALSE)
      /\ DOMAIN c = {244, 250} /\ \A op \in {244, 250} : c[op] = Info(6, 1, FALSE)
      /\ DOMAIN d = {245} /\ \A op \in {245} : d[op] = Info(4, 1, FALSE)
      /\ DOMAIN e = {SELFDESTRUCT} /\ \A op \in {SELFDESTRUCT} : e[op] = Info(1, 0, FALSE)
      /\ DOMAIN f = {RETURN, REVERT} /\ \A op \in {RETURN, REVERT} : f[op] = Info(2, 0, TRUE)
      /\ DOMAIN g = {STOP, INVALID} /\ \A op \in {STOP, INVALID} : g[op] = Info(0, 0, TRUE)
  BY DEF Plain, Terminal
<1> HIDE DEF a, b, c, d, e, f, g
<1>3. DOMAIN SystemInfo = (DOMAIN a) \cup (DOMAIN b) \cup (DOMAIN c) \cup (DOMAIN d)
                          \cup (DOMAIN e) \cup (DOMAIN f) \cup (DOMAIN g)
  BY <1>1, Zenon DEF ++
<1>4. \A op \in DOMAIN SystemInfo : SystemInfo[op] =
            IF op \in DOMAIN a THEN a[op] ELSE IF op \in DOMAIN b THEN b[op] ELSE
            IF op \in DOMAIN c THEN c[op] ELSE IF op \in DOMAIN d THEN d[op] ELSE
            IF op \in DOMAIN e THEN e[op] ELSE IF op \in DOMAIN f THEN f[op] ELSE g[op]
  BY <1>1, Zenon DEF ++
<1> USE DEF CALLCODE, SELFDESTRUCT, RETURN, REVERT, STOP, INVALID
<1>5. DOMAIN SystemInfo = {0, 240, 241, 242, 243, 244, 245, 250, 253, 254, 255}
  BY <1>2, <1>3
<1>6. /\ \A op \in {240} : SystemInfo[op] = a[op]
      /\ \A op \in {241, CALLCODE} : SystemInfo[op] = b[op]
      /\ \A op \in {244, 250} : SystemInfo[op] = c[op]
      /\ \A op \in {245} : SystemInfo[op] = d[op]
      /\ \A op \in {SELFDESTRUCT} : SystemInfo[op] = e[op]
      /\ \A op \in {RETURN, REVERT} : SystemInfo[op] = f[op]
      /\ \A op \in {STOP, INVALID} : SystemInfo[op] = g[op]
  BY <1>2, <1>3, <1>4
<1> QED BY <1>2, <1>5, <1>6 DEF Info

LEMMA EofTable ==
    /\ DOMAIN EofInfo = {RJUMP, RJUMPI, RJUMPV, CALLF, RETF}
    /\ \A op \in {RJUMP, RETF} : EofInfo[op] = Info(0, 0, TRUE)
    /\ \A op \in {RJUMPI, RJUMPV} : EofInfo[op] = Info(1, 0, FALSE)
    /\ EofInfo[CALLF] = Info(0, 0, FALSE)
BY DEF EofInfo, Plain, Terminal, ++, RJUMP, RJUMPI, RJUMPV, CALLF, RETF, Info

Handles(what, pops, pushes) == [does |-> what, pops |-> pops, pushes |-> pushes]

LEMMA ArithmeticHandling ==
    /\ DOMAIN ArithmeticHandlers = 1..11
    /\ \A op \in {8, 9} : ArithmeticHandlers[op] = Handles("next", 3, 1)
    /\ \A op \in 1..7 \cup {10, 11} : ArithmeticHandlers[op] = Handles("next", 2, 1)
<1> DEFINE a == Next1({8, 9}, 3, 1)
           b == Next1(1..11, 2, 1)
<1>1. ArithmeticHandlers = a ++ b
  BY DEF ArithmeticHandlers
<1>2. /\ DOMAIN a = {8, 9} /\ \A op \in {8, 9} : a[op] = Handles("next", 3, 1)
      /\ DOMAIN b = 1..11 /\ \A op \in 1..11 : b[op] = Handles("next", 2, 1)
  BY DEF Next1, Does, Handles
<1> HIDE DEF a, b
<1>3. DOMAIN ArithmeticHandlers = (DOMAIN a) \cup (DOMAIN b)
  BY <1>1 DEF ++
<1>4. \A op \in DOMAIN ArithmeticHandlers : ArithmeticHandlers[op] =
            IF op \in DOMAIN a THEN a[op] ELSE b[op]
  BY <1>1 DEF ++
<1>5. DOMAIN ArithmeticHandlers = 1..11
  BY <1>2, <1>3
<1>6. /\ \A op \in {8, 9} : ArithmeticHandlers[op] = a[op]
      /\ \A op \in 1..11 \ ({8, 9}) : ArithmeticHandlers[op] = b[op]
  BY <1>2, <1>3, <1>4
<1> QED BY <1>2, <1>5, <1>6 DEF Handles

LEMMA BitwiseHandling ==
    /\ DOMAIN BitwiseHandlers = (16..29) \cup {32}
    /\ \A op \in {21, 25} : BitwiseHandlers[op] = Handles("next", 1, 1)
    /\ \A op \in 16..20 \cup {22, 23, 24} \cup 26..29 \cup {32} :
          BitwiseHandlers[op] = Handles("next", 2, 1)
BY SMTT(60) DEF BitwiseHandlers, Next1, Does, Handles, ++

LEMMA AccountHandling ==
    /\ DOMAIN AccountHandlers = 48..63
    /\ \A op \in {48, 50, 51, 52, 54, 56, 58, 61} : AccountHandlers[op] = Handles("next", 0, 1)
    /\ \A op \in {49, 53, 59, 63} : AccountHandlers[op] = Handles("next", 1, 1)
    /\ \A op \in {55, 57, 62} : AccountHandlers[op] = Handles("next", 3, 0)
    /\ AccountHandlers[60] = Handles("next", 4, 0)
<1> DEFINE a == Next1({48, 50, 51, 52, 54, 56, 58, 61}, 0, 1)
           b == Next1({49, 53, 59, 63}, 1, 1)
           c == Next1({55, 57, 62}, 3, 0)
           d == Next1({60}, 4, 0)
<1>1. AccountHandlers = a ++ b ++ c ++ d
  BY DEF AccountHandlers
<1>2. /\ DOMAIN a = {48, 50, 51, 52, 54, 56, 58, 61}
      /\ \A op \in {48, 50, 51, 52, 54, 56, 58, 61} : a[op] = Handles("next", 0, 1)
      /\ DOMAIN b = {49, 53, 59, 63} /\ \A op \in {49, 53, 59, 63} : b[op] = Handles("next", 1, 1)
      /\ DOMAIN c = {55, 57, 62} /\ \A op \in {55, 57, 62} : c[op] = Handles("next", 3, 0)
      /\ DOMAIN d = {60} /\ \A op \in {60} : d[op] = Handles("next", 4, 0)
  BY DEF Next1, Does, Handles
<1> HIDE DEF a, b, c, d
<1>3. DOMAIN AccountHandlers = (DOMAIN a) \cup (DOMAIN b) \cup (DOMAIN c) \cup (DOMAIN d)
  BY <1>1 DEF ++
<1>4. \A op \in DOMAIN AccountHandlers : AccountHandlers[op] =
            IF op \in DOMAIN a THEN a[op] ELSE IF op \in DOMAIN b THEN b[op] ELSE
            IF op \in DOMAIN c THEN c[op] ELSE d[op]
  BY <1>1 DEF ++
<1>5. DOMAIN AccountHandlers = 48..63
  BY <1>2, <1>3
<1>6. /\ \A op \in {48, 50, 51, 52, 54, 56, 58, 61} : AccountHandlers[op] = a[op]
      /\ \A op \in {49, 53, 59, 63} : AccountHandlers[op] = b[op]
      /\ \A op \in {55, 57, 62} : AccountHandlers[op] = c[op]
      /\ \A op \in {60} : AccountHandlers[op] = d[op]
  BY <1>2, <1>3, <1>4
<1> QED BY <1>2, <1>5, <1>6 DEF Handles

LEMMA BlockHandling ==
    /\ DOMAIN BlockHandlers = 64..72
    /\ BlockHandlers[64] = Handles("next", 1, 1)
    /\ \A op \in 65..72 : BlockHandlers[op] = Handles("next", 0, 1)
BY DEF BlockHandlers, Next1, Does, Handles, ++

LEMMA MemoryHandling ==
    /\ DOMAIN MemoryHandlers = 80..91
    /\ MemoryHandlers[80] = Handles("next", 1, 0)
    /\ \A op \in {81, 84} : MemoryHandlers[op] = Handles("next", 1, 1)
    /\ \A op \in {82, 83, 85} : MemoryHandlers[op] = Handles("next", 2, 0)
    /\ MemoryHandlers[JUMP] = Handles("jump", 1, 0)
    /\ MemoryHandlers[JUMPI] = Handles("jumpi", 2, 0)
    /\ \A op \in {PC, 89, 90} : MemoryHandlers[op] = Handles("next", 0, 1)
    /\ MemoryHandlers[91] = Handles("next", 0, 0)
<1> DEFINE a == Next1({80}, 1, 0)
           b == Next1({81, 84}, 1, 1)
           c == Next1({82, 83, 85}, 2, 0)
           d == Does({JUMP}, "jump", 1, 0)
           e == Does({JUMPI}, "jumpi", 2, 0)
           f == Next1({PC, 89, 90}, 0, 1)
           g == Next1({91}, 0, 0)
<1>1. MemoryHandlers = a ++ b ++ c ++ d ++ e ++ f ++ g
  BY DEF MemoryHandlers
<1>2. /\ DOMAIN a = {80} /\ \A op \in {80} : a[op] = Handles("next", 1, 0)
      /\ DOMAIN b = {81, 84} /\ \A op \in {81, 84} : b[op] = Handles("next", 1, 1)
      /\ DOMAIN c = {82, 83, 85} /\ \A op \in {82, 83, 85} : c[op] = Handles("next", 2, 0)
      /\ DOMAIN d = {JUMP} /\ \A op \in {JUMP} : d[op] = Handles("jump", 1, 0)
      /\ DOMAIN e = {JUMPI} /\ \A op \in {JUMPI} : e[op] = Handles("jumpi", 2, 0)
      /\ DOMAIN f = {PC, 89, 90} /\ \A op \in {PC, 89, 90} : f[op] = Handles("next", 0, 1)
      /\ DOMAIN g = {91} /\ \A op \in {91} : g[op] = Handles("next", 0, 0)
  BY DEF Next1, Does, Handles
<1> HIDE DEF a, b, c, d, e, f, g
<1>3. DOMAIN MemoryHandlers = (DOMAIN a) \cup (DOMAIN b) \cup (DOMAIN c) \cup (DOMAIN d)
                              \cup (DOMAIN e) \cup (DOMAIN f) \cup (DOMAIN g)
  BY <1>1, Zenon DEF ++
<1>4. \A op \in DOMAIN MemoryHandlers : MemoryHandlers[op] =
            IF op \in DOMAIN a THEN a[op] ELSE IF op \in DOMAIN b THEN b[op] ELSE
            IF op \in DOMAIN c THEN c[op] ELSE IF op \in DOMAIN d THEN d[op] ELSE
            IF op \in DOMAIN e THEN e[op] ELSE IF op \in DOMAIN f THEN f[op] ELSE g[op]
  BY <1>1, Zenon DEF ++
<1> USE DEF JUMP, JUMPI, PC
<1>5. DOMAIN MemoryHandlers = 80..91
  BY <1>2, <1>3
<1>6. /\ \A op \in {80} : MemoryHandlers[op] = a[op]
      /\ \A op \in {81, 84} : MemoryHandlers[op] = b[op]
      /\ \A op \in {82, 83, 85} : MemoryHandlers[op] = c[op]
      /\ \A op \in {JUMP} : MemoryHandlers[op] = d[op]
      /\ \A op \in {JUMPI} : MemoryHandlers[op] = e[op]
      /\ \A op \in {PC, 89, 90} : MemoryHandlers[op] = f[op]
      /\ \A op \in {91} : MemoryHandlers[op] = g[op]
  BY <1>2, <1>3, <1>4
<1> QED BY <1>2, <1>5, <1>6 DEF Handles

LEMMA PushHandling ==
    /\ DOMAIN PushHandlers = 95..127
    /\ PushHandlers[95] = Handles("next", 0, 1)
    /\ \A op \in 96..127 : PushHandlers[op] = Handles("push", 0, 1)
BY DEF PushHandlers, Next1, Does, Handles, ++, PUSH0, PUSH1, PUSH32

LEMMA StackHandling ==
    /\ DOMAIN StackHandlers = 128..164
    /\ \A op \in 128..143 : StackHandlers[op] = Handles("next", op - 127, op - 126)
    /\ \A op \in 144..159 : StackHandlers[op] = Handles("next", op - 142, op - 142)
    /\ \A op \in 160..164 : StackHandlers[op] = Handles("next", op - 158, 0)
BY DEF StackHandlers, Handles, ++

LEMMA CreateCallHandling ==
    /\ DOMAIN CreateHandlers = {240, 245} /\ DOMAIN CallHandlers = {241, 242, 244, 250}
    /\ CreateHandlers[240] = Handles("call", 3, 1) /\ CreateHandlers[245] = Handles("call", 4, 1)
    /\ \A op \in {241, CALLCODE} : CallHandlers[op] = Handles("call", 7, 1)
    /\ \A op \in {244, 250} : CallHandlers[op] = Handles("call", 6, 1)
BY DEF CreateHandlers, CallHandlers, Does, Handles, ++, CALLCODE

LEMMA HaltHandling ==
    /\ DOMAIN HaltHandlers = {0, 243, 253, 254, 255}
    /\ HaltHandlers[STOP] = Handles("halt", 0, 0)
    /\ \A op \in {RETURN, REVERT} : HaltHandlers[op] = Handles("halt", 2, 0)
    /\ HaltHandlers[SELFDESTRUCT] = Handles("halt", 1, 0)
    /\ HaltHandlers[INVALID] = Handles("error", 0, 0)
BY DEF HaltHandlers, Does, Handles, ++, STOP, RETURN, REVERT, SELFDESTRUCT, INVALID

LEMMA EofHandling ==
    /\ DOMAIN EofHandlers = {RJUMP, RJUMPI, RJUMPV, CALLF, RETF}
    /\ EofHandlers[RJUMP] = Handles("rjump", 0, 0)
    /\ EofHandlers[RJUMPI] = Handles("rjumpi", 1, 0)
    /\ EofHandlers[RJUMPV] = Handles("rjumpv", 1, 0)
    /\ EofHandlers[CALLF] = Handles("callf", 0, 0)
    /\ EofHandlers[RETF] = Handles("retf", 0, 0)
<1> DEFINE a == Does({RJUMP}, "rjump", 0, 0)
           b == Does({RJUMPI}, "rjumpi", 1, 0)
           c == Does({RJUMPV}, "rjumpv", 1, 0)
           d == Does({CALLF}, "callf", 0, 0)
           e == Does({RETF}, "retf", 0, 0)
<1>1. EofHandlers = a ++ b ++ c ++ d ++ e
  BY DEF EofHandlers
<1>2. /\ DOMAIN a = {RJUMP} /\ \A op \in {RJUMP} : a[op] = Handles("rjump", 0, 0)
      /\ DOMAIN b = {RJUMPI} /\ \A op \in {RJUMPI} : b[op] = Handles("rjumpi", 1, 0)
      /\ DOMAIN c = {RJUMPV} /\ \A op \in {RJUMPV} : c[op] = Handles("rjumpv", 1, 0)
      /\ DOMAIN d = {CALLF} /\ \A op \in {CALLF} : d[op] = Handles("callf", 0, 0)
      /\ DOMAIN e = {RETF} /\ \A op \in {RETF} : e[op] = Handles("retf", 0, 0)
  BY DEF Does, Handles
<1> HIDE DEF a, b, c, d, e
<1>3. DOMAIN EofHandlers = (DOMAIN a) \cup (DOMAIN b) \cup (DOMAIN c) \cup (DOMAIN d) \cup (DOMAIN e)
  BY <1>1 DEF ++
<1>4. \A op \in DOMAIN EofHandlers : EofHandlers[op] =
            IF op \in DOMAIN a THEN a[op] ELSE IF op \in DOMAIN b THEN b[op] ELSE
            IF op \in DOMAIN c THEN c[op] ELSE IF op \in DOMAIN d THEN d[op] ELSE e[op]
  BY <1>1 DEF ++
<1> USE DEF RJUMP, RJUMPI, RJUMPV, CALLF, RETF
<1>5. DOMAIN EofHandlers = {RJUMP, RJUMPI, RJUMPV, CALLF, RETF}
  BY <1>2, <1>3
<1>6. /\ \A op \in {RJUMP} : EofHandlers[op] = a[op]
      /\ \A op \in {RJUMPI} : EofHandlers[op] = b[op]
      /\ \A op \in {RJUMPV} : EofHandlers[op] = c[op]
      /\ \A op \in {CALLF} : EofHandlers[op] = d[op]
      /\ \A op \in {RETF} : EofHandlers[op] = e[op]
  BY <1>2, <1>3, <1>4
<1> QED BY <1>2, <1>5, <1>6 DEF Handles
\* The parts of a table have no opcode in common.
LEMMA InfoTable ==
    /\ DOMAIN OPCODE_INFO =
          ((1..11) \cup (16..29) \cup {32}) \cup (48..72) \cup (80..91) \cup (95..127)
          \cup (128..164) \cup {0, 240, 241, 242, 243, 244, 245, 250, 253, 254, 255}
          \cup {92, 93, 94, 176, 177}
    /\ \A op \in (1..11) \cup (16..29) \cup {32} : OPCODE_INFO[op] = ComputingInfo[op]
    /\ \A op \in 48..72 : OPCODE_INFO[op] = EnvironmentInfo[op]
    /\ \A op \in 80..91 : OPCODE_INFO[op] = MemoryInfo[op]
    /\ \A op \in 95..127 : OPCODE_INFO[op] = push_info[op]
    /\ \A op \in 128..164 : OPCODE_INFO[op] = StackInfo[op]
    /\ \A op \in {0, 240, 241, 242, 243, 244, 245, 250, 253, 254, 255} :
          OPCODE_INFO[op] = SystemInfo[op]
    /\ \A op \in {92, 93, 94, 176, 177} : OPCODE_INFO[op] = EofInfo[op]
<1> DEFINE a == ComputingInfo
           b == EnvironmentInfo
           c == MemoryInfo
           d == push_info
           e == StackInfo
           f == SystemInfo
           g == EofInfo
<1>1. OPCODE_INFO = a ++ b ++ c ++ d ++ e ++ f ++ g
  BY DEF OPCODE_INFO
<1>2. /\ DOMAIN a = (1..11) \cup (16..29) \cup {32} /\ DOMAIN b = 48..72 /\ DOMAIN c = 80..91
      /\ DOMAIN d = 95..127 /\ DOMAIN e = 128..164
      /\ DOMAIN f = {0, 240, 241, 242, 243, 244, 245, 250, 253, 254, 255}
      /\ DOMAIN g = {92, 93, 94, 176, 177}
  BY ComputingTable, EnvironmentTable, MemoryTable, PushTable, StackTable, SystemTable, EofTable
     DEF RJUMP, RJUMPI, RJUMPV, CALLF, RETF
<1> HIDE DEF a, b, c, d, e, f, g
<1>3. DOMAIN OPCODE_INFO = (DOMAIN a) \cup (DOMAIN b) \cup (DOMAIN c) \cup (DOMAIN d)
                           \cup (DOMAIN e) \cup (DOMAIN f) \cup (DOMAIN g)
  BY <1>1, Zenon DEF ++
<1>4. \A op \in DOMAIN OPCODE_INFO : OPCODE_INFO[op] =
            IF op \in DOMAIN a THEN a[op] ELSE IF op \in DOMAIN b THEN b[op] ELSE
            IF op \in DOMAIN c THEN c[op] ELSE IF op \in DOMAIN d THEN d[op] ELSE
            IF op \in DOMAIN e THEN e[op] ELSE IF op \in DOMAIN f THEN f[op] ELSE g[op]
  BY <1>1, Zenon DEF ++
<1>5. DOMAIN OPCODE_INFO =
          ((1..11) \cup (16..29) \cup {32}) \cup (48..72) \cup (80..91) \cup (95..127)
          \cup (128..164) \cup {0, 240, 241, 242, 243, 244, 245, 250, 253, 254, 255}
          \cup {92, 93, 94, 176, 177}
  BY <1>2, <1>3
<1>6. /\ \A op \in (1..11) \cup (16..29) \cup {32} : OPCODE_INFO[op] = a[op]
      /\ \A op \in 48..72 : OPCODE_INFO[op] = b[op]
      /\ \A op \in 80..91 : OPCODE_INFO[op] = c[op]
      /\ \A op \in 95..127 : OPCODE_INFO[op] = d[op]
  BY <1>2, <1>3, <1>4
<1>7. /\ \A op \in 128..164 : OPCODE_INFO[op] = e[op]
      /\ \A op \in {0, 240, 241, 242, 243, 244, 245, 250, 253, 254, 255} : OPCODE_INFO[op] = f[op]
      /\ \A op \in {92, 93, 94, 176, 177} : OPCODE_INFO[op] = g[op]
  BY <1>2, <1>3, <1>4
<1> QED BY <1>5, <1>6, <1>7 DEF a, b, c, d, e, f, g

LEMMA LegacyTable ==
    /\ DOMAIN LegacyHandlers =
          (1..11) \cup (16..29) \cup {32} \cup (48..72) \cup (80..91) \cup (95..127)
          \cup (128..164) \cup {0, 240, 241, 242, 243, 244, 245, 250, 253, 254, 255}
    /\ \A op \in 1..11 : LegacyHandlers[op] = ArithmeticHandlers[op]
    /\ \A op \in (16..29) \cup {32} : LegacyHandlers[op] = BitwiseHandlers[op]
    /\ \A op \in 48..63 : LegacyHandlers[op] = AccountHandlers[op]
    /\ \A op \in 64..72 : LegacyHandlers[op] = BlockHandlers[op]
    /\ \A op \in 80..91 : LegacyHandlers[op] = MemoryHandlers[op]
    /\ \A op \in 95..127 : LegacyHandlers[op] = PushHandlers[op]
    /\ \A op \in 128..164 : LegacyHandlers[op] = StackHandlers[op]
    /\ \A op \in {240, 245} : LegacyHandlers[op] = CreateHandlers[op]
    /\ \A op \in {241, 242, 244, 250} : LegacyHandlers[op] = CallHandlers[op]
    /\ \A op \in {0, 243, 253, 254, 255} : LegacyHandlers[op] = HaltHandlers[op]
<1> DEFINE a == ArithmeticHandlers
           b == BitwiseHandlers
           c == AccountHandlers
           d == BlockHandlers
           e == MemoryHandlers
           f == PushHandlers
           g == StackHandlers
           h == CreateHandlers
           j == CallHandlers
           k == HaltHandlers
           first == a ++ b ++ c ++ d ++ e
<1>1. LegacyHandlers = first ++ f ++ g ++ h ++ j ++ k
  BY DEF LegacyHandlers
<1>2. /\ DOMAIN a = 1..11 /\ DOMAIN b = (16..29) \cup {32} /\ DOMAIN c = 48..63
      /\ DOMAIN d = 64..72 /\ DOMAIN e = 80..91 /\ DOMAIN f = 95..127 /\ DOMAIN g = 128..164
      /\ DOMAIN h = {240, 245} /\ DOMAIN j = {241, 242, 244, 250}
      /\ DOMAIN k = {0, 243, 253, 254, 255}
  BY ArithmeticHandling, BitwiseHandling, AccountHandling, BlockHandling, MemoryHandling,
     PushHandling, StackHandling, CreateCallHandling, HaltHandling
<1> HIDE DEF a, b, c, d, e, f, g, h, j, k
<1>3. DOMAIN first = (DOMAIN a) \cup (DOMAIN b) \cup (DOMAIN c) \cup (DOMAIN d) \cup (DOMAIN e)
  BY DEF ++
<1>4. \A op \in DOMAIN first : first[op] =
            IF op \in DOMAIN a THEN a[op] ELSE IF op \in DOMAIN b THEN b[op] ELSE
            IF op \in DOMAIN c THEN c[op] ELSE IF op \in DOMAIN d THEN d[op] ELSE e[op]
  BY SMTT(60) DEF ++
<1> HIDE DEF first
<1>5. DOMAIN LegacyHandlers = (DOMAIN first) \cup (DOMAIN f) \cup (DOMAIN g) \cup (DOMAIN h)
                              \cup (DOMAIN j) \cup (DOMAIN k)
  BY <1>1 DEF ++
<1>6. \A op \in DOMAIN LegacyHandlers : LegacyHandlers[op] =
            IF op \in DOMAIN first THEN first[op] ELSE IF op \in DOMAIN f THEN f[op] ELSE
            IF op \in DOMAIN g THEN g[op] ELSE IF op \in DOMAIN h THEN h[op] ELSE
            IF op \in DOMAIN j THEN j[op] ELSE k[op]
  BY <1>1, Zenon DEF ++
<1>7. DOMAIN first = (1..11) \cup (16..29) \cup {32} \cup (48..72) \cup (80..91)
  BY <1>2, <1>3
<1>8. DOMAIN LegacyHandlers =
          (1..11) \cup (16..29) \cup {32} \cup (48..72) \cup (80..91) \cup (95..127)
          \cup (128..164) \cup {0, 240, 241, 242, 243, 244, 245, 250, 253, 254, 255}
  BY <1>2, <1>5, <1>7
<1>9. /\ \A op \in 1..11 : first[op] = a[op]
      /\ \A op \in (16..29) \cup {32} : first[op] = b[op]
      /\ \A op \in 48..63 : first[op] = c[op]
      /\ \A op \in 64..72 : first[op] = d[op]
      /\ \A op \in 80..91 : first[op] = e[op]
  BY <1>2, <1>4, <1>7
<1>10. \A op \in DOMAIN first : LegacyHandlers[op] = first[op]
  BY <1>5, <1>6
<1>11. /\ \A op \in 95..127 : LegacyHandlers[op] = f[op]
       /\ \A op \in 128..164 : LegacyHandlers[op] = g[op]
       /\ \A op \in {240, 245} : LegacyHandlers[op] = h[op]
       /\ \A op \in {241, 242, 244, 250} : LegacyHandlers[op] = j[op]
       /\ \A op \in {0, 243, 253, 254, 255} : LegacyHandlers[op] = k[op]
  BY <1>2, <1>6, <1>7, <1>8
<1> QED BY <1>7, <1>8, <1>9, <1>10, <1>11 DEF a, b, c, d, e, f, g, h, j, k

LEMMA Dispatch ==
    /\ DOMAIN OPCODES = 0..255 /\ DOMAIN EOF_OPCODES = 0..255
    /\ \A op \in DOMAIN LegacyHandlers : OPCODES[op] = LegacyHandlers[op]
    /\ \A op \in (0..255) \ DOMAIN LegacyHandlers : OPCODES[op] = Handles("unknown", 0, 0)
    /\ \A op \in DOMAIN EofHandlers : EOF_OPCODES[op] = EofHandlers[op]
    /\ \A op \in DEPRECATED_OPCODES : EOF_OPCODES[op] = Handles("error", 0, 0)
    /\ \A op \in (0..255) \ ({RJUMP, RJUMPI, RJUMPV, CALLF, RETF} \cup DEPRECATED_OPCODES) :
          EOF_OPCODES[op] = OPCODES[op]
<1> DEFINE a == EofHandlers
           b == Does(DEPRECATED_OPCODES, "error", 0, 0)
           c == OPCODES
<1>1. EOF_OPCODES = a ++ b ++ c
  BY DEF EOF_OPCODES
<1>2. DOMAIN a = {92, 93, 94, 176, 177}
  BY EofHandling DEF RJUMP, RJUMPI, RJUMPV, CALLF, RETF
<1>3. DOMAIN b = {242, 255, 86, 87, 88} /\ \A op \in DEPRECATED_OPCODES : b[op] = Handles("error", 0, 0)
  BY DEF Does, Handles, DEPRECATED_OPCODES, CALLCODE, SELFDESTRUCT, JUMP, JUMPI, PC
<1>4. /\ DOMAIN c = 0..255
      /\ \A op \in DOMAIN LegacyHandlers : op \in 0..255 => OPCODES[op] = LegacyHandlers[op]
      /\ \A op \in (0..255) \ DOMAIN LegacyHandlers : OPCODES[op] = Handles("unknown", 0, 0)
  BY DEF OPCODES, Handles
<1>5. \A op \in DOMAIN LegacyHandlers : op \in 0..255
  BY LegacyTable
<1> HIDE DEF a, b, c
<1>6. DOMAIN EOF_OPCODES = (DOMAIN a) \cup (DOMAIN b) \cup (DOMAIN c)
  BY <1>1 DEF ++
<1>7. \A op \in DOMAIN EOF_OPCODES : EOF_OPCODES[op] =
            IF op \in DOMAIN a THEN a[op] ELSE IF op \in DOMAIN b THEN b[op] ELSE c[op]
  BY <1>1 DEF ++
<1>8. DOMAIN EOF_OPCODES = 0..255
  BY <1>2, <1>3, <1>4, <1>6
<1> USE DEF DEPRECATED_OPCODES, CALLCODE, SELFDESTRUCT, JUMP, JUMPI,
            PC, RJUMP, RJUMPI, RJUMPV, CALLF, RETF
<1>9. /\ \A op \in {92, 93, 94, 176, 177} : EOF_OPCODES[op] = a[op]
      /\ \A op \in DEPRECATED_OPCODES : EOF_OPCODES[op] = b[op]
      /\ \A op \in (0..255) \ ({RJUMP, RJUMPI, RJUMPV, CALLF, RETF} \cup DEPRECATED_OPCODES) :
          EOF_OPCODES[op] = c[op]
  BY <1>2, <1>3, <1>7, <1>8
<1> QED BY <1>2, <1>3, <1>4, <1>5, <1>8, <1>9 DEF a, c

\* A handler takes and leaves what the validator's table says of its opcode,
\* if it does not fail; halting, it leaves nothing.
Matches(op, h) ==
    /\ h.pops \in Nat /\ h.pushes \in Nat
    /\ h.does \notin {"unknown", "error"} =>
          /\ h.pops = OPCODE_INFO[op].min_stack
          /\ h.does # "halt" =>
                h.pushes = STACK_LIMIT + OPCODE_INFO[op].min_stack - OPCODE_INFO[op].max_stack
    /\ h.does \in {"next", "call", "jumpi"} =>
          /\ ~OPCODE_INFO[op].terminal
          /\ op \notin PUSH1..PUSH32 /\ op \notin {RJUMP, RJUMPI, RJUMPV, CALLF, RETF}
    /\ h.does = "push" => op \in PUSH1..PUSH32 /\ ~OPCODE_INFO[op].terminal
    /\ h.does = "rjump" => op = RJUMP
    /\ h.does = "rjumpi" => op = RJUMPI
    /\ h.does = "rjumpv" => op = RJUMPV
    /\ h.does = "callf" => op = CALLF
    /\ h.does = "retf" => op = RETF

\* What the validator's table says, within its bounds.
LEMMA InfoBounds ==
    ASSUME NEW op \in DOMAIN OPCODE_INFO
    PROVE  /\ OPCODE_INFO[op].min_stack \in 0..17
           /\ OPCODE_INFO[op].max_stack \in STACK_LIMIT - 17..STACK_LIMIT + 17
           /\ STACK_LIMIT + OPCODE_INFO[op].min_stack - OPCODE_INFO[op].max_stack \in 0..17
<1> USE StackLimitAssumption DEF Info, max_stack
<1>1. CASE op \in (1..11) \cup (16..29) \cup {32}
  BY <1>1, InfoTable, ComputingTable
<1>2. CASE op \in 48..72
  BY <1>2, InfoTable, EnvironmentTable
<1>3. CASE op \in 80..91
  BY <1>3, InfoTable, MemoryTable DEF JUMP, JUMPI, PC
<1>4. CASE op \in 95..127
  BY <1>4, InfoTable, PushTable
<1>5. CASE op \in 128..164
  BY <1>5, InfoTable, StackTable
<1>6. CASE op \in {0, 240, 241, 242, 243, 244, 245, 250, 253, 254, 255}
  BY <1>6, InfoTable, SystemTable DEF CALLCODE, SELFDESTRUCT, STOP, RETURN, REVERT, INVALID
<1>7. CASE op \in {92, 93, 94, 176, 177}
  BY <1>7, InfoTable, EofTable DEF RJUMP, RJUMPI, RJUMPV, CALLF, RETF
<1> QED BY <1>1, <1>2, <1>3, <1>4, <1>5, <1>6, <1>7, InfoTable

LEMMA TerminalOpcodes ==
    ASSUME NEW op \in DOMAIN OPCODE_INFO
    PROVE  /\ op \in {STOP, RETURN, REVERT, INVALID, RJUMP, RETF} => OPCODE_INFO[op].terminal = TRUE
           /\ op \notin {STOP, RETURN, REVERT, INVALID, RJUMP, RETF} => OPCODE_INFO[op].terminal = FALSE
<1> USE DEF Info
<1> USE DEF RJUMP, RJUMPI, RJUMPV, CALLF, RETF, STOP, RETURN, REVERT, INVALID
<1>1. CASE op \in (1..11) \cup (16..29) \cup {32}
  BY <1>1, InfoTable, ComputingTable
<1>2. CASE op \in 48..72
  BY <1>2, InfoTable, EnvironmentTable
<1>3. CASE op \in 80..91
  BY <1>3, InfoTable, MemoryTable DEF JUMP, JUMPI, PC
<1>4. CASE op \in 95..127
  BY <1>4, InfoTable, PushTable
<1>5. CASE op \in 128..164
  BY <1>5, InfoTable, StackTable
<1>6. CASE op \in {0, 240, 241, 242, 243, 244, 245, 250, 253, 254, 255}
  BY <1>6, InfoTable, SystemTable DEF CALLCODE, SELFDESTRUCT
<1>7. CASE op \in {92, 93, 94, 176, 177}
  BY <1>7, InfoTable, EofTable
<1>8. op \in ((1..11) \cup (16..29) \cup {32}) \cup (48..72) \cup (80..91) \cup (95..127)
          \cup (128..164) \cup {0, 240, 241, 242, 243, 244, 245, 250, 253, 254, 255}
          \cup {92, 93, 94, 176, 177}
  BY InfoTable
<1> QED BY <1>1, <1>2, <1>3, <1>4, <1>5, <1>6, <1>7, <1>8, ZenonT(60)

LEMMA Jumps ==
    /\ \A op \in {RJUMP, CALLF, RETF} :
          OPCODE_INFO[op].max_stack = STACK_LIMIT /\ OPCODE_INFO[op].min_stack = 0
    /\ \A op \in {STOP, RJUMP, RJUMPI, RJUMPV, CALLF, RETF} : op \in DOMAIN OPCODE_INFO
BY InfoTable, EofTable, StackLimitAssumption
   DEF Info, max_stack, STOP, RJUMP, RJUMPI, RJUMPV, CALLF, RETF

LEMMA LegacyMatches ==
    ASSUME NEW op \in DOMAIN LegacyHandlers
    PROVE  Matches(op, LegacyHandlers[op])
<1> USE StackLimitAssumption DEF Info, max_stack, Handles, Matches
<1> USE DEF RJUMP, RJUMPI, RJUMPV, CALLF, RETF, PUSH1, PUSH32
<1>1. CASE op \in 1..11
  BY <1>1, InfoTable, ComputingTable, LegacyTable, ArithmeticHandling
<1>2. CASE op \in (16..29) \cup {32}
  BY <1>2, InfoTable, ComputingTable, LegacyTable, BitwiseHandling
<1>3. CASE op \in 48..63
  BY <1>3, InfoTable, EnvironmentTable, LegacyTable, AccountHandling, SMTT(60)
<1>4. CASE op \in 64..72
  BY <1>4, InfoTable, EnvironmentTable, LegacyTable, BlockHandling, SMTT(60)
<1>5. CASE op \in 80..91
  BY <1>5, InfoTable, MemoryTable, LegacyTable, MemoryHandling DEF JUMP, JUMPI, PC
<1>6. CASE op \in 95..127
  BY <1>6, InfoTable, PushTable, LegacyTable, PushHandling, SMTT(60)
<1>7. CASE op \in 128..164
  <2>1. OPCODE_INFO[op] = StackInfo[op] /\ LegacyHandlers[op] = StackHandlers[op]
    BY <1>7, InfoTable, LegacyTable
  <2>2. CASE op \in 128..143
    BY <2>1, <2>2, StackTable, StackHandling, SMTT(60)
  <2>3. CASE op \in 144..159
    BY <2>1, <2>3, StackTable, StackHandling, SMTT(60)
  <2>4. CASE op \in 160..164
    BY <2>1, <2>4, StackTable, StackHandling, SMTT(60)
  <2> QED BY <1>7, <2>2, <2>3, <2>4
<1>8. CASE op \in {240, 241, 242, 244, 245, 250}
  BY <1>8, InfoTable, SystemTable, LegacyTable, CreateCallHandling, SMTT(60) DEF CALLCODE
<1>9. CASE op \in {0, 243, 253, 254, 255}
  BY <1>9, InfoTable, SystemTable, LegacyTable, HaltHandling, SMTT(60)
     DEF STOP, RETURN, REVERT, SELFDESTRUCT, INVALID
<1> QED BY <1>1, <1>2, <1>3, <1>4, <1>5, <1>6, <1>7, <1>8, <1>9, LegacyTable, SMTT(60)

\* Whichever of the two tables of handlers is in use, the handler of an opcode
\* matches the validator's table; the EOF one has a handler for each.
LEMMA HandlersMatch ==
    /\ \A op \in 0..255 : Matches(op, OPCODES[op]) /\ Matches(op, EOF_OPCODES[op])
    /\ \A op \in DOMAIN OPCODE_INFO : op \in 0..255 /\ EOF_OPCODES[op].does # "unknown"
<1>1. ASSUME NEW op \in 0..255 PROVE Matches(op, OPCODES[op])
  <2>1. CASE op \in DOMAIN LegacyHandlers
    BY <2>1, LegacyMatches, Dispatch
  <2>2. CASE op \notin DOMAIN LegacyHandlers
    BY <2>2, Dispatch DEF Matches, Handles
  <2> QED BY <2>1, <2>2
<1>2. ASSUME NEW op \in 0..255 PROVE Matches(op, EOF_OPCODES[op])
  <2>1. CASE op \in {RJUMP, RJUMPI, RJUMPV, CALLF, RETF}
    BY <2>1, Dispatch, EofHandling, InfoTable, EofTable, StackLimitAssumption, SMTT(60)
       DEF Matches, Handles, Info, max_stack, RJUMP, RJUMPI, RJUMPV, CALLF, RETF
  <2>2. CASE op \in DEPRECATED_OPCODES
    BY <2>2, Dispatch, SMTT(60) DEF Matches, Handles
  <2> QED BY <2>1, <2>2, <1>1, Dispatch, Zenon
<1>3. ASSUME NEW op \in DOMAIN OPCODE_INFO PROVE op \in 0..255 /\ EOF_OPCODES[op].does # "unknown"
  <2>1. op \in 0..255
    BY InfoTable
  <2>2. CASE op \in {RJUMP, RJUMPI, RJUMPV, CALLF, RETF}
    BY <2>1, <2>2, Dispatch, EofHandling, SMTT(60) DEF Handles
  <2>3. CASE op \in DEPRECATED_OPCODES
    BY <2>1, <2>3, Dispatch DEF Handles
  <2>4. CASE op \notin {RJUMP, RJUMPI, RJUMPV, CALLF, RETF} \cup DEPRECATED_OPCODES
    <3>1. EOF_OPCODES[op] = OPCODES[op]
      BY <2>1, <2>4, Dispatch, SMTT(60)
    <3>2. op \in DOMAIN LegacyHandlers
      BY <2>4, LegacyTable, InfoTable DEF RJUMP, RJUMPI, RJUMPV, CALLF, RETF
    <3>3. LegacyHandlers[op].does # "unknown"
      BY <3>2, LegacyTable, ArithmeticHandling, BitwiseHandling, AccountHandling, BlockHandling,
         MemoryHandling, PushHandling, StackHandling, CreateCallHandling, HaltHandling, SMTT(60)
         DEF Handles, JUMP, JUMPI, PC, CALLCODE, STOP, RETURN, REVERT, SELFDESTRUCT, INVALID
    <3>4. OPCODES[op] = LegacyHandlers[op]
      BY <3>2, Dispatch
    <3> QED BY <2>1, <3>1, <3>3, <3>4, Zenon
  <2> QED BY <2>1, <2>2, <2>3, <2>4
<1> QED BY <1>1, <1>2, <1>3, Zenon

-----------------------------------------------------------------------------
(* Sequences and numbers *)

LEMMA Concatenated ==
    ASSUME NEW S, NEW w \in Seq(S), NEW v \in Seq(S)
    PROVE  w \o v \in Seq(S) /\ ToSet(w \o v) = ToSet(w) \cup ToSet(v)
<1>1. /\ w \o v \in Seq(S) /\ Len(w \o v) = Len(w) + Len(v) /\ Len(w) \in Nat /\ Len(v) \in Nat
      /\ \A k \in 1..Len(w) + Len(v) :
            (w \o v)[k] = IF k <= Len(w) THEN w[k] ELSE v[k - Len(w)]
  BY ConcatProperties
<1>2. DOMAIN w = 1..Len(w) /\ DOMAIN v = 1..Len(v) /\ DOMAIN (w \o v) = 1..Len(w) + Len(v)
  BY <1>1
<1>3. ASSUME NEW k \in 1..Len(w) PROVE w[k] \in ToSet(w \o v)
  <2>1. k \in DOMAIN (w \o v) /\ (w \o v)[k] = w[k]
    BY <1>1, <1>2
  <2> QED BY <2>1 DEF ToSet
<1>4. ASSUME NEW k \in 1..Len(v) PROVE v[k] \in ToSet(w \o v)
  <2>1. k + Len(w) \in DOMAIN (w \o v) /\ (w \o v)[k + Len(w)] = v[k]
    BY <1>1, <1>2
  <2> QED BY <2>1 DEF ToSet
<1>5. ASSUME NEW k \in 1..Len(w) + Len(v) PROVE (w \o v)[k] \in ToSet(w) \cup ToSet(v)
  <2>1. CASE k <= Len(w)
    BY <1>1, <1>2, <2>1 DEF ToSet
  <2>2. CASE ~(k <= Len(w))
    <3>1. k - Len(w) \in DOMAIN v /\ (w \o v)[k] = v[k - Len(w)]
      BY <1>1, <1>2, <2>2
    <3> QED BY <3>1 DEF ToSet
  <2> QED BY <2>1, <2>2
<1> HIDE DEF ToSet
<1>6. ToSet(w) \cup ToSet(v) \subseteq ToSet(w \o v)
  BY <1>2, <1>3, <1>4 DEF ToSet
<1>7. ToSet(w \o v) \subseteq ToSet(w) \cup ToSet(v)
  <2>1. ToSet(w \o v) = {(w \o v)[k] : k \in 1..Len(w) + Len(v)}
    BY <1>2 DEF ToSet
  <2> QED BY <1>5, <2>1
<1> QED BY <1>1, <1>6, <1>7

LEMMA FrontOf ==
    ASSUME NEW S, NEW w \in Seq(S), w # <<>>
    PROVE  /\ Len(w) \in Nat \ {0} /\ Last(w) = w[Len(w)] /\ Last(w) \in S
           /\ Front(w) \in Seq(S) /\ Len(Front(w)) = Len(w) - 1
           /\ \A k \in 1..Len(w) - 1 : Front(w)[k] = w[k]
           /\ ToSet(w) = ToSet(Front(w)) \cup {Last(w)}
<1> DEFINE l == Len(w)
<1>1. l \in Nat \ {0} /\ Last(w) = w[l] /\ w[l] \in S
  BY EmptySeq, ElementOfSeq DEF Last
<1>2. /\ Front(w) \in Seq(S) /\ Len(Front(w)) = l - 1
      /\ \A k \in 1..l - 1 : Front(w)[k] = w[k]
  <2>1. \A k \in 1..l - 1 : w[k] \in S
    BY ElementOfSeq
  <2>2. Front(w) = SubSeq(w, 1, l - 1)
    BY DEF Front
  <2>3. 1 \in Int /\ l - 1 \in Int
    BY <1>1
  <2> HIDE DEF l
  <2>4. /\ SubSeq(w, 1, l - 1) \in Seq(S)
        /\ Len(SubSeq(w, 1, l - 1)) = IF 1 <= l - 1 THEN l - 1 - 1 + 1 ELSE 0
        /\ \A k \in 1..l - 1 - 1 + 1 : SubSeq(w, 1, l - 1)[k] = w[1 + k - 1]
    BY <2>1, <2>3, SubSeqProperties
  <2>5. ASSUME NEW k \in 1..l - 1 PROVE SubSeq(w, 1, l - 1)[k] = w[k]
    <3>1. k \in 1..l - 1 - 1 + 1 /\ 1 + k - 1 = k
      BY <1>1
    <3> QED BY <2>4, <3>1
  <2>6. (IF 1 <= l - 1 THEN l - 1 - 1 + 1 ELSE 0) = l - 1
    BY <1>1
  <2> QED BY <2>2, <2>4, <2>5, <2>6
<1>3. DOMAIN w = 1..l /\ DOMAIN Front(w) = 1..l - 1
  BY <1>2
<1> HIDE DEF l
<1>4. ToSet(Front(w)) = {w[k] : k \in 1..l - 1}
  BY <1>2, <1>3 DEF ToSet
<1>5. ToSet(w) = {w[k] : k \in 1..l}
  BY <1>3 DEF ToSet
<1>6. 1..l = (1..l - 1) \cup {l}
  BY <1>1
<1>7. ToSet(w) = ToSet(Front(w)) \cup {Last(w)}
  BY <1>1, <1>4, <1>5, <1>6
<1> QED BY <1>1, <1>2, <1>7 DEF l

LEMMA MaxOfTwo ==
    ASSUME NEW x \in Int, NEW y \in Int
    PROVE  Max({x, y}) \in {x, y} /\ Max({x, y}) >= x /\ Max({x, y}) >= y
<1>1. \E z \in {x, y} : \A w \in {x, y} : z >= w
  <2>1. CASE x >= y
    BY <2>1
  <2>2. CASE ~(x >= y)
    BY <2>2
  <2> QED BY <2>1, <2>2
<1> QED BY <1>1 DEF Max

-----------------------------------------------------------------------------
(* The bitmap: the instructions of a section, one behind the other *)

LEMMA ByteAt ==
    ASSUME NEW c \in Seq(0..255), NEW n \in Int
    PROVE  /\ get_or_default(c, n) \in 0..255
           /\ n \in Nat => get_u16_or_default(c, n) \in Nat
           /\ n \in Nat => get_i16_or_default(c, n) \in Int
<1>1. Len(c) \in Nat /\ \A k \in 1..Len(c) : c[k] \in 0..255
  BY ElementOfSeq
<1>2. get_or_default(c, n) \in 0..255
  <2>1. CASE n \in 0..Len(c) - 1
    <3>1. n + 1 \in 1..Len(c)
      BY <1>1, <2>1
    <3> QED BY <1>1, <2>1, <3>1 DEF get_or_default
  <2> QED BY <2>1 DEF get_or_default
<1>3. ASSUME n \in Nat PROVE get_u16_or_default(c, n) \in Nat
  <2>1. CASE Len(c) >= n + 2
    <3>1. n + 1 \in 1..Len(c) /\ n + 2 \in 1..Len(c)
      BY <1>1, <1>3, <2>1
    <3> DEFINE hi == c[n + 1]
               lo == c[n + 2]
    <3>2. hi \in 0..255 /\ lo \in 0..255
      BY <1>1, <3>1
    <3> HIDE DEF hi, lo
    <3>3. 256 * hi + lo \in Nat
      BY <3>2
    <3> QED BY <3>3, <1>1, <1>3, <2>1 DEF get_u16_or_default, hi, lo
  <2> QED BY <2>1, <1>1, <1>3 DEF get_u16_or_default
<1>4. ASSUME n \in Nat PROVE get_i16_or_default(c, n) \in Int
  BY <1>3, <1>4 DEF get_i16_or_default
<1> QED BY <1>2, <1>3, <1>4

LEMMA ImmediateType ==
    ASSUME NEW c \in Seq(0..255), NEW n \in Int
    PROVE  Immediate(c, n) \in Nat /\ Marked(c, n) \in Nat
<1>1. get_or_default(c, n) \in 0..255 /\ get_or_default(c, n + 1) \in 0..255
  <2>1. n + 1 \in Int
    OBVIOUS
  <2> QED BY <2>1, ByteAt
<1> DEFINE op == get_or_default(c, n)
           next == get_or_default(c, n + 1)
<1>2. Immediate(c, n) = IF op \in PUSH1..PUSH32 THEN op - PUSH0
                        ELSE IF op \in {RJUMP, RJUMPI, CALLF} THEN 2
                        ELSE IF op = RJUMPV THEN 1 + 2 * next ELSE 0
  BY DEF Immediate
<1>3. op \in 0..255 /\ next \in 0..255
  BY <1>1
<1> HIDE DEF op, next
<1>4. Immediate(c, n) \in Nat
  BY <1>2, <1>3 DEF PUSH0, PUSH1, PUSH32
<1> QED BY <1>4, EofCodeAssumption DEF Marked

\* The recursive function of the bitmap.
From(f, c) ==
    \A n \in Nat : f[n] = IF n >= Len(c) THEN {} ELSE {n} \cup f[n + 1 + Marked(c, n)]

LEMMA BitmapExists ==
    ASSUME NEW c \in Seq(0..255)
    PROVE  \E f : From(f, c) /\ eof_code_bitmap(c) = f[0]
<1> DEFINE L == Len(c)
           next == [n \in Nat |-> n + 1 + Marked(c, n)]
           step(f, n) == IF n >= L THEN {} ELSE {n} \cup f[next[n]]
           V == SUBSET Nat
           Upto(f, k) == \A n \in Nat : n >= L - k => f[n] = step(f, n)
           T == {k \in Nat : \E f \in [Nat -> V] : Upto(f, k)}
<1>0. L \in Nat
  OBVIOUS
<1>1. ASSUME NEW n \in Nat PROVE next[n] \in Nat /\ next[n] > n
  <2>1. n \in Int
    OBVIOUS
  <2>2. Marked(c, n) \in Nat
    BY <2>1, ImmediateType
  <2> QED BY <2>2
<1> HIDE DEF L, next
<1>2. 0 \in T
  <2>1. /\ [n \in Nat |-> {}] \in [Nat -> V]
        /\ \A n \in Nat : n >= L - 0 => [m \in Nat |-> {}][n] = step([m \in Nat |-> {}], n)
    BY <1>0
  <2> QED BY <2>1
<1>3. ASSUME NEW k \in Nat, k \in T PROVE k + 1 \in T
  <2>1. PICK f \in [Nat -> V] : Upto(f, k)
    BY <1>3
  <2>2. CASE L - (k + 1) < 0
    <3>1. Upto(f, k + 1)
      BY <1>0, <1>1, <2>1, <2>2
    <3> HIDE DEF Upto
    <3> QED BY <3>1
  <2>3. CASE ~(L - (k + 1) < 0)
    <3> DEFINE m == L - (k + 1)
               g == [f EXCEPT ![m] = step(f, m)]
    <3>1. m \in Nat /\ next[m] \in Nat
      BY <1>0, <1>1, <2>3
    <3>2. step(f, m) \in V
      BY <3>1
    <3>3. g \in [Nat -> V]
      BY <3>1, <3>2
    <3>4. ASSUME NEW n \in Nat, n >= L - (k + 1) PROVE g[n] = step(g, n)
      <4>1. next[n] \in Nat /\ next[n] > m
        BY <1>0, <1>1, <3>4
      <4>2. g[next[n]] = f[next[n]]
        BY <4>1, <3>1
      <4>3. CASE n = m
        BY <4>2, <4>3, <3>1
      <4>4. CASE n # m
        <5>1. n >= L - k
          BY <1>0, <1>1, <3>4, <4>4
        <5>2. f[n] = step(f, n) /\ g[n] = f[n]
          BY <2>1, <5>1, <4>4
        <5> QED BY <4>2, <5>2
      <4> QED BY <4>3, <4>4
    <3> HIDE DEF g
    <3>5. Upto(g, k + 1)
      BY <3>4
    <3> HIDE DEF Upto
    <3> QED BY <3>3, <3>5
  <2> QED BY <2>2, <2>3, Zenon
<1> HIDE DEF T
<1>4. L \in T
  BY <1>0, <1>1, <1>2, <1>3, NumberInduction
<1>5. PICK f \in [Nat -> V] : Upto(f, L)
  BY <1>4 DEF T
<1>6. f = [n \in Nat |-> step(f, n)]
  BY <1>0, <1>1, <1>5
<1> DEFINE from == CHOOSE h : h = [n \in Nat |-> step(h, n)]
<1>7. from = [n \in Nat |-> step(from, n)]
  BY <1>6
<1>8. eof_code_bitmap(c) = from[0]
  BY DEF eof_code_bitmap, L, next
<1> HIDE DEF from
<1>9. From(from, c)
  BY <1>7 DEF From, L, next
<1> QED BY <1>8, <1>9

\* A set of positions in which whatever follows an unmarked byte, behind the
\* bytes marked for it, is in the set, and nothing marked is.
Spaced(c, B) ==
    /\ B \subseteq 0..Len(c) - 1
    /\ \A n \in B : n + 1 + Marked(c, n) < Len(c) => n + 1 + Marked(c, n) \in B
    /\ \A n, m \in B : n < m => n + 1 + Marked(c, n) <= m

LEMMA Bitmap ==
    ASSUME NEW c \in Seq(0..255)
    PROVE  /\ Spaced(c, eof_code_bitmap(c))
           /\ c # <<>> => 0 \in eof_code_bitmap(c)
<1>1. PICK f : From(f, c) /\ eof_code_bitmap(c) = f[0]
  BY BitmapExists
<1> DEFINE L == Len(c)
           next == [n \in Nat |-> n + 1 + Marked(c, n)]
           Good(B, k) == /\ B \subseteq k..L - 1
                         /\ k < L => k \in B
                         /\ \A n \in B : next[n] < L => next[n] \in B
                         /\ \A n, m \in B : n < m => next[n] <= m
           T == {k \in Nat : \A n \in Nat : n >= L - k => Good(f[n], n)}
<1>2. L \in Nat
  OBVIOUS
<1>3. ASSUME NEW n \in Nat PROVE next[n] \in Nat /\ next[n] > n
  <2>1. n \in Int
    OBVIOUS
  <2>2. Marked(c, n) \in Nat
    BY <2>1, ImmediateType
  <2> QED BY <2>2
<1>4. \A n \in Nat : f[n] = IF n >= L THEN {} ELSE {n} \cup f[next[n]]
  BY <1>1 DEF From
<1> HIDE DEF L, next
<1>5. ASSUME NEW n \in Nat, n >= L PROVE Good(f[n], n)
  <2>1. f[n] = {}
    BY <1>4, <1>5
  <2> QED BY <1>2, <1>5, <2>1
<1> HIDE DEF Good
<1>6. 0 \in T
  BY <1>2, <1>5
<1> USE DEF Good
<1>7. ASSUME NEW k \in Nat, k \in T PROVE k + 1 \in T
  <2>1. ASSUME NEW n \in Nat, n >= L - (k + 1) PROVE Good(f[n], n)
    <3>1. CASE n >= L
      BY <1>5, <3>1
    <3>2. CASE ~(n >= L)
      <4> DEFINE p == next[n]
      <4>1. p \in Nat /\ p > n /\ p >= L - k
        BY <1>2, <1>3, <2>1
      <4>2. f[n] = {n} \cup f[p]
        BY <1>4, <3>2
      <4>3. Good(f[p], p)
        BY <1>7, <4>1
      <4>4. f[n] \subseteq n..L - 1 /\ n \in f[n]
        BY <1>2, <3>2, <4>1, <4>2, <4>3
      <4>5. ASSUME NEW m \in f[n], next[m] < L PROVE next[m] \in f[n]
        BY <4>1, <4>2, <4>3, <4>5
      <4>6. ASSUME NEW m \in f[n], NEW q \in f[n], m < q PROVE next[m] <= q
        <5>1. CASE m = n
          BY <1>2, <4>1, <4>2, <4>3, <4>6, <5>1
        <5>2. CASE m # n
          <6>1. m \in f[p] /\ q # n
            BY <1>2, <4>1, <4>2, <4>3, <4>6, <5>2
          <6> QED BY <4>2, <4>3, <4>6, <6>1
        <5> QED BY <5>1, <5>2
      <4> QED BY <4>4, <4>5, <4>6
    <3> QED BY <3>1, <3>2
  <2> HIDE DEF Good
  <2> QED BY <2>1
<1> HIDE DEF T
<1>8. L \in T
  BY <1>2, <1>6, <1>7, NumberInduction
<1>9. Good(f[0], 0)
  BY <1>2, <1>8 DEF T
<1>10. \A n \in f[0] : n \in Nat /\ next[n] = n + 1 + Marked(c, n)
  BY <1>9, SMTT(60) DEF next
<1>11. Spaced(c, f[0])
  BY <1>9, <1>10, SMTT(60) DEF Spaced, L
<1>12. c # <<>> => 0 \in f[0]
  BY <1>9, EmptySeq DEF L
<1> QED BY <1>1, <1>11, <1>12

-----------------------------------------------------------------------------
(* The sizes of the sections *)

Sum(s) == FoldLeft(+, 0, s)
SumSteps(s) == [k \in 1..Len(s) |-> [v \in Nat |-> v + s[k]]]

LEMMA SumFolds ==
    ASSUME NEW s \in Seq(Nat)
    PROVE  \E h : Steps(h, Len(s), 0, SumSteps(s), Nat) /\ Sum(s) = h[1..Len(s)]
<1> DEFINE n == Len(s)
           S == 1..n
           step == SumSteps(s)
           Folds(g) == g = [u \in SUBSET S |->
                              IF u = {} THEN 0 ELSE g[u \ {Max(u)}] + s[Max(u)]]
           iter == CHOOSE g : Folds(g)
<1>1. n \in Nat /\ DOMAIN s = S /\ \A k \in S : s[k] \in Nat
  BY ElementOfSeq
<1>2. \A k \in S, v \in Nat : step[k][v] \in Nat
  BY <1>1 DEF SumSteps
<1>3. StepsOver(step, n, Nat)
  BY <1>2 DEF StepsOver
<1>4. PICK h \in [SUBSET S -> Nat] : Iteration(h, n, 0, step)
  <2> HIDE DEF step, n
  <2> QED BY <1>1, <1>3, SequenceRecursion
<1>5. \A u \in SUBSET S : u # {} => Max(u) \in S /\ u \ {Max(u)} \in SUBSET S
  BY <1>1, MaxIsLargest
<1>6. Folds(h)
  <2>1. \A u \in SUBSET S : u # {} => h[u] = h[u \ {Max(u)}] + s[Max(u)]
    BY <1>4, <1>5 DEF Iteration, SumSteps
  <2>2. h[{}] = 0 /\ h = [u \in SUBSET S |-> h[u]]
    BY <1>4 DEF Iteration
  <2> QED BY <2>1, <2>2
<1>7. Folds(iter)
  BY <1>6
<1>8. Sum(s) = iter[S]
  BY <1>1 DEF Sum, FoldLeft, MapThenFoldSet
<1> HIDE DEF iter
<1>9. /\ iter[{}] = 0
      /\ \A u \in SUBSET S : u # {} => iter[u] = iter[u \ {Max(u)}] + s[Max(u)]
  BY <1>7
<1>10. 1..0 = {} /\ iter[1..0] = 0
  BY <1>9
<1>11. ASSUME NEW k \in 1..n PROVE iter[1..k] = iter[1..(k - 1)] + s[k]
  <2>1. 1..k \in SUBSET S /\ k \in Nat \ {0}
    BY <1>1
  <2>2. Max(1..k) = k /\ (1..k) \ {k} = 1..(k - 1) /\ 1..k # {}
    BY <2>1, MaxOfPrefix
  <2> QED BY <1>9, <2>1, <2>2
<1>12. Follows(iter, n, step, Nat)
  BY <1>11 DEF Follows, SumSteps
<1>13. Steps(iter, n, 0, step, Nat)
  <2> HIDE DEF step, n
  <2> QED BY <1>1, <1>3, <1>10, <1>12, StepsFollow
<1> QED BY <1>8, <1>13

\* The sums of the first sizes grow.
LEMMA PrefixSums ==
    ASSUME NEW s \in Seq(Nat)
    PROVE  /\ \A k \in 0..Len(s) : Sum(SubSeq(s, 1, k)) \in Nat
           /\ \A j, k \in 0..Len(s) : j <= k => Sum(SubSeq(s, 1, j)) <= Sum(SubSeq(s, 1, k))
<1> DEFINE n == Len(s)
<1>1. n \in Nat /\ \A k \in 1..n : s[k] \in Nat
  BY ElementOfSeq
<1>2. PICK h : Steps(h, n, 0, SumSteps(s), Nat)
  BY SumFolds
<1>3. ASSUME NEW k \in 0..n PROVE Sum(SubSeq(s, 1, k)) = h[1..k]
  <2> DEFINE t == SubSeq(s, 1, k)
  <2>1. t \in Seq(Nat) /\ Len(t) = k /\ \A j \in 1..k : t[j] = s[j]
    <3>1. 1 \in 1..Len(s) + 1 /\ k \in 1 - 1..Len(s)
      BY <1>1
    <3> QED BY <3>1, <1>1, SubSeqProperties
  <2> HIDE DEF t
  <2>2. PICK g : Steps(g, k, 0, SumSteps(t), Nat) /\ Sum(t) = g[1..k]
    BY <2>1, SumFolds
  <2>3. \A j \in 1..k : \A v \in Nat : SumSteps(t)[j][v] = SumSteps(s)[j][v]
    BY <1>1, <2>1 DEF SumSteps
  <2>4. k \in Nat /\ k <= n
    BY <1>1
  <2> DEFINE a == SumSteps(s)
             b == SumSteps(t)
  <2>5. /\ Steps(h, n, 0, a, Nat) /\ Steps(g, k, 0, b, Nat)
        /\ \A j \in 1..k : \A v \in Nat : b[j][v] = a[j][v]
    BY <1>2, <2>2, <2>3
  <2> HIDE DEF a, b, n
  <2>6. g[1..k] = h[1..k]
    BY <1>1, <2>4, <2>5, StepsUnique
  <2> QED BY <2>2, <2>6 DEF t
<1>4. ASSUME NEW k \in 1..n PROVE h[1..k] \in Nat /\ h[1..(k - 1)] \in Nat /\ h[1..(k - 1)] <= h[1..k]
  <2>1. h[1..k] \in Nat /\ h[1..(k - 1)] \in Nat /\ s[k] \in Nat
    BY <1>1, <1>2 DEF Steps
  <2>2. h[1..k] = h[1..(k - 1)] + s[k]
    BY <1>1, <1>2, <2>1 DEF Steps, SumSteps
  <2> QED BY <2>1, <2>2
<1>5. \A k \in 0..n : h[1..k] \in Nat
  BY <1>2 DEF Steps
<1> HIDE DEF n
<1> DEFINE T == {k \in Nat : k <= n => \A j \in 0..k : h[1..j] <= h[1..k]}
<1>6. 0 \in T
  BY <1>1, <1>5
<1>7. ASSUME NEW k \in Nat, k \in T PROVE k + 1 \in T
  <2>1. ASSUME k + 1 <= n, NEW j \in 0..k + 1 PROVE h[1..j] <= h[1..(k + 1)]
    <3>1. k + 1 \in 1..n /\ (k + 1) - 1 = k /\ k <= n
      BY <1>1, <2>1
    <3>2. h[1..k] \in Nat /\ h[1..(k + 1)] \in Nat /\ h[1..k] <= h[1..(k + 1)] /\ h[1..j] \in Nat
      BY <1>1, <1>4, <1>5, <2>1, <3>1
    <3>3. CASE j = k + 1
      BY <3>2, <3>3
    <3>4. CASE j \in 0..k
      <4>1. h[1..j] <= h[1..k]
        BY <1>7, <3>1, <3>4
      <4> QED BY <3>2, <4>1
    <3> QED BY <3>3, <3>4
  <2> QED BY <2>1
<1> HIDE DEF T
<1>8. \A k \in Nat : k \in T
  BY <1>6, <1>7, NumberInduction
<1>9. \A j, k \in 0..n : j <= k => h[1..j] <= h[1..k]
  BY <1>1, <1>8 DEF T
<1> QED BY <1>3, <1>5, <1>9 DEF n

\* A binary is as its assumption says.
LEMMA BinaryParts ==
    ASSUME NEW b \in Binaries
    PROVE  /\ b.code \in Seq(Seq(0..255)) /\ b.code # <<>> /\ Len(b.code) \in Nat \ {0}
           /\ Len(b.types) = Len(b.code)
           /\ \A k \in 1..Len(b.code) :
                 /\ b.code[k] \in Seq(0..255) /\ Len(b.code[k]) \in Nat
                 /\ b.types[k].input \in 0..255 /\ b.types[k].output \in 0..255
                 /\ b.types[k].max_stack_height \in Nat
<1>1. /\ b.types \in Seq([input : 0..255, output : 0..255, max_stack_height : Nat])
      /\ b.code \in Seq(Seq(0..255)) /\ b.code # <<>> /\ Len(b.types) = Len(b.code)
  BY BinaryAssumption, ZenonT(60)
<1>2. Len(b.code) \in Nat \ {0}
  BY <1>1, EmptySeq
<1>3. ASSUME NEW k \in 1..Len(b.code)
      PROVE  /\ b.code[k] \in Seq(0..255) /\ Len(b.code[k]) \in Nat
             /\ b.types[k].input \in 0..255 /\ b.types[k].output \in 0..255
             /\ b.types[k].max_stack_height \in Nat
  <2>1. b.code[k] \in Seq(0..255)
    BY <1>1, ElementOfSeq
  <2>2. b.types[k] \in [input : 0..255, output : 0..255, max_stack_height : Nat]
    BY <1>1, ElementOfSeq, ZenonT(60)
  <2> QED BY <2>1, <2>2, SMTT(60)
<1> QED BY <1>1, <1>2, <1>3, Zenon

LEMMA Sizes ==
    ASSUME NEW b \in Binaries
    PROVE  /\ DeclaredSize(b) \in Nat
           /\ Len(b.code_sizes) \in Nat
           /\ \A k \in 0..Len(b.code_sizes) :
                 Contents(b) + b.type_size + CodeSize(b, k) <= DeclaredSize(b)
           /\ Contents(b) + b.type_size <= DeclaredSize(b)
           /\ Contents(b) \in Nat /\ b.type_size \in Nat
<1> DEFINE s == b.code_sizes
           n == Len(s)
<1>1. s \in Seq(0..U16 - 1) /\ b.type_size \in 0..U16 - 1 /\ b.data_size \in 0..U16 - 1
  BY BinaryAssumption, ZenonT(60)
<1>2. s \in Seq(Nat) /\ b.type_size \in Nat /\ b.data_size \in Nat
  BY <1>1, EofCodeAssumption
<1>3. n \in Nat
  BY <1>2
<1> HIDE DEF s
<1>4. \A k \in 0..n : CodeSize(b, k) = Sum(SubSeq(s, 1, k))
  BY DEF CodeSize, Sum, s
<1>5. \A k \in 0..n : CodeSize(b, k) \in Nat /\ CodeSize(b, k) <= CodeSize(b, n)
  BY <1>2, <1>3, <1>4, PrefixSums, SMTT(60)
<1>6. Contents(b) \in Nat
  BY <1>3 DEF Contents, offset_data_kind, s
<1> DEFINE fixed == Contents(b)
           all == CodeSize(b, n)
<1>7. DeclaredSize(b) = fixed + b.type_size + all + b.data_size
  BY DEF DeclaredSize, s
<1>8. all \in Nat /\ fixed \in Nat
  BY <1>3, <1>5, <1>6
<1> HIDE DEF fixed, all
<1>9. DeclaredSize(b) \in Nat /\ fixed + b.type_size <= DeclaredSize(b)
  BY <1>2, <1>7, <1>8
<1>10. ASSUME NEW k \in 0..n PROVE fixed + b.type_size + CodeSize(b, k) <= DeclaredSize(b)
  <2>1. CodeSize(b, k) \in Nat /\ CodeSize(b, k) <= all
    BY <1>5 DEF all
  <2> QED BY <1>2, <1>7, <1>8, <2>1
<1> QED BY <1>2, <1>3, <1>6, <1>9, <1>10 DEF fixed, s

\* What unmarshal_binary leaves of a binary it takes: sections that are not
\* empty, with valid types.
WholeOf(b) ==
    /\ \A s \in DOMAIN b.code : b.code[s] # <<>> /\ assert_valid(b.types[s])
    /\ b.types[1].input = 0 /\ b.types[1].output = 0

LEMMA Unmarshalled ==
    ASSUME NEW b \in Binaries, ~UnmarshalError(b)
    PROVE  IF b.len < DeclaredSize(b) THEN DeclaredSize(b) >= U16 ELSE WholeOf(b)
<1>1. b.len \in Nat /\ DeclaredSize(b) \in Nat /\ U16 \in Nat \ {0}
  BY Sizes, BinaryAssumption, EofCodeAssumption, ZenonT(60)
<1>2. HeaderAccepted(b)
  BY DEF UnmarshalError
<1>3. b.len = DeclaredSize(b) % U16
  BY <1>2 DEF HeaderAccepted, expected_size
<1>4. ASSUME b.len < DeclaredSize(b) PROVE DeclaredSize(b) >= U16
  <2> SUFFICES ASSUME DeclaredSize(b) < U16 PROVE FALSE
    BY <1>1
  <2>1. DeclaredSize(b) % U16 = DeclaredSize(b)
    BY <1>1
  <2> QED BY <1>1, <1>3, <1>4, <2>1
<1>5. ASSUME ~(b.len < DeclaredSize(b)) PROVE WholeOf(b)
  <2>1. DeclaredSize(b) % U16 <= DeclaredSize(b)
    BY <1>1, Z3
  <2>2. b.len = DeclaredSize(b)
    BY <1>1, <1>3, <1>5, <2>1
  <2>3. b.code_sizes = [k \in DOMAIN b.code |-> Len(b.code[k])]
    BY <2>2, BinaryAssumption
  <2>4. DOMAIN b.code_sizes = DOMAIN b.code /\ DOMAIN b.code = 1..Len(b.code)
    BY <2>3, BinaryParts, SMTT(60)
  <2>5. Len(b.code_sizes) = Len(b.code) /\ DOMAIN b.code_sizes = 1..Len(b.code_sizes)
    <3>1. b.code_sizes \in Seq(0..U16 - 1)
      BY BinaryAssumption, ZenonT(60)
    <3> QED BY <2>4, <3>1, BinaryParts, SMTT(60)
  <2>6. /\ Len(b.code_sizes) = b.type_size \div 4 /\ b.type_size % 4 = 0
    BY <1>2 DEF HeaderAccepted
  <2>7. b.type_size = 4 * Len(b.code_sizes)
    <3>1. b.type_size \in Nat
      BY Sizes
    <3> QED BY <2>6, <3>1
  <2>8. ASSUME NEW k \in DOMAIN b.code PROVE b.code[k] # <<>> /\ assert_valid(b.types[k])
    <3>1. k \in DOMAIN b.code_sizes /\ k \in 1..Len(b.code_sizes)
      BY <2>4, <2>5
    <3>2. Contents(b) + 4 * k <= b.len
      BY <2>2, <2>7, <3>1, Sizes
    <3>3. assert_valid(b.types[k])
      BY <3>1, <3>2 DEF UnmarshalError
    <3>4. \A j \in 1..k - 1 : Contents(b) + b.type_size + CodeSize(b, j) <= b.len
      BY <2>2, <3>1, Sizes
    <3>5. b.code_sizes[k] # 0
      BY <2>2, <3>1, <3>4, Sizes DEF UnmarshalError
    <3>6. Len(b.code[k]) # 0
      BY <2>3, <3>5
    <3> QED BY <3>3, <3>6
  <2>9. b.types[1].input = 0 /\ b.types[1].output = 0
    BY <2>2, Sizes DEF UnmarshalError
  <2> QED BY <2>8, <2>9 DEF WholeOf
<1> QED BY <1>4, <1>5

-----------------------------------------------------------------------------
(* The invariant, of a container b, a section s with code c, and the       *)
(* heights hs the walk found there                                         *)

Starts(c) == eof_code_bitmap(c)
HasTable(c) == \E n \in Starts(c) : get_or_default(c, n) = RJUMPV

\* What the scan finds of an instruction, as far as the walk relies on it
Fits(c, n) == n + Immediate(c, n) < Len(c) /\ check_dest(c, n)

Passed(c, k) == {n \in Starts(c) : n < k}

\* The scan at k has found every instruction before it, op being the last one
Scanning(c, k, count, op) ==
    /\ k \in 0..Len(c)
    /\ HasTable(c) \/ count = Cardinality(Passed(c, k))
    /\ ~LongTable(c) =>
          /\ k < Len(c) => k \in Starts(c)
          /\ \A n \in Passed(c, k) :
                /\ Fits(c, n) /\ n + 1 + Immediate(c, n) <= k
                /\ n + 1 + Immediate(c, n) = k => op = get_or_default(c, n)

Scanned(c) ==
    \A n \in Starts(c) :
        /\ Fits(c, n)
        /\ n + 1 + Immediate(c, n) = Len(c) => is_terminal_opcode(get_or_default(c, n))

\* What validate_control_flow computes for the instruction at n, reached with
\* h words
OwnHeight(op, h) == h + STACK_LIMIT - OPCODE_INFO[op].max_stack
Called(c, n) == get_u16_or_default(c, n + 1) + 1
HeightAfter(b, c, n, h) ==
    LET own == OwnHeight(get_or_default(c, n), h)
        callee == b.types[Called(c, n)]
    IN  IF get_or_default(c, n) = CALLF THEN own - callee.input + callee.output ELSE own

\* FlowAccepted, of any section, position and height
Takes(b, s, n, h) ==
    LET c == b.code[s]
        op == get_or_default(c, n)
        callee == b.types[Called(c, n)] IN
    /\ is_opcode_valid(op)
    /\ OPCODE_INFO[op].min_stack <= h /\ h <= OPCODE_INFO[op].max_stack
    /\ op = CALLF =>
          /\ Called(c, n) <= Len(b.types)
          /\ callee.input <= OwnHeight(op, h) /\ callee.output + OwnHeight(op, h) <= STACK_LIMIT
    /\ op = RETF => b.types[s].output = OwnHeight(op, h)

\* The instructions that may follow the one at n
Onward(c, n) ==
    LET op == get_or_default(c, n) IN
    IF Ends(op) THEN {}
    ELSE IF op = RJUMP THEN {Destinations(c, n)[1]}
    ELSE {n + 1 + Immediate(c, n)}
         \cup (IF op \in {RJUMPI, RJUMPV} THEN ToSet(Destinations(c, n)) ELSE {})

HeightsOf(c) == [0..Len(c) - 1 -> UNVISITED..STACK_LIMIT]
Seen(hs) == {n \in DOMAIN hs : hs[n] # UNVISITED}

\* What was visited is an instruction, accepted at its height, and whatever
\* follows it was visited at the height it leaves, or is still open.
Explored(b, s, hs, most, open) ==
    \A n \in Seen(hs) :
        LET c == b.code[s]
            after == HeightAfter(b, c, n, hs[n]) IN
        /\ n \in Starts(c) /\ Takes(b, s, n, hs[n]) /\ hs[n] <= most
        /\ \A m \in Onward(c, n) :
              m \in Starts(c) /\ (hs[m] = after \/ <<m, after>> \in open)

\* The walk with the positions and heights in open still to be followed
Walking(b, s, hs, update, count, most, open) ==
    LET c == b.code[s] IN
    /\ hs \in HeightsOf(c)
    /\ update = Cardinality(Seen(hs))
    /\ HasTable(c) \/ count = Cardinality(Starts(c))
    /\ ~LongTable(c) =>
          /\ Scanned(c)
          /\ \A x \in open : x[1] \in Starts(c) /\ x[2] \in 0..most
          /\ hs[0] = b.types[s].input \/ <<0, b.types[s].input>> \in open
          /\ Explored(b, s, hs, most, open)

Done(b, s, hs) ==
    /\ hs \in HeightsOf(b.code[s])
    /\ ~LongTable(b.code[s]) =>
          /\ hs[0] = b.types[s].input
          /\ Explored(b, s, hs, b.types[s].max_stack_height, {})
    /\ HasTable(b.code[s]) \/ Seen(hs) = Starts(b.code[s])

-----------------------------------------------------------------------------
(* The scan *)

LEMMA StartsOf ==
    ASSUME NEW c \in Seq(0..255)
    PROVE  /\ IsFiniteSet(Starts(c)) /\ Starts(c) \subseteq 0..Len(c) - 1
           /\ c # <<>> => 0 \in Starts(c)
           /\ Len(c) \in Nat
           /\ LongTable(c) => HasTable(c)
           /\ ~LongTable(c) =>
                 \A n \in Starts(c) :
                    /\ n + 1 + Immediate(c, n) < Len(c) => n + 1 + Immediate(c, n) \in Starts(c)
                    /\ \A m \in Starts(c) : n < m => n + 1 + Immediate(c, n) <= m
<1>1. Spaced(c, Starts(c)) /\ (c # <<>> => 0 \in Starts(c))
  BY Bitmap DEF Starts
<1>2. Len(c) \in Nat /\ Starts(c) \subseteq 0..Len(c) - 1
  BY <1>1 DEF Spaced
<1>3. IsFiniteSet(Starts(c))
  <2>1. 0 \in Int /\ Len(c) - 1 \in Int
    BY <1>2
  <2>2. IsFiniteSet(0..Len(c) - 1)
    BY <2>1, FS_Interval
  <2> QED BY <1>2, <2>2, FS_Subset
<1>4. LongTable(c) => HasTable(c)
  BY DEF LongTable, HasTable, Marked, Starts
<1>5. ~LongTable(c) => \A n \in Starts(c) : Marked(c, n) = Immediate(c, n)
  BY DEF LongTable, Starts
<1> QED BY <1>1, <1>2, <1>3, <1>4, <1>5 DEF Spaced

LEMMA ScanStep ==
    ASSUME NEW c \in Seq(0..255), NEW k, NEW count \in Nat, NEW op, NEW more,
           Scanning(c, k, count, op), k < Len(c), Fits(c, k),
           get_or_default(c, k) # RJUMPV => more = count + 1
    PROVE  Scanning(c, k + 1 + Immediate(c, k), more, get_or_default(c, k))
<1> DEFINE p == k + 1 + Immediate(c, k)
<1>1. k \in 0..Len(c) /\ Len(c) \in Nat
  BY DEF Scanning
<1>2. Immediate(c, k) \in Nat
  <2>1. k \in Int
    BY <1>1
  <2> QED BY <2>1, ImmediateType
<1>3. p \in 0..Len(c) /\ p > k
  BY <1>1, <1>2 DEF Fits
<1>4. ASSUME ~LongTable(c)
      PROVE  /\ k \in Starts(c) /\ (p < Len(c) => p \in Starts(c))
             /\ Passed(c, p) = Passed(c, k) \cup {k}
  <2>1. k \in Starts(c)
    BY <1>4 DEF Scanning
  <2>2. p < Len(c) => p \in Starts(c)
    BY <1>4, <2>1, StartsOf
  <2>3. \A m \in Starts(c) : m \in Int /\ (k < m => p <= m)
    BY <1>1, <1>4, <2>1, StartsOf
  <2> HIDE DEF p
  <2>4. ASSUME NEW m PROVE m \in Passed(c, p) <=> m \in Passed(c, k) \cup {k}
    <3>1. k \in Int /\ p \in Int /\ k < p
      BY <1>1, <1>3
    <3>2. m \in Passed(c, p) <=> m \in Starts(c) /\ m < p
      BY DEF Passed
    <3>3. m \in Passed(c, k) \cup {k} <=> m \in Starts(c) /\ (m < k \/ m = k)
      BY <2>1 DEF Passed
    <3>4. m \in Starts(c) => m \in Int /\ (k < m => p <= m)
      BY <2>3
    <3>5. m \in Starts(c) => (m < p <=> m < k \/ m = k)
      BY <3>1, <3>4
    <3> QED BY <3>2, <3>3, <3>5
  <2> QED BY <2>1, <2>2, <2>4 DEF p
<1>5. HasTable(c) \/ more = Cardinality(Passed(c, p))
  <2> SUFFICES ASSUME ~HasTable(c) PROVE more = Cardinality(Passed(c, p))
    OBVIOUS
  <2>1. ~LongTable(c)
    BY StartsOf
  <2>2. k \in Starts(c) /\ Passed(c, p) = Passed(c, k) \cup {k}
    BY <1>4, <2>1
  <2>3. get_or_default(c, k) # RJUMPV
    BY <2>2 DEF HasTable
  <2>4. IsFiniteSet(Passed(c, k)) /\ k \notin Passed(c, k)
    <3>1. Passed(c, k) \subseteq Starts(c) /\ k \notin Passed(c, k)
      BY <1>1 DEF Passed
    <3> QED BY <3>1, StartsOf, FS_Subset
  <2>5. Cardinality(Passed(c, k) \cup {k}) = Cardinality(Passed(c, k)) + 1
    BY <2>4, FS_AddElement
  <2>6. count = Cardinality(Passed(c, k))
    BY DEF Scanning
  <2> QED BY <2>2, <2>3, <2>5, <2>6
<1>6. ASSUME ~LongTable(c), NEW n \in Passed(c, p)
      PROVE  /\ Fits(c, n) /\ n + 1 + Immediate(c, n) <= p
             /\ n + 1 + Immediate(c, n) = p => get_or_default(c, k) = get_or_default(c, n)
  <2>1. CASE n = k
    BY <1>1, <1>2, <2>1
  <2>2. CASE n # k
    <3>1. n \in Passed(c, k)
      BY <1>4, <1>6, <2>2
    <3>2. Fits(c, n) /\ n + 1 + Immediate(c, n) <= k
      BY <1>6, <3>1 DEF Scanning
    <3>3. n \in Nat
      BY <3>1, StartsOf DEF Passed
    <3>4. Immediate(c, n) \in Nat
      BY <3>3, ImmediateType
    <3> HIDE DEF p
    <3> QED BY <1>1, <1>3, <3>2, <3>3, <3>4
  <2> QED BY <2>1, <2>2
<1> QED BY <1>3, <1>4, <1>5, <1>6 DEF Scanning

LEMMA ScanDone ==
    ASSUME NEW c \in Seq(0..255), NEW k, NEW count, NEW op,
           Scanning(c, k, count, op), k >= Len(c), is_terminal_opcode(op)
    PROVE  /\ HasTable(c) \/ count = Cardinality(Starts(c))
           /\ ~LongTable(c) => Scanned(c)
<1>1. k = Len(c)
  BY DEF Scanning
<1>2. Passed(c, k) = Starts(c)
  BY <1>1, StartsOf DEF Passed
<1>3. ASSUME ~LongTable(c) PROVE Scanned(c)
  BY <1>1, <1>2, <1>3 DEF Scanning, Scanned
<1> QED BY <1>2, <1>3 DEF Scanning

-----------------------------------------------------------------------------
(* The walk *)

LEMMA DestinationsType ==
    ASSUME NEW c \in Seq(0..255), NEW n \in Nat
    PROVE  /\ Destinations(c, n) \in Seq(Int)
           /\ get_or_default(c, n) \in {RJUMP, RJUMPI} =>
                 1 \in DOMAIN Destinations(c, n) /\ Destinations(c, n)[1] \in Int
           /\ get_or_default(c, n) = RJUMPV =>
                 DOMAIN Destinations(c, n) = 1..get_or_default(c, n + 1)
<1> DEFINE op == get_or_default(c, n)
           count == get_or_default(c, n + 1)
           table == [j \in 1..count |-> n + 2 + 2 * count + get_i16_or_default(c, n + 2 * j)]
           single == n + 3 + get_i16_or_default(c, n + 1)
<1>1. count \in 0..255
  <2>1. n + 1 \in Int
    OBVIOUS
  <2> QED BY <2>1, ByteAt
<1>2. single \in Int
  <2>1. n + 1 \in Nat /\ n + 1 \in Int
    OBVIOUS
  <2>2. get_i16_or_default(c, n + 1) \in Int
    BY <2>1, ByteAt
  <2> QED BY <2>2
<1>3. table \in Seq(Int)
  <2>1. ASSUME NEW j \in 1..count
        PROVE  n + 2 + 2 * count + get_i16_or_default(c, n + 2 * j) \in Int
    <3>1. n + 2 * j \in Nat /\ n + 2 * j \in Int
      BY <1>1
    <3>2. get_i16_or_default(c, n + 2 * j) \in Int
      BY <3>1, ByteAt
    <3> HIDE DEF count
    <3> QED BY <1>1, <3>2
  <2> HIDE DEF count
  <2>2. table \in [1..count -> Int] /\ count \in Nat
    BY <1>1, <2>1
  <2> HIDE DEF table
  <2> QED BY <2>2, IsASeq
<1>4. Destinations(c, n) = IF op \in {RJUMP, RJUMPI} THEN <<single>>
                           ELSE IF op = RJUMPV THEN table ELSE <<>>
  BY DEF Destinations
<1>5. DOMAIN table = 1..count
  OBVIOUS
<1> HIDE DEF op, count, table, single
<1>6. <<single>> \in Seq(Int) /\ <<single>>[1] = single /\ 1 \in DOMAIN <<single>> /\ <<>> \in Seq(Int)
  BY <1>2
<1>7. op = RJUMPV => op \notin {RJUMP, RJUMPI}
  BY DEF RJUMP, RJUMPI, RJUMPV
<1>8. Destinations(c, n) \in Seq(Int)
  BY <1>3, <1>4, <1>6
<1> QED BY <1>2, <1>4, <1>5, <1>6, <1>7, <1>8 DEF op, count

LEMMA OnwardStarts ==
    ASSUME NEW c \in Seq(0..255), Scanned(c), ~LongTable(c),
           NEW n \in Starts(c), NEW m \in Onward(c, n)
    PROVE  m \in Starts(c)
<1> DEFINE op == get_or_default(c, n)
           p == n + 1 + Immediate(c, n)
<1>1. /\ Fits(c, n)
      /\ p = Len(c) => is_terminal_opcode(op)
  BY DEF Scanned
<1>2. n \in Nat /\ Len(c) \in Nat
  BY StartsOf
<1>3. \A d \in ToSet(Destinations(c, n)) : d \in Starts(c)
  BY <1>1 DEF Fits, check_dest, Starts
<1>4. CASE op = RJUMP
  <2>1. Destinations(c, n)[1] \in ToSet(Destinations(c, n))
    <3>1. 1 \in DOMAIN Destinations(c, n)
      BY <1>2, <1>4, DestinationsType
    <3> QED BY <3>1 DEF ToSet
  <2>2. m = Destinations(c, n)[1]
    BY <1>4 DEF Onward, Ends
  <2> QED BY <1>3, <2>1, <2>2
<1>5. CASE op # RJUMP
  <2>1. ~is_terminal_opcode(op)
    BY <1>5 DEF Onward, Ends
  <2>2. m = p \/ m \in ToSet(Destinations(c, n))
    BY <1>5 DEF Onward
  <2>3. p \in Starts(c)
    <3>1. Immediate(c, n) \in Nat
      BY <1>2, ImmediateType
    <3>2. p # Len(c)
      BY <1>1, <2>1
    <3>3. p < Len(c)
      BY <1>1, <1>2, <3>1, <3>2 DEF Fits
    <3> QED BY <3>3, StartsOf
  <2> QED BY <1>3, <2>2, <2>3
<1> QED BY <1>4, <1>5

LEMMA HeightBounds ==
    ASSUME NEW b \in Binaries, NEW s \in 1..Len(b.code), NEW n \in Nat,
           NEW h \in 0..STACK_LIMIT, Takes(b, s, n, h)
    PROVE  LET c == b.code[s]
               op == get_or_default(c, n) IN
           /\ OwnHeight(op, h) \in 0..STACK_LIMIT
           /\ HeightAfter(b, c, n, h) \in 0..STACK_LIMIT
           /\ op # CALLF => HeightAfter(b, c, n, h) = OwnHeight(op, h)
           /\ op = CALLF => /\ Called(c, n) \in 1..Len(b.types)
                            /\ OwnHeight(op, h) = h
                            /\ b.types[Called(c, n)].input <= h
                            /\ HeightAfter(b, c, n, h) =
                                  h - b.types[Called(c, n)].input + b.types[Called(c, n)].output
           /\ op = RETF => b.types[s].output = h
<1> DEFINE c == b.code[s]
           op == get_or_default(c, n)
           own == OwnHeight(op, h)
           callee == b.types[Called(c, n)]
<1>1. /\ op \in DOMAIN OPCODE_INFO
      /\ OPCODE_INFO[op].min_stack <= h /\ h <= OPCODE_INFO[op].max_stack
      /\ op = CALLF => /\ Called(c, n) <= Len(b.types)
                       /\ callee.input <= own /\ callee.output + own <= STACK_LIMIT
      /\ op = RETF => b.types[s].output = own
  BY DEF Takes, is_opcode_valid
<1>2. /\ OPCODE_INFO[op].min_stack \in 0..17
      /\ OPCODE_INFO[op].max_stack \in STACK_LIMIT - 17..STACK_LIMIT + 17
      /\ STACK_LIMIT + OPCODE_INFO[op].min_stack - OPCODE_INFO[op].max_stack \in 0..17
  BY <1>1, InfoBounds
<1>3. op \in {CALLF, RETF} => OPCODE_INFO[op].max_stack = STACK_LIMIT
  BY Jumps
<1>4. own = h + STACK_LIMIT - OPCODE_INFO[op].max_stack
  BY DEF OwnHeight
<1>5. HeightAfter(b, c, n, h) = IF op = CALLF THEN own - callee.input + callee.output ELSE own
  BY DEF HeightAfter
<1>6. op = CALLF => Called(c, n) \in 1..Len(b.types)
  <2>1. c \in Seq(0..255) /\ n + 1 \in Nat /\ n + 1 \in Int /\ Len(b.types) \in Nat
    BY BinaryParts, SMTT(60)
  <2>2. get_u16_or_default(c, n + 1) \in Nat
    BY <2>1, ByteAt
  <2> QED BY <1>1, <2>1, <2>2 DEF Called
<1>7. op = CALLF => callee.input \in 0..255 /\ callee.output \in 0..255
  BY <1>6, BinaryParts, ZenonT(60)
<1> HIDE DEF op, own, callee, c
<1> DEFINE least == OPCODE_INFO[op].min_stack
           top == OPCODE_INFO[op].max_stack
<1>8. own \in 0..STACK_LIMIT /\ (op \in {CALLF, RETF} => own = h)
  <2>1. /\ least \in 0..17 /\ top \in STACK_LIMIT - 17..STACK_LIMIT + 17
        /\ STACK_LIMIT + least - top \in 0..17
        /\ least <= h /\ h <= top /\ own = h + STACK_LIMIT - top
        /\ op \in {CALLF, RETF} => top = STACK_LIMIT
    BY <1>1, <1>2, <1>3, <1>4
  <2> HIDE DEF least, top
  <2>2. own \in Int /\ own <= STACK_LIMIT /\ own >= 0
    BY <2>1, StackLimitAssumption
  <2>3. op \in {CALLF, RETF} => own = h
    BY <2>1, StackLimitAssumption
  <2> QED BY <2>2, <2>3, StackLimitAssumption
<1>9. op \in {CALLF, RETF} => own = h
  BY <1>8
<1>10. CASE op = CALLF
  <2>1. HeightAfter(b, c, n, h) = h - callee.input + callee.output
    BY <1>5, <1>9, <1>10
  <2>2. callee.input <= h /\ callee.output + h <= STACK_LIMIT /\ callee.input \in 0..255
        /\ callee.output \in 0..255
    BY <1>1, <1>7, <1>9, <1>10
  <2> DEFINE in == callee.input
             out == callee.output
  <2>3. HeightAfter(b, c, n, h) \in 0..STACK_LIMIT
    <3>1. in <= h /\ out + h <= STACK_LIMIT /\ in \in 0..255 /\ out \in 0..255
      BY <2>2
    <3> HIDE DEF in, out
    <3>2. h - in + out \in 0..STACK_LIMIT
      BY <3>1, StackLimitAssumption
    <3> QED BY <2>1, <3>2 DEF in, out
  <2>4. op # RETF
    BY <1>10 DEF CALLF, RETF
  <2> QED BY <1>6, <1>8, <1>9, <1>10, <2>1, <2>2, <2>3, <2>4, Zenon DEF op, own, callee, c
<1>11. CASE op # CALLF
  BY <1>1, <1>5, <1>8, <1>9, <1>11 DEF op, own, callee, c
<1> QED BY <1>10, <1>11

\* Starting a walk
LEMMA WalkStart ==
    ASSUME NEW b \in Binaries, NEW s \in 1..Len(b.code), b.code[s] # <<>>,
           NEW count, HasTable(b.code[s]) \/ count = Cardinality(Starts(b.code[s])),
           ~LongTable(b.code[s]) => Scanned(b.code[s])
    PROVE  Walking(b, s, [n \in 0..Len(b.code[s]) - 1 |-> UNVISITED], 0, count,
                   b.types[s].input, {<<0, b.types[s].input>>})
<1> DEFINE c == b.code[s]
           hs == [n \in 0..Len(c) - 1 |-> UNVISITED]
           in == b.types[s].input
<1>1. hs \in HeightsOf(c)
  BY StackLimitAssumption DEF HeightsOf, UNVISITED
<1>2. Seen(hs) = {}
  BY DEF Seen
<1>3. c \in Seq(0..255) /\ in \in 0..255
  BY BinaryParts, ZenonT(60)
<1>4. 0 \in Starts(c)
  BY <1>3, StartsOf
<1>5. Cardinality(Seen(hs)) = 0
  BY <1>2, FS_EmptySet
<1>6. Explored(b, s, hs, in, {<<0, in>>})
  BY <1>2 DEF Explored
<1> HIDE DEF hs, in
<1>7. \A x \in {<<0, in>>} : x[1] \in Starts(c) /\ x[2] \in 0..in
  <2>1. in \in 0..in
    BY <1>3
  <2> QED BY <1>4, <2>1
<1>8. <<0, in>> \in {<<0, in>>}
  OBVIOUS
<1>9. Walking(b, s, hs, 0, count, in, {<<0, in>>})
  BY <1>1, <1>5, <1>6, <1>7, <1>8 DEF Walking, in
<1> QED BY <1>9 DEF hs, in

\* A path that meets a position seen before ends, and leaves nothing open.
LEMMA WalkRevisit ==
    ASSUME NEW b, NEW s, NEW hs, NEW update, NEW count, NEW most, NEW open,
           Walking(b, s, hs, update, count, most, open),
           NEW rest \in SUBSET open,
           \A x \in open : x \in rest \/ hs[x[1]] = x[2]
    PROVE  Walking(b, s, hs, update, count, most, rest)
<1>1. hs[0] = b.types[s].input \/ <<0, b.types[s].input>> \notin open
      \/ <<0, b.types[s].input>> \in rest
  OBVIOUS
<1>2. ASSUME Explored(b, s, hs, most, open) PROVE Explored(b, s, hs, most, rest)
  BY <1>2 DEF Explored
<1> QED BY <1>1, <1>2 DEF Walking

\* An instruction is visited: the paths that go on from it are open.
LEMMA WalkVisit ==
    ASSUME NEW b \in Binaries, NEW s \in 1..Len(b.code), NEW hs, NEW update, NEW count,
           NEW most \in Nat, NEW open, Walking(b, s, hs, update, count, most, open),
           NEW p \in DOMAIN hs, hs[p] = UNVISITED, NEW h \in 0..STACK_LIMIT, Takes(b, s, p, h),
           NEW larger \in Nat, NEW rest,
           ~LongTable(b.code[s]) =>
              /\ <<p, h>> \in open
              /\ larger >= most
              /\ \A x \in open : x \in rest \/ x = <<p, h>>
              /\ \A m \in Onward(b.code[s], p) :
                    <<m, HeightAfter(b, b.code[s], p, h)>> \in rest
              /\ \A x \in rest :
                    \/ x \in open
                    \/ x[1] \in Onward(b.code[s], p) /\ x[2] \in 0..larger
    PROVE  Walking(b, s, [hs EXCEPT ![p] = h], update + 1, count, larger, rest)
<1> DEFINE c == b.code[s]
           gs == [hs EXCEPT ![p] = h]
           after(n, k) == HeightAfter(b, c, n, k)
<1>1. hs \in HeightsOf(c) /\ DOMAIN hs = 0..Len(c) - 1 /\ c \in Seq(0..255)
  BY BinaryParts, ZenonT(60) DEF Walking, HeightsOf
<1>2. gs \in HeightsOf(c) /\ DOMAIN gs = DOMAIN hs /\ gs[p] = h
      /\ \A n \in DOMAIN hs : n # p => gs[n] = hs[n]
  <2>1. h \in UNVISITED..STACK_LIMIT
    BY DEF UNVISITED
  <2> QED BY <1>1, <2>1 DEF HeightsOf
<1>3. h # UNVISITED
  BY DEF UNVISITED
<1>4. Seen(gs) = Seen(hs) \cup {p} /\ p \notin Seen(hs)
  BY <1>2, <1>3 DEF Seen
<1>5. update + 1 = Cardinality(Seen(gs))
  <2>1. IsFiniteSet(Seen(hs))
    <3>1. Seen(hs) \subseteq 0..Len(c) - 1
      BY <1>1 DEF Seen
    <3>2. 0 \in Int /\ Len(c) - 1 \in Int
      BY <1>1
    <3> QED BY <3>1, <3>2, FS_Interval, FS_Subset
  <2>2. Cardinality(Seen(hs) \cup {p}) = Cardinality(Seen(hs)) + 1
    BY <1>4, <2>1, FS_AddElement
  <2> QED BY <1>4, <2>2 DEF Walking
<1> HIDE DEF gs
<1>6. ASSUME ~LongTable(c)
      PROVE  /\ Scanned(c)
             /\ \A x \in rest : x[1] \in Starts(c) /\ x[2] \in 0..larger
             /\ gs[0] = b.types[s].input \/ <<0, b.types[s].input>> \in rest
             /\ Explored(b, s, gs, larger, rest)
  <2> DEFINE in == b.types[s].input
  <2>1. /\ Scanned(c)
        /\ \A x \in open : x[1] \in Starts(c) /\ x[2] \in 0..most
        /\ hs[0] = in \/ <<0, in>> \in open
        /\ Explored(b, s, hs, most, open)
    BY <1>6 DEF Walking
  <2>2. p \in Starts(c) /\ h <= most
    BY <1>6, <2>1
  <2>3. \A m \in Onward(c, p) : m \in Starts(c) /\ <<m, after(p, h)>> \in rest
    BY <1>1, <1>6, <2>1, <2>2, OnwardStarts
  <2>4. ASSUME NEW x \in rest PROVE x[1] \in Starts(c) /\ x[2] \in 0..larger
    <3>1. CASE x \in open
      <4>1. x[1] \in Starts(c) /\ x[2] \in 0..most
        BY <2>1, <3>1
      <4> QED BY <1>6, <4>1
    <3>2. CASE x[1] \in Onward(c, p) /\ x[2] \in 0..larger
      BY <2>3, <3>2
    <3> QED BY <1>6, <3>1, <3>2
  <2>5. gs[0] = in \/ <<0, in>> \in rest
    <3>1. 0 \in DOMAIN hs
      BY <1>1, StartsOf, <2>2
    <3>2. in # UNVISITED
      <4>1. in \in 0..255
        BY BinaryParts, ZenonT(60)
      <4> HIDE DEF in
      <4> QED BY <4>1 DEF UNVISITED
    <3>3. CASE hs[0] = in
      BY <1>2, <3>1, <3>2, <3>3
    <3>4. CASE <<0, in>> \in open
      <4>1. <<0, in>> \in rest \/ <<0, in>> = <<p, h>>
        BY <1>6, <3>4
      <4> QED BY <1>2, <4>1
    <3> QED BY <2>1, <3>3, <3>4
  <2>6. ASSUME NEW n \in Seen(gs)
        PROVE  /\ n \in Starts(c) /\ Takes(b, s, n, gs[n]) /\ gs[n] <= larger
               /\ \A m \in Onward(c, n) :
                     m \in Starts(c) /\ (gs[m] = after(n, gs[n]) \/ <<m, after(n, gs[n])>> \in rest)
    <3>1. CASE n = p
      BY <1>2, <1>6, <2>2, <2>3, <3>1
    <3>2. CASE n # p
      <4>1. n \in Seen(hs) /\ gs[n] = hs[n]
        BY <1>2, <1>4, <3>2 DEF Seen
      <4>2. /\ n \in Starts(c) /\ Takes(b, s, n, hs[n]) /\ hs[n] <= most
            /\ \A m \in Onward(c, n) :
                  m \in Starts(c) /\ (hs[m] = after(n, hs[n]) \/ <<m, after(n, hs[n])>> \in open)
        BY <2>1, <4>1 DEF Explored
      <4>3. hs[n] \in 0..STACK_LIMIT /\ n \in Nat
        BY <1>1, <4>1 DEF Seen, HeightsOf, UNVISITED
      <4>4. after(n, hs[n]) # UNVISITED
        <5>1. after(n, hs[n]) \in 0..STACK_LIMIT
          BY <4>2, <4>3, HeightBounds
        <5> QED BY <5>1 DEF UNVISITED
      <4>5. ASSUME NEW m \in Onward(c, n)
            PROVE  gs[m] = after(n, hs[n]) \/ <<m, after(n, hs[n])>> \in rest
        <5> DEFINE a == after(n, hs[n])
        <5>1. m \in Starts(c) /\ (hs[m] = a \/ <<m, a>> \in open)
          BY <4>2
        <5>2. m \in DOMAIN hs
          BY <1>1, <5>1, StartsOf
        <5>3. a # UNVISITED
          BY <4>4
        <5> SUFFICES gs[m] = a \/ <<m, a>> \in rest
          OBVIOUS
        <5> HIDE DEF a
        <5>4. CASE hs[m] = a
          BY <1>2, <5>2, <5>3, <5>4
        <5>5. CASE <<m, a>> \in open
          <6>1. <<m, a>> \in rest \/ <<m, a>> = <<p, h>>
            BY <1>6, <5>5
          <6> QED BY <1>2, <6>1 DEF a
        <5> QED BY <5>1, <5>4, <5>5
      <4>6. hs[n] <= larger
        BY <1>6, <4>2, <4>3
      <4> QED BY <4>1, <4>2, <4>5, <4>6
    <3> QED BY <3>1, <3>2
  <2>7. Explored(b, s, gs, larger, rest)
    BY <2>6 DEF Explored
  <2> QED BY <2>1, <2>4, <2>5, <2>7
<1>7. HasTable(c) \/ count = Cardinality(Starts(c))
  BY DEF Walking
<1>8. Walking(b, s, gs, update + 1, count, larger, rest)
  BY <1>2, <1>5, <1>6, <1>7 DEF Walking
<1> QED BY <1>8 DEF gs

\* A walk with nothing left to follow, which validate_control_flow accepts.
LEMMA WalkDone ==
    ASSUME NEW b \in Binaries, NEW s \in 1..Len(b.code), NEW hs, NEW count,
           Walking(b, s, hs, count, count, b.types[s].max_stack_height, {})
    PROVE  Done(b, s, hs)
<1> DEFINE c == b.code[s]
<1>1. c \in Seq(0..255) /\ hs \in HeightsOf(c)
  BY BinaryParts, SMTT(60) DEF Walking
<1>2. ASSUME ~LongTable(c)
      PROVE  hs[0] = b.types[s].input /\ Explored(b, s, hs, b.types[s].max_stack_height, {})
  BY <1>2 DEF Walking
<1>3. ASSUME ~HasTable(c) PROVE Seen(hs) = Starts(c)
  <2>1. ~LongTable(c)
    BY <1>1, <1>3, StartsOf
  <2>2. Seen(hs) \subseteq Starts(c)
    BY <1>2, <2>1 DEF Explored
  <2>3. Cardinality(Starts(c)) = Cardinality(Seen(hs))
    BY <1>3 DEF Walking
  <2> QED BY <1>1, <2>2, <2>3, StartsOf, FS_Subset
<1> QED BY <1>1, <1>2, <1>3 DEF Done

\* Where accepted code goes on, the walk has been, with the height it takes
\* there.
LEMMA Follow ==
    ASSUME NEW b \in Binaries, NEW s \in 1..Len(b.code), NEW hs, Done(b, s, hs),
           ~LongTable(b.code[s]), NEW n \in Seen(hs)
    PROVE  /\ n \in 0..Len(b.code[s]) - 1 /\ n \in Nat /\ hs[n] \in 0..STACK_LIMIT
           /\ Takes(b, s, n, hs[n]) /\ hs[n] <= b.types[s].max_stack_height
           /\ \A m \in Onward(b.code[s], n) :
                 /\ m \in Seen(hs) /\ m \in Nat /\ m < Len(b.code[s])
                 /\ hs[m] = HeightAfter(b, b.code[s], n, hs[n])
<1> DEFINE c == b.code[s]
<1>1. hs \in HeightsOf(c) /\ Explored(b, s, hs, b.types[s].max_stack_height, {}) /\ c \in Seq(0..255)
  BY BinaryParts, SMTT(60) DEF Done
<1>2. DOMAIN hs = 0..Len(c) - 1 /\ Len(c) \in Nat
  BY <1>1 DEF HeightsOf
<1>3. n \in 0..Len(c) - 1 /\ hs[n] \in 0..STACK_LIMIT /\ n \in Nat
  BY <1>1, <1>2 DEF Seen, HeightsOf, UNVISITED
<1>4. /\ Takes(b, s, n, hs[n]) /\ hs[n] <= b.types[s].max_stack_height
      /\ \A m \in Onward(c, n) : m \in Starts(c) /\ hs[m] = HeightAfter(b, c, n, hs[n])
  BY <1>1 DEF Explored
<1>5. HeightAfter(b, c, n, hs[n]) # UNVISITED
  <2>1. HeightAfter(b, c, n, hs[n]) \in 0..STACK_LIMIT
    BY <1>3, <1>4, HeightBounds
  <2> QED BY <2>1 DEF UNVISITED
<1>6. ASSUME NEW m \in Onward(c, n) PROVE m \in Seen(hs) /\ m \in Nat /\ m < Len(c)
  <2>1. m \in 0..Len(c) - 1
    BY <1>1, <1>4, StartsOf
  <2>2. m \in DOMAIN hs /\ hs[m] # UNVISITED
    BY <1>2, <1>4, <1>5, <2>1
  <2> QED BY <1>2, <2>1, <2>2 DEF Seen
<1> QED BY <1>3, <1>4, <1>6

-----------------------------------------------------------------------------
(* The invariant of the program *)

\* What is still open: what waits, and where the path is that is followed
Pending(w) == {<<x.pos, x.height>> : x \in ToSet(w)}
Here(c, p, h) == IF p \in 0..Len(c) - 1 THEN {<<p, h>>} ELSE {}
Open == Pending(worklist) \cup Here(Current, pos, height)

Ahead == [pos : Int, height : 0..STACK_LIMIT]
Context == [section : Nat, pc : Nat, stack_height : Int]

ValidatorTypes ==
    /\ binary \in Binaries
    /\ phase \in {"bytes", "scan", "flow", "valid", "rejected", "panic", "run", "ended"}
    /\ section \in 1..Len(code) /\ i \in Nat /\ instruction_count \in Nat /\ opcode \in 0..255
    /\ DOMAIN heights = 1..Len(code)
    /\ \A s \in 1..Len(code) : heights[s] = <<>> \/ heights[s] \in HeightsOf(code[s])
    /\ worklist \in Seq(Ahead) /\ pos \in Int /\ height \in 0..STACK_LIMIT
    /\ max_stack_height \in 0..STACK_LIMIT /\ height_update \in Nat

MachineTypes ==
    /\ is_eof \in BOOLEAN /\ astray \in BOOLEAN
    /\ code_section \in 1..Len(code) /\ pc \in Int /\ stack \in 0..STACK_ELEMENTS - 1
    /\ return_stack \in Seq(Context) /\ return_stack # <<>>
    /\ \A k \in 1..Len(return_stack) : return_stack[k].section \in 1..Len(code)

\* The sections with which validate_container is done
Behind == IF Accepted THEN 1..Len(code)
          ELSE IF phase \in {"scan", "flow"} THEN 1..section - 1 ELSE {}

ValidatorInv ==
    /\ phase = "bytes" =>
          section = 1 /\ i = 0 /\ instruction_count = 0 /\ opcode = STOP
    /\ phase \notin {"bytes", "rejected", "panic"} => WholeOf(binary)
    /\ phase = "panic" => DeclaredSize(binary) >= U16
    /\ phase = "scan" => Scanning(Current, i, instruction_count, opcode)
    /\ phase = "flow" =>
          /\ Walking(binary, section, heights[section], height_update, instruction_count,
                     max_stack_height, Open)
          /\ LongTable(Current) \/ pos \in 0..Len(Current)
    /\ phase \in {"flow", "rejected"} \/ worklist = <<>>
    /\ LongTable(Current) \/ \A w \in ToSet(worklist) : w.pos \in DOMAIN heights[section]
    /\ \A s \in Behind : Done(binary, s, heights[s])

\* The function entered with the context at k of the return stack
Entered(rs, k, last) == IF k = Len(rs) THEN last ELSE rs[k + 1].section

\* Each caller goes on at an instruction that was visited with the words it
\* has left, and its callee's outputs.
Returns(b, hs, rs, last) ==
    \A k \in 2..Len(rs) :
        /\ rs[k].pc \in Seen(hs[rs[k].section])
        /\ hs[rs[k].section][rs[k].pc] =
              rs[k].stack_height + b.types[Entered(rs, k, last)].output - rs[k - 1].stack_height

\* A machine at an instruction that was visited, with the words the function
\* was found to have there
Agrees(b, hs, s, p, st, rs) ==
    /\ p \in Seen(hs[s])
    /\ hs[s][p] = st - rs[Len(rs)].stack_height
    /\ \A k \in 1..Len(rs) : rs[k].stack_height >= 0
    /\ Returns(b, hs, rs, s)

Fresh == code_section = 1 /\ pc = 0 /\ stack = 0
         /\ return_stack = <<[section |-> 1, pc |-> 0, stack_height |-> 0]>>

MachineInv ==
    /\ phase \notin {"run", "ended"} => Fresh
    /\ Running /\ ~Lost => Agrees(binary, heights, code_section, pc, stack, return_stack)
    /\ NoFault

EofInv == ValidatorTypes /\ MachineTypes /\ ValidatorInv /\ MachineInv

LEMMA Initially == Init => EofInv
<1> SUFFICES ASSUME Init PROVE EofInv
  OBVIOUS
<1> USE DEF Init
<1>1. Len(code) \in Nat \ {0} /\ code \in Seq(Seq(0..255))
  BY BinaryParts, SMTT(60) DEF code
<1>2. DOMAIN code = 1..Len(code)
  BY <1>1
<1>3. ValidatorTypes
  <2>1. heights = [s \in 1..Len(code) |-> <<>>]
    BY <1>2
  <2>2. section \in 1..Len(code) /\ STOP \in 0..255 /\ worklist \in Seq(Ahead)
    BY <1>1 DEF STOP
  <2>3. 0 \in 0..STACK_LIMIT
    BY StackLimitAssumption
  <2> QED BY <2>1, <2>2, <2>3 DEF ValidatorTypes
<1>4. Fresh /\ code_section \in 1..Len(code)
  BY <1>1 DEF Fresh
<1>5. MachineTypes
  <2> DEFINE r == [section |-> 1, pc |-> 0, stack_height |-> 0]
  <2>1. r \in Context /\ return_stack = <<r>>
    BY DEF Context
  <2>2. r.section = 1
    OBVIOUS
  <2> HIDE DEF r
  <2>3. /\ return_stack \in Seq(Context) /\ return_stack # <<>>
        /\ Len(return_stack) = 1 /\ return_stack[1] = r
    BY <2>1
  <2>4. stack \in 0..STACK_ELEMENTS - 1
    BY EofCodeAssumption
  <2>5. \A k \in 1..Len(return_stack) : return_stack[k].section \in 1..Len(code)
    BY <1>1, <2>2, <2>3
  <2>6. pc = 0 /\ is_eof = TRUE /\ astray = FALSE
    OBVIOUS
  <2> HIDE DEF Init
  <2>7. is_eof \in BOOLEAN /\ astray \in BOOLEAN
    BY <2>6
  <2> QED BY <1>4, <2>3, <2>4, <2>5, <2>6, <2>7 DEF MachineTypes
<1>6. ValidatorInv
  BY DEF ValidatorInv, Behind, Accepted, ToSet
<1>7. MachineInv
  BY <1>4 DEF MachineInv, Running, NoFault
<1> QED BY <1>3, <1>5, <1>6, <1>7 DEF EofInv

-----------------------------------------------------------------------------
(* The steps of the validator keep it *)

LEMMA ScanBegins ==
    ASSUME NEW c \in Seq(0..255), c # <<>>, NEW op
    PROVE  Scanning(c, 0, 0, op)
<1>1. Passed(c, 0) = {} /\ 0 \in Starts(c) /\ Len(c) \in Nat
  BY StartsOf DEF Passed
<1>2. Cardinality(Passed(c, 0)) = 0
  BY <1>1, FS_EmptySet
<1>3. 0 \in 0..Len(c)
  BY <1>1
<1>4. \A n \in Passed(c, 0) : FALSE
  BY <1>1
<1> QED BY <1>1, <1>2, <1>3, <1>4 DEF Scanning

\* The section that is being validated
LEMMA AtSection ==
    ASSUME ValidatorTypes
    PROVE  /\ binary \in Binaries /\ section \in 1..Len(binary.code) /\ section \in Nat
           /\ Len(binary.code) \in Nat
           /\ Current = binary.code[section] /\ Current \in Seq(0..255) /\ Len(Current) \in Nat
           /\ types[section] = binary.types[section] /\ types[section].input \in 0..255
           /\ types[section].max_stack_height \in Nat
<1>1. binary \in Binaries /\ section \in 1..Len(binary.code)
  BY DEF ValidatorTypes, code
<1>2. Len(binary.code) \in Nat /\ section \in Nat
  BY <1>1, BinaryParts
<1> QED BY <1>1, <1>2, BinaryParts, ZenonT(60) DEF Current, code, types

LEMMA UnmarshalStep ==
    ASSUME EofInv, Unmarshal
    PROVE  ValidatorTypes' /\ ValidatorInv'
<1>1. ValidatorTypes /\ phase = "bytes" /\ ValidatorInv
  BY DEF EofInv, Unmarshal
<1>2. /\ phase' = IF UnmarshalError(binary) THEN "rejected"
                  ELSE IF binary.len < DeclaredSize(binary) THEN "panic" ELSE "scan"
      /\ UNCHANGED <<binary, scanning, flow>>
  BY DEF Unmarshal
<1>3. phase' \in {"rejected", "panic", "scan"}
  BY <1>2
<1>4. ValidatorTypes'
  BY <1>1, <1>2, <1>3 DEF ValidatorTypes, scanning, flow, code
<1>5. binary \in Binaries /\ Current \in Seq(0..255)
  BY <1>1, AtSection
<1>6. section = 1 /\ i = 0 /\ instruction_count = 0 /\ opcode = STOP /\ worklist = <<>>
  BY <1>1 DEF ValidatorInv
<1>7. phase' = "panic" => DeclaredSize(binary) >= U16
  BY <1>2, <1>5, Unmarshalled
<1>8. phase' = "scan" => WholeOf(binary)
  BY <1>2, <1>5, Unmarshalled
<1>9. ASSUME phase' = "scan" PROVE Scanning(Current, i, instruction_count, opcode)
  <2>1. Current # <<>>
    BY <1>1, <1>8, <1>9, AtSection, BinaryParts, SMTT(60) DEF WholeOf
  <2> QED BY <1>5, <1>6, <2>1, ScanBegins
<1>10. Behind' = {}
  BY <1>2, <1>3, <1>6 DEF Behind, Accepted, scanning
<1>11. /\ binary' = binary /\ section' = section /\ i' = i /\ opcode' = opcode
       /\ instruction_count' = instruction_count /\ worklist' = worklist
       /\ Current' = Current /\ LongTable(Current)' = LongTable(Current)
  BY <1>2 DEF scanning, flow, Current, code
<1>12. \A w \in ToSet(worklist') : w.pos \in DOMAIN heights'[section']
  BY <1>6, <1>11 DEF ToSet
<1> QED BY <1>3, <1>4, <1>6, <1>7, <1>8, <1>9, <1>10, <1>11, <1>12 DEF ValidatorInv

LEMMA ScanInstructionStep ==
    ASSUME EofInv, ScanInstruction
    PROVE  ValidatorTypes' /\ ValidatorInv'
<1> DEFINE c == binary.code[section]
<1>1. ValidatorTypes /\ phase = "scan" /\ ValidatorInv
  BY DEF EofInv, ScanInstruction
<1>2. /\ i < Len(c)
      /\ phase' = IF InstructionValid(c, i) THEN "scan" ELSE "rejected"
      /\ opcode' = get_or_default(c, i)
      /\ instruction_count' = IF get_or_default(c, i) = RJUMPV THEN get_or_default(c, i + 1)
                              ELSE instruction_count + 1
      /\ i' = i + 1 + Immediate(c, i)
      /\ UNCHANGED <<section, binary, flow>>
  BY DEF ScanInstruction, code
<1>3. /\ binary' = binary /\ section' = section /\ heights' = heights /\ worklist' = worklist
      /\ pos' = pos /\ height' = height /\ max_stack_height' = max_stack_height
      /\ height_update' = height_update
      /\ Current' = Current /\ LongTable(Current)' = LongTable(Current)
  BY <1>2 DEF flow, Current, code
<1>4. c \in Seq(0..255) /\ Current = c
  BY <1>1, AtSection
<1>5. i \in Nat /\ i \in Int /\ i + 1 \in Int /\ instruction_count \in Nat
  BY <1>1 DEF ValidatorTypes
<1>6. /\ get_or_default(c, i) \in 0..255 /\ get_or_default(c, i + 1) \in 0..255
      /\ Immediate(c, i) \in Nat
  BY <1>4, <1>5, ByteAt, ImmediateType, ZenonT(60)
<1>7. i' \in Nat /\ instruction_count' \in Nat /\ opcode' \in 0..255
  <2>1. i + 1 + Immediate(c, i) \in Nat
    BY <1>5, <1>6
  <2>2. instruction_count + 1 \in Nat /\ get_or_default(c, i + 1) \in Nat
    BY <1>5, <1>6
  <2> HIDE DEF c
  <2> QED BY <1>2, <1>6, <2>1, <2>2
<1>8. phase' \in {"scan", "rejected"}
  BY <1>2
<1>9. ValidatorTypes'
  BY <1>1, <1>3, <1>7, <1>8 DEF ValidatorTypes, code
<1>10. ASSUME phase' = "scan" PROVE Scanning(Current, i', instruction_count', opcode')
  <2>1. InstructionValid(c, i)
    BY <1>2, <1>10
  <2>2. Fits(c, i)
    BY <2>1 DEF InstructionValid, Fits
  <2>3. Scanning(c, i, instruction_count, opcode)
    BY <1>1, <1>4 DEF ValidatorInv
  <2>4. get_or_default(c, i) # RJUMPV => instruction_count' = instruction_count + 1
    BY <1>2
  <2>5. Scanning(c, i + 1 + Immediate(c, i), instruction_count', get_or_default(c, i))
    <3> HIDE DEF c
    <3> QED BY <1>2, <1>4, <1>5, <2>2, <2>3, <2>4, ScanStep
  <2> HIDE DEF c
  <2> QED BY <1>2, <1>4, <2>5
<1>11. WholeOf(binary) /\ worklist = <<>>
  BY <1>1 DEF ValidatorInv
<1>12. \A s \in Behind' : Done(binary', s, heights'[s])
  <2>1. Behind' \subseteq Behind
    BY <1>1, <1>3, <1>8 DEF Behind, Accepted
  <2> QED BY <1>1, <1>3, <2>1 DEF ValidatorInv
<1>13. \A w \in ToSet(worklist') : w.pos \in DOMAIN heights'[section']
  BY <1>3, <1>11 DEF ToSet
<1> HIDE DEF c
<1> QED BY <1>3, <1>8, <1>9, <1>10, <1>11, <1>12, <1>13 DEF ValidatorInv

LEMMA ScanEndStep ==
    ASSUME EofInv, ScanEnd
    PROVE  ValidatorTypes' /\ ValidatorInv'
<1> DEFINE c == binary.code[section]
           t == binary.types[section]
           hs == [n \in 0..Len(c) - 1 |-> UNVISITED]
<1>1. ValidatorTypes /\ phase = "scan" /\ ValidatorInv
  BY DEF EofInv, ScanEnd
<1>2. /\ i >= Len(c)
      /\ phase' = IF is_terminal_opcode(opcode) THEN "flow" ELSE "rejected"
      /\ heights' = [heights EXCEPT ![section] = hs]
      /\ worklist' = <<[pos |-> 0, height |-> t.input]>>
      /\ pos' = Len(c) /\ height' = 0 /\ max_stack_height' = t.input /\ height_update' = 0
      /\ UNCHANGED <<scanning, binary>>
  BY DEF ScanEnd, code, types
<1>3. /\ binary' = binary /\ section' = section /\ i' = i /\ opcode' = opcode
      /\ instruction_count' = instruction_count
      /\ Current' = Current /\ LongTable(Current)' = LongTable(Current)
  BY <1>2 DEF scanning, Current, code
<1>4. /\ binary \in Binaries /\ section \in 1..Len(binary.code)
      /\ c \in Seq(0..255) /\ Current = c /\ Len(c) \in Nat /\ t.input \in 0..255
  BY <1>1, AtSection DEF types
<1>5. WholeOf(binary)
  BY <1>1 DEF ValidatorInv
<1>6. c # <<>> /\ t.input \in 0..STACK_LIMIT
  <2>1. section \in DOMAIN binary.code
    BY <1>4, BinaryParts, SMTT(60)
  <2>2. c # <<>> /\ t.input <= MAX_INPUT_ITEMS
    BY <1>5, <2>1 DEF WholeOf, assert_valid
  <2> DEFINE in == t.input
  <2>3. in \in 0..255 /\ in <= MAX_INPUT_ITEMS
    BY <1>4, <2>2
  <2> HIDE DEF in
  <2>4. MAX_INPUT_ITEMS \in Nat /\ MAX_INPUT_ITEMS <= STACK_LIMIT /\ STACK_LIMIT \in Nat
    BY EofCodeAssumption, StackLimitAssumption
  <2>5. in \in 0..STACK_LIMIT
    BY <2>3, <2>4
  <2> QED BY <2>2, <2>5 DEF in
<1>7. DOMAIN heights = 1..Len(binary.code)
  BY <1>1 DEF ValidatorTypes, code
<1>8. /\ heights'[section] = hs /\ DOMAIN heights' = DOMAIN heights
      /\ \A s \in 1..Len(binary.code) : s # section => heights'[s] = heights[s]
  BY <1>2, <1>4, <1>7
<1>9. hs \in HeightsOf(c)
  BY StackLimitAssumption DEF HeightsOf, UNVISITED
<1> DEFINE w == [pos |-> 0, height |-> t.input]
<1>10. w \in Ahead /\ w.pos = 0 /\ w.height = t.input
  BY <1>6 DEF Ahead
<1> HIDE DEF w
<1>11. worklist' = <<w>> /\ worklist' \in Seq(Ahead) /\ ToSet(worklist') = {w}
  BY <1>2, <1>10 DEF ToSet, w
<1>12. phase' \in {"flow", "rejected"}
  BY <1>2
<1> HIDE DEF c, t, hs
<1>13. ValidatorTypes'
  <2>1. \A s \in 1..Len(binary.code) : heights'[s] = <<>> \/ heights'[s] \in HeightsOf(binary.code[s])
    <3>1. \A s \in 1..Len(binary.code) : heights[s] = <<>> \/ heights[s] \in HeightsOf(binary.code[s])
      BY <1>1 DEF ValidatorTypes, code
    <3> QED BY <1>8, <1>9, <3>1 DEF c
  <2>2. pos' \in Int /\ height' \in 0..STACK_LIMIT /\ max_stack_height' \in 0..STACK_LIMIT
        /\ height_update' \in Nat
    BY <1>2, <1>4, <1>6, StackLimitAssumption
  <2> QED BY <1>1, <1>3, <1>7, <1>8, <1>11, <1>12, <2>1, <2>2 DEF ValidatorTypes, code
<1>14. ASSUME phase' = "flow"
       PROVE  Walking(binary', section', heights'[section'], height_update', instruction_count',
                      max_stack_height', Open')
  <2>1. is_terminal_opcode(opcode)
    BY <1>2, <1>14
  <2>2. Scanning(c, i, instruction_count, opcode)
    BY <1>1, <1>4 DEF ValidatorInv
  <2>3. /\ HasTable(c) \/ instruction_count = Cardinality(Starts(c))
        /\ ~LongTable(c) => Scanned(c)
    BY <1>2, <1>4, <2>1, <2>2, ScanDone
  <2>4. Walking(binary, section, hs, 0, instruction_count, t.input, {<<0, t.input>>})
    BY <1>4, <1>6, <2>3, WalkStart DEF c, t, hs
  <2>5. Here(c, Len(c), height') = {}
    BY <1>4 DEF Here
  <2>6. Pending(worklist') = {<<0, t.input>>}
    BY <1>10, <1>11 DEF Pending
  <2>7. Open' = {<<0, t.input>>}
    BY <1>2, <1>3, <1>4, <2>5, <2>6 DEF Open
  <2> QED BY <1>2, <1>3, <1>8, <2>4, <2>7
<1>15. pos' \in 0..Len(Current')
  BY <1>2, <1>3, <1>4
<1>16. \A x \in ToSet(worklist') : x.pos \in DOMAIN heights'[section']
  <2>1. 0 \in DOMAIN hs
    BY <1>4, <1>6, EmptySeq DEF hs
  <2> QED BY <1>3, <1>8, <1>10, <1>11, <2>1
<1>17. \A s \in Behind' : Done(binary', s, heights'[s])
  <2>1. Behind' \subseteq Behind /\ Behind \subseteq 1..section - 1
    BY <1>1, <1>3, <1>12 DEF Behind, Accepted
  <2>2. ASSUME NEW s \in Behind' PROVE heights'[s] = heights[s]
    <3>1. s \in 1..section - 1
      BY <2>1
    <3>2. s \in 1..Len(binary.code) /\ s # section
      BY <1>4, <3>1
    <3> QED BY <1>8, <3>2
  <2> QED BY <1>1, <1>3, <2>1, <2>2 DEF ValidatorInv
<1> QED BY <1>3, <1>5, <1>12, <1>13, <1>14, <1>15, <1>16, <1>17 DEF ValidatorInv

\* The positions that wait are instructions, so the heights are known of them.
LEMMA WaitingKnown ==
    ASSUME NEW b \in Binaries, NEW s \in 1..Len(b.code), NEW hs, NEW update, NEW count, NEW most,
           NEW w, NEW more, Walking(b, s, hs, update, count, most, Pending(w) \cup more),
           ~LongTable(b.code[s])
    PROVE  \A x \in ToSet(w) : x.pos \in DOMAIN hs /\ x.pos \in Starts(b.code[s])
<1>1. b.code[s] \in Seq(0..255)
  BY BinaryParts
<1>2. DOMAIN hs = 0..Len(b.code[s]) - 1
  BY DEF Walking, HeightsOf
<1>3. ASSUME NEW x \in ToSet(w) PROVE x.pos \in Starts(b.code[s])
  <2>1. <<x.pos, x.height>> \in Pending(w) \cup more
    BY DEF Pending
  <2>2. <<x.pos, x.height>>[1] \in Starts(b.code[s])
    BY <2>1 DEF Walking
  <2> QED BY <2>2
<1> QED BY <1>1, <1>2, <1>3, StartsOf

\* In a step of the walk the sections behind stay as they are.
LEMMA BehindStays ==
    ASSUME ValidatorTypes, ValidatorInv, phase = "flow", phase' \in {"flow", "rejected"},
           binary' = binary, section' = section,
           \A s \in 1..Len(binary.code) : s # section => heights'[s] = heights[s]
    PROVE  \A s \in Behind' : Done(binary', s, heights'[s])
<1>1. section \in 1..Len(binary.code) /\ Len(binary.code) \in Nat
  BY AtSection
<1>2. Behind = 1..section - 1
  BY DEF Behind, Accepted
<1>3. Behind' \subseteq 1..section - 1
  BY DEF Behind, Accepted
<1>4. ASSUME NEW s \in Behind' PROVE heights'[s] = heights[s]
  <2>1. s \in 1..Len(binary.code) /\ s # section
    BY <1>1, <1>3
  <2> QED BY <2>1
<1> QED BY <1>2, <1>3, <1>4 DEF ValidatorInv

\* The walk goes on with the last path that waits.
LEMMA NextPathStep ==
    ASSUME EofInv, NextPath
    PROVE  ValidatorTypes' /\ ValidatorInv'
<1> DEFINE c == binary.code[section]
           x == Last(worklist)
<1>1. ValidatorTypes /\ ValidatorInv /\ phase = "flow" /\ ~InCode /\ worklist # <<>>
  BY DEF EofInv, NextPath
<1>2. /\ pos' = x.pos /\ height' = x.height /\ worklist' = Front(worklist)
      /\ phase' = phase /\ binary' = binary /\ section' = section /\ i' = i /\ opcode' = opcode
      /\ instruction_count' = instruction_count /\ heights' = heights
      /\ max_stack_height' = max_stack_height /\ height_update' = height_update
      /\ Current' = Current /\ LongTable(Current)' = LongTable(Current)
  BY DEF NextPath, scanning, Current, code
<1>3. /\ binary \in Binaries /\ section \in 1..Len(binary.code)
      /\ c \in Seq(0..255) /\ Current = c /\ Len(c) \in Nat
  BY <1>1, AtSection
<1>4. /\ Front(worklist) \in Seq(Ahead) /\ x \in Ahead
      /\ ToSet(worklist) = ToSet(Front(worklist)) \cup {x}
  <2>1. worklist \in Seq(Ahead)
    BY <1>1 DEF ValidatorTypes
  <2> QED BY <1>1, <2>1, FrontOf
<1> HIDE DEF c, x
<1>5. x.pos \in Int /\ x.height \in 0..STACK_LIMIT
  BY <1>4 DEF Ahead
<1>6. ValidatorTypes'
  BY <1>1, <1>2, <1>4, <1>5 DEF ValidatorTypes, code
<1>7. Open = Pending(worklist) /\ Open = Pending(worklist) \cup {}
  <2>1. Here(Current, pos, height) = {}
    BY <1>1 DEF Here, InCode
  <2> QED BY <2>1 DEF Open
<1>8. Walking(binary, section, heights[section], height_update, instruction_count,
              max_stack_height, Open)
  BY <1>1 DEF ValidatorInv
<1>9. ASSUME ~LongTable(c)
      PROVE  x.pos \in 0..Len(c) - 1 /\ \A y \in ToSet(worklist) : y.pos \in DOMAIN heights[section]
  <2>1. Walking(binary, section, heights[section], height_update, instruction_count,
                max_stack_height, Pending(worklist) \cup {})
    BY <1>7, <1>8
  <2>2. \A y \in ToSet(worklist) : y.pos \in DOMAIN heights[section] /\ y.pos \in Starts(c)
    BY <1>3, <1>9, <2>1, WaitingKnown DEF c
  <2> QED BY <1>3, <1>4, <2>2, StartsOf
<1>10. Walking(binary, section, heights[section], height_update, instruction_count,
               max_stack_height, Open')
  <2>1. CASE LongTable(c)
    BY <1>8, <2>1 DEF Walking, c
  <2>2. CASE ~LongTable(c)
    <3>1. Here(c, x.pos, x.height) = {<<x.pos, x.height>>}
      BY <1>9, <2>2 DEF Here
    <3>2. Pending(worklist) = Pending(Front(worklist)) \cup {<<x.pos, x.height>>}
      BY <1>4 DEF Pending
    <3>3. Open' = Pending(Front(worklist)) \cup Here(c, x.pos, x.height)
      BY <1>2, <1>3 DEF Open
    <3> QED BY <1>7, <1>8, <3>1, <3>2, <3>3
  <2> QED BY <2>1, <2>2
<1>11. LongTable(Current') \/ pos' \in 0..Len(Current')
  BY <1>2, <1>3, <1>9
<1>12. LongTable(Current') \/ \A y \in ToSet(worklist') : y.pos \in DOMAIN heights'[section']
  BY <1>2, <1>3, <1>4, <1>9
<1>13. \A s \in Behind' : Done(binary', s, heights'[s])
  <2>1. phase' \in {"flow", "rejected"}
    BY <1>1, <1>2
  <2> QED BY <1>1, <1>2, <2>1, BehindStays
<1>14. WholeOf(binary)
  BY <1>1 DEF ValidatorInv
<1> QED BY <1>1, <1>2, <1>6, <1>10, <1>11, <1>12, <1>13, <1>14 DEF ValidatorInv

\* A path ends at an instruction that was seen before.
LEMMA RevisitStep ==
    ASSUME EofInv, Revisit
    PROVE  ValidatorTypes' /\ ValidatorInv'
<1> DEFINE c == binary.code[section]
<1>1. ValidatorTypes /\ ValidatorInv /\ phase = "flow" /\ InCode
  BY DEF EofInv, Revisit
<1>2. /\ phase' = IF heights[section][pos] = height THEN "flow" ELSE "rejected"
      /\ pos' = Len(Current) /\ height' = height /\ worklist' = worklist
      /\ binary' = binary /\ section' = section /\ i' = i /\ opcode' = opcode
      /\ instruction_count' = instruction_count /\ heights' = heights
      /\ max_stack_height' = max_stack_height /\ height_update' = height_update
      /\ Current' = Current /\ LongTable(Current)' = LongTable(Current)
  BY DEF Revisit, scanning, Current, code
<1>3. /\ binary \in Binaries /\ section \in 1..Len(binary.code)
      /\ c \in Seq(0..255) /\ Current = c /\ Len(c) \in Nat
  BY <1>1, AtSection
<1>4. phase' \in {"flow", "rejected"}
  BY <1>2
<1> HIDE DEF c
<1>5. ValidatorTypes'
  BY <1>1, <1>2, <1>3, <1>4 DEF ValidatorTypes, code
<1>6. ASSUME phase' = "flow"
      PROVE  Walking(binary, section, heights[section], height_update, instruction_count,
                     max_stack_height, Open')
  <2>1. Walking(binary, section, heights[section], height_update, instruction_count,
                max_stack_height, Open)
    BY <1>1 DEF ValidatorInv
  <2>2. Here(c, Len(c), height) = {} /\ Here(c, pos, height) = {<<pos, height>>}
    BY <1>1, <1>3 DEF Here, InCode
  <2>3. Open' = Pending(worklist) /\ Open = Pending(worklist) \cup {<<pos, height>>}
    BY <1>2, <1>3, <2>2 DEF Open
  <2>4. heights[section][pos] = height
    BY <1>2, <1>6
  <2>5. \A y \in Open : y \in Open' \/ heights[section][y[1]] = y[2]
    BY <2>3, <2>4
  <2>6. Open' \in SUBSET Open
    BY <2>3
  <2> QED BY <2>1, <2>5, <2>6, WalkRevisit
<1>7. pos' \in 0..Len(Current')
  BY <1>2, <1>3
<1>8. LongTable(Current') \/ \A y \in ToSet(worklist') : y.pos \in DOMAIN heights'[section']
  BY <1>1, <1>2 DEF ValidatorInv
<1>9. \A s \in Behind' : Done(binary', s, heights'[s])
  BY <1>1, <1>2, <1>4, BehindStays
<1>10. WholeOf(binary)
  BY <1>1 DEF ValidatorInv
<1> QED BY <1>2, <1>4, <1>5, <1>6, <1>7, <1>8, <1>9, <1>10 DEF ValidatorInv

\* What validate_control_flow checks of the instruction at pos, and computes
\* for it, are the terms of the invariant.
LEMMA VisitTerms ==
    ASSUME ValidatorTypes, InCode
    PROVE  /\ pos \in Nat /\ pos < Len(Current) /\ Op \in 0..255
           /\ FlowAccepted <=> Takes(binary, section, pos, height)
           /\ (IF Op = CALLF THEN Height - Callee.input + Callee.output ELSE Height)
              = HeightAfter(binary, Current, pos, height)
<1>1. Current \in Seq(0..255) /\ Current = binary.code[section] /\ Len(Current) \in Nat
  BY AtSection
<1>2. pos \in Nat /\ pos < Len(Current) /\ pos \in Int /\ pos + 1 \in Nat
  BY <1>1 DEF InCode
<1>3. get_u16_or_default(Current, pos + 1) \in Nat /\ Op \in 0..255
  <2>1. pos + 1 \in Int
    BY <1>2
  <2> QED BY <1>1, <1>2, <2>1, ByteAt, ZenonT(60) DEF Op
<1>4. Len(types) \in Nat /\ types = binary.types
  BY AtSection, BinaryParts, SMTT(60) DEF types
<1>5. /\ Callee = binary.types[Called(Current, pos)] /\ Height = OwnHeight(Op, height)
      /\ Op = get_or_default(Current, pos)
  BY <1>4 DEF Callee, Called, Height, OwnHeight, Op
<1>6. get_u16_or_default(Current, pos + 1) < Len(types) <=> Called(Current, pos) <= Len(binary.types)
  BY <1>3, <1>4 DEF Called
<1>7. FlowAccepted <=> Takes(binary, section, pos, height)
  BY <1>1, <1>4, <1>5, <1>6 DEF FlowAccepted, StackAccepted, Takes
<1> QED BY <1>2, <1>3, <1>5, <1>7 DEF HeightAfter

\* The walk goes on at an instruction that may follow, and puts the others on
\* the worklist.
LEMMA Branches ==
    ASSUME NEW c \in Seq(0..255), NEW n \in Nat,
           NEW after, NEW more,
           after = IF Ends(get_or_default(c, n)) THEN Len(c)
                   ELSE IF get_or_default(c, n) = RJUMP THEN Destinations(c, n)[1]
                   ELSE n + 1 + Immediate(c, n),
           more = IF get_or_default(c, n) \in {RJUMPI, RJUMPV} THEN Destinations(c, n) ELSE <<>>
    PROVE  /\ more \in Seq(Int) /\ after \in Int
           /\ Ends(get_or_default(c, n)) => Onward(c, n) = {} /\ after = Len(c) /\ ToSet(more) = {}
           /\ ~Ends(get_or_default(c, n)) => Onward(c, n) = {after} \cup ToSet(more)
<1> DEFINE op == get_or_default(c, n)
<1>1. Len(c) \in Int /\ Immediate(c, n) \in Nat /\ n + 1 + Immediate(c, n) \in Int
  <2>1. n \in Int
    OBVIOUS
  <2>2. Immediate(c, n) \in Nat
    BY <2>1, ImmediateType
  <2> QED BY <2>2
<1>2. Destinations(c, n) \in Seq(Int) /\ (op = RJUMP => Destinations(c, n)[1] \in Int)
  BY DestinationsType
<1>3. op \in {RJUMPI, RJUMPV} => ~Ends(op) /\ op # RJUMP
  <2> SUFFICES ASSUME op \in {RJUMPI, RJUMPV} PROVE ~Ends(op) /\ op # RJUMP
    OBVIOUS
  <2>1. op \in DOMAIN OPCODE_INFO
    BY Jumps
  <2>2. op \notin {STOP, RETURN, REVERT, INVALID, RJUMP, RETF}
    BY DEF STOP, RETURN, REVERT, INVALID, RJUMP, RJUMPI, RJUMPV, RETF
  <2> HIDE DEF op
  <2>3. OPCODE_INFO[op].terminal = FALSE
    BY <2>1, <2>2, TerminalOpcodes
  <2> QED BY <2>2, <2>3 DEF Ends, is_terminal_opcode
<1>4. ToSet(<<>>) = {} /\ <<>> \in Seq(Int)
  BY DEF ToSet
<1>5. more \in Seq(Int) /\ (op \notin {RJUMPI, RJUMPV} => ToSet(more) = {})
  BY <1>2, <1>4
<1>6. after \in Int
  BY <1>1, <1>2
<1>7. Ends(op) => Onward(c, n) = {} /\ after = Len(c) /\ ToSet(more) = {}
  BY <1>3, <1>5 DEF Onward
<1>8. ~Ends(op) => Onward(c, n) = {after} \cup ToSet(more)
  <2>1. CASE Ends(op)
    BY <2>1
  <2>2. CASE ~Ends(op) /\ op = RJUMP
    BY <1>3, <1>5, <2>2 DEF Onward
  <2>3. CASE ~Ends(op) /\ op # RJUMP
    BY <1>5, <2>3 DEF Onward
  <2> QED BY <2>1, <2>2, <2>3
<1> QED BY <1>5, <1>6, <1>7, <1>8

LEMMA VisitStep ==
    ASSUME EofInv, Visit
    PROVE  ValidatorTypes' /\ ValidatorInv'
<1> DEFINE c == binary.code[section]
           hs == heights[section]
           op == get_or_default(c, pos)
           after == HeightAfter(binary, c, pos, height)
           more == IF op \in {RJUMPI, RJUMPV} THEN Destinations(c, pos) ELSE <<>>
           ahead == [k \in DOMAIN more |-> [pos |-> more[k], height |-> after]]
<1>1. /\ ValidatorTypes /\ ValidatorInv /\ phase = "flow" /\ InCode /\ hs[pos] = UNVISITED
      /\ WholeOf(binary)
  BY DEF EofInv, ValidatorInv, Visit
<1>2. /\ binary \in Binaries /\ section \in 1..Len(binary.code)
      /\ c \in Seq(0..255) /\ Current = c /\ Len(c) \in Nat
  BY <1>1, AtSection
<1>3. /\ pos \in Nat /\ pos < Len(c) /\ op \in 0..255 /\ Op = op
      /\ FlowAccepted <=> Takes(binary, section, pos, height)
      /\ (IF Op = CALLF THEN Height - Callee.input + Callee.output ELSE Height) = after
  BY <1>1, <1>2, VisitTerms DEF Op
<1>4. /\ binary' = binary /\ section' = section /\ i' = i /\ opcode' = opcode
      /\ instruction_count' = instruction_count
      /\ Current' = Current /\ LongTable(Current)' = LongTable(Current)
  BY DEF Visit, scanning, Current, code
<1>5. /\ height \in 0..STACK_LIMIT /\ max_stack_height \in 0..STACK_LIMIT /\ height_update \in Nat
      /\ worklist \in Seq(Ahead) /\ DOMAIN heights = 1..Len(binary.code)
  BY <1>1 DEF ValidatorTypes, code
<1>6. Walking(binary, section, hs, height_update, instruction_count, max_stack_height, Open)
  BY <1>1 DEF ValidatorInv
<1>7. hs \in HeightsOf(c) /\ pos \in DOMAIN hs /\ pos \in 0..Len(c) - 1
  BY <1>2, <1>3, <1>6, SMTT(60) DEF Walking, HeightsOf
<1>8. CASE ~FlowAccepted
  <2>1. /\ phase' = "rejected" /\ heights' = heights /\ worklist' = worklist /\ pos' = pos
        /\ height' = height /\ max_stack_height' = max_stack_height
        /\ height_update' = height_update
    BY <1>8 DEF Visit, flow
  <2>2. ValidatorTypes'
    BY <1>1, <1>4, <2>1 DEF ValidatorTypes, code
  <2>3. LongTable(Current') \/ \A y \in ToSet(worklist') : y.pos \in DOMAIN heights'[section']
    BY <1>1, <1>4, <2>1 DEF ValidatorInv
  <2>4. Behind' = {}
    BY <2>1 DEF Behind, Accepted
  <2> QED BY <1>1, <1>4, <2>1, <2>2, <2>3, <2>4 DEF ValidatorInv
<1>9. CASE FlowAccepted
  <2>1. /\ heights' = [heights EXCEPT ![section] = [hs EXCEPT ![pos] = height]]
        /\ height_update' = height_update + 1 /\ height' = after
        /\ worklist' = worklist \o ahead /\ pos' = After
        /\ max_stack_height' = IF Ends(op) THEN max_stack_height
                               ELSE Max({max_stack_height, after})
        /\ phase' = "flow"
    <3>1. heights' = [heights EXCEPT ![section] = [hs EXCEPT ![pos] = height]]
      BY <1>9 DEF Visit
    <3>2. phase' = "flow" /\ height_update' = height_update + 1 /\ pos' = After
      BY <1>1, <1>9 DEF Visit
    <3>3. height' = after
      <4>1. height' = IF Op = CALLF THEN Height - Callee.input + Callee.output ELSE Height
        BY <1>9 DEF Visit
      <4> QED BY <1>3, <4>1
    <3>4. max_stack_height' = IF Ends(op) THEN max_stack_height
                              ELSE Max({max_stack_height, after})
      BY <1>3, <1>9, Zenon DEF Visit
    <3>5. worklist' = worklist \o ahead
      BY <1>2, <1>3, <1>9, Zenon DEF Visit
    <3> QED BY <3>1, <3>2, <3>3, <3>4, <3>5
  <2>2. /\ more \in Seq(Int) /\ pos' \in Int
        /\ Ends(op) => Onward(c, pos) = {} /\ pos' = Len(c) /\ ToSet(more) = {}
        /\ ~Ends(op) => Onward(c, pos) = {pos'} \cup ToSet(more)
    <3>1. pos' = IF Ends(op) THEN Len(c)
                 ELSE IF op = RJUMP THEN Destinations(c, pos)[1]
                 ELSE pos + 1 + Immediate(c, pos)
      BY <1>2, <1>3, <2>1, Zenon DEF After
    <3> QED BY <1>2, <1>3, <3>1, Branches, ZenonT(60)
  <2>3. Takes(binary, section, pos, height) /\ after \in 0..STACK_LIMIT
    BY <1>2, <1>3, <1>5, <1>9, HeightBounds, Zenon
  <2> HIDE DEF c, hs, op, after, more
  <2>4. ahead \in Seq(Ahead) /\ ToSet(ahead) = {[pos |-> m, height |-> after] : m \in ToSet(more)}
    <3>1. Len(more) \in Nat /\ DOMAIN more = 1..Len(more) /\ \A k \in 1..Len(more) : more[k] \in Int
      BY <2>2, ElementOfSeq
    <3>2. \A k \in DOMAIN more : [pos |-> more[k], height |-> after] \in Ahead
      BY <2>3, <3>1 DEF Ahead
    <3>3. ahead \in Seq(Ahead)
      BY <3>1, <3>2
    <3> QED BY <3>3 DEF ToSet
  <2> HIDE DEF ahead
  <2>5. worklist' \in Seq(Ahead) /\ ToSet(worklist') = ToSet(worklist) \cup ToSet(ahead)
    BY <1>5, <2>1, <2>4, Concatenated
  <2>6. /\ max_stack_height' \in 0..STACK_LIMIT /\ max_stack_height' >= max_stack_height
        /\ ~Ends(op) => max_stack_height' >= after
    <3>1. max_stack_height \in Int /\ after \in Int
      BY <1>5, <2>3, StackLimitAssumption
    <3>2. LET m == Max({max_stack_height, after})
          IN  m \in {max_stack_height, after} /\ m >= max_stack_height /\ m >= after
      BY <3>1, MaxOfTwo
    <3> QED BY <1>5, <2>1, <2>3, <3>2
  <2> DEFINE gs == [hs EXCEPT ![pos] = height]
  <2>7. heights'[section] = gs /\ DOMAIN heights' = DOMAIN heights
        /\ \A s \in 1..Len(binary.code) : s # section => heights'[s] = heights[s]
    BY <1>2, <1>5, <2>1
  <2>8. gs \in HeightsOf(c) /\ DOMAIN gs = 0..Len(c) - 1
    <3>1. height \in UNVISITED..STACK_LIMIT
      BY <1>5 DEF UNVISITED
    <3> QED BY <1>7, <3>1 DEF HeightsOf
  <2> HIDE DEF gs
  <2>9. ValidatorTypes'
    <3>1. \A s \in 1..Len(binary.code) : heights'[s] = <<>> \/ heights'[s] \in HeightsOf(binary.code[s])
      <4>1. \A s \in 1..Len(binary.code) : heights[s] = <<>> \/ heights[s] \in HeightsOf(binary.code[s])
        BY <1>1 DEF ValidatorTypes, code
      <4> QED BY <2>7, <2>8, <4>1 DEF c
    <3>2. height_update' \in Nat
      BY <1>5, <2>1
    <3> QED BY <1>1, <1>4, <1>5, <2>1, <2>2, <2>3, <2>5, <2>6, <2>7, <3>1, <3>2
            DEF ValidatorTypes, code
  <2>10. ASSUME ~LongTable(c)
         PROVE  /\ <<pos, height>> \in Open
                /\ \A x \in Open : x \in Open' \/ x = <<pos, height>>
                /\ \A m \in Onward(c, pos) : <<m, after>> \in Open' /\ m \in 0..Len(c) - 1
                /\ \A x \in Open' :
                      x \in Open \/ (x[1] \in Onward(c, pos) /\ x[2] \in 0..max_stack_height')
                /\ pos' \in 0..Len(c)
    <3>1. Open = Pending(worklist) \cup {<<pos, height>>}
      BY <1>2, <1>7 DEF Open, Here
    <3>2. Open' = Pending(worklist') \cup Here(c, pos', after)
      BY <1>2, <1>4, <2>1 DEF Open
    <3>3. Pending(worklist') = Pending(worklist) \cup {<<m, after>> : m \in ToSet(more)}
      <4> DEFINE next(m) == [pos |-> m, height |-> after]
      <4>1. \A m : next(m).pos = m /\ next(m).height = after
        OBVIOUS
      <4>2. ToSet(ahead) = {next(m) : m \in ToSet(more)}
        BY <2>4
      <4> HIDE DEF next
      <4>3. {<<x.pos, x.height>> : x \in {next(m) : m \in ToSet(more)}}
            = {<<m, after>> : m \in ToSet(more)}
        BY <4>1
      <4>4. Pending(worklist') = Pending(worklist) \cup {<<x.pos, x.height>> : x \in ToSet(ahead)}
        BY <2>5 DEF Pending
      <4> QED BY <4>2, <4>3, <4>4
    <3>4. Scanned(c) /\ pos \in Starts(c)
      <4>1. <<pos, height>>[1] \in Starts(c)
        BY <1>6, <2>10, <3>1 DEF Walking, c
      <4> QED BY <1>6, <2>10, <4>1 DEF Walking, c
    <3>5. \A m \in Onward(c, pos) : m \in 0..Len(c) - 1
      BY <1>2, <2>10, <3>4, OnwardStarts, StartsOf
    <3>6. CASE Ends(op)
      <4>1. Here(c, pos', after) = {} /\ ToSet(more) = {} /\ Onward(c, pos) = {} /\ pos' = Len(c)
        BY <1>2, <2>2, <3>6 DEF Here
      <4> QED BY <1>2, <3>1, <3>2, <3>3, <4>1
    <3>7. CASE ~Ends(op)
      <4>1. pos' \in Onward(c, pos) /\ Onward(c, pos) = {pos'} \cup ToSet(more)
        BY <2>2, <3>7
      <4>2. pos' \in 0..Len(c) - 1
        BY <3>5, <4>1
      <4>3. Here(c, pos', after) = {<<pos', after>>}
        BY <4>2 DEF Here
      <4>4. after \in 0..max_stack_height'
        BY <2>3, <2>6, <3>7
      <4>5. Open' = Pending(worklist) \cup {<<m, after>> : m \in Onward(c, pos)}
        BY <3>2, <3>3, <4>1, <4>3
      <4> QED BY <1>2, <3>1, <3>5, <4>2, <4>4, <4>5
    <3> QED BY <3>6, <3>7
  <2>11. Walking(binary, section, gs, height_update + 1, instruction_count, max_stack_height', Open')
    <3>1. max_stack_height \in Nat /\ max_stack_height' \in Nat
      BY <1>5, <2>6, StackLimitAssumption
    <3>2. Walking(binary, section, [hs EXCEPT ![pos] = height], height_update + 1,
                  instruction_count, max_stack_height', Open')
      BY <1>1, <1>2, <1>5, <1>6, <1>7, <2>3, <2>6, <2>10, <3>1, WalkVisit DEF c, hs, after
    <3> QED BY <3>2 DEF gs
  <2>12. LongTable(Current') \/ pos' \in 0..Len(Current')
    BY <1>2, <1>4, <2>10
  <2>13. LongTable(Current') \/ \A y \in ToSet(worklist') : y.pos \in DOMAIN heights'[section']
    <3> SUFFICES ASSUME ~LongTable(c), NEW y \in ToSet(worklist') PROVE y.pos \in DOMAIN gs
      BY <1>2, <1>4, <2>7
    <3>1. CASE y \in ToSet(worklist)
      <4>1. y.pos \in DOMAIN hs
        BY <1>1, <1>2, <3>1 DEF ValidatorInv, hs
      <4> QED BY <1>7, <2>8, <4>1 DEF HeightsOf
    <3>2. CASE y \in ToSet(ahead)
      <4>1. y.pos \in ToSet(more)
        BY <2>4, <3>2
      <4>2. y.pos \in Onward(c, pos)
        BY <2>2, <4>1
      <4> QED BY <2>8, <2>10, <4>2
    <3> QED BY <2>5, <3>1, <3>2
  <2>14. \A s \in Behind' : Done(binary', s, heights'[s])
    BY <1>1, <1>4, <2>1, <2>7, BehindStays
  <2> QED BY <1>1, <1>4, <2>1, <2>7, <2>9, <2>11, <2>12, <2>13, <2>14 DEF ValidatorInv
<1> QED BY <1>8, <1>9

\* A section that is accepted was walked to its end.
LEMMA FlowEndStep ==
    ASSUME EofInv, FlowEnd
    PROVE  ValidatorTypes' /\ ValidatorInv'
<1> DEFINE c == binary.code[section]
           hs == heights[section]
<1>1. /\ ValidatorTypes /\ ValidatorInv /\ phase = "flow" /\ ~InCode /\ worklist = <<>>
      /\ WholeOf(binary)
  BY DEF EofInv, ValidatorInv, FlowEnd
<1>2. /\ binary \in Binaries /\ section \in 1..Len(binary.code) /\ section \in Nat
      /\ Len(binary.code) \in Nat /\ c \in Seq(0..255) /\ Current = c /\ Len(c) \in Nat
      /\ types[section] = binary.types[section]
  BY <1>1, AtSection
<1>3. /\ binary' = binary /\ heights' = heights /\ worklist' = worklist /\ pos' = pos
      /\ height' = height /\ max_stack_height' = max_stack_height
      /\ height_update' = height_update /\ code' = code
  BY DEF FlowEnd, flow, code
<1>4. ToSet(worklist') = {}
  BY <1>1, <1>3 DEF ToSet
<1>5. \A s \in 1..section - 1 : Done(binary, s, heights[s])
  BY <1>1 DEF ValidatorInv, Behind, Accepted
<1>6. CASE ~SectionAccepted
  <2>1. /\ phase' = "rejected" /\ section' = section /\ i' = i /\ opcode' = opcode
        /\ instruction_count' = instruction_count
    BY <1>6 DEF FlowEnd, scanning
  <2>2. Behind' = {}
    BY <2>1 DEF Behind, Accepted
  <2>3. ValidatorTypes'
    BY <1>1, <1>3, <2>1 DEF ValidatorTypes
  <2> QED BY <1>1, <1>3, <1>4, <2>1, <2>2, <2>3 DEF ValidatorInv
<1>7. ASSUME SectionAccepted PROVE Done(binary, section, hs)
  <2>1. Walking(binary, section, hs, height_update, instruction_count, max_stack_height, Open)
    BY <1>1 DEF ValidatorInv
  <2>2. Open = {}
    <3>1. Here(Current, pos, height) = {}
      BY <1>1 DEF Here, InCode
    <3>2. Pending(worklist) = {}
      BY <1>1 DEF Pending, ToSet
    <3> QED BY <3>1, <3>2 DEF Open
  <2>3. max_stack_height = binary.types[section].max_stack_height /\ height_update = instruction_count
    BY <1>2, <1>7 DEF SectionAccepted
  <2> QED BY <1>2, <2>1, <2>2, <2>3, WalkDone
<1>8. SectionAccepted => \A s \in 1..section : Done(binary, s, heights[s])
  <2>1. \A s \in 1..section : s \in 1..section - 1 \/ s = section
    BY <1>2
  <2> QED BY <1>5, <1>7, <2>1
<1>9. CASE SectionAccepted /\ section = Len(code)
  <2>1. /\ phase' = "valid" /\ section' = section /\ i' = i /\ opcode' = opcode
        /\ instruction_count' = instruction_count
    BY <1>9 DEF FlowEnd, scanning
  <2>2. Behind' = 1..section
    BY <1>3, <1>9, <2>1 DEF Behind, Accepted
  <2>3. ValidatorTypes'
    BY <1>1, <1>3, <2>1 DEF ValidatorTypes
  <2> QED BY <1>1, <1>3, <1>4, <1>8, <1>9, <2>1, <2>2, <2>3 DEF ValidatorInv
<1>10. CASE SectionAccepted /\ section # Len(code)
  <2>1. /\ phase' = "scan" /\ section' = section + 1 /\ i' = 0 /\ opcode' = STOP
        /\ instruction_count' = 0
    BY <1>10 DEF FlowEnd
  <2>2. section + 1 \in 1..Len(binary.code) /\ section + 1 - 1 = section
    BY <1>2, <1>10 DEF code
  <2>3. Behind' = 1..section
    BY <1>2, <2>1, <2>2 DEF Behind, Accepted
  <2>4. ValidatorTypes'
    <3>1. section' \in 1..Len(code') /\ i' \in Nat /\ instruction_count' \in Nat /\ opcode' \in 0..255
      BY <1>3, <2>1, <2>2 DEF code, STOP
    <3> QED BY <1>1, <1>3, <2>1, <3>1 DEF ValidatorTypes
  <2>5. Scanning(Current', 0, 0, STOP)
    <3>1. Current' = binary.code[section + 1]
      BY <1>3, <2>1 DEF Current, code
    <3>2. binary.code[section + 1] \in Seq(0..255) /\ section + 1 \in DOMAIN binary.code
      BY <1>2, <2>2, BinaryParts, SMTT(60)
    <3>3. binary.code[section + 1] # <<>>
      BY <1>1, <3>2 DEF WholeOf
    <3> QED BY <3>1, <3>2, <3>3, ScanBegins
  <2> QED BY <1>1, <1>3, <1>4, <1>8, <1>10, <2>1, <2>3, <2>4, <2>5 DEF ValidatorInv
<1> QED BY <1>6, <1>9, <1>10

LEMMA ValidateStep ==
    ASSUME EofInv, Validate
    PROVE  EofInv'
<1>1. ValidatorTypes' /\ ValidatorInv'
  BY UnmarshalStep, ScanInstructionStep, ScanEndStep, NextPathStep, RevisitStep, VisitStep,
     FlowEndStep DEF Validate
<1>2. machine' = machine /\ binary' = binary /\ phase \in {"bytes", "scan", "flow"}
      /\ phase' \in {"scan", "flow", "valid", "rejected", "panic"}
  <2>1. CASE Unmarshal
    BY <2>1 DEF Unmarshal
  <2>2. CASE ScanInstruction
    BY <2>2 DEF ScanInstruction
  <2>3. CASE ScanEnd
    BY <2>3 DEF ScanEnd
  <2>4. CASE NextPath
    BY <2>4 DEF NextPath
  <2>5. CASE Revisit
    BY <2>5 DEF Revisit
  <2>6. CASE Visit
    <3>1. phase' \in {phase, "rejected"} /\ phase = "flow" /\ UNCHANGED <<binary, machine>>
      BY <2>6 DEF Visit
    <3> QED BY <3>1
  <2>7. CASE FlowEnd
    <3>1. phase' \in {"rejected", "valid", "scan"} /\ phase = "flow" /\ UNCHANGED <<binary, machine>>
      BY <2>7 DEF FlowEnd
    <3> QED BY <3>1
  <2> QED BY <2>1, <2>2, <2>3, <2>4, <2>5, <2>6, <2>7 DEF Validate
<1>3. MachineTypes'
  <2>1. MachineTypes
    BY DEF EofInv
  <2> QED BY <1>2, <2>1 DEF MachineTypes, machine, code
<1>4. MachineInv'
  <2>1. Fresh
    BY <1>2 DEF EofInv, MachineInv
  <2>2. Fresh'
    BY <1>2, <2>1 DEF Fresh, machine
  <2> QED BY <1>2, <2>2 DEF MachineInv, Running, NoFault
<1> QED BY <1>1, <1>3, <1>4 DEF EofInv

-----------------------------------------------------------------------------
(* The steps of the machine keep it *)

\* What every step of the machine leaves alone
LEMMA ExecuteFrame ==
    ASSUME Execute
    PROVE  /\ UNCHANGED <<binary, scanning, flow>>
           /\ phase \in {"valid", "run"} /\ phase' \in {"run", "ended"}
<1>1. CASE \E eof \in BOOLEAN : Begin(eof) \/ CallOut(eof)
  BY <1>1 DEF Begin, CallOut, Goes, Moved, Running
<1>2. CASE NextIteration \/ Fail \/ OperandError \/ Halt
  BY <1>2 DEF NextIteration, Fail, OperandError, Halt, Ended, Running
<1>3. CASE Continue \/ Push \/ Rjump \/ \E taken \in BOOLEAN : Rjumpi(taken)
  BY <1>3 DEF Continue, Push, Rjump, Rjumpi, Goes, Moved, Running
<1>4. CASE \E target \in 0..Len(Executed) : Jump(target) \/ Jumpi(target)
  BY <1>4 DEF Jump, Jumpi, Goes, Moved, Running
<1>5. CASE \E idx \in 0..get_or_default(Executed, pc + 1) + 1 : Rjumpv(idx)
  BY <1>5 DEF Rjumpv, Goes, Moved, Running
<1>6. CASE Callf
  BY <1>6 DEF Callf, Goes, Ended, Running
<1>7. CASE Retf
  BY <1>7 DEF Retf, Goes, Ended, Running
<1> QED BY <1>1, <1>2, <1>3, <1>4, <1>5, <1>6, <1>7 DEF Execute

\* The machine reads what the validator found, and changes nothing of it.
LEMMA ExecuteKeeps ==
    ASSUME EofInv, Execute
    PROVE  ValidatorTypes' /\ ValidatorInv'
<1>1. ValidatorTypes /\ ValidatorInv
  BY DEF EofInv
<1>2. /\ UNCHANGED <<binary, scanning, flow>>
      /\ phase \in {"valid", "run"} /\ phase' \in {"run", "ended"}
  BY ExecuteFrame
<1>3. /\ section' = section /\ heights' = heights /\ worklist' = worklist
      /\ Current' = Current /\ LongTable(Current)' = LongTable(Current) /\ Len(code)' = Len(code)
  BY <1>2 DEF Current, code, scanning, flow
<1>4. ValidatorTypes'
  BY <1>1, <1>2 DEF ValidatorTypes, scanning, flow, code
<1>5. Behind = 1..Len(code) /\ Behind' = 1..Len(code)
  BY <1>2, <1>3 DEF Behind, Accepted
<1>6. WholeOf(binary) /\ worklist = <<>>
  BY <1>1, <1>2 DEF ValidatorInv
<1>7. LongTable(Current') \/ \A y \in ToSet(worklist') : y.pos \in DOMAIN heights'[section']
  BY <1>1, <1>3 DEF ValidatorInv
<1>8. \A s \in Behind' : Done(binary', s, heights'[s])
  BY <1>1, <1>2, <1>3, <1>5 DEF ValidatorInv
<1> QED BY <1>2, <1>3, <1>4, <1>6, <1>7, <1>8 DEF ValidatorInv

\* Wherever the machine is, the handler is one of the two tables'.
LEMMA HandlerOf ==
    ASSUME EofInv
    PROVE  LET op == get_or_default(Executed, pc) IN
           /\ binary \in Binaries /\ code_section \in 1..Len(binary.code)
           /\ Executed = binary.code[code_section] /\ Executed \in Seq(0..255)
           /\ Len(Executed) \in Nat /\ Len(types) = Len(binary.code) /\ types = binary.types
           /\ pc \in Int /\ op \in 0..255 /\ Matches(op, Handler)
           /\ is_eof => Handler = EOF_OPCODES[op]
           /\ op # 0 => pc \in Nat /\ pc < Len(Executed)
<1> DEFINE op == get_or_default(Executed, pc)
<1>1. /\ binary \in Binaries /\ code_section \in 1..Len(binary.code) /\ pc \in Int
      /\ is_eof \in BOOLEAN
  BY DEF EofInv, ValidatorTypes, MachineTypes, code
<1>2. /\ Executed = binary.code[code_section] /\ Executed \in Seq(0..255)
      /\ Len(Executed) \in Nat /\ Len(types) = Len(binary.code) /\ types = binary.types
  BY <1>1, BinaryParts DEF Executed, code, types
<1>3. op \in 0..255
  BY <1>1, <1>2, ByteAt
<1>4. Handler = IF is_eof THEN EOF_OPCODES[op] ELSE OPCODES[op]
  BY DEF Handler
<1>5. op # 0 => pc \in 0..Len(Executed) - 1
  BY DEF get_or_default
<1> HIDE DEF op
<1>6. Matches(op, Handler)
  BY <1>3, <1>4, HandlersMatch, Zenon
<1>7. op # 0 => pc \in Nat /\ pc < Len(Executed)
  BY <1>2, <1>5
<1> QED BY <1>1, <1>2, <1>3, <1>4, <1>6, <1>7 DEF op

\* What the walk found where the machine is
LEMMA Located ==
    ASSUME EofInv, Running, ~Lost
    PROVE  LET c == binary.code[code_section]
               hs == heights[code_section]
               base == return_stack[Len(return_stack)].stack_height IN
           /\ Done(binary, code_section, hs) /\ ~LongTable(c)
           /\ pc \in Seen(hs) /\ pc \in Nat /\ pc < Len(c)
           /\ hs[pc] \in 0..STACK_LIMIT /\ hs[pc] = stack - base
           /\ base \in Nat /\ hs[pc] <= stack
           /\ Takes(binary, code_section, pc, hs[pc])
           /\ hs[pc] <= binary.types[code_section].max_stack_height
           /\ \A m \in Onward(c, pc) :
                 /\ m \in Seen(hs) /\ m \in Nat /\ m < Len(c)
                 /\ hs[m] = HeightAfter(binary, c, pc, hs[pc])
           /\ get_or_default(c, pc) \in DOMAIN OPCODE_INFO
           /\ Agrees(binary, heights, code_section, pc, stack, return_stack)
<1> DEFINE c == binary.code[code_section]
           hs == heights[code_section]
           n == Len(return_stack)
           base == return_stack[n].stack_height
<1>1. /\ Agrees(binary, heights, code_section, pc, stack, return_stack)
      /\ binary \in Binaries /\ code_section \in 1..Len(binary.code)
  BY DEF EofInv, MachineInv, ValidatorTypes, MachineTypes, code
<1>2. Done(binary, code_section, hs)
  <2>1. code_section \in Behind
    BY <1>1 DEF Behind, Accepted, Running, code
  <2> QED BY <2>1 DEF EofInv, ValidatorInv
<1>3. ~LongTable(c)
  BY <1>1, BinaryParts, SMTT(60) DEF Lost, LongTables, code
<1>4. pc \in Seen(hs) /\ hs[pc] = stack - base
  BY <1>1 DEF Agrees
<1>5. base \in Nat /\ stack \in Nat
  <2>1. /\ return_stack \in Seq(Context) /\ return_stack # <<>> /\ stack \in 0..STACK_ELEMENTS - 1
    BY DEF EofInv, MachineTypes
  <2>2. n \in 1..n /\ n \in Nat
    BY <2>1, EmptySeq
  <2>3. return_stack[n] \in Context
    BY <2>1, <2>2, ElementOfSeq
  <2>4. base \in Int
    BY <2>3 DEF Context
  <2>5. base >= 0
    BY <1>1, <2>2 DEF Agrees
  <2> QED BY <2>1, <2>4, <2>5, EofCodeAssumption
<1>6. /\ pc \in 0..Len(c) - 1 /\ pc \in Nat /\ hs[pc] \in 0..STACK_LIMIT
      /\ Takes(binary, code_section, pc, hs[pc])
      /\ hs[pc] <= binary.types[code_section].max_stack_height
      /\ \A m \in Onward(c, pc) :
            /\ m \in Seen(hs) /\ m \in Nat /\ m < Len(c)
            /\ hs[m] = HeightAfter(binary, c, pc, hs[pc])
  <2>1. ~LongTable(binary.code[code_section]) /\ pc \in Seen(hs)
    BY <1>3, <1>4
  <2> HIDE DEF hs
  <2> QED BY <1>1, <1>2, <2>1, Follow
<1>7. Len(c) \in Nat
  BY <1>1, BinaryParts
<1>8. get_or_default(c, pc) \in DOMAIN OPCODE_INFO
  BY <1>6 DEF Takes, is_opcode_valid
<1>9. pc < Len(c) /\ hs[pc] <= stack
  <2> HIDE DEF c, hs, base
  <2>1. pc < Len(c)
    BY <1>6, <1>7
  <2>2. hs[pc] <= stack
    BY <1>4, <1>5, <1>6
  <2> QED BY <2>1, <2>2
<1> QED BY <1>1, <1>2, <1>3, <1>4, <1>5, <1>6, <1>8, <1>9

LEMMA FollowedBy ==
    ASSUME NEW c, NEW n, get_or_default(c, n) \in DOMAIN OPCODE_INFO,
           OPCODE_INFO[get_or_default(c, n)].terminal = FALSE, get_or_default(c, n) # RJUMP
    PROVE  n + 1 + Immediate(c, n) \in Onward(c, n)
BY DEF Onward, Ends, is_terminal_opcode

\* A machine that ends does so without a fault.
LEMMA EndedStep ==
    ASSUME EofInv, Running, NEW how, Ended(how),
           ~Lost => how \notin {"underflow", "bounds", "panic"} /\ (is_eof => how # "unknown")
    PROVE  MachineTypes' /\ MachineInv'
<1>1. /\ phase' = "ended" /\ status' = how /\ binary' = binary /\ is_eof' = is_eof
      /\ code_section' = code_section /\ pc' = pc /\ stack' = stack /\ return_stack' = return_stack
      /\ astray' = astray
  BY DEF Ended
<1>2. MachineTypes'
  BY <1>1 DEF EofInv, MachineTypes, code
<1>3. Lost' <=> Lost
  BY <1>1 DEF Lost, LongTables, code
<1> QED BY <1>1, <1>2, <1>3 DEF MachineInv, Running, NoFault

\* Where the walk has been, a handler finds what it takes, and its immediate.
LEMMA FailStep ==
    ASSUME EofInv, Fail
    PROVE  MachineTypes' /\ MachineInv'
<1> DEFINE op == get_or_default(Executed, pc)
           c == binary.code[code_section]
           h == heights[code_section][pc]
<1>1. Running /\ Ended(Failure)
  BY DEF Fail
<1>2. ASSUME ~Lost
      PROVE  Failure \notin {"underflow", "bounds", "panic"} /\ (is_eof => Failure # "unknown")
  <2>1. /\ Executed = c /\ Matches(op, Handler) /\ (is_eof => Handler = EOF_OPCODES[op])
        /\ stack \in Int
    BY HandlerOf DEF EofInv, MachineTypes
  <2>2. /\ h \in 0..STACK_LIMIT /\ h <= stack /\ Takes(binary, code_section, pc, h)
        /\ op \in DOMAIN OPCODE_INFO /\ pc < Len(c)
        /\ \A m \in Onward(c, pc) : m < Len(c) /\ m \in Nat
    BY <1>1, <1>2, <2>1, Located
  <2>3. is_eof => Handler.does # "unknown"
    BY <2>1, <2>2, HandlersMatch, Zenon
  <2>4. Handler.does \notin {"unknown", "error"} => Handler.pops <= stack
    <3>1. Handler.does \notin {"unknown", "error"} => Handler.pops = OPCODE_INFO[op].min_stack
      BY <2>1 DEF Matches
    <3>2. OPCODE_INFO[op].min_stack <= h /\ OPCODE_INFO[op].min_stack \in 0..17
      BY <2>1, <2>2, InfoBounds DEF Takes
    <3> DEFINE least == OPCODE_INFO[op].min_stack
    <3> HIDE DEF least, h
    <3>3. least <= h /\ least \in 0..17 /\ h \in 0..STACK_LIMIT /\ h <= stack /\ stack \in Int
      BY <2>1, <2>2, <3>2 DEF least
    <3>4. least <= stack
      BY <3>3, StackLimitAssumption
    <3> QED BY <3>1, <3>4 DEF least
  <2>5. ~PushTruncated
    <3> SUFFICES ASSUME Handler.does = "push" PROVE pc + 1 + Immediate(c, pc) < Len(c)
      <4>1. Len(c) \in Int /\ pc + 1 + Immediate(c, pc) \in Int
        <5>1. c \in Seq(0..255) /\ pc \in Int
          BY <2>1, HandlerOf
        <5>2. Immediate(c, pc) \in Nat
          BY <5>1, ImmediateType
        <5> QED BY <5>1, <5>2
      <4> QED BY <2>1, <4>1 DEF PushTruncated
    <3>1. op \in PUSH1..PUSH32 /\ OPCODE_INFO[op].terminal = FALSE
      <4>1. op \in PUSH1..PUSH32
        BY <2>1 DEF Matches
      <4>2. op \notin {STOP, RETURN, REVERT, INVALID, RJUMP, RETF}
        BY <4>1 DEF PUSH1, PUSH32, STOP, RETURN, REVERT, INVALID, RJUMP, RETF
      <4> QED BY <2>2, <4>1, <4>2, TerminalOpcodes
    <3>2. op # RJUMP
      BY <3>1 DEF PUSH1, PUSH32, RJUMP
    <3> QED BY <2>1, <2>2, <3>1, <3>2, FollowedBy
  <2>6. Handler.pops \in Int
    BY <2>1 DEF Matches
  <2> QED BY <2>1, <2>3, <2>4, <2>5, <2>6 DEF Failure
<1> QED BY <1>1, <1>2, EndedStep

\* A machine that moves to an instruction the validator followed finds there
\* the height the validator gave it.
LEMMA MovedStep ==
    ASSUME EofInv, Running, Failure = "none", Handler.does # "halt",
           NEW target \in Int, NEW eof \in BOOLEAN, NEW lost \in BOOLEAN, Moved(target, eof, lost),
           ~Lost /\ ~lost => /\ get_or_default(Executed, pc) # CALLF
                             /\ target \in Onward(Executed, pc)
    PROVE  MachineTypes' /\ MachineInv'
<1> DEFINE op == get_or_default(Executed, pc)
           c == binary.code[code_section]
           hs == heights[code_section]
           rs == return_stack
           base == rs[Len(rs)].stack_height
           left == stack - Handler.pops + Handler.pushes
<1>1. /\ pc' = target /\ stack' = left /\ is_eof' = eof /\ phase' = phase
      /\ binary' = binary /\ heights' = heights /\ code_section' = code_section
      /\ return_stack' = return_stack /\ status' = status
  BY DEF Moved, flow
<1>2. astray' = (astray \/ lost)
  BY DEF Moved
<1>3. /\ Executed = c /\ Matches(op, Handler) /\ Handler.pops \in Nat /\ Handler.pushes \in Nat
  BY HandlerOf DEF Matches
<1>4. /\ Handler.does \notin {"unknown", "error"}
      /\ ~(stack < Handler.pops) /\ ~(left >= STACK_ELEMENTS)
  BY DEF Failure
<1>5. stack \in 0..STACK_ELEMENTS - 1 /\ STACK_ELEMENTS \in Nat
  BY EofCodeAssumption DEF EofInv, MachineTypes
<1>6. left \in 0..STACK_ELEMENTS - 1
  <2> DEFINE pops == Handler.pops
             pushes == Handler.pushes
  <2>1. /\ pops \in Nat /\ pushes \in Nat /\ ~(stack < pops)
        /\ ~(stack - pops + pushes >= STACK_ELEMENTS)
    BY <1>3, <1>4
  <2> HIDE DEF pops, pushes
  <2>2. stack - pops + pushes \in 0..STACK_ELEMENTS - 1
    BY <1>5, <2>1
  <2> QED BY <2>2 DEF pops, pushes
<1>7. MachineTypes'
  <2>1. MachineTypes
    BY DEF EofInv
  <2>2. astray' \in BOOLEAN
    BY <1>2
  <2> HIDE DEF left
  <2> QED BY <1>1, <1>6, <2>1, <2>2 DEF MachineTypes, code
<1>8. Lost' <=> Lost \/ lost
  BY <1>1, <1>2 DEF Lost, LongTables, code
<1>9. ASSUME ~Lost, ~lost
      PROVE  Agrees(binary, heights, code_section, target, left, return_stack)
  <2>1. /\ hs[pc] \in 0..STACK_LIMIT /\ hs[pc] = stack - base /\ base \in Nat
        /\ Takes(binary, code_section, pc, hs[pc]) /\ op \in DOMAIN OPCODE_INFO
        /\ \A m \in Onward(c, pc) : m \in Seen(hs) /\ hs[m] = HeightAfter(binary, c, pc, hs[pc])
        /\ Agrees(binary, heights, code_section, pc, stack, return_stack)
    BY <1>3, <1>9, Located
  <2>2. op # CALLF /\ target \in Onward(c, pc)
    BY <1>3, <1>9
  <2>3. target \in Seen(hs) /\ hs[target] = OwnHeight(op, hs[pc])
    BY <1>3, <2>1, <2>2 DEF HeightAfter
  <2>4. /\ Handler.pops = OPCODE_INFO[op].min_stack
        /\ Handler.pushes = STACK_LIMIT + OPCODE_INFO[op].min_stack - OPCODE_INFO[op].max_stack
    BY <1>3, <1>4 DEF Matches
  <2>5. OPCODE_INFO[op].min_stack \in 0..17 /\ OPCODE_INFO[op].max_stack \in Int
    BY <2>1, InfoBounds, StackLimitAssumption
  <2> DEFINE least == OPCODE_INFO[op].min_stack
             top == OPCODE_INFO[op].max_stack
             h == hs[pc]
  <2>6. OwnHeight(op, h) = left - base
    <3>1. /\ least \in Int /\ top \in Int /\ stack \in Int /\ base \in Int /\ h = stack - base
          /\ left = stack - least + (STACK_LIMIT + least - top)
          /\ OwnHeight(op, h) = h + STACK_LIMIT - top /\ STACK_LIMIT \in Int
      BY <1>5, <2>1, <2>4, <2>5, StackLimitAssumption, SMTT(60) DEF OwnHeight
    <3> HIDE DEF least, top, base, left, h
    <3> QED BY <3>1
  <2> HIDE DEF left
  <2> QED BY <2>1, <2>3, <2>6 DEF Agrees
<1>10. MachineInv'
  <2> HIDE DEF left
  <2>1. phase' = "run"
    BY <1>1 DEF Running
  <2> QED BY <1>1, <1>8, <1>9, <2>1 DEF MachineInv, NoFault, Running
<1> QED BY <1>7, <1>10

LEMMA BeginStep ==
    ASSUME EofInv, NEW eof \in BOOLEAN, Begin(eof)
    PROVE  MachineTypes' /\ MachineInv'
<1>1. /\ phase = "valid" /\ phase' = "run" /\ is_eof' = eof /\ binary' = binary
      /\ heights' = heights /\ code_section' = code_section /\ pc' = pc /\ stack' = stack
      /\ return_stack' = return_stack /\ status' = status /\ astray' = astray
  BY DEF Begin, flow
<1>2. MachineTypes'
  BY <1>1 DEF EofInv, MachineTypes, code
<1>3. Fresh
  BY <1>1 DEF EofInv, MachineInv
<1>4. ASSUME ~Lost PROVE Agrees(binary, heights, code_section, pc, stack, return_stack)
  <2> DEFINE hs == heights[1]
             context == [section |-> 1, pc |-> 0, stack_height |-> 0]
  <2>1. binary \in Binaries /\ 1 \in 1..Len(binary.code) /\ WholeOf(binary)
    BY <1>1, BinaryParts, SMTT(60) DEF EofInv, ValidatorTypes, ValidatorInv
  <2>2. Done(binary, 1, hs)
    BY <1>1, <2>1 DEF EofInv, ValidatorInv, Behind, Accepted, code
  <2>3. ~LongTable(binary.code[1])
    BY <1>4, <2>1, BinaryParts, SMTT(60) DEF Lost, LongTables, code
  <2>4. hs[0] = 0 /\ DOMAIN hs = 0..Len(binary.code[1]) - 1
    BY <2>1, <2>2, <2>3 DEF Done, WholeOf, HeightsOf
  <2>5. 0 \in Seen(hs)
    <3>1. binary.code[1] # <<>> /\ binary.code[1] \in Seq(0..255)
      BY <2>1, BinaryParts DEF WholeOf
    <3>2. Len(binary.code[1]) \in Nat \ {0}
      BY <3>1, EmptySeq
    <3> QED BY <2>4, <3>2 DEF Seen, UNVISITED
  <2>6. context.stack_height = 0
    OBVIOUS
  <2>7. return_stack = <<context>>
    BY <1>3 DEF Fresh
  <2> HIDE DEF context
  <2>8. Len(return_stack) = 1 /\ return_stack[1] = context
    BY <2>7
  <2>9. Returns(binary, heights, return_stack, code_section)
    BY <2>8 DEF Returns
  <2> QED BY <1>3, <2>4, <2>5, <2>6, <2>8, <2>9 DEF Agrees, Fresh
<1>5. Lost' <=> Lost
  BY <1>1 DEF Lost, LongTables, code
<1> QED BY <1>1, <1>2, <1>4, <1>5 DEF MachineInv, Running, NoFault

LEMMA NextIterationStep ==
    ASSUME EofInv, NextIteration
    PROVE  MachineTypes' /\ MachineInv'
<1>1. /\ phase = "run" /\ phase' = phase /\ is_eof' = TRUE /\ binary' = binary
      /\ heights' = heights /\ code_section' = code_section /\ pc' = pc /\ stack' = stack
      /\ return_stack' = return_stack /\ status' = status /\ astray' = astray
  BY DEF NextIteration, flow, Running
<1>2. MachineTypes'
  BY <1>1 DEF EofInv, MachineTypes, code
<1>3. Lost' <=> Lost
  BY <1>1 DEF Lost, LongTables, code
<1> QED BY <1>1, <1>2, <1>3 DEF EofInv, MachineInv, Running, NoFault

\* What is no branch of the code's is followed by the next instruction.
LEMMA FallsThrough ==
    ASSUME EofInv, Running, Handler.does \in {"next", "push", "call", "jumpi"}
    PROVE  /\ get_or_default(Executed, pc) # CALLF /\ pc + 1 + Immediate(Executed, pc) \in Int
           /\ Handler.does # "push" => pc + 1 + Immediate(Executed, pc) = pc + 1
           /\ ~Lost => pc + 1 + Immediate(Executed, pc) \in Onward(Executed, pc)
<1> DEFINE op == get_or_default(Executed, pc)
<1>1. /\ Executed \in Seq(0..255) /\ pc \in Int /\ Matches(op, Handler)
  BY HandlerOf
<1>2. Immediate(Executed, pc) \in Nat
  BY <1>1, ImmediateType
<1>3. /\ Handler.does # "push" =>
            op \notin PUSH1..PUSH32 /\ op \notin {RJUMP, RJUMPI, RJUMPV, CALLF, RETF}
      /\ Handler.does = "push" => op \in PUSH1..PUSH32
  BY <1>1 DEF Matches
<1>4. Handler.does # "push" => Immediate(Executed, pc) = 0
  BY <1>3 DEF Immediate
<1>5. op # CALLF /\ op # RJUMP
  BY <1>3 DEF PUSH1, PUSH32, CALLF, RJUMP
<1>6. ASSUME ~Lost PROVE pc + 1 + Immediate(Executed, pc) \in Onward(Executed, pc)
  <2>1. op \in DOMAIN OPCODE_INFO
    BY <1>6, HandlerOf, Located
  <2>2. ~OPCODE_INFO[op].terminal
    BY <1>1 DEF Matches
  <2> QED BY <1>5, <2>1, <2>2 DEF Onward, Ends, is_terminal_opcode
<1> QED BY <1>1, <1>2, <1>4, <1>5, <1>6

LEMMA ForwardStep ==
    ASSUME EofInv,
           Continue \/ Push \/ \E eof \in BOOLEAN : CallOut(eof)
    PROVE  MachineTypes' /\ MachineInv'
<1> DEFINE target == pc + 1 + Immediate(Executed, pc)
<1>1. PICK eof \in BOOLEAN :
          /\ Running /\ Failure = "none" /\ Handler.does \in {"next", "push", "call"}
          /\ Moved(IF Handler.does = "push" THEN target ELSE pc + 1, eof, FALSE)
  <2>1. is_eof \in BOOLEAN
    BY DEF EofInv, MachineTypes
  <2>2. CASE Continue
    BY <2>1, <2>2 DEF Continue, Goes
  <2>3. CASE Push
    BY <2>1, <2>3 DEF Push, Goes
  <2>4. CASE \E eof \in BOOLEAN : CallOut(eof)
    BY <2>4 DEF CallOut, Goes
  <2> QED BY <2>2, <2>3, <2>4
<1>2. /\ get_or_default(Executed, pc) # CALLF /\ target \in Int
      /\ Handler.does # "push" => target = pc + 1
      /\ ~Lost => target \in Onward(Executed, pc)
  BY <1>1, FallsThrough
<1> HIDE DEF target
<1>3. Moved(target, eof, FALSE) /\ Handler.does # "halt" /\ FALSE \in BOOLEAN
  BY <1>1, <1>2
<1> QED BY <1>1, <1>2, <1>3, MovedStep

\* JUMP is lost, and so is JUMPI unless it goes on
LEMMA JumpStep ==
    ASSUME EofInv, NEW target \in 0..Len(Executed), Jump(target) \/ Jumpi(target)
    PROVE  MachineTypes' /\ MachineInv'
<1>1. target \in Int /\ TRUE \in BOOLEAN /\ (target # pc + 1) \in BOOLEAN /\ is_eof \in BOOLEAN
  BY DEF EofInv, MachineTypes
<1>2. CASE Jump(target)
  <2>1. /\ Running /\ Failure = "none" /\ Handler.does # "halt" /\ Moved(target, is_eof, TRUE)
    BY <1>2 DEF Jump, Goes
  <2> QED BY <1>1, <2>1, MovedStep
<1>3. CASE Jumpi(target)
  <2>1. /\ Running /\ Failure = "none" /\ Handler.does = "jumpi"
        /\ Moved(target, is_eof, target # pc + 1)
    BY <1>3 DEF Jumpi, Goes
  <2>2. ASSUME ~Lost, ~(target # pc + 1)
        PROVE  get_or_default(Executed, pc) # CALLF /\ target \in Onward(Executed, pc)
    BY <2>1, <2>2, FallsThrough
  <2>3. Handler.does # "halt"
    BY <2>1
  <2> QED BY <1>1, <2>1, <2>2, <2>3, MovedStep
<1> QED BY <1>2, <1>3

\* Relative jumps go where the validator followed them.
LEMMA RelativeJumps ==
    ASSUME EofInv, Running, Handler.does \in {"rjump", "rjumpi", "rjumpv"}
    PROVE  LET op == get_or_default(Executed, pc) IN
           /\ op # CALLF /\ pc \in Nat /\ Executed \in Seq(0..255)
           /\ op = IF Handler.does = "rjump" THEN RJUMP
                   ELSE IF Handler.does = "rjumpi" THEN RJUMPI ELSE RJUMPV
           /\ \A k \in DOMAIN Destinations(Executed, pc) : Destinations(Executed, pc)[k] \in Int
           /\ Handler.does \in {"rjump", "rjumpi"} => 1 \in DOMAIN Destinations(Executed, pc)
           /\ Handler.does = "rjumpv" =>
                 DOMAIN Destinations(Executed, pc) = 1..get_or_default(Executed, pc + 1)
           /\ Handler.does # "rjump" => Onward(Executed, pc) =
                 {pc + 1 + Immediate(Executed, pc)} \cup ToSet(Destinations(Executed, pc))
           /\ Handler.does = "rjump" => Onward(Executed, pc) = {Destinations(Executed, pc)[1]}
<1> DEFINE op == get_or_default(Executed, pc)
           jumps == Destinations(Executed, pc)
<1>1. /\ Executed \in Seq(0..255) /\ pc \in Int /\ Matches(op, Handler)
      /\ op # 0 => pc \in Nat
  BY HandlerOf
<1>2. op = IF Handler.does = "rjump" THEN RJUMP
           ELSE IF Handler.does = "rjumpi" THEN RJUMPI ELSE RJUMPV
  BY <1>1 DEF Matches
<1>3. op # 0 /\ op # CALLF /\ op \in {RJUMP, RJUMPI, RJUMPV}
  BY <1>2 DEF RJUMP, RJUMPI, RJUMPV, CALLF
<1>4. pc \in Nat
  BY <1>1, <1>3
<1>5. /\ jumps \in Seq(Int)
      /\ op \in {RJUMP, RJUMPI} => 1 \in DOMAIN jumps
      /\ op = RJUMPV => DOMAIN jumps = 1..get_or_default(Executed, pc + 1)
  BY <1>1, <1>4, DestinationsType
<1>6. \A k \in DOMAIN jumps : jumps[k] \in Int
  BY <1>5, ElementOfSeq
<1>7. ~Ends(RJUMP) /\ ~Ends(RJUMPI) /\ ~Ends(RJUMPV)
  <2>1. ASSUME NEW o \in {RJUMPI, RJUMPV} PROVE ~Ends(o)
    <3>1. o \in DOMAIN OPCODE_INFO
      BY Jumps
    <3>2. o \notin {STOP, RETURN, REVERT, INVALID, RJUMP, RETF}
      BY DEF STOP, RETURN, REVERT, INVALID, RJUMP, RJUMPI, RJUMPV, RETF
    <3> QED BY <3>1, <3>2, TerminalOpcodes DEF Ends, is_terminal_opcode
  <2> QED BY <2>1 DEF Ends
<1>8. RJUMP # RJUMPI /\ RJUMP # RJUMPV /\ RJUMPI # RJUMPV
  BY DEF RJUMP, RJUMPI, RJUMPV
<1>9. op # RJUMP => Onward(Executed, pc) = {pc + 1 + Immediate(Executed, pc)} \cup ToSet(jumps)
  BY <1>3, <1>7, <1>8 DEF Onward
<1>10. op = RJUMP => Onward(Executed, pc) = {jumps[1]}
  BY <1>7 DEF Onward
<1> HIDE DEF op, jumps
<1>11. /\ Handler.does \in {"rjump", "rjumpi"} => op \in {RJUMP, RJUMPI}
       /\ Handler.does = "rjumpv" => op = RJUMPV
       /\ Handler.does = "rjump" <=> op = RJUMP
  BY <1>2, <1>8
<1> QED BY <1>1, <1>2, <1>3, <1>4, <1>5, <1>6, <1>9, <1>10, <1>11 DEF op, jumps

LEMMA RjumpStep ==
    ASSUME EofInv, Rjump \/ \E taken \in BOOLEAN : Rjumpi(taken)
    PROVE  MachineTypes' /\ MachineInv'
<1> DEFINE op == get_or_default(Executed, pc)
           jumps == Destinations(Executed, pc)
<1>1. Running /\ Failure = "none" /\ Handler.does \in {"rjump", "rjumpi"}
  BY DEF Rjump, Rjumpi, Goes
<1>2. is_eof \in BOOLEAN /\ FALSE \in BOOLEAN /\ Handler.does # "halt"
  BY <1>1 DEF EofInv, MachineTypes
<1>3. /\ op # CALLF /\ pc \in Nat /\ 1 \in DOMAIN jumps /\ jumps[1] \in Int
      /\ Handler.does = "rjumpi" => op = RJUMPI
      /\ Handler.does = "rjumpi" => Onward(Executed, pc) =
            {pc + 1 + Immediate(Executed, pc)} \cup ToSet(jumps)
      /\ Handler.does = "rjump" => Onward(Executed, pc) = {jumps[1]}
  BY <1>1, RelativeJumps
<1>4. Handler.does = "rjumpi" => pc + 1 + Immediate(Executed, pc) = pc + 3
  <2>1. op = RJUMPI => Immediate(Executed, pc) = 2
    BY DEF Immediate, PUSH1, PUSH32, RJUMP, RJUMPI, CALLF
  <2> QED BY <1>3, <2>1
<1>5. jumps[1] \in ToSet(jumps)
  BY <1>3 DEF ToSet
<1>6. PICK target \in {jumps[1], pc + 3} :
          /\ Moved(target, is_eof, FALSE)
          /\ Handler.does = "rjump" => target = jumps[1]
  <2>1. CASE Rjump
    BY <2>1 DEF Rjump
  <2>2. CASE \E taken \in BOOLEAN : Rjumpi(taken)
    <3>1. Handler.does = "rjumpi"
      BY <2>2 DEF Rjumpi, Goes
    <3> HIDE DEF jumps
    <3>2. PICK taken \in BOOLEAN : Moved(IF taken THEN jumps[1] ELSE pc + 3, is_eof, FALSE)
      BY <2>2 DEF Rjumpi, jumps
    <3>3. Moved(jumps[1], is_eof, FALSE) \/ Moved(pc + 3, is_eof, FALSE)
      BY <3>2
    <3> QED BY <3>1, <3>3
  <2> QED BY <2>1, <2>2
<1>7. target \in Int
  BY <1>3, <1>6
<1>8. op # CALLF /\ target \in Onward(Executed, pc)
  BY <1>1, <1>3, <1>4, <1>5, <1>6
<1> QED BY <1>1, <1>2, <1>6, <1>7, <1>8, MovedStep

\* RJUMPV is lost where the offset it reads is not the one the validator read.
LEMMA RjumpvStep ==
    ASSUME EofInv, NEW idx \in 0..get_or_default(Executed, pc + 1) + 1, Rjumpv(idx)
    PROVE  MachineTypes' /\ MachineInv'
<1> DEFINE c == Executed
           op == get_or_default(c, pc)
           jumps == Destinations(c, pc)
           count == get_or_default(c, pc + 1)
           past == pc + 2 + 2 * count
           target == IF idx > count THEN past
                     ELSE past + get_i16_or_default(c, pc + 1 + 2 + 2 * idx)
           meant == IF idx >= count THEN past ELSE jumps[idx + 1]
<1>1. /\ Running /\ Failure = "none" /\ Handler.does = "rjumpv"
      /\ Moved(target, is_eof, target # meant)
  BY DEF Rjumpv, Goes
<1>2. /\ op # CALLF /\ pc \in Nat /\ op = RJUMPV /\ c \in Seq(0..255)
      /\ DOMAIN jumps = 1..count
      /\ Onward(c, pc) = {pc + 1 + Immediate(c, pc)} \cup ToSet(jumps)
  BY <1>1, RelativeJumps
<1>3. count \in 0..255 /\ idx \in Nat
  <2>1. pc + 1 \in Int
    BY <1>2
  <2>2. count \in 0..255
    BY <1>2, <2>1, ByteAt
  <2> QED BY <2>2
<1>4. pc + 1 + Immediate(c, pc) = past
  <2>1. Immediate(c, pc) = 1 + 2 * count
    BY <1>2 DEF Immediate, PUSH1, PUSH32, RJUMP, RJUMPI, RJUMPV, CALLF
  <2> HIDE DEF count
  <2> QED BY <1>2, <1>3, <2>1
<1>5. target \in Int
  <2>1. pc + 1 + 2 + 2 * idx \in Nat
    BY <1>2, <1>3
  <2>2. get_i16_or_default(c, pc + 1 + 2 + 2 * idx) \in Int
    BY <1>2, <2>1, ByteAt
  <2> DEFINE offset == get_i16_or_default(c, pc + 1 + 2 + 2 * idx)
  <2> HIDE DEF count, offset
  <2> QED BY <1>2, <1>3, <2>2 DEF offset
<1>6. meant \in Onward(c, pc)
  <2> HIDE DEF count, jumps
  <2>1. CASE idx >= count
    BY <1>2, <1>4, <2>1
  <2>2. CASE ~(idx >= count)
    <3>1. idx + 1 \in DOMAIN jumps
      BY <1>2, <1>3, <2>2
    <3>2. jumps[idx + 1] \in ToSet(jumps)
      BY <3>1 DEF ToSet
    <3> QED BY <1>2, <2>2, <3>2
  <2> QED BY <2>1, <2>2
<1> HIDE DEF target, meant
<1>7. /\ (target # meant) \in BOOLEAN /\ is_eof \in BOOLEAN /\ Handler.does # "halt"
      /\ ~(target # meant) => op # CALLF /\ target \in Onward(c, pc)
  BY <1>1, <1>2, <1>6 DEF EofInv, MachineTypes
<1> QED BY <1>1, <1>5, <1>7, MovedStep

\* A call enters a function with the words it takes as input, and leaves its
\* caller what the validator gave the instruction behind the call.
LEMMA CallfStep ==
    ASSUME EofInv, Callf
    PROVE  MachineTypes' /\ MachineInv'
<1> DEFINE op == get_or_default(Executed, pc)
           c == binary.code[code_section]
           s == code_section
           hs == heights[s]
           rs == return_stack
           n == Len(rs)
           base == rs[n].stack_height
           idx == get_u16_or_default(Executed, pc + 1) + 1
           callee == binary.types[idx]
           in == callee.input
           out == callee.output
           rest == stack - in
           context == [section |-> s, pc |-> pc + 3, stack_height |-> rest]
<1>1. Running /\ Failure = "none" /\ Handler.does = "callf"
  BY DEF Callf, Goes
<1>2. /\ binary \in Binaries /\ s \in 1..Len(binary.code) /\ Executed = c /\ c \in Seq(0..255)
      /\ types = binary.types /\ Len(types) = Len(binary.code) /\ Matches(op, Handler)
      /\ op # 0 => pc \in Nat /\ pc < Len(c)
  BY HandlerOf
<1>3. op = CALLF /\ pc \in Nat /\ idx = Called(c, pc)
  <2>1. op = CALLF
    BY <1>1, <1>2 DEF Matches
  <2> QED BY <1>2, <2>1 DEF CALLF, Called
<1>4. idx \in Nat \ {0}
  <2>1. pc + 1 \in Nat /\ pc + 1 \in Int
    BY <1>3
  <2>2. get_u16_or_default(Executed, pc + 1) \in Nat
    BY <1>2, <2>1, ByteAt
  <2> QED BY <2>2
<1>5. ASSUME ~Lost
      PROVE  /\ hs[pc] \in 0..STACK_LIMIT /\ hs[pc] = stack - base /\ base \in Nat
             /\ hs[pc] <= stack /\ idx <= Len(types) /\ in <= hs[pc]
             /\ pc + 3 \in Seen(hs) /\ hs[pc + 3] = hs[pc] - in + out
             /\ Agrees(binary, heights, s, pc, stack, rs)
  <2>1. /\ hs[pc] \in 0..STACK_LIMIT /\ hs[pc] = stack - base /\ base \in Nat /\ hs[pc] <= stack
        /\ Takes(binary, s, pc, hs[pc]) /\ op \in DOMAIN OPCODE_INFO
        /\ \A m \in Onward(c, pc) : m \in Seen(hs) /\ hs[m] = HeightAfter(binary, c, pc, hs[pc])
        /\ Agrees(binary, heights, s, pc, stack, rs)
    BY <1>1, <1>2, <1>5, Located
  <2>2. /\ Called(c, pc) \in 1..Len(binary.types) /\ binary.types[Called(c, pc)].input <= hs[pc]
        /\ HeightAfter(binary, c, pc, hs[pc]) =
              hs[pc] - binary.types[Called(c, pc)].input + binary.types[Called(c, pc)].output
    <3>1. get_or_default(c, pc) = CALLF
      BY <1>2, <1>3
    <3> HIDE DEF hs, c
    <3> QED BY <1>2, <1>3, <2>1, <3>1, HeightBounds DEF c
  <2>3. pc + 3 \in Onward(c, pc)
    <3>1. Immediate(c, pc) = 2
      BY <1>2, <1>3 DEF Immediate, PUSH1, PUSH32, CALLF
    <3>2. op \notin {STOP, RETURN, REVERT, INVALID, RJUMP, RETF} /\ op # RJUMP
      BY <1>3 DEF CALLF, STOP, RETURN, REVERT, INVALID, RJUMP, RETF
    <3>3. OPCODE_INFO[op].terminal = FALSE
      BY <2>1, <3>2, TerminalOpcodes
    <3>4. pc + 1 + Immediate(c, pc) = pc + 3
      BY <1>3, <3>1
    <3> QED BY <1>2, <2>1, <3>2, <3>3, <3>4, FollowedBy
  <2>4. Len(binary.types) \in Nat /\ Len(types) = Len(binary.types)
    BY <1>2, BinaryParts, SMTT(60)
  <2> HIDE DEF hs, base, idx
  <2> QED BY <1>3, <2>1, <2>2, <2>3, <2>4
<1>6. CASE idx > Len(types)
  <2>1. Ended("panic")
    BY <1>6 DEF Callf
  <2>2. Lost
    <3>1. Len(types) \in Nat
      BY <1>2, BinaryParts, SMTT(60)
    <3> HIDE DEF idx
    <3> QED BY <1>4, <1>5, <1>6, <3>1
  <2> QED BY <1>1, <2>1, <2>2, EndedStep
<1>7. CASE ~(idx > Len(types)) /\ CallfOverflows
  <2>1. Ended("overflow")
    BY <1>7 DEF Callf
  <2> QED BY <1>1, <2>1, EndedStep
<1>8. CASE ~(idx > Len(types)) /\ ~CallfOverflows
  <2>1. /\ rs' = Append(rs, context) /\ code_section' = idx /\ pc' = 0 /\ phase' = phase
        /\ binary' = binary /\ heights' = heights /\ is_eof' = is_eof /\ stack' = stack
        /\ status' = status /\ astray' = astray
    BY <1>2, <1>8 DEF Callf, flow
  <2>2. idx \in 1..Len(binary.code)
    <3>1. Len(binary.code) \in Nat
      BY <1>2, BinaryParts
    <3> HIDE DEF idx
    <3> QED BY <1>2, <1>4, <1>8, <3>1
  <2>3. in \in 0..255 /\ out \in 0..255 /\ in \in Int /\ out \in Int
    <3>1. in \in 0..255 /\ out \in 0..255
      BY <1>2, <2>2, BinaryParts, Zenon
    <3> HIDE DEF in, out
    <3> QED BY <3>1
  <2>4. stack \in 0..STACK_ELEMENTS - 1 /\ stack \in Int /\ rs \in Seq(Context) /\ rs # <<>>
        /\ \A k \in 1..n : rs[k].section \in 1..Len(binary.code)
    BY EofCodeAssumption DEF EofInv, MachineTypes, code
  <2>5. rest \in Int
    <3> HIDE DEF in
    <3> QED BY <2>3, <2>4
  <2>6. context \in Context /\ context.section = s /\ context.pc = pc + 3
        /\ context.stack_height = rest
    <3>1. s \in Nat /\ pc + 3 \in Nat
      BY <1>2, <1>3, BinaryParts
    <3> HIDE DEF rest
    <3> QED BY <2>5, <3>1 DEF Context
  <2> HIDE DEF context, idx, in, out, callee, hs, s
  <2>7. /\ rs' \in Seq(Context) /\ Len(rs') = n + 1 /\ rs'[n + 1] = context /\ rs' # <<>>
        /\ \A k \in 1..n : rs'[k] = rs[k]
        /\ n \in Nat /\ n >= 1
    BY <2>1, <2>4, <2>6, AppendProperties, EmptySeq
  <2>8. MachineTypes'
    <3>1. \A k \in 1..n + 1 : rs'[k].section \in 1..Len(binary.code)
      BY <1>2, <2>4, <2>6, <2>7
    <3> QED BY <2>1, <2>2, <2>7, <3>1 DEF EofInv, MachineTypes, code
  <2>9. ASSUME ~Lost PROVE Agrees(binary, heights, idx, 0, stack, rs')
    <3>1. /\ hs[pc] \in 0..STACK_LIMIT /\ hs[pc] = stack - base /\ base \in Nat
          /\ hs[pc] <= stack /\ in <= hs[pc]
          /\ pc + 3 \in Seen(hs) /\ hs[pc + 3] = hs[pc] - in + out
          /\ Agrees(binary, heights, s, pc, stack, rs)
      BY <2>9, <1>5
    <3>2. 0 \in Seen(heights[idx]) /\ heights[idx][0] = in
      <4>1. idx \in Behind /\ WholeOf(binary)
        BY <1>1, <2>2 DEF Behind, Accepted, Running, code, EofInv, ValidatorInv
      <4>2. Done(binary, idx, heights[idx])
        BY <4>1 DEF EofInv, ValidatorInv
      <4>3. ~LongTable(binary.code[idx])
        BY <1>2, <2>2, <2>9, BinaryParts DEF Lost, LongTables, code
      <4>4. heights[idx][0] = in /\ DOMAIN heights[idx] = 0..Len(binary.code[idx]) - 1
        BY <4>2, <4>3 DEF Done, HeightsOf, in, callee
      <4>5. Len(binary.code[idx]) \in Nat \ {0}
        <5>1. idx \in DOMAIN binary.code /\ binary.code[idx] \in Seq(0..255)
          BY <1>2, <2>2, BinaryParts
        <5> QED BY <4>1, <5>1, EmptySeq DEF WholeOf
      <4>6. in # UNVISITED
        <5> HIDE DEF in
        <5> QED BY <2>3 DEF UNVISITED
      <4> QED BY <4>4, <4>5, <4>6 DEF Seen
    <3>3. in = stack - rest /\ rest >= 0
      <4> DEFINE h == hs[pc]
      <4>1. in \in Int /\ out \in Int /\ h \in 0..STACK_LIMIT /\ h <= stack /\ in <= h
        BY <2>3, <3>1
      <4> HIDE DEF h
      <4> QED BY <2>4, <4>1, StackLimitAssumption
    <3>4. hs[pc + 3] = rest + out - base
      <4> DEFINE h == hs[pc]
                 g == hs[pc + 3]
      <4>1. in \in Int /\ out \in Int /\ h = stack - base /\ g = h - in + out /\ base \in Int
        BY <2>3, <3>1
      <4> SUFFICES g = rest + out - base
        OBVIOUS
      <4> HIDE DEF h, g, base
      <4> QED BY <2>4, <4>1
    <3> HIDE DEF rest
    <3>5. \A k \in 1..n + 1 : rs'[k].stack_height >= 0
      <4>1. \A k \in 1..n : rs[k].stack_height >= 0
        BY <3>1 DEF Agrees
      <4> QED BY <2>6, <2>7, <3>3, <4>1
    <3>6. Returns(binary, heights, rs', idx)
      <4> SUFFICES ASSUME NEW k \in 2..n + 1
                   PROVE  /\ rs'[k].pc \in Seen(heights[rs'[k].section])
                          /\ heights[rs'[k].section][rs'[k].pc] =
                                rs'[k].stack_height + binary.types[Entered(rs', k, idx)].output
                                - rs'[k - 1].stack_height
        BY <2>7 DEF Returns
      <4>1. CASE k = n + 1
        <5>1. rs'[k] = context /\ rs'[k - 1] = rs[n] /\ Entered(rs', k, idx) = idx
          BY <2>7, <4>1 DEF Entered
        <5>2. binary.types[idx].output = out
          BY DEF out, callee
        <5> QED BY <2>6, <3>1, <3>4, <5>1, <5>2 DEF hs
      <4>2. CASE k # n + 1
        <5>1. k \in 2..n /\ k \in 1..n /\ k - 1 \in 1..n
          BY <2>7, <4>2
        <5>2. rs'[k] = rs[k] /\ rs'[k - 1] = rs[k - 1]
          BY <2>7, <5>1
        <5>3. Entered(rs', k, idx) = Entered(rs, k, s)
          <6>1. CASE k = n
            BY <2>6, <2>7, <6>1 DEF Entered
          <6>2. CASE k # n
            <7>1. k + 1 \in 1..n
              BY <2>7, <5>1, <6>2
            <7> QED BY <2>7, <5>1, <6>2, <7>1 DEF Entered
          <6> QED BY <6>1, <6>2
        <5>4. /\ rs[k].pc \in Seen(heights[rs[k].section])
              /\ heights[rs[k].section][rs[k].pc] =
                    rs[k].stack_height + binary.types[Entered(rs, k, s)].output
                    - rs[k - 1].stack_height
          BY <3>1, <5>1 DEF Agrees, Returns
        <5> QED BY <5>2, <5>3, <5>4
      <4> QED BY <4>1, <4>2
    <3>7. rs'[Len(rs')].stack_height = rest
      BY <2>6, <2>7
    <3> QED BY <2>7, <3>2, <3>3, <3>5, <3>6, <3>7 DEF Agrees
  <2>10. Lost' <=> Lost
    BY <2>1 DEF Lost, LongTables, code
  <2>11. phase' = "run"
    BY <1>1, <2>1 DEF Running
  <2> QED BY <2>1, <2>8, <2>9, <2>10, <2>11 DEF MachineInv, NoFault, Running
<1> QED BY <1>6, <1>7, <1>8

\* A return goes back to the height the validator gave the instruction behind
\* the call, because the function leaves what it announces.
LEMMA RetfStep ==
    ASSUME EofInv, Retf
    PROVE  MachineTypes' /\ MachineInv'
<1> DEFINE op == get_or_default(Executed, pc)
           s == code_section
           rs == return_stack
           n == Len(rs)
           context == Last(rs)
           base == rs[n].stack_height
<1>1. Running /\ Failure = "none" /\ Handler.does = "retf"
  BY DEF Retf, Goes
<1>2. /\ rs \in Seq(Context) /\ rs # <<>> /\ stack \in Int
      /\ \A k \in 1..n : rs[k].section \in 1..Len(binary.code)
  BY EofCodeAssumption DEF EofInv, MachineTypes, code
<1>3. /\ n \in Nat \ {0} /\ context = rs[n] /\ context \in Context
      /\ Front(rs) \in Seq(Context) /\ Len(Front(rs)) = n - 1
      /\ \A k \in 1..n - 1 : Front(rs)[k] = rs[k]
  BY <1>2, FrontOf
<1>4. CASE n = 1
  <2>1. Ended("halt")
    BY <1>4 DEF Retf
  <2> QED BY <1>1, <2>1, EndedStep
<1>5. CASE n # 1
  <2>1. /\ rs' = Front(rs) /\ code_section' = context.section /\ pc' = context.pc
        /\ phase' = phase /\ binary' = binary /\ heights' = heights /\ is_eof' = is_eof
        /\ stack' = stack /\ status' = status /\ astray' = astray
    BY <1>5 DEF Retf, flow
  <2> HIDE DEF context
  <2>2. /\ Len(rs') = n - 1 /\ n - 1 \in 1..n /\ n \in 1..n /\ n \in 2..n /\ rs' # <<>>
        /\ \A k \in 1..n - 1 : rs'[k] = rs[k]
    BY <1>3, <1>5, <2>1
  <2>3. MachineTypes'
    <3>1. context.section \in 1..Len(binary.code) /\ context.pc \in Int
      <4>1. context.section \in 1..Len(binary.code)
        BY <1>2, <1>3, <2>2
      <4>2. context.pc \in Nat
        BY <1>3 DEF Context
      <4> QED BY <4>1, <4>2
    <3>2. \A k \in 1..n - 1 : rs'[k].section \in 1..Len(binary.code)
      BY <1>2, <1>3, <2>2
    <3> QED BY <1>3, <2>1, <2>2, <3>1, <3>2 DEF EofInv, MachineTypes, code
  <2>4. ASSUME ~Lost PROVE Agrees(binary, heights, context.section, context.pc, stack, rs')
    <3> DEFINE hs == heights[s]
               back == heights[context.section][context.pc]
               out == binary.types[s].output
               below == rs[n - 1].stack_height
    <3>1. /\ hs[pc] = stack - base /\ base \in Nat /\ hs[pc] \in 0..STACK_LIMIT /\ pc \in Nat
          /\ Takes(binary, s, pc, hs[pc])
          /\ Agrees(binary, heights, s, pc, stack, rs)
      BY <1>1, <2>4, Located
    <3>2. op = RETF /\ Executed = binary.code[s] /\ binary \in Binaries /\ s \in 1..Len(binary.code)
      <4>1. Matches(op, Handler)
        BY HandlerOf
      <4>2. op = RETF
        BY <1>1, <4>1 DEF Matches
      <4> QED BY <4>2, HandlerOf
    <3>3. out = hs[pc]
      <4>1. get_or_default(binary.code[s], pc) = RETF
        BY <3>2
      <4> HIDE DEF hs
      <4> QED BY <3>1, <3>2, <4>1, HeightBounds
    <3>4. /\ context.pc \in Seen(heights[context.section])
          /\ back = base + out - below
      <4>1. Entered(rs, n, s) = s
        BY DEF Entered
      <4> QED BY <1>3, <2>2, <3>1, <4>1 DEF Agrees, Returns
    <3>5. back = stack - below
      <4>1. rs[n - 1] \in Context
        BY <1>2, <2>2, ElementOfSeq
      <4>2. /\ below \in Int /\ base \in Int /\ out = stack - base /\ back = base + out - below
        BY <3>1, <3>3, <3>4, <4>1 DEF Context
      <4> SUFFICES back = stack - below
        OBVIOUS
      <4> HIDE DEF below, base, out, back
      <4> QED BY <1>2, <4>2
    <3>6. \A k \in 1..n - 1 : rs'[k].stack_height >= 0
      <4>1. \A k \in 1..n : rs[k].stack_height >= 0
        BY <3>1 DEF Agrees
      <4> QED BY <1>3, <2>2, <4>1
    <3>7. Returns(binary, heights, rs', context.section)
      <4> SUFFICES ASSUME NEW k \in 2..n - 1
                   PROVE  /\ rs'[k].pc \in Seen(heights[rs'[k].section])
                          /\ heights[rs'[k].section][rs'[k].pc] =
                                rs'[k].stack_height
                                + binary.types[Entered(rs', k, context.section)].output
                                - rs'[k - 1].stack_height
        BY <2>2 DEF Returns
      <4>1. k \in 2..n /\ k \in 1..n - 1 /\ k - 1 \in 1..n - 1
        BY <1>3
      <4>2. rs'[k] = rs[k] /\ rs'[k - 1] = rs[k - 1]
        BY <2>2, <4>1
      <4>3. Entered(rs', k, context.section) = Entered(rs, k, s)
        <5>1. CASE k = n - 1
          BY <1>3, <2>2, <5>1 DEF Entered
        <5>2. CASE k # n - 1
          <6>1. k + 1 \in 1..n - 1 /\ k # n
            BY <1>3, <4>1, <5>2
          <6> QED BY <2>2, <5>2, <6>1 DEF Entered
        <5> QED BY <5>1, <5>2
      <4>4. /\ rs[k].pc \in Seen(heights[rs[k].section])
            /\ heights[rs[k].section][rs[k].pc] =
                  rs[k].stack_height + binary.types[Entered(rs, k, s)].output
                  - rs[k - 1].stack_height
        BY <3>1, <4>1 DEF Agrees, Returns
      <4> QED BY <4>2, <4>3, <4>4
    <3>8. rs'[Len(rs')] = rs[n - 1]
      <4>1. n - 1 \in 1..n - 1
        BY <1>3, <1>5
      <4> QED BY <2>2, <4>1
    <3> QED BY <2>2, <3>4, <3>5, <3>6, <3>7, <3>8 DEF Agrees
  <2>5. Lost' <=> Lost
    BY <2>1 DEF Lost, LongTables, code
  <2>6. phase' = "run"
    BY <1>1, <2>1 DEF Running
  <2> QED BY <2>1, <2>3, <2>4, <2>5, <2>6 DEF MachineInv, NoFault, Running
<1> QED BY <1>4, <1>5

LEMMA ExecuteStep ==
    ASSUME EofInv, Execute
    PROVE  EofInv'
<1>1. MachineTypes' /\ MachineInv'
  <2>1. CASE \E eof \in BOOLEAN : Begin(eof)
    BY <2>1, BeginStep
  <2>2. CASE Continue \/ Push \/ \E eof \in BOOLEAN : CallOut(eof)
    BY <2>2, ForwardStep
  <2>3. CASE NextIteration
    BY <2>3, NextIterationStep
  <2>4. CASE Fail
    BY <2>4, FailStep
  <2>5. CASE OperandError
    <3>1. Running /\ Ended("error")
      BY <2>5 DEF OperandError
    <3> QED BY <3>1, EndedStep
  <2>6. CASE Halt
    <3>1. Running /\ Ended("halt")
      BY <2>6 DEF Halt
    <3> QED BY <3>1, EndedStep
  <2>7. CASE \E target \in 0..Len(Executed) : Jump(target) \/ Jumpi(target)
    BY <2>7, JumpStep
  <2>8. CASE Rjump \/ \E taken \in BOOLEAN : Rjumpi(taken)
    BY <2>8, RjumpStep
  <2>9. CASE \E idx \in 0..get_or_default(Executed, pc + 1) + 1 : Rjumpv(idx)
    BY <2>9, RjumpvStep
  <2>10. CASE Callf
    BY <2>10, CallfStep
  <2>11. CASE Retf
    BY <2>11, RetfStep
  <2> QED BY <2>1, <2>2, <2>3, <2>4, <2>5, <2>6, <2>7, <2>8, <2>9, <2>10, <2>11 DEF Execute
<1> QED BY <1>1, ExecuteKeeps DEF EofInv

LEMMA NextStep == EofInv /\ [Next]_vars => EofInv'
<1> SUFFICES ASSUME EofInv, [Next]_vars PROVE EofInv'
  OBVIOUS
<1>1. CASE Validate
  BY <1>1, ValidateStep
<1>2. CASE Execute
  BY <1>2, ExecuteStep
<1>3. CASE UNCHANGED vars
  <2>1. ValidatorTypes' /\ MachineTypes'
    BY <1>3 DEF EofInv, ValidatorTypes, MachineTypes, code, vars, scanning, flow, machine
  <2>2. /\ phase' = phase /\ binary' = binary /\ section' = section /\ i' = i
        /\ instruction_count' = instruction_count /\ opcode' = opcode /\ heights' = heights
        /\ worklist' = worklist /\ pos' = pos /\ height' = height
        /\ max_stack_height' = max_stack_height /\ height_update' = height_update
        /\ is_eof' = is_eof /\ code_section' = code_section /\ pc' = pc /\ stack' = stack
        /\ return_stack' = return_stack /\ status' = status /\ astray' = astray
    BY <1>3 DEF vars, scanning, flow, machine
  <2>3. /\ Current' = Current /\ code' = code /\ (Accepted' <=> Accepted) /\ Behind' = Behind
        /\ Open' = Open /\ (Lost' <=> Lost)
    BY <2>2 DEF Current, code, Accepted, Behind, Open, Lost, LongTables
  <2>4. ValidatorInv'
    BY <2>2, <2>3 DEF EofInv, ValidatorInv
  <2>5. MachineInv'
    BY <2>2, <2>3 DEF EofInv, MachineInv, Fresh, Running, NoFault
  <2> QED BY <2>1, <2>4, <2>5 DEF EofInv
<1> QED BY <1>1, <1>2, <1>3 DEF Next

\* Whatever is deployed, validate_container and the machine keep the invariant.
THEOREM EofInvariance == Spec => []EofInv
BY Initially, NextStep, PTL DEF Spec

-----------------------------------------------------------------------------
(* What it implies *)

LEMMA ImpliesTypeOK == EofInv => TypeOK
<1> SUFFICES ASSUME EofInv PROVE TypeOK
  OBVIOUS
<1> DEFINE n == Len(code)
<1>1. ValidatorTypes /\ MachineTypes /\ ValidatorInv
  BY DEF EofInv
<1>2. /\ binary \in Binaries /\ section \in 1..n /\ DOMAIN code = 1..n
      /\ Current \in Seq(0..255) /\ Len(Current) \in Nat
  <2>1. binary \in Binaries /\ section \in 1..n
    BY <1>1 DEF ValidatorTypes
  <2> QED BY <1>1, <2>1, AtSection, BinaryParts DEF code
<1>3. ASSUME NEW s \in DOMAIN code, NEW k \in DOMAIN heights[s]
      PROVE  heights[s][k] \in UNVISITED..STACK_LIMIT
  <2>1. heights[s] = <<>> \/ heights[s] \in HeightsOf(code[s])
    BY <1>1, <1>2 DEF ValidatorTypes
  <2> QED BY <2>1 DEF HeightsOf
<1>4. \A w \in ToSet(worklist) : w.pos \in Int /\ w.height \in 0..STACK_LIMIT
  <2>1. worklist \in Seq(Ahead)
    BY <1>1 DEF ValidatorTypes
  <2>2. \A w \in ToSet(worklist) : w \in Ahead
    BY <2>1, ElementOfSeq DEF ToSet
  <2> QED BY <2>2 DEF Ahead
<1>5. ASSUME NEW r \in ToSet(return_stack)
      PROVE  r.section \in DOMAIN code /\ r.pc \in Nat /\ r.stack_height \in Int
  <2>1. return_stack \in Seq(Context)
    BY <1>1 DEF MachineTypes
  <2>2. PICK k \in 1..Len(return_stack) : r = return_stack[k]
    BY <2>1 DEF ToSet
  <2>3. r \in Context
    BY <2>1, <2>2, ElementOfSeq
  <2>4. r.section \in 1..n
    BY <1>1, <2>2 DEF MachineTypes
  <2> QED BY <1>2, <2>3, <2>4 DEF Context
<1>6. phase = "flow" /\ ~LongTable(Current) => pos \in 0..Len(Current)
  BY <1>1 DEF ValidatorInv
<1>7. worklist # <<>> /\ ~LongTable(Current) =>
          \A w \in ToSet(worklist) : w.pos \in DOMAIN heights[section]
  BY <1>1 DEF ValidatorInv
<1>8. code_section \in DOMAIN code /\ is_eof \in BOOLEAN /\ astray \in BOOLEAN
      /\ pc \in Int /\ stack \in 0..STACK_ELEMENTS - 1
  BY <1>1, <1>2 DEF MachineTypes
<1> QED BY <1>1, <1>2, <1>3, <1>4, <1>5, <1>6, <1>7, <1>8 DEF TypeOK, ValidatorTypes

LEMMA ImpliesSafety ==
    EofInv => ValidatedHeight /\ NoFault /\ WithinDeclared /\ SlicesInBounds
<1> SUFFICES ASSUME EofInv PROVE ValidatedHeight /\ NoFault /\ WithinDeclared /\ SlicesInBounds
  OBVIOUS
<1>1. NoFault /\ SlicesInBounds
  BY DEF EofInv, MachineInv, ValidatorInv, SlicesInBounds
<1>2. ASSUME Running, ~Lost
      PROVE  /\ pc \in DOMAIN heights[code_section]
             /\ heights[code_section][pc] # UNVISITED
             /\ heights[code_section][pc] = stack - Last(return_stack).stack_height
             /\ stack - Last(return_stack).stack_height <= types[code_section].max_stack_height
  BY <1>2, Located DEF Seen, types, Last
<1> QED BY <1>1, <1>2 DEF ValidatedHeight, WithinDeclared

LEMMA ImpliesReachable == EofInv => AllReachable
<1> SUFFICES ASSUME EofInv, Accepted, NEW s \in DOMAIN code,
                    RJUMPV \notin {get_or_default(code[s], n) : n \in eof_code_bitmap(code[s])},
                    NEW n \in eof_code_bitmap(code[s])
             PROVE  heights[s][n] # UNVISITED
  BY DEF AllReachable
<1>1. s \in Behind
  BY BinaryParts, SMTT(60) DEF Behind, EofInv, ValidatorTypes, code
<1>2. Done(binary, s, heights[s])
  BY <1>1 DEF EofInv, ValidatorInv
<1>3. ~HasTable(code[s])
  BY DEF HasTable, Starts
<1>4. n \in Seen(heights[s])
  BY <1>2, <1>3 DEF Done, code, Starts
<1> QED BY <1>4 DEF Seen

\* TypeOK holds whatever is deployed: no height of validate_control_flow
\* exceeds STACK_LIMIT and, but for jump tables that wrap, no position of it
\* lies outside the code.
THEOREM TypesCorrect == Spec => []TypeOK
BY EofInvariance, ImpliesTypeOK, PTL

\* ValidatedHeight holds in every container validate_container accepts: the
\* machine is where the validator was, with the height it found there, as
\* long as it is not Lost.
THEOREM HeightsValidated == Spec => []ValidatedHeight
BY EofInvariance, ImpliesSafety, PTL

\* NoFault holds in every container: unless the machine was Lost, no handler
\* meets what validation excludes.
THEOREM Faultless == Spec => []NoFault
BY EofInvariance, ImpliesSafety, PTL

\* WithinDeclared holds in every container: CALLF's test of the callee's
\* max_stack_height covers all it will use before it is Lost.
THEOREM DeclaredEnough == Spec => []WithinDeclared
BY EofInvariance, ImpliesSafety, PTL

\* AllReachable holds in every container: equal counts leave nothing unvisited.
THEOREM CountsReach == Spec => []AllReachable
BY EofInvariance, ImpliesReachable, PTL

\* SlicesInBounds holds of every header unmarshal_binary reads.
THEOREM SlicesFit == Spec => []SlicesInBounds
BY EofInvariance, ImpliesSafety, PTL
=============================================================================
