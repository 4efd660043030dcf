----------------------------- MODULE MCEofCode -----------------------------
(***************************************************************************)
(* Containers for EofCode: every first section of up to three pieces       *)
(* (instructions, and opcodes whose immediate is missing, so that the next *)
(* piece becomes it) before the last instruction, alone or, when it calls, *)
(* with one of a few second sections; every opcode of the table on a stack *)
(* that just has its operands; a jump table too long for the bitmap; and   *)
(* headers that are wrong in one place.                                    *)
(***************************************************************************)
EXTENDS EofCode

Pieces ==
    {<<STOP>>, <<1>>, <<80>>, <<12>>, <<91>>, <<PUSH0>>, <<PUSH1, PUSH1>>,
     <<RJUMP, 0, 0>>, <<RJUMP, 255, 252>>, <<RJUMP>>,
     <<RJUMPI, 0, 1>>, <<RJUMPI, 255, 252>>,
     <<RJUMPV, 2, 0, 0, 0, 1>>, <<RJUMPV, 2, 0, 1, 0, 0>>,
     <<CALLF, 0, 1>>, <<RETF>>}

Type(in, out, most) == [input |-> in, output |-> out, max_stack_height |-> most]

Container(ts, cs) ==
    LET sizes == [k \in DOMAIN cs |-> Len(cs[k])] IN
    [magic |-> TRUE, version |-> 1, kinds |-> <<1, 2, 3>>, terminator |-> 0,
     type_size |-> 4 * Len(ts), code_sizes |-> sizes, data_size |-> 0,
     len |-> 13 + 6 * Len(ts) + FoldLeft(+, 0, sizes),
     types |-> ts, code |-> cs]

\* Functions: the identity, one that replaces its argument, a constant, two
\* that call themselves and one that underflows
Functions2 ==
    {<<Type(1, 1, 1), <<RETF>>>>, <<Type(1, 1, 1), <<80, PUSH0, RETF>>>>,
     <<Type(0, 1, 1), <<PUSH0, RETF>>>>, <<Type(0, 0, 1), <<PUSH0, CALLF, 0, 1, 80, RETF>>>>,
     <<Type(1, 1, 1), <<CALLF, 0, 1, RETF>>>>, <<Type(0, 0, 0), <<80, RETF>>>>}

UpToTwo == {<<>>} \cup Pieces \cup {p \o q : p, q \in Pieces}
UpToThree == UpToTwo \cup {p \o q : p \in UpToTwo, q \in Pieces}

OneSection ==
    {Container(<<Type(0, 0, h)>>, <<c \o <<STOP>>>>) : h \in 0..2, c \in UpToThree}
TwoSections ==
    {Container(<<Type(0, 0, h), f[1]>>, <<c \o last, f[2]>>) :
        h \in 0..1, f \in Functions2, last \in {<<STOP>>, <<RETF>>},
        c \in {d \in UpToTwo : CALLF \in ToSet(d)}}

\* With k = 0 the declared height is the one of the operands
EveryOpcode ==
    {LET n == OPCODE_INFO[op].min_stack
         after == IF is_terminal_opcode(op) THEN <<>>
                  ELSE [j \in 1..1 + Immediate(<<op>>, 0) |-> STOP]
     IN  Container(<<Type(0, 0, n + k)>>, <<[j \in 1..n |-> PUSH0] \o <<op>> \o after>>) :
        op \in DOMAIN OPCODE_INFO \ {RJUMP, RJUMPI, RJUMPV, CALLF, RETF}, k \in 0..1}

\* Two jump tables whose lengths wrap, and a jump back to the last byte of
\* the first
Zeros(n) == [j \in 1..n |-> 0]
WrappingTables ==
    {Container(<<Type(0, 0, 1)>>,
        <<<<PUSH0, RJUMPV, U8 \div 2>> \o Zeros(U8) \o <<PUSH0, RJUMPV, 5>> \o Zeros(10)
          \o <<RJUMP, 255, 239>>>>)}

Sound == Container(<<Type(0, 0, 0), Type(1, 1, 1)>>, <<<<STOP>>, <<RETF>>>>)

Malformed ==
    {[Sound EXCEPT !.magic = FALSE], [Sound EXCEPT !.version = 2],
     [Sound EXCEPT !.kinds = <<1, 3, 3>>], [Sound EXCEPT !.terminator = 1],
     [Sound EXCEPT !.type_size = 9], [Sound EXCEPT !.data_size = 1],
     [Sound EXCEPT !.data_size = U16 - 1],
     [Sound EXCEPT !.data_size = U16 - 1, !.code_sizes = <<1, 2>>],
     [Sound EXCEPT !.code_sizes = <<1, 0>>], [Sound EXCEPT !.code_sizes = <<U16 - 1, 3>>],
     [Sound EXCEPT !.len = 13], [Sound EXCEPT !.len = 20],
     [Sound EXCEPT !.types = <<Type(0, 1, 0), Type(1, 1, 1)>>],
     [Sound EXCEPT !.types = <<Type(0, 0, 0), Type(MAX_INPUT_ITEMS + 1, 1, 1)>>]}

MCBinaries == OneSection \cup TwoSections \cup EveryOpcode \cup WrappingTables \cup Malformed
=============================================================================
