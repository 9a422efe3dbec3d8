---------------------------- MODULE SourceLines ----------------------------
(***************************************************************************)
(* Lines for the model-checking runs: a statement, and the tokens it is    *)
(* written with.                                                           *)
(***************************************************************************)
EXTENDS AssemblerState

Tok(kind)  == [t |-> kind]
Ws         == Tok("ws")
Comma      == Tok("comma")
Open       == Tok("open")
Close      == Tok("close")
Junk       == Tok("junk")
Sign       == Tok("sign")
Decl(name) == [t |-> "decl", w |-> name]
Id(name)   == [t |-> "id", w |-> name]
Digits(name) == [t |-> "digits", w |-> name]
Dot(d)     == [t |-> "dot", d |-> d]
Imm(v)     == [t |-> "imm", v |-> v]
Num(v)     == [t |-> "num", v |-> v]
Str(chars, closed) == [t |-> "str", chars |-> chars, closed |-> closed]

Line(text, means) == [text |-> text, means |-> means]
Malformed(text)   == Line(text, [kind |-> "malformed"])
BlankLine         == Line(<<>>, [kind |-> "blank"])
UnreadableLine    == Malformed(<<Tok("overflow")>>)

Declared(label) == IF label = NoName THEN <<>> ELSE <<Decl(label), Ws>>

\* Operands.
Immediate(v) == [mode |-> 0, value |-> v]
Symbol(name) == [mode |-> 1, name |-> name]
Register(n)  == [mode |-> 3, number |-> n]

OperandToken(o) ==
    CASE o.mode = 0 -> Imm(o.value)
      [] o.mode = 1 -> Id(o.name)
      [] o.mode = 3 -> Id(CHOOSE r \in DOMAIN RegisterOf : RegisterOf[r] = o.number)

OperandList(operands) ==
    CASE Len(operands) = 0 -> <<>>
      [] Len(operands) = 1 -> <<OperandToken(operands[1])>>
      [] Len(operands) = 2 -> <<OperandToken(operands[1]), Comma, OperandToken(operands[2])>>

\* Statements.
InstructionMeaning(label, mnemonic, operands, target) ==
    [kind |-> "instruction", label |-> label, op |-> OpcodeOf[mnemonic],
     operands |-> operands, target |-> target]

InstructionLine(label, mnemonic, operands) ==
    Line(Declared(label) \o <<Id(mnemonic)>>
             \o (IF operands = <<>> THEN <<>> ELSE <<Ws>> \o OperandList(operands)),
         InstructionMeaning(label, mnemonic, operands, NoName))

JumpLine(label, mnemonic, target, operands) ==
    Line(Declared(label) \o <<Id(mnemonic), Ws, Id(target)>>
             \o (IF operands = <<>> THEN <<>> ELSE <<Open>> \o OperandList(operands) \o <<Close>>),
         InstructionMeaning(label, mnemonic, operands, target))

DataMeaning(label, values) == [kind |-> "data", label |-> label, values |-> values]

DataLine(label, values) ==
    Line(Declared(label) \o <<Dot("data"), Ws>>
             \o [i \in 1..(2 * Len(values) - 1) |->
                    IF i % 2 = 0 THEN Comma ELSE Num(values[(i + 1) \div 2])],
         DataMeaning(label, values))

StringLine(label, chars) ==
    Line(Declared(label) \o <<Dot("string"), Ws, Str(chars, TRUE)>>,
         DataMeaning(label, Append(chars, 0)))

EntryLine(name)  == Line(<<Dot("entry"), Ws, Id(name)>>, [kind |-> "entry", name |-> name])
ExternLine(name) == Line(<<Dot("extern"), Ws, Id(name)>>, [kind |-> "extern", name |-> name])
=============================================================================
