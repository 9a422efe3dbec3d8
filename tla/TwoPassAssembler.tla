-------------------------- MODULE TwoPassAssembler --------------------------
(***************************************************************************)
(* What an assembler of this language produces, without queues, tables or  *)
(* counters: the textbook two-pass reading.  The whole source is read,     *)
(* then one step accepts or rejects it and yields its files, every address *)
(* a sum over the statements before it and every word a number put         *)
(* together from its fields.  Assembler is checked to implement this.      *)
(***************************************************************************)
EXTENDS Integers, Sequences, FiniteSets, SequencesExt

CONSTANTS NoName, Lines, MaxLines, MaxSymbols, MayFail

VARIABLES program, phase, accepted, opened, object, entryFile, externFile

vars == <<program, phase, accepted, opened, object, entryFile, externFile>>

FirstAddress == 100
WordRange    == 2^14

\* The statements of a source.
Means(prog)         == [i \in 1..Len(prog) |-> prog[i].means]
Lists(prog, kind)   == {i \in 1..Len(prog) : Means(prog)[i].kind = kind}
Instructions(prog)  == Lists(prog, "instruction")
DataLists(prog)     == Lists(prog, "data")
Labelled(prog)      == {i \in Instructions(prog) \cup DataLists(prog) :
                            Means(prog)[i].label # NoName}
Entries(prog)       == {Means(prog)[i].name : i \in Lists(prog, "entry")}
Externs(prog)       == {Means(prog)[i].name : i \in Lists(prog, "extern")}
Defined(prog)       == {Means(prog)[i].label : i \in Labelled(prog)}

-----------------------------------------------------------------------------
\* One instruction: its words, as fields and references.  An operand is a
\* record with its mode (0 immediate, 1 symbol, 3 register).

Absolute(value) == [value |-> value, name |-> NoName]
Reference(name) == [value |-> 0, name |-> name]

OperandWord(operand, registerUnit) ==
    CASE operand.mode = 0 -> Absolute(4 * operand.value)
      [] operand.mode = 1 -> Reference(operand.name)
      [] operand.mode = 3 -> Absolute(registerUnit * operand.number)

\* Two registers share a word, the source in bits 8-10, the destination in 2-4.
OperandWords(operands) ==
    CASE Len(operands) = 0 -> <<>>
      [] Len(operands) = 1 -> <<OperandWord(operands[1], 4)>>
      [] Len(operands) = 2 ->
            IF operands[1].mode = 3 /\ operands[2].mode = 3
            THEN <<Absolute(256 * operands[1].number + 4 * operands[2].number)>>
            ELSE <<OperandWord(operands[1], 256), OperandWord(operands[2], 4)>>

Mode(operands, i) == IF i \in 1..Len(operands) THEN operands[i].mode ELSE 0

\* The first word: bits 12-13 and 10-11 the parameters of a jump, 6-9 the
\* opcode, 4-5 and 2-3 the addressing of the operands.
FirstWord(s) ==
    LET n == Len(s.operands)
    IN  IF s.target = NoName
        THEN 64 * s.op + 4 * Mode(s.operands, n) + (IF n = 2 THEN 16 * Mode(s.operands, 1) ELSE 0)
        ELSE 64 * s.op + (IF n = 0 THEN 4 ELSE 8)
             + 4096 * Mode(s.operands, 1) + 1024 * Mode(s.operands, 2)

Words(s) == <<Absolute(FirstWord(s))>>
            \o (IF s.target = NoName THEN <<>> ELSE <<Reference(s.target)>>)
            \o OperandWords(s.operands)

-----------------------------------------------------------------------------
\* The image: the words of the instructions in order, then those of the data.

CodeBefore(prog, i) ==
    FlattenSeq([j \in 1..(i - 1) |->
        IF j \in Instructions(prog) THEN Words(Means(prog)[j]) ELSE <<>>])
DataBefore(prog, i) ==
    FlattenSeq([j \in 1..(i - 1) |->
        IF j \in DataLists(prog) THEN Means(prog)[j].values ELSE <<>>])

Code(prog) == CodeBefore(prog, Len(prog) + 1)
Data(prog) == DataBefore(prog, Len(prog) + 1)

\* A label is the address of the first statement that declares it.
AddressOf(prog, name) ==
    LET i == CHOOSE i \in Labelled(prog) :
                /\ Means(prog)[i].label = name
                /\ \A j \in Labelled(prog) : Means(prog)[j].label = name => i <= j
    IN  FirstAddress + IF i \in Instructions(prog) THEN Len(CodeBefore(prog, i))
                       ELSE Len(Code(prog)) + Len(DataBefore(prog, i))

\* The last two bits: 2 relocatable, 1 external, 0 absolute.
Resolved(prog, word) ==
    IF word.name = NoName THEN word.value % WordRange
    ELSE IF word.name \in Defined(prog) THEN (4 * AddressOf(prog, word.name) + 2) % WordRange
    ELSE 1

Image(prog) ==
    [k \in 1..Len(Code(prog)) |-> Resolved(prog, Code(prog)[k])]
    \o [k \in 1..Len(Data(prog)) |-> Data(prog)[k] % WordRange]

-----------------------------------------------------------------------------
\* What is accepted, and the files.

References(prog) == {Code(prog)[k].name : k \in 1..Len(Code(prog))} \ {NoName}

Accepted(prog) ==
    /\ Lists(prog, "malformed") = {}
    /\ Cardinality(Labelled(prog)) <= MaxSymbols
    /\ Entries(prog) \subseteq Defined(prog)
    /\ Externs(prog) \cap Defined(prog) = {}
    /\ References(prog) \subseteq Defined(prog) \cup Externs(prog)

Printed(address) == address % 1000

Wanted(prog) ==
    (IF Image(prog) = <<>> THEN {} ELSE {"ob"})
    \cup (IF Entries(prog) = {} THEN {} ELSE {"ent"})
    \cup (IF Externs(prog) = {} THEN {} ELSE {"ext"})

Object(prog) ==
    [k \in 1..Len(Image(prog)) |->
        [address |-> Printed(FirstAddress + k - 1), value |-> Image(prog)[k]]]

ExternUses(prog) ==
    LET Uses == {k \in 1..Len(Code(prog)) : Code(prog)[k].name \in Externs(prog)}
    IN  [n \in 1..Cardinality(Uses) |->
            LET k == SetToSortSeq(Uses, <)[n]
            IN  [label |-> Code(prog)[k].name, address |-> Printed(FirstAddress + k - 1)]]

EntryLines(prog) ==
    {[label |-> name, address |-> Printed(AddressOf(prog, name))] : name \in Entries(prog)}

-----------------------------------------------------------------------------
Init ==
    /\ program = <<>> /\ phase = "reading" /\ accepted = FALSE
    /\ opened = {} /\ object = <<>> /\ entryFile = {} /\ externFile = <<>>

ReadLine ==
    /\ phase = "reading"
    /\ Len(program) < MaxLines
    /\ Len(program') = Len(program) + 1
    /\ Last(program') \in Lines
    /\ program' = Append(program, Last(program'))
    /\ UNCHANGED <<phase, accepted, opened, object, entryFile, externFile>>

Reject ==
    /\ phase = "reading"
    /\ ~Accepted(program)
    /\ phase' = "done"
    /\ UNCHANGED <<program, accepted, opened, object, entryFile, externFile>>

\* The extern file is filled along with the object file.
Assemble ==
    /\ phase = "reading"
    /\ Accepted(program)
    /\ phase' = "done"
    /\ accepted' = TRUE
    /\ \E failing \in SUBSET MayFail : opened' = Wanted(program) \ failing
    /\ object' = IF "ob" \in opened' THEN Object(program) ELSE <<>>
    /\ externFile' = IF {"ob", "ext"} \subseteq opened' THEN ExternUses(program) ELSE <<>>
    /\ entryFile' = IF "ent" \in opened' THEN EntryLines(program) ELSE {}
    /\ UNCHANGED program

Next == ReadLine \/ Reject \/ Assemble

Spec == Init /\ [][Next]_vars
=============================================================================
