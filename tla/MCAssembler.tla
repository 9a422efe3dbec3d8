---------------------------- MODULE MCAssembler ----------------------------
(***************************************************************************)
(* Instances of Assembler for TLC, and the refinement of TwoPassAssembler. *)
(***************************************************************************)
EXTENDS Assembler, SourceLines, FiniteSetsExt

MCOpcodeOf ==
    [mov |-> 0, cmp |-> 1, add |-> 2, sub |-> 3, not |-> 4, clr |-> 5, lea |-> 6, inc |-> 7,
     dec |-> 8, jmp |-> 9, bne |-> 10, red |-> 11, prn |-> 12, jsr |-> 13, rts |-> 14, stop |-> 15]
MCRegisterOf ==
    [r0 |-> 0, r1 |-> 1, r2 |-> 2, r3 |-> 3, r4 |-> 4, r5 |-> 5, r6 |-> 6, r7 |-> 7]
MCNames == DOMAIN MCOpcodeOf \cup DOMAIN MCRegisterOf \cup {"", "A", "B", "2nd"}

\* Every name its own bucket and key.
MCIdent == [n \in MCNames |-> n]

NoFile   == {}
AnyFile  == OutputFiles

\* Lines whose statements refer to each other: forward and backward labels,
\* entries, externs, code and data, and lines that fail half-way.
ProgramLines ==
    {InstructionLine("A", "mov", <<Register(3), Register(5)>>),
     InstructionLine(NoName, "lea", <<Symbol("B"), Register(5)>>),
     InstructionLine("B", "rts", <<>>),
     JumpLine(NoName, "jmp", "A", <<Symbol("B"), Immediate(-5)>>),
     DataLine("B", <<7, -9>>),
     StringLine(NoName, <<97>>),
     EntryLine("A"), EntryLine("B"), ExternLine("B"),
     Malformed(<<Id("cmp"), Ws, Imm(4), Ws, Imm(4)>>),
     Malformed(<<Decl("A"), Ws, Dot("data"), Ws, Num(1), Comma>>)}

-----------------------------------------------------------------------------
ValueOf(bits) == MapThenSumSet(LAMBDA b : 2^b, bits)

Finished == pc = "done"

TwoPass == INSTANCE TwoPassAssembler WITH
    phase      <- IF Finished THEN "done" ELSE "reading",
    accepted   <- Finished /\ createFiles,
    opened     <- IF Finished THEN opened ELSE {},
    object     <- IF Finished
                  THEN [k \in 1..Len(object) |->
                           [address |-> object[k].address, value |-> ValueOf(object[k].code)]]
                  ELSE <<>>,
    entryFile  <- IF Finished THEN entryFile ELSE {},
    externFile <- IF Finished THEN externFile ELSE <<>>

\* The one pass over queues and tables accepts the sources, and writes the
\* files, of the textbook two-pass assembler: same words, same addresses, same
\* entry and extern lines, same verdict.
ImplementsTwoPass == TwoPass!Spec
=============================================================================
