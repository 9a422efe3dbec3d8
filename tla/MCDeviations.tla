---------------------------- MODULE MCDeviations ----------------------------
(***************************************************************************)
(* What the repository says of the program and the code does not do: one   *)
(* property and one small instance each, on which TLC finds the behaviour. *)
(***************************************************************************)
EXTENDS MCAssembler

\* The number a field of a word holds, in two's complement.
Signed(bits, low, high) ==
    ValueOf({b - low : b \in bits \cap low..high})
        - (IF high \in bits THEN 2^(high - low + 1) ELSE 0)

Accepted == pc = "done" /\ createFiles

-----------------------------------------------------------------------------
\* README.txt:11, "if no errors were found until now, we move to the writing to
\* files, else we exit": a source an ERROR line was printed for is not written.
ErrorsBlockOutput == reported => pc \notin WritePcs

\* A: inc r3, twice, and .data 5, x
ErrorLines ==
    {InstructionLine("A", "inc", <<Register(3)>>),
     Line(<<Dot("data"), Ws, Num(5), Comma, Ws, Id("A")>>, DataMeaning(NoName, <<5>>))}

-----------------------------------------------------------------------------
\* sharedEnums.h:5, the range of a value, and README.txt:17, two's complement: an
\* accepted number can be read back, a .data value from its word and an immediate from the
\* twelve bits its word leaves it.
NumbersKept ==
    Accepted =>
        /\ \A i \in 1..Len(instructionQ) :
              Signed(instructionQ[i].binaryCode, 0, 13) = TwoPass!Data(program)[i]
        /\ \A i \in 1..(Len(directiveQ) \div 2) :
              Signed(directiveQ[2 * i].binaryCode, 2, 13) = program[i].means.operands[1].value

\* .data 9999,1 and prn #5000
WideLines == {DataLine(NoName, <<9999, 1>>), InstructionLine(NoName, "prn", <<Immediate(5000)>>)}

-----------------------------------------------------------------------------
\* mainAssemblerPass.c:589, "we only have a space of 256 words in memory": an
\* image that is written fits.
FitsInMemory == pc \in WritePcs => Len(directiveQ) + Len(instructionQ) <= 256

LongStringLines == {StringLine(NoName, [i \in 1..65 |-> 97])}

-----------------------------------------------------------------------------
\* hashTableDS.c:77, "multiple definitions in the same file with identical
\* label": only a label that was declared before is turned away.
RepeatsShareTheirName ==
    symbolTable.count > Cardinality(DOMAIN symbolTable.nodes) =>
        \E i, j \in 1..Len(program) :
            i < j /\ HasLabel(program[i].text) /\ HasLabel(program[j].text)
                  /\ Label(program[i].text) = Label(program[j].text)

\* ad and dX share hash bucket 108 and key 111.
CollidingNames == MCNames \cup {"ad", "dX"}
CollidingIdent ==
    [n \in CollidingNames |-> IF n \in {"ad", "dX"} THEN [bucket |-> 108, key |-> 111]
                              ELSE [bucket |-> n, key |-> 0]]
CollidingLines == {InstructionLine(n, "rts", <<>>) : n \in {"ad", "dX"}}
=============================================================================
