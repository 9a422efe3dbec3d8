--------------------------- MODULE AssemblerSafety ---------------------------
(***************************************************************************)
(* The safety of the assembler: what a rejected source leaves behind,      *)
(* where the words lie, and that every word written is complete.           *)
(***************************************************************************)
EXTENDS AssemblerTypes

-----------------------------------------------------------------------------
(* The frame of the first stage: it moves within its own functions until   *)
(* the end of the file, and never clears a rejection.                      *)

FirstStageFrame ==
    /\ pc \in FirstStagePcs
    /\ pc' \in FirstStagePcs \cup {"validationPass"}
    /\ createFiles' => createFiles
    /\ UNCHANGED <<current, completed, outputs>>

\* Ending a line never turns the verdict back and touches no other pass's variables.
LEMMA EndLineFrame ==
    ASSUME pc \in FirstStagePcs, NEW ok, NEW printed, EndLine(ok, printed), UNCHANGED others
    PROVE  FirstStageFrame
<1>1. createFiles' => createFiles
  BY Zenon DEF EndLine
<1>2. pc' \in FirstStagePcs
  BY DEF EndLine, FirstStagePcs
<1>3. UNCHANGED <<current, completed, outputs>>
  BY DEF others
<1>4. QED
  BY <1>1, <1>2, <1>3 DEF FirstStageFrame

\* Nor does going on after an operand.
LEMMA AfterOperandFrame ==
    ASSUME pc \in FirstStagePcs, NEW s, NEW registers, AfterOperand(s, registers),
           UNCHANGED others
    PROVE  FirstStageFrame
<1>1. CASE pc = "destination" /\ jumpWithOperand
  BY <1>1, EndLineFrame DEF AfterOperand
<1>2. CASE ~(pc = "destination" /\ jumpWithOperand)
  BY <1>2 DEF AfterOperand, FirstStageFrame, FirstStagePcs, others
<1>3. QED
  BY <1>1, <1>2

\* The first stage keeps a rejection and leaves the other passes' variables alone.
LEMMA FirstStageFrames ==
    ASSUME TypeOK, FirstStageNext
    PROVE  FirstStageFrame
<1>1. ASSUME NEW l \in Lines, ReadLine(l)
      PROVE  FirstStageFrame
  <2>1. createFiles' => createFiles
    BY <1>1, Zenon DEF ReadLine
  <2>2. pc \in FirstStagePcs /\ pc' \in FirstStagePcs
    BY <1>1 DEF ReadLine, FirstStagePcs
  <2>3. QED
    BY <1>1, <2>1, <2>2 DEF ReadLine, FirstStageFrame
<1>2. CASE EndOfFile
  BY <1>2 DEF EndOfFile, FirstStageFrame, FirstStagePcs
<1>3. CASE ProcessInstruction
  <2> DEFINE s == Statement(rest)
  <2>1. s \in Seq(Token) /\ s # <<>> /\ Head(s) \in Token /\ Head(s).t = "dot"
    BY <1>3, StatementTypes, ScanTypes
    DEF ProcessInstruction, Instruction, Starts, TypeOK, ControlOK
  <2>2. pc' \in {"data", "string", "entry", "extern"}
    BY <1>3, <2>1, TokenFields DEF ProcessInstruction, Instruction
  <2>3. QED
    BY <1>3, <2>2 DEF ProcessInstruction, FirstStageFrame, FirstStagePcs, others
<1>4. CASE ProcessDirective
  <2> DEFINE op == hashGetOpCode(Head(Statement(rest)).w)
  <2>1. pc' \in {"jump", "source", "destination", "endOfLine"}
    <3>1. op \in 0..15
      BY <1>4, OpcodeType DEF ProcessDirective, Directive
    <3> HIDE DEF op
    <3>2. QED
      BY <1>4, <3>1 DEF ProcessDirective, getArity, op
  <2>2. QED
    BY <1>4, <2>1 DEF ProcessDirective, FirstStageFrame, FirstStagePcs, others
<1>5. CASE ProcessLineError
  BY <1>5, EndLineFrame DEF ProcessLineError, FirstStagePcs
<1>6. CASE ProcessData
  <2>1. CASE isValidTextBeforeNum(skipWhiteSpace(rest))
    BY <1>6, <2>1 DEF ProcessData, FirstStageFrame, FirstStagePcs, others
  <2>2. CASE ~isValidTextBeforeNum(skipWhiteSpace(rest))
    BY <1>6, <2>2, EndLineFrame DEF ProcessData, Fail, FirstStagePcs
  <2>3. QED
    BY <2>1, <2>2
<1>7. CASE LastNumber
  BY <1>7, EndLineFrame DEF LastNumber, FirstStagePcs
<1>8. CASE NextNumber
  <2>1. pc \in FirstStagePcs /\ UNCHANGED others
    BY <1>8 DEF NextNumber, FirstStagePcs
  <2>2. CASE UNCHANGED <<pc, locals, createFiles, reported>>
    BY <1>8, <2>1, <2>2 DEF FirstStageFrame, others
  <2>3. CASE EndLine(TRUE, FALSE) \/ EndLine(TRUE, TRUE) \/ EndLine(FALSE, TRUE)
    BY <2>1, <2>3, EndLineFrame
  <2>4. QED
    BY <1>8, <2>2, <2>3 DEF NextNumber, Fail
<1>9. CASE BadNumber
  BY <1>9, EndLineFrame DEF BadNumber, Fail, FirstStagePcs
<1>10. CASE ProcessString
  BY <1>10, EndLineFrame DEF ProcessString, Fail, FirstStagePcs
<1>11. CASE ProcessEntry
  BY <1>11, EndLineFrame DEF ProcessEntry, Fail, FirstStagePcs
<1>12. CASE ProcessExtern
  BY <1>12, EndLineFrame DEF ProcessExtern, Fail, FirstStagePcs
<1>13. CASE AddImmediateOperand \/ AddDirectOperand \/ AddRegisterOperand
  BY <1>13, AfterOperandFrame
  DEF AddImmediateOperand, AddDirectOperand, AddRegisterOperand, FirstStagePcs
<1>14. CASE OperandError
  BY <1>14, EndLineFrame DEF OperandError, Fail, FirstStagePcs
<1>15. CASE getToSecondOperand
  <2>1. CASE Starts(skipWhiteSpace(rest), {"comma"})
    BY <1>15, <2>1 DEF getToSecondOperand, FirstStageFrame, FirstStagePcs, others
  <2>2. CASE ~Starts(skipWhiteSpace(rest), {"comma"})
    BY <1>15, <2>2, EndLineFrame DEF getToSecondOperand, Fail, FirstStagePcs
  <2>3. QED
    BY <2>1, <2>2
<1>16. CASE validateEndOfLine
  BY <1>16, EndLineFrame DEF validateEndOfLine, Fail, FirstStagePcs
<1>17. CASE ProcessJumpNoOperands
  BY <1>17, EndLineFrame DEF ProcessJumpNoOperands, FirstStagePcs
<1>18. CASE ProcessJumpWithOperands
  BY <1>18 DEF ProcessJumpWithOperands, FirstStageFrame, FirstStagePcs, others
<1>19. CASE ProcessJumpError
  BY <1>19, EndLineFrame DEF ProcessJumpError, FirstStagePcs
<1>20. QED
  BY <1>1, <1>2, <1>3, <1>4, <1>5, <1>6, <1>7, <1>8, <1>9, <1>10, <1>11, <1>12, <1>13,
     <1>14, <1>15, <1>16, <1>17, <1>18, <1>19 DEF FirstStageNext

-----------------------------------------------------------------------------
(* How the first stage changes the queues.                                 *)

\* A word that at most gained bits.
Kept(old, new) ==
    /\ new.label = old.label /\ new.deciAddress = old.deciAddress
    /\ new.statement = old.statement /\ old.binaryCode \subseteq new.binaryCode

\* A queue with the words of directiveQ.
KeepsDirectives(queue) ==
    /\ queue \in Seq(NodeSet) /\ Len(queue) = Len(directiveQ)
    /\ \A i \in 1..Len(directiveQ) : Kept(directiveQ[i], queue[i])

\* Exactly one of the two flags of completeNode is set.
OneFlag(node) == "NOT_COMPLETE" \in node.statement <=> ~isComplete(node)

\* A word as it is queued: no symbol has been found for it.
Queued(node) == OneFlag(node) /\ node.statement \cap {"LABEL", "EXTERN"} = {}

\* At most one word is appended, it is counted, and its address is the counter.
DirectivesGrow ==
    /\ Len(directiveQ') \in {Len(directiveQ), Len(directiveQ) + 1}
    /\ directiveCounter' = directiveCounter + Len(directiveQ') - Len(directiveQ)
    /\ \A i \in 1..Len(directiveQ) : Kept(directiveQ[i], directiveQ'[i])
    /\ Len(directiveQ') = Len(directiveQ) + 1 =>
          /\ directiveQ'[Len(directiveQ')].deciAddress = directiveCounter
          /\ Queued(directiveQ'[Len(directiveQ')])

\* The data only grows at its end, each word at the place of the counter.
DataGrow ==
    /\ Len(instructionQ) <= Len(instructionQ')
    /\ instructionCounter' = instructionCounter + Len(instructionQ') - Len(instructionQ)
    /\ \A i \in 1..Len(instructionQ) : instructionQ'[i] = instructionQ[i]
    /\ \A i \in 1..(Len(instructionQ') - Len(instructionQ)) :
          instructionQ'[Len(instructionQ) + i].deciAddress = instructionCounter + i - 1

\* A queue keeps its own words.
LEMMA KeptItself ==
    ASSUME TypeOK
    PROVE  KeepsDirectives(directiveQ)
BY DEF KeepsDirectives, Kept, TypeOK, QueuesOK

\* A step that leaves a queue and its counter alone grows by nothing.
LEMMA UnchangedGrows ==
    ASSUME TypeOK
    PROVE  /\ UNCHANGED <<directiveQ, directiveCounter>> => DirectivesGrow
           /\ UNCHANGED <<instructionQ, instructionCounter>> => DataGrow
           /\ UNCHANGED queues => DirectivesGrow /\ DataGrow
<1>1. Len(directiveQ) \in Nat /\ Len(instructionQ) \in Nat
  BY LenProperties DEF TypeOK, QueuesOK
<1>2. directiveCounter \in Nat /\ instructionCounter \in Nat
  BY DEF TypeOK, QueuesOK
<1>3. UNCHANGED <<directiveQ, directiveCounter>> => DirectivesGrow
  BY <1>1, <1>2 DEF DirectivesGrow, Kept
<1>4. UNCHANGED <<instructionQ, instructionCounter>> => DataGrow
  BY <1>1, <1>2 DEF DataGrow
<1>5. QED
  BY <1>3, <1>4 DEF queues

\* A word queued at the counter's address grows the code by one, counted.
LEMMA EnqueueWordGrows ==
    ASSUME TypeOK, NEW queue, KeepsDirectives(queue), NEW node \in NodeSet,
           node.deciAddress = directiveCounter, Queued(node), enqueueWord(queue, node)
    PROVE  DirectivesGrow /\ DataGrow
<1>1. /\ directiveQ' = Append(queue, node)
      /\ directiveCounter' = directiveCounter + 1
      /\ UNCHANGED <<instructionQ, instructionCounter>>
  BY DEF enqueueWord
<1>2. Len(directiveQ) \in Nat /\ Len(queue) = Len(directiveQ) /\ directiveCounter \in Nat
  BY LenProperties DEF TypeOK, QueuesOK, KeepsDirectives
<1>3. /\ Len(directiveQ') = Len(directiveQ) + 1
      /\ \A i \in 1..Len(directiveQ) : directiveQ'[i] = queue[i]
      /\ directiveQ'[Len(directiveQ) + 1] = node
  BY <1>1, <1>2, AppendProperties DEF KeepsDirectives
<1>4. DirectivesGrow
  BY <1>1, <1>2, <1>3 DEF DirectivesGrow, KeepsDirectives
<1>5. QED
  BY <1>1, <1>4, UnchangedGrows

\* Queued values grow the data at its end, each at the address of its place.
LEMMA EnqueueValuesGrows ==
    ASSUME TypeOK, NEW S, NEW values \in Seq(S), enqueueValues(values)
    PROVE  DirectivesGrow /\ DataGrow
<1>1. Len(instructionQ) \in Nat /\ Len(values) \in Nat /\ instructionCounter \in Nat
  BY LenProperties DEF TypeOK, QueuesOK
<1>2. /\ Len(instructionQ') = Len(instructionQ) + Len(values)
      /\ \A i \in 1..Len(instructionQ) : instructionQ'[i] = instructionQ[i]
      /\ \A i \in 1..Len(values) :
            instructionQ'[Len(instructionQ) + i].deciAddress = instructionCounter + i - 1
  BY EnqueuedTypes DEF enqueueValues, TypeOK
<1>3. instructionCounter' = instructionCounter + Len(values)
  BY DEF enqueueValues
<1>4. DataGrow
  BY <1>1, <1>2, <1>3 DEF DataGrow
<1>5. QED
  BY <1>4, UnchangedGrows DEF enqueueValues

\* Adding bits keeps the words.
LEMMA AddedBitsKeep ==
    ASSUME NEW queue, KeepsDirectives(queue), NEW node \in Nat, NEW bits \in SUBSET WordBits
    PROVE  KeepsDirectives(addToBinaryCode(queue, node, bits))
<1> DEFINE new == addToBinaryCode(queue, node, bits)
<1>1. queue \in Seq(NodeSet) /\ Len(queue) = Len(directiveQ)
  BY DEF KeepsDirectives
<1>2. /\ new \in Seq(NodeSet) /\ Len(new) = Len(queue)
      /\ \A i \in 1..Len(queue) :
            new[i] = IF i = node THEN [queue[i] EXCEPT !.binaryCode = @ \cup bits] ELSE queue[i]
  BY <1>1, AddedBits
<1> HIDE DEF new
<1>3. ASSUME NEW i \in 1..Len(directiveQ)
      PROVE  Kept(directiveQ[i], new[i])
  <2>1. queue[i] \in NodeSet /\ Kept(directiveQ[i], queue[i])
    BY <1>1, ElementOfSeq DEF KeepsDirectives
  <2>2. CASE i = node
    BY <1>1, <1>2, <2>1, <2>2 DEF Kept, NodeSet
  <2>3. CASE i # node
    BY <1>1, <1>2, <2>1, <2>3
  <2>4. QED
    BY <2>2, <2>3
<1>4. QED
  BY <1>1, <1>2, <1>3 DEF KeepsDirectives, new

\* Setting addressing bits keeps every word's place, label and flags.
LEMMA WithAddressingKeeps ==
    ASSUME TypeOK, NEW addressing
    PROVE  KeepsDirectives(WithAddressing(addressing))
BY KeptItself, AddedBitsKeep, WithAddressingTypes DEF WithAddressing, TypeOK, LocalsOK

\* Every step of the first stage.
LEMMA FirstStageGrows ==
    ASSUME TypeOK, FirstStageNext
    PROVE  DirectivesGrow /\ DataGrow
<1>1. CASE UNCHANGED queues
  BY <1>1, UnchangedGrows
<1>2. CASE ProcessDirective
  <2> DEFINE op   == hashGetOpCode(Head(Statement(rest)).w)
             node == Node(NoName, directiveCounter, BitsOf(64 * op), {"DIRECTIVE", "COMPLETED"})
  <2>1. node \in NodeSet /\ node.deciAddress = directiveCounter /\ Queued(node)
    <3>1. node \in NodeSet
      BY NodeType, WordPieces DEF TypeOK, QueuesOK, Statements
    <3>2. QED
      BY <3>1 DEF Node, Queued, OneFlag, isComplete
  <2>2. enqueueWord(directiveQ, node)
    BY <1>2 DEF ProcessDirective, enqueueWord
  <2> HIDE DEF node
  <2>3. QED
    BY <2>1, <2>2, KeptItself, EnqueueWordGrows
<1>3. CASE LastNumber \/ NextNumber
  <2>1. <<Number(rest)>> \in Seq({Number(rest)})
    OBVIOUS
  <2>2. enqueueValues(<<Number(rest)>>) \/ UNCHANGED queues
    BY <1>3 DEF LastNumber, NextNumber
  <2>3. QED
    BY <2>1, <2>2, EnqueueValuesGrows, UnchangedGrows
<1>4. CASE ProcessString
  <2> DEFINE s == skipWhiteSpace(rest)
  <2>1. CASE Starts(s, {"str"}) /\ Head(s).closed
    <3>1. s \in Seq(Token) /\ s # <<>> /\ Head(s).t = "str"
      BY <2>1, ScanTypes DEF Starts, TypeOK, ControlOK
    <3>2. Head(s).chars \in Seq(0..127)
      BY <3>1, ScanTypes, TokenFields
    <3>3. Append(Head(s).chars, 0) \in Seq(0..127)
      BY <3>2
    <3>4. enqueueValues(Append(Head(s).chars, 0))
      BY <1>4, <2>1 DEF ProcessString
    <3>5. QED
      BY <3>3, <3>4, EnqueueValuesGrows
  <2>2. CASE ~(Starts(s, {"str"}) /\ Head(s).closed)
    BY <1>4, <2>2, UnchangedGrows DEF ProcessString
  <2>3. QED
    BY <2>1, <2>2
<1>5. CASE AddImmediateOperand
  <2> DEFINE node == Node(NoName, directiveCounter, BitsOf(4 * Head(skipWhiteSpace(rest)).v),
                          {"VALUE", "COMPLETED"})
  <2>1. node \in NodeSet /\ node.deciAddress = directiveCounter /\ Queued(node)
    <3>1. node \in NodeSet
      BY NodeType, WordPieces DEF TypeOK, QueuesOK, Statements
    <3>2. QED
      BY <3>1 DEF Node, Queued, OneFlag, isComplete
  <2>2. enqueueWord(directiveQ, node)
    BY <1>5 DEF AddImmediateOperand
  <2> HIDE DEF node
  <2>3. QED
    BY <2>1, <2>2, KeptItself, EnqueueWordGrows
<1>6. CASE AddDirectOperand
  <2> DEFINE node == Node(Head(skipWhiteSpace(rest)).w, directiveCounter, {}, {"NOT_COMPLETE"})
  <2>1. node \in NodeSet /\ node.deciAddress = directiveCounter /\ Queued(node)
    <3>1. Head(skipWhiteSpace(rest)).w \in Names
      BY <1>6, OperandTypes DEF AddDirectOperand, DIRECT, IMMEDIATE
    <3>2. node \in NodeSet
      BY <3>1, NodeType DEF TypeOK, QueuesOK, Statements
    <3>3. QED
      BY <3>2 DEF Node, Queued, OneFlag, isComplete
  <2>2. enqueueWord(WithAddressing(DIRECT), node)
    BY <1>6 DEF AddDirectOperand
  <2> HIDE DEF node
  <2>3. QED
    BY <2>1, <2>2, WithAddressingKeeps, EnqueueWordGrows
<1>7. CASE AddRegisterOperand
  <2> DEFINE bits == RegisterBits(RegisterOf[Head(skipWhiteSpace(rest)).w], OperandState)
             node == Node(NoName, directiveCounter, bits, {"VALUE", "COMPLETED"})
  <2>1. bits \in SUBSET WordBits
    <3>1. RegisterOf[Head(skipWhiteSpace(rest)).w] \in 0..7
      BY <1>7, OperandTypes DEF AddRegisterOperand
    <3>2. OperandState \in {SOURCE, DESTINATION}
      BY DEF OperandState
    <3>3. QED
      BY <3>1, <3>2, WordPieces
  <2>2. CASE opRegisterCount = 0
    <3>1. node \in NodeSet /\ node.deciAddress = directiveCounter /\ Queued(node)
      <4>1. node \in NodeSet
        BY <2>1, NodeType DEF TypeOK, QueuesOK, Statements
      <4>2. QED
        BY <4>1 DEF Node, Queued, OneFlag, isComplete
    <3>2. enqueueWord(WithAddressing(DIRECT_REGISTER), node)
      BY <1>7, <2>2 DEF AddRegisterOperand
    <3> HIDE DEF node
    <3>3. QED
      BY <3>1, <3>2, WithAddressingKeeps, EnqueueWordGrows
  <2>3. CASE opRegisterCount # 0
    <3>1. /\ directiveQ' = addToBinaryCode(WithAddressing(DIRECT_REGISTER), Len(directiveQ), bits)
          /\ UNCHANGED <<directiveCounter, instructionQ, instructionCounter>>
      BY <1>7, <2>3 DEF AddRegisterOperand
    <3>2. Len(directiveQ) \in Nat /\ directiveCounter \in Nat
      BY LenProperties DEF TypeOK, QueuesOK
    <3>3. KeepsDirectives(directiveQ')
      BY <2>1, <3>1, <3>2, WithAddressingKeeps, AddedBitsKeep
    <3>4. DirectivesGrow
      BY <3>1, <3>2, <3>3 DEF DirectivesGrow, KeepsDirectives
    <3>5. QED
      BY <3>1, <3>4, UnchangedGrows
  <2>4. QED
    BY <2>2, <2>3
<1>8. ASSUME NEW label \in Names, NEW bit \in WordBits, enqueueJump(label, bit)
      PROVE  DirectivesGrow /\ DataGrow
  <2> DEFINE node == Node(label, directiveCounter, {}, {"NOT_COMPLETE"})
  <2>1. node \in NodeSet /\ node.deciAddress = directiveCounter /\ Queued(node)
    <3>1. node \in NodeSet
      BY NodeType DEF TypeOK, QueuesOK, Statements
    <3>2. QED
      BY <3>1 DEF Node, Queued, OneFlag, isComplete
  <2>2. KeepsDirectives(addToBinaryCode(directiveQ, directiveNode, {bit}))
    BY KeptItself, AddedBitsKeep DEF TypeOK, LocalsOK
  <2>3. enqueueWord(addToBinaryCode(directiveQ, directiveNode, {bit}), node)
    BY <1>8 DEF enqueueJump
  <2> HIDE DEF node
  <2>4. QED
    BY <2>1, <2>2, <2>3, EnqueueWordGrows
<1>9. CASE ProcessJumpNoOperands \/ ProcessJumpWithOperands
  <2> DEFINE label == Head(skipWhiteSpace(rest)).w
  <2>1. label \in Names
    BY <1>9, JumpLabelTypes DEF ProcessJumpNoOperands, ProcessJumpWithOperands
  <2>2. enqueueJump(label, 2) \/ enqueueJump(label, 3)
    BY <1>9 DEF ProcessJumpNoOperands, ProcessJumpWithOperands
  <2>3. 2 \in WordBits /\ 3 \in WordBits
    BY DEF WordBits
  <2>4. QED
    BY <1>8, <2>1, <2>2, <2>3
<1>10. CASE \/ \E l \in Lines : ReadLine(l)
            \/ EndOfFile \/ ProcessInstruction \/ ProcessLineError \/ ProcessData
  <2>1. UNCHANGED queues
    BY <1>10 DEF ReadLine, EndOfFile, ProcessInstruction, ProcessLineError, ProcessData
  <2>2. QED
    BY <1>1, <2>1
<1>11. CASE \/ BadNumber \/ ProcessEntry \/ ProcessExtern \/ OperandError
            \/ getToSecondOperand \/ validateEndOfLine \/ ProcessJumpError
  <2>1. UNCHANGED queues
    BY <1>11 DEF BadNumber, ProcessEntry, ProcessExtern, OperandError, getToSecondOperand,
                 validateEndOfLine, ProcessJumpError
  <2>2. QED
    BY <1>1, <2>1
<1>12. QED
  BY <1>2, <1>3, <1>4, <1>5, <1>6, <1>7, <1>9, <1>10, <1>11 DEF FirstStageNext

-----------------------------------------------------------------------------
(* Rejection. *)

NoOutput == opened = {} /\ object = <<>> /\ entryFile = {} /\ externFile = <<>>

\* Only an accepted source gets past the validation of the tables, and nothing
\* is opened before the words are complete.
Gate ==
    /\ pc \in WritePcs \cup {"completeDirectiveQ"} => createFiles
    /\ pc \notin {"writeDirectiveQ", "writeInstructionQ", "done"} => NoOutput
    /\ ~createFiles => NoOutput

\* A rejected source has no output: the verdict of the first stage survives main.c:242.
LEMMA GateInvariant == Spec => []Gate
<1>1. Init => Gate
  BY Zenon DEF Init, Gate, NoOutput, WritePcs
<1>2. TypeOK /\ Gate /\ [Next]_vars => Gate'
  <2> SUFFICES ASSUME TypeOK, Gate, [Next]_vars PROVE Gate'
    OBVIOUS
  <2> USE DEF Gate
  <2>1. CASE FirstStageNext
    <3>1. FirstStageFrame
      BY <2>1, FirstStageFrames
    <3>2. NoOutput'
      BY <3>1 DEF FirstStageFrame, FirstStagePcs, NoOutput, outputs
    <3>3. pc' \notin WritePcs \cup {"completeDirectiveQ"}
      BY <3>1 DEF FirstStageFrame, FirstStagePcs, WritePcs
    <3>4. QED
      BY <3>2, <3>3
  <2>2. CASE ValidateTables
    <3>1. NoOutput'
      BY <2>2 DEF ValidateTables, NoOutput, outputs
    <3>2. pc' \in WritePcs \cup {"completeDirectiveQ"} => createFiles'
      BY <2>2 DEF ValidateTables, WritePcs
    <3>3. QED
      BY <3>1, <3>2
  <2>3. CASE CompleteDirectiveNode
    BY <2>3 DEF CompleteDirectiveNode, NoOutput, outputs
  <2>4. CASE EndValidation
    <3>1. NoOutput'
      BY <2>4 DEF EndValidation, NoOutput, outputs
    <3>2. pc' \in WritePcs \cup {"completeDirectiveQ"} => createFiles'
      BY <2>4 DEF EndValidation, WritePcs
    <3>3. QED
      BY <3>1, <3>2
  <2>5. CASE WriteToFileNext
    <3>1. createFiles /\ UNCHANGED createFiles
      BY <2>5 DEF WriteToFileNext, OpenFiles, WriteDirective, DirectivesWritten,
                  WriteInstruction, WriteEntries, WritePcs
    <3>2. pc' \in {"writeDirectiveQ", "writeInstructionQ", "done"}
      BY <2>5 DEF WriteToFileNext, OpenFiles, WriteDirective, DirectivesWritten,
                  WriteInstruction, WriteEntries
    <3>3. QED
      BY <3>1, <3>2
  <2>6. CASE UNCHANGED vars
    BY <2>6 DEF vars, outputs, NoOutput
  <2>7. QED
    BY <2>1, <2>2, <2>3, <2>4, <2>5, <2>6 DEF Next, ValidationPassNext, Returned
<1>3. QED
  BY <1>1, <1>2, TypeCorrect, PTL DEF Spec

\* A source rejected at any line, by the checks of the tables or by a label that
\* is not found leaves no file behind.
THEOREM RejectedLeavesNoFile == Spec => []RejectedWritesNothing
<1>1. Gate => RejectedWritesNothing
  BY DEF Gate, NoOutput, RejectedWritesNothing
<1>2. QED
  BY <1>1, GateInvariant, PTL

\* No function, of any pass, accepts again what one before it has rejected.
THEOREM RejectionStays == Spec => RejectionIsFinal
<1>1. TypeOK /\ Gate /\ [Next]_vars => [~createFiles => ~createFiles']_vars
  <2> SUFFICES ASSUME TypeOK, Gate, Next
               PROVE  ~createFiles => ~createFiles'
    OBVIOUS
  <2>1. CASE FirstStageNext
    BY <2>1, FirstStageFrames DEF FirstStageFrame
  <2>2. CASE ValidateTables
    BY <2>2, Zenon DEF ValidateTables
  <2>3. CASE CompleteDirectiveNode \/ EndValidation
    BY <2>3 DEF CompleteDirectiveNode, EndValidation, Gate
  <2>4. CASE WriteToFileNext
    BY <2>4 DEF WriteToFileNext, OpenFiles, WriteDirective, DirectivesWritten,
                WriteInstruction, WriteEntries
  <2>5. CASE Returned
    BY <2>5 DEF Returned, vars
  <2>6. QED
    BY <2>1, <2>2, <2>3, <2>4, <2>5 DEF Next, ValidationPassNext
<1>2. QED
  BY <1>1, TypeCorrect, GateInvariant, PTL DEF Spec, RejectionIsFinal

\* Completing a word leaves the others alone, and its place and label too; a
\* complete word is not touched, and a word left incomplete is remembered.
LEMMA CompletedWord ==
    ASSUME TypeOK, CompleteDirectiveNode
    PROVE  /\ current \in 1..Len(directiveQ)
           /\ Len(directiveQ') = Len(directiveQ)
           /\ \A i \in 1..Len(directiveQ) :
                 i # current \/ isComplete(directiveQ[i]) => directiveQ'[i] = directiveQ[i]
           /\ directiveQ'[current].label = directiveQ[current].label
           /\ directiveQ'[current].deciAddress = directiveQ[current].deciAddress
           /\ OneFlag(directiveQ[current]) => OneFlag(directiveQ'[current])
           /\ completed' => completed /\ isComplete(directiveQ'[current])
<1> DEFINE node == directiveQ[current]
<1>1. current \in 1..Len(directiveQ)
  BY LenProperties DEF CompleteDirectiveNode, TypeOK, ControlOK, QueuesOK
<1>2. node \in NodeSet
  BY <1>1, ElementOfSeq DEF TypeOK, QueuesOK
<1>3. CASE isComplete(node)
  BY <1>1, <1>3 DEF CompleteDirectiveNode
<1>4. CASE ~isComplete(node) /\ completed' = FALSE /\ UNCHANGED directiveQ
  BY <1>1, <1>4
<1>5. ASSUME NEW new \in NodeSet, NEW kind \in {"LABEL", "EXTERN"}, ~isComplete(node),
             new.label = node.label, new.deciAddress = node.deciAddress,
             new.statement = CompleteStatement(node, kind), UNCHANGED completed,
             directiveQ' = [directiveQ EXCEPT ![current] = new]
      PROVE  /\ Len(directiveQ') = Len(directiveQ)
             /\ \A i \in 1..Len(directiveQ) :
                   i # current \/ isComplete(directiveQ[i]) => directiveQ'[i] = directiveQ[i]
             /\ directiveQ'[current].label = directiveQ[current].label
             /\ directiveQ'[current].deciAddress = directiveQ[current].deciAddress
             /\ OneFlag(directiveQ[current]) => OneFlag(directiveQ'[current])
             /\ completed' => completed /\ isComplete(directiveQ'[current])
  <2>1. /\ Len(directiveQ') = Len(directiveQ)
        /\ \A i \in 1..Len(directiveQ) : directiveQ'[i] = IF i = current THEN new ELSE directiveQ[i]
    BY <1>1, <1>5, ChangedWord DEF TypeOK, QueuesOK
  <2>2. isComplete(new) /\ (OneFlag(node) => OneFlag(new))
    BY <1>5 DEF CompleteStatement, isComplete, OneFlag
  <2>3. QED
    BY <1>1, <1>5, <2>1, <2>2
<1>6. CASE /\ ~isComplete(node) /\ HasName(symbolTable, node.label)
           /\ directiveQ' = [directiveQ EXCEPT ![current] =
                  completeRelocatableNode(node, hashSearch(symbolTable, node.label))]
           /\ UNCHANGED completed
  <2> DEFINE new == completeRelocatableNode(node, hashSearch(symbolTable, node.label))
  <2>1. new \in NodeSet
    <3>1. hashSearch(symbolTable, node.label) \in NodeSet
      BY <1>6 DEF HasName, hashSearch, TypeOK, TablesOK, IsTable
    <3>2. QED
      BY <1>2, <3>1, CompletedTypes
  <2>2. /\ new.label = node.label /\ new.deciAddress = node.deciAddress
        /\ new.statement = CompleteStatement(node, "LABEL")
    BY <1>2 DEF completeRelocatableNode, NodeSet
  <2> HIDE DEF new
  <2>3. directiveQ' = [directiveQ EXCEPT ![current] = new]
    BY <1>6 DEF new
  <2>4. QED
    BY <1>1, <1>5, <1>6, <2>1, <2>2, <2>3
<1>7. CASE /\ ~isComplete(node)
           /\ directiveQ' = [directiveQ EXCEPT ![current] = completeExternalNode(node)]
           /\ UNCHANGED completed
  <2> DEFINE new == completeExternalNode(node)
  <2>1. new \in NodeSet
    BY <1>2, CompletedTypes
  <2>2. /\ new.label = node.label /\ new.deciAddress = node.deciAddress
        /\ new.statement = CompleteStatement(node, "EXTERN")
    BY <1>2 DEF completeExternalNode, NodeSet
  <2> HIDE DEF new
  <2>3. directiveQ' = [directiveQ EXCEPT ![current] = new]
    BY <1>7 DEF new
  <2>4. QED
    BY <1>1, <1>5, <1>7, <2>1, <2>2, <2>3
<1>8. QED
  BY <1>3, <1>4, <1>6, <1>7 DEF CompleteDirectiveNode

-----------------------------------------------------------------------------
(* The image. *)

\* Layout, and why the data is moved exactly once: without an object file the
\* loop over the data does not turn.
LayoutInv ==
    /\ Layout
    /\ pc = "writeInstructionQ" /\ "ob" \notin opened => current = 1

\* Counters, lengths and addresses agree in every reachable state.
LEMMA LayoutInvariant == Spec => []LayoutInv
<1>1. Init => LayoutInv
  BY DEF Init, LayoutInv, Layout, FirstAddress
<1>2. TypeOK /\ Gate /\ LayoutInv /\ [Next]_vars => LayoutInv'
  <2> SUFFICES ASSUME TypeOK, Gate, LayoutInv, [Next]_vars PROVE LayoutInv'
    OBVIOUS
  <2>0. /\ Len(directiveQ) \in Nat /\ Len(instructionQ) \in Nat
        /\ current \in Nat /\ directiveCounter \in Nat /\ instructionCounter \in Nat
    BY LenProperties DEF TypeOK, QueuesOK, ControlOK
  <2>1. CASE FirstStageNext
    <3>1. DirectivesGrow /\ DataGrow
      BY <2>1, FirstStageGrows
    <3>2. /\ pc \notin {"writeInstructionQ", "done"}
          /\ pc' \notin {"writeInstructionQ", "done"}
      BY <2>1, FirstStageFrames DEF FirstStageFrame, FirstStagePcs
    <3>3. /\ directiveCounter' = FirstAddress + Len(directiveQ')
          /\ instructionCounter' = Len(instructionQ')
      BY <2>0, <3>1 DEF DirectivesGrow, DataGrow, LayoutInv, Layout, FirstAddress
    <3>4. \A i \in 1..Len(directiveQ') : directiveQ'[i].deciAddress = FirstAddress + i - 1
      BY <2>0, <3>1 DEF DirectivesGrow, Kept, LayoutInv, Layout, FirstAddress
    <3>5. \A i \in 1..Len(instructionQ') : instructionQ'[i].deciAddress = i - 1
      <4> SUFFICES ASSUME NEW i \in 1..Len(instructionQ')
                   PROVE  instructionQ'[i].deciAddress = i - 1
        OBVIOUS
      <4>1. CASE i <= Len(instructionQ)
        BY <2>0, <3>1, <3>2, <4>1 DEF DataGrow, LayoutInv, Layout, Moved
      <4>2. CASE i > Len(instructionQ)
        <5> DEFINE j == i - Len(instructionQ)
        <5>1. /\ j \in 1..(Len(instructionQ') - Len(instructionQ))
              /\ i = Len(instructionQ) + j
          BY <2>0, <4>2
        <5>2. instructionQ'[Len(instructionQ) + j].deciAddress = instructionCounter + j - 1
          BY <3>1, <5>1 DEF DataGrow
        <5>3. instructionCounter + j - 1 = i - 1
          BY <2>0, <5>1 DEF LayoutInv, Layout
        <5>4. QED
          BY <5>1, <5>2, <5>3
      <4>3. QED
        BY <2>0, <4>1, <4>2
    <3>6. QED
      BY <3>2, <3>3, <3>4, <3>5 DEF LayoutInv, Layout, Moved
  <2>2. CASE UNCHANGED queues /\ (ValidateTables \/ EndValidation \/ OpenFiles)
    <3>1. "ob" \notin opened
      BY <2>2 DEF ValidateTables, EndValidation, OpenFiles, Gate, NoOutput
    <3>2. /\ pc \notin {"writeInstructionQ", "done"}
          /\ pc' # "writeInstructionQ"
          /\ pc' = "done" => "ob" \notin opened'
      BY <2>2, <3>1 DEF ValidateTables, EndValidation, OpenFiles, outputs
    <3>3. QED
      BY <2>2, <3>2 DEF queues, LayoutInv, Layout, Moved
  <2>3. CASE CompleteDirectiveNode
    <3>1. /\ Len(directiveQ') = Len(directiveQ)
          /\ \A i \in 1..Len(directiveQ) : directiveQ'[i].deciAddress = directiveQ[i].deciAddress
      BY <2>3, CompletedWord
    <3>2. QED
      BY <2>3, <3>1 DEF CompleteDirectiveNode, LayoutInv, Layout, Moved
  <2>4. CASE WriteDirective
    BY <2>4 DEF WriteDirective, queues, LayoutInv, Layout, Moved
  <2>5. CASE DirectivesWritten
    BY <2>0, <2>5 DEF DirectivesWritten, queues, LayoutInv, Layout, Moved
  <2>6. CASE WriteInstruction
    <3> DEFINE new == [instructionQ[current] EXCEPT !.deciAddress = @ + directiveCounter]
    <3>1. current \in 1..Len(instructionQ)
      BY <2>0, <2>6 DEF WriteInstruction, TypeOK
    <3>2. instructionQ[current] \in NodeSet
      BY <3>1, ElementOfSeq DEF TypeOK, QueuesOK
    <3>3. new \in NodeSet
      <4>1. \A n \in NodeSet, a \in Nat : [n EXCEPT !.deciAddress = a] \in NodeSet
        BY DEF NodeSet
      <4>2. instructionQ[current].deciAddress + directiveCounter \in Nat
        BY <2>0, <3>2 DEF NodeSet
      <4>3. QED
        BY <3>2, <4>1, <4>2
    <3>4. new.deciAddress = current - 1 + directiveCounter
      <4>1. instructionQ[current].deciAddress = current - 1 + 0
        BY <2>6, <3>1 DEF WriteInstruction, LayoutInv, Layout, Moved
      <4>2. new.deciAddress = instructionQ[current].deciAddress + directiveCounter
        BY <3>2 DEF NodeSet
      <4>3. QED
        BY <2>0, <4>1, <4>2
    <3> HIDE DEF new
    <3>5. instructionQ' = [instructionQ EXCEPT ![current] = new]
      BY <2>6 DEF WriteInstruction, new
    <3>6. /\ Len(instructionQ') = Len(instructionQ)
          /\ \A i \in 1..Len(instructionQ) :
                instructionQ'[i] = IF i = current THEN new ELSE instructionQ[i]
      BY <3>1, <3>3, <3>5, ChangedWord DEF TypeOK, QueuesOK
    <3>7. \A i \in 1..Len(instructionQ') :
             instructionQ'[i].deciAddress = i - 1 + (IF i < current + 1 THEN directiveCounter ELSE 0)
      BY <2>0, <2>6, <3>1, <3>4, <3>6 DEF WriteInstruction, LayoutInv, Layout, Moved
    <3>8. QED
      BY <2>6, <3>6, <3>7 DEF WriteInstruction, LayoutInv, Layout, Moved
  <2>7. CASE WriteEntries
    <3>1. \A i \in 1..Len(instructionQ) : Moved(i) <=> "ob" \in opened
      BY <2>0, <2>7 DEF WriteEntries, LayoutInv, Moved
    <3>2. \A i \in 1..Len(instructionQ) : Moved(i)' <=> "ob" \in opened
      BY <2>7 DEF WriteEntries, Moved
    <3>3. UNCHANGED queues /\ pc' = "done"
      BY <2>7 DEF WriteEntries
    <3> HIDE DEF Moved
    <3>4. QED
      BY <3>1, <3>2, <3>3 DEF queues, LayoutInv, Layout
  <2>8. CASE UNCHANGED vars
    BY <2>8 DEF vars, queues, outputs, LayoutInv, Layout, Moved
  <2>9. QED
    BY <2>1, <2>2, <2>3, <2>4, <2>5, <2>6, <2>7, <2>8
    DEF Next, ValidationPassNext, WriteToFileNext, Returned, ValidateTables, EndValidation,
        OpenFiles
<1>3. QED
  BY <1>1, <1>2, TypeCorrect, GateInvariant, PTL DEF Spec

\* For every source, the counters are the lengths of the queues, and the words
\* of the code and of the data follow each other without a gap from address 100.
THEOREM LayoutCorrect == Spec => []Layout
<1>1. LayoutInv => Layout
  BY DEF LayoutInv
<1>2. QED
  BY <1>1, LayoutInvariant, PTL

-----------------------------------------------------------------------------
(* The object file. *)

\* How much of the image has been written, and at which addresses.
WrittenInv ==
    /\ ObjectContiguous
    /\ "ob" \notin opened => object = <<>>
    /\ pc = "writeDirectiveQ" /\ "ob" \in opened =>
          current <= Len(directiveQ) + 1 /\ Len(object) = current - 1
    /\ pc = "writeInstructionQ" /\ "ob" \in opened =>
          current <= Len(instructionQ) + 1 /\ Len(object) = Len(directiveQ) + current - 1

\* One more line at the next address keeps the file contiguous.
LEMMA AppendedLine ==
    ASSUME TypeOK, ObjectContiguous, NEW line \in [address : Nat, code : SUBSET WordBits],
           object' = Append(object, line),
           line.address = DecimalAddress(FirstAddress + Len(object))
    PROVE  ObjectContiguous' /\ Len(object') = Len(object) + 1
<1>1. object \in Seq([address : Nat, code : SUBSET WordBits]) /\ Len(object) \in Nat
  BY LenProperties DEF TypeOK, OutputsOK
<1>2. /\ Len(object') = Len(object) + 1
      /\ \A k \in 1..Len(object) : object'[k] = object[k]
      /\ object'[Len(object) + 1] = line
  BY <1>1, AppendProperties
<1>3. FirstAddress + (Len(object) + 1) - 1 = FirstAddress + Len(object)
  BY <1>1 DEF FirstAddress
<1>4. QED
  BY <1>1, <1>2, <1>3 DEF ObjectContiguous

\* What has been written is the code up to current, then the data.
LEMMA WrittenInvariant == Spec => []WrittenInv
<1>1. Init => WrittenInv
  BY DEF Init, WrittenInv, ObjectContiguous
<1>2. TypeOK /\ Gate /\ LayoutInv /\ WrittenInv /\ [Next]_vars => WrittenInv'
  <2> SUFFICES ASSUME TypeOK, Gate, LayoutInv, WrittenInv, [Next]_vars PROVE WrittenInv'
    OBVIOUS
  <2>0. /\ Len(directiveQ) \in Nat /\ Len(instructionQ) \in Nat /\ Len(object) \in Nat
        /\ current \in Nat
    BY LenProperties DEF TypeOK, QueuesOK, ControlOK, OutputsOK
  <2>1. CASE /\ UNCHANGED outputs
             /\ pc' \notin {"writeDirectiveQ", "writeInstructionQ"}
    BY <2>1 DEF outputs, WrittenInv, ObjectContiguous
  <2>2. CASE FirstStageNext
    <3>1. /\ UNCHANGED outputs
          /\ pc' \notin {"writeDirectiveQ", "writeInstructionQ"}
      BY <2>2, FirstStageFrames DEF FirstStageFrame, FirstStagePcs
    <3>2. QED
      BY <2>1, <3>1
  <2>3. CASE ValidationPassNext
    <3>1. /\ UNCHANGED outputs
          /\ pc' \notin {"writeDirectiveQ", "writeInstructionQ"}
      BY <2>3 DEF ValidationPassNext, ValidateTables, CompleteDirectiveNode, EndValidation
    <3>2. QED
      BY <2>1, <3>1
  <2>4. CASE OpenFiles
    <3>1. object = <<>> /\ object' = <<>> /\ pc' = "writeDirectiveQ" /\ current' = 1
          /\ UNCHANGED queues
      BY <2>4 DEF OpenFiles, Gate, NoOutput
    <3>2. QED
      BY <2>0, <3>1 DEF queues, WrittenInv, ObjectContiguous
  <2>5. CASE WriteDirective
    <3> DEFINE node == directiveQ[current]
    <3>1. current \in 1..Len(directiveQ) /\ node \in NodeSet
      <4>1. current \in 1..Len(directiveQ)
        BY <2>0, <2>5 DEF WriteDirective, TypeOK
      <4>2. QED
        BY <4>1, ElementOfSeq DEF TypeOK, QueuesOK
    <3>2. Len(object) = current - 1
      BY <2>5 DEF WriteDirective, WrittenInv
    <3>3. node.deciAddress = FirstAddress + Len(object)
      BY <2>0, <3>1, <3>2 DEF LayoutInv, Layout, FirstAddress
    <3>4. ObjectLine(node).address = DecimalAddress(FirstAddress + Len(object))
      BY <3>3 DEF ObjectLine
    <3>5. ObjectContiguous' /\ Len(object') = Len(object) + 1
      BY <2>5, <3>1, <3>4, FileLineTypes, AppendedLine DEF WriteDirective, WrittenInv
    <3>6. QED
      BY <2>0, <2>5, <3>1, <3>2, <3>5 DEF WriteDirective, queues, WrittenInv
  <2>6. CASE DirectivesWritten
    <3>1. "ob" \in opened => Len(object) = Len(directiveQ)
      BY <2>0, <2>6 DEF DirectivesWritten, WrittenInv
    <3>2. QED
      BY <2>0, <2>6, <3>1 DEF DirectivesWritten, outputs, queues, WrittenInv, ObjectContiguous
  <2>7. CASE WriteInstruction
    <3> DEFINE node == instructionQ'[current]
    <3>1. current \in 1..Len(instructionQ)
      BY <2>0, <2>7 DEF WriteInstruction, TypeOK
    <3>2. /\ instructionQ[current] \in NodeSet /\ instructionQ[current].deciAddress = current - 1
      <4>1. instructionQ[current] \in NodeSet
        BY <3>1, ElementOfSeq DEF TypeOK, QueuesOK
      <4>2. instructionQ[current].deciAddress = current - 1 + 0
        BY <2>7, <3>1 DEF WriteInstruction, LayoutInv, Layout, Moved
      <4>3. QED
        BY <2>0, <4>1, <4>2
    <3> DEFINE new == [instructionQ[current] EXCEPT !.deciAddress = @ + directiveCounter]
    <3>3. new \in NodeSet /\ new.deciAddress = current - 1 + directiveCounter
      <4>1. \A n \in NodeSet, a \in Nat :
               LET m == [n EXCEPT !.deciAddress = a] IN m \in NodeSet /\ m.deciAddress = a
        BY DEF NodeSet
      <4>2. instructionQ[current].deciAddress + directiveCounter \in Nat
        BY <2>0, <3>2 DEF NodeSet, TypeOK, QueuesOK
      <4>3. QED
        BY <3>2, <4>1, <4>2
    <3>4. node = new /\ Len(instructionQ') = Len(instructionQ)
      <4> HIDE DEF new
      <4>1. instructionQ' = [instructionQ EXCEPT ![current] = new]
        BY <2>7 DEF WriteInstruction, new
      <4>2. QED
        BY <3>1, <3>3, <4>1, ChangedWord DEF TypeOK, QueuesOK
    <3>5. Len(object) = Len(directiveQ) + current - 1
      BY <2>7 DEF WriteInstruction, WrittenInv
    <3>6. node.deciAddress = FirstAddress + Len(object)
      BY <2>0, <3>1, <3>3, <3>4, <3>5 DEF LayoutInv, Layout, FirstAddress
    <3>7. ObjectLine(node).address = DecimalAddress(FirstAddress + Len(object))
      BY <3>6 DEF ObjectLine
    <3>8. ObjectLine(node) \in [address : Nat, code : SUBSET WordBits]
      BY <3>3, <3>4, FileLineTypes
    <3>9. ObjectContiguous' /\ Len(object') = Len(object) + 1
      BY <2>7, <3>7, <3>8, AppendedLine DEF WriteInstruction, WrittenInv
    <3>10. QED
      BY <2>0, <2>7, <3>1, <3>4, <3>5, <3>9 DEF WriteInstruction, WrittenInv
  <2>8. CASE WriteEntries
    BY <2>8 DEF WriteEntries, WrittenInv, ObjectContiguous
  <2>9. CASE UNCHANGED vars
    BY <2>9 DEF vars, queues, outputs, WrittenInv, ObjectContiguous
  <2>10. QED
    BY <2>2, <2>3, <2>4, <2>5, <2>6, <2>7, <2>8, <2>9 DEF Next, WriteToFileNext, Returned
<1>3. QED
  BY <1>1, <1>2, TypeCorrect, GateInvariant, LayoutInvariant, PTL DEF Spec

\* For every source, the object file is one run of consecutive addresses from
\* 100, the seam between code and data included.
THEOREM ObjectFileContiguous == Spec => []ObjectContiguous
<1>1. WrittenInv => ObjectContiguous
  BY DEF WrittenInv
<1>2. QED
  BY <1>1, WrittenInvariant, PTL

-----------------------------------------------------------------------------
(* The words that refer to symbols. *)

\* Behind the loop of completeDirectiveQ every word is complete, unless the loop
\* remembers one that is not.
ResolvedInv ==
    /\ \A i \in 1..Len(directiveQ) : OneFlag(directiveQ[i])
    /\ pc = "completeDirectiveQ" /\ completed =>
          \A i \in 1..Len(directiveQ) : i < current => isComplete(directiveQ[i])
    /\ pc \in WritePcs => \A i \in 1..Len(directiveQ) : isComplete(directiveQ[i])

\* The words behind current are complete unless a failure has been noted.
LEMMA ResolvedInvariant == Spec => []ResolvedInv
<1>1. Init => ResolvedInv
  BY DEF Init, ResolvedInv, WritePcs
<1>2. TypeOK /\ ResolvedInv /\ [Next]_vars => ResolvedInv'
  <2> SUFFICES ASSUME TypeOK, ResolvedInv, [Next]_vars PROVE ResolvedInv'
    OBVIOUS
  <2>0. Len(directiveQ) \in Nat /\ current \in Nat
    BY LenProperties DEF TypeOK, QueuesOK, ControlOK
  <2>1. CASE FirstStageNext
    <3>1. DirectivesGrow
      BY <2>1, FirstStageGrows
    <3>2. \A i \in 1..Len(directiveQ') : OneFlag(directiveQ'[i])
      BY <2>0, <3>1 DEF DirectivesGrow, Kept, Queued, OneFlag, isComplete, ResolvedInv
    <3>3. pc' \notin WritePcs \cup {"completeDirectiveQ"}
      BY <2>1, FirstStageFrames DEF FirstStageFrame, FirstStagePcs, WritePcs
    <3>4. QED
      BY <3>2, <3>3 DEF ResolvedInv, OneFlag, isComplete
  <2>2. CASE ValidateTables
    BY <2>2 DEF ValidateTables, queues, ResolvedInv, WritePcs, OneFlag, isComplete
  <2>3. CASE CompleteDirectiveNode
    <3>1. \A i \in 1..Len(directiveQ') : OneFlag(directiveQ'[i])
      BY <2>3, CompletedWord DEF ResolvedInv
    <3>2. pc = "completeDirectiveQ" /\ pc' = "completeDirectiveQ" /\ current' = current + 1
      BY <2>3 DEF CompleteDirectiveNode
    <3>3. ASSUME completed', NEW i \in 1..Len(directiveQ'), i < current + 1
          PROVE  isComplete(directiveQ'[i])
      BY <2>0, <2>3, <3>2, <3>3, CompletedWord DEF ResolvedInv
    <3>4. QED
      BY <3>1, <3>2, <3>3 DEF ResolvedInv, WritePcs, OneFlag, isComplete
  <2>4. CASE EndValidation
    <3>1. completed => \A i \in 1..Len(directiveQ) : isComplete(directiveQ[i])
      BY <2>0, <2>4 DEF EndValidation, ResolvedInv
    <3>2. QED
      BY <2>4, <3>1 DEF EndValidation, queues, ResolvedInv, WritePcs, OneFlag, isComplete
  <2>5. CASE WriteToFileNext
    <3>1. pc \in WritePcs /\ UNCHANGED directiveQ /\ pc' # "completeDirectiveQ"
      BY <2>5 DEF WriteToFileNext, OpenFiles, WriteDirective, DirectivesWritten,
                  WriteInstruction, WriteEntries, queues, WritePcs
    <3>2. QED
      BY <3>1 DEF ResolvedInv, OneFlag, isComplete
  <2>6. CASE UNCHANGED vars
    BY <2>6 DEF vars, queues, ResolvedInv, OneFlag, isComplete
  <2>7. QED
    BY <2>1, <2>2, <2>3, <2>4, <2>5, <2>6 DEF Next, ValidationPassNext, Returned
<1>3. QED
  BY <1>1, <1>2, TypeCorrect, PTL DEF Spec

\* Whatever the labels of a source and however the tables confuse them, no word
\* is written whose label was not found, and no word is completed twice.
THEOREM EveryWordResolved == Spec => []NoUnresolvedWord
<1>1. ResolvedInv => NoUnresolvedWord
  BY DEF ResolvedInv, NoUnresolvedWord, OneFlag
<1>2. QED
  BY <1>1, ResolvedInvariant, PTL

-----------------------------------------------------------------------------
(* The symbols. *)

\* A symbol, once in the table, is never moved or replaced, not by a second
\* definition either.
THEOREM SymbolsStay == Spec => FirstDefinitionStays
<1> DEFINE Stays == \A id \in DOMAIN symbolTable.nodes :
                       /\ id \in DOMAIN symbolTable'.nodes
                       /\ symbolTable'.nodes[id] = symbolTable.nodes[id]
<1>1. TypeOK /\ [Next]_vars => [Stays]_vars
  <2> SUFFICES ASSUME TypeOK, Next PROVE Stays
    OBVIOUS
  <2>1. CASE UNCHANGED symbolTable
    BY <2>1
  <2>2. ASSUME NEW counter \in Nat, NEW statement \in Statements,
               DeclareLabel(counter, statement)
        PROVE  Stays
    <3>1. CASE HasLabel(rest)
      <4>1. Label(rest) \in Names
        BY <3>1, StatementTypes DEF TypeOK, ControlOK
      <4>2. {statement, "COMPLETED"} \in SUBSET Statements
        BY DEF Statements
      <4>3. symbolTable' = hashInsert(symbolTable, Label(rest), counter, {statement, "COMPLETED"})
        BY <2>2, <3>1 DEF DeclareLabel
      <4>4. QED
        BY <4>1, <4>2, <4>3, Inserted DEF TypeOK, TablesOK
    <3>2. CASE ~HasLabel(rest)
      BY <2>2, <3>2 DEF DeclareLabel
    <3>3. QED
      BY <3>1, <3>2
  <2>3. CASE ProcessInstruction
    <3>1. DeclareLabel(instructionCounter, "INSTRUCTION") \/ UNCHANGED symbolTable
      BY <2>3 DEF ProcessInstruction
    <3>2. QED
      BY <2>1, <2>2, <3>1 DEF TypeOK, QueuesOK, Statements
  <2>4. CASE ProcessDirective
    BY <2>2, <2>4 DEF ProcessDirective, TypeOK, QueuesOK, Statements
  <2>5. CASE FirstStageNext /\ ~ProcessInstruction /\ ~ProcessDirective
    <3>1. UNCHANGED symbolTable
      BY <2>5 DEF FirstStageNext, ReadLine, EndOfFile, ProcessLineError, ProcessData,
         LastNumber, NextNumber, BadNumber, ProcessString, ProcessEntry, ProcessExtern,
         AddImmediateOperand, AddDirectOperand, AddRegisterOperand, OperandError,
         getToSecondOperand, validateEndOfLine, ProcessJumpNoOperands,
         ProcessJumpWithOperands, ProcessJumpError, tables
    <3>2. QED
      BY <2>1, <3>1
  <2>6. CASE ValidationPassNext \/ WriteToFileNext \/ Returned
    <3>1. UNCHANGED symbolTable
      BY <2>6 DEF ValidationPassNext, ValidateTables, CompleteDirectiveNode, EndValidation,
         WriteToFileNext, OpenFiles, WriteDirective, DirectivesWritten, WriteInstruction,
         WriteEntries, Returned, tables, vars
    <3>2. QED
      BY <2>1, <3>1
  <2>7. QED
    BY <2>3, <2>4, <2>5, <2>6 DEF Next
<1>2. QED
  BY <1>1, TypeCorrect, PTL DEF Spec, FirstDefinitionStays
=============================================================================
