----------------------------- MODULE FirstStage -----------------------------
(***************************************************************************)
(* firstStage: the only pass over the expanded source                      *)
(* (mainAssemblerPass.c, with the scanner of mainAsmPassUtil.c).  pc names *)
(* the function about to run, rest what it has still to read of the line;  *)
(* every function that fails leaves behind the words it already queued.    *)
(***************************************************************************)
EXTENDS AssemblerState

\* The scanner.

skipWhiteSpace(s) == IF s # <<>> /\ Head(s).t = "ws" THEN Tail(s) ELSE s
isEmptyLine(s)    == skipWhiteSpace(s) = <<>>
Starts(s, kinds)  == s # <<>> /\ Head(s).t \in kinds

\* getSubStr ends a word at white space, getTempOperandStr also at , and ).
EndsWord(s)    == s = <<>> \/ Starts(s, {"ws"})
EndsOperand(s) == EndsWord(s) \/ Starts(s, {"comma", "close"})

\* A line, past its label if it declares one.
HasLabel(s)  == Starts(skipWhiteSpace(s), {"decl"})
Label(s)     == Head(skipWhiteSpace(s)).w
Statement(s) == skipWhiteSpace(IF HasLabel(s) THEN Tail(skipWhiteSpace(s)) ELSE s)

\* parseAndValidateSubStr on the statement's first word.
Instruction(s) == Starts(s, {"dot"}) /\ EndsWord(Tail(s)) /\ Head(s).d # "unknown"
Directive(s)   == Starts(s, {"id"}) /\ EndsWord(Tail(s)) /\ hashIsReservedKeyWord(Head(s).w)

\* The one failure of processLine nothing is printed for: "L:" and no more.
IsLoneLabel(s) == HasLabel(s) /\ Tail(skipWhiteSpace(s)) = <<>>

\* What may be a data value begins with a sign or a digit.
isValidTextBeforeNum(s) == Starts(s, {"num", "sign", "digits"})

\* A sign without digits is read as 0; a word that goes on with letters is no number.
Number(s)     == IF Head(s).t = "sign" THEN 0 ELSE Head(s).v
FourDigits(s) == Starts(s, {"num", "sign"}) /\ -9999 <= Number(s) /\ Number(s) <= 9999

\* Mutant: the count of registers outlives its instruction.
EndLineKeepingRegisters(ok, printed) ==
    /\ pc' = "read"
    /\ rest' = <<>>
    /\ createFiles' = (createFiles /\ ok)
    /\ reported' = (reported \/ printed)
    /\ opCode' = 0 /\ directiveNode' = 0 /\ jumpWithOperand' = FALSE
    /\ UNCHANGED opRegisterCount

\* Mutant: the last line decides alone.
LastLineDecides(ok, printed) ==
    /\ pc' = "read"
    /\ rest' = <<>>
    /\ createFiles' = ok
    /\ reported' = (reported \/ printed)
    /\ opCode' = 0 /\ directiveNode' = 0 /\ opRegisterCount' = 0 /\ jumpWithOperand' = FALSE

\* The line is finished: runFirstStage reads the next one.
EndLine(ok, printed) ==
    /\ pc' = "read"
    /\ rest' = <<>>
    /\ createFiles' = (createFiles /\ ok)
    /\ reported' = (reported \/ printed)
    /\ opCode' = 0 /\ directiveNode' = 0 /\ opRegisterCount' = 0 /\ jumpWithOperand' = FALSE

Fail == EndLine(FALSE, TRUE)

\* What only the other passes, and reading a line, change.
others == <<program, current, completed, outputs>>

-----------------------------------------------------------------------------
\* runFirstStage and processLine.

\* getNewLineMainAsmPass: a blank line is skipped, an unreadable one is rejected.
ReadLine(l) ==
    /\ pc = "read"
    /\ Len(program) < MaxLines
    /\ program' = Append(program, l)
    /\ \/ /\ l.text = <<>>
          /\ UNCHANGED <<pc, rest, createFiles, reported>>
       \/ /\ Starts(l.text, {"overflow"})
          /\ createFiles' = FALSE /\ reported' = TRUE
          /\ UNCHANGED <<pc, rest>>
       \/ /\ l.text # <<>> /\ ~Starts(l.text, {"overflow"})
          /\ rest' = l.text
          /\ pc' = "processLine"
          /\ UNCHANGED <<createFiles, reported>>
    /\ UNCHANGED <<locals, queues, tables, current, completed, outputs>>

\* Mutant: the end of the file is not recognised.
MissedEndOfFile == pc = "read" /\ UNCHANGED vars

EndOfFile ==
    /\ pc = "read"
    /\ pc' = "validationPass"
    /\ UNCHANGED <<program, rest, locals, queues, tables, createFiles, reported,
                   current, completed, outputs>>

\* Mutant: the code's counter for every label.
DeclareAtCode(counter, statement) ==
    IF HasLabel(rest)
    THEN /\ symbolTable' = hashInsert(symbolTable, Label(rest), directiveCounter,
                                      {statement, "COMPLETED"})
         /\ reported' = (reported \/ HasName(symbolTable, Label(rest)))
    ELSE UNCHANGED <<symbolTable, reported>>

\* addToSymbolTable, and the ERROR isUniqueLabel prints for a second definition.
DeclareLabel(counter, statement) ==
    IF HasLabel(rest)
    THEN /\ symbolTable' = hashInsert(symbolTable, Label(rest), counter, {statement, "COMPLETED"})
         /\ reported' = (reported \/ HasName(symbolTable, Label(rest)))
    ELSE UNCHANGED <<symbolTable, reported>>

\* processLine and lineWithLabelDeclaration: a label before .entry or .extern
\* is dropped.
ProcessInstruction ==
    /\ pc = "processLine"
    /\ Instruction(Statement(rest))
    /\ pc' = Head(Statement(rest)).d
    /\ rest' = Tail(Statement(rest))
    /\ IF Head(Statement(rest)).d \in {"data", "string"}
       THEN DeclareLabel(instructionCounter, "INSTRUCTION")
       ELSE UNCHANGED <<symbolTable, reported>>
    /\ UNCHANGED <<locals, queues, entryTable, externTable, createFiles, others>>

\* ... and processDirective.
ProcessDirective ==
    LET op == hashGetOpCode(Head(Statement(rest)).w)
    IN  /\ pc = "processLine"
        /\ Directive(Statement(rest))
        /\ DeclareLabel(directiveCounter, "LABEL")
        /\ directiveQ' = Append(directiveQ, Node(NoName, directiveCounter, BitsOf(64 * op),
                                                 {"DIRECTIVE", "COMPLETED"}))
        /\ directiveCounter' = directiveCounter + 1
        /\ directiveNode' = Len(directiveQ) + 1
        /\ opCode' = op
        /\ rest' = Tail(Statement(rest))
        /\ pc' = CASE getArity(op) = "JMP_CAPABLE" -> "jump"
                   [] getArity(op) = "BINARY"      -> "source"
                   [] getArity(op) = "UNARY"       -> "destination"
                   [] getArity(op) = "NULLARY"     -> "endOfLine"
        /\ UNCHANGED <<opRegisterCount, jumpWithOperand, instructionQ, instructionCounter,
                       entryTable, externTable, createFiles, others>>

ProcessLineError ==
    /\ pc = "processLine"
    /\ ~Instruction(Statement(rest)) /\ ~Directive(Statement(rest))
    /\ EndLine(FALSE, ~IsLoneLabel(rest))
    /\ UNCHANGED <<queues, tables, others>>

-----------------------------------------------------------------------------
\* .data, .string, .entry and .extern.

\* Mutant: the counter is advanced before it is used.
EnqueuedOneLate(values) ==
    instructionQ \o [i \in 1..Len(values) |->
        Node(NoName, instructionCounter + i, BitsOf(values[i]), {"VALUE", "COMPLETED"})]

\* addDataNumberToQueue and addStringToQueue, for a sequence of values.
Enqueued(values) ==
    instructionQ \o [i \in 1..Len(values) |->
        Node(NoName, instructionCounter + i - 1, BitsOf(values[i]), {"VALUE", "COMPLETED"})]

enqueueValues(values) ==
    /\ instructionQ' = Enqueued(values)
    /\ instructionCounter' = instructionCounter + Len(values)
    /\ UNCHANGED <<directiveQ, directiveCounter>>

\* processDataInstruction, up to its first number.
ProcessData ==
    /\ pc = "data"
    /\ IF isValidTextBeforeNum(skipWhiteSpace(rest))
       THEN /\ pc' = "number"
            /\ rest' = skipWhiteSpace(rest)
            /\ UNCHANGED <<locals, createFiles, reported>>
       ELSE Fail
    /\ UNCHANGED <<queues, tables, others>>

\* The turns of the loop of addDataInstructionNumbers.  The last number is
\* range-checked, and nothing is printed when it fails; ...
LastNumber ==
    /\ pc = "number"
    /\ FourDigits(rest) /\ Tail(rest) = <<>>
    /\ \/ /\ inRange(Number(rest))
          /\ enqueueValues(<<Number(rest)>>)
          /\ EndLine(TRUE, FALSE)
       \/ /\ ~inRange(Number(rest))
          /\ EndLine(FALSE, FALSE)
          /\ UNCHANGED queues
    /\ UNCHANGED <<tables, others>>

\* ... one with anything after it is not.  getToNextNumber then looks for a
\* comma and a value; when what follows the comma is no number the line ends
\* with SUCCESS.
NextNumber ==
    LET after == skipWhiteSpace(Tail(rest))
        next  == skipWhiteSpace(Tail(after))
    IN  /\ pc = "number"
        /\ FourDigits(rest) /\ Starts(Tail(rest), {"ws", "comma"})
        /\ enqueueValues(<<Number(rest)>>)
        /\ \/ after = <<>> /\ EndLine(TRUE, FALSE)
           \/ after # <<>> /\ ~Starts(after, {"comma"}) /\ Fail
           \/ Starts(after, {"comma"}) /\ (next = <<>> \/ Starts(next, {"comma"})) /\ Fail
           \/ /\ Starts(after, {"comma"}) /\ next # <<>> /\ ~Starts(next, {"comma"})
              /\ ~isValidTextBeforeNum(next)
              /\ EndLine(TRUE, TRUE)
           \/ /\ Starts(after, {"comma"}) /\ isValidTextBeforeNum(next)
              /\ rest' = next
              /\ UNCHANGED <<pc, locals, createFiles, reported>>
        /\ UNCHANGED <<tables, others>>

\* getDataInstructionNumber counts more than four digits, or
\* dataInstructionNumValidation turns down what follows them.
BadNumber ==
    /\ pc = "number"
    /\ \/ ~FourDigits(rest)
       \/ Tail(rest) # <<>> /\ ~Starts(Tail(rest), {"ws", "comma"})
    /\ Fail
    /\ UNCHANGED <<queues, tables, others>>

\* processStringInstruction: the characters and a terminating zero.
ProcessString ==
    LET s == skipWhiteSpace(rest)
    IN  /\ pc = "string"
        /\ IF Starts(s, {"str"}) /\ Head(s).closed
           THEN enqueueValues(Append(Head(s).chars, 0)) /\ EndLine(TRUE, FALSE)
           ELSE Fail /\ UNCHANGED queues
        /\ UNCHANGED <<tables, others>>

\* getEntryOrExternOperand: any word but a reserved one, digits first or not.
ValidOperand(s) ==
    /\ Starts(s, {"id", "digits"})
    /\ ~hashIsReservedKeyWord(Head(s).w)
    /\ isEmptyLine(Tail(s))

\* processEntryInstruction and processExternInstruction; a second declaration
\* is an ERROR line and no more.  The entry's statement argument is missing in
\* the call, so the field is indeterminate: nothing reads it, and it is {} here.
ProcessEntry ==
    LET s == skipWhiteSpace(rest)
    IN  /\ pc = "entry"
        /\ IF ValidOperand(s)
           THEN /\ entryTable' = hashInsert(entryTable, Head(s).w, 0, {})
                /\ EndLine(TRUE, HasName(entryTable, Head(s).w))
           ELSE Fail /\ UNCHANGED entryTable
        /\ UNCHANGED <<queues, symbolTable, externTable, others>>

ProcessExtern ==
    LET s == skipWhiteSpace(rest)
    IN  /\ pc = "extern"
        /\ IF ValidOperand(s)
           THEN /\ externTable' = hashInsert(externTable, Head(s).w, 0, {"EXTERN", "COMPLETED"})
                /\ EndLine(TRUE, HasName(externTable, Head(s).w))
           ELSE Fail /\ UNCHANGED externTable
        /\ UNCHANGED <<queues, symbolTable, entryTable, others>>

-----------------------------------------------------------------------------
\* The operands of an instruction.

OperandState == IF pc = "source" THEN SOURCE ELSE DESTINATION

\* determineOperandAddressing: a register name is tested before the reserved
\* words, and anything but an immediate value and a word is an error.
IsOperand(s) ==
    \/ Starts(s, {"imm"})
    \/ /\ Starts(s, {"id"}) /\ EndsOperand(Tail(s))
       /\ Head(s).w \in DOMAIN RegisterOf \/ ~hashIsReservedKeyWord(Head(s).w)

Addressing(token) ==
    IF token.t = "imm" THEN IMMEDIATE
    ELSE IF token.w \in DOMAIN RegisterOf THEN DIRECT_REGISTER ELSE DIRECT

\* getImmediateOperand: at most four digits and in range.
ImmediateOperand(s) == EndsOperand(Tail(s)) /\ inRange(Head(s).v)

\* An operand addOperand accepts, and how it is addressed.
OperandIs(s, addressing) ==
    /\ IsOperand(s)
    /\ Addressing(Head(s)) = addressing
    /\ isCompatibleAddressing(OperandState, opCode, addressing)
    /\ addressing = IMMEDIATE => ImmediateOperand(s)

\* What follows the operand: the comma, the end of the line, or the closing
\* parenthesis determineJumpAddressingType has already checked.
AfterOperand(s, registers) ==
    IF pc = "destination" /\ jumpWithOperand THEN EndLine(TRUE, FALSE)
    ELSE /\ pc' = IF pc = "source" THEN "comma" ELSE "endOfLine"
         /\ rest' = Tail(s)
         /\ opRegisterCount' = registers
         /\ UNCHANGED <<createFiles, reported, opCode, directiveNode, jumpWithOperand>>

\* Mutant: the word is not counted.
UncountedWord(queue, node) ==
    /\ directiveQ' = Append(queue, node)
    /\ UNCHANGED <<directiveCounter, instructionQ, instructionCounter>>

\* The directive queue with one more word, counted.
enqueueWord(queue, node) ==
    /\ directiveQ' = Append(queue, node)
    /\ directiveCounter' = directiveCounter + 1
    /\ UNCHANGED <<instructionQ, instructionCounter>>

\* The addressing bits an operand sets in the instruction's first word.
AddressingBits(addressing) ==
    IF jumpWithOperand THEN updateJumpWithOperBinCode(addressing, OperandState)
    ELSE updateQnodeBinCode(addressing, OperandState)

WithAddressing(addressing) ==
    addToBinaryCode(directiveQ, directiveNode, AddressingBits(addressing))

AddImmediateOperand ==
    LET s == skipWhiteSpace(rest)
    IN  /\ pc \in {"source", "destination"}
        /\ OperandIs(s, IMMEDIATE)
        /\ enqueueWord(directiveQ, Node(NoName, directiveCounter, BitsOf(4 * Head(s).v),
                                        {"VALUE", "COMPLETED"}))
        /\ AfterOperand(s, opRegisterCount)
        /\ UNCHANGED <<tables, others>>

\* Mutant: a symbol is counted as a register.
CountingSymbols ==
    LET s == skipWhiteSpace(rest)
    IN  /\ pc \in {"source", "destination"}
        /\ OperandIs(s, DIRECT)
        /\ enqueueWord(WithAddressing(DIRECT),
                       Node(Head(s).w, directiveCounter, {}, {"NOT_COMPLETE"}))
        /\ AfterOperand(s, 1)
        /\ UNCHANGED <<tables, others>>

AddDirectOperand ==
    LET s == skipWhiteSpace(rest)
    IN  /\ pc \in {"source", "destination"}
        /\ OperandIs(s, DIRECT)
        /\ enqueueWord(WithAddressing(DIRECT),
                       Node(Head(s).w, directiveCounter, {}, {"NOT_COMPLETE"}))
        /\ AfterOperand(s, opRegisterCount)
        /\ UNCHANGED <<tables, others>>

\* addDirectRegisterOperand: the first register of an instruction gets a word,
\* the second one is added to the word at the tail of the queue.
AddRegisterOperand ==
    LET s    == skipWhiteSpace(rest)
        bits == RegisterBits(RegisterOf[Head(s).w], OperandState)
    IN  /\ pc \in {"source", "destination"}
        /\ OperandIs(s, DIRECT_REGISTER)
        /\ IF opRegisterCount = 0
           THEN enqueueWord(WithAddressing(DIRECT_REGISTER),
                            Node(NoName, directiveCounter, bits, {"VALUE", "COMPLETED"}))
           ELSE /\ directiveQ' = addToBinaryCode(WithAddressing(DIRECT_REGISTER),
                                                 Len(directiveQ), bits)
                /\ UNCHANGED <<directiveCounter, instructionQ, instructionCounter>>
        /\ AfterOperand(s, 1)
        /\ UNCHANGED <<tables, others>>

OperandError ==
    LET s == skipWhiteSpace(rest)
    IN  /\ pc \in {"source", "destination"}
        /\ \A addressing \in {IMMEDIATE, DIRECT, DIRECT_REGISTER} : ~OperandIs(s, addressing)
        /\ Fail
        /\ UNCHANGED <<queues, tables, others>>

getToSecondOperand ==
    LET s == skipWhiteSpace(rest)
    IN  /\ pc = "comma"
        /\ IF Starts(s, {"comma"})
           THEN /\ pc' = "destination"
                /\ rest' = Tail(s)
                /\ UNCHANGED <<locals, createFiles, reported>>
           ELSE Fail
        /\ UNCHANGED <<queues, tables, others>>

\* Mutant: what follows the last operand is ignored.
UncheckedEndOfLine ==
    /\ pc = "endOfLine"
    /\ EndLine(TRUE, FALSE)
    /\ UNCHANGED <<queues, tables, others>>

validateEndOfLine ==
    /\ pc = "endOfLine"
    /\ IF isEmptyLine(rest) THEN EndLine(TRUE, FALSE) ELSE Fail
    /\ UNCHANGED <<queues, tables, others>>

-----------------------------------------------------------------------------
\* Jumps: L, or L(source,destination).

\* determineJumpAddressingType on what follows the label.
JumpNoOperands(s) == EndsWord(s) /\ isEmptyLine(s)
\* Mutant: text behind the closing parenthesis is accepted.
LooseJumpWithOperands(s) ==
    /\ Starts(s, {"open"})
    /\ \E i \in 2..Len(s) :
          /\ s[i].t = "close"
          /\ \A j \in 1..(i - 1) : s[j].t \notin {"close", "ws"}
          /\ Cardinality({j \in 1..i : s[j].t = "comma"}) <= 1

JumpWithOperands(s) ==
    /\ Starts(s, {"open"})
    /\ \E i \in 2..Len(s) :
          /\ s[i].t = "close"
          /\ \A j \in 1..(i - 1) : s[j].t \notin {"close", "ws"}
          /\ Cardinality({j \in 1..i : s[j].t = "comma"}) <= 1
          /\ isEmptyLine(SubSeq(s, i + 1, Len(s)))

\* getValidJumpDestLabel.
JumpLabel(s) == Starts(s, {"id"}) /\ ~hashIsReservedKeyWord(Head(s).w)

ValidJump(s) == JumpLabel(s) /\ (JumpNoOperands(Tail(s)) \/ JumpWithOperands(Tail(s)))

\* The word of the jump's label, and the addressing bit of the jump itself.
enqueueJump(label, bit) ==
    enqueueWord(addToBinaryCode(directiveQ, directiveNode, {bit}),
                Node(label, directiveCounter, {}, {"NOT_COMPLETE"}))

ProcessJumpNoOperands ==
    LET s == skipWhiteSpace(rest)
    IN  /\ pc = "jump"
        /\ JumpLabel(s) /\ JumpNoOperands(Tail(s))
        /\ enqueueJump(Head(s).w, 2)
        /\ EndLine(TRUE, FALSE)
        /\ UNCHANGED <<tables, others>>

ProcessJumpWithOperands ==
    LET s == skipWhiteSpace(rest)
    IN  /\ pc = "jump"
        /\ JumpLabel(s) /\ JumpWithOperands(Tail(s))
        /\ enqueueJump(Head(s).w, 3)
        /\ jumpWithOperand' = TRUE
        /\ rest' = Tail(Tail(s))
        /\ pc' = "source"
        /\ UNCHANGED <<opCode, directiveNode, opRegisterCount, createFiles, reported,
                       tables, others>>

\* A reserved word as the label is the one error here nothing is printed for.
ProcessJumpError ==
    LET s == skipWhiteSpace(rest)
    IN  /\ pc = "jump"
        /\ ~ValidJump(s)
        /\ EndLine(FALSE, ~(Starts(s, {"id", "decl"}) /\ hashIsReservedKeyWord(Head(s).w)))
        /\ UNCHANGED <<queues, tables, others>>

FirstStageNext ==
    \/ \E l \in Lines : ReadLine(l)
    \/ EndOfFile
    \/ ProcessInstruction \/ ProcessDirective \/ ProcessLineError
    \/ ProcessData \/ LastNumber \/ NextNumber \/ BadNumber
    \/ ProcessString \/ ProcessEntry \/ ProcessExtern
    \/ AddImmediateOperand \/ AddDirectOperand \/ AddRegisterOperand
    \/ OperandError \/ getToSecondOperand \/ validateEndOfLine
    \/ ProcessJumpNoOperands \/ ProcessJumpWithOperands \/ ProcessJumpError
=============================================================================
