----------------------------- MODULE Assembler -----------------------------
(***************************************************************************)
(* startAssembler (main.c) once the macros are expanded: the first stage,  *)
(* the validation pass and the writing of the files, one after the other   *)
(* on the same queues and tables.                                          *)
(***************************************************************************)
EXTENDS FirstStage, ValidationPass, WriteToFile

Init ==
    /\ pc = "read"
    /\ program = <<>> /\ rest = <<>>
    /\ opCode = 0 /\ directiveNode = 0 /\ opRegisterCount = 0 /\ jumpWithOperand = FALSE
    /\ directiveQ = <<>> /\ instructionQ = <<>>
    /\ directiveCounter = FirstAddress /\ instructionCounter = 0
    /\ symbolTable = EmptyTable /\ entryTable = EmptyTable /\ externTable = EmptyTable
    /\ createFiles = TRUE /\ reported = FALSE
    /\ current = 0 /\ completed = TRUE
    /\ opened = {} /\ object = <<>> /\ entryFile = {} /\ externFile = <<>>

\* startAssembler has returned.
Returned == pc = "done" /\ UNCHANGED vars

Next == FirstStageNext \/ ValidationPassNext \/ WriteToFileNext \/ Returned

\* The program is sequential and every loop is over finite data: it keeps running.
Spec == Init /\ [][Next]_vars /\ WF_vars(Next)

-----------------------------------------------------------------------------
(* Types. *)

\* A table: nodes filed under the identity of their own label.
IsTable(table) ==
    /\ \A id \in DOMAIN table.nodes :
          /\ table.nodes[id] \in NodeSet
          /\ table.nodes[id].label \in Names /\ Ident[table.nodes[id].label] = id
    /\ table.count \in Nat

FirstStagePcs == {"read", "processLine", "data", "number", "string", "entry", "extern",
                  "source", "comma", "destination", "endOfLine", "jump"}
WritePcs      == {"writeToFile", "writeDirectiveQ", "writeInstructionQ"}
Pcs           == FirstStagePcs \cup {"validationPass", "completeDirectiveQ"} \cup WritePcs \cup {"done"}

ControlOK == /\ pc \in Pcs /\ program \in Seq(Lines) /\ rest \in Seq(Token)
             /\ createFiles \in BOOLEAN /\ reported \in BOOLEAN
             /\ current \in Nat /\ completed \in BOOLEAN
LocalsOK  == /\ opCode \in 0..15 /\ directiveNode \in Nat
             /\ opRegisterCount \in {0, 1} /\ jumpWithOperand \in BOOLEAN
QueuesOK  == /\ directiveQ \in Seq(NodeSet) /\ instructionQ \in Seq(NodeSet)
             /\ directiveCounter \in Nat /\ instructionCounter \in Nat
TablesOK  == IsTable(symbolTable) /\ IsTable(entryTable) /\ IsTable(externTable)
OutputsOK == /\ opened \subseteq OutputFiles
             /\ object \in Seq([address : Nat, code : SUBSET WordBits])
             /\ externFile \in Seq([label : Names \cup {NoName}, address : Nat])
             /\ entryFile \subseteq [label : Names \cup {NoName}, address : Nat]

\* Every variable holds a value of the kind the code keeps in it; a loop over a
\* queue starts at its first word, and the loop over data only meets numbers.
TypeOK ==
    /\ ControlOK /\ LocalsOK /\ QueuesOK /\ TablesOK /\ OutputsOK
    /\ pc \in {"completeDirectiveQ", "writeDirectiveQ", "writeInstructionQ"} => current > 0
    /\ pc = "number" => isValidTextBeforeNum(rest)

-----------------------------------------------------------------------------
(* Safety. *)

\* The words of the data are moved behind the code one by one, as they are written.
Moved(i) == \/ pc = "writeInstructionQ" /\ i < current
            \/ pc = "done" /\ "ob" \in opened

\* The counters are the lengths of the queues and a word's address is its place
\* in the image, although counters and queues are updated in different
\* functions and the addresses of the data only when they are written: no
\* address is skipped or given twice, whatever line fails half-way.
Layout ==
    /\ directiveCounter = FirstAddress + Len(directiveQ)
    /\ instructionCounter = Len(instructionQ)
    /\ \A i \in 1..Len(directiveQ) : directiveQ[i].deciAddress = FirstAddress + i - 1
    /\ \A i \in 1..Len(instructionQ) :
          instructionQ[i].deciAddress = i - 1 + (IF Moved(i) THEN directiveCounter ELSE 0)

\* The addresses printed in the object file run from 100 without a gap across
\* the seam between code and data.
ObjectContiguous ==
    \A k \in 1..Len(object) : object[k].address = DecimalAddress(FirstAddress + k - 1)

\* updateTailBinaryCode adds a second register to whatever word is last: when
\* that can happen the last word is the register word of the same instruction,
\* and its destination bits are free.
SharedRegisterWord ==
    (pc \in {"comma", "destination"} /\ opRegisterCount = 1) =>
        /\ directiveNode < Len(directiveQ)
        /\ directiveQ[Len(directiveQ)].statement = {"VALUE", "COMPLETED"}
        /\ directiveQ[Len(directiveQ)].binaryCode \subseteq 8..10

\* While operands are read directiveNode is the last first word of an
\* instruction in the queue and still holds the opcode, whatever operands have
\* been added to it.
CurrentInstruction ==
    pc \in {"jump", "source", "comma", "destination"} =>
        /\ directiveNode \in 1..Len(directiveQ)
        /\ "DIRECTIVE" \in directiveQ[directiveNode].statement
        /\ directiveQ[directiveNode].binaryCode \cap 6..9 = BitsOf(64 * opCode)
        /\ \A i \in (directiveNode + 1)..Len(directiveQ) :
               "DIRECTIVE" \notin directiveQ[i].statement

\* A line that is rejected anywhere, or a failed check of the validation pass,
\* leaves no file behind: isValidFirstPass must survive until the files are opened.
RejectedWritesNothing ==
    ~createFiles => /\ pc \notin WritePcs
                    /\ opened = {} /\ object = <<>> /\ entryFile = {} /\ externFile = <<>>

\* No word is written before its label is known, and completing a word (which
\* toggles NOT_COMPLETE) happens at most once.
NoUnresolvedWord ==
    /\ pc \in WritePcs => \A i \in 1..Len(directiveQ) : isComplete(directiveQ[i])
    /\ \A i \in 1..Len(directiveQ) :
          "NOT_COMPLETE" \in directiveQ[i].statement <=> ~isComplete(directiveQ[i])

\* A label of an accepted source is the address of a first word of an
\* instruction, or of a word of data: the counter was right when it was taken.
LabelsMarkStatements ==
    (pc \in WritePcs \cup {"completeDirectiveQ"}) =>
        \A id \in DOMAIN symbolTable.nodes :
            LET symbol == symbolTable.nodes[id]
            IN  IF "INSTRUCTION" \in symbol.statement
                THEN symbol.deciAddress < Len(instructionQ)
                ELSE \E i \in 1..Len(directiveQ) :
                        /\ directiveQ[i].deciAddress = symbol.deciAddress
                        /\ "DIRECTIVE" \in directiveQ[i].statement

\* The destination operand of a jump ends at the parenthesis the line was
\* checked for, and nothing but blanks follows: processJumpWithOperands skips it
\* without looking.
NothingIgnored ==
    LET s == skipWhiteSpace(rest)
    IN  (pc = "destination" /\ jumpWithOperand /\ IsOperand(s) /\ EndsOperand(Tail(s))) =>
            Starts(Tail(s), {"close"}) /\ isEmptyLine(Tail(Tail(s)))

\* The address a symbol has in the finished image: all the data lies behind all
\* the code.
PlaceInImage(symbol) ==
    symbol.deciAddress
        + (IF "INSTRUCTION" \in symbol.statement THEN FirstAddress + Len(directiveQ) ELSE 0)

WordResolved(node) ==
    /\ "LABEL" \in node.statement =>
          /\ HasName(symbolTable, node.label)
          /\ node.binaryCode =
               BitsOf(RELOCATABLE + 4 * PlaceInImage(hashSearch(symbolTable, node.label)))
    /\ "EXTERN" \in node.statement =>
          /\ HasName(externTable, node.label) /\ ~HasName(symbolTable, node.label)
          /\ node.binaryCode = BitsOf(EXTERNAL)

EntryPlaced(id) ==
    /\ id \in DOMAIN symbolTable.nodes
    /\ entryTable.nodes[id].deciAddress = PlaceInImage(symbolTable.nodes[id])

\* Two passes after it was read, a word with a label of this file is relocatable
\* and holds the place the label's statement has in the image, and nothing else;
\* one with an external label holds the external mark alone; and every entry of
\* an accepted source is defined, with that place as its address.
ReferencesResolved ==
    /\ \A i \in 1..Len(directiveQ) : WordResolved(directiveQ[i])
    /\ createFiles /\ pc \in WritePcs \cup {"completeDirectiveQ", "done"} =>
          \A id \in DOMAIN entryTable.nodes : EntryPlaced(id)

-----------------------------------------------------------------------------
(* What a step may never do. *)

\* A queued word keeps its place, its label and every bit it was given, apart
\* from an external word, which completeNode overwrites when it had none.
WordsOnlyGrow ==
    [][\A i \in 1..Len(directiveQ) :
          /\ i \in 1..Len(directiveQ')
          /\ directiveQ'[i].label = directiveQ[i].label
          /\ directiveQ'[i].deciAddress = directiveQ[i].deciAddress
          /\ directiveQ[i].binaryCode \subseteq directiveQ'[i].binaryCode]_vars

\* The first definition of a name stays: no later line, and no other pass,
\* moves a symbol.
FirstDefinitionStays ==
    [][\A id \in DOMAIN symbolTable.nodes :
          /\ id \in DOMAIN symbolTable'.nodes
          /\ symbolTable'.nodes[id] = symbolTable.nodes[id]]_vars

\* Nothing clears a rejection, not the result of validationPass either.
RejectionIsFinal == [][~createFiles => ~createFiles']_vars

-----------------------------------------------------------------------------
(* Liveness. *)

\* startAssembler returns on every source.
Termination == <>(pc = "done")
=============================================================================
