------------------------- MODULE AssemblerOperands -------------------------
(***************************************************************************)
(* The operands of an instruction: the word they are added to is the right *)
(* one, no queued word loses a bit, and the scanner of a jump skips        *)
(* nothing it has not looked at.  And the symbols of an accepted source:   *)
(* each label marks a statement that was queued, and each word that refers *)
(* to one holds the place this statement has in the image.                 *)
(***************************************************************************)
EXTENDS AssemblerSafety, FiniteSetTheorems

OperandPcs == {"jump", "source", "comma", "destination"}

\* The bits of a first word that hold the opcode.
OpcodeBits == 6..9

-----------------------------------------------------------------------------
(* The fields of a first word. *)

\* 64 * opCode sets no bit but the opcode's.
LEMMA OpcodeField ==
    ASSUME NEW op \in 0..15
    PROVE  BitsOf(64 * op) \subseteq OpcodeBits
<1> DEFINE Bit(p) == ((64 * op) \div p) % 2
<1>1. /\ Bit(2^0) # 1 /\ Bit(2^1) # 1 /\ Bit(2^2) # 1 /\ Bit(2^3) # 1 /\ Bit(2^4) # 1
      /\ Bit(2^5) # 1
  OBVIOUS
<1>2. Bit(2^10) # 1 /\ Bit(2^11) # 1 /\ Bit(2^12) # 1 /\ Bit(2^13) # 1
  OBVIOUS
<1>3. BitsOf(64 * op) = {b \in WordBits : Bit(2^b) = 1}
  BY DEF BitsOf
<1> HIDE DEF Bit
<1>4. ASSUME NEW b \in WordBits, b \notin OpcodeBits
      PROVE  Bit(2^b) # 1
  <2>1. CASE b = 0 \/ b = 1 \/ b = 2 \/ b = 3 \/ b = 4 \/ b = 5
    BY <1>1, <2>1, Zenon
  <2>2. CASE b = 10 \/ b = 11 \/ b = 12 \/ b = 13
    BY <1>2, <2>2, Zenon
  <2>3. QED
    BY <1>4, <2>1, <2>2 DEF WordBits, OpcodeBits
<1>5. QED
  BY <1>3, <1>4

\* The addressing of an operand sets no bit of the opcode.
LEMMA AddressingField ==
    ASSUME NEW addressing
    PROVE  AddressingBits(addressing) \cap OpcodeBits = {}
<1>1. updateQnodeBinCode(addressing, OperandState) \cap OpcodeBits = {}
  BY DEF updateQnodeBinCode, OpcodeBits
<1>2. updateJumpWithOperBinCode(addressing, OperandState) \cap OpcodeBits = {}
  BY DEF updateJumpWithOperBinCode, OpcodeBits
<1>3. QED
  BY <1>1, <1>2 DEF AddressingBits

\* A source register sets bits 8 to 10 only.
LEMMA SourceRegisterField ==
    ASSUME NEW r \in 0..7
    PROVE  RegisterBits(r, SOURCE) \subseteq 8..10
BY DEF RegisterBits, registerToBinaryCode, SOURCE

-----------------------------------------------------------------------------
(* The inductive invariant. *)

\* A first word is complete from the start; a word that still waits for a
\* symbol has a label to look up and no bits.
PendingWords ==
    \A i \in 1..Len(directiveQ) :
        LET node == directiveQ[i]
        IN  /\ "DIRECTIVE" \in node.statement => isComplete(node)
            /\ ~isComplete(node) => node.binaryCode = {} /\ node.label \in Names

\* No register has been counted before the first operand of an instruction.
RegistersCounted ==
    pc \notin {"comma", "destination", "endOfLine"} => opRegisterCount = 0

OperandsInv ==
    CurrentInstruction /\ SharedRegisterWord /\ PendingWords /\ RegistersCounted

-----------------------------------------------------------------------------
(* What an operand does to the queue. *)

\* What CurrentInstruction says of an instruction whose operands are being read.
AtInstruction ==
    /\ directiveNode \in 1..Len(directiveQ)
    /\ "DIRECTIVE" \in directiveQ[directiveNode].statement
    /\ directiveQ[directiveNode].binaryCode \cap OpcodeBits = BitsOf(64 * opCode)
    /\ \A i \in (directiveNode + 1)..Len(directiveQ) :
           "DIRECTIVE" \notin directiveQ[i].statement

\* A queue in which the current first word may have gained bits, none of them
\* the opcode's.
Addressed(queue) ==
    /\ KeepsDirectives(queue)
    /\ \A i \in 1..Len(directiveQ) :
          /\ i # directiveNode => queue[i] = directiveQ[i]
          /\ queue[i].binaryCode \cap OpcodeBits = directiveQ[i].binaryCode \cap OpcodeBits

\* A word that starts no instruction and, unless it is complete, is empty.
OperandWord(node) ==
    /\ node \in NodeSet
    /\ "DIRECTIVE" \notin node.statement
    /\ ~isComplete(node) => node.binaryCode = {} /\ node.label \in Names

\* Adding addressing bits to the current first word.
LEMMA AddressedByBits ==
    ASSUME TypeOK, NEW bits \in SUBSET WordBits, bits \cap OpcodeBits = {}
    PROVE  Addressed(addToBinaryCode(directiveQ, directiveNode, bits))
<1> DEFINE new == addToBinaryCode(directiveQ, directiveNode, bits)
<1>1. directiveQ \in Seq(NodeSet) /\ directiveNode \in Nat
  BY DEF TypeOK, QueuesOK, LocalsOK
<1>2. KeepsDirectives(new)
  BY <1>1, KeptItself, AddedBitsKeep
<1>3. \A i \in 1..Len(directiveQ) :
         new[i] = IF i = directiveNode THEN [directiveQ[i] EXCEPT !.binaryCode = @ \cup bits]
                  ELSE directiveQ[i]
  BY <1>1, AddedBits
<1> HIDE DEF new
<1>4. ASSUME NEW i \in 1..Len(directiveQ)
      PROVE  new[i].binaryCode \cap OpcodeBits = directiveQ[i].binaryCode \cap OpcodeBits
  <2>1. directiveQ[i] \in NodeSet
    BY <1>1, ElementOfSeq
  <2>2. new[i].binaryCode \in {directiveQ[i].binaryCode, directiveQ[i].binaryCode \cup bits}
    BY <1>3, <2>1 DEF NodeSet
  <2>3. QED
    BY <2>2
<1>5. QED
  BY <1>2, <1>3, <1>4 DEF Addressed, new

\* The queue itself, and the queue after the addressing of an operand is set.
LEMMA AddressedQueues ==
    ASSUME TypeOK
    PROVE  /\ Addressed(directiveQ)
           /\ \A addressing : Addressed(WithAddressing(addressing))
<1>1. Addressed(directiveQ)
  BY KeptItself DEF Addressed
<1>2. ASSUME NEW addressing
      PROVE  Addressed(WithAddressing(addressing))
  BY AddressedByBits, AddressingField, WithAddressingTypes DEF WithAddressing
<1>3. QED
  BY <1>1, <1>2

\* One more word behind an addressed instruction.
LEMMA AppendedOperand ==
    ASSUME TypeOK, AtInstruction, PendingWords, NEW queue, Addressed(queue),
           NEW node, OperandWord(node), directiveQ' = Append(queue, node)
    PROVE  /\ PendingWords'
           /\ UNCHANGED <<directiveNode, opCode>> => AtInstruction'
           /\ Len(directiveQ') = Len(directiveQ) + 1
           /\ directiveQ'[Len(directiveQ')] = node
           /\ directiveNode < Len(directiveQ')
<1>1. Len(directiveQ) \in Nat /\ directiveNode \in Nat
  BY LenProperties DEF TypeOK, QueuesOK, LocalsOK
<1>2. /\ Len(directiveQ') = Len(directiveQ) + 1
      /\ \A i \in 1..Len(directiveQ) : directiveQ'[i] = queue[i]
      /\ directiveQ'[Len(directiveQ) + 1] = node
  BY <1>1, AppendProperties DEF Addressed, KeepsDirectives, OperandWord
<1>3. \A i \in 1..Len(directiveQ) : directiveQ'[i].statement = directiveQ[i].statement
  BY <1>2 DEF Addressed, KeepsDirectives, Kept
<1>4. PendingWords'
  <2> SUFFICES ASSUME NEW i \in 1..Len(directiveQ')
               PROVE  LET word == directiveQ'[i]
                      IN  /\ "DIRECTIVE" \in word.statement => isComplete(word)
                          /\ ~isComplete(word) => word.binaryCode = {} /\ word.label \in Names
    BY DEF PendingWords, isComplete
  <2>1. CASE i = Len(directiveQ) + 1
    BY <1>2, <2>1 DEF OperandWord
  <2>2. CASE i \in 1..Len(directiveQ) /\ i # directiveNode
    BY <1>2, <2>2 DEF Addressed, PendingWords
  <2>3. CASE i \in 1..Len(directiveQ) /\ i = directiveNode
    BY <1>3, <2>3 DEF AtInstruction, PendingWords, isComplete
  <2>4. QED
    BY <1>1, <1>2, <2>1, <2>2, <2>3
<1>5. ASSUME UNCHANGED <<directiveNode, opCode>>
      PROVE  AtInstruction'
  <2>1. directiveNode' \in 1..Len(directiveQ')
    BY <1>1, <1>2, <1>5 DEF AtInstruction
  <2>2. directiveQ'[directiveNode'].binaryCode \cap OpcodeBits = BitsOf(64 * opCode')
    BY <1>2, <1>5 DEF AtInstruction, Addressed
  <2>3. "DIRECTIVE" \in directiveQ'[directiveNode'].statement
    BY <1>3, <1>5 DEF AtInstruction
  <2>4. \A i \in (directiveNode' + 1)..Len(directiveQ') :
            "DIRECTIVE" \notin directiveQ'[i].statement
    <3> SUFFICES ASSUME NEW i \in (directiveNode' + 1)..Len(directiveQ')
                 PROVE  "DIRECTIVE" \notin directiveQ'[i].statement
      OBVIOUS
    <3>1. CASE i = Len(directiveQ) + 1
      BY <1>2, <3>1 DEF OperandWord
    <3>2. CASE i # Len(directiveQ) + 1
      <4>1. i \in (directiveNode + 1)..Len(directiveQ) /\ i \in 1..Len(directiveQ)
        BY <1>1, <1>2, <1>5, <3>2
      <4>2. QED
        BY <1>3, <4>1 DEF AtInstruction
    <3>3. QED
      BY <3>1, <3>2
  <2>5. QED
    BY <2>1, <2>2, <2>3, <2>4 DEF AtInstruction
<1>6. directiveNode \in 1..Len(directiveQ)
  BY DEF AtInstruction
<1>7. directiveQ'[Len(directiveQ')] = node
  BY <1>2
<1>8. directiveNode < Len(directiveQ')
  BY <1>1, <1>2, <1>6
<1>9. QED
  BY <1>2, <1>4, <1>5, <1>7, <1>8

\* The second register of an instruction: its bits go to the register word.
LEMMA AddedRegister ==
    ASSUME TypeOK, AtInstruction, PendingWords, NEW queue, Addressed(queue),
           NEW bits \in SUBSET WordBits, isComplete(directiveQ[Len(directiveQ)]),
           directiveQ' = addToBinaryCode(queue, Len(directiveQ), bits)
    PROVE  PendingWords'
<1>1. Len(directiveQ) \in Nat /\ Len(queue) = Len(directiveQ) /\ queue \in Seq(NodeSet)
  BY LenProperties DEF TypeOK, QueuesOK, Addressed, KeepsDirectives
<1>2. /\ Len(directiveQ') = Len(directiveQ)
      /\ \A i \in 1..Len(directiveQ) : i # Len(directiveQ) => directiveQ'[i] = queue[i]
  <2> DEFINE new == addToBinaryCode(queue, Len(directiveQ), bits)
  <2>1. /\ Len(new) = Len(queue)
        /\ \A i \in 1..Len(queue) :
              new[i] = IF i = Len(directiveQ)
                       THEN [queue[i] EXCEPT !.binaryCode = @ \cup bits] ELSE queue[i]
    BY <1>1, AddedBits
  <2> HIDE DEF new
  <2>2. directiveQ' = new
    BY DEF new
  <2>3. QED
    BY <1>1, <2>1, <2>2
<1>3. \A i \in 1..Len(directiveQ) : directiveQ'[i].statement = directiveQ[i].statement
  <2>1. KeepsDirectives(directiveQ')
    BY <1>1, AddedBitsKeep DEF Addressed
  <2>2. QED
    BY <2>1 DEF KeepsDirectives, Kept
<1>4. ASSUME NEW i \in 1..Len(directiveQ'), ~isComplete(directiveQ'[i])
      PROVE  directiveQ'[i] = directiveQ[i]
  <2>1. ~isComplete(directiveQ[i]) /\ i \in 1..Len(directiveQ)
    BY <1>2, <1>3, <1>4 DEF isComplete
  <2>2. i # Len(directiveQ) /\ i # directiveNode
    BY <2>1 DEF AtInstruction, PendingWords
  <2>3. QED
    BY <1>2, <2>1, <2>2 DEF Addressed
<1>5. QED
  BY <1>2, <1>3, <1>4 DEF PendingWords, isComplete

\* Where the scanner goes behind an operand.
LEMMA AfterOperandGoes ==
    ASSUME pc \in {"source", "destination"}, NEW s, NEW registers, AfterOperand(s, registers)
    PROVE  \/ pc' = "read" /\ opRegisterCount' = 0
           \/ pc' = "endOfLine"
           \/ /\ pc = "source" /\ pc' = "comma" /\ opRegisterCount' = registers
              /\ UNCHANGED <<directiveNode, opCode>>
BY DEF AfterOperand, EndLine

-----------------------------------------------------------------------------
(* Every step. *)

\* A step that leaves the queue alone and reads no operand afterwards.
LEMMA QuietStep ==
    ASSUME OperandsInv, UNCHANGED directiveQ, pc' \notin OperandPcs,
           pc' # "endOfLine" => opRegisterCount' = 0
    PROVE  OperandsInv'
BY DEF OperandsInv, OperandPcs, CurrentInstruction, SharedRegisterWord, PendingWords,
       isComplete, RegistersCounted

\* A line that ends, whatever its last step queued.
LEMMA EndedInstruction ==
    ASSUME PendingWords', NEW ok, NEW printed, EndLine(ok, printed)
    PROVE  OperandsInv'
BY DEF EndLine, OperandsInv, CurrentInstruction, SharedRegisterWord, RegistersCounted

\* ProcessDirective queues the first word of an instruction.
LEMMA ProcessDirectiveOperands ==
    ASSUME TypeOK, OperandsInv, ProcessDirective
    PROVE  OperandsInv'
<1> DEFINE op   == hashGetOpCode(Head(Statement(rest)).w)
           node == Node(NoName, directiveCounter, BitsOf(64 * op), {"DIRECTIVE", "COMPLETED"})
<1>1. /\ op \in 0..15
      /\ pc' \in {"jump", "source", "destination", "endOfLine"}
  <2>1. op \in 0..15
    BY OpcodeType DEF ProcessDirective, Directive
  <2> HIDE DEF op
  <2>2. QED
    BY <2>1 DEF ProcessDirective, getArity, op
<1>2. opRegisterCount' = 0
  BY DEF ProcessDirective, OperandsInv, RegistersCounted
<1>3. /\ node \in NodeSet /\ isComplete(node) /\ "DIRECTIVE" \in node.statement
      /\ node.binaryCode = BitsOf(64 * op)
  <2>1. node \in NodeSet
    BY NodeType, WordPieces DEF TypeOK, QueuesOK, Statements
  <2>2. QED
    BY <2>1 DEF Node, isComplete
<1>4. /\ directiveQ' = Append(directiveQ, node)
      /\ directiveNode' = Len(directiveQ) + 1 /\ opCode' = op
  BY DEF ProcessDirective
<1>5. BitsOf(64 * op) \cap OpcodeBits = BitsOf(64 * op)
  BY <1>1, OpcodeField
<1> HIDE DEF node, op
<1>6. /\ Len(directiveQ) \in Nat
      /\ Len(directiveQ') = Len(directiveQ) + 1
      /\ \A i \in 1..Len(directiveQ) : directiveQ'[i] = directiveQ[i]
      /\ directiveQ'[Len(directiveQ) + 1] = node
  BY <1>3, <1>4, AppendProperties, LenProperties DEF TypeOK, QueuesOK
<1>7. PendingWords'
  BY <1>3, <1>6 DEF OperandsInv, PendingWords, isComplete
<1>8. AtInstruction'
  BY <1>3, <1>4, <1>5, <1>6 DEF AtInstruction
<1>9. CurrentInstruction'
  BY <1>8, Zenon DEF CurrentInstruction, AtInstruction, OpcodeBits
<1>10. SharedRegisterWord' /\ RegistersCounted'
  BY <1>2 DEF SharedRegisterWord, RegistersCounted
<1>11. QED
  BY <1>7, <1>9, <1>10 DEF OperandsInv

\* What holds while an operand is about to be read.
LEMMA BeforeOperand ==
    ASSUME OperandsInv, pc \in {"jump", "source", "destination"}
    PROVE  /\ AtInstruction /\ PendingWords
           /\ pc # "destination" => opRegisterCount = 0
BY DEF OperandsInv, CurrentInstruction, AtInstruction, OpcodeBits, RegistersCounted

\* An immediate or a symbol: its word is the last, and counts no register.
LEMMA WordOperand ==
    ASSUME TypeOK, OperandsInv, pc \in {"source", "destination"},
           NEW queue, Addressed(queue), NEW node, OperandWord(node),
           directiveQ' = Append(queue, node), NEW s, AfterOperand(s, opRegisterCount)
    PROVE  OperandsInv'
<1>1. /\ PendingWords'
      /\ UNCHANGED <<directiveNode, opCode>> => AtInstruction'
  BY BeforeOperand, AppendedOperand
<1>2. CASE pc' = "read" /\ opRegisterCount' = 0
  BY <1>1, <1>2 DEF OperandsInv, CurrentInstruction, SharedRegisterWord, RegistersCounted
<1>3. CASE pc' = "endOfLine"
  BY <1>1, <1>3 DEF OperandsInv, CurrentInstruction, SharedRegisterWord, RegistersCounted
<1>4. CASE /\ pc = "source" /\ pc' = "comma" /\ opRegisterCount' = opRegisterCount
           /\ UNCHANGED <<directiveNode, opCode>>
  <2>1. opRegisterCount = 0
    BY <1>4, BeforeOperand
  <2>2. QED
    BY <1>1, <1>4, <2>1
    DEF OperandsInv, CurrentInstruction, AtInstruction, OpcodeBits, SharedRegisterWord,
        RegistersCounted
<1>5. QED
  BY <1>2, <1>3, <1>4, AfterOperandGoes

\* Immediate values and symbols.
LEMMA WordOperands ==
    ASSUME TypeOK, OperandsInv, AddImmediateOperand \/ AddDirectOperand
    PROVE  OperandsInv'
<1> DEFINE s     == skipWhiteSpace(rest)
           value == Node(NoName, directiveCounter, BitsOf(4 * Head(s).v), {"VALUE", "COMPLETED"})
           label == Node(Head(s).w, directiveCounter, {}, {"NOT_COMPLETE"})
<1>1. CASE AddImmediateOperand
  <2>1. OperandWord(value)
    <3>1. value \in NodeSet
      BY NodeType, WordPieces DEF TypeOK, QueuesOK, Statements
    <3>2. QED
      BY <3>1 DEF Node, OperandWord, isComplete
  <2>2. directiveQ' = Append(directiveQ, value) /\ AfterOperand(s, opRegisterCount)
    BY <1>1 DEF AddImmediateOperand, enqueueWord
  <2> HIDE DEF value, s
  <2>3. QED
    BY <1>1, <2>1, <2>2, AddressedQueues, WordOperand DEF AddImmediateOperand
<1>2. CASE AddDirectOperand
  <2>1. OperandWord(label)
    <3>1. Head(s).w \in Names
      BY <1>2, OperandTypes DEF AddDirectOperand, DIRECT, IMMEDIATE
    <3>2. label \in NodeSet
      BY <3>1, NodeType DEF TypeOK, QueuesOK, Statements
    <3>3. QED
      BY <3>1, <3>2 DEF Node, OperandWord, isComplete
  <2>2. directiveQ' = Append(WithAddressing(DIRECT), label) /\ AfterOperand(s, opRegisterCount)
    BY <1>2 DEF AddDirectOperand, enqueueWord
  <2> HIDE DEF label, s
  <2>3. QED
    BY <1>2, <2>1, <2>2, AddressedQueues, WordOperand DEF AddDirectOperand
<1>3. QED
  BY <1>1, <1>2

\* A register: its own word the first time, the last word the second time.
LEMMA RegisterOperand ==
    ASSUME TypeOK, OperandsInv, AddRegisterOperand
    PROVE  OperandsInv'
<1> DEFINE s    == skipWhiteSpace(rest)
           bits == RegisterBits(RegisterOf[Head(s).w], OperandState)
           node == Node(NoName, directiveCounter, bits, {"VALUE", "COMPLETED"})
<1>1. /\ pc \in {"source", "destination"}
      /\ RegisterOf[Head(s).w] \in 0..7
      /\ AfterOperand(s, 1)
  BY OperandTypes DEF AddRegisterOperand
<1>2. bits \in SUBSET WordBits
  <2>1. OperandState \in {SOURCE, DESTINATION}
    BY DEF OperandState
  <2>2. QED
    BY <1>1, <2>1, WordPieces
<1>3. AtInstruction /\ PendingWords /\ Addressed(WithAddressing(DIRECT_REGISTER))
  BY <1>1, BeforeOperand, AddressedQueues
<1>4. CASE opRegisterCount = 0
  <2>1. OperandWord(node)
    <3>1. node \in NodeSet
      BY <1>2, NodeType DEF TypeOK, QueuesOK, Statements
    <3>2. QED
      BY <3>1 DEF Node, OperandWord, isComplete
  <2>2. node.statement = {"VALUE", "COMPLETED"} /\ node.binaryCode = bits
    BY DEF Node
  <2>3. directiveQ' = Append(WithAddressing(DIRECT_REGISTER), node)
    BY <1>4 DEF AddRegisterOperand, enqueueWord
  <2>4. pc = "source" => bits \subseteq 8..10
    BY <1>1, SourceRegisterField DEF OperandState
  <2> HIDE DEF node, bits, s
  <2>5. /\ PendingWords'
        /\ UNCHANGED <<directiveNode, opCode>> => AtInstruction'
        /\ directiveQ'[Len(directiveQ')] = node
        /\ directiveNode < Len(directiveQ')
    BY <1>3, <2>1, <2>3, AppendedOperand
  <2>6. CASE pc' = "read" /\ opRegisterCount' = 0
    BY <2>5, <2>6 DEF OperandsInv, CurrentInstruction, SharedRegisterWord, RegistersCounted
  <2>7. CASE pc' = "endOfLine"
    BY <2>5, <2>7 DEF OperandsInv, CurrentInstruction, SharedRegisterWord, RegistersCounted
  <2>8. CASE /\ pc = "source" /\ pc' = "comma" /\ opRegisterCount' = 1
             /\ UNCHANGED <<directiveNode, opCode>>
    <3>1. CurrentInstruction'
      BY <2>5, <2>8, Zenon DEF CurrentInstruction, AtInstruction, OpcodeBits
    <3>2. SharedRegisterWord'
      BY <2>2, <2>4, <2>5, <2>8 DEF SharedRegisterWord
    <3>3. QED
      BY <2>5, <2>8, <3>1, <3>2 DEF OperandsInv, RegistersCounted
  <2>9. QED
    BY <1>1, <2>6, <2>7, <2>8, AfterOperandGoes
<1>5. CASE opRegisterCount # 0
  <2>1. pc = "destination" /\ opRegisterCount = 1
    BY <1>1, <1>5, BeforeOperand DEF TypeOK, LocalsOK
  <2>2. isComplete(directiveQ[Len(directiveQ)])
    BY <2>1 DEF OperandsInv, SharedRegisterWord, isComplete
  <2>3. directiveQ' = addToBinaryCode(WithAddressing(DIRECT_REGISTER), Len(directiveQ), bits)
    BY <1>5 DEF AddRegisterOperand
  <2> HIDE DEF bits, s
  <2>4. PendingWords'
    BY <1>2, <1>3, <2>2, <2>3, AddedRegister
  <2>5. pc' = "endOfLine" \/ (pc' = "read" /\ opRegisterCount' = 0)
    BY <1>1, <2>1, AfterOperandGoes
  <2>6. QED
    BY <2>4, <2>5 DEF OperandsInv, CurrentInstruction, SharedRegisterWord, RegistersCounted
<1>6. QED
  BY <1>4, <1>5

\* The label of a jump.
LEMMA JumpOperands ==
    ASSUME TypeOK, OperandsInv, ProcessJumpNoOperands \/ ProcessJumpWithOperands
    PROVE  OperandsInv'
<1> DEFINE label == Head(skipWhiteSpace(rest)).w
           node  == Node(label, directiveCounter, {}, {"NOT_COMPLETE"})
<1>1. OperandWord(node)
  <2>1. label \in Names
    BY JumpLabelTypes DEF ProcessJumpNoOperands, ProcessJumpWithOperands
  <2>2. node \in NodeSet
    BY <2>1, NodeType DEF TypeOK, QueuesOK, Statements
  <2>3. QED
    BY <2>1, <2>2 DEF Node, OperandWord, isComplete
<1>2. PICK bit \in {2, 3} :
         directiveQ' = Append(addToBinaryCode(directiveQ, directiveNode, {bit}), node)
  BY DEF ProcessJumpNoOperands, ProcessJumpWithOperands, enqueueJump, enqueueWord
<1>3. {bit} \in SUBSET WordBits /\ {bit} \cap OpcodeBits = {}
  BY DEF WordBits, OpcodeBits
<1>4. Addressed(addToBinaryCode(directiveQ, directiveNode, {bit}))
  BY <1>3, AddressedByBits
<1>5. AtInstruction /\ PendingWords /\ opRegisterCount = 0
  BY BeforeOperand DEF ProcessJumpNoOperands, ProcessJumpWithOperands
<1>6. /\ PendingWords'
      /\ UNCHANGED <<directiveNode, opCode>> => AtInstruction'
  <2> HIDE DEF node
  <2>1. QED
    BY <1>1, <1>2, <1>4, <1>5, AppendedOperand
<1>7. CASE ProcessJumpNoOperands
  <2>1. EndLine(TRUE, FALSE)
    BY <1>7 DEF ProcessJumpNoOperands
  <2>2. QED
    BY <1>6, <2>1, EndedInstruction
<1>8. CASE ProcessJumpWithOperands
  <2>1. pc' = "source" /\ UNCHANGED <<directiveNode, opCode, opRegisterCount>>
    BY <1>8 DEF ProcessJumpWithOperands
  <2>2. CurrentInstruction'
    BY <1>6, <2>1, Zenon DEF CurrentInstruction, AtInstruction, OpcodeBits
  <2>3. QED
    BY <1>5, <1>6, <2>1, <2>2 DEF OperandsInv, SharedRegisterWord, RegistersCounted
<1>9. QED
  BY <1>7, <1>8

\* The steps of the first stage that queue no word of code.
LEMMA OtherLines ==
    ASSUME TypeOK, OperandsInv,
           \/ \E l \in Lines : ReadLine(l)
           \/ EndOfFile \/ ProcessInstruction \/ ProcessLineError \/ ProcessData
           \/ LastNumber \/ NextNumber \/ BadNumber \/ ProcessString \/ ProcessEntry
           \/ ProcessExtern \/ OperandError \/ getToSecondOperand \/ validateEndOfLine
           \/ ProcessJumpError
    PROVE  OperandsInv'
<1>1. UNCHANGED directiveQ
  BY DEF ReadLine, EndOfFile, ProcessInstruction, ProcessLineError, ProcessData, LastNumber,
     NextNumber, BadNumber, ProcessString, ProcessEntry, ProcessExtern, OperandError,
     getToSecondOperand, validateEndOfLine, ProcessJumpError, enqueueValues, queues
<1>2. PendingWords'
  BY <1>1 DEF OperandsInv, PendingWords, isComplete
<1>3. CASE \E ok, printed : EndLine(ok, printed)
  BY <1>2, <1>3, EndedInstruction
<1>4. CASE \/ \E l \in Lines : ReadLine(l)
           \/ EndOfFile
  <2>1. pc = "read" /\ pc' \in {"read", "processLine", "validationPass"} /\ UNCHANGED locals
    BY <1>4 DEF ReadLine, EndOfFile
  <2>2. opRegisterCount' = 0 /\ pc' \notin OperandPcs
    BY <2>1 DEF OperandsInv, RegistersCounted, locals, OperandPcs
  <2>3. QED
    BY <1>1, <2>2, QuietStep
<1>5. CASE ProcessInstruction
  <2> DEFINE s == Statement(rest)
  <2>1. s \in Seq(Token) /\ s # <<>> /\ Head(s) \in Token /\ Head(s).t = "dot"
    BY <1>5, StatementTypes, ScanTypes
    DEF ProcessInstruction, Instruction, Starts, TypeOK, ControlOK
  <2>2. pc = "processLine" /\ pc' \in {"data", "string", "entry", "extern"} /\ UNCHANGED locals
    BY <1>5, <2>1, TokenFields DEF ProcessInstruction, Instruction
  <2>3. opRegisterCount' = 0 /\ pc' \notin OperandPcs
    BY <2>2 DEF OperandsInv, RegistersCounted, locals, OperandPcs
  <2>4. QED
    BY <1>1, <2>3, QuietStep
<1>6. CASE /\ pc \in {"data", "number"} /\ pc' = "number"
           /\ UNCHANGED locals
  <2>1. opRegisterCount' = 0 /\ pc' \notin OperandPcs
    BY <1>6 DEF OperandsInv, RegistersCounted, locals, OperandPcs
  <2>2. QED
    BY <1>1, <2>1, QuietStep
<1>7. CASE pc = "comma" /\ pc' = "destination" /\ UNCHANGED locals
  BY <1>1, <1>2, <1>7
  DEF locals, OperandsInv, CurrentInstruction, SharedRegisterWord, RegistersCounted
<1>8. ASSUME ProcessData \/ LastNumber \/ NextNumber \/ BadNumber
      PROVE  OperandsInv'
  <2>1. \/ \E ok, printed : EndLine(ok, printed)
        \/ pc \in {"data", "number"} /\ pc' = "number" /\ UNCHANGED locals
    BY <1>8 DEF ProcessData, LastNumber, NextNumber, BadNumber, Fail
  <2>2. QED
    BY <1>3, <1>6, <2>1
<1>9. ASSUME \/ ProcessLineError \/ ProcessString \/ ProcessEntry \/ ProcessExtern
             \/ OperandError \/ validateEndOfLine \/ ProcessJumpError
      PROVE  \E ok, printed : EndLine(ok, printed)
  BY <1>9 DEF ProcessLineError, ProcessString, ProcessEntry, ProcessExtern, OperandError,
              validateEndOfLine, ProcessJumpError, Fail
<1>10. ASSUME getToSecondOperand
       PROVE  OperandsInv'
  <2>1. \/ \E ok, printed : EndLine(ok, printed)
        \/ pc = "comma" /\ pc' = "destination" /\ UNCHANGED locals
    BY <1>10 DEF getToSecondOperand, Fail
  <2>2. QED
    BY <1>3, <1>7, <2>1
<1>11. QED
  BY <1>3, <1>4, <1>5, <1>8, <1>9, <1>10

\* The word completeDirectiveQ has reached stays as it is, or is completed from
\* the symbol table or else the extern table.
LEMMA ReachedWord ==
    ASSUME TypeOK, CompleteDirectiveNode
    PROVE  LET old == directiveQ[current]
               new == directiveQ'[current]
           IN  \/ UNCHANGED directiveQ
               \/ /\ ~isComplete(old) /\ HasName(symbolTable, old.label)
                  /\ new.binaryCode = old.binaryCode \cup
                        BitsOf(RELOCATABLE + 4 * FinalAddress(hashSearch(symbolTable, old.label)))
                  /\ new.statement = CompleteStatement(old, "LABEL")
               \/ /\ ~isComplete(old) /\ ~HasName(symbolTable, old.label)
                  /\ HasName(externTable, old.label)
                  /\ new.binaryCode = BitsOf(EXTERNAL)
                  /\ new.statement = CompleteStatement(old, "EXTERN")
<1> DEFINE old    == directiveQ[current]
           symbol == hashSearch(symbolTable, old.label)
<1>1. current \in 1..Len(directiveQ) /\ old \in NodeSet /\ directiveQ \in Seq(NodeSet)
  BY CompletedWord, ElementOfSeq DEF TypeOK, QueuesOK
<1>2. CASE UNCHANGED directiveQ
  BY <1>2
<1>3. CASE /\ ~isComplete(old) /\ HasName(symbolTable, old.label)
           /\ directiveQ' = [directiveQ EXCEPT ![current] = completeRelocatableNode(old, symbol)]
  <2> DEFINE new == completeRelocatableNode(old, symbol)
  <2>1. new \in NodeSet
    <3>1. symbol \in NodeSet
      BY <1>3 DEF HasName, hashSearch, TypeOK, TablesOK, IsTable
    <3>2. QED
      BY <1>1, <3>1, CompletedTypes
  <2>2. /\ new.binaryCode = old.binaryCode \cup BitsOf(RELOCATABLE + 4 * FinalAddress(symbol))
        /\ new.statement = CompleteStatement(old, "LABEL")
    BY <1>1 DEF completeRelocatableNode, NodeSet
  <2> HIDE DEF new
  <2>3. directiveQ'[current] = new
    BY <1>1, <1>3, <2>1, ChangedWord DEF new
  <2>4. QED
    BY <1>3, <2>2, <2>3
<1>4. CASE /\ ~isComplete(old) /\ ~HasName(symbolTable, old.label)
           /\ HasName(externTable, old.label)
           /\ directiveQ' = [directiveQ EXCEPT ![current] = completeExternalNode(old)]
  <2> DEFINE new == completeExternalNode(old)
  <2>1. new \in NodeSet
    BY <1>1, CompletedTypes
  <2>2. /\ new.binaryCode = BitsOf(EXTERNAL)
        /\ new.statement = CompleteStatement(old, "EXTERN")
    BY <1>1 DEF completeExternalNode, NodeSet
  <2> HIDE DEF new
  <2>3. directiveQ'[current] = new
    BY <1>1, <1>4, <2>1, ChangedWord DEF new
  <2>4. QED
    BY <1>4, <2>2, <2>3
<1>5. QED
  BY <1>2, <1>3, <1>4 DEF CompleteDirectiveNode

\* Completing a word sets its flags and no DIRECTIVE flag.
LEMMA CompletedOperands ==
    ASSUME TypeOK, OperandsInv, CompleteDirectiveNode
    PROVE  OperandsInv'
<1>1. /\ current \in 1..Len(directiveQ) /\ Len(directiveQ') = Len(directiveQ)
      /\ \A i \in 1..Len(directiveQ) : i # current => directiveQ'[i] = directiveQ[i]
  BY CompletedWord
<1>2. UNCHANGED directiveQ \/ isComplete(directiveQ'[current])
  BY ReachedWord DEF CompleteStatement, isComplete
<1>3. PendingWords'
  BY <1>1, <1>2 DEF OperandsInv, PendingWords, isComplete
<1>4. pc' = "completeDirectiveQ" /\ UNCHANGED locals /\ pc = "completeDirectiveQ"
  BY DEF CompleteDirectiveNode
<1>5. QED
  BY <1>3, <1>4
  DEF locals, OperandsInv, CurrentInstruction, SharedRegisterWord, RegistersCounted

-----------------------------------------------------------------------------

\* The word operands are added to, and the registers counted for it, stay right.
LEMMA OperandsInvariant == Spec => []OperandsInv
<1>1. Init => OperandsInv
  BY DEF Init, OperandsInv, CurrentInstruction, SharedRegisterWord, PendingWords,
         RegistersCounted
<1>2. TypeOK /\ OperandsInv /\ [Next]_vars => OperandsInv'
  <2> SUFFICES ASSUME TypeOK, OperandsInv, [Next]_vars PROVE OperandsInv'
    OBVIOUS
  <2>1. CASE FirstStageNext
    BY <2>1, OtherLines, ProcessDirectiveOperands, WordOperands, RegisterOperand, JumpOperands
    DEF FirstStageNext
  <2>2. CASE CompleteDirectiveNode
    BY <2>2, CompletedOperands
  <2>3. CASE ValidateTables \/ EndValidation \/ WriteToFileNext
    <3>1. /\ UNCHANGED <<directiveQ, locals>>
          /\ pc \in {"validationPass", "completeDirectiveQ"} \cup WritePcs
          /\ pc' \in {"completeDirectiveQ", "done"} \cup WritePcs
      BY <2>3 DEF ValidateTables, EndValidation, WriteToFileNext, OpenFiles, WriteDirective,
                  DirectivesWritten, WriteInstruction, WriteEntries, queues, WritePcs
    <3>2. opRegisterCount' = 0 /\ pc' \notin OperandPcs
      BY <3>1 DEF OperandsInv, RegistersCounted, locals, OperandPcs, WritePcs
    <3>3. QED
      BY <3>1, <3>2, QuietStep
  <2>4. CASE UNCHANGED vars
    BY <2>4 DEF vars, locals, queues, OperandsInv, CurrentInstruction, SharedRegisterWord,
                PendingWords, isComplete, RegistersCounted
  <2>5. QED
    BY <2>1, <2>2, <2>3, <2>4 DEF Next, ValidationPassNext, Returned
<1>3. QED
  BY <1>1, <1>2, TypeCorrect, PTL DEF Spec

\* For every source, while operands are read the word they are added to is the
\* first word of their own instruction, with its opcode intact.
THEOREM OperandsReachTheirInstruction == Spec => []CurrentInstruction
<1>1. OperandsInv => CurrentInstruction
  BY DEF OperandsInv
<1>2. QED
  BY <1>1, OperandsInvariant, PTL

\* For every source, a second register is only ever added to the register word
\* of its own instruction, at bits that are free.
THEOREM RegistersShareAWord == Spec => []SharedRegisterWord
<1>1. OperandsInv => SharedRegisterWord
  BY DEF OperandsInv
<1>2. QED
  BY <1>1, OperandsInvariant, PTL

\* No step takes a queued word away, moves or renames it or clears one of its
\* bits: the words completeExternalNode overwrites are still empty.
THEOREM NoWordShrinks == Spec => WordsOnlyGrow
<1> DEFINE Grows == \A i \in 1..Len(directiveQ) :
                       /\ i \in 1..Len(directiveQ')
                       /\ directiveQ'[i].label = directiveQ[i].label
                       /\ directiveQ'[i].deciAddress = directiveQ[i].deciAddress
                       /\ directiveQ[i].binaryCode \subseteq directiveQ'[i].binaryCode
<1>1. TypeOK /\ OperandsInv /\ [Next]_vars => [Grows]_vars
  <2> SUFFICES ASSUME TypeOK, OperandsInv, Next PROVE Grows
    OBVIOUS
  <2>1. CASE UNCHANGED directiveQ
    BY <2>1
  <2>2. CASE FirstStageNext
    <3>1. Len(directiveQ) \in Nat
      BY LenProperties DEF TypeOK, QueuesOK
    <3>2. QED
      BY <2>2, <3>1, FirstStageGrows DEF DirectivesGrow, Kept
  <2>3. CASE CompleteDirectiveNode /\ directiveQ' # directiveQ
    <3>1. /\ current \in 1..Len(directiveQ) /\ Len(directiveQ') = Len(directiveQ)
          /\ \A i \in 1..Len(directiveQ) : i # current => directiveQ'[i] = directiveQ[i]
          /\ directiveQ'[current].label = directiveQ[current].label
          /\ directiveQ'[current].deciAddress = directiveQ[current].deciAddress
      BY <2>3, CompletedWord
    <3>2. directiveQ[current].binaryCode \subseteq directiveQ'[current].binaryCode
      BY <2>3, <3>1, ReachedWord DEF OperandsInv, PendingWords
    <3>3. QED
      BY <3>1, <3>2
  <2>4. CASE ValidateTables \/ EndValidation \/ WriteToFileNext \/ Returned
    <3>1. UNCHANGED directiveQ
      BY <2>4 DEF ValidateTables, EndValidation, WriteToFileNext, OpenFiles, WriteDirective,
                  DirectivesWritten, WriteInstruction, WriteEntries, Returned, vars, queues
    <3>2. QED
      BY <2>1, <3>1
  <2>5. QED
    BY <2>1, <2>2, <2>3, <2>4 DEF Next, ValidationPassNext
<1>2. QED
  BY <1>1, TypeCorrect, OperandsInvariant, PTL DEF Spec, WordsOnlyGrow

-----------------------------------------------------------------------------
(* What the scanner of a jump with operands has still before it. *)

\* The first parenthesis closes at place i, and a blank at most follows it.
ClosedAt(s, i) ==
    /\ s[i].t = "close"
    /\ \A j \in 1..(i - 1) : s[j].t \notin {"close", "ws"}
    /\ Len(s) = i \/ (Len(s) = i + 1 /\ s[i + 1].t = "ws")

OneComma(s, i) == \A j, k \in 1..i : s[j].t = "comma" /\ s[k].t = "comma" => j = k
NoComma(s, i)  == \A j \in 1..i : s[j].t # "comma"

\* Between the parentheses of a jump the line is the one that was checked: it
\* has one comma, until that comma has been read, and then none.
JumpInv ==
    jumpWithOperand =>
        /\ pc \in {"source", "comma", "destination"}
        /\ \E i \in 1..Len(rest) :
              /\ ClosedAt(rest, i)
              /\ OneComma(rest, i)
              /\ pc = "destination" => NoComma(rest, i)

\* A set with at most one element.
LEMMA AtMostOne ==
    ASSUME NEW S, IsFiniteSet(S), Cardinality(S) <= 1, NEW x \in S, NEW y \in S
    PROVE  x = y
<1> SUFFICES ASSUME x # y PROVE FALSE
  OBVIOUS
<1>1. {x, y} \subseteq S /\ IsFiniteSet({x, y}) /\ Cardinality({x, y}) = 2
  <2>1. IsFiniteSet({x}) /\ Cardinality({x}) = 1
    BY FS_Singleton
  <2>2. {x, y} = {x} \cup {y} /\ y \notin {x}
    OBVIOUS
  <2>3. QED
    BY <2>1, <2>2, FS_AddElement
<1>2. Cardinality({x, y}) <= Cardinality(S)
  BY <1>1, FS_Subset
<1>3. Cardinality(S) \in Nat
  BY FS_CardinalityType
<1>4. QED
  BY <1>1, <1>2, <1>3

\* Reading a token that is not the parenthesis.
LEMMA TailCloses ==
    ASSUME NEW s \in Seq(Token), NEW i \in 1..Len(s), ClosedAt(s, i), Head(s).t # "close"
    PROVE  /\ i - 1 \in 1..Len(Tail(s)) /\ Tail(s) \in Seq(Token) /\ s # <<>>
           /\ ClosedAt(Tail(s), i - 1)
           /\ OneComma(s, i) => OneComma(Tail(s), i - 1)
           /\ NoComma(s, i) => NoComma(Tail(s), i - 1)
           /\ OneComma(s, i) /\ Head(s).t = "comma" => NoComma(Tail(s), i - 1)
<1>1. /\ s # <<>> /\ Tail(s) \in Seq(Token) /\ Len(s) \in Nat /\ Len(Tail(s)) = Len(s) - 1
      /\ \A j \in 1..(Len(s) - 1) : Tail(s)[j] = s[j + 1]
      /\ Head(s) = s[1]
  OBVIOUS
<1>2. i \in 2..Len(s) /\ i - 1 \in 1..Len(Tail(s))
  <2>1. i # 1
    BY <1>1 DEF ClosedAt
  <2>2. QED
    BY <1>1, <2>1
<1>3. ClosedAt(Tail(s), i - 1)
  BY <1>1, <1>2 DEF ClosedAt
<1>4. ASSUME OneComma(s, i)
      PROVE  OneComma(Tail(s), i - 1)
  <2> SUFFICES ASSUME NEW j \in 1..(i - 1), NEW k \in 1..(i - 1),
                      Tail(s)[j].t = "comma", Tail(s)[k].t = "comma"
               PROVE  j = k
    BY DEF OneComma
  <2>1. j + 1 = k + 1
    BY <1>1, <1>2, <1>4 DEF OneComma
  <2>2. QED
    BY <2>1
<1>5. NoComma(s, i) => NoComma(Tail(s), i - 1)
  BY <1>1, <1>2 DEF NoComma
<1>6. ASSUME OneComma(s, i), Head(s).t = "comma"
      PROVE  NoComma(Tail(s), i - 1)
  <2> SUFFICES ASSUME NEW j \in 1..(i - 1), Tail(s)[j].t = "comma"
               PROVE  FALSE
    BY DEF NoComma
  <2>1. j + 1 = 1
    BY <1>1, <1>2, <1>6 DEF OneComma
  <2>2. QED
    BY <2>1
<1>7. QED
  BY <1>1, <1>2, <1>3, <1>4, <1>5, <1>6

\* determineJumpAddressingType has looked at the whole line.
LEMMA CheckedJump ==
    ASSUME NEW s \in Seq(Token), JumpWithOperands(s)
    PROVE  /\ s # <<>> /\ Tail(s) \in Seq(Token)
           /\ \E i \in 1..Len(Tail(s)) : ClosedAt(Tail(s), i) /\ OneComma(Tail(s), i)
<1>1. s # <<>> /\ Tail(s) \in Seq(Token) /\ Len(s) \in Nat /\ Len(Tail(s)) = Len(s) - 1
      /\ \A j \in 1..(Len(s) - 1) : Tail(s)[j] = s[j + 1]
  BY DEF JumpWithOperands, Starts
<1>2. PICK i \in 2..Len(s) :
         /\ s[i].t = "close"
         /\ \A j \in 1..(i - 1) : s[j].t \notin {"close", "ws"}
         /\ Cardinality({j \in 1..i : s[j].t = "comma"}) <= 1
         /\ isEmptyLine(SubSeq(s, i + 1, Len(s)))
  BY DEF JumpWithOperands
<1>3. Len(s) = i \/ (Len(s) = i + 1 /\ s[i + 1].t = "ws")
  <2>0. Len(s) \in Nat /\ i \in 2..Len(s)
    BY <1>1
  <2> SUFFICES ASSUME i + 1 \in 1..Len(s)
               PROVE  Len(s) = i + 1 /\ s[i + 1].t = "ws"
    BY <2>0
  <2> DEFINE u == SubSeq(s, i + 1, Len(s))
             v == SubSeq(s, i + 2, Len(s))
  <2>1. Head(u) = s[i + 1] /\ Tail(u) = v
    <3>1. Len(s) \in (i + 1)..Len(s) /\ i + 1 + 1 = i + 2
      BY <1>1
    <3>2. QED
      BY <3>1, HeadTailOfSubSeq
  <2>2. /\ Len(u) = IF i + 1 <= Len(s) THEN Len(s) - (i + 1) + 1 ELSE 0
        /\ Len(v) = IF i + 2 <= Len(s) THEN Len(s) - (i + 2) + 1 ELSE 0
    <3>1. i + 1 \in Int /\ i + 2 \in Int /\ Len(s) \in Int
      BY <1>1
    <3>2. /\ \A j \in (i + 1)..Len(s) : s[j] \in Token
          /\ \A j \in (i + 2)..Len(s) : s[j] \in Token
      BY <1>1, ElementOfSeq
    <3>3. QED
      BY <3>1, <3>2, SubSeqProperties
  <2> HIDE DEF u, v
  <2>3. u # <<>>
    <3>1. Len(u) # 0
      BY <2>0, <2>2
    <3>2. QED
      BY <3>1, EmptySeq
  <2>4. Head(u).t = "ws" /\ Tail(u) = <<>>
    BY <1>2, <2>3 DEF isEmptyLine, skipWhiteSpace, u
  <2>5. Len(v) = 0 /\ s[i + 1].t = "ws"
    BY <2>1, <2>4, EmptySeq
  <2>6. QED
    BY <2>0, <2>2, <2>5
<1>4. ClosedAt(s, i)
  BY <1>2, <1>3 DEF ClosedAt
<1>5. OneComma(s, i)
  <2> SUFFICES ASSUME NEW j \in 1..i, NEW k \in 1..i, s[j].t = "comma", s[k].t = "comma"
               PROVE  j = k
    BY DEF OneComma
  <2> DEFINE commas == {n \in 1..i : s[n].t = "comma"}
  <2>1. IsFiniteSet(commas)
    <3>1. IsFiniteSet(1..i) /\ commas \subseteq 1..i
      BY FS_Interval
    <3>2. QED
      BY <3>1, FS_Subset
  <2>2. j \in commas /\ k \in commas
    OBVIOUS
  <2>3. Cardinality(commas) <= 1
    BY <1>2
  <2> HIDE DEF commas
  <2>4. QED
    BY <2>1, <2>2, <2>3, AtMostOne
<1>6. Head(s).t # "close" /\ i \in 1..Len(s)
  BY <1>1 DEF JumpWithOperands, Starts
<1>7. QED
  BY <1>1, <1>4, <1>5, <1>6, TailCloses

\* Before the parenthesis there is no white space to skip.
LEMMA NothingToSkip ==
    ASSUME NEW s \in Seq(Token), NEW i \in 1..Len(s), ClosedAt(s, i)
    PROVE  skipWhiteSpace(s) = s
<1>1. s # <<>> /\ Head(s) = s[1] /\ Head(s).t # "ws"
  BY DEF ClosedAt
<1>2. QED
  BY <1>1 DEF skipWhiteSpace

\* Behind a token that only a blank follows the line is empty.
LEMMA BlankBehind ==
    ASSUME NEW s \in Seq(Token), s # <<>>, Len(s) = 1 \/ (Len(s) = 2 /\ s[2].t = "ws")
    PROVE  isEmptyLine(Tail(s))
<1> DEFINE v == Tail(s)
           w == Tail(v)
<1>1. v \in Seq(Token) /\ Len(v) = Len(s) - 1 /\ \A i \in 1..Len(v) : v[i] = s[i + 1]
  BY HeadTailProperties
<1> HIDE DEF v
<1>2. CASE Len(s) = 1
  <2>1. v = <<>>
    BY <1>1, <1>2, EmptySeq
  <2>2. QED
    BY <2>1 DEF isEmptyLine, skipWhiteSpace, v
<1>3. CASE Len(s) = 2 /\ s[2].t = "ws"
  <2>1. Len(v) = 1 /\ v[1] = s[2]
    BY <1>1, <1>3
  <2>2. v # <<>> /\ Head(v) = v[1]
    BY <1>1, <2>1, EmptySeq
  <2>3. w \in Seq(Token) /\ Len(w) = 0
    <3>1. w \in Seq(Token) /\ Len(w) = Len(v) - 1
      BY <1>1, <2>2, HeadTailProperties
    <3>2. QED
      BY <2>1, <3>1
  <2> HIDE DEF w
  <2>4. w = <<>>
    BY <2>3, EmptySeq
  <2>5. QED
    BY <1>3, <2>1, <2>2, <2>4 DEF isEmptyLine, skipWhiteSpace, v, w
<1>4. QED
  BY <1>2, <1>3

\* An operand begins with a value or a word.
LEMMA OperandStarts ==
    ASSUME NEW s, IsOperand(s)
    PROVE  s # <<>> /\ Head(s).t \in {"imm", "id"}
BY DEF IsOperand, Starts

\* An operand between the parentheses: nothing was skipped to reach it.
LEMMA OperandInJump ==
    ASSUME TypeOK, NEW i \in 1..Len(rest), ClosedAt(rest, i), IsOperand(skipWhiteSpace(rest))
    PROVE  /\ skipWhiteSpace(rest) = rest /\ rest \in Seq(Token)
           /\ Head(rest).t \notin {"close", "comma"}
<1>1. rest \in Seq(Token) /\ skipWhiteSpace(rest) = rest
  BY NothingToSkip DEF TypeOK, ControlOK
<1>2. QED
  BY <1>1, OperandStarts

\* Reading an operand of a jump leaves the rest of the line as it was checked.
LEMMA OperandJump ==
    ASSUME TypeOK, JumpInv, pc \in {"source", "destination"},
           NEW addressing, OperandIs(skipWhiteSpace(rest), addressing),
           NEW registers, AfterOperand(skipWhiteSpace(rest), registers)
    PROVE  JumpInv'
<1>1. CASE ~jumpWithOperand'
  BY <1>1 DEF JumpInv
<1>2. CASE jumpWithOperand'
  <2>1. /\ jumpWithOperand /\ pc = "source" /\ pc' = "comma"
        /\ rest' = Tail(skipWhiteSpace(rest))
    BY <1>2 DEF AfterOperand, EndLine
  <2>2. PICK i \in 1..Len(rest) : ClosedAt(rest, i) /\ OneComma(rest, i)
    BY <2>1 DEF JumpInv
  <2>3. /\ skipWhiteSpace(rest) = rest /\ rest \in Seq(Token) /\ Head(rest).t # "close"
    BY <2>2, OperandInJump DEF OperandIs
  <2>4. /\ i - 1 \in 1..Len(rest')
        /\ ClosedAt(rest', i - 1) /\ OneComma(rest', i - 1)
    BY <2>1, <2>2, <2>3, TailCloses
  <2>5. QED
    BY <2>1, <2>4 DEF JumpInv, ClosedAt, OneComma
<1>3. QED
  BY <1>1, <1>2

\* The comma is the one the check has counted: behind it there is none.
LEMMA CommaJump ==
    ASSUME TypeOK, JumpInv, getToSecondOperand
    PROVE  JumpInv'
<1> DEFINE s == skipWhiteSpace(rest)
<1>1. CASE Starts(s, {"comma"}) /\ jumpWithOperand
  <2>1. PICK i \in 1..Len(rest) : ClosedAt(rest, i) /\ OneComma(rest, i)
    BY <1>1 DEF JumpInv
  <2>2. rest \in Seq(Token) /\ s = rest
    BY <2>1, NothingToSkip DEF TypeOK, ControlOK
  <2>3. Head(rest).t = "comma" /\ rest' = Tail(rest) /\ pc' = "destination"
    BY <1>1, <2>2 DEF getToSecondOperand, Starts
  <2>4. /\ i - 1 \in 1..Len(rest')
        /\ ClosedAt(rest', i - 1) /\ OneComma(rest', i - 1) /\ NoComma(rest', i - 1)
    BY <2>1, <2>2, <2>3, TailCloses
  <2>5. QED
    BY <2>3, <2>4 DEF JumpInv, ClosedAt, OneComma, NoComma
<1>2. CASE ~(Starts(s, {"comma"}) /\ jumpWithOperand)
  <2>1. ~jumpWithOperand'
    BY <1>2 DEF getToSecondOperand, Fail, EndLine, locals
  <2>2. QED
    BY <2>1 DEF JumpInv
<1>3. QED
  BY <1>1, <1>2

\* The operands of a jump are read only from a line that was checked to the end.
LEMMA JumpInvariant == Spec => []JumpInv
<1>1. Init => JumpInv
  BY DEF Init, JumpInv
<1>2. TypeOK /\ JumpInv /\ [Next]_vars => JumpInv'
  <2> SUFFICES ASSUME TypeOK, JumpInv, [Next]_vars PROVE JumpInv'
    OBVIOUS
  <2>1. CASE ~jumpWithOperand'
    BY <2>1 DEF JumpInv
  <2>2. CASE AddImmediateOperand \/ AddDirectOperand \/ AddRegisterOperand
    BY <2>2, OperandJump DEF AddImmediateOperand, AddDirectOperand, AddRegisterOperand
  <2>3. CASE getToSecondOperand
    BY <2>3, CommaJump
  <2>4. CASE ProcessJumpWithOperands
    <3> DEFINE s == skipWhiteSpace(rest)
    <3>1. Tail(s) \in Seq(Token) /\ JumpWithOperands(Tail(s))
      BY <2>4, JumpLabelTypes DEF ProcessJumpWithOperands
    <3>2. rest' = Tail(Tail(s)) /\ pc' = "source"
      BY <2>4 DEF ProcessJumpWithOperands
    <3>3. \E i \in 1..Len(rest') : ClosedAt(rest', i) /\ OneComma(rest', i)
      BY <3>1, <3>2, CheckedJump
    <3>4. QED
      BY <3>2, <3>3 DEF JumpInv, ClosedAt, OneComma, NoComma
  <2>5. CASE /\ UNCHANGED jumpWithOperand
             /\ pc \notin {"source", "comma", "destination"}
    BY <2>5 DEF JumpInv
  <2>6. CASE /\ FirstStageNext
             /\ ~AddImmediateOperand /\ ~AddDirectOperand /\ ~AddRegisterOperand
             /\ ~getToSecondOperand /\ ~ProcessJumpWithOperands
    <3>1. \/ ~jumpWithOperand'
          \/ /\ UNCHANGED jumpWithOperand
             /\ pc \notin {"source", "comma", "destination"}
      BY <2>6 DEF FirstStageNext, ReadLine, EndOfFile, ProcessInstruction, ProcessDirective,
         ProcessLineError, ProcessData, LastNumber, NextNumber, BadNumber, ProcessString,
         ProcessEntry, ProcessExtern, OperandError, validateEndOfLine, ProcessJumpNoOperands,
         ProcessJumpError, Fail, EndLine, locals
    <3>2. QED
      BY <2>1, <2>5, <3>1
  <2>7. CASE ValidationPassNext \/ WriteToFileNext
    <3>1. /\ UNCHANGED jumpWithOperand
          /\ pc \notin {"source", "comma", "destination"}
      BY <2>7 DEF ValidationPassNext, ValidateTables, CompleteDirectiveNode, EndValidation,
         WriteToFileNext, OpenFiles, WriteDirective, DirectivesWritten, WriteInstruction,
         WriteEntries, locals
    <3>2. QED
      BY <2>5, <3>1
  <2>8. CASE UNCHANGED vars
    BY <2>8 DEF vars, locals, JumpInv, ClosedAt, OneComma, NoComma
  <2>9. QED
    BY <2>2, <2>3, <2>4, <2>6, <2>7, <2>8 DEF Next, Returned
<1>3. QED
  BY <1>1, <1>2, TypeCorrect, PTL DEF Spec

\* For every line, where the destination of a jump ends the parenthesis follows,
\* and behind it nothing but blanks: processJumpWithOperands skips no text.
THEOREM JumpsSkipNothing == Spec => []NothingIgnored
<1>1. TypeOK /\ JumpInv => NothingIgnored
  <2> DEFINE s == skipWhiteSpace(rest)
  <2> SUFFICES ASSUME TypeOK, JumpInv, pc = "destination", jumpWithOperand, IsOperand(s),
                      EndsOperand(Tail(s))
               PROVE  Starts(Tail(s), {"close"}) /\ isEmptyLine(Tail(Tail(s)))
    BY DEF NothingIgnored
  <2>1. PICK i \in 1..Len(rest) : ClosedAt(rest, i) /\ NoComma(rest, i)
    BY DEF JumpInv
  <2>2. s = rest /\ rest \in Seq(Token) /\ Head(rest).t # "close"
    BY <2>1, OperandInJump
  <2> DEFINE u == Tail(s)
  <2>3. /\ i - 1 \in 1..Len(u) /\ u \in Seq(Token) /\ rest # <<>>
        /\ ClosedAt(u, i - 1) /\ NoComma(u, i - 1)
    BY <2>1, <2>2, TailCloses
  <2>4. EndsOperand(u)
    OBVIOUS
  <2> HIDE DEF u
  <2>5. u # <<>> /\ Head(u) = u[1] /\ 1 \in 1..(i - 1) /\ Len(u) \in Nat
    BY <2>3, LenProperties
  <2>6. Head(u).t = "close"
    BY <2>3, <2>4, <2>5 DEF EndsOperand, EndsWord, Starts, ClosedAt, NoComma
  <2>7. i - 1 = 1
    BY <2>3, <2>5, <2>6 DEF ClosedAt
  <2>8. isEmptyLine(Tail(u))
    <3>1. ClosedAt(u, 1)
      BY <2>3, <2>7, Zenon
    <3>2. Len(u) = 1 \/ (Len(u) = 2 /\ u[2].t = "ws")
      BY <3>1 DEF ClosedAt
    <3>3. QED
      BY <2>3, <2>5, <3>2, BlankBehind
  <2>9. QED
    BY <2>5, <2>6, <2>8 DEF Starts, u
<1>2. QED
  BY <1>1, TypeCorrect, JumpInvariant, PTL

-----------------------------------------------------------------------------
(* The symbols. *)

\* A label of the code is the address of the first word of an instruction; a
\* label of the data is the index of a word, or will be once the line that
\* declared it has queued its first value.
Marks(symbol, at, code, data) ==
    IF "INSTRUCTION" \in symbol.statement
    THEN \/ symbol.deciAddress < Len(data)
         \/ at \in {"data", "number", "string"} /\ symbol.deciAddress = Len(data)
    ELSE \E i \in 1..Len(code) : /\ code[i].deciAddress = symbol.deciAddress
                                 /\ "DIRECTIVE" \in code[i].statement

MarksInv ==
    createFiles => \A id \in DOMAIN symbolTable.nodes :
                       Marks(symbolTable.nodes[id], pc, directiveQ, instructionQ)

\* A table whose count is zero is empty.
CountsInv ==
    \A table \in {symbolTable, entryTable, externTable} :
        hashIsEmptyTable(table) => DOMAIN table.nodes = {}

Unresolved(node) == node.statement \cap {"LABEL", "EXTERN"} = {}

\* Nothing is resolved before the tables are complete, and then only words that
\* have a label.
ResolutionInv ==
    /\ pc \in FirstStagePcs \cup {"validationPass"} =>
          \A i \in 1..Len(directiveQ) : Unresolved(directiveQ[i])
    /\ \A i \in 1..Len(directiveQ) :
          Unresolved(directiveQ[i]) \/ (directiveQ[i].label \in Names /\ isComplete(directiveQ[i]))
    /\ ReferencesResolved

SymbolsInv == MarksInv /\ CountsInv /\ ResolutionInv

-----------------------------------------------------------------------------
(* The labels. *)

\* An inserted name leaves the table with a count above zero.
LEMMA CountedInsert ==
    ASSUME NEW table, IsTable(table), NEW name, NEW deciAddress, NEW statement
    PROVE  ~hashIsEmptyTable(hashInsert(table, name, deciAddress, statement))
BY DEF IsTable, hashIsEmptyTable, hashInsert

\* A line's label is filed with the counter of the moment, or was there already.
LEMMA DeclaredSymbols ==
    ASSUME TypeOK, CountsInv, NEW counter \in Nat, NEW statement \in Statements,
           DeclareLabel(counter, statement)
    PROVE  /\ \A id \in DOMAIN symbolTable'.nodes :
                 \/ /\ id \in DOMAIN symbolTable.nodes
                    /\ symbolTable'.nodes[id] = symbolTable.nodes[id]
                 \/ /\ symbolTable'.nodes[id].deciAddress = counter
                    /\ symbolTable'.nodes[id].statement = {statement, "COMPLETED"}
           /\ hashIsEmptyTable(symbolTable') => DOMAIN symbolTable'.nodes = {}
<1>1. CASE HasLabel(rest)
  <2> DEFINE name == Label(rest)
             new  == hashInsert(symbolTable, name, counter, {statement, "COMPLETED"})
             node == Node(name, counter, {}, {statement, "COMPLETED"})
  <2>1. name \in Names
    BY <1>1, StatementTypes DEF TypeOK, ControlOK
  <2>2. {statement, "COMPLETED"} \in SUBSET Statements
    BY DEF Statements
  <2>3. symbolTable' = new
    BY <1>1 DEF DeclareLabel
  <2>4. /\ DOMAIN new.nodes = DOMAIN symbolTable.nodes \cup {Ident[name]}
        /\ \A id \in DOMAIN symbolTable.nodes : new.nodes[id] = symbolTable.nodes[id]
        /\ Ident[name] \notin DOMAIN symbolTable.nodes => new.nodes[Ident[name]] = node
    BY <2>1, <2>2, Inserted DEF TypeOK, TablesOK
  <2>5. node.deciAddress = counter /\ node.statement = {statement, "COMPLETED"}
    BY DEF Node
  <2>6. ~hashIsEmptyTable(new)
    BY CountedInsert DEF TypeOK, TablesOK
  <2> HIDE DEF new, node
  <2>7. QED
    BY <2>3, <2>4, <2>5, <2>6
<1>2. CASE ~HasLabel(rest)
  BY <1>2 DEF DeclareLabel, CountsInv
<1>3. QED
  BY <1>1, <1>2

\* Queues that only grow keep every mark; the line that has declared a label of
\* data must have queued its first value, or still be about to.
LEMMA MarksKept ==
    ASSUME TypeOK, Len(directiveQ) <= Len(directiveQ'), Len(directiveQ') \in Nat,
           Len(instructionQ) <= Len(instructionQ'), Len(instructionQ') \in Nat,
           \A i \in 1..Len(directiveQ) :
               /\ directiveQ'[i].deciAddress = directiveQ[i].deciAddress
               /\ "DIRECTIVE" \in directiveQ[i].statement =>
                     "DIRECTIVE" \in directiveQ'[i].statement,
           \/ pc \notin {"data", "number", "string"}
           \/ pc' \in {"data", "number", "string"} /\ UNCHANGED instructionQ
           \/ Len(instructionQ) < Len(instructionQ'),
           NEW symbol \in NodeSet, Marks(symbol, pc, directiveQ, instructionQ)
    PROVE  Marks(symbol, pc', directiveQ', instructionQ')
<1>1. Len(directiveQ) \in Nat /\ Len(instructionQ) \in Nat /\ symbol.deciAddress \in Nat
  BY LenProperties DEF TypeOK, QueuesOK, NodeSet
<1>2. CASE "INSTRUCTION" \in symbol.statement
  BY <1>1, <1>2 DEF Marks
<1>3. CASE "INSTRUCTION" \notin symbol.statement
  <2>1. PICK i \in 1..Len(directiveQ) : /\ directiveQ[i].deciAddress = symbol.deciAddress
                                        /\ "DIRECTIVE" \in directiveQ[i].statement
    BY <1>3 DEF Marks
  <2>2. i \in 1..Len(directiveQ')
    BY <1>1
  <2>3. QED
    BY <1>3, <2>1, <2>2 DEF Marks
<1>4. QED
  BY <1>2, <1>3

\* A line of data that ends well has queued a value.
LEMMA DataLine ==
    ASSUME TypeOK, FirstStageNext, pc \in {"data", "number", "string"}, createFiles'
    PROVE  \/ pc' \in {"data", "number", "string"} /\ UNCHANGED instructionQ
           \/ Len(instructionQ) < Len(instructionQ')
<1>1. ProcessData \/ LastNumber \/ NextNumber \/ BadNumber \/ ProcessString
  BY DEF FirstStageNext, ReadLine, EndOfFile, ProcessInstruction, ProcessDirective,
     ProcessLineError, ProcessEntry, ProcessExtern, AddImmediateOperand, AddDirectOperand,
     AddRegisterOperand, OperandError, getToSecondOperand, validateEndOfLine,
     ProcessJumpNoOperands, ProcessJumpWithOperands, ProcessJumpError
<1>2. ~(EndLine(FALSE, TRUE) \/ EndLine(FALSE, FALSE))
  BY Zenon DEF EndLine
<1>3. ASSUME NEW S, NEW values \in Seq(S), enqueueValues(values), Len(values) > 0
      PROVE  Len(instructionQ) < Len(instructionQ')
  <2>1. Len(instructionQ) \in Nat /\ Len(values) \in Nat
    BY LenProperties DEF TypeOK, QueuesOK
  <2>2. Len(instructionQ') = Len(instructionQ) + Len(values)
    BY <1>3, EnqueuedTypes DEF enqueueValues, TypeOK
  <2>3. QED
    BY <1>3, <2>1, <2>2
<1>4. CASE enqueueValues(<<Number(rest)>>)
  <2>1. <<Number(rest)>> \in Seq({Number(rest)}) /\ Len(<<Number(rest)>>) > 0
    OBVIOUS
  <2>2. QED
    BY <1>3, <1>4, <2>1
<1>5. CASE ProcessString
  <2> DEFINE s      == skipWhiteSpace(rest)
             values == Append(Head(s).chars, 0)
  <2>1. Starts(s, {"str"}) /\ enqueueValues(values)
    BY <1>2, <1>5 DEF ProcessString, Fail
  <2>2. s \in Seq(Token) /\ s # <<>> /\ Head(s).t = "str"
    BY <2>1, ScanTypes DEF Starts, TypeOK, ControlOK
  <2>3. Head(s).chars \in Seq(0..127)
    BY <2>2, ScanTypes, TokenFields
  <2>4. values \in Seq(0..127) /\ Len(values) > 0
    BY <2>3, AppendProperties, LenProperties
  <2> HIDE DEF values
  <2>5. QED
    BY <1>3, <2>1, <2>4
<1>6. CASE ProcessData
  BY <1>2, <1>6 DEF ProcessData, Fail, queues
<1>7. CASE LastNumber \/ NextNumber \/ BadNumber
  <2>1. enqueueValues(<<Number(rest)>>)
    BY <1>2, <1>7 DEF LastNumber, NextNumber, BadNumber, Fail
  <2>2. QED
    BY <1>4, <2>1
<1>8. QED
  BY <1>1, <1>5, <1>6, <1>7

\* A symbol is a node of a table.
LEMMA SymbolNode ==
    ASSUME TypeOK, NEW id \in DOMAIN symbolTable.nodes
    PROVE  symbolTable.nodes[id] \in NodeSet
BY DEF TypeOK, TablesOK, IsTable

\* ProcessInstruction declares a label of data where its first value will be.
LEMMA ProcessInstructionMarks ==
    ASSUME TypeOK, Layout, CountsInv, MarksInv, ProcessInstruction
    PROVE  MarksInv'
<1> SUFFICES ASSUME createFiles', NEW id \in DOMAIN symbolTable'.nodes
             PROVE  Marks(symbolTable'.nodes[id], pc', directiveQ', instructionQ')
  BY DEF MarksInv
<1>1. createFiles /\ pc = "processLine" /\ UNCHANGED queues /\ pc' = Head(Statement(rest)).d
  BY DEF ProcessInstruction
<1>2. Len(directiveQ) \in Nat /\ Len(instructionQ) \in Nat
      /\ instructionCounter = Len(instructionQ) /\ instructionCounter \in Nat
  BY LenProperties DEF TypeOK, QueuesOK, Layout
<1>3. ASSUME id \in DOMAIN symbolTable.nodes, symbolTable'.nodes[id] = symbolTable.nodes[id]
      PROVE  Marks(symbolTable'.nodes[id], pc', directiveQ', instructionQ')
  <2>1. Marks(symbolTable.nodes[id], pc, directiveQ, instructionQ) /\ symbolTable.nodes[id] \in NodeSet
    BY <1>1, <1>3, SymbolNode DEF MarksInv
  <2>3. \/ symbolTable'.nodes[id].deciAddress < Len(instructionQ')
        \/ "INSTRUCTION" \notin symbolTable'.nodes[id].statement
    BY <1>1, <1>3, <2>1 DEF Marks, queues
  <2>4. QED
    BY <1>1, <1>3, <2>1, <2>3 DEF Marks, queues
<1>4. CASE Head(Statement(rest)).d \in {"data", "string"}
  <2>1. DeclareLabel(instructionCounter, "INSTRUCTION")
    BY <1>4 DEF ProcessInstruction
  <2>2. \/ /\ id \in DOMAIN symbolTable.nodes
           /\ symbolTable'.nodes[id] = symbolTable.nodes[id]
        \/ /\ symbolTable'.nodes[id].deciAddress = instructionCounter
           /\ symbolTable'.nodes[id].statement = {"INSTRUCTION", "COMPLETED"}
    BY <1>2, <2>1, DeclaredSymbols DEF Statements
  <2>3. QED
    BY <1>1, <1>2, <1>3, <1>4, <2>2 DEF Marks, queues
<1>5. CASE Head(Statement(rest)).d \notin {"data", "string"}
  BY <1>3, <1>5 DEF ProcessInstruction
<1>6. QED
  BY <1>4, <1>5

\* ProcessDirective declares a label of the code where it queues the first word.
LEMMA ProcessDirectiveMarks ==
    ASSUME TypeOK, CountsInv, MarksInv, ProcessDirective
    PROVE  MarksInv'
<1> SUFFICES ASSUME createFiles', NEW id \in DOMAIN symbolTable'.nodes
             PROVE  Marks(symbolTable'.nodes[id], pc', directiveQ', instructionQ')
  BY DEF MarksInv
<1> DEFINE bits == BitsOf(64 * hashGetOpCode(Head(Statement(rest)).w))
           node == Node(NoName, directiveCounter, bits, {"DIRECTIVE", "COMPLETED"})
<1>1. createFiles /\ pc = "processLine" /\ UNCHANGED instructionQ
      /\ DeclareLabel(directiveCounter, "LABEL") /\ directiveQ' = Append(directiveQ, node)
  BY DEF ProcessDirective, others
<1>2. node.deciAddress = directiveCounter /\ "DIRECTIVE" \in node.statement
      /\ node \in NodeSet
  <2>1. node \in NodeSet
    BY NodeType, WordPieces DEF TypeOK, QueuesOK, Statements
  <2>2. QED
    BY <2>1 DEF Node
<1> HIDE DEF node
<1>3. /\ Len(directiveQ) \in Nat /\ Len(directiveQ') = Len(directiveQ) + 1
      /\ \A i \in 1..Len(directiveQ) : directiveQ'[i] = directiveQ[i]
      /\ directiveQ'[Len(directiveQ) + 1] = node
      /\ Len(instructionQ) \in Nat /\ directiveCounter \in Nat
  BY <1>1, <1>2, AppendProperties, LenProperties DEF TypeOK, QueuesOK
<1>4. \/ /\ id \in DOMAIN symbolTable.nodes
         /\ symbolTable'.nodes[id] = symbolTable.nodes[id]
      \/ /\ symbolTable'.nodes[id].deciAddress = directiveCounter
         /\ symbolTable'.nodes[id].statement = {"LABEL", "COMPLETED"}
  BY <1>1, <1>3, DeclaredSymbols DEF Statements
<1>5. CASE /\ id \in DOMAIN symbolTable.nodes
           /\ symbolTable'.nodes[id] = symbolTable.nodes[id]
  <2> DEFINE symbol == symbolTable.nodes[id]
  <2>1. Marks(symbol, pc, directiveQ, instructionQ) /\ symbol \in NodeSet
    BY <1>1, <1>5, SymbolNode DEF MarksInv
  <2>2. CASE "INSTRUCTION" \in symbol.statement
    BY <1>1, <1>5, <2>1, <2>2 DEF Marks
  <2>3. CASE "INSTRUCTION" \notin symbol.statement
    <3>1. PICK i \in 1..Len(directiveQ) : /\ directiveQ[i].deciAddress = symbol.deciAddress
                                          /\ "DIRECTIVE" \in directiveQ[i].statement
      BY <2>1, <2>3 DEF Marks
    <3>2. i \in 1..Len(directiveQ') /\ directiveQ'[i] = directiveQ[i]
      BY <1>3
    <3>3. QED
      BY <1>5, <2>3, <3>1, <3>2 DEF Marks
  <2>4. QED
    BY <2>2, <2>3
<1>6. CASE /\ symbolTable'.nodes[id].deciAddress = directiveCounter
           /\ symbolTable'.nodes[id].statement = {"LABEL", "COMPLETED"}
  <2>1. Len(directiveQ) + 1 \in 1..Len(directiveQ')
    BY <1>3
  <2>2. QED
    BY <1>2, <1>3, <1>6, <2>1 DEF Marks
<1>7. QED
  BY <1>4, <1>5, <1>6

\* The symbol table changes when a statement is declared, and only then.
LEMMA SymbolTableFrame ==
    ASSUME Next, ~ProcessInstruction, ~ProcessDirective
    PROVE  UNCHANGED symbolTable
<1>1. CASE FirstStageNext
  BY <1>1 DEF FirstStageNext, ReadLine, EndOfFile, ProcessLineError, ProcessData,
     LastNumber, NextNumber, BadNumber, ProcessString, ProcessEntry, ProcessExtern,
     AddImmediateOperand, AddDirectOperand, AddRegisterOperand, OperandError,
     getToSecondOperand, validateEndOfLine, ProcessJumpNoOperands,
     ProcessJumpWithOperands, ProcessJumpError, tables
<1>2. CASE ValidationPassNext \/ WriteToFileNext \/ Returned
  BY <1>2 DEF ValidationPassNext, ValidateTables, CompleteDirectiveNode, EndValidation,
     WriteToFileNext, OpenFiles, WriteDirective, DirectivesWritten, WriteInstruction,
     WriteEntries, Returned, tables, vars
<1>3. QED
  BY <1>1, <1>2 DEF Next

\* Every step keeps the marks of an accepted source.
LEMMA MarksStep ==
    ASSUME TypeOK, Layout, CountsInv, MarksInv, Gate, Next
    PROVE  MarksInv'
<1>1. CASE ProcessInstruction \/ ProcessDirective
  BY <1>1, ProcessInstructionMarks, ProcessDirectiveMarks
<1>2. CASE ~ProcessInstruction /\ ~ProcessDirective
  <2> SUFFICES ASSUME createFiles', NEW id \in DOMAIN symbolTable.nodes
               PROVE  Marks(symbolTable.nodes[id], pc', directiveQ', instructionQ')
    BY <1>2, SymbolTableFrame DEF MarksInv
  <2>0. /\ Len(directiveQ) \in Nat /\ Len(instructionQ) \in Nat
        /\ symbolTable.nodes[id] \in NodeSet
    BY LenProperties, SymbolNode DEF TypeOK, QueuesOK
  <2>1. createFiles
    <3>1. CASE FirstStageNext
      BY <3>1, FirstStageFrames DEF FirstStageFrame
    <3>2. CASE ~FirstStageNext
      BY <3>2, Zenon DEF Next, Gate, ValidationPassNext, ValidateTables, CompleteDirectiveNode,
         EndValidation, WriteToFileNext, OpenFiles, WriteDirective, DirectivesWritten,
         WriteInstruction, WriteEntries, Returned, vars
    <3>3. QED
      BY <3>1, <3>2
  <2>2. Marks(symbolTable.nodes[id], pc, directiveQ, instructionQ)
    BY <2>1 DEF MarksInv
  <2>3. CASE FirstStageNext
    <3>1. /\ Len(directiveQ) <= Len(directiveQ') /\ Len(directiveQ') \in Nat
          /\ Len(instructionQ) <= Len(instructionQ')
          /\ \A i \in 1..Len(directiveQ) :
                 /\ directiveQ'[i].deciAddress = directiveQ[i].deciAddress
                 /\ "DIRECTIVE" \in directiveQ[i].statement =>
                       "DIRECTIVE" \in directiveQ'[i].statement
      BY <2>0, <2>3, FirstStageGrows DEF DirectivesGrow, DataGrow, Kept
    <3>2. Len(instructionQ') \in Nat
      <4>1. TypeOK'
        BY <2>3, FirstStageTypes
      <4>2. QED
        BY <4>1, LenProperties DEF TypeOK, QueuesOK
    <3>3. \/ pc \notin {"data", "number", "string"}
          \/ pc' \in {"data", "number", "string"} /\ UNCHANGED instructionQ
          \/ Len(instructionQ) < Len(instructionQ')
      BY <2>3, DataLine
    <3>4. QED
      BY <2>0, <2>2, <3>1, <3>2, <3>3, MarksKept
  <2>4. CASE CompleteDirectiveNode
    <3>1. /\ Len(directiveQ') = Len(directiveQ)
          /\ \A i \in 1..Len(directiveQ) :
                /\ directiveQ'[i].deciAddress = directiveQ[i].deciAddress
                /\ "DIRECTIVE" \in directiveQ[i].statement =>
                      "DIRECTIVE" \in directiveQ'[i].statement
      <4>1. /\ current \in 1..Len(directiveQ) /\ Len(directiveQ') = Len(directiveQ)
            /\ \A i \in 1..Len(directiveQ) : i # current => directiveQ'[i] = directiveQ[i]
            /\ directiveQ'[current].deciAddress = directiveQ[current].deciAddress
        BY <2>4, CompletedWord
      <4>2. "DIRECTIVE" \in directiveQ[current].statement =>
               "DIRECTIVE" \in directiveQ'[current].statement
        BY <2>4, <4>1, ReachedWord DEF CompleteStatement
      <4>3. QED
        BY <4>1, <4>2
    <3>2. UNCHANGED instructionQ /\ pc = "completeDirectiveQ"
      BY <2>4 DEF CompleteDirectiveNode
    <3>3. QED
      BY <2>0, <2>2, <3>1, <3>2, MarksKept
  <2>5. CASE ValidateTables \/ EndValidation \/ WriteToFileNext \/ Returned
    <3>1. /\ UNCHANGED directiveQ /\ Len(instructionQ') = Len(instructionQ)
          /\ pc \notin {"data", "number", "string"}
      <4>1. CASE ~WriteInstruction /\ pc # "done"
        BY <2>5, <4>1 DEF ValidateTables, EndValidation, WriteToFileNext, OpenFiles,
           WriteDirective, DirectivesWritten, WriteEntries, Returned, queues
      <4>2. CASE WriteInstruction
        BY <2>0, <4>2 DEF WriteInstruction
      <4>3. CASE Returned
        BY <4>3 DEF Returned, vars, queues
      <4>4. QED
        BY <2>5, <4>1, <4>2, <4>3 DEF ValidateTables, EndValidation, WriteToFileNext, OpenFiles,
           WriteDirective, DirectivesWritten, WriteInstruction, WriteEntries
    <3>2. QED
      BY <2>0, <2>2, <3>1, MarksKept
  <2>6. QED
    BY <2>3, <2>4, <2>5 DEF Next, ValidationPassNext
<1>3. QED
  BY <1>1, <1>2

-----------------------------------------------------------------------------
(* The counts of the tables. *)

\* Every step leaves a table with a count of zero empty.
LEMMA CountsStep ==
    ASSUME TypeOK, CountsInv, Next
    PROVE  CountsInv'
<1>1. CASE ProcessInstruction \/ ProcessDirective
  <2>1. UNCHANGED <<entryTable, externTable>>
    BY <1>1 DEF ProcessInstruction, ProcessDirective
  <2>2. \/ UNCHANGED symbolTable
        \/ DeclareLabel(instructionCounter, "INSTRUCTION")
        \/ DeclareLabel(directiveCounter, "LABEL")
    BY <1>1 DEF ProcessInstruction, ProcessDirective
  <2>3. instructionCounter \in Nat /\ directiveCounter \in Nat
    BY DEF TypeOK, QueuesOK
  <2>4. hashIsEmptyTable(symbolTable') => DOMAIN symbolTable'.nodes = {}
    BY <2>2, <2>3, DeclaredSymbols DEF Statements, CountsInv
  <2>5. QED
    BY <2>1, <2>4 DEF CountsInv
<1>2. CASE ProcessEntry \/ ProcessExtern
  <2> DEFINE name == Head(skipWhiteSpace(rest)).w
  <2>1. /\ UNCHANGED symbolTable
        /\ \/ UNCHANGED entryTable
           \/ entryTable' = hashInsert(entryTable, name, 0, {})
        /\ \/ UNCHANGED externTable
           \/ externTable' = hashInsert(externTable, name, 0, {"EXTERN", "COMPLETED"})
    BY <1>2 DEF ProcessEntry, ProcessExtern
  <2>2. /\ \/ UNCHANGED entryTable
           \/ ~hashIsEmptyTable(entryTable')
        /\ \/ UNCHANGED externTable
           \/ ~hashIsEmptyTable(externTable')
    BY <2>1, CountedInsert DEF TypeOK, TablesOK
  <2>3. QED
    BY <2>1, <2>2 DEF CountsInv
<1>3. CASE ValidateTables
  <2>1. /\ UNCHANGED <<symbolTable, externTable>>
        /\ entryTable' = EntriesAddressed \/ UNCHANGED entryTable
    BY <1>3 DEF ValidateTables
  <2>2. /\ EntriesAddressed.count = entryTable.count
        /\ DOMAIN EntriesAddressed.nodes = DOMAIN entryTable.nodes
    BY DEF EntriesAddressed
  <2>3. QED
    BY <2>1, <2>2 DEF CountsInv, hashIsEmptyTable
<1>4. CASE UNCHANGED tables
  BY <1>4 DEF CountsInv, tables, hashIsEmptyTable
<1>5. ProcessInstruction \/ ProcessDirective \/ ProcessEntry \/ ProcessExtern \/ ValidateTables
      \/ UNCHANGED tables
  <2>1. CASE FirstStageNext
    BY <2>1 DEF FirstStageNext, ReadLine, EndOfFile, ProcessLineError, ProcessData,
       LastNumber, NextNumber, BadNumber, ProcessString,
       AddImmediateOperand, AddDirectOperand, AddRegisterOperand, OperandError,
       getToSecondOperand, validateEndOfLine, ProcessJumpNoOperands,
       ProcessJumpWithOperands, ProcessJumpError
  <2>2. CASE ValidationPassNext \/ WriteToFileNext \/ Returned
    BY <2>2 DEF ValidationPassNext, CompleteDirectiveNode, EndValidation,
       WriteToFileNext, OpenFiles, WriteDirective, DirectivesWritten, WriteInstruction,
       WriteEntries, Returned, vars
  <2>3. QED
    BY <2>1, <2>2 DEF Next
<1>6. QED
  BY <1>1, <1>2, <1>3, <1>4, <1>5

-----------------------------------------------------------------------------
(* The words that refer to symbols. *)

\* Every word of the first stage is still unresolved.
LEMMA FirstStageResolution ==
    ASSUME TypeOK, ResolutionInv, FirstStageNext
    PROVE  ResolutionInv'
<1>1. \A i \in 1..Len(directiveQ) : Unresolved(directiveQ[i])
  BY FirstStageFrames DEF FirstStageFrame, ResolutionInv
<1>2. Len(directiveQ) \in Nat /\ DirectivesGrow
  BY FirstStageGrows, LenProperties DEF TypeOK, QueuesOK
<1>3. \A i \in 1..Len(directiveQ') : Unresolved(directiveQ'[i])
  BY <1>1, <1>2 DEF DirectivesGrow, Kept, Queued, Unresolved
<1>4. (\A i \in 1..Len(directiveQ) : WordResolved(directiveQ[i]))'
  BY <1>3 DEF Unresolved, WordResolved
<1>5. pc' \notin WritePcs \cup {"completeDirectiveQ", "done"}
  BY FirstStageFrames DEF FirstStageFrame, FirstStagePcs, WritePcs
<1>6. ReferencesResolved'
  BY <1>4, <1>5 DEF ReferencesResolved
<1>7. QED
  BY <1>3, <1>6 DEF ResolutionInv, Unresolved, isComplete

\* Once the code is read, the final address of a symbol is its place in the image.
LEMMA FinalPlace ==
    ASSUME TypeOK, Layout, NEW symbol \in NodeSet
    PROVE  FinalAddress(symbol) = PlaceInImage(symbol)
BY LenProperties DEF Layout, FinalAddress, PlaceInImage, TypeOK, QueuesOK, NodeSet, FirstAddress

\* The tables that pass the validation give every entry its place.
LEMMA EntriesGetPlaces ==
    ASSUME TypeOK, Layout, CountsInv, ValidateTables, createFiles',
           NEW id \in DOMAIN entryTable'.nodes
    PROVE  EntryPlaced(id)'
<1>1. isValidValidationPass /\ UNCHANGED <<symbolTable, directiveQ>>
  BY Zenon DEF ValidateTables, queues
<1>2. /\ entryTable' = EntriesAddressed \/ UNCHANGED entryTable
      /\ DOMAIN EntriesAddressed.nodes = DOMAIN entryTable.nodes
  BY DEF ValidateTables, EntriesAddressed
<1>3. id \in DOMAIN entryTable.nodes
  BY <1>2
<1>4. ~hashIsEmptyTable(entryTable)
  BY <1>3 DEF CountsInv
<1>5. BothPresent(entryTable, symbolTable)
  BY <1>1, <1>4 DEF isValidValidationPass, BothPresent
<1>6. Defined(id) /\ entryTable' = EntriesAddressed
  BY <1>1, <1>3, <1>5 DEF isValidValidationPass, validateTables, validateEntryTable,
     ValidateTables
<1>7. entryTable'.nodes[id].deciAddress = FinalAddress(symbolTable.nodes[id])
  <2> DEFINE address == FinalAddress(symbolTable.nodes[id])
  <2>1. entryTable.nodes[id] \in NodeSet
    BY <1>3 DEF TypeOK, TablesOK, IsTable
  <2>2. entryTable'.nodes[id] = [entryTable.nodes[id] EXCEPT !.deciAddress = address]
    BY <1>3, <1>6 DEF EntriesAddressed
  <2> HIDE DEF address
  <2>3. QED
    BY <2>1, <2>2 DEF NodeSet, address
<1>8. FinalAddress(symbolTable.nodes[id]) = PlaceInImage(symbolTable.nodes[id])
  BY <1>6, FinalPlace DEF Defined, TypeOK, TablesOK, IsTable
<1>9. QED
  BY <1>1, <1>6, <1>7, <1>8 DEF EntryPlaced, PlaceInImage, Defined

\* Validating the tables.
LEMMA ValidateTablesResolution ==
    ASSUME TypeOK, Layout, CountsInv, ResolutionInv, ValidateTables
    PROVE  ResolutionInv'
<1>1. UNCHANGED <<directiveQ, symbolTable, externTable>> /\ pc = "validationPass"
  BY DEF ValidateTables, queues
<1>2. \A i \in 1..Len(directiveQ') : Unresolved(directiveQ'[i])
  BY <1>1 DEF ResolutionInv
<1>3. (\A i \in 1..Len(directiveQ) : WordResolved(directiveQ[i]))'
  BY <1>2 DEF Unresolved, WordResolved
<1>4. createFiles' => \A id \in DOMAIN entryTable'.nodes : EntryPlaced(id)'
  BY EntriesGetPlaces
<1>5. QED
  BY <1>1, <1>2, <1>3, <1>4 DEF ResolutionInv, ReferencesResolved, Unresolved, isComplete,
     FirstStagePcs, ValidateTables

\* Completing a word.
LEMMA CompleteDirectiveNodeResolution ==
    ASSUME TypeOK, Layout, OperandsInv, ResolutionInv, CompleteDirectiveNode
    PROVE  ResolutionInv'
<1> DEFINE old == directiveQ[current]
           new == directiveQ'[current]
<1>1. UNCHANGED <<tables, pc, createFiles>> /\ pc = "completeDirectiveQ"
  BY DEF CompleteDirectiveNode
<1>2. /\ current \in 1..Len(directiveQ) /\ Len(directiveQ') = Len(directiveQ)
      /\ \A i \in 1..Len(directiveQ) : i # current => directiveQ'[i] = directiveQ[i]
      /\ new.label = old.label
  BY CompletedWord
<1>3. UNCHANGED directiveQ \/ (~isComplete(old) /\ Unresolved(old) /\ old.label \in Names
                                /\ old.binaryCode = {})
  BY <1>2, ReachedWord DEF ResolutionInv, OperandsInv, PendingWords
<1>4. new = old \/ (new.label \in Names /\ isComplete(new))
  BY <1>2, <1>3, ReachedWord DEF CompleteStatement, isComplete
<1>5. WordResolved(new)
  <2>1. CASE new = old
    BY <1>2, <2>1 DEF ResolutionInv, ReferencesResolved
  <2>2. CASE /\ HasName(symbolTable, old.label)
             /\ new.binaryCode = old.binaryCode \cup
                   BitsOf(RELOCATABLE + 4 * FinalAddress(hashSearch(symbolTable, old.label)))
             /\ new.statement = CompleteStatement(old, "LABEL")
             /\ old.binaryCode = {} /\ Unresolved(old)
    <3> DEFINE symbol == hashSearch(symbolTable, old.label)
    <3>1. symbol \in NodeSet
      BY <2>2 DEF HasName, hashSearch, TypeOK, TablesOK, IsTable
    <3>2. FinalAddress(symbol) = PlaceInImage(symbol)
      BY <3>1, FinalPlace
    <3>3. "EXTERN" \notin new.statement
      BY <2>2 DEF CompleteStatement, Unresolved
    <3>4. new.binaryCode = BitsOf(RELOCATABLE + 4 * PlaceInImage(symbol))
      BY <2>2, <3>2
    <3>5. QED
      BY <1>2, <2>2, <3>3, <3>4 DEF WordResolved
  <2>3. CASE /\ ~HasName(symbolTable, old.label) /\ HasName(externTable, old.label)
             /\ new.binaryCode = BitsOf(EXTERNAL)
             /\ new.statement = CompleteStatement(old, "EXTERN") /\ Unresolved(old)
    <3>1. "LABEL" \notin new.statement
      BY <2>3 DEF CompleteStatement, Unresolved
    <3>2. QED
      BY <1>2, <2>3, <3>1 DEF WordResolved
  <2>4. QED
    BY <1>3, <2>1, <2>2, <2>3, ReachedWord
<1>6. (\A i \in 1..Len(directiveQ) : WordResolved(directiveQ[i]))'
  <2>1. \A i \in 1..Len(directiveQ') : WordResolved(directiveQ'[i])
    BY <1>2, <1>5 DEF ResolutionInv, ReferencesResolved
  <2>2. QED
    BY <1>1, <1>2, <2>1 DEF WordResolved, PlaceInImage, HasName, hashSearch, tables
<1>7. ASSUME createFiles', NEW id \in DOMAIN entryTable'.nodes
      PROVE  EntryPlaced(id)'
  BY <1>1, <1>2, <1>7 DEF ResolutionInv, ReferencesResolved, EntryPlaced, PlaceInImage, tables
<1>8. QED
  BY <1>1, <1>2, <1>4, <1>6, <1>7
  DEF ResolutionInv, ReferencesResolved, FirstStagePcs, Unresolved, isComplete

\* Every step of the three passes.
LEMMA ResolutionStep ==
    ASSUME TypeOK, Gate, Layout, OperandsInv, CountsInv, ResolutionInv, Next
    PROVE  ResolutionInv'
<1>1. CASE FirstStageNext \/ ValidateTables \/ CompleteDirectiveNode
  BY <1>1, FirstStageResolution, ValidateTablesResolution, CompleteDirectiveNodeResolution
<1>2. CASE EndValidation \/ WriteToFileNext \/ Returned
  <2>1. /\ UNCHANGED <<directiveQ, tables>>
        /\ pc \in WritePcs \cup {"completeDirectiveQ", "done"}
        /\ pc' \in WritePcs \cup {"done"}
        /\ createFiles' => createFiles
    <3>1. CASE EndValidation
      BY <3>1, Zenon DEF EndValidation, Gate, queues, WritePcs
    <3>2. CASE WriteToFileNext \/ Returned
      BY <3>2 DEF WriteToFileNext, OpenFiles, WriteDirective, DirectivesWritten,
         WriteInstruction, WriteEntries, Returned, vars, queues, WritePcs
    <3>3. QED
      BY <1>2, <3>1, <3>2
  <2>2. ReferencesResolved'
    BY <2>1 DEF ResolutionInv, ReferencesResolved, WordResolved, EntryPlaced, PlaceInImage,
       HasName, hashSearch, tables
  <2>3. pc' \notin FirstStagePcs \cup {"validationPass"}
    BY <2>1 DEF FirstStagePcs, WritePcs
  <2>4. QED
    BY <2>1, <2>2, <2>3 DEF ResolutionInv, Unresolved, isComplete
<1>3. QED
  BY <1>1, <1>2 DEF Next, ValidationPassNext

-----------------------------------------------------------------------------

\* The labels, the counts and the resolved words, together.
LEMMA SymbolsInvariant == Spec => []SymbolsInv
<1>1. Init => SymbolsInv
  BY DEF Init, SymbolsInv, MarksInv, CountsInv, EmptyTable, ResolutionInv, ReferencesResolved,
         WritePcs
<1>2. TypeOK /\ Gate /\ Layout /\ OperandsInv /\ SymbolsInv /\ [Next]_vars => SymbolsInv'
  <2> SUFFICES ASSUME TypeOK, Gate, Layout, OperandsInv, SymbolsInv, [Next]_vars
               PROVE  SymbolsInv'
    OBVIOUS
  <2>1. CASE Next
    BY <2>1, MarksStep, CountsStep, ResolutionStep DEF SymbolsInv
  <2>2. CASE UNCHANGED vars
    <3>1. UNCHANGED <<pc, directiveQ, instructionQ, symbolTable, entryTable, externTable,
                      createFiles>>
      BY <2>2 DEF vars, queues, tables
    <3>2. MarksInv'
      BY <3>1 DEF SymbolsInv, MarksInv
    <3>3. CountsInv'
      BY <3>1 DEF SymbolsInv, CountsInv
    <3>4. ReferencesResolved'
      BY <3>1 DEF SymbolsInv, ResolutionInv, ReferencesResolved, WordResolved, EntryPlaced,
         PlaceInImage, HasName, hashSearch
    <3>5. QED
      BY <3>1, <3>2, <3>3, <3>4 DEF SymbolsInv, ResolutionInv, Unresolved, isComplete
  <2>3. QED
    BY <2>1, <2>2
<1>3. QED
  BY <1>1, <1>2, TypeCorrect, GateInvariant, LayoutCorrect, OperandsInvariant, PTL DEF Spec

\* For every source, a label of an accepted one is the address of the first word
\* of an instruction, or the index of a word of data: no line fails between
\* taking the counter and queueing the word without rejecting the source.
THEOREM LabelsAreStatements == Spec => []LabelsMarkStatements
<1>1. Gate /\ SymbolsInv => LabelsMarkStatements
  <2> SUFFICES ASSUME Gate, SymbolsInv, pc \in WritePcs \cup {"completeDirectiveQ"},
                      NEW id \in DOMAIN symbolTable.nodes
               PROVE  LET symbol == symbolTable.nodes[id]
                      IN  IF "INSTRUCTION" \in symbol.statement
                          THEN symbol.deciAddress < Len(instructionQ)
                          ELSE \E i \in 1..Len(directiveQ) :
                                  /\ directiveQ[i].deciAddress = symbol.deciAddress
                                  /\ "DIRECTIVE" \in directiveQ[i].statement
    BY DEF LabelsMarkStatements
  <2>1. createFiles /\ pc \notin {"data", "number", "string"}
    BY DEF Gate, WritePcs
  <2>2. Marks(symbolTable.nodes[id], pc, directiveQ, instructionQ)
    BY <2>1 DEF SymbolsInv, MarksInv
  <2>3. QED
    BY <2>1, <2>2 DEF Marks
<1>2. QED
  BY <1>1, GateInvariant, SymbolsInvariant, PTL

\* For every source, however far the reference is from the definition and
\* whichever comes first, a word with a label holds the place of the label's
\* statement in the image or the external mark, and an entry has its place.
THEOREM ReferencesAreResolved == Spec => []ReferencesResolved
<1>1. SymbolsInv => ReferencesResolved
  BY DEF SymbolsInv, ResolutionInv
<1>2. QED
  BY <1>1, SymbolsInvariant, PTL
=============================================================================
