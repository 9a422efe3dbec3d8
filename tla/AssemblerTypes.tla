--------------------------- MODULE AssemblerTypes ---------------------------
(***************************************************************************)
(* Type correctness of the assembler, for every source, every table of     *)
(* reserved words and every way the hash tables identify names.            *)
(***************************************************************************)
EXTENDS Assembler, SequenceTheorems, TLAPS

-----------------------------------------------------------------------------
(* Tokens. *)

\* A token's kind decides its other field.
LEMMA TokenFields ==
    \A token \in Token :
        /\ token.t \in {"decl", "id", "digits"} => token.w \in Names
        /\ token.t = "dot" => token.d \in {"data", "string", "entry", "extern", "unknown"}
        /\ token.t = "str" => token.chars \in Seq(0..127)
BY DEF Token

\* Scanning only drops tokens from the front of a line.
LEMMA ScanTypes ==
    ASSUME NEW s \in Seq(Token)
    PROVE  /\ skipWhiteSpace(s) \in Seq(Token)
           /\ s # <<>> => Head(s) \in Token /\ Tail(s) \in Seq(Token)
BY DEF skipWhiteSpace

\* A declared label is a name, and the statement behind it a line.
LEMMA StatementTypes ==
    ASSUME NEW s \in Seq(Token)
    PROVE  /\ Statement(s) \in Seq(Token)
           /\ HasLabel(s) => Label(s) \in Names
<1> DEFINE t == skipWhiteSpace(s)
<1>1. t \in Seq(Token)
  BY ScanTypes
<1>2. HasLabel(s) => /\ t # <<>> /\ Head(t) \in Token /\ Head(t).t = "decl"
                     /\ Tail(t) \in Seq(Token)
  BY <1>1 DEF HasLabel, Starts
<1>3. HasLabel(s) => Label(s) \in Names
  BY <1>2, TokenFields DEF Label
<1>4. Statement(s) \in Seq(Token)
  BY <1>2, ScanTypes DEF Statement
<1>5. QED
  BY <1>3, <1>4

-----------------------------------------------------------------------------
(* Words and queues. *)

\* Every piece a word is built from lies within its 14 bits.
LEMMA WordPieces ==
    /\ \A v : BitsOf(v) \subseteq WordBits
    /\ \A r \in 0..7, state \in {SOURCE, DESTINATION} : RegisterBits(r, state) \subseteq WordBits
    /\ \A a, state : updateQnodeBinCode(a, state) \subseteq WordBits
    /\ \A a, state : updateJumpWithOperBinCode(a, state) \subseteq WordBits
<1>1. \A v : BitsOf(v) \subseteq WordBits
  BY DEF BitsOf
<1>2. \A a, state : updateQnodeBinCode(a, state) \subseteq WordBits
  BY DEF updateQnodeBinCode, WordBits
<1>3. \A a, state : updateJumpWithOperBinCode(a, state) \subseteq WordBits
  BY DEF updateJumpWithOperBinCode, WordBits
<1>4. ASSUME NEW r \in 0..7, NEW state \in {SOURCE, DESTINATION}
      PROVE  RegisterBits(r, state) \subseteq WordBits
  BY DEF RegisterBits, registerToBinaryCode, WordBits, SOURCE, DESTINATION
<1>5. QED
  BY <1>1, <1>2, <1>3, <1>4

\* A node is well typed when its fields are.
LEMMA NodeType ==
    ASSUME NEW label \in Names \cup {NoName}, NEW deciAddress \in Nat,
           NEW bits \in SUBSET WordBits, NEW statement \in SUBSET Statements
    PROVE  Node(label, deciAddress, bits, statement) \in NodeSet
BY DEF Node, NodeSet

\* Adding bits to a word of a queue changes that word's bits and nothing else.
LEMMA AddedBits ==
    ASSUME NEW queue \in Seq(NodeSet), NEW node \in Nat, NEW bits \in SUBSET WordBits
    PROVE  /\ addToBinaryCode(queue, node, bits) \in Seq(NodeSet)
           /\ Len(addToBinaryCode(queue, node, bits)) = Len(queue)
           /\ \A i \in 1..Len(queue) :
                 addToBinaryCode(queue, node, bits)[i] =
                     IF i = node THEN [queue[i] EXCEPT !.binaryCode = @ \cup bits] ELSE queue[i]
<1> DEFINE new     == addToBinaryCode(queue, node, bits)
           more(n) == [n EXCEPT !.binaryCode = @ \cup bits]
<1>0. new = [queue EXCEPT ![node] = more(queue[node])]
  BY DEF addToBinaryCode
<1>1. \A i \in 1..Len(queue) : new[i] = IF i = node THEN more(queue[i]) ELSE queue[i]
  <2> HIDE DEF new, more
  <2> QED
    BY <1>0
<1>2. \A i \in 1..Len(queue) : queue[i] \in NodeSet
  OBVIOUS
<1>3. \A n \in NodeSet : [n EXCEPT !.binaryCode = @ \cup bits] \in NodeSet
  BY DEF NodeSet
<1>4. \A i \in 1..Len(queue) : new[i] \in NodeSet
  BY <1>1, <1>2, <1>3
<1>5. new \in Seq(NodeSet) /\ Len(new) = Len(queue)
  <2>1. CASE node \in 1..Len(queue)
    <3> HIDE DEF new, more
    <3>1. more(queue[node]) \in NodeSet
      BY <1>2, <1>3, <2>1 DEF more
    <3>2. QED
      BY <1>0, <2>1, <3>1, ExceptSeq
  <2>2. CASE node \notin 1..Len(queue)
    <3> HIDE DEF new, more
    <3>1. new = queue
      BY <1>0, <2>2, LenProperties
    <3>2. QED
      BY <3>1
  <2>3. QED
    BY <2>1, <2>2
<1>6. QED
  BY <1>1, <1>5

\* Any change of a word that keeps it a word keeps the queue a queue.
LEMMA ChangedWord ==
    ASSUME NEW queue \in Seq(NodeSet), NEW i \in 1..Len(queue), NEW node \in NodeSet
    PROVE  /\ [queue EXCEPT ![i] = node] \in Seq(NodeSet)
           /\ Len([queue EXCEPT ![i] = node]) = Len(queue)
           /\ \A j \in 1..Len(queue) :
                 [queue EXCEPT ![i] = node][j] = IF j = i THEN node ELSE queue[j]
BY ExceptSeq

-----------------------------------------------------------------------------
(* Tables. *)

\* An insertion files the new name under its identity, and leaves alone every
\* node that was there.
LEMMA Inserted ==
    ASSUME NEW table, IsTable(table), NEW name \in Names, NEW deciAddress \in Nat,
           NEW statement \in SUBSET Statements
    PROVE  LET new == hashInsert(table, name, deciAddress, statement)
           IN  /\ IsTable(new)
               /\ DOMAIN new.nodes = DOMAIN table.nodes \cup {Ident[name]}
               /\ \A id \in DOMAIN table.nodes : new.nodes[id] = table.nodes[id]
               /\ Ident[name] \notin DOMAIN table.nodes =>
                     new.nodes[Ident[name]] = Node(name, deciAddress, {}, statement)
<1> DEFINE new == hashInsert(table, name, deciAddress, statement)
<1>1. /\ DOMAIN new.nodes = DOMAIN table.nodes \cup {Ident[name]}
      /\ \A id \in DOMAIN new.nodes :
            new.nodes[id] = IF id \in DOMAIN table.nodes THEN table.nodes[id]
                            ELSE Node(name, deciAddress, {}, statement)
      /\ new.count = table.count + 1
  BY DEF hashInsert
<1>2. Node(name, deciAddress, {}, statement) \in NodeSet
  BY NodeType
<1>3. Node(name, deciAddress, {}, statement).label = name
  BY DEF Node
<1>4. IsTable(new)
  <2> HIDE DEF new
  <2> QED
    BY <1>1, <1>2, <1>3 DEF IsTable
<1>5. QED
  BY <1>1, <1>4

\* A reserved word has an opcode.
LEMMA OpcodeType ==
    ASSUME NEW name, hashIsReservedKeyWord(name)
    PROVE  hashGetOpCode(name) \in 0..15
BY KeywordsAssumption DEF hashIsReservedKeyWord, hashGetOpCode, Keywords

-----------------------------------------------------------------------------
(* The end of a line, whatever it brought. *)

\* Ending a line resets the locals and keeps the types of verdict and control.
LEMMA EndLineTypes ==
    ASSUME ControlOK, LocalsOK, NEW ok \in BOOLEAN, NEW printed \in BOOLEAN,
           EndLine(ok, printed)
    PROVE  /\ pc' = "read" /\ rest' \in Seq(Token)
           /\ createFiles' \in BOOLEAN /\ reported' \in BOOLEAN
           /\ LocalsOK'
<1>1. createFiles' \in BOOLEAN /\ reported' \in BOOLEAN
  BY Zenon DEF EndLine, ControlOK
<1>2. rest' \in Seq(Token)
  BY EmptySeq DEF EndLine
<1>3. LocalsOK'
  <2>1. opCode' \in 0..15 /\ directiveNode' \in Nat /\ opRegisterCount' \in {0, 1}
    BY DEF EndLine
  <2>2. jumpWithOperand' \in BOOLEAN
    BY Zenon DEF EndLine
  <2>3. QED
    BY <2>1, <2>2 DEF LocalsOK
<1>4. QED
  BY <1>1, <1>2, <1>3 DEF EndLine

\* The cases of an ended line that leave the queues and the tables alone.
LEMMA EndedLine ==
    ASSUME TypeOK, NEW ok \in BOOLEAN, NEW printed \in BOOLEAN, EndLine(ok, printed),
           QueuesOK', TablesOK', UNCHANGED others
    PROVE  TypeOK'
<1>1. /\ pc' = "read" /\ rest' \in Seq(Token) /\ LocalsOK'
      /\ createFiles' \in BOOLEAN /\ reported' \in BOOLEAN
  BY EndLineTypes DEF TypeOK
<1>2. ControlOK' /\ OutputsOK'
  BY <1>1 DEF TypeOK, ControlOK, OutputsOK, others, outputs, Pcs, FirstStagePcs
<1>3. QED
  BY <1>1, <1>2 DEF TypeOK

\* What is left alone stays well typed.
LEMMA UnchangedTypes ==
    ASSUME TypeOK
    PROVE  /\ UNCHANGED locals => LocalsOK'
           /\ UNCHANGED queues => QueuesOK'
           /\ UNCHANGED tables => TablesOK'
           /\ UNCHANGED outputs => OutputsOK'
           /\ UNCHANGED others => OutputsOK' /\ UNCHANGED <<program, current, completed>>
BY DEF TypeOK, locals, queues, tables, outputs, others, LocalsOK, QueuesOK, TablesOK,
       OutputsOK, IsTable

-----------------------------------------------------------------------------
(* The first stage. *)

\* Declaring a label keeps the symbol table a table.
LEMMA DeclareLabelTypes ==
    ASSUME TypeOK, NEW counter \in Nat, NEW statement \in Statements,
           DeclareLabel(counter, statement)
    PROVE  IsTable(symbolTable') /\ reported' \in BOOLEAN
<1>1. CASE HasLabel(rest)
  <2>1. Label(rest) \in Names
    BY <1>1, StatementTypes DEF TypeOK, ControlOK
  <2>2. {statement, "COMPLETED"} \in SUBSET Statements
    BY DEF Statements
  <2>3. symbolTable' = hashInsert(symbolTable, Label(rest), counter, {statement, "COMPLETED"})
    BY <1>1 DEF DeclareLabel
  <2>4. IsTable(symbolTable')
    BY <2>1, <2>2, <2>3, Inserted DEF TypeOK, TablesOK
  <2>5. reported' \in BOOLEAN
    BY <1>1, Zenon DEF DeclareLabel, TypeOK, ControlOK
  <2>6. QED
    BY <2>4, <2>5
<1>2. CASE ~HasLabel(rest)
  BY <1>2 DEF DeclareLabel, TypeOK, ControlOK, TablesOK
<1>3. QED
  BY <1>1, <1>2

\* Reading a line keeps the types: what is left to read is a token sequence.
LEMMA ReadLineTypes ==
    ASSUME TypeOK, NEW l \in Lines, ReadLine(l)
    PROVE  TypeOK'
<1>1. l.text \in Seq(Token)
  BY LinesAssumption
<1>2. /\ pc' \in Pcs /\ rest' \in Seq(Token)
      /\ createFiles' \in BOOLEAN /\ reported' \in BOOLEAN
  <2>1. CASE UNCHANGED <<pc, rest, createFiles, reported>>
    BY <2>1 DEF TypeOK, ControlOK
  <2>2. CASE UNCHANGED <<pc, rest>> /\ createFiles' = FALSE /\ reported' = TRUE
    <3>1. pc' \in Pcs /\ rest' \in Seq(Token)
      BY <2>2 DEF TypeOK, ControlOK
    <3>2. QED
      BY <2>2, <3>1, Zenon
  <2>3. CASE /\ rest' = l.text /\ pc' = "processLine"
             /\ UNCHANGED <<createFiles, reported>>
    BY <1>1, <2>3 DEF TypeOK, ControlOK, Pcs, FirstStagePcs
  <2>4. QED
    BY <2>1, <2>2, <2>3 DEF ReadLine
<1>3. program' \in Seq(Lines)
  BY DEF ReadLine, TypeOK, ControlOK
<1>4. LocalsOK' /\ QueuesOK' /\ TablesOK' /\ OutputsOK' /\ UNCHANGED <<current, completed>>
  BY UnchangedTypes DEF ReadLine
<1>5. pc' \in {"read", "processLine"}
  BY DEF ReadLine
<1>6. QED
  BY <1>2, <1>3, <1>4, <1>5 DEF TypeOK, ControlOK

\* The end of the file keeps the types.
LEMMA EndOfFileTypes ==
    ASSUME TypeOK, EndOfFile
    PROVE  TypeOK'
<1>1. LocalsOK' /\ QueuesOK' /\ TablesOK' /\ OutputsOK'
  BY UnchangedTypes DEF EndOfFile
<1>2. ControlOK'
  BY DEF EndOfFile, TypeOK, ControlOK, Pcs
<1>3. QED
  BY <1>1, <1>2 DEF TypeOK, EndOfFile

\* ProcessInstruction keeps the types: the handler it selects exists.
LEMMA ProcessInstructionTypes ==
    ASSUME TypeOK, ProcessInstruction
    PROVE  TypeOK'
<1> DEFINE s == Statement(rest)
<1>1. s \in Seq(Token) /\ s # <<>> /\ Head(s) \in Token /\ Tail(s) \in Seq(Token)
  BY StatementTypes, ScanTypes DEF ProcessInstruction, Instruction, Starts, TypeOK, ControlOK
<1>2. Head(s).d \in {"data", "string", "entry", "extern"}
  BY <1>1, TokenFields DEF ProcessInstruction, Instruction, Starts
<1>3. IsTable(symbolTable') /\ reported' \in BOOLEAN
  <2>1. CASE Head(s).d \in {"data", "string"}
    BY <2>1, DeclareLabelTypes DEF ProcessInstruction, TypeOK, QueuesOK, Statements
  <2>2. CASE Head(s).d \notin {"data", "string"}
    BY <2>2 DEF ProcessInstruction, TypeOK, TablesOK, ControlOK
  <2>3. QED
    BY <2>1, <2>2
<1>4. LocalsOK' /\ QueuesOK' /\ OutputsOK' /\ UNCHANGED <<program, current, completed>>
  BY UnchangedTypes DEF ProcessInstruction
<1>5. TablesOK'
  BY <1>3 DEF ProcessInstruction, TypeOK, TablesOK, IsTable
<1>6. pc' \in {"data", "string", "entry", "extern"} /\ rest' \in Seq(Token)
  BY <1>1, <1>2 DEF ProcessInstruction
<1>7. ControlOK'
  BY <1>3, <1>4, <1>6 DEF ProcessInstruction, TypeOK, ControlOK, Pcs, FirstStagePcs
<1>8. QED
  BY <1>4, <1>5, <1>6, <1>7 DEF TypeOK

\* An appended, well typed word keeps the queue of directives a queue.
LEMMA AppendedWord ==
    ASSUME QueuesOK, NEW queue \in Seq(NodeSet), NEW node \in NodeSet,
           enqueueWord(queue, node)
    PROVE  QueuesOK'
<1>1. directiveQ' \in Seq(NodeSet)
  BY AppendProperties DEF enqueueWord
<1>2. QED
  BY <1>1 DEF enqueueWord, QueuesOK

\* ProcessDirective keeps the types: the opcode found is one of 0 to 15.
LEMMA ProcessDirectiveTypes ==
    ASSUME TypeOK, ProcessDirective
    PROVE  TypeOK'
<1> DEFINE s  == Statement(rest)
           op == hashGetOpCode(Head(s).w)
<1>1. s \in Seq(Token) /\ s # <<>> /\ Tail(s) \in Seq(Token)
  BY StatementTypes, ScanTypes DEF ProcessDirective, Directive, Starts, TypeOK, ControlOK
<1>2. op \in 0..15
  BY OpcodeType DEF ProcessDirective, Directive
<1>3. pc' \in {"jump", "source", "destination", "endOfLine"}
  <2> HIDE DEF op, s
  <2> QED
    BY <1>2 DEF ProcessDirective, getArity, op, s
<1>4. IsTable(symbolTable') /\ reported' \in BOOLEAN
  BY DeclareLabelTypes DEF ProcessDirective, TypeOK, QueuesOK, Statements
<1>5. QueuesOK'
  <2> DEFINE node == Node(NoName, directiveCounter, BitsOf(64 * op), {"DIRECTIVE", "COMPLETED"})
  <2>1. node \in NodeSet
    BY NodeType, WordPieces DEF TypeOK, QueuesOK, Statements
  <2>2. directiveQ' \in Seq(NodeSet)
    BY <2>1, AppendProperties DEF ProcessDirective, TypeOK, QueuesOK
  <2>3. QED
    BY <2>2 DEF ProcessDirective, TypeOK, QueuesOK
<1>6. LocalsOK'
  BY <1>2 DEF ProcessDirective, TypeOK, LocalsOK, QueuesOK
<1>7. TablesOK'
  BY <1>4 DEF ProcessDirective, TypeOK, TablesOK, IsTable
<1>8. OutputsOK' /\ UNCHANGED <<program, current, completed>>
  BY UnchangedTypes DEF ProcessDirective
<1>9. ControlOK'
  BY <1>1, <1>3, <1>4, <1>8 DEF ProcessDirective, TypeOK, ControlOK, Pcs, FirstStagePcs
<1>10. QED
  BY <1>3, <1>5, <1>6, <1>7, <1>8, <1>9 DEF TypeOK

\* ProcessLineError keeps the types.
LEMMA ProcessLineErrorTypes ==
    ASSUME TypeOK, ProcessLineError
    PROVE  TypeOK'
<1>1. (~IsLoneLabel(rest)) \in BOOLEAN
  BY Zenon
<1>2. QueuesOK' /\ TablesOK'
  BY UnchangedTypes DEF ProcessLineError
<1>3. QED
  BY <1>1, <1>2, EndedLine DEF ProcessLineError

-----------------------------------------------------------------------------
(* .data, .string, .entry and .extern. *)

\* Values become words of the data queue, one after the other.
LEMMA EnqueuedTypes ==
    ASSUME QueuesOK, NEW S, NEW values \in Seq(S)
    PROVE  /\ Enqueued(values) \in Seq(NodeSet)
           /\ Len(Enqueued(values)) = Len(instructionQ) + Len(values)
           /\ \A i \in 1..Len(instructionQ) : Enqueued(values)[i] = instructionQ[i]
           /\ \A i \in 1..Len(values) :
                 Enqueued(values)[Len(instructionQ) + i].deciAddress = instructionCounter + i - 1
<1> DEFINE word(i) == Node(NoName, instructionCounter + i - 1, BitsOf(values[i]),
                           {"VALUE", "COMPLETED"})
           words   == [i \in 1..Len(values) |-> word(i)]
<1>1. \A i \in 1..Len(values) : word(i) \in NodeSet /\ word(i).deciAddress = instructionCounter + i - 1
  <2> SUFFICES ASSUME NEW i \in 1..Len(values)
               PROVE  word(i) \in NodeSet /\ word(i).deciAddress = instructionCounter + i - 1
    OBVIOUS
  <2>1. instructionCounter + i - 1 \in Nat
    BY LenProperties DEF QueuesOK
  <2>2. word(i) \in NodeSet
    BY <2>1, NodeType, WordPieces DEF Statements
  <2>3. QED
    BY <2>2 DEF Node
<1>2. words \in Seq(NodeSet) /\ Len(words) = Len(values)
  <2> HIDE DEF word
  <2>1. words \in [1..Len(values) -> NodeSet]
    BY <1>1
  <2>2. Len(values) \in Nat
    BY LenProperties
  <2>3. QED
    BY <2>1, <2>2, SeqDef
<1>3. Enqueued(values) = instructionQ \o words
  BY DEF Enqueued
<1>4. \A i \in 1..Len(values) : words[i] = word(i)
  OBVIOUS
<1>5. QED
  <2> HIDE DEF word, words
  <2>1. /\ Enqueued(values) \in Seq(NodeSet)
        /\ Len(Enqueued(values)) = Len(instructionQ) + Len(values)
        /\ \A i \in 1..Len(instructionQ) + Len(values) :
              Enqueued(values)[i] = IF i <= Len(instructionQ) THEN instructionQ[i]
                                    ELSE words[i - Len(instructionQ)]
    <3>1. instructionQ \in Seq(NodeSet) /\ words \in Seq(NodeSet) /\ Len(words) = Len(values)
      BY <1>2 DEF QueuesOK
    <3> DEFINE both == instructionQ \o words
    <3>2. /\ both \in Seq(NodeSet)
          /\ Len(both) = Len(instructionQ) + Len(words)
          /\ \A i \in 1..Len(instructionQ) + Len(words) :
                both[i] = IF i <= Len(instructionQ) THEN instructionQ[i]
                          ELSE words[i - Len(instructionQ)]
      BY <3>1, ConcatProperties, Zenon
    <3>3. Enqueued(values) = both
      BY <1>3
    <3> HIDE DEF both
    <3>4. QED
      BY <3>1, <3>2, <3>3, Zenon
  <2>2. Len(instructionQ) \in Nat /\ Len(values) \in Nat
    BY LenProperties DEF QueuesOK
  <2>3. ASSUME NEW i \in 1..Len(values)
        PROVE  Enqueued(values)[Len(instructionQ) + i] = word(i)
    <3>1. /\ Len(instructionQ) + i \in 1..Len(instructionQ) + Len(values)
          /\ ~(Len(instructionQ) + i <= Len(instructionQ))
          /\ (Len(instructionQ) + i) - Len(instructionQ) = i
      BY <2>2
    <3>2. QED
      BY <1>4, <2>1, <3>1
  <2>4. QED
    BY <1>1, <2>1, <2>2, <2>3

\* enqueueValues keeps the queues queues.
LEMMA EnqueueValuesTypes ==
    ASSUME QueuesOK, NEW S, NEW values \in Seq(S), enqueueValues(values)
    PROVE  QueuesOK'
BY EnqueuedTypes, LenProperties DEF enqueueValues, QueuesOK

\* ProcessData keeps the types: the loop over numbers starts at a number.
LEMMA ProcessDataTypes ==
    ASSUME TypeOK, ProcessData
    PROVE  TypeOK'
<1> DEFINE s == skipWhiteSpace(rest)
<1>1. QueuesOK' /\ TablesOK'
  BY UnchangedTypes DEF ProcessData
<1>2. CASE isValidTextBeforeNum(s)
  <2>1. s \in Seq(Token)
    BY ScanTypes DEF TypeOK, ControlOK
  <2>2. LocalsOK' /\ OutputsOK' /\ UNCHANGED <<program, current, completed>>
    BY <1>2, UnchangedTypes DEF ProcessData
  <2>3. ControlOK'
    BY <1>2, <2>1, <2>2 DEF ProcessData, TypeOK, ControlOK, Pcs, FirstStagePcs
  <2>4. QED
    BY <1>1, <1>2, <2>2, <2>3 DEF ProcessData, TypeOK
<1>3. CASE ~isValidTextBeforeNum(s)
  BY <1>1, <1>3, EndedLine DEF ProcessData, Fail
<1>4. QED
  BY <1>2, <1>3

\* A number that is taken over is queued as one word.
LEMMA OneNumberTypes ==
    ASSUME TypeOK, enqueueValues(<<Number(rest)>>)
    PROVE  QueuesOK'
<1>1. <<Number(rest)>> \in Seq({Number(rest)})
  OBVIOUS
<1>2. QED
  BY <1>1, EnqueueValuesTypes DEF TypeOK

\* LastNumber keeps the types.
LEMMA LastNumberTypes ==
    ASSUME TypeOK, LastNumber
    PROVE  TypeOK'
<1>1. TablesOK'
  BY UnchangedTypes DEF LastNumber
<1>2. CASE enqueueValues(<<Number(rest)>>) /\ EndLine(TRUE, FALSE)
  BY <1>1, <1>2, OneNumberTypes, EndedLine DEF LastNumber
<1>3. CASE EndLine(FALSE, FALSE) /\ UNCHANGED queues
  BY <1>1, <1>3, UnchangedTypes, EndedLine DEF LastNumber
<1>4. QED
  BY <1>2, <1>3 DEF LastNumber

\* NextNumber keeps the types: the next turn of the loop starts at a number.
LEMMA NextNumberTypes ==
    ASSUME TypeOK, NextNumber
    PROVE  TypeOK'
<1> DEFINE after == skipWhiteSpace(Tail(rest))
           next  == skipWhiteSpace(Tail(after))
<1>1. TablesOK' /\ QueuesOK'
  BY UnchangedTypes, OneNumberTypes DEF NextNumber
<1>2. CASE EndLine(TRUE, FALSE)
  BY <1>1, <1>2, EndedLine DEF NextNumber
<1>3. CASE EndLine(TRUE, TRUE)
  BY <1>1, <1>3, EndedLine DEF NextNumber
<1>4. CASE Fail
  BY <1>1, <1>4, EndedLine DEF NextNumber, Fail
<1>5. CASE /\ Starts(after, {"comma"}) /\ isValidTextBeforeNum(next)
           /\ rest' = next
           /\ UNCHANGED <<pc, locals, createFiles, reported>>
  <2>1. rest \in Seq(Token) /\ rest # <<>>
    BY DEF NextNumber, TypeOK, ControlOK, isValidTextBeforeNum, Starts
  <2>2. after \in Seq(Token) /\ after # <<>>
    BY <1>5, <2>1, ScanTypes DEF Starts
  <2>3. next \in Seq(Token)
    BY <2>2, ScanTypes
  <2>4. LocalsOK' /\ OutputsOK' /\ UNCHANGED <<program, current, completed>>
    BY <1>5, UnchangedTypes DEF NextNumber
  <2>5. ControlOK'
    BY <1>5, <2>3, <2>4 DEF TypeOK, ControlOK
  <2>6. pc' = "number" /\ isValidTextBeforeNum(rest)'
    BY <1>5 DEF NextNumber
  <2>7. QED
    BY <1>1, <2>4, <2>5, <2>6 DEF TypeOK
<1>6. QED
  BY <1>2, <1>3, <1>4, <1>5 DEF NextNumber

\* BadNumber keeps the types.
LEMMA BadNumberTypes ==
    ASSUME TypeOK, BadNumber
    PROVE  TypeOK'
BY UnchangedTypes, EndedLine DEF BadNumber, Fail

\* ProcessString keeps the types: every character and the final zero is a word.
LEMMA ProcessStringTypes ==
    ASSUME TypeOK, ProcessString
    PROVE  TypeOK'
<1> DEFINE s == skipWhiteSpace(rest)
<1>1. TablesOK' /\ UNCHANGED others
  BY UnchangedTypes DEF ProcessString
<1>2. CASE Starts(s, {"str"}) /\ Head(s).closed
  <2>1. s \in Seq(Token) /\ s # <<>>
    BY <1>2, ScanTypes DEF Starts, TypeOK, ControlOK
  <2>2. Head(s).chars \in Seq(0..127)
    BY <1>2, <2>1, ScanTypes, TokenFields DEF Starts
  <2>3. Append(Head(s).chars, 0) \in Seq(0..127)
    BY <2>2
  <2>4. enqueueValues(Append(Head(s).chars, 0)) /\ EndLine(TRUE, FALSE)
    BY <1>2 DEF ProcessString
  <2>5. QueuesOK'
    BY <2>3, <2>4, EnqueueValuesTypes DEF TypeOK
  <2>6. QED
    BY <1>1, <2>4, <2>5, EndedLine
<1>3. CASE ~(Starts(s, {"str"}) /\ Head(s).closed)
  BY <1>1, <1>3, UnchangedTypes, EndedLine DEF ProcessString, Fail
<1>4. QED
  BY <1>2, <1>3

\* The operand of .entry and .extern is a name.
LEMMA OperandName ==
    ASSUME NEW s \in Seq(Token), Starts(s, {"id", "digits"})
    PROVE  Head(s).w \in Names
BY ScanTypes, TokenFields DEF Starts

\* ProcessEntry keeps the types.
LEMMA ProcessEntryTypes ==
    ASSUME TypeOK, ProcessEntry
    PROVE  TypeOK'
<1> DEFINE s == skipWhiteSpace(rest)
<1>1. QueuesOK' /\ UNCHANGED others /\ IsTable(symbolTable)' /\ IsTable(externTable)'
  BY UnchangedTypes DEF ProcessEntry, TypeOK, TablesOK, IsTable
<1>2. CASE ValidOperand(s)
  <2>1. Head(s).w \in Names
    BY <1>2, ScanTypes, OperandName DEF ValidOperand, TypeOK, ControlOK
  <2>2. IsTable(entryTable')
    BY <1>2, <2>1, Inserted DEF ProcessEntry, TypeOK, TablesOK
  <2>3. TablesOK'
    BY <1>1, <2>2 DEF TablesOK, IsTable
  <2>4. HasName(entryTable, Head(s).w) \in BOOLEAN
    BY DEF HasName
  <2>5. QED
    BY <1>1, <1>2, <2>3, <2>4, EndedLine DEF ProcessEntry
<1>3. CASE ~ValidOperand(s)
  <2>1. TablesOK'
    BY <1>1, <1>3 DEF ProcessEntry, TypeOK, TablesOK, IsTable
  <2>2. QED
    BY <1>1, <1>3, <2>1, EndedLine DEF ProcessEntry, Fail
<1>4. QED
  BY <1>2, <1>3

\* ProcessExtern keeps the types.
LEMMA ProcessExternTypes ==
    ASSUME TypeOK, ProcessExtern
    PROVE  TypeOK'
<1> DEFINE s == skipWhiteSpace(rest)
<1>1. QueuesOK' /\ UNCHANGED others /\ IsTable(symbolTable)' /\ IsTable(entryTable)'
  BY UnchangedTypes DEF ProcessExtern, TypeOK, TablesOK, IsTable
<1>2. CASE ValidOperand(s)
  <2>1. Head(s).w \in Names
    BY <1>2, ScanTypes, OperandName DEF ValidOperand, TypeOK, ControlOK
  <2>2. IsTable(externTable')
    BY <1>2, <2>1, Inserted DEF ProcessExtern, TypeOK, TablesOK, Statements
  <2>3. TablesOK'
    BY <1>1, <2>2 DEF TablesOK, IsTable
  <2>4. HasName(externTable, Head(s).w) \in BOOLEAN
    BY DEF HasName
  <2>5. QED
    BY <1>1, <1>2, <2>3, <2>4, EndedLine DEF ProcessExtern
<1>3. CASE ~ValidOperand(s)
  <2>1. TablesOK'
    BY <1>1, <1>3 DEF ProcessExtern, TypeOK, TablesOK, IsTable
  <2>2. QED
    BY <1>1, <1>3, <2>1, EndedLine DEF ProcessExtern, Fail
<1>4. QED
  BY <1>2, <1>3

-----------------------------------------------------------------------------
(* The operands. *)

\* After an accepted operand either the line ends or the next part is due.
LEMMA AfterOperandTypes ==
    ASSUME TypeOK, NEW s \in Seq(Token), s # <<>>, NEW registers \in {0, 1},
           AfterOperand(s, registers), QueuesOK', TablesOK', UNCHANGED others
    PROVE  TypeOK'
<1>1. CASE pc = "destination" /\ jumpWithOperand
  BY <1>1, EndedLine DEF AfterOperand
<1>2. CASE ~(pc = "destination" /\ jumpWithOperand)
  <2>1. pc' \in {"comma", "endOfLine"} /\ rest' \in Seq(Token)
    BY <1>2, ScanTypes DEF AfterOperand
  <2>2. LocalsOK'
    BY <1>2 DEF AfterOperand, TypeOK, LocalsOK
  <2>3. OutputsOK' /\ UNCHANGED <<program, current, completed>>
    BY UnchangedTypes
  <2>4. ControlOK'
    BY <1>2, <2>1, <2>3 DEF AfterOperand, TypeOK, ControlOK, Pcs, FirstStagePcs
  <2>5. QED
    BY <2>1, <2>2, <2>3, <2>4 DEF TypeOK
<1>3. QED
  BY <1>1, <1>2

\* An operand is a token the rest of the line begins with.
LEMMA OperandTypes ==
    ASSUME TypeOK, NEW addressing, OperandIs(skipWhiteSpace(rest), addressing)
    PROVE  LET s == skipWhiteSpace(rest)
           IN  /\ s \in Seq(Token) /\ s # <<>>
               /\ addressing # IMMEDIATE => Head(s).w \in Names
               /\ addressing = DIRECT_REGISTER => RegisterOf[Head(s).w] \in 0..7
<1> DEFINE s == skipWhiteSpace(rest)
<1>1. s \in Seq(Token) /\ s # <<>>
  BY ScanTypes DEF OperandIs, IsOperand, Starts, TypeOK, ControlOK
<1>2. addressing # IMMEDIATE => Head(s).t = "id"
  BY DEF OperandIs, IsOperand, Addressing, Starts
<1>3. addressing # IMMEDIATE => Head(s).w \in Names
  BY <1>1, <1>2, ScanTypes, TokenFields
<1>4. addressing = DIRECT_REGISTER => Head(s).w \in DOMAIN RegisterOf
  BY DEF OperandIs, Addressing, IMMEDIATE, DIRECT, DIRECT_REGISTER
<1>5. QED
  BY <1>1, <1>3, <1>4, RegistersAssumption

\* The addressing bits lie in the first word's parameter and operand fields.
LEMMA WithAddressingTypes ==
    ASSUME TypeOK, NEW addressing
    PROVE  /\ AddressingBits(addressing) \subseteq WordBits
           /\ WithAddressing(addressing) \in Seq(NodeSet)
           /\ Len(WithAddressing(addressing)) = Len(directiveQ)
<1>1. AddressingBits(addressing) \in SUBSET WordBits
  BY WordPieces DEF AddressingBits
<1>2. QED
  BY <1>1, AddedBits DEF WithAddressing, TypeOK, QueuesOK, LocalsOK

\* AddImmediateOperand keeps the types.
LEMMA AddImmediateOperandTypes ==
    ASSUME TypeOK, AddImmediateOperand
    PROVE  TypeOK'
<1> DEFINE s    == skipWhiteSpace(rest)
           node == Node(NoName, directiveCounter, BitsOf(4 * Head(s).v), {"VALUE", "COMPLETED"})
<1>1. s \in Seq(Token) /\ s # <<>>
  BY OperandTypes DEF AddImmediateOperand
<1>2. node \in NodeSet
  BY NodeType, WordPieces DEF TypeOK, QueuesOK, Statements
<1>3. QueuesOK'
  <2> HIDE DEF node
  <2> QED
    BY <1>2, AppendedWord DEF AddImmediateOperand, TypeOK, QueuesOK, node
<1>4. TablesOK' /\ opRegisterCount \in {0, 1}
  BY UnchangedTypes DEF AddImmediateOperand, TypeOK, LocalsOK
<1>5. QED
  BY <1>1, <1>3, <1>4, AfterOperandTypes DEF AddImmediateOperand

\* AddDirectOperand keeps the types: the waiting word carries a name.
LEMMA AddDirectOperandTypes ==
    ASSUME TypeOK, AddDirectOperand
    PROVE  TypeOK'
<1> DEFINE s    == skipWhiteSpace(rest)
           node == Node(Head(s).w, directiveCounter, {}, {"NOT_COMPLETE"})
<1>1. s \in Seq(Token) /\ s # <<>> /\ Head(s).w \in Names
  BY OperandTypes DEF AddDirectOperand, DIRECT, IMMEDIATE
<1>2. node \in NodeSet
  BY <1>1, NodeType DEF TypeOK, QueuesOK, Statements
<1>3. WithAddressing(DIRECT) \in Seq(NodeSet)
  BY WithAddressingTypes
<1>4. QueuesOK'
  <2> HIDE DEF node
  <2> QED
    BY <1>2, <1>3, AppendedWord DEF AddDirectOperand, TypeOK, node
<1>5. TablesOK' /\ opRegisterCount \in {0, 1}
  BY UnchangedTypes DEF AddDirectOperand, TypeOK, LocalsOK
<1>6. QED
  BY <1>1, <1>4, <1>5, AfterOperandTypes DEF AddDirectOperand

\* AddRegisterOperand keeps the types, with a word of its own or a shared one.
LEMMA AddRegisterOperandTypes ==
    ASSUME TypeOK, AddRegisterOperand
    PROVE  TypeOK'
<1> DEFINE s    == skipWhiteSpace(rest)
           bits == RegisterBits(RegisterOf[Head(s).w], OperandState)
           node == Node(NoName, directiveCounter, bits, {"VALUE", "COMPLETED"})
<1>1. s \in Seq(Token) /\ s # <<>> /\ RegisterOf[Head(s).w] \in 0..7
  BY OperandTypes DEF AddRegisterOperand
<1>2. bits \in SUBSET WordBits
  <2>1. OperandState \in {SOURCE, DESTINATION}
    BY DEF OperandState
  <2>2. QED
    BY <1>1, <2>1, WordPieces
<1>3. WithAddressing(DIRECT_REGISTER) \in Seq(NodeSet)
  BY WithAddressingTypes
<1>4. QueuesOK'
  <2> HIDE DEF bits
  <2>1. CASE opRegisterCount = 0
    <3>1. node \in NodeSet
      BY <1>2, NodeType DEF TypeOK, QueuesOK, Statements
    <3> HIDE DEF node
    <3>2. QED
      BY <1>3, <2>1, <3>1, AppendedWord DEF AddRegisterOperand, TypeOK, node, bits
  <2>2. CASE opRegisterCount # 0
    <3>1. directiveQ' = addToBinaryCode(WithAddressing(DIRECT_REGISTER), Len(directiveQ), bits)
      BY <2>2 DEF AddRegisterOperand, bits
    <3>2. Len(directiveQ) \in Nat
      BY LenProperties DEF TypeOK, QueuesOK
    <3>3. directiveQ' \in Seq(NodeSet)
      BY <1>2, <1>3, <3>1, <3>2, AddedBits
    <3>4. QED
      BY <2>2, <3>3 DEF AddRegisterOperand, TypeOK, QueuesOK
  <2>3. QED
    BY <2>1, <2>2
<1>5. TablesOK'
  BY UnchangedTypes DEF AddRegisterOperand
<1>6. QED
  BY <1>1, <1>4, <1>5, AfterOperandTypes DEF AddRegisterOperand

\* OperandError keeps the types.
LEMMA OperandErrorTypes ==
    ASSUME TypeOK, OperandError
    PROVE  TypeOK'
BY UnchangedTypes, EndedLine DEF OperandError, Fail

\* getToSecondOperand keeps the types.
LEMMA GetToSecondOperandTypes ==
    ASSUME TypeOK, getToSecondOperand
    PROVE  TypeOK'
<1> DEFINE s == skipWhiteSpace(rest)
<1>1. QueuesOK' /\ TablesOK' /\ UNCHANGED others
  BY UnchangedTypes DEF getToSecondOperand
<1>2. CASE Starts(s, {"comma"})
  <2>1. pc' = "destination" /\ rest' \in Seq(Token)
    BY <1>2, ScanTypes DEF getToSecondOperand, Starts, TypeOK, ControlOK
  <2>2. LocalsOK' /\ OutputsOK' /\ UNCHANGED <<program, current, completed>>
    BY <1>1, <1>2, UnchangedTypes DEF getToSecondOperand
  <2>3. ControlOK'
    BY <1>2, <2>1, <2>2 DEF getToSecondOperand, TypeOK, ControlOK, Pcs, FirstStagePcs
  <2>4. QED
    BY <1>1, <2>1, <2>2, <2>3 DEF TypeOK
<1>3. CASE ~Starts(s, {"comma"})
  BY <1>1, <1>3, EndedLine DEF getToSecondOperand, Fail
<1>4. QED
  BY <1>2, <1>3

\* validateEndOfLine keeps the types.
LEMMA ValidateEndOfLineTypes ==
    ASSUME TypeOK, validateEndOfLine
    PROVE  TypeOK'
BY UnchangedTypes, EndedLine DEF validateEndOfLine, Fail

-----------------------------------------------------------------------------
(* Jumps. *)

\* The word of a jump's label.
LEMMA EnqueueJumpTypes ==
    ASSUME TypeOK, NEW label \in Names, NEW bit \in WordBits, enqueueJump(label, bit)
    PROVE  QueuesOK'
<1> DEFINE node == Node(label, directiveCounter, {}, {"NOT_COMPLETE"})
<1>1. node \in NodeSet
  BY NodeType DEF TypeOK, QueuesOK, Statements
<1>2. addToBinaryCode(directiveQ, directiveNode, {bit}) \in Seq(NodeSet)
  BY AddedBits DEF TypeOK, QueuesOK, LocalsOK
<1>3. QED
  BY <1>1, <1>2, AppendedWord DEF enqueueJump, TypeOK

\* A jump's label is a name.
LEMMA JumpLabelTypes ==
    ASSUME TypeOK, JumpLabel(skipWhiteSpace(rest))
    PROVE  LET s == skipWhiteSpace(rest)
           IN  s \in Seq(Token) /\ s # <<>> /\ Head(s).w \in Names /\ Tail(s) \in Seq(Token)
BY ScanTypes, TokenFields DEF JumpLabel, Starts, TypeOK, ControlOK

\* ProcessJumpNoOperands keeps the types.
LEMMA ProcessJumpNoOperandsTypes ==
    ASSUME TypeOK, ProcessJumpNoOperands
    PROVE  TypeOK'
<1>1. QueuesOK' /\ TablesOK'
  BY JumpLabelTypes, EnqueueJumpTypes, UnchangedTypes DEF ProcessJumpNoOperands, WordBits
<1>2. QED
  BY <1>1, EndedLine DEF ProcessJumpNoOperands

\* ProcessJumpWithOperands keeps the types.
LEMMA ProcessJumpWithOperandsTypes ==
    ASSUME TypeOK, ProcessJumpWithOperands
    PROVE  TypeOK'
<1> DEFINE s == skipWhiteSpace(rest)
<1>1. QueuesOK' /\ TablesOK'
  BY JumpLabelTypes, EnqueueJumpTypes, UnchangedTypes DEF ProcessJumpWithOperands, WordBits
<1>2. pc' = "source" /\ rest' \in Seq(Token)
  BY JumpLabelTypes, ScanTypes DEF ProcessJumpWithOperands, JumpWithOperands, Starts
<1>3. LocalsOK'
  BY DEF ProcessJumpWithOperands, TypeOK, LocalsOK
<1>4. OutputsOK' /\ UNCHANGED <<program, current, completed>>
  BY UnchangedTypes DEF ProcessJumpWithOperands
<1>5. ControlOK'
  BY <1>2, <1>4 DEF ProcessJumpWithOperands, TypeOK, ControlOK, Pcs, FirstStagePcs
<1>6. QED
  BY <1>1, <1>2, <1>3, <1>4, <1>5 DEF TypeOK

\* ProcessJumpError keeps the types.
LEMMA ProcessJumpErrorTypes ==
    ASSUME TypeOK, ProcessJumpError
    PROVE  TypeOK'
<1> DEFINE s       == skipWhiteSpace(rest)
           printed == ~(Starts(s, {"id", "decl"}) /\ hashIsReservedKeyWord(Head(s).w))
<1>1. printed \in BOOLEAN
  BY Zenon
<1>2. QueuesOK' /\ TablesOK'
  BY UnchangedTypes DEF ProcessJumpError
<1>3. QED
  BY <1>1, <1>2, EndedLine DEF ProcessJumpError

-----------------------------------------------------------------------------
(* The validation pass. *)

\* The address of a symbol in the finished image is a number.
LEMMA FinalAddressTypes ==
    ASSUME TypeOK, NEW symbol \in NodeSet
    PROVE  FinalAddress(symbol) \in Nat
BY DEF FinalAddress, NodeSet, TypeOK, QueuesOK

\* Addressing the entries keeps their names.
LEMMA EntriesAddressedTypes ==
    ASSUME TypeOK
    PROVE  IsTable(EntriesAddressed)
<1> DEFINE node(id) == IF Defined(id)
                       THEN [entryTable.nodes[id] EXCEPT
                                !.deciAddress = FinalAddress(symbolTable.nodes[id])]
                       ELSE entryTable.nodes[id]
<1>1. ASSUME NEW id \in DOMAIN entryTable.nodes
      PROVE  node(id) \in NodeSet /\ node(id).label = entryTable.nodes[id].label
  <2>1. entryTable.nodes[id] \in NodeSet
    BY DEF TypeOK, TablesOK, IsTable
  <2>2. CASE Defined(id)
    <3>1. FinalAddress(symbolTable.nodes[id]) \in Nat
      BY <2>2, FinalAddressTypes DEF Defined, TypeOK, TablesOK, IsTable
    <3> HIDE DEF FinalAddress
    <3>2. QED
      BY <2>1, <2>2, <3>1 DEF NodeSet
  <2>3. CASE ~Defined(id)
    BY <2>1, <2>3
  <2>4. QED
    BY <2>2, <2>3
<1>2. /\ EntriesAddressed.nodes = [id \in DOMAIN entryTable.nodes |-> node(id)]
      /\ EntriesAddressed.count = entryTable.count
  BY DEF EntriesAddressed
<1>3. QED
  <2> HIDE DEF node
  <2>1. /\ DOMAIN EntriesAddressed.nodes = DOMAIN entryTable.nodes
        /\ \A id \in DOMAIN entryTable.nodes : EntriesAddressed.nodes[id] = node(id)
    BY <1>2
  <2>2. QED
    BY <1>1, <1>2, <2>1 DEF IsTable, TypeOK, TablesOK

\* ValidateTables keeps the types: an addressed entry is filed as before.
LEMMA ValidateTablesTypes ==
    ASSUME TypeOK, ValidateTables
    PROVE  TypeOK'
<1>1. IsTable(entryTable')
  BY EntriesAddressedTypes DEF ValidateTables, TypeOK, TablesOK
<1>2. TablesOK'
  BY <1>1 DEF ValidateTables, TypeOK, TablesOK, IsTable
<1>3. createFiles' \in BOOLEAN /\ reported' \in BOOLEAN
  BY Zenon DEF ValidateTables, TypeOK, ControlOK
<1>4. LocalsOK' /\ QueuesOK' /\ OutputsOK'
  BY UnchangedTypes DEF ValidateTables
<1>5. pc' \in {"completeDirectiveQ", "done"} /\ current' = 1
  BY DEF ValidateTables
<1>6. ControlOK'
  BY <1>3, <1>5 DEF ValidateTables, TypeOK, ControlOK, Pcs
<1>7. QED
  BY <1>2, <1>4, <1>5, <1>6 DEF TypeOK

\* A completed word is a word.
LEMMA CompletedTypes ==
    ASSUME TypeOK, NEW node \in NodeSet
    PROVE  /\ \A symbol \in NodeSet : completeRelocatableNode(node, symbol) \in NodeSet
           /\ completeExternalNode(node) \in NodeSet
<1>1. \A st \in {"LABEL", "EXTERN"} : CompleteStatement(node, st) \in SUBSET Statements
  BY DEF CompleteStatement, NodeSet, Statements
<1>2. BitsOf(EXTERNAL) \in SUBSET WordBits
  BY WordPieces
<1>3. completeExternalNode(node) \in NodeSet
  BY <1>1, <1>2 DEF completeExternalNode, NodeSet
<1>4. ASSUME NEW symbol \in NodeSet
      PROVE  completeRelocatableNode(node, symbol) \in NodeSet
  <2> DEFINE bits == BitsOf(RELOCATABLE + 4 * FinalAddress(symbol))
  <2>1. bits \in SUBSET WordBits
    BY WordPieces
  <2> HIDE DEF bits
  <2>2. QED
    BY <1>1, <2>1 DEF completeRelocatableNode, NodeSet, bits
<1>5. QED
  BY <1>3, <1>4

\* CompleteDirectiveNode keeps the types, whichever table knows the label.
LEMMA CompleteDirectiveNodeTypes ==
    ASSUME TypeOK, CompleteDirectiveNode
    PROVE  TypeOK'
<1> DEFINE node == directiveQ[current]
<1>1. current \in 1..Len(directiveQ) /\ node \in NodeSet
  <2>1. current \in 1..Len(directiveQ)
    BY LenProperties DEF CompleteDirectiveNode, TypeOK, ControlOK, QueuesOK
  <2>2. QED
    BY <2>1, ElementOfSeq DEF TypeOK, QueuesOK
<1>2. directiveQ' \in Seq(NodeSet) /\ completed' \in BOOLEAN
  <2>1. CASE UNCHANGED <<directiveQ, completed>>
    BY <2>1 DEF TypeOK, QueuesOK, ControlOK
  <2>2. CASE /\ HasName(symbolTable, node.label)
             /\ directiveQ' = [directiveQ EXCEPT ![current] =
                    completeRelocatableNode(node, hashSearch(symbolTable, node.label))]
             /\ UNCHANGED completed
    <3>1. hashSearch(symbolTable, node.label) \in NodeSet
      BY <2>2 DEF HasName, hashSearch, TypeOK, TablesOK, IsTable
    <3>2. completeRelocatableNode(node, hashSearch(symbolTable, node.label)) \in NodeSet
      BY <1>1, <3>1, CompletedTypes
    <3>3. QED
      BY <1>1, <2>2, <3>2, ChangedWord DEF TypeOK, QueuesOK, ControlOK
  <2>3. CASE /\ directiveQ' = [directiveQ EXCEPT ![current] = completeExternalNode(node)]
             /\ UNCHANGED completed
    <3>1. completeExternalNode(node) \in NodeSet
      BY <1>1, CompletedTypes
    <3>2. QED
      BY <1>1, <2>3, <3>1, ChangedWord DEF TypeOK, QueuesOK, ControlOK
  <2>4. CASE completed' = FALSE /\ UNCHANGED directiveQ
    <3>1. directiveQ' \in Seq(NodeSet)
      BY <2>4 DEF TypeOK, QueuesOK
    <3>2. QED
      BY <2>4, <3>1, Zenon
  <2>5. QED
    BY <2>1, <2>2, <2>3, <2>4 DEF CompleteDirectiveNode
<1>3. QueuesOK'
  BY <1>2 DEF CompleteDirectiveNode, TypeOK, QueuesOK
<1>4. LocalsOK' /\ TablesOK' /\ OutputsOK'
  BY UnchangedTypes DEF CompleteDirectiveNode
<1>5. ControlOK' /\ pc' = "completeDirectiveQ" /\ current' > 0
  BY <1>2 DEF CompleteDirectiveNode, TypeOK, ControlOK
<1>6. QED
  BY <1>3, <1>4, <1>5 DEF TypeOK

\* EndValidation keeps the types.
LEMMA EndValidationTypes ==
    ASSUME TypeOK, EndValidation
    PROVE  TypeOK'
<1>1. LocalsOK' /\ QueuesOK' /\ TablesOK' /\ OutputsOK'
  BY UnchangedTypes DEF EndValidation
<1>2. pc' \in {"writeToFile", "done"}
  BY DEF EndValidation
<1>3. ControlOK'
  BY <1>2 DEF EndValidation, TypeOK, ControlOK, Pcs, WritePcs
<1>4. QED
  BY <1>1, <1>2, <1>3 DEF TypeOK

-----------------------------------------------------------------------------
(* The files. *)

\* A line of a file carries an address and the word or the label.
LEMMA FileLineTypes ==
    ASSUME NEW node \in NodeSet
    PROVE  /\ DecimalAddress(node.deciAddress) \in Nat
           /\ ObjectLine(node) \in [address : Nat, code : SUBSET WordBits]
           /\ LabelLine(node) \in [label : Names \cup {NoName}, address : Nat]
<1>1. DecimalAddress(node.deciAddress) \in Nat
  BY DEF DecimalAddress, NodeSet
<1> HIDE DEF DecimalAddress
<1>2. QED
  BY <1>1 DEF ObjectLine, LabelLine, NodeSet

\* OpenFiles keeps the types: only output files are opened.
LEMMA OpenFilesTypes ==
    ASSUME TypeOK, OpenFiles
    PROVE  TypeOK'
<1>1. OutputsOK'
  <2>1. Wanted \subseteq OutputFiles
    BY DEF Wanted, OutputFiles
  <2>2. opened' \subseteq OutputFiles
    BY <2>1 DEF OpenFiles
  <2>3. QED
    BY <2>2 DEF OpenFiles, TypeOK, OutputsOK
<1>2. LocalsOK' /\ QueuesOK' /\ TablesOK'
  BY UnchangedTypes DEF OpenFiles
<1>3. ControlOK' /\ pc' = "writeDirectiveQ" /\ current' = 1
  BY DEF OpenFiles, TypeOK, ControlOK, Pcs, WritePcs
<1>4. QED
  BY <1>1, <1>2, <1>3 DEF TypeOK

\* WriteDirective keeps the types of the object and the extern file.
LEMMA WriteDirectiveTypes ==
    ASSUME TypeOK, WriteDirective
    PROVE  TypeOK'
<1> DEFINE node == directiveQ[current]
<1>1. node \in NodeSet
  <2>1. current \in 1..Len(directiveQ)
    BY LenProperties DEF WriteDirective, TypeOK, ControlOK, QueuesOK
  <2>2. QED
    BY <2>1, ElementOfSeq DEF TypeOK, QueuesOK
<1>2. OutputsOK'
  <2>1. object' \in Seq([address : Nat, code : SUBSET WordBits])
    BY <1>1, FileLineTypes, AppendProperties DEF WriteDirective, TypeOK, OutputsOK
  <2>2. externFile' \in Seq([label : Names \cup {NoName}, address : Nat])
    BY <1>1, FileLineTypes, AppendProperties DEF WriteDirective, TypeOK, OutputsOK
  <2>3. QED
    BY <2>1, <2>2 DEF WriteDirective, TypeOK, OutputsOK
<1>3. LocalsOK' /\ QueuesOK' /\ TablesOK'
  BY UnchangedTypes DEF WriteDirective
<1>4. ControlOK' /\ pc' = "writeDirectiveQ" /\ current' > 0
  BY DEF WriteDirective, TypeOK, ControlOK
<1>5. QED
  BY <1>2, <1>3, <1>4 DEF TypeOK

\* DirectivesWritten keeps the types.
LEMMA DirectivesWrittenTypes ==
    ASSUME TypeOK, DirectivesWritten
    PROVE  TypeOK'
<1>1. LocalsOK' /\ QueuesOK' /\ TablesOK' /\ OutputsOK'
  BY UnchangedTypes DEF DirectivesWritten
<1>2. ControlOK' /\ pc' = "writeInstructionQ" /\ current' = 1
  BY DEF DirectivesWritten, TypeOK, ControlOK, Pcs, WritePcs
<1>3. QED
  BY <1>1, <1>2 DEF TypeOK

\* WriteInstruction keeps the types: a moved word is still a word.
LEMMA WriteInstructionTypes ==
    ASSUME TypeOK, WriteInstruction
    PROVE  TypeOK'
<1> DEFINE node == [instructionQ[current] EXCEPT !.deciAddress = @ + directiveCounter]
<1>1. current \in 1..Len(instructionQ)
  BY LenProperties DEF WriteInstruction, TypeOK, ControlOK, QueuesOK
<1>2. node \in NodeSet
  <2>1. instructionQ[current] \in NodeSet
    BY <1>1, ElementOfSeq DEF TypeOK, QueuesOK
  <2>2. \A n \in NodeSet, a \in Nat : [n EXCEPT !.deciAddress = a] \in NodeSet
    BY DEF NodeSet
  <2>3. instructionQ[current].deciAddress + directiveCounter \in Nat
    BY <2>1 DEF NodeSet, TypeOK, QueuesOK
  <2>4. QED
    BY <2>1, <2>2, <2>3
<1>3. instructionQ' = [instructionQ EXCEPT ![current] = node]
  BY DEF WriteInstruction
<1>4. instructionQ' \in Seq(NodeSet) /\ instructionQ'[current] = node
  <2> HIDE DEF node
  <2> QED
    BY <1>1, <1>2, <1>3, ChangedWord DEF TypeOK, QueuesOK
<1>5. object' \in Seq([address : Nat, code : SUBSET WordBits])
  BY <1>2, <1>4, FileLineTypes, AppendProperties DEF WriteInstruction, TypeOK, OutputsOK
<1>6. QueuesOK' /\ OutputsOK'
  BY <1>4, <1>5 DEF WriteInstruction, TypeOK, QueuesOK, OutputsOK
<1>7. LocalsOK' /\ TablesOK'
  BY UnchangedTypes DEF WriteInstruction
<1>8. ControlOK' /\ pc' = "writeInstructionQ" /\ current' > 0
  BY DEF WriteInstruction, TypeOK, ControlOK
<1>9. QED
  BY <1>6, <1>7, <1>8 DEF TypeOK

\* WriteEntries keeps the types: each line is a label and an address.
LEMMA WriteEntriesTypes ==
    ASSUME TypeOK, WriteEntries
    PROVE  TypeOK'
<1>1. {LabelLine(entryTable.nodes[id]) : id \in DOMAIN entryTable.nodes}
          \subseteq [label : Names \cup {NoName}, address : Nat]
  BY FileLineTypes DEF TypeOK, TablesOK, IsTable
<1>2. OutputsOK'
  BY <1>1 DEF WriteEntries, TypeOK, OutputsOK
<1>3. LocalsOK' /\ QueuesOK' /\ TablesOK'
  BY UnchangedTypes DEF WriteEntries
<1>4. ControlOK' /\ pc' = "done"
  BY DEF WriteEntries, TypeOK, ControlOK, Pcs
<1>5. QED
  BY <1>2, <1>3, <1>4 DEF TypeOK

-----------------------------------------------------------------------------

\* Every step of the first stage keeps the types.
LEMMA FirstStageTypes ==
    ASSUME TypeOK, FirstStageNext
    PROVE  TypeOK'
BY ReadLineTypes, EndOfFileTypes, ProcessInstructionTypes, ProcessDirectiveTypes,
   ProcessLineErrorTypes, ProcessDataTypes, LastNumberTypes, NextNumberTypes,
   BadNumberTypes, ProcessStringTypes, ProcessEntryTypes, ProcessExternTypes,
   AddImmediateOperandTypes, AddDirectOperandTypes, AddRegisterOperandTypes,
   OperandErrorTypes, GetToSecondOperandTypes, ValidateEndOfLineTypes,
   ProcessJumpNoOperandsTypes, ProcessJumpWithOperandsTypes, ProcessJumpErrorTypes
DEF FirstStageNext

\* Whatever the source and whatever fails, every variable keeps its type, and
\* the loops over the queues and over data stay within them.
THEOREM TypeCorrect == Spec => []TypeOK
<1>1. Init => TypeOK
  <2> SUFFICES ASSUME Init PROVE TypeOK
    OBVIOUS
  <2>1. IsTable(EmptyTable)
    BY DEF IsTable, EmptyTable
  <2>2. ControlOK
    BY EmptySeq, Zenon DEF Init, ControlOK, Pcs, FirstStagePcs
  <2>3. LocalsOK
    <3>1. opCode \in 0..15 /\ directiveNode \in Nat /\ opRegisterCount \in {0, 1}
      BY DEF Init
    <3>2. jumpWithOperand \in BOOLEAN
      BY Zenon DEF Init
    <3>3. QED
      BY <3>1, <3>2 DEF LocalsOK
  <2>4. QueuesOK /\ OutputsOK
    BY EmptySeq DEF Init, QueuesOK, OutputsOK, FirstAddress
  <2>5. TablesOK
    BY <2>1 DEF Init, TablesOK
  <2>6. QED
    BY <2>2, <2>3, <2>4, <2>5 DEF TypeOK, Init
<1>2. TypeOK /\ [Next]_vars => TypeOK'
  <2> SUFFICES ASSUME TypeOK, [Next]_vars PROVE TypeOK'
    OBVIOUS
  <2>1. CASE FirstStageNext
    BY <2>1, FirstStageTypes
  <2>2. CASE ValidationPassNext
    BY <2>2, ValidateTablesTypes, CompleteDirectiveNodeTypes, EndValidationTypes
    DEF ValidationPassNext
  <2>3. CASE WriteToFileNext
    BY <2>3, OpenFilesTypes, WriteDirectiveTypes, DirectivesWrittenTypes,
       WriteInstructionTypes, WriteEntriesTypes DEF WriteToFileNext
  <2>4. CASE UNCHANGED vars
    <3>1. LocalsOK' /\ QueuesOK' /\ TablesOK' /\ OutputsOK'
      BY <2>4, UnchangedTypes DEF vars
    <3>2. UNCHANGED <<pc, program, rest, createFiles, reported, current, completed>>
      BY <2>4 DEF vars
    <3>3. ControlOK'
      BY <3>2 DEF TypeOK, ControlOK
    <3>4. QED
      BY <3>1, <3>2, <3>3 DEF TypeOK, isValidTextBeforeNum, Starts
  <2>5. QED
    BY <2>1, <2>2, <2>3, <2>4 DEF Next, Returned
<1>3. QED
  BY <1>1, <1>2, PTL DEF Spec
=============================================================================
