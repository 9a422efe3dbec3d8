--------------------------- MODULE AssemblerState ---------------------------
(***************************************************************************)
(* The data of one call of startAssembler (main.c) after macro expansion:  *)
(* the two queues of words, the three hash tables, the two counters, the   *)
(* createFiles flag and the locals of the passes, with the operations of   *)
(* queueDS.c and hashTableDS.c that the passes use.                        *)
(*                                                                         *)
(* A line of the expanded source is a record: "text" is what the scanner   *)
(* sees, a sequence of tokens; "means" is the statement a reader of the    *)
(* language would take it for, which only TwoPassAssembler looks at.  A    *)
(* run of white space is one token "ws"; blank and comment lines have the  *)
(* empty text.                                                             *)
(***************************************************************************)
EXTENDS Words, Sequences, FiniteSets

CONSTANTS
    Names,       \* the words (labels, mnemonics, register names) of the source
    NoName,      \* the label of a word that refers to no symbol
    OpcodeOf,    \* the reserved words and their opcodes
    RegisterOf,  \* the register names and their numbers
    Ident,       \* what a hash table tells a name by: its bucket and its key
    Lines,       \* the lines a source may consist of
    MaxLines,    \* bound on the number of lines of a source
    MaxSymbols,  \* MAX_SYMBOLS_IN_FILE, 256 in the code
    MayFail      \* the output files that may fail to open

Keywords    == DOMAIN OpcodeOf
OutputFiles == {"ob", "ent", "ext"}

Token ==
         [t : {"decl", "id", "digits"}, w : Names]  \* X:  X  2nd
    \cup [t : {"dot"}, d : {"data", "string", "entry", "extern", "unknown"}]
    \cup [t : {"imm", "num"}, v : Int]              \* #-3  -3
    \cup [t : {"str"}, chars : Seq(0..127), closed : BOOLEAN]
    \cup [t : {"sign", "comma", "open", "close", "ws", "junk", "overflow"}]

\* The names are words; NoName is not one of them.
ASSUME NamesAssumption == NoName \notin Names

\* createReservedKeywordsTable inserts every reserved word as an entry of its own.
ASSUME KeywordsAssumption ==
    /\ OpcodeOf \in [Keywords -> 0..15]
    /\ Keywords \subseteq Names
    /\ \A j, k \in Keywords : Ident[j] = Ident[k] => j = k

ASSUME RegistersAssumption ==
    /\ RegisterOf \in [DOMAIN RegisterOf -> 0..7]
    /\ DOMAIN RegisterOf \subseteq Names

\* A run of white space is one token.
ASSUME LinesAssumption ==
    \A l \in Lines :
        /\ l.text \in Seq(Token)
        /\ \A i \in 1..(Len(l.text) - 1) : l.text[i].t = "ws" => l.text[i + 1].t # "ws"

ASSUME BoundsAssumption == MaxLines \in Nat /\ MaxSymbols \in Nat /\ MayFail \subseteq OutputFiles

VARIABLES
    pc,               \* the function about to run
    program,          \* the lines read so far
    rest,             \* what of the current line is still to be read
    opCode,           \* locals of processDirective
    directiveNode,    \* index in directiveQ of the instruction's first word
    opRegisterCount,
    jumpWithOperand,
    directiveQ,       \* the words of the instructions
    instructionQ,     \* the words of .data and .string
    directiveCounter,
    instructionCounter,
    symbolTable, entryTable, externTable,
    createFiles,      \* FALSE once the source is rejected
    reported,         \* an ERROR line has been printed (history)
    current,          \* index of the node a loop over a queue has reached
    completed,        \* completeDirectiveQ has met no unknown label
    opened,           \* the output files that were opened
    object,           \* the .ob file
    entryFile,        \* the .ent file, whose order is that of the hash buckets
    externFile        \* the .ext file

locals  == <<opCode, directiveNode, opRegisterCount, jumpWithOperand>>
queues  == <<directiveQ, instructionQ, directiveCounter, instructionCounter>>
tables  == <<symbolTable, entryTable, externTable>>
outputs == <<opened, object, entryFile, externFile>>
vars    == <<pc, program, rest, locals, queues, tables, createFiles, reported,
             current, completed, outputs>>

FirstAddress == 100

Statements == {"DIRECTIVE", "INSTRUCTION", "ENTRY", "EXTERN", "VALUE", "LABEL",
               "COMPLETED", "NOT_COMPLETE"}

\* struct Qnode with its Qnode_SymbolData.
Node(label, deciAddress, binaryCode, statement) ==
    [label |-> label, deciAddress |-> deciAddress,
     binaryCode |-> binaryCode, statement |-> statement]

NodeSet == [label : Names \cup {NoName}, deciAddress : Nat,
            binaryCode : SUBSET WordBits, statement : SUBSET Statements]

\* Mutant: = instead of |=.
SetBinaryCode(queue, node, bits) == [queue EXCEPT ![node].binaryCode = bits]

addToBinaryCode(queue, node, bits) ==
    [queue EXCEPT ![node].binaryCode = @ \cup bits]

isComplete(node) == "COMPLETED" \in node.statement

\* A table finds a name by Ident alone; count also counts the insertions that
\* isUniqueLabel turned away.
EmptyTable == [nodes |-> << >>, count |-> 0]
HasName(table, name)    == Ident[name] \in DOMAIN table.nodes
hashSearch(table, name) == table.nodes[Ident[name]]
hashIsEmptyTable(table) == table.count = 0

\* Mutant: a second definition replaces the first.
ReplacingInsert(table, name, deciAddress, statement) ==
    [nodes |-> [id \in DOMAIN table.nodes \cup {Ident[name]} |->
                   IF id = Ident[name] THEN Node(name, deciAddress, {}, statement)
                   ELSE table.nodes[id]],
     count |-> table.count + 1]

\* The first node with an identity stays; the count grows all the same.
hashInsert(table, name, deciAddress, statement) ==
    [nodes |-> [id \in DOMAIN table.nodes \cup {Ident[name]} |->
                   IF id \in DOMAIN table.nodes THEN table.nodes[id]
                   ELSE Node(name, deciAddress, {}, statement)],
     count |-> table.count + 1]

hashIsReservedKeyWord(name) == \E k \in Keywords : Ident[k] = Ident[name]
hashGetOpCode(name) == OpcodeOf[CHOOSE k \in Keywords : Ident[k] = Ident[name]]
=============================================================================
