------------------------------ MODULE Storage ------------------------------
(***************************************************************************)
(* What mainProgramLoop (main.c) allocates and frees: the name buffer, the *)
(* reserved keywords, and for every name the tables and queues of an       *)
(* assembly, with their error paths.  Any allocation may fail.             *)
(*                                                                         *)
(* Owners are structures; what is stored in them is HashTable's and        *)
(* FirstStage's.  A plain queue is a table with the one bucket 0.          *)
(***************************************************************************)
EXTENDS Integers, Sequences, FiniteSets

CONSTANTS
    Buckets,          \* those of a table that are used, not 0
    Lengths,          \* of the names on the command line
    MaxNames,
    MaxInsertions,    \* bound on the insertions, for each stage of each name
    MayFail           \* whether an allocation may fail

ASSUME StorageAssumption ==
    /\ Buckets \subseteq Nat \ {0} /\ Lengths \subseteq Nat \ {0}
    /\ MaxNames \in Nat /\ MaxInsertions \in Nat /\ MayFail \in BOOLEAN

MainTables == {"symbolTable", "entryTable", "externTable"}
Queues     == {"instructionQ", "directiveQ"}
Owners     == MainTables \cup Queues \cup {"macroTable", "reservedKeywords"}

VARIABLES
    pc,               \* the function that allocates or frees next
    turn,             \* the place in the command line
    heap,             \* the blocks that are allocated
    chains,           \* of each owner and bucket: whether there is a queue, and its nodes
    nameBuffer,       \* when the name buffer was allocated
    currFileNameLen,
    insertions,       \* bound
    misused           \* something was freed or used that is not allocated (history)

vars == <<pc, turn, heap, chains, nameBuffer, currFileNameLen, insertions, misused>>
places == <<turn, nameBuffer, currFileNameLen>>

NoChain == [queue |-> FALSE, nodes |-> <<>>]
NoChains == [b \in Buckets \cup {0} |-> NoChain]

Init ==
    /\ pc = "createReservedKeywordsTable"
    /\ turn = 0 /\ nameBuffer = 0 /\ currFileNameLen = 0
    /\ heap = {}
    /\ chains = [o \in Owners |-> NoChains]
    /\ insertions = 0
    /\ misused = FALSE

-----------------------------------------------------------------------------
\* A block: the turn it is of, its owner, and what it is there.
Block(owner, b, k, kind) ==
    <<IF owner = "reservedKeywords" THEN 0 ELSE turn, owner, b, k, kind>>
NameBuffer(t) == <<t, "file", 0, 0, "name">>

\* A queue whose nodes are there, with the data that could be allocated.
ChainBlocks(owner, b, chain) ==
    (IF chain.queue THEN {Block(owner, b, 0, "queue")} ELSE {})
    \cup {Block(owner, b, k, "node") : k \in 1..Len(chain.nodes)}
    \cup {Block(owner, b, k, "data") : k \in {n \in 1..Len(chain.nodes) : chain.nodes[n]}}

\* freeQueue.
QueueBlocks(owner, b) == ChainBlocks(owner, b, chains[owner][b])

\* Mutant: the nodes are left.
TableAndQueues(owner) ==
    {Block(owner, 0, 0, "table")}
    \cup {Block(owner, b, 0, "queue") : b \in {c \in Buckets : chains[owner][c].nodes # <<>>}}

\* freeHashTable: a queue without nodes is not freed.
TableBlocks(owner) ==
    {Block(owner, 0, 0, "table")}
    \cup UNION {QueueBlocks(owner, b) : b \in {c \in Buckets : chains[owner][c].nodes # <<>>}}

MainBlocks == UNION {TableBlocks(t) : t \in MainTables}

Free(blocks) ==
    /\ heap' = heap \ blocks
    /\ misused' = (misused \/ ~(blocks \subseteq heap))

Allocate(blocks) ==
    /\ heap' = heap \cup blocks
    /\ UNCHANGED misused

Fails(next) ==
    /\ MayFail
    /\ pc' = next

\* createHashTable and createQueue: a new structure, with nothing in it.
Create(owner, block, next) ==
    /\ pc' = next
    /\ Allocate({block})
    /\ chains' = [chains EXCEPT ![owner] =
                     IF owner \in Queues THEN [NoChains EXCEPT ![0].queue = TRUE] ELSE NoChains]
    /\ insertions' = 0
    /\ UNCHANGED places

\* What hashInsert and enqueueV1_1 may leave of a chain: one node more, without data if
\* that could not be allocated, or no node, in a queue that may be new.
Filled(chain) ==
    {[queue |-> TRUE, nodes |-> Append(chain.nodes, d)] : d \in IF MayFail THEN BOOLEAN ELSE {TRUE}}
Unfilled(chain) ==
    IF MayFail THEN {chain, [chain EXCEPT !.queue = TRUE]} ELSE {}

\* An insertion in bucket b.
Insert(owner, b, chain, root) ==
    /\ insertions < MaxInsertions
    /\ chains' = [chains EXCEPT ![owner][b] = chain]
    /\ heap' = heap \cup ChainBlocks(owner, b, chain)
    /\ misused' = (misused \/ root \notin heap)
    /\ insertions' = insertions + 1
    /\ UNCHANGED places

-----------------------------------------------------------------------------
\* The keywords; if one cannot be stored the table is given up and not freed.

CreateKeywords ==
    /\ pc = "createReservedKeywordsTable"
    /\ \/ Create("reservedKeywords", Block("reservedKeywords", 0, 0, "table"),
                 "instantiateReservedKeywordsTable")
       \/ Fails("return") /\ UNCHANGED <<heap, chains, places, insertions, misused>>

InsertKeyword ==
    /\ pc = "instantiateReservedKeywordsTable"
    /\ \E b \in Buckets :
          LET old == chains["reservedKeywords"][b]
          IN  \E new \in Filled(old) \cup Unfilled(old) :
                 /\ Insert("reservedKeywords", b, new, Block("reservedKeywords", 0, 0, "table"))
                 /\ pc' = IF new \in Filled(old) THEN pc ELSE "return"

KeywordsDone ==
    /\ pc = "instantiateReservedKeywordsTable" /\ insertions > 0
    /\ pc' = "mainProgramLoop"
    /\ UNCHANGED <<heap, chains, places, insertions, misused>>

-----------------------------------------------------------------------------
\* One name after the other.

\* The buffer of a shorter name is not freed.  That the new one was not allocated
\* is not noticed, and the name is written through a null pointer.
copyNewFileName ==
    /\ pc = "mainProgramLoop" /\ turn < MaxNames
    /\ turn' = turn + 1
    /\ \E length \in Lengths :
          \/ /\ length <= currFileNameLen
             /\ pc' = "parseMacroV2"
             /\ UNCHANGED <<heap, nameBuffer, currFileNameLen>>
          \/ /\ length > currFileNameLen
             /\ heap' = heap \cup {NameBuffer(turn')}
             /\ nameBuffer' = turn' /\ currFileNameLen' = length
             /\ pc' = "parseMacroV2"
          \/ /\ length > currFileNameLen
             /\ Fails("undefined")
             /\ UNCHANGED <<heap, nameBuffer, currFileNameLen>>
    /\ UNCHANGED <<chains, insertions, misused>>

\* The source is not there, or its .am file not to be overwritten.
NoSource ==
    /\ pc = "parseMacroV2"
    /\ pc' = "mainProgramLoop"
    /\ UNCHANGED <<heap, chains, places, insertions, misused>>

\* parseMacroV2.  Without a table nothing is expanded and FALSE returned, which
\* startMacroExpansion does not look at.
CreateMacroTable ==
    /\ pc = "parseMacroV2"
    /\ \/ Create("macroTable", Block("macroTable", 0, 0, "table"), "runParseMacro")
       \/ /\ Fails("symbolTable")
          /\ UNCHANGED <<heap, chains, places, insertions, misused>>

\* What hashInsert returns is not looked at.
InsertMacro ==
    /\ pc = "runParseMacro"
    /\ \E b \in Buckets :
          \E new \in Filled(chains["macroTable"][b]) \cup Unfilled(chains["macroTable"][b]) :
             Insert("macroTable", b, new, Block("macroTable", 0, 0, "table"))
    /\ UNCHANGED pc

\* The expansion ends, and accepts the source or not.
FreeMacroTable ==
    /\ pc = "runParseMacro"
    /\ Free(TableBlocks("macroTable"))
    /\ pc' \in {"symbolTable", "mainProgramLoop"}
    /\ UNCHANGED <<chains, places, insertions>>

-----------------------------------------------------------------------------
\* createMainDataStructures: one structure after the other; if one fails, those before it are
\* freed and the name is given up.

After(owner) ==
    CASE owner = "symbolTable"  -> "entryTable"
      [] owner = "entryTable"   -> "externTable"
      [] owner = "externTable"  -> "instructionQ"
      [] owner = "instructionQ" -> "directiveQ"
      [] owner = "directiveQ"   -> "firstStage"

\* Mutant: as in createMainDataStructures when the queues fail.
FreedAllTables(owner) == IF owner \in MainTables \cup {"instructionQ"} THEN MainBlocks
                         ELSE MainBlocks \cup QueueBlocks("instructionQ", 0)

FreedBefore(owner) ==
    CASE owner = "symbolTable"  -> {}
      [] owner = "entryTable"   -> TableBlocks("symbolTable")
      [] owner = "externTable"  -> TableBlocks("symbolTable") \cup TableBlocks("entryTable")
      [] owner = "instructionQ" -> MainBlocks
      [] owner = "directiveQ"   -> QueueBlocks("instructionQ", 0) \cup MainBlocks

\* The structure pc names.
createMainDataStructures ==
    /\ pc \in MainTables \cup Queues
    /\ \/ Create(pc, Block(pc, 0, 0, IF pc \in Queues THEN "queue" ELSE "table"), After(pc))
       \/ /\ Fails("mainProgramLoop")
          /\ Free(FreedBefore(pc))
          /\ UNCHANGED <<chains, places, insertions>>

\* The first stage fills them.
InsertSymbol ==
    /\ pc = "firstStage"
    /\ \E t \in MainTables, b \in Buckets :
          \E new \in Filled(chains[t][b]) \cup Unfilled(chains[t][b]) :
             Insert(t, b, new, Block(t, 0, 0, "table"))
    /\ UNCHANGED pc

EnqueueWord ==
    /\ pc = "firstStage"
    /\ \E q \in Queues :
          \E new \in Filled(chains[q][0]) \cup Unfilled(chains[q][0]) :
             Insert(q, 0, new, Block(q, 0, 0, "queue"))
    /\ UNCHANGED pc

\* After validation and writing, which allocate nothing.
freeMainDataStructures ==
    /\ pc = "firstStage"
    /\ Free(MainBlocks \cup UNION {QueueBlocks(q, 0) : q \in Queues})
    /\ pc' = "mainProgramLoop"
    /\ UNCHANGED <<chains, places, insertions>>

\* The end of the loop; there is at least one name.
EndOfLoop ==
    /\ pc = "mainProgramLoop" /\ turn > 0
    /\ Free({NameBuffer(nameBuffer)} \cup TableBlocks("reservedKeywords"))
    /\ pc' = "return"
    /\ UNCHANGED <<chains, places, insertions>>

Next ==
    \/ CreateKeywords \/ InsertKeyword \/ KeywordsDone
    \/ copyNewFileName \/ NoSource
    \/ CreateMacroTable \/ InsertMacro \/ FreeMacroTable
    \/ createMainDataStructures \/ InsertSymbol \/ EnqueueWord \/ freeMainDataStructures
    \/ EndOfLoop

Spec == Init /\ [][Next]_vars

-----------------------------------------------------------------------------
\* However the allocations of a name fail, and whatever the names before it left in the
\* variables, nothing is freed twice and nothing is stored in a freed structure.
FreedOnce == ~misused

\* A queue that never got a node: freeHashTable passes it by.
IsEmptyQueue(block) ==
    /\ block[5] = "queue" /\ block[2] \notin Queues
    /\ \A other \in heap : other[5] = "node" => SubSeq(other, 1, 3) # SubSeq(block, 1, 3)

\* Between two names the program holds its keywords and the name buffers, at its end
\* only the buffers that a longer name replaced; else nothing but the empty queues of failed
\* insertions, and keywords that could not all be stored.
NothingElseLeaks ==
    /\ pc = "mainProgramLoop" =>
          \A block \in heap : block[2] \in {"reservedKeywords", "file"} \/ IsEmptyQueue(block)
    /\ pc = "return" /\ turn > 0 =>
          \A block \in heap :
             \/ IsEmptyQueue(block)
             \/ block[2] = "file" /\ block[1] < nameBuffer
=============================================================================
