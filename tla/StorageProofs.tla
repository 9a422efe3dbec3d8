--------------------------- MODULE StorageProofs ---------------------------
(***************************************************************************)
(* Proofs about Storage, for any number of names, lengths, buckets and     *)
(* insertions, and whichever allocations fail: nothing is freed twice or   *)
(* used after it was freed, and what is left allocated is accounted for.   *)
(***************************************************************************)
EXTENDS Storage, TLAPS, SequenceTheorems

Places == Buckets \cup {0}

\* The structures that the function at p may use or free.
Alive(p) ==
    (IF p \in {"createReservedKeywordsTable", "return", "undefined"} THEN {} ELSE {"reservedKeywords"})
    \cup (IF p = "runParseMacro" THEN {"macroTable"} ELSE {})
    \cup (IF p \in {"entryTable", "externTable", "instructionQ", "directiveQ", "firstStage"}
          THEN {"symbolTable"} ELSE {})
    \cup (IF p \in {"externTable", "instructionQ", "directiveQ", "firstStage"}
          THEN {"entryTable"} ELSE {})
    \cup (IF p \in {"instructionQ", "directiveQ", "firstStage"} THEN {"externTable"} ELSE {})
    \cup (IF p \in {"directiveQ", "firstStage"} THEN {"instructionQ"} ELSE {})
    \cup (IF p = "firstStage" THEN {"directiveQ"} ELSE {})

\* All that belongs to an owner.
Root(owner) == Block(owner, 0, 0, IF owner \in Queues THEN "queue" ELSE "table")
OwnerBlocks(owner) ==
    {Root(owner)} \cup UNION {ChainBlocks(owner, b, chains[owner][b]) : b \in Places}

\* They are allocated, and so is the name buffer once there is a name.
HeapInv ==
    /\ DOMAIN chains = Owners /\ \A o \in Owners : DOMAIN chains[o] = Places
    /\ turn \in Nat /\ currFileNameLen \in Nat
    /\ turn = 0 => currFileNameLen = 0
    /\ pc = "createReservedKeywordsTable" => turn = 0
    /\ pc \notin {"createReservedKeywordsTable", "return", "undefined"} =>
          (turn > 0 => NameBuffer(nameBuffer) \in heap)
    /\ \A o \in Alive(pc) : OwnerBlocks(o) \subseteq heap
    /\ ~misused

-----------------------------------------------------------------------------
\* What is in use is a structure, not a name.
LEMMA AliveOwners == ASSUME NEW p PROVE Alive(p) \subseteq Owners /\ "file" \notin Owners
BY DEF Alive, Owners, MainTables, Queues

\* A block names its owner.
LEMMA BlockNamesOwner ==
    ASSUME NEW o, NEW x \in OwnerBlocks(o)
    PROVE  x[2] = o
<1>1. ASSUME NEW b, NEW k, NEW kind PROVE Block(o, b, k, kind)[2] = o
  BY DEF Block
<1>2. ASSUME NEW b \in Places, x \in ChainBlocks(o, b, chains[o][b]) PROVE x[2] = o
  BY <1>1, <1>2 DEF ChainBlocks
<1> QED
  BY <1>1, <1>2 DEF OwnerBlocks, Root

\* What freeHashTable and freeQueue free belongs to the owner.
LEMMA TableIsOwners ==
    ASSUME NEW t \in Owners \ Queues
    PROVE  TableBlocks(t) \subseteq OwnerBlocks(t)
<1>1. ASSUME NEW b \in Buckets PROVE QueueBlocks(t, b) \subseteq OwnerBlocks(t)
  BY DEF QueueBlocks, OwnerBlocks, Places
<1>2. Block(t, 0, 0, "table") \in OwnerBlocks(t)
  BY DEF OwnerBlocks, Root
<1> QED
  BY <1>1, <1>2 DEF TableBlocks

\* So does what freeQueue frees.
LEMMA QueueIsOwners ==
    ASSUME NEW q
    PROVE  QueueBlocks(q, 0) \subseteq OwnerBlocks(q)
BY DEF QueueBlocks, OwnerBlocks, Places

\* Freeing what belongs to some owners leaves what belongs to the others.
LEMMA FreeKeeps ==
    ASSUME HeapInv, NEW S, S \subseteq Alive(pc),
           NEW blocks, \A x \in blocks : \E o \in S : x \in OwnerBlocks(o),
           Free(blocks), chains' = chains, UNCHANGED places,
           Alive(pc') \cap S = {}, Alive(pc') \subseteq Alive(pc),
           pc \notin {"createReservedKeywordsTable", "return", "undefined"},
           pc' # "createReservedKeywordsTable"
    PROVE  HeapInv'
<1>1. blocks \subseteq heap
  BY DEF HeapInv
<1>2. heap' = heap \ blocks /\ ~misused'
  BY <1>1 DEF Free, HeapInv
<1>3. ASSUME NEW x \in blocks PROVE x[2] \in S
  BY BlockNamesOwner
<1>4. ASSUME NEW o \in Alive(pc') PROVE OwnerBlocks(o)' \subseteq heap'
  <2>1. OwnerBlocks(o)' = OwnerBlocks(o)
    BY DEF OwnerBlocks, Root, ChainBlocks, Block, places
  <2>2. OwnerBlocks(o) \subseteq heap
    BY DEF HeapInv
  <2>3. ASSUME NEW x \in OwnerBlocks(o) PROVE x \notin blocks
    BY <1>3, BlockNamesOwner
  <2> QED
    BY <1>2, <2>1, <2>2, <2>3
<1>5. turn > 0 => NameBuffer(nameBuffer) \in heap'
  <2>1. NameBuffer(nameBuffer)[2] = "file"
    BY DEF NameBuffer
  <2>2. "file" \notin S
    BY AliveOwners
  <2>3. NameBuffer(nameBuffer) \notin blocks
    BY <1>3, <2>1, <2>2
  <2> QED
    BY <1>2, <2>3 DEF HeapInv
<1>6. NameBuffer(nameBuffer)' = NameBuffer(nameBuffer) /\ turn' = turn /\ currFileNameLen' = currFileNameLen
  BY DEF NameBuffer, places
<1> QED
  BY <1>2, <1>4, <1>5, <1>6 DEF HeapInv

\* An insertion is one in a table that is there, and adds what it needs.
LEMMA InsertKeeps ==
    ASSUME HeapInv, NEW owner \in Alive(pc), NEW b \in Places, NEW chain,
           Insert(owner, b, chain, Root(owner)),
           Alive(pc') \subseteq Alive(pc), pc' # "createReservedKeywordsTable",
           pc \notin {"createReservedKeywordsTable", "return", "undefined"}
    PROVE  HeapInv'
<1>1. Root(owner) \in heap
  BY DEF HeapInv, OwnerBlocks
<1>2. /\ chains' = [chains EXCEPT ![owner][b] = chain]
      /\ heap' = heap \cup ChainBlocks(owner, b, chain)
      /\ ~misused'
      /\ turn' = turn /\ nameBuffer' = nameBuffer /\ currFileNameLen' = currFileNameLen
  BY <1>1 DEF Insert, HeapInv, places
<1>3. owner \in Owners
  BY AliveOwners
<1>4. DOMAIN chains' = Owners /\ \A o \in Owners : DOMAIN chains'[o] = Places
  BY <1>2, <1>3 DEF HeapInv
<1>5. ASSUME NEW o \in Alive(pc') PROVE OwnerBlocks(o)' \subseteq heap'
  <2>1. o \in Owners /\ OwnerBlocks(o) \subseteq heap
    BY AliveOwners DEF HeapInv
  <2>2. Root(o)' = Root(o)
    BY <1>2 DEF Root, Block
  <2>3. ASSUME NEW c \in Places PROVE ChainBlocks(o, c, chains[o][c])' \subseteq heap'
    <3>1. CASE o = owner /\ c = b
      <4>1. chains'[o][c] = chain
        BY <1>2, <1>3, <3>1 DEF HeapInv
      <4>2. ChainBlocks(o, c, chains[o][c])' = ChainBlocks(owner, b, chain)
        BY <1>2, <3>1, <4>1 DEF ChainBlocks, Block
      <4> QED
        BY <1>2, <4>2
    <3>2. CASE ~(o = owner /\ c = b)
      <4>1. chains'[o][c] = chains[o][c]
        BY <1>2, <1>3, <2>1, <3>2 DEF HeapInv
      <4>2. ChainBlocks(o, c, chains[o][c])' = ChainBlocks(o, c, chains[o][c])
        BY <1>2, <4>1 DEF ChainBlocks, Block
      <4>3. ChainBlocks(o, c, chains[o][c]) \subseteq heap
        BY <2>1 DEF OwnerBlocks
      <4> QED
        BY <1>2, <4>2, <4>3
    <3> QED
      BY <3>1, <3>2
  <2>4. Root(o) \in heap
    BY <2>1 DEF OwnerBlocks
  <2> QED
    BY <1>2, <2>2, <2>3, <2>4 DEF OwnerBlocks
<1>6. turn > 0 => NameBuffer(nameBuffer)' \in heap'
  BY <1>2 DEF HeapInv, NameBuffer
<1> QED
  BY <1>2, <1>4, <1>5, <1>6 DEF HeapInv

\* A new structure has nothing in it but, if it is a queue, the queue.
LEMMA CreateKeeps ==
    ASSUME HeapInv, NEW owner \in Owners, NEW next, Create(owner, Root(owner), next),
           Alive(next) \subseteq Alive(pc) \cup {owner}, next # "createReservedKeywordsTable",
           \/ pc \notin {"createReservedKeywordsTable", "return", "undefined"}
           \/ pc = "createReservedKeywordsTable"
    PROVE  HeapInv'
<1> DEFINE new == IF owner \in Queues THEN [NoChains EXCEPT ![0].queue = TRUE] ELSE NoChains
<1>1. /\ chains' = [chains EXCEPT ![owner] = new]
      /\ heap' = heap \cup {Root(owner)} /\ ~misused' /\ pc' = next
      /\ turn' = turn /\ nameBuffer' = nameBuffer /\ currFileNameLen' = currFileNameLen
  BY DEF Create, Allocate, places, HeapInv
<1>2. /\ DOMAIN new = Places
      /\ \A b \in Places : new[b].nodes = <<>>
      /\ \A b \in Places : new[b].queue => owner \in Queues /\ b = 0
  BY DEF NoChains, NoChain, Places
<1> HIDE DEF new
<1>3. DOMAIN chains' = Owners /\ \A o \in Owners : DOMAIN chains'[o] = Places
  BY <1>1, <1>2 DEF HeapInv
<1>4. ASSUME NEW o \in Alive(next) PROVE OwnerBlocks(o)' \subseteq heap'
  <2>0. o \in Owners
    BY AliveOwners
  <2>1. Root(o)' = Root(o)
    BY <1>1 DEF Root, Block
  <2>2. CASE o = owner
    <3>1. chains'[o] = new
      BY <1>1, <2>2 DEF HeapInv
    <3>2. ASSUME NEW b \in Places PROVE ChainBlocks(o, b, chains[o][b])' \subseteq {Root(o)}
      <4>1. chains'[o][b].nodes = <<>> /\ (chains'[o][b].queue => o \in Queues /\ b = 0)
        BY <1>2, <2>2, <3>1
      <4>2. 1..Len(chains'[o][b].nodes) = {}
        BY <4>1
      <4> QED
        BY <1>1, <4>1, <4>2 DEF ChainBlocks, Root, Block
    <3> QED
      BY <1>1, <2>1, <2>2, <3>2 DEF OwnerBlocks
  <2>3. CASE o # owner
    <3>1. chains'[o] = chains[o]
      BY <1>1, <2>0, <2>3 DEF HeapInv
    <3>2. OwnerBlocks(o)' = OwnerBlocks(o)
      BY <1>1, <3>1 DEF OwnerBlocks, ChainBlocks, Root, Block
    <3>3. o \in Alive(pc)
      BY <2>3
    <3> QED
      BY <1>1, <3>2, <3>3 DEF HeapInv
  <2> QED
    BY <2>2, <2>3
<1>5. turn > 0 => NameBuffer(nameBuffer)' \in heap'
  BY <1>1 DEF HeapInv, NameBuffer
<1> QED
  BY <1>1, <1>3, <1>4, <1>5 DEF HeapInv

\* Nothing is allocated or freed.
LEMMA HeapKept ==
    ASSUME HeapInv, heap' = heap, chains' = chains, misused' = misused, UNCHANGED places,
           Alive(pc') \subseteq Alive(pc), pc' # "createReservedKeywordsTable",
           \/ pc \notin {"createReservedKeywordsTable", "return", "undefined"}
           \/ pc' \in {"return", "undefined"}
    PROVE  HeapInv'
<1>1. ASSUME NEW o \in Alive(pc') PROVE OwnerBlocks(o)' \subseteq heap'
  <2>1. OwnerBlocks(o)' = OwnerBlocks(o)
    BY DEF OwnerBlocks, Root, ChainBlocks, Block, places
  <2> QED
    BY <2>1 DEF HeapInv
<1>2. /\ turn' = turn /\ currFileNameLen' = currFileNameLen
      /\ NameBuffer(nameBuffer)' = NameBuffer(nameBuffer)
  BY DEF places, NameBuffer
<1> QED
  BY <1>1, <1>2 DEF HeapInv

\* The next name, in the buffer there is or in a new one.
LEMMA NextNameKeeps ==
    ASSUME HeapInv, copyNewFileName
    PROVE  HeapInv'
<1>1. /\ pc = "mainProgramLoop" /\ turn' = turn + 1
      /\ chains' = chains /\ misused' = misused
  BY DEF copyNewFileName
<1>2. ASSUME NEW o \in Alive(pc), heap \subseteq heap'
      PROVE  OwnerBlocks(o)' \subseteq heap'
  <2>1. o = "reservedKeywords"
    BY <1>1 DEF Alive
  <2>2. OwnerBlocks(o)' = OwnerBlocks(o)
    BY <1>1, <2>1 DEF OwnerBlocks, Root, ChainBlocks, Block
  <2> QED
    BY <1>2, <2>2 DEF HeapInv
<1>3. PICK length \in Lengths :
         \/ /\ length <= currFileNameLen
            /\ pc' = "parseMacroV2"
            /\ heap' = heap /\ nameBuffer' = nameBuffer /\ currFileNameLen' = currFileNameLen
         \/ /\ length > currFileNameLen
            /\ heap' = heap \cup {NameBuffer(turn')}
            /\ nameBuffer' = turn' /\ currFileNameLen' = length
            /\ pc' = "parseMacroV2"
         \/ /\ pc' = "undefined"
            /\ heap' = heap /\ nameBuffer' = nameBuffer /\ currFileNameLen' = currFileNameLen
  BY DEF copyNewFileName, Fails
<1>4. length \in Nat /\ length > 0
  BY StorageAssumption
<1>5. /\ turn \in Nat /\ currFileNameLen \in Nat /\ (turn = 0 => currFileNameLen = 0)
      /\ turn > 0 => NameBuffer(nameBuffer) \in heap
  BY <1>1 DEF HeapInv
<1>6. turn' \in Nat /\ turn' > 0 /\ currFileNameLen' \in Nat /\ heap \subseteq heap'
  BY <1>1, <1>3, <1>4, <1>5
<1>7. pc' = "parseMacroV2" => NameBuffer(nameBuffer)' \in heap'
  BY <1>3, <1>4, <1>5 DEF NameBuffer
<1>8. Alive(pc') \subseteq Alive(pc) /\ pc' \in {"parseMacroV2", "undefined"}
  BY <1>1, <1>3 DEF Alive
<1>9. \A o \in Alive(pc') : OwnerBlocks(o)' \subseteq heap'
  BY <1>2, <1>6, <1>8
<1> QED
  BY <1>1, <1>6, <1>7, <1>8, <1>9 DEF HeapInv

\* A structure for the first stage is created, or those before it are freed.
LEMMA StructureKeeps ==
    ASSUME HeapInv, createMainDataStructures
    PROVE  HeapInv'
<1>1. pc \in MainTables \cup Queues
  BY DEF createMainDataStructures
<1>2. CASE Create(pc, Block(pc, 0, 0, IF pc \in Queues THEN "queue" ELSE "table"), After(pc))
  <2>1. Create(pc, Root(pc), After(pc))
    BY <1>2 DEF Root
  <2>2. /\ Alive(After(pc)) \subseteq Alive(pc) \cup {pc}
        /\ After(pc) # "createReservedKeywordsTable"
        /\ pc \notin {"createReservedKeywordsTable", "return", "undefined"}
        /\ pc \in Owners
    BY <1>1 DEF Alive, After, MainTables, Queues, Owners
  <2> QED
    BY <2>1, <2>2, CreateKeeps
<1>3. CASE Fails("mainProgramLoop") /\ Free(FreedBefore(pc)) /\ UNCHANGED <<chains, places, insertions>>
  <2> DEFINE S == Alive(pc) \ {"reservedKeywords"}
  <2>1. \A t \in MainTables : t \in Owners \ Queues
    BY DEF MainTables, Owners, Queues
  <2>2. ASSUME NEW x \in FreedBefore(pc) PROVE \E o \in S : x \in OwnerBlocks(o)
    <3>1. CASE pc = "symbolTable"
      BY <2>2, <3>1 DEF FreedBefore
    <3>2. CASE pc = "entryTable"
      <4>1. x \in TableBlocks("symbolTable") /\ "symbolTable" \in S
        BY <2>2, <3>2 DEF FreedBefore, Alive
      <4> QED
        BY <2>1, <4>1, TableIsOwners DEF MainTables
    <3>3. CASE pc = "externTable"
      <4>1. x \in TableBlocks("symbolTable") \cup TableBlocks("entryTable")
            /\ {"symbolTable", "entryTable"} \subseteq S
        BY <2>2, <3>3 DEF FreedBefore, Alive
      <4> QED
        BY <2>1, <4>1, TableIsOwners DEF MainTables
    <3>4. CASE pc = "instructionQ"
      <4>1. x \in MainBlocks /\ MainTables \subseteq S
        BY <2>2, <3>4 DEF FreedBefore, Alive, MainTables
      <4> QED
        BY <2>1, <4>1, TableIsOwners DEF MainBlocks
    <3>5. CASE pc = "directiveQ"
      <4>1. x \in QueueBlocks("instructionQ", 0) \cup MainBlocks
            /\ MainTables \cup {"instructionQ"} \subseteq S
        BY <2>2, <3>5 DEF FreedBefore, Alive, MainTables
      <4> QED
        BY <2>1, <4>1, TableIsOwners, QueueIsOwners DEF MainBlocks
    <3> QED
      BY <1>1, <3>1, <3>2, <3>3, <3>4, <3>5 DEF MainTables, Queues
  <2>3. pc' = "mainProgramLoop"
    BY <1>3 DEF Fails
  <2>4. Alive(pc') = {"reservedKeywords"} /\ "reservedKeywords" \in Alive(pc)
    BY <1>1, <2>3 DEF Alive, MainTables, Queues
  <2>5. pc \notin {"createReservedKeywordsTable", "return", "undefined"}
    BY <1>1 DEF MainTables, Queues
  <2> QED
    BY <1>3, <2>2, <2>3, <2>4, <2>5, FreeKeeps
<1> QED
  BY <1>2, <1>3 DEF createMainDataStructures

\* At the end of an assembly everything it allocated is freed.
LEMMA AssemblyFreed ==
    ASSUME HeapInv, freeMainDataStructures
    PROVE  HeapInv'
<1> DEFINE S == MainTables \cup Queues
           blocks == MainBlocks \cup UNION {QueueBlocks(q, 0) : q \in Queues}
<1>1. pc = "firstStage" /\ pc' = "mainProgramLoop" /\ Free(blocks)
      /\ chains' = chains /\ UNCHANGED places
  BY DEF freeMainDataStructures
<1>2. ASSUME NEW x \in blocks PROVE \E o \in S : x \in OwnerBlocks(o)
  <2>1. CASE x \in MainBlocks
    <3>1. PICK t \in MainTables : x \in TableBlocks(t)
      BY <2>1 DEF MainBlocks
    <3>2. t \in Owners \ Queues
      BY DEF MainTables, Owners, Queues
    <3> QED
      BY <3>1, <3>2, TableIsOwners
  <2>2. CASE x \in UNION {QueueBlocks(q, 0) : q \in Queues}
    <3>1. PICK q \in Queues : x \in QueueBlocks(q, 0)
      BY <2>2
    <3> QED
      BY <3>1, QueueIsOwners
  <2> QED
    BY <1>2, <2>1, <2>2
<1>3. /\ S \subseteq Alive(pc) /\ Alive(pc') \cap S = {} /\ Alive(pc') \subseteq Alive(pc)
  BY <1>1 DEF Alive, MainTables, Queues
<1> HIDE DEF S, blocks
<1> QED
  BY <1>1, <1>2, <1>3, FreeKeeps

\* The last that is freed, the keywords and the name buffer, is still allocated.
LEMMA LoopEnds ==
    ASSUME HeapInv, EndOfLoop
    PROVE  HeapInv'
<1>1. /\ pc = "mainProgramLoop" /\ turn > 0 /\ pc' = "return"
      /\ Free({NameBuffer(nameBuffer)} \cup TableBlocks("reservedKeywords"))
      /\ chains' = chains /\ turn' = turn /\ currFileNameLen' = currFileNameLen
  BY DEF EndOfLoop, places
<1>2. "reservedKeywords" \in Alive(pc) /\ "reservedKeywords" \in Owners \ Queues
  BY <1>1 DEF Alive, Owners, Queues
<1>3. NameBuffer(nameBuffer) \in heap /\ TableBlocks("reservedKeywords") \subseteq heap
  BY <1>1, <1>2, TableIsOwners DEF HeapInv
<1>4. ~misused'
  BY <1>1, <1>3 DEF Free, HeapInv
<1>5. Alive(pc') = {}
  BY <1>1 DEF Alive
<1> QED
  BY <1>1, <1>4, <1>5 DEF HeapInv

\* What the structures in use have is allocated, at every step.
LEMMA HeapInvariant == Spec => []HeapInv
<1>1. Init => HeapInv
  BY DEF Init, HeapInv, Alive, NoChains, Places
<1>2. HeapInv /\ [Next]_vars => HeapInv'
  <2> SUFFICES ASSUME HeapInv, [Next]_vars PROVE HeapInv'
    OBVIOUS
  <2>1. CASE CreateKeywords
    <3>1. CASE Create("reservedKeywords", Block("reservedKeywords", 0, 0, "table"),
                      "instantiateReservedKeywordsTable")
      <4>1. Root("reservedKeywords") = Block("reservedKeywords", 0, 0, "table")
        BY DEF Root, Queues
      <4>2. /\ "reservedKeywords" \in Owners /\ pc = "createReservedKeywordsTable"
            /\ Alive("instantiateReservedKeywordsTable") \subseteq Alive(pc) \cup {"reservedKeywords"}
        BY <2>1 DEF CreateKeywords, Alive, Owners
      <4> QED
        BY <3>1, <4>1, <4>2, CreateKeeps
    <3>2. CASE Fails("return") /\ UNCHANGED <<heap, chains, places, insertions, misused>>
      <4>1. pc' = "return" /\ Alive(pc') \subseteq Alive(pc)
        BY <3>2 DEF Fails, Alive
      <4> QED
        BY <3>2, <4>1, HeapKept
    <3> QED
      BY <2>1, <3>1, <3>2 DEF CreateKeywords
  <2>2. CASE InsertKeyword
    <3>1. PICK b, chain :
             /\ b \in Buckets
             /\ Insert("reservedKeywords", b, chain, Block("reservedKeywords", 0, 0, "table"))
             /\ pc' \in {pc, "return"} /\ pc = "instantiateReservedKeywordsTable"
      BY <2>2 DEF InsertKeyword
    <3>2. Root("reservedKeywords") = Block("reservedKeywords", 0, 0, "table")
      BY DEF Root, Queues
    <3>3. "reservedKeywords" \in Alive(pc) /\ Alive(pc') \subseteq Alive(pc) /\ b \in Places
      BY <3>1 DEF Alive, Places
    <3> QED
      BY <3>1, <3>2, <3>3, InsertKeeps
  <2>3. CASE KeywordsDone
    BY <2>3, HeapKept DEF KeywordsDone, Alive
  <2>4. CASE copyNewFileName
    BY <2>4, NextNameKeeps
  <2>5. CASE NoSource
    BY <2>5, HeapKept DEF NoSource, Alive
  <2>6. CASE CreateMacroTable
    <3>1. CASE Create("macroTable", Block("macroTable", 0, 0, "table"), "runParseMacro")
      <4>1. Root("macroTable") = Block("macroTable", 0, 0, "table")
        BY DEF Root, Queues
      <4>2. /\ "macroTable" \in Owners /\ pc = "parseMacroV2"
            /\ Alive("runParseMacro") \subseteq Alive(pc) \cup {"macroTable"}
        BY <2>6 DEF CreateMacroTable, Alive, Owners
      <4> QED
        BY <3>1, <4>1, <4>2, CreateKeeps
    <3>2. CASE Fails("symbolTable") /\ UNCHANGED <<heap, chains, places, insertions, misused>>
      <4>1. pc = "parseMacroV2" /\ pc' = "symbolTable" /\ Alive(pc') \subseteq Alive(pc)
        BY <2>6, <3>2 DEF CreateMacroTable, Fails, Alive
      <4> QED
        BY <3>2, <4>1, HeapKept
    <3> QED
      BY <2>6, <3>1, <3>2 DEF CreateMacroTable
  <2>7. CASE InsertMacro
    <3>1. PICK b, chain :
             /\ b \in Buckets
             /\ Insert("macroTable", b, chain, Block("macroTable", 0, 0, "table"))
             /\ pc' = pc /\ pc = "runParseMacro"
      BY <2>7 DEF InsertMacro
    <3>2. Root("macroTable") = Block("macroTable", 0, 0, "table")
      BY DEF Root, Queues
    <3>3. "macroTable" \in Alive(pc) /\ b \in Places
      BY <3>1 DEF Alive, Places
    <3> QED
      BY <3>1, <3>2, <3>3, InsertKeeps
  <2>8. CASE FreeMacroTable
    <3>1. /\ pc = "runParseMacro" /\ Free(TableBlocks("macroTable"))
          /\ pc' \in {"symbolTable", "mainProgramLoop"}
          /\ chains' = chains /\ UNCHANGED places
      BY <2>8 DEF FreeMacroTable
    <3>2. "macroTable" \in Owners \ Queues
      BY DEF Owners, Queues
    <3>3. \A x \in TableBlocks("macroTable") : \E o \in {"macroTable"} : x \in OwnerBlocks(o)
      BY <3>2, TableIsOwners
    <3>4. /\ {"macroTable"} \subseteq Alive(pc) /\ Alive(pc') \cap {"macroTable"} = {}
          /\ Alive(pc') \subseteq Alive(pc)
      BY <3>1 DEF Alive
    <3> QED
      BY <3>1, <3>3, <3>4, FreeKeeps
  <2>9. CASE createMainDataStructures
    BY <2>9, StructureKeeps
  <2>10. CASE InsertSymbol
    <3>1. PICK t, b, chain :
             /\ t \in MainTables /\ b \in Buckets
             /\ Insert(t, b, chain, Block(t, 0, 0, "table"))
             /\ pc' = pc /\ pc = "firstStage"
      BY <2>10 DEF InsertSymbol
    <3>2. Root(t) = Block(t, 0, 0, "table")
      BY <3>1 DEF Root, Queues, MainTables
    <3>3. t \in Alive(pc) /\ b \in Places
      BY <3>1 DEF Alive, Places, MainTables
    <3> QED
      BY <3>1, <3>2, <3>3, InsertKeeps
  <2>11. CASE EnqueueWord
    <3>1. PICK q, chain :
             /\ q \in Queues
             /\ Insert(q, 0, chain, Block(q, 0, 0, "queue"))
             /\ pc' = pc /\ pc = "firstStage"
      BY <2>11 DEF EnqueueWord
    <3>2. Root(q) = Block(q, 0, 0, "queue")
      BY <3>1 DEF Root
    <3>3. q \in Alive(pc) /\ 0 \in Places
      BY <3>1 DEF Alive, Places, Queues
    <3> QED
      BY <3>1, <3>2, <3>3, InsertKeeps
  <2>12. CASE freeMainDataStructures
    BY <2>12, AssemblyFreed
  <2>13. CASE EndOfLoop
    BY <2>13, LoopEnds
  <2>14. CASE UNCHANGED vars
    BY <2>14 DEF vars, HeapInv, OwnerBlocks, Root, ChainBlocks, Block, NameBuffer
  <2> QED
    BY <2>1, <2>2, <2>3, <2>4, <2>5, <2>6, <2>7, <2>8, <2>9, <2>10, <2>11, <2>12, <2>13, <2>14
       DEF Next
<1> QED
  BY <1>1, <1>2, PTL DEF Spec

\* Whichever allocation fails, in whichever turn of the loop: no block is freed twice, and
\* nothing is stored in a structure that was freed or never created.
THEOREM NothingMisused == Spec => []FreedOnce
<1>1. HeapInv => FreedOnce
  BY DEF HeapInv, FreedOnce
<1> QED
  BY <1>1, HeapInvariant, PTL

-----------------------------------------------------------------------------
\* What is left allocated.

\* The tables that were freed in this turn, or will not be created in it.
Finished(p) ==
    (IF p \in {"mainProgramLoop", "return"} THEN MainTables \cup {"macroTable"} ELSE {})
    \cup (IF p \in MainTables \cup Queues \cup {"firstStage"} THEN {"macroTable"} ELSE {})
    \cup (IF p = "return" THEN {"reservedKeywords"} ELSE {})

\* A table has no bucket 0, and a queue no other.
Shapes ==
    /\ \A o \in Owners, b \in Places : chains[o][b] \in [queue : BOOLEAN, nodes : Seq(BOOLEAN)]
    /\ \A q \in Queues, b \in Buckets : chains[q][b] = NoChain
    /\ \A t \in Owners \ Queues : chains[t][0] = NoChain
    /\ \A q \in Queues : q \in Alive(pc) => chains[q][0].queue

\* The name buffers, the last of which is freed at the end.
IsName(x) == \E t \in Nat : /\ t <= nameBuffer /\ (pc = "return" => t < nameBuffer)
                            /\ x = NameBuffer(t)
IsUsed(x) == \E o \in Alive(pc) : x \in OwnerBlocks(o)

\* A queue that freeHashTable passed by.
NoNodes(t, o, b) == \A y \in heap : ~(y[5] = "node" /\ y[1] = t /\ y[2] = o /\ y[3] = b)
IsLeft(x) ==
    \E t \in Nat, o \in Owners \ Queues, b \in Places :
        /\ x = <<t, o, b, 0, "queue">>
        /\ \/ t < turn /\ o # "reservedKeywords"
           \/ t <= turn /\ o \in Finished(pc)
        /\ NoNodes(t, o, b)

\* Unless the program gives up, each block is one of the three.
Accounted ==
    pc # "undefined" /\ (pc = "return" => turn > 0) =>
        \A x \in heap : IsName(x) \/ IsUsed(x) \/ IsLeft(x)

LeakInv ==
    /\ Shapes
    /\ nameBuffer \in Nat /\ nameBuffer <= turn
    /\ pc \in {"createReservedKeywordsTable", "instantiateReservedKeywordsTable"} => turn = 0
    /\ Accounted

\* The blocks of an owner: its root, queues, nodes and data.
LEMMA PartsOfOwner ==
    ASSUME NEW o, NEW x \in OwnerBlocks(o)
    PROVE  \/ x = Root(o)
           \/ \E b \in Places :
                 \/ chains[o][b].queue /\ x = Block(o, b, 0, "queue")
                 \/ \E k \in 1..Len(chains[o][b].nodes), kind \in {"node", "data"} :
                       x = Block(o, b, k, kind)
<1>1. ASSUME NEW b \in Places, x \in ChainBlocks(o, b, chains[o][b])
      PROVE  \/ chains[o][b].queue /\ x = Block(o, b, 0, "queue")
             \/ \E k \in 1..Len(chains[o][b].nodes), kind \in {"node", "data"} :
                   x = Block(o, b, k, kind)
  <2>1. CASE x \in (IF chains[o][b].queue THEN {Block(o, b, 0, "queue")} ELSE {})
    BY <2>1
  <2>2. CASE x \in {Block(o, b, k, "node") : k \in 1..Len(chains[o][b].nodes)}
    BY <2>2
  <2>3. CASE x \in {Block(o, b, k, "data") : k \in {n \in 1..Len(chains[o][b].nodes) : chains[o][b].nodes[n]}}
    BY <2>3
  <2> QED
    BY <1>1, <2>1, <2>2, <2>3 DEF ChainBlocks
<1> QED
  BY <1>1 DEF OwnerBlocks

\* Of a table, freeHashTable leaves the queues without nodes.
LEMMA TableFreed ==
    ASSUME Shapes, NEW o \in Owners \ Queues, NEW x \in OwnerBlocks(o), x \notin TableBlocks(o)
    PROVE  \E b \in Buckets : x = Block(o, b, 0, "queue") /\ chains[o][b].nodes = <<>>
<1>1. x # Root(o)
  BY DEF TableBlocks, Root
<1>2. PICK b \in Places : x \in ChainBlocks(o, b, chains[o][b])
  BY <1>1 DEF OwnerBlocks
<1>3. b \in Buckets
  <2>1. SUFFICES ASSUME b = 0 PROVE FALSE
    BY DEF Places
  <2>2. chains[o][b] = NoChain
    BY <2>1 DEF Shapes
  <2>3. 1..Len(<<>>) = {}
    OBVIOUS
  <2> QED
    BY <1>2, <2>2, <2>3 DEF NoChain, ChainBlocks
<1>4. chains[o][b].nodes = <<>>
  BY <1>2, <1>3 DEF TableBlocks, QueueBlocks
<1>5. 1..Len(chains[o][b].nodes) = {}
  BY <1>4
<1>6. x = Block(o, b, 0, "queue")
  BY <1>2, <1>5 DEF ChainBlocks
<1> QED
  BY <1>3, <1>4, <1>6

\* Of a queue, freeQueue leaves nothing.
LEMMA QueueFreed ==
    ASSUME Shapes, NEW q \in Queues, q \in Alive(pc), NEW x \in OwnerBlocks(q)
    PROVE  x \in QueueBlocks(q, 0)
<1>1. chains[q][0].queue /\ \A b \in Buckets : chains[q][b] = NoChain
  BY DEF Shapes
<1>2. Root(q) \in QueueBlocks(q, 0)
  BY <1>1 DEF Root, QueueBlocks, ChainBlocks
<1>3. ASSUME NEW b \in Buckets PROVE ChainBlocks(q, b, chains[q][b]) = {}
  <2>1. 1..Len(<<>>) = {}
    OBVIOUS
  <2> QED
    BY <1>1, <2>1 DEF ChainBlocks, NoChain
<1> QED
  BY <1>2, <1>3 DEF OwnerBlocks, Places, QueueBlocks

\* What is in use has not been freed.
LEMMA NoTableInUseIsFinished ==
    ASSUME NEW p
    PROVE  Alive(p) \cap Finished(p) = {}
BY DEF Alive, Finished, MainTables, Queues

\* A node that is allocated is one of a chain in use.
LEMMA NodeInUse ==
    ASSUME NEW y, IsName(y) \/ IsUsed(y) \/ IsLeft(y), y[5] = "node"
    PROVE  /\ y[2] \in Alive(pc)
           /\ \E b \in Places : \E k \in 1..Len(chains[y[2]][b].nodes) : y = Block(y[2], b, k, "node")
<1>1. CASE IsName(y)
  BY <1>1 DEF IsName, NameBuffer
<1>2. CASE IsLeft(y)
  BY <1>2 DEF IsLeft
<1>3. CASE IsUsed(y)
  <2>1. PICK o \in Alive(pc) : y \in OwnerBlocks(o)
    BY <1>3 DEF IsUsed
  <2>2. y[2] = o
    BY <2>1, BlockNamesOwner
  <2>3. y # Root(o)
    BY DEF Root, Block
  <2>4. \A b, k : \A kind \in {"data", "queue"} : y # Block(o, b, k, kind)
    BY DEF Block
  <2>5. \E b \in Places : \E k \in 1..Len(chains[o][b].nodes), kind \in {"node", "data"} :
           y = Block(o, b, k, kind)
    BY <2>1, <2>3, <2>4, PartsOfOwner
  <2>6. \E b \in Places : \E k \in 1..Len(chains[o][b].nodes) : y = Block(o, b, k, "node")
    BY <2>4, <2>5
  <2> QED
    BY <2>1, <2>2, <2>6
<1> QED
  BY <1>1, <1>2, <1>3

\* What is freed is all that its owners have, but for the queues without nodes.
LEMMA FreeAccounts ==
    ASSUME HeapInv, LeakInv, NEW S, S \subseteq Alive(pc), NEW blocks, Free(blocks),
           \A o \in S \ Queues : TableBlocks(o) \subseteq blocks,
           \A q \in S \cap Queues : QueueBlocks(q, 0) \subseteq blocks,
           chains' = chains, UNCHANGED places,
           Alive(pc') = Alive(pc) \ S, S \ Queues \subseteq Finished(pc'),
           Finished(pc) \subseteq Finished(pc'),
           pc \notin {"return", "undefined"},
           pc' \notin {"createReservedKeywordsTable", "instantiateReservedKeywordsTable"},
           pc' = "return" => NameBuffer(nameBuffer) \in blocks
    PROVE  LeakInv'
<1>1. /\ heap' = heap \ blocks /\ turn' = turn /\ nameBuffer' = nameBuffer
      /\ \A o : OwnerBlocks(o)' = OwnerBlocks(o)
      /\ \A t : NameBuffer(t)' = NameBuffer(t)
  BY DEF Free, places, OwnerBlocks, Root, ChainBlocks, Block, NameBuffer
<1>2. \A x \in heap : IsName(x) \/ IsUsed(x) \/ IsLeft(x)
  BY DEF LeakInv, Accounted
<1>3. Alive(pc) \subseteq Owners /\ turn \in Nat
  BY AliveOwners DEF HeapInv
<1>4. ASSUME NEW x \in heap' PROVE IsName(x)' \/ IsUsed(x)' \/ IsLeft(x)'
  <2>1. x \in heap /\ x \notin blocks
    BY <1>1
  <2>2. CASE IsName(x)
    <3>1. PICK t \in Nat : t <= nameBuffer /\ x = NameBuffer(t)
      BY <2>2 DEF IsName
    <3>2. pc' = "return" => t < nameBuffer
      BY <2>1, <3>1 DEF LeakInv
    <3> QED
      BY <1>1, <3>1, <3>2 DEF IsName
  <2>3. CASE IsLeft(x)
    <3>1. PICK t \in Nat, o \in Owners \ Queues, b \in Places :
             /\ x = <<t, o, b, 0, "queue">>
             /\ \/ t < turn /\ o # "reservedKeywords"
                \/ t <= turn /\ o \in Finished(pc)
             /\ NoNodes(t, o, b)
      BY <2>3 DEF IsLeft
    <3>2. NoNodes(t, o, b)'
      BY <1>1, <3>1 DEF NoNodes
    <3>3. \/ t < turn' /\ o # "reservedKeywords"
          \/ t <= turn' /\ o \in Finished(pc')
      BY <1>1, <3>1
    <3> QED
      BY <3>1, <3>2, <3>3 DEF IsLeft
  <2>4. CASE IsUsed(x)
    <3>1. PICK o \in Alive(pc) : x \in OwnerBlocks(o)
      BY <2>4 DEF IsUsed
    <3>2. CASE o \notin S
      BY <1>1, <3>1, <3>2 DEF IsUsed
    <3>3. CASE o \in S \cap Queues
      BY <2>1, <3>1, <3>3, QueueFreed DEF LeakInv
    <3>4. CASE o \in S \ Queues
      <4>1. PICK b \in Buckets : x = Block(o, b, 0, "queue") /\ chains[o][b].nodes = <<>>
        BY <1>3, <2>1, <3>1, <3>4, TableFreed DEF LeakInv
      <4>2. /\ o \in Finished(pc') /\ o \in Owners \ Queues /\ b \in Places
            /\ \E t \in Nat : t <= turn' /\ x = <<t, o, b, 0, "queue">>
        BY <1>1, <1>3, <3>4, <4>1 DEF Block, Places
      <4>5. PICK t \in Nat : t <= turn' /\ x = <<t, o, b, 0, "queue">>
        BY <4>2
      <4>3. ASSUME NEW y \in heap', y[5] = "node", y[2] = o, y[3] = b PROVE FALSE
        <5>1. PICK c \in Places : \E k \in 1..Len(chains[o][c].nodes) : y = Block(o, c, k, "node")
          <6>1. IsName(y) \/ IsUsed(y) \/ IsLeft(y)
            BY <1>1, <1>2
          <6> QED
            BY <4>3, <6>1, NodeInUse
        <5>2. c = b
          BY <4>3, <5>1 DEF Block
        <5> QED
          BY <4>1, <5>1, <5>2
      <4>4. NoNodes(t, o, b)'
        BY <4>3 DEF NoNodes
      <4> QED
        BY <4>2, <4>5, <4>4 DEF IsLeft
    <3> QED
      BY <3>2, <3>3, <3>4
  <2> QED
    BY <1>2, <2>1, <2>2, <2>3, <2>4
<1>5. Shapes'
  BY DEF LeakInv, Shapes
<1> QED
  BY <1>1, <1>4, <1>5 DEF LeakInv, Accounted

\* An insertion leaves what there was, and fills no queue that was passed by.
LEMMA InsertAccounts ==
    ASSUME HeapInv, LeakInv, NEW owner \in Alive(pc), NEW b \in Places,
           NEW chain \in Filled(chains[owner][b]) \cup Unfilled(chains[owner][b]),
           owner \in Queues => b = 0, owner \notin Queues => b \in Buckets,
           Insert(owner, b, chain, Root(owner)),
           Alive(pc') \subseteq Alive(pc), pc \notin {"return", "undefined"},
           pc' = pc \/ (pc' = "return" /\ turn = 0)
    PROVE  LeakInv'
<1>1. /\ chains' = [chains EXCEPT ![owner][b] = chain]
      /\ heap' = heap \cup ChainBlocks(owner, b, chain)
      /\ turn' = turn /\ nameBuffer' = nameBuffer
  BY DEF Insert, places
<1>2. /\ owner \in Owners /\ turn \in Nat
      /\ DOMAIN chains = Owners /\ \A o \in Owners : DOMAIN chains[o] = Places
      /\ chains[owner][b] \in [queue : BOOLEAN, nodes : Seq(BOOLEAN)]
  BY AliveOwners DEF HeapInv, LeakInv, Shapes
<1> DEFINE old == chains[owner][b]
<1>3. /\ chain \in [queue : BOOLEAN, nodes : Seq(BOOLEAN)]
      /\ old.queue => chain.queue
      /\ Len(old.nodes) \in Nat /\ Len(chain.nodes) \in Nat /\ Len(old.nodes) <= Len(chain.nodes)
      /\ \A k \in 1..Len(old.nodes) : chain.nodes[k] = old.nodes[k]
  <2>1. CASE chain \in Filled(old)
    <3>1. PICK d \in BOOLEAN : chain = [queue |-> TRUE, nodes |-> Append(old.nodes, d)]
      BY <2>1 DEF Filled
    <3> DEFINE n == old.nodes
    <3>2. n \in Seq(BOOLEAN) /\ chain.nodes = Append(n, d) /\ chain.queue = TRUE
      BY <1>2, <3>1
    <3> HIDE DEF n
    <3>3. /\ Append(n, d) \in Seq(BOOLEAN) /\ Len(Append(n, d)) = Len(n) + 1 /\ Len(n) \in Nat
          /\ \A k \in 1..Len(n) : Append(n, d)[k] = n[k]
      BY <3>2, AppendProperties
    <3> QED
      BY <3>1, <3>2, <3>3 DEF n
  <2>2. CASE chain \in Unfilled(old)
    <3>1. chain = old \/ chain = [old EXCEPT !.queue = TRUE]
      BY <2>2 DEF Unfilled
    <3>2. chain.nodes = old.nodes /\ (old.queue => chain.queue)
          /\ chain \in [queue : BOOLEAN, nodes : Seq(BOOLEAN)]
      BY <1>2, <3>1
    <3> QED
      BY <1>2, <3>2
  <2> QED
    BY <2>1, <2>2
<1>4. /\ chains'[owner][b] = chain
      /\ \A o \in Owners, c \in Places : ~(o = owner /\ c = b) => chains'[o][c] = chains[o][c]
  BY <1>1, <1>2
<1>5. Shapes'
  <2>1. \A o \in Owners, c \in Places : chains'[o][c] \in [queue : BOOLEAN, nodes : Seq(BOOLEAN)]
    BY <1>3, <1>4 DEF LeakInv, Shapes
  <2>2. \A q \in Queues, c \in Buckets : chains'[q][c] = NoChain
    BY <1>4, StorageAssumption DEF LeakInv, Shapes, Owners, Places
  <2>3. \A t \in Owners \ Queues : chains'[t][0] = NoChain
    BY <1>4, StorageAssumption DEF LeakInv, Shapes, Places
  <2>4. \A q \in Queues : q \in Alive(pc') => chains'[q][0].queue
    BY <1>3, <1>4 DEF LeakInv, Shapes, Owners, Places
  <2> QED
    BY <2>1, <2>2, <2>3, <2>4 DEF Shapes
<1>6. ASSUME pc' = pc, NEW x \in heap' PROVE IsName(x)' \/ IsUsed(x)' \/ IsLeft(x)'
  <2>1. \A y \in heap : IsName(y) \/ IsUsed(y) \/ IsLeft(y)
    BY DEF LeakInv, Accounted
  <2>2. \A o, c, k, kind : Block(o, c, k, kind)' = Block(o, c, k, kind)
    BY <1>1 DEF Block
  <2>3. CASE x \in ChainBlocks(owner, b, chain)
    <3>1. ChainBlocks(owner, b, chains[owner][b])' = ChainBlocks(owner, b, chain)
      BY <1>1, <1>4 DEF ChainBlocks, Block
    <3>2. x \in OwnerBlocks(owner)'
      BY <2>3, <3>1 DEF OwnerBlocks
    <3> QED
      BY <1>6, <3>2 DEF IsUsed
  <2>4. CASE x \in heap /\ IsName(x)
    BY <1>1, <1>6, <2>4 DEF IsName, NameBuffer
  <2>5. CASE x \in heap /\ IsUsed(x)
    <3>1. PICK o \in Alive(pc) : x \in OwnerBlocks(o)
      BY <2>5 DEF IsUsed
    <3>2. o \in Owners
      BY AliveOwners
    <3>3. Root(o)' = Root(o)
      BY <1>1 DEF Root, Block
    <3>4. ASSUME NEW c \in Places
          PROVE  ChainBlocks(o, c, chains[o][c]) \subseteq ChainBlocks(o, c, chains[o][c])'
      <4>1. CASE o = owner /\ c = b
        <5>1. ChainBlocks(o, c, chains[o][c])' = ChainBlocks(o, c, chain)
          BY <1>1, <1>4, <4>1 DEF ChainBlocks, Block
        <5>2. 1..Len(old.nodes) \subseteq 1..Len(chain.nodes)
          <6> DEFINE m == Len(old.nodes)
                     n == Len(chain.nodes)
          <6>1. m \in Nat /\ n \in Nat /\ m <= n
            BY <1>3
          <6> HIDE DEF m, n
          <6>2. 1..m \subseteq 1..n
            BY <6>1
          <6> QED
            BY <6>2 DEF m, n
        <5>3. ChainBlocks(o, c, old) \subseteq ChainBlocks(o, c, chain)
          BY <1>3, <5>2 DEF ChainBlocks
        <5> QED
          BY <4>1, <5>1, <5>3
      <4>2. CASE ~(o = owner /\ c = b)
        BY <1>1, <1>4, <3>2, <4>2 DEF ChainBlocks, Block
      <4> QED
        BY <4>1, <4>2
    <3>5. x \in OwnerBlocks(o)'
      BY <3>1, <3>3, <3>4 DEF OwnerBlocks
    <3> QED
      BY <1>6, <3>5 DEF IsUsed
  <2>6. CASE x \in heap /\ IsLeft(x)
    <3>1. PICK t \in Nat, o \in Owners \ Queues, c \in Places :
             /\ x = <<t, o, c, 0, "queue">>
             /\ \/ t < turn /\ o # "reservedKeywords"
                \/ t <= turn /\ o \in Finished(pc)
             /\ NoNodes(t, o, c)
      BY <2>6 DEF IsLeft
    <3>2. ASSUME NEW y \in ChainBlocks(owner, b, chain), y[1] = t, y[2] = o PROVE FALSE
      <4>1. y[2] = owner /\ y[1] = IF owner = "reservedKeywords" THEN 0 ELSE turn
        BY <3>2 DEF ChainBlocks, Block
      <4>2. o = owner /\ o \notin Finished(pc)
        BY <3>2, <4>1, NoTableInUseIsFinished
      <4> QED
        BY <1>2, <3>1, <3>2, <4>1, <4>2
    <3>3. NoNodes(t, o, c)'
      BY <1>1, <3>1, <3>2 DEF NoNodes
    <3> QED
      BY <1>1, <1>6, <3>1, <3>3 DEF IsLeft
  <2> QED
    BY <1>1, <2>1, <2>3, <2>4, <2>5, <2>6
<1>7. Accounted'
  BY <1>1, <1>6 DEF Accounted
<1> QED
  BY <1>1, <1>5, <1>7 DEF LeakInv

\* A new structure is used from now on; nobody else's blocks change.
LEMMA CreateAccounts ==
    ASSUME HeapInv, LeakInv, NEW owner \in Owners, owner \notin Alive(pc),
           Create(owner, Root(owner), pc'),
           Alive(pc') = Alive(pc) \cup {owner}, Finished(pc) \subseteq Finished(pc'),
           pc \notin {"return", "undefined"}, pc' \notin {"return", "undefined"},
           pc' = "instantiateReservedKeywordsTable" => turn = 0,
           pc' # "createReservedKeywordsTable"
    PROVE  LeakInv'
<1> DEFINE new == IF owner \in Queues THEN [NoChains EXCEPT ![0].queue = TRUE] ELSE NoChains
<1>1. /\ chains' = [chains EXCEPT ![owner] = new]
      /\ heap' = heap \cup {Root(owner)}
      /\ turn' = turn /\ nameBuffer' = nameBuffer
  BY DEF Create, Allocate, places
<1>2. /\ turn \in Nat /\ DOMAIN chains = Owners
      /\ \A y \in heap : IsName(y) \/ IsUsed(y) \/ IsLeft(y)
  BY DEF HeapInv, LeakInv, Accounted
<1>3. /\ \A b \in Places : new[b] \in [queue : BOOLEAN, nodes : Seq(BOOLEAN)]
      /\ owner \in Queues => new[0].queue /\ \A b \in Buckets : new[b] = NoChain
      /\ owner \notin Queues => new[0] = NoChain
  <2>1. <<>> \in Seq(BOOLEAN)
    OBVIOUS
  <2>2. NoChain \in [queue : BOOLEAN, nodes : Seq(BOOLEAN)]
    BY <2>1 DEF NoChain
  <2>3. [NoChain EXCEPT !.queue = TRUE] \in [queue : BOOLEAN, nodes : Seq(BOOLEAN)]
        /\ [NoChain EXCEPT !.queue = TRUE].queue
    BY <2>2 DEF NoChain
  <2>4. CASE owner \in Queues
    <3>1. new = [NoChains EXCEPT ![0].queue = TRUE]
      BY <2>4
    <3>2. new[0] = [NoChain EXCEPT !.queue = TRUE] /\ \A b \in Buckets : new[b] = NoChain
      BY <3>1, StorageAssumption DEF NoChains
    <3> HIDE DEF new
    <3> QED
      BY <2>2, <2>3, <2>4, <3>2 DEF Places
  <2>5. CASE owner \notin Queues
    BY <2>2, <2>5 DEF NoChains, Places
  <2> QED
    BY <2>4, <2>5
<1> HIDE DEF new
<1>4. chains'[owner] = new /\ \A o \in Owners : o # owner => chains'[o] = chains[o]
  BY <1>1, <1>2
<1>5. Shapes'
  <2>1. \A o \in Owners, b \in Places : chains'[o][b] \in [queue : BOOLEAN, nodes : Seq(BOOLEAN)]
    BY <1>3, <1>4 DEF LeakInv, Shapes
  <2>2. \A q \in Queues, b \in Buckets : chains'[q][b] = NoChain
    BY <1>3, <1>4 DEF LeakInv, Shapes, Owners
  <2>3. \A t \in Owners \ Queues : chains'[t][0] = NoChain
    BY <1>3, <1>4 DEF LeakInv, Shapes
  <2>4. \A q \in Queues : q \in Alive(pc') => chains'[q][0].queue
    BY <1>3, <1>4 DEF LeakInv, Shapes, Owners
  <2> QED
    BY <2>1, <2>2, <2>3, <2>4 DEF Shapes
<1>6. ASSUME NEW x \in heap' PROVE IsName(x)' \/ IsUsed(x)' \/ IsLeft(x)'
  <2>1. CASE x = Root(owner)
    <3>1. Root(owner)' = Root(owner)
      BY <1>1 DEF Root, Block
    <3>2. x \in OwnerBlocks(owner)'
      BY <2>1, <3>1 DEF OwnerBlocks
    <3> QED
      BY <3>2 DEF IsUsed
  <2>2. CASE x \in heap /\ IsName(x)
    BY <1>1, <2>2 DEF IsName, NameBuffer
  <2>3. CASE x \in heap /\ IsUsed(x)
    <3>1. PICK o \in Alive(pc) : x \in OwnerBlocks(o)
      BY <2>3 DEF IsUsed
    <3>2. chains'[o] = chains[o]
      BY <1>4, AliveOwners
    <3>3. OwnerBlocks(o)' = OwnerBlocks(o)
      BY <1>1, <3>2 DEF OwnerBlocks, ChainBlocks, Root, Block
    <3> QED
      BY <3>1, <3>3 DEF IsUsed
  <2>4. CASE x \in heap /\ IsLeft(x)
    <3>1. PICK t \in Nat, o \in Owners \ Queues, c \in Places :
             /\ x = <<t, o, c, 0, "queue">>
             /\ \/ t < turn /\ o # "reservedKeywords"
                \/ t <= turn /\ o \in Finished(pc)
             /\ NoNodes(t, o, c)
      BY <2>4 DEF IsLeft
    <3>2. Root(owner)[5] # "node"
      BY DEF Root, Block
    <3>3. NoNodes(t, o, c)'
      BY <1>1, <3>1, <3>2 DEF NoNodes
    <3>4. \/ t < turn' /\ o # "reservedKeywords"
          \/ t <= turn' /\ o \in Finished(pc')
      BY <1>1, <3>1
    <3> QED
      BY <3>1, <3>3, <3>4 DEF IsLeft
  <2> QED
    BY <1>1, <1>2, <2>1, <2>2, <2>3, <2>4
<1>7. Accounted'
  BY <1>6 DEF Accounted
<1>8. nameBuffer' \in Nat /\ nameBuffer' <= turn'
  BY <1>1 DEF LeakInv
<1> QED
  BY <1>1, <1>5, <1>7, <1>8 DEF LeakInv

\* Nothing is allocated or freed.
LEMMA KeptAccounts ==
    ASSUME HeapInv, LeakInv, heap' = heap, chains' = chains, UNCHANGED places,
           \/ /\ Alive(pc') = Alive(pc) /\ Finished(pc) \subseteq Finished(pc')
              /\ pc \notin {"return", "undefined"} /\ pc' \notin {"return", "undefined"}
              /\ pc' \notin {"createReservedKeywordsTable", "instantiateReservedKeywordsTable"}
           \/ pc' = "return" /\ turn = 0
           \/ pc' = pc
    PROVE  LeakInv'
<1>1. /\ turn' = turn /\ nameBuffer' = nameBuffer
      /\ \A o : OwnerBlocks(o)' = OwnerBlocks(o)
      /\ \A t, o, b : NoNodes(t, o, b)' <=> NoNodes(t, o, b)
  BY DEF places, OwnerBlocks, Root, ChainBlocks, Block, NoNodes
<1>2. CASE pc' = "return" /\ turn = 0
  BY <1>1, <1>2 DEF LeakInv, Shapes, Accounted, Alive, Queues
<1>3. CASE pc' = pc
  BY <1>1, <1>3 DEF LeakInv, Shapes, Accounted, IsName, IsUsed, IsLeft, NameBuffer
<1>4. CASE /\ Alive(pc') = Alive(pc) /\ Finished(pc) \subseteq Finished(pc')
           /\ pc \notin {"return", "undefined"} /\ pc' \notin {"return", "undefined"}
           /\ pc' \notin {"createReservedKeywordsTable", "instantiateReservedKeywordsTable"}
  <2>1. ASSUME NEW x PROVE (IsName(x) => IsName(x)') /\ (IsUsed(x) => IsUsed(x)')
    BY <1>1, <1>4 DEF IsName, IsUsed, NameBuffer
  <2>2. ASSUME NEW x, IsLeft(x) PROVE IsLeft(x)'
    <3>1. PICK t \in Nat, o \in Owners \ Queues, c \in Places :
             /\ x = <<t, o, c, 0, "queue">>
             /\ \/ t < turn /\ o # "reservedKeywords"
                \/ t <= turn /\ o \in Finished(pc)
             /\ NoNodes(t, o, c)
      BY <2>2 DEF IsLeft
    <3>2. \/ t < turn' /\ o # "reservedKeywords"
          \/ t <= turn' /\ o \in Finished(pc')
      BY <1>1, <1>4, <3>1
    <3>3. NoNodes(t, o, c)'
      BY <1>1, <3>1, Zenon
    <3> QED
      BY <3>1, <3>2, <3>3 DEF IsLeft
  <2>3. Accounted'
    BY <1>4, <2>1, <2>2 DEF LeakInv, Accounted
  <2> QED
    BY <1>1, <1>4, <2>3 DEF LeakInv, Shapes
<1> QED
  BY <1>2, <1>3, <1>4

\* With the next name a turn ends: what is left in it is left for good.
LEMMA NextNameAccounts ==
    ASSUME HeapInv, LeakInv, copyNewFileName
    PROVE  LeakInv'
<1>1. /\ pc = "mainProgramLoop" /\ turn' = turn + 1 /\ chains' = chains
      /\ turn \in Nat /\ nameBuffer \in Nat /\ nameBuffer <= turn
      /\ \A x \in heap : IsName(x) \/ IsUsed(x) \/ IsLeft(x)
  BY DEF copyNewFileName, HeapInv, LeakInv, Accounted
<1>2. \/ pc' = "parseMacroV2" /\ heap' = heap /\ nameBuffer' = nameBuffer
      \/ pc' = "parseMacroV2" /\ heap' = heap \cup {NameBuffer(turn')} /\ nameBuffer' = turn'
      \/ pc' = "undefined" /\ heap' = heap /\ nameBuffer' = nameBuffer
  BY DEF copyNewFileName, Fails
<1>3. nameBuffer' \in Nat /\ nameBuffer' <= turn' /\ nameBuffer <= nameBuffer'
  BY <1>1, <1>2
<1>4. Alive(pc) = {"reservedKeywords"} /\ Alive(pc') \subseteq {"reservedKeywords"}
      /\ (pc' = "parseMacroV2" => Alive(pc') = {"reservedKeywords"})
  BY <1>1, <1>2 DEF Alive
<1>5. Shapes'
  BY <1>1, <1>4 DEF LeakInv, Shapes, Queues
<1>6. ASSUME pc' = "parseMacroV2", NEW x \in heap' PROVE IsName(x)' \/ IsUsed(x)' \/ IsLeft(x)'
  <2>1. CASE x \notin heap
    <3>1. x = NameBuffer(turn') /\ nameBuffer' = turn'
      BY <1>2, <1>6, <2>1
    <3>2. \E t \in Nat : t <= nameBuffer' /\ x = NameBuffer(t)
      BY <1>3, <3>1
    <3> QED
      BY <1>6, <3>2 DEF IsName, NameBuffer
  <2>2. CASE IsName(x)
    <3>1. PICK t \in Nat : t <= nameBuffer /\ x = NameBuffer(t)
      BY <2>2 DEF IsName
    <3>2. t <= nameBuffer'
      BY <1>1, <1>3, <3>1
    <3> QED
      BY <1>6, <3>1, <3>2 DEF IsName, NameBuffer
  <2>3. CASE IsUsed(x)
    <3>1. x \in OwnerBlocks("reservedKeywords")
      BY <1>4, <2>3 DEF IsUsed
    <3>2. OwnerBlocks("reservedKeywords")' = OwnerBlocks("reservedKeywords")
      BY <1>1 DEF OwnerBlocks, Root, ChainBlocks, Block
    <3> QED
      BY <1>4, <1>6, <3>1, <3>2 DEF IsUsed
  <2>4. CASE IsLeft(x)
    <3>1. PICK t \in Nat, o \in Owners \ Queues, c \in Places :
             /\ x = <<t, o, c, 0, "queue">>
             /\ \/ t < turn /\ o # "reservedKeywords"
                \/ t <= turn /\ o \in Finished(pc)
             /\ NoNodes(t, o, c)
      BY <2>4 DEF IsLeft
    <3>2. t < turn' /\ o # "reservedKeywords"
      BY <1>1, <3>1 DEF Finished, MainTables
    <3>3. NameBuffer(turn')[5] # "node"
      BY DEF NameBuffer
    <3>4. NoNodes(t, o, c)'
      BY <1>2, <3>1, <3>3 DEF NoNodes
    <3> QED
      BY <3>1, <3>2, <3>4 DEF IsLeft
  <2> QED
    BY <1>1, <2>1, <2>2, <2>3, <2>4
<1>7. Accounted'
  BY <1>2, <1>6 DEF Accounted
<1> QED
  BY <1>2, <1>3, <1>5, <1>7 DEF LeakInv

\* If a structure cannot be created, those before it go.
LEMMA StructureAccounts ==
    ASSUME HeapInv, LeakInv, createMainDataStructures
    PROVE  LeakInv'
<1>1. pc \in MainTables \cup Queues
  BY DEF createMainDataStructures
<1>2. CASE Create(pc, Block(pc, 0, 0, IF pc \in Queues THEN "queue" ELSE "table"), After(pc))
  <2>1. Create(pc, Root(pc), pc') /\ pc' = After(pc)
    BY <1>2 DEF Root, Create
  <2>2. /\ Alive(pc') = Alive(pc) \cup {pc} /\ pc \notin Alive(pc)
        /\ Finished(pc) \subseteq Finished(pc')
        /\ pc \notin {"return", "undefined"} /\ pc \in Owners
        /\ pc' \notin {"return", "undefined", "createReservedKeywordsTable",
                     "instantiateReservedKeywordsTable"}
    BY <1>1, <2>1 DEF Alive, Finished, After, MainTables, Queues, Owners
  <2> QED
    BY <2>1, <2>2, CreateAccounts
<1>3. CASE Fails("mainProgramLoop") /\ Free(FreedBefore(pc)) /\ UNCHANGED <<chains, places, insertions>>
  <2> DEFINE S == Alive(pc) \ {"reservedKeywords"}
  <2>1. pc' = "mainProgramLoop" /\ Free(FreedBefore(pc)) /\ chains' = chains /\ UNCHANGED places
    BY <1>3 DEF Fails
  <2>2. /\ S \subseteq Alive(pc) /\ Alive(pc') = Alive(pc) \ S
        /\ S \ Queues \subseteq Finished(pc') /\ Finished(pc) \subseteq Finished(pc')
        /\ pc \notin {"return", "undefined"}
    BY <1>1, <2>1 DEF Alive, Finished, MainTables, Queues
  <2>3. \A t \in MainTables : TableBlocks(t) \subseteq MainBlocks
    BY DEF MainBlocks
  <2>4. /\ \A o \in S \ Queues : TableBlocks(o) \subseteq FreedBefore(pc)
        /\ \A q \in S \cap Queues : QueueBlocks(q, 0) \subseteq FreedBefore(pc)
    <3>1. CASE pc = "symbolTable"
      BY <3>1 DEF Alive
    <3>2. CASE pc = "entryTable"
      <4>1. S = {"symbolTable"} /\ S \cap Queues = {} /\ FreedBefore(pc) = TableBlocks("symbolTable")
        BY <3>2 DEF Alive, FreedBefore, Queues
      <4> HIDE DEF S
      <4> QED
        BY <4>1
    <3>3. CASE pc = "externTable"
      <4>1. /\ S = {"symbolTable", "entryTable"} /\ S \cap Queues = {}
            /\ FreedBefore(pc) = TableBlocks("symbolTable") \cup TableBlocks("entryTable")
        BY <3>3 DEF Alive, FreedBefore, Queues
      <4> HIDE DEF S
      <4> QED
        BY <4>1
    <3>4. CASE pc = "instructionQ"
      <4>1. S = MainTables /\ S \cap Queues = {} /\ FreedBefore(pc) = MainBlocks
        BY <3>4 DEF Alive, FreedBefore, Queues, MainTables
      <4> HIDE DEF S
      <4> QED
        BY <2>3, <4>1
    <3>5. CASE pc = "directiveQ"
      <4>1. /\ S \ Queues = MainTables /\ S \cap Queues = {"instructionQ"}
            /\ FreedBefore(pc) = QueueBlocks("instructionQ", 0) \cup MainBlocks
        BY <3>5 DEF Alive, FreedBefore, Queues, MainTables
      <4> HIDE DEF S
      <4> QED
        BY <2>3, <4>1
    <3> QED
      BY <1>1, <3>1, <3>2, <3>3, <3>4, <3>5 DEF MainTables, Queues
  <2> HIDE DEF S
  <2> QED
    BY <2>1, <2>2, <2>4, FreeAccounts
<1> QED
  BY <1>2, <1>3 DEF createMainDataStructures

\* Every step keeps account of the blocks.
LEMMA LeakStep ==
    ASSUME HeapInv, LeakInv, [Next]_vars
    PROVE  LeakInv'
<1>1. CASE CreateKeywords
  <2>1. pc = "createReservedKeywordsTable" /\ turn = 0
    BY <1>1 DEF CreateKeywords, HeapInv
  <2>2. CASE Create("reservedKeywords", Block("reservedKeywords", 0, 0, "table"),
                    "instantiateReservedKeywordsTable")
    <3>1. /\ Create("reservedKeywords", Root("reservedKeywords"), pc')
          /\ pc' = "instantiateReservedKeywordsTable"
      BY <2>2 DEF Root, Queues, Create
    <3>2. /\ "reservedKeywords" \in Owners /\ "reservedKeywords" \notin Alive(pc)
          /\ Alive(pc') = Alive(pc) \cup {"reservedKeywords"}
          /\ Finished(pc) \subseteq Finished(pc')
      BY <2>1, <3>1 DEF Alive, Owners, Finished, MainTables, Queues
    <3> QED
      BY <2>1, <3>1, <3>2, CreateAccounts
  <2>3. CASE Fails("return") /\ UNCHANGED <<heap, chains, places, insertions, misused>>
    BY <2>1, <2>3, KeptAccounts DEF Fails
  <2> QED
    BY <1>1, <2>2, <2>3 DEF CreateKeywords
<1>2. CASE InsertKeyword
  <2>1. PICK b \in Buckets :
           \E chain \in Filled(chains["reservedKeywords"][b]) \cup Unfilled(chains["reservedKeywords"][b]) :
             /\ Insert("reservedKeywords", b, chain, Block("reservedKeywords", 0, 0, "table"))
             /\ pc' \in {pc, "return"} /\ pc = "instantiateReservedKeywordsTable"
    BY <1>2 DEF InsertKeyword
  <2>2. /\ Root("reservedKeywords") = Block("reservedKeywords", 0, 0, "table")
        /\ "reservedKeywords" \in Alive(pc) /\ Alive(pc') \subseteq Alive(pc)
        /\ b \in Places /\ turn = 0 /\ "reservedKeywords" \notin Queues
    BY <2>1 DEF Root, Queues, Alive, Places, LeakInv
  <2> QED
    BY <2>1, <2>2, InsertAccounts
<1>3. CASE KeywordsDone
  <2>1. /\ Alive(pc') = Alive(pc) /\ Finished(pc) \subseteq Finished(pc')
        /\ pc = "instantiateReservedKeywordsTable" /\ pc' = "mainProgramLoop"
    BY <1>3 DEF KeywordsDone, Alive, Finished, MainTables, Queues
  <2> QED
    BY <1>3, <2>1, KeptAccounts DEF KeywordsDone
<1>4. CASE copyNewFileName
  BY <1>4, NextNameAccounts
<1>5. CASE NoSource
  <2>1. /\ Alive(pc') = Alive(pc) /\ Finished(pc) \subseteq Finished(pc')
        /\ pc = "parseMacroV2" /\ pc' = "mainProgramLoop"
    BY <1>5 DEF NoSource, Alive, Finished, MainTables, Queues
  <2> QED
    BY <1>5, <2>1, KeptAccounts DEF NoSource
<1>6. CASE CreateMacroTable
  <2>1. CASE Create("macroTable", Block("macroTable", 0, 0, "table"), "runParseMacro")
    <3>1. Create("macroTable", Root("macroTable"), pc') /\ pc' = "runParseMacro" /\ pc = "parseMacroV2"
      BY <1>6, <2>1 DEF Root, Queues, Create, CreateMacroTable
    <3>2. /\ "macroTable" \in Owners /\ "macroTable" \notin Alive(pc)
          /\ Alive(pc') = Alive(pc) \cup {"macroTable"}
          /\ Finished(pc) \subseteq Finished(pc')
      BY <3>1 DEF Alive, Owners, Finished, MainTables, Queues
    <3> QED
      BY <3>1, <3>2, CreateAccounts
  <2>2. CASE Fails("symbolTable") /\ UNCHANGED <<heap, chains, places, insertions, misused>>
    <3>1. pc = "parseMacroV2" /\ pc' = "symbolTable"
      BY <1>6, <2>2 DEF CreateMacroTable, Fails
    <3>2. Alive(pc') = Alive(pc) /\ Finished(pc) \subseteq Finished(pc')
      BY <3>1 DEF Alive, Finished, MainTables, Queues
    <3> QED
      BY <2>2, <3>1, <3>2, KeptAccounts
  <2> QED
    BY <1>6, <2>1, <2>2 DEF CreateMacroTable
<1>7. CASE InsertMacro
  <2>1. PICK b \in Buckets :
           \E chain \in Filled(chains["macroTable"][b]) \cup Unfilled(chains["macroTable"][b]) :
             /\ Insert("macroTable", b, chain, Block("macroTable", 0, 0, "table"))
             /\ pc' = pc /\ pc = "runParseMacro"
    BY <1>7 DEF InsertMacro
  <2>2. /\ Root("macroTable") = Block("macroTable", 0, 0, "table")
        /\ "macroTable" \in Alive(pc) /\ b \in Places /\ "macroTable" \notin Queues
    BY <2>1 DEF Root, Queues, Alive, Places
  <2> QED
    BY <2>1, <2>2, InsertAccounts
<1>8. CASE FreeMacroTable
  <2> DEFINE S == {"macroTable"}
             blocks == TableBlocks("macroTable")
  <2>1. /\ pc = "runParseMacro" /\ Free(blocks)
        /\ pc' \in {"symbolTable", "mainProgramLoop"}
        /\ chains' = chains /\ UNCHANGED places
    BY <1>8 DEF FreeMacroTable
  <2>2. /\ S \subseteq Alive(pc) /\ Alive(pc') = Alive(pc) \ S /\ S \cap Queues = {}
        /\ S \ Queues \subseteq Finished(pc') /\ Finished(pc) \subseteq Finished(pc')
    BY <2>1 DEF Alive, Finished, MainTables, Queues
  <2>3. \A o \in S \ Queues : TableBlocks(o) \subseteq blocks
    OBVIOUS
  <2> HIDE DEF S, blocks
  <2> QED
    BY <2>1, <2>2, <2>3, FreeAccounts
<1>9. CASE createMainDataStructures
  BY <1>9, StructureAccounts
<1>10. CASE InsertSymbol
  <2>1. PICK t \in MainTables : \E b \in Buckets :
           \E chain \in Filled(chains[t][b]) \cup Unfilled(chains[t][b]) :
             /\ Insert(t, b, chain, Block(t, 0, 0, "table"))
             /\ pc' = pc /\ pc = "firstStage"
    BY <1>10 DEF InsertSymbol
  <2>2. /\ Root(t) = Block(t, 0, 0, "table") /\ t \in Alive(pc) /\ t \notin Queues
        /\ Buckets \subseteq Places
    BY <2>1 DEF Root, Queues, Alive, MainTables, Places
  <2> QED
    BY <2>1, <2>2, InsertAccounts
<1>11. CASE EnqueueWord
  <2>1. PICK q \in Queues : \E chain \in Filled(chains[q][0]) \cup Unfilled(chains[q][0]) :
             /\ Insert(q, 0, chain, Block(q, 0, 0, "queue"))
             /\ pc' = pc /\ pc = "firstStage"
    BY <1>11 DEF EnqueueWord
  <2>2. Root(q) = Block(q, 0, 0, "queue") /\ q \in Alive(pc) /\ 0 \in Places
    BY <2>1 DEF Root, Queues, Alive, Places
  <2> QED
    BY <2>1, <2>2, InsertAccounts
<1>12. CASE freeMainDataStructures
  <2> DEFINE S == MainTables \cup Queues
             blocks == MainBlocks \cup UNION {QueueBlocks(q, 0) : q \in Queues}
  <2>1. /\ pc = "firstStage" /\ pc' = "mainProgramLoop" /\ Free(blocks)
        /\ chains' = chains /\ UNCHANGED places
    BY <1>12 DEF freeMainDataStructures
  <2>2. /\ S \subseteq Alive(pc) /\ Alive(pc') = Alive(pc) \ S
        /\ S \ Queues \subseteq Finished(pc') /\ Finished(pc) \subseteq Finished(pc')
    BY <2>1 DEF Alive, Finished, MainTables, Queues
  <2>3. \A o \in S \ Queues : TableBlocks(o) \subseteq blocks
    BY DEF MainBlocks
  <2>4. \A q \in S \cap Queues : QueueBlocks(q, 0) \subseteq blocks
    OBVIOUS
  <2> HIDE DEF S, blocks
  <2> QED
    BY <2>1, <2>2, <2>3, <2>4, FreeAccounts
<1>13. CASE EndOfLoop
  <2> DEFINE S == {"reservedKeywords"}
             blocks == {NameBuffer(nameBuffer)} \cup TableBlocks("reservedKeywords")
  <2>1. /\ pc = "mainProgramLoop" /\ pc' = "return" /\ Free(blocks)
        /\ chains' = chains /\ UNCHANGED places
    BY <1>13 DEF EndOfLoop
  <2>2. /\ S \subseteq Alive(pc) /\ Alive(pc') = Alive(pc) \ S /\ S \cap Queues = {}
        /\ S \ Queues \subseteq Finished(pc') /\ Finished(pc) \subseteq Finished(pc')
    BY <2>1 DEF Alive, Finished, MainTables, Queues
  <2>3. \A o \in S \ Queues : TableBlocks(o) \subseteq blocks
    OBVIOUS
  <2>4. NameBuffer(nameBuffer) \in blocks
    OBVIOUS
  <2> HIDE DEF S, blocks
  <2> QED
    BY <2>1, <2>2, <2>3, <2>4, FreeAccounts
<1>14. CASE UNCHANGED vars
  BY <1>14, KeptAccounts DEF vars, places
<1> QED
  BY <1>1, <1>2, <1>3, <1>4, <1>5, <1>6, <1>7, <1>8, <1>9, <1>10, <1>11, <1>12, <1>13, <1>14 DEF Next

\* The turn, the owner and the bucket of a block.
LEMMA FirstThree ==
    ASSUME NEW a, NEW b, NEW c, NEW d, NEW e
    PROVE  /\ SubSeq(<<a, b, c, d, e>>, 1, 3)[1] = a
           /\ SubSeq(<<a, b, c, d, e>>, 1, 3)[2] = b
           /\ SubSeq(<<a, b, c, d, e>>, 1, 3)[3] = c
<1> DEFINE S == {a, b, c, d, e}
           s == <<a, b, c, d, e>>
<1>1. s \in Seq(S) /\ Len(s) = 5 /\ s[1] = a /\ s[2] = b /\ s[3] = c
  OBVIOUS
<1> HIDE DEF S, s
<1>2. \A i \in 1..3 : SubSeq(s, 1, 3)[i] = s[i]
  BY <1>1, SubSeqProperties
<1>3. SubSeq(s, 1, 3)[1] = a /\ SubSeq(s, 1, 3)[2] = b /\ SubSeq(s, 1, 3)[3] = c
  BY <1>1, <1>2
<1> QED
  BY <1>3 DEF s

\* A queue that was passed by is an empty one: no node of its chain is allocated.
LEMMA LeftIsEmptyQueue ==
    ASSUME LeakInv, pc # "undefined", pc = "return" => turn > 0, NEW x \in heap, IsLeft(x)
    PROVE  IsEmptyQueue(x)
<1>1. PICK t \in Nat, o \in Owners \ Queues, c \in Places :
         x = <<t, o, c, 0, "queue">> /\ NoNodes(t, o, c)
  BY DEF IsLeft
<1>2. ASSUME NEW y \in heap, y[5] = "node", SubSeq(y, 1, 3) = SubSeq(x, 1, 3) PROVE FALSE
  <2>1. IsName(y) \/ IsUsed(y) \/ IsLeft(y)
    BY DEF LeakInv, Accounted
  <2>2. PICK b \in Places : \E k \in 1..Len(chains[y[2]][b].nodes) : y = Block(y[2], b, k, "node")
    BY <1>2, <2>1, NodeInUse
  <2>3. PICK k : y = Block(y[2], b, k, "node")
    BY <2>2
  <2> DEFINE s == IF y[2] = "reservedKeywords" THEN 0 ELSE turn
             p == y[2]
  <2>4. y = <<s, p, b, k, "node">>
    BY <2>3 DEF Block
  <2> HIDE DEF s, p
  <2>5. SubSeq(y, 1, 3)[1] = s /\ SubSeq(y, 1, 3)[2] = p /\ SubSeq(y, 1, 3)[3] = b
    BY <2>4, FirstThree
  <2>6. SubSeq(x, 1, 3)[1] = t /\ SubSeq(x, 1, 3)[2] = o /\ SubSeq(x, 1, 3)[3] = c
    BY <1>1, FirstThree
  <2>7. s = t /\ p = o /\ b = c
    BY <1>2, <2>5, <2>6
  <2>8. y[1] = t /\ y[2] = o /\ y[3] = c
    BY <2>4, <2>7
  <2> QED
    BY <1>1, <1>2, <2>8 DEF NoNodes
<1> QED
  BY <1>1, <1>2 DEF IsEmptyQueue

\* For any names and insertions, whichever allocations fail: between two names nothing is left
\* but the keywords and name buffers, at the end only the buffers a longer name
\* replaced, and besides these empty queues of failed insertions.
THEOREM NothingElseIsLeft == Spec => []NothingElseLeaks
<1>1. Init => LeakInv
  <2> SUFFICES ASSUME Init PROVE LeakInv
    OBVIOUS
  <2>1. /\ pc = "createReservedKeywordsTable" /\ turn = 0 /\ nameBuffer = 0 /\ heap = {}
        /\ chains = [o \in Owners |-> NoChains]
    BY DEF Init
  <2>2. <<>> \in Seq(BOOLEAN)
    OBVIOUS
  <2>3. NoChain \in [queue : BOOLEAN, nodes : Seq(BOOLEAN)]
    BY <2>2 DEF NoChain
  <2>4. \A o \in Owners, b \in Places : chains[o][b] = NoChain
    BY <2>1 DEF NoChains, Places
  <2>5. Shapes
    BY <2>1, <2>3, <2>4 DEF Shapes, Alive, Places, Owners
  <2> QED
    BY <2>1, <2>5 DEF LeakInv, Accounted
<1>2. HeapInv /\ LeakInv /\ [Next]_vars => LeakInv'
  BY LeakStep
<1>3. HeapInv /\ LeakInv => NothingElseLeaks
  <2> SUFFICES ASSUME HeapInv, LeakInv PROVE NothingElseLeaks
    OBVIOUS
  <2>1. ASSUME pc = "mainProgramLoop", NEW x \in heap
        PROVE  x[2] \in {"reservedKeywords", "file"} \/ IsEmptyQueue(x)
    <3>1. IsName(x) \/ IsUsed(x) \/ IsLeft(x)
      BY <2>1 DEF LeakInv, Accounted
    <3>2. CASE IsName(x)
      BY <3>2 DEF IsName, NameBuffer
    <3>3. CASE IsUsed(x)
      <4>1. x \in OwnerBlocks("reservedKeywords")
        BY <2>1, <3>3 DEF IsUsed, Alive
      <4> QED
        BY <4>1, BlockNamesOwner
    <3>4. CASE IsLeft(x)
      BY <2>1, <3>4, LeftIsEmptyQueue
    <3> QED
      BY <3>1, <3>2, <3>3, <3>4
  <2>2. ASSUME pc = "return", turn > 0, NEW x \in heap
        PROVE  IsEmptyQueue(x) \/ (x[2] = "file" /\ x[1] < nameBuffer)
    <3>1. IsName(x) \/ IsUsed(x) \/ IsLeft(x)
      BY <2>2 DEF LeakInv, Accounted
    <3>2. CASE IsName(x)
      BY <2>2, <3>2 DEF IsName, NameBuffer
    <3>3. ~IsUsed(x)
      BY <2>2 DEF IsUsed, Alive
    <3>4. CASE IsLeft(x)
      BY <2>2, <3>4, LeftIsEmptyQueue
    <3> QED
      BY <3>1, <3>2, <3>3, <3>4
  <2> QED
    BY <2>1, <2>2 DEF NothingElseLeaks
<1> QED
  BY <1>1, <1>2, <1>3, HeapInvariant, PTL DEF Spec
=============================================================================
