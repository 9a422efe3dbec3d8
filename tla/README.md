# The two-pass-by-queues assembler, in TLA+

A verification of the assembler in `src/`: TLA+ modules of its parts, TLC runs
over small instances, abstract specifications each part is shown to implement on those
runs (a textbook two-pass assembler, macro substitution, one source at a time, a
dictionary), and TLAPS proofs, for every instance, of the invariants, the action properties and three of
the four refinements.

The program takes names on its command line. For each it reads `<name>.as`, expands the
macros into `<name>.am`, reads that file **once**, and writes `<name>.ob` (the image),
`<name>.ent` (addresses of entries) and `<name>.ext` (uses of externals). It is
sequential. What is hard about it: the single reading queues words whose
labels and final addresses are not known yet; a line, a file or an allocation that fails
half-way leaves its traces; macro bodies are positions in a file that is read by jumping
about; buffers, queues, tables, counters and the verdict are kept consistent by
statements spread over six files.

## 1. Inventory

| Component | State | Operations | What makes it correct |
|---|---|---|---|
| **Command line and file loop** (`main.c`) | name buffer, files on disk, open handles, unread input | `copyNewFileName`, `fileOverrideWarning`, `startMacroExpansion`, `startAssembler` | every name is assembled as if it was alone; nothing is overwritten unasked |
| **Macro expansion** (`macroExpansion.c`) | position in the source and the position it counts, line buffer, table of macro names with the positions of their bodies | define, call, copy and seek back | a call copies exactly the body, the reading goes on where it stopped |
| **Line reader** (`mainAsmPassUtil.c:25-90`) | 82-character buffer, line number | `getNewLineMainAsmPass` | every line is read once; nothing of an earlier line is seen |
| **Scanner and first stage** (`mainAsmPassUtil.c`, `mainAssemblerPass.c`) | position in the line, `opRegisterCount`, `directiveNode`, the two counters | `processLine` and one handler per kind of statement and operand | words of the right value at the right address; the verdict remembers every error |
| **Instruction words** (`mainAssemblerPass.c:12-96`) | - | bit fields | fields do not overlap |
| **Queues** (`queueDS.c`) | `directiveQ` (code), `instructionQ` (data) | `enqueueV1_1`, `updateTailBinaryCode`, `completeNode` | addresses are places in the image |
| **Tables** (`hashTableDS.c`, `sharedFunctions.c`) | buckets of chains: symbols, entries, externs, macros, reserved words | `hashInsert`, `hashSearch`, the walk `hashGetNextNonEmptyCell` | a name finds its own definition, a walk meets every node once |
| **Validation pass** (`fulfillAndValidatePass.c`) | verdict, the words still waiting | `validateTables`, `completeDirectiveQ` | every waiting word is resolved once or the source rejected |
| **Writing** (`writeToFileStage.c`) | the open files | `startWritingToFile` | the files are those of the accepted source |
| **Allocation and freeing** (`main.c:49-140`, both data structures) | the heap | create, insert, the error paths, free | nothing is freed twice or lost |

The code's names are kept: a *directive* is a machine instruction and
`directiveQ` the code; an *instruction* is `.data`, `.string`, `.entry` or
`.extern`, and `instructionQ` the data.

**Interaction.** `mainProgramLoop` calls `startAssembler` for one name after the other, with one
name buffer and one table of reserved words. `startAssembler` expands the macros, then calls the
stages one after the other on the same queues and tables. Whether a stage runs depends on the one
flag `createFiles`: errors of the expansion that return without clearing it do not stop
the rest, what `firstStage` returns is ignored, and `main.c:242` overwrites the flag
with the result of the validation pass. Data is addressed from 0 while it is queued and
moved behind the code in three places: when a reference is resolved
(`fulfillAndValidatePass.c:17`), when an entry gets its address (`:87`) and while the
data is written (`writeToFileStage.c:105`).

**Hard behaviours.** Order (one-pass reading, backpatching, addresses final only
while printed, an answer that was typed before its question); partial failure (an operand, a
line, a file, an allocation); stale state from one operand, line or name to the next;
boundaries of numbers, fields, lines and memory; names conflated by hashing. There is no
concurrency, and nothing is recovered after a crash. `PROJECT.json` lists each hazard with
its line and its properties.

## 2. Modules

| Module | Models |
|---|---|
| `LineBuffer` | a file read line by line into a buffer that is never cleared; the words of a line |
| `MacroExpansion` | `parseMacroV2`, one action per way a line may be handled |
| `LineReader` | `getNewLineMainAsmPass` |
| `SourceReading` | the two composed: from the `.as` file to the lines the first stage parses |
| `MacroSubstitution` | abstract: calls replaced by bodies in a sequence of statements |
| `Words` | instruction words as sets of bits; `registerToBinaryCode`, `updateQnodeBinCode`, `updateJumpWithOperBinCode`, `isCompatibleAddressing` |
| `AssemblerState` | constants and variables; `hashInsert`, `hashSearch`, `addToBinaryCode` and the other operations of queues and tables |
| `FirstStage` | the scanner and every handler of a line, one action per branch |
| `ValidationPass` | `validationPass`, one action per waiting word |
| `WriteToFile` | `writeToFile`, one action per word written |
| `Assembler` | the three composed into the rest of `startAssembler`; invariants, action properties, termination |
| `TwoPassAssembler` | abstract: no queue, table or counter, every address a sum over the statements before it, every word a number made of its fields |
| `FileLoop` | `mainProgramLoop`: names, files and questions, and the user between two runs |
| `Batch` | abstract: one step per name, no buffer, no handles |
| `HashTable` | the buckets and chains of a table, its insertion, search and walk |
| `Dictionary` | abstract: a function from identities to nodes, and a walk as a set of nodes to visit |
| `LabelIdentity` | the hash functions and the key, as numbers |
| `Storage` | what is allocated and freed, with every allocation able to fail |
| `SourceLines`, `MCAssembler`, `MCLines`, `MCDeviations`, `MCMacros`, `MCMacroDeviations`, `MCFiles`, `MCHashTable`, `MCStorage` | instances for TLC |
| `AssemblerTypes`, `AssemblerSafety`, `AssemblerOperands` | proofs about `Assembler`: types; layout, verdict and output; operands and words, labels and references |
| `SourceReadingProofs`, `FileLoopProofs`, `HashTableProofs`, `StorageProofs` | proofs about the module each is named after |
| `SubstitutionProofs` | the proof that `SourceReading` implements `MacroSubstitution` |

How they fit together: what `SourceReading` delivers is what `Assembler` reads, one token
sequence per line; what `HashTable` is proved to implement is the function
`AssemblerState` uses as a table; the verdict and the files `Assembler` ends with are the
constant verdicts of `FileLoop`; `Storage` is about the same structures with nothing
but their blocks.

### The assembler proper
- `pc` names the function about to run and `rest` the tokens of the line it has
  still to read. A handler is one action, with all it changes: enqueueing,
  counters, the verdict and the locals. `others` are the variables that a handler
  of the first stage does not touch.
- A **line** is a sequence of tokens, one for each thing the scanner tells apart:
  declared label, word, word with digits first, `.data`…, `#n`, number, sign alone,
  string (closed or not), comma, parentheses, a run of white space, junk. Lexing
  inside one token (which characters make up a label, up to four digits) is not
  repeated, and numbers are written without leading zeros. A line also carries the
  statement it *means*; the detailed model never reads it.
- The **source** is not chosen at the start: `ReadLine` appends any line of the
  constant `Lines`, up to `MaxLines`, and `EndOfFile` may come at any time.
- A **word** is the set of its bits that are 1, out of 0..13, because every use of
  the `int` in the code is an `|=` or the printing of 14 bits; `BitsOf` cuts a
  value to 14 bits in two's complement, as printing does.
- A **table** is a function from `Ident[name]`, the bucket and key the code compares
  in place of the name, to the first node stored under it, and a count that also
  counts the insertions turned away. Which names share an identity is a constant.
- `statement` is a set of flags. `completeNode` toggles `NOT_COMPLETE` as the code
  does. The statement of an entry node is never given a value by the code
  (`mainAssemblerPass.c:483` passes one argument too few); nothing reads it.
- `reported` is a history variable: an `ERROR` line has been printed.
- `fopen` may fail for any file in the constant `MayFail`. The line printed for a
  word is its address and its bits; the `.ent` file is a set because its order is that
  of the hash buckets.

### Reading the source
- A **file** is a sequence of characters of six kinds: letters, digits, marks, white space, `;`
  and bytes above 127. `mcr` and `endmcr` count as one letter each: nothing reads them but as
  whole words. The code's two readings of a file, a character at a time, become one action
  per line; how many characters it takes, what is left in the buffer and where the code
  believes to be are those of the loop.
- The **buffer** keeps what was stored in it. `Kinds` is a set because the scan over the blanks
  of a last line without a newline runs into cells that may never have been written: any
  character may be there.
- `position` is where the file is, `endOfLinePos` what the reader counts. The copy of a
  body seeks to the second.
- The hash table of macros is a function from identities.

### The file loop
- A source is its verdict and the files it calls for: the stages behind are other modules'.
  A file on disk is what it was made from, a truncated one nothing.
- The user edits sources between two runs, starts the program with any names, and types any of the
  constant `Answers` when the program waits.
- `before`, `leftover`, `consent` and `questions` are history variables.
- A failed `fopen` of the `.am` file for writing leads to `"undefined"`: the program writes
  through a null pointer. It does not come back.

### Tables and allocation
- In `HashTable` a node keeps its label as it is stored (`NodeLabel`: up to the `:`), and there are
  two hash functions as in the code, one for labels as written, one for labels as stored. A walk
  is the bucket number and the place that the callers carry.
- In `Storage` a block is named by its owner and its purpose, and `misused` notes a
  block freed or used while it is not allocated. A table there has one bucket besides the
  constant's: the blocks of different buckets never meet.

Comments that begin with `Mutant:` mark variants of the definition that follows
them. No action uses them: each is a plausible mistake in that definition, kept to show
which property would notice it (`PROJECT.json`, `mutants`).

## 3. Properties

| Property | Says | Kind |
|---|---|---|
| **Assembler** | | |
| `TypeOK` | types; loops over queues start inside them | invariant, proved |
| `Layout` | counters = lengths of the queues, address = place in the image, at every step | invariant, proved |
| `ObjectContiguous` | the printed addresses have no gap or repeat across the seam of code and data | invariant, proved |
| `RejectedWritesNothing` | after any error that rejects, no file | invariant, proved |
| `NoUnresolvedWord` | no word is written before it is resolved, none is resolved twice | invariant, proved |
| `RejectionIsFinal` | no pass clears the verdict | action property, proved |
| `FirstDefinitionStays` | no later line or pass moves a symbol | action property, proved |
| `SharedRegisterWord` | the word a second register is or-ed into belongs to the same instruction and has room | invariant, proved |
| `CurrentInstruction` | the word the addressing bits go to is this instruction's and its opcode is intact | invariant, proved |
| `LabelsMarkStatements` | a symbol is the address of a statement's first word, or of data | invariant, proved |
| `ReferencesResolved` | a word with a label of the file holds the place of that label's statement in the finished image, one with an external label the external mark alone; an entry has the place of its label | invariant, proved |
| `NothingIgnored` | the two readings of a jump's operands agree | invariant, proved |
| `WordsOnlyGrow` | a queued word keeps its label, address and bits | action property, proved |
| `ImplementsTwoPass` | same verdict, words, addresses and files as `TwoPassAssembler` | refinement |
| `Termination` | `startAssembler` returns | liveness |
| **SourceReading** | | |
| `TypeOK` | types; no position outside its file, the counted one never ahead | invariant, proved |
| `PositionsTrue` | the position the code counts is the one the file is at, until something is reported | invariant, proved |
| `BodiesWhole` | a recorded body is whole lines up to its own `endmcr` | invariant, proved |
| `VerdictExact` | the line reader rejects exactly the files with a line it cannot read | invariant, proved |
| `DeliversStatements` | the first stage gets the statements of the `.am` file, each once, whole and in order, and behind them at most a blank last line | invariant, proved |
| `ImplementsSubstitution` | the statements of the `.am` file are those of `MacroSubstitution` | refinement, proved |
| `Termination` | both readings end, even where the counted position has fallen behind | liveness |
| **FileLoop** | | |
| `TypeOK` | types; positions in the command line, lengths of the buffer | invariant, proved |
| `NameFits` | no name with its extension is stored outside the buffer, whatever names came before | invariant, proved |
| `OneHandlePerQuestion` | between names exactly one handle per question is open | invariant, proved |
| `StaleOnlyIfNotWritten` | an output older than the `.am` file beside it is there only because this one was not to be written | invariant, proved |
| `Consent` | no readable `.am` is overwritten without a `y`, typed after the question | action property, proved where no answer has a `y` behind what ends its question |
| `ImplementsBatch` | each name is assembled as if it was alone | refinement, proved |
| `EveryRunEnds` | a run of the program ends | liveness |
| **HashTable** | | |
| `TypeOK` | types; a walk is at a node | invariant, proved |
| `ChainsSound` | every node is where a search for its label looks, and the only one there | invariant, proved |
| `ImplementsDictionary` | buckets, chains and the walk implement `Dictionary` | refinement, proved |
| `WalksEnd` | a walk comes to its end | liveness |
| **Storage** | | |
| `FreedOnce` | nothing is freed twice or used after it was freed | invariant, proved |
| `NothingElseLeaks` | what is still allocated between names and at the end | invariant, proved |

`ImplementsTwoPass` maps the whole run of the first stage and the validation pass to the
reading phase of `TwoPassAssembler`; the last step, in which `pc` becomes `"done"`,
is its `Assemble` or `Reject`. It is the functional correctness of the program. The
others say why it holds and localise a mistake.

`ImplementsSubstitution` maps the file behind `position` to the statements still to be read, and a
pair of positions to the statements between them; where the source is going to be
rejected, or the last line is as long as a line may be (`Excused`), the abstract
specification allows a fault. That is all that is excused: of the sources that are accepted
only those with such a last line (`OnlyRejectedExcused`).
`ImplementsBatch` maps the many steps of one name to one, taken when the loop goes on.
`ImplementsDictionary` maps the place of a walk to the nodes ahead of it.

## 4. Runs

| Run | Instance | Shows |
|---|---|---|
| `programs` | all sources of at most 4 of 11 lines, `MaxSymbols` 2, any of the three output files may fail to open | all properties of `Assembler` but `NothingIgnored`, which needs odd jumps |
| `language` | 1 line: every mnemonic, every register, a symbol, the immediates at the edges of the range, in every combination of operands; all short token sequences after `mov`, `jmp A` and `.data`, the rest of the language by example | the words; accepts and rejects what a grammar read off the whole line does |
| `sources` | sources of at most 3 of 10 blocks (definitions, lone `mcr` and `endmcr`, calls, other lines), a definition with two blocks between its calls, a blank line or one that is too long, a definition with an odd line in it, an odd line and a call, and pairs of the 21 odd lines: too long by one and by two, not ASCII, blank, malformed definitions; with the last newline or without | positions, bodies, deliveries, verdict, substitution, end of the reading |
| `file_loop` | 3 names of two lengths, command lines of at most 2, 2 runs, 3 edits; `a.ext` and `c.am` cannot be written, `bb.am` not be read; every kind of answer, with one letter | the file loop |
| `tables` | 5 labels with the code's hash and key, some in one bucket, some with one key; 3 insertions; allocations that fail | the dictionary |
| `storage` | 2 names of two lengths, 2 insertions per stage, every allocation may fail | the heap |
| `ignored_errors`, `wide_numbers`, `full_memory`, `colliding_labels` (`MCDeviations`), `blank_last_line` (`MCMacroDeviations`), `leftover_answer` (`MCFiles`) | small | findings, section 6 |

**Why the bounds are enough.** *Assembler*: lines interact only through the tables, the
counters and the verdict. Four lines are a forward and a backward reference with something
between, a definition with its entry or extern and two uses, a definition twice and a use; the
11 lines hold every kind of statement, code and data under the same name, and two
lines that fail after queueing words (`cmp #4 #4` fails at the comma, `A: .data 1,`
after its first value). `MaxSymbols` is 2 (256 in the code) so that
sources below, at and above the limit occur. Encoding depends on one line only, so one line with
everything in it is exhaustive; the scanner has no state across lines, and no
check looks further than three tokens ahead of what the sequences contain. In the passing
runs each name has an identity of its own, so that they say nothing of shared
identities; these are the run `colliding_labels`.

*Source*: `MaxLine` is 6 (81 in the code) and `MaxLabel` 3 (31): a
line of 4 characters with its newline is short, one of 5 the longest that fits, 6 too long by
its newline, 7 too long by more. What passes from line to line is the buffer, the counted position and
the table; three blocks are a definition, another one or its redefinition, and a call.

*File loop*: two names are needed to see the buffer reused in both directions (a longer name behind a
shorter, and the reverse), two runs to see an `.am` and outputs of an earlier one, three edits to
change the verdict in between.

*Tables*: three insertions fill a bucket with two nodes beside one in another. *Storage*: the
error paths depend only on which structure fails; two names show what the first leaves behind for the second;
one bucket in use is enough, since the blocks of two never meet (the theorem is for any number).

The grammar of `language` follows the code in three liberties a reader may not
expect: a sign with no digit is 0, a `.data` value with something after it need only
have four digits, and text after a comma that begins with neither a sign nor a digit ends
the line. The last two are findings; they are in the grammar so that the rest of it can be
checked. A word like `2nd` begins with a digit, so that it is read as a number and rejected.

**Fairness.** `Assembler` and `SourceReading`: `WF_vars(Next)` alone. Those parts are
sequential and wait for nothing, so they keep running; no loop is given fairness of its
own. `MaxLines` stands for the source being finite. `FileLoop`: weak fairness of the
program's own steps, and strong fairness of the user's typing a line with a `y`, an `n` or the
end of the input in it: he may type other lines first, and is asked again, but not for
ever. Nothing is assumed of his edits and starts. `HashTable`: weak fairness of the steps of a
walk that is under way, since its callers leave none half-way; nothing is assumed of
insertions and searches.

## 5. Proofs

All theorems are for every value of the constants. For the assembler: any set of lines,
any length of source, any identities of names (collisions included), any files that fail. They assume
what the modules state as `ASSUME` (named there, each with its reason): in `AssemblerState` that
the reserved words have distinct identities and opcodes 0 to 15, registers are 0 to 7,
lines are sequences of tokens with no two runs of white space in a row, the bounds are naturals; in
`LineBuffer` and `MacroExpansion` that the kinds of characters are distinct, a line has room for
more than four of them and sources are made of them; in `FileLoop` that names and answers are strings; in `Storage`
that the lengths are positive and 0 is no bucket; in
`HashTable` that hash values are buckets and keys are naturals, and that the two hash functions
and the key agree on a label as written and as stored. TLC evaluates each of them, the last on the
code's own functions.

| Theorem | Establishes |
|---|---|
| `AssemblerTypes!TypeCorrect` | `Spec => []TypeOK` |
| `AssemblerSafety!LayoutCorrect` | `Spec => []Layout` |
| `AssemblerSafety!ObjectFileContiguous` | `Spec => []ObjectContiguous` |
| `AssemblerSafety!RejectedLeavesNoFile` | `Spec => []RejectedWritesNothing` |
| `AssemblerSafety!RejectionStays` | `Spec => RejectionIsFinal` |
| `AssemblerSafety!EveryWordResolved` | `Spec => []NoUnresolvedWord` |
| `AssemblerSafety!SymbolsStay` | `Spec => FirstDefinitionStays` |
| `AssemblerOperands!OperandsReachTheirInstruction` | `Spec => []CurrentInstruction` |
| `AssemblerOperands!RegistersShareAWord` | `Spec => []SharedRegisterWord` |
| `AssemblerOperands!NoWordShrinks` | `Spec => WordsOnlyGrow` |
| `AssemblerOperands!JumpsSkipNothing` | `Spec => []NothingIgnored` |
| `AssemblerOperands!LabelsAreStatements` | `Spec => []LabelsMarkStatements` |
| `AssemblerOperands!ReferencesAreResolved` | `Spec => []ReferencesResolved` |
| `HashTableProofs!TableTypes` | `Spec => []TypeOK` |
| `HashTableProofs!TableSound` | `Spec => []ChainsSound` |
| `HashTableProofs!TableImplementsDictionary` | `Spec => ImplementsDictionary` |
| `SourceReadingProofs!ReadingTypes` | `Spec => []TypeOK` |
| `SourceReadingProofs!PositionsTrueAlways` | `Spec => []PositionsTrue` |
| `SourceReadingProofs!BodiesAreWhole` | `Spec => []BodiesWhole` |
| `SourceReadingProofs!VerdictIsExact` | `Spec => []VerdictExact` |
| `SourceReadingProofs!StatementsDelivered` | `Spec => []DeliversStatements` |
| `SubstitutionProofs!ReadsWholeLines` | `Spec => []SInv`, the invariant behind the refinement |
| `SubstitutionProofs!OnlyRejectedExcused` | a source that is accepted is excused only for a last line of full length without a newline |
| `SubstitutionProofs!SubstitutionImplemented` | `Spec => ImplementsSubstitution` |
| `FileLoopProofs!LoopTypes` | `Spec => []TypeOK` |
| `FileLoopProofs!NamesFit` | `Spec => []NameFits` |
| `FileLoopProofs!HandlePerQuestion` | `Spec => []OneHandlePerQuestion` |
| `FileLoopProofs!EachAsIfAlone` | `Spec => ImplementsBatch` |
| `FileLoopProofs!FilesBelongTogether` | `Spec => []StaleOnlyIfNotWritten` |
| `FileLoopProofs!AskedBeforeOverwriting` | `Spec => Consent`, if no answer has a `y` behind the character that ends its question |
| `StorageProofs!NothingMisused` | `Spec => []FreedOnce` |
| `StorageProofs!NothingElseIsLeft` | `Spec => []NothingElseLeaks` |

The argument for the assembler. `TypeOK` is inductive only with two facts about control: `current` is
positive inside the loops over queues, and `pc = "number"` implies that a number comes next.
None of the other invariants is inductive by itself:
- **Gate**: `RejectedWritesNothing` needs that outputs are empty until the files
  are opened and that `validationPass` keeps the flag `FALSE` when it was, since `main.c:242`
  assigns it anew.
- **LayoutInv** adds to `Layout` that the loop over the data does not advance when
  there is no object file: the data is moved only by being written. A step that enqueues and counts keeps it because
  both happen in one handler. A handler that fails does neither, or only adds whole words.
- **WrittenInv** ties `object` to `current`: what has been written is the code up to
  `current`, then the data. With `LayoutInv` this gives `ObjectContiguous` across the seam.
- **ResolvedInv**: every word is exactly one of completed and waiting; the loop of
  `completeDirectiveQ` has no waiting word behind `current` unless it has noted a failure, so
  that the files are opened only with all words complete.
- **OperandsInv** is `CurrentInstruction` and `SharedRegisterWord` with what makes them
  inductive: a waiting word has a label and no bits, the first word of an instruction never
  waits (`PendingWords`), and no register is counted before the first operand
  (`RegistersCounted`). The fields do not meet: 64 times an opcode sets bits 6 to 9 only
  (`OpcodeField`), no addressing sets one of these (`AddressingField`), a source register
  sets bits 8 to 10 (`SourceRegisterField`). So what an operand or-s into a word finds zeros, and
  `WordsOnlyGrow` holds of every step, resolution included: an external word is
  overwritten only while it has no bits.
- **JumpInv** says what the first reading of a jump's operands leaves to the second: a parenthesis that
  ends the line, and before it one comma until that is read and then none.
- **SymbolsInv** follows a label from its line to the image. `MarksInv`: while the source is accepted
  a symbol is where a statement begins or will begin, since a label is filed before the
  words of its line and an address is a place by `Layout`. `CountsInv`: a table whose count is zero is empty,
  so that the passes that ask only for the count miss nothing. `ResolutionInv`: nothing is
  resolved before the tables are complete, and what is resolved holds the place of
  its label in the finished image.

The argument for the tables. `TypeOK` and `ChainsSound` are inductive together: an insertion adds a
node only behind a search of the same bucket for the same key that found nothing, and the node is put
where its own label hashes to only because the two hash functions agree. The refinement
rests on both. A search sees the first node with the key; as keys are distinct in a bucket, that node
is *the* node of its identity. A step of a walk takes exactly one node out of `Ahead`: within
a bucket because places are distinct, and from one bucket to the next because
`NonEmptyFrom` skips only buckets without nodes, whether or not a queue is there.

The argument for reading the source (`Reading`, the inductive invariant of
`SourceReadingProofs`). Of a line the reader did not complain about it counts exactly what it reads
(`ReadFacts`), so the seek after a copy goes back to where the reading was. `DefinitionOpen` says what
is known inside a definition: its start and the end of its body so far are ends of lines, no line
between them closes it, and the line in the buffer is the one that starts where the
body ends. That the line *at* a position is the one that was read there (`LineAtRead`), that no other starts
inside it (`LineWithin`) and that a line taken for empty closes nothing
(`EmptyLineCloses`) make `BodyLine` and `DefineMacro` preserve it. Once something is
reported nothing is claimed: after a line that is too long the counted position is behind by one.
`TypeOK` is inductive by itself, after errors too: what is counted is at most what is read
(`ReadTypes`). The verdict needs `VerdictInv`: the reader of the first stage is at the start of a
line; if it has accepted all lines so far, no character before it is not ASCII and no line that
starts before it is too long; if not, such a thing is in the file. A line that was accepted has no
other starting inside it (`LineReadable`), and the reading that accepts
ends at the end of the file.

The statements of a file. A recursive definition of "the list of its lines" would
need induction over the file. `StatementsOf` has none: a statement is told by the
position it starts at, and the k-th one is the one with k such positions up to it. What
the proofs need follows from the least-number principle and from sizes of finite sets: the ranks
of n positions are the numbers 1 to n (`Ranks`), from every position
there is a line (`LineExists`) and only one, and `StatementsJoin`: behind a file that
ends whole, the statements of what is appended are appended. A line at a time,
`StatementsDelivered` follows: what was delivered so far is the statements of the `.am` file up
to `passPosition`, each step joins one line to it, and what the buffer still holds of earlier lines is
read only at a blank end of the file.

The substitution. `ImplementsSubstitution` is about positions on one side and sequences of
statements on the other. `SInv` says when they are the same: as long as nothing excuses the
source, `position` and the ends of every body and of the definition being read are
`Border`s, the start of the file or places behind a newline, the line in the buffer is the one between
the last border and the position, and the `.am` file ends whole whenever it may be appended to. It
is not inductive without the two parts about what *will* be rejected: a definition with an invalid
name is copied from its second character on, and behind a line that is too long, which is copied at
once, the counted position is no longer the true one; both leave a source that is sure to
be rejected, and it stays so (`FlushInside`, `AppendsWhole`, `ExcusedStays`). With it each action is one step of the
substitution or a stutter: getting a line takes a blank one away or keeps a statement
(`Statements(line.text)` is the head of `todo`), handling it is `Begin`,
`Collect`, `End`, `Drop`, `Call` or `Copy`, of which a call is `StatementsJoin` for a whole body at
once; the step that excuses the source is `Fault`. The theorem holds for every table of reserved
names and every `Ident`: two macros the code takes for one are one in the substitution
too.

The arguments for the file loop. The buffer holds `currFileNameLen` characters and five more
from the first name on (`BufferFits`); the one way to a buffer of no size is an empty first
name. The handles that are open beside those of the questions are a number that depends
on `pc` alone, but for the outputs, which are counted as the set of their types
(`HandleInv`). `LoopInv` is the types with two facts: the buffer begins with the name that is processed and
is that name with `.am` when it is used as a path (`PathInv`), and a name has one question
(`QuestionInv`). For `ImplementsBatch`, `BatchInv` says what is on disk at each `pc`, as a
function of what was there when the name's turn came (`before`) and of the outputs written so far: every
step within a name is then a stutter of `Batch`, and each of the ways a name
ends is one of its steps, the one in which `disk` becomes what `Batch` makes of `before`.
`FreshInv` states `StaleOnlyIfNotWritten` of `before`, with versions no later than the edits, where it is
inductive because a name's files change in one step of `Batch`. `Consent` is proved from `ConsentInv`:
what is left in the input holds no `y`. That is false if an answer may hold one behind the
character that ended its question, which is what the run `leftover_answer` shows;
the theorem assumes that no answer does.

The argument for the heap. Everything that belongs to the structures `Alive` at `pc` is
allocated (`HeapInv`); what is freed belongs to some of these, and a block
names its owner, so the others keep theirs.

For `NothingElseLeaks`, `LeakInv` accounts for every block: it is a name buffer, or belongs to a
structure in use, or is a queue without nodes that `freeHashTable` passed by. The last needs that such a queue stays
without: its table is finished for this turn (`Finished`) or it is of an earlier turn, and a node is
only ever added to a table in use. A table has no bucket 0 and a queue no other
(`Shapes`), so that what is freed is all an owner has.

Each inductive invariant was model-checked on the instance of its run before it was proved.

Model-checked only: `ImplementsTwoPass`, and the liveness properties `Termination` (of `Assembler` and of
`SourceReading`), `EveryRunEnds` and `WalksEnd`. Every other property of a passing run is a
theorem. `ImplementsTwoPass` relates the tokens of a line to the statement it means, and that
relation is given by the instances alone, which list the lines (`MCLines`); for any set of lines it
has no hypothesis to start from. What it rests on is proved: layout, labels, references,
operands, verdict. Liveness under fairness is not in the provers' reach. `LabelIdentity` uses
bitwise operators, and what it says about the real hash functions is evaluated by TLC.

## 6. Findings

Each is a run on which TLC finds a behaviour that contradicts a line of the repository.

- `ignored_errors`: a label defined twice prints `ERROR`, and the source is assembled
  (`hashTableDS.c:159`); `.data 5, x` prints `ERROR` and is assembled as `.data 5`
  (`mainAssemblerPass.c:380`). README.txt:11 promises that nothing is written.
- `wide_numbers`: `.data 9999,1` is accepted, because only the last number is range-checked
  (`mainAsmPassUtil.c:646`); `prn #5000` is accepted, because the check is for 14 bits and the
  field has 12 (`mainAssemblerPass.c:107`).
- `full_memory`: more than 256 words are assembled (`mainAssemblerPass.c:589`).
- `colliding_labels`: `ad` and `dX` are one name to the tables (`hashTableDS.c:77`).
- `blank_last_line`: the scan of a last line of blanks, without a newline, for its first solid
  character runs on into the stale characters of the buffer, so that the line is parsed (as a
  line of its own) and rejected instead of ignored (`mainAsmPassUtil.c:74`).
- `leftover_answer`: what is typed behind one answer answers the next question (`main.c:163`).

Without a run, but in the models as the code has them:
- `yPx` is the reserved word `mov` (`hashTableDS.c:310`): the assumption
  `KeywordsHaveLookalikes` of `MCHashTable`, evaluated by TLC.
- An `endmcr` alone (`DropClosing`) or a macro defined twice (`Inserted`) prints `ERROR`, and the next
  stages run (`macroExpansion.c:330`); the rest of a line that is too long is copied, not
  discarded (`OverlongLine`, `macroExpansion.c:55`).
- The body of a definition with an invalid name is copied without its first character
  (`FlushDefinition`, `macroExpansion.c:150`).
- A source with an error in a macro gets an `.am` file (`parseMacroV2` of `FileLoop`, `main.c:212`).
- An `.am` file that cannot be opened for writing is written through a null pointer (`fopen`,
  `main.c:194`), one that exists and cannot be read is overwritten without a question
  (`getMainOutputDataFileFP`), and a first stage that cannot read it back ends in success
  (`firstStage`).
- An empty first name is stored in a buffer that was never allocated (`copyNewFileName`, `main.c:63`).
- A node without its data is inserted with success (`HashTable`, `queueDS.c:211`); without a
  table of macros the source is assembled from an empty `.am` file (`CreateMacroTable`, `main.c:212`).
- A line of 80 characters is rejected because of its newline although the message
  allows 80; a source may be rejected with no message (an undefined operand, `L:` with
  nothing after it, `.data 1,9999`, a reserved word as jump target).
- A handle is left open for every question, and the table of reserved words is not freed if one of
  them cannot be stored: `OneHandlePerQuestion` and `NothingElseLeaks` state it as it is.

## 7. Not modelled

- The characters inside a token of `FirstStage`: where a label or a number ends is decided
  once, in the token.
- What the stages read through a node without data (`Lost` in `HashTable`): a null pointer.
- A limit on open handles; a process that is killed, which the code does nothing about;
  a write or a seek that fails, which it does not look at.
- The wording of messages, and line numbers.
- The makefile.

## 8. Plan

Done, the most important behaviour first:
1. Words, tables, the three passes, their composition, the two-pass reference; type
   correctness, layout and verdict proved.
2. The two line readers and the macro expansion, refining a substitution.
3. The file loop, refining one name at a time.
4. The hash table, refining the function by identity, proved; allocation and freeing.
5. The safety invariants and action properties proved: operands, words, labels and references,
   the readers' types and verdict, the heap; the file loop refining one name at a
   time.
6. What the first stage is given, and the expansion refining the substitution, proved for every
   source.

Left:
- a grammar of lines as an assumption of `AssemblerState`, from which `ImplementsTwoPass` could be
  proved line by line;
- the first stage composed with `HashTable` in place of the function by identity.
