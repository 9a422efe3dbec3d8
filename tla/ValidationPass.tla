--------------------------- MODULE ValidationPass ---------------------------
(***************************************************************************)
(* validationPass (fulfillAndValidatePass.c): the checks across the three  *)
(* tables, the final addresses of the entries, and the completion of the   *)
(* words that refer to symbols.                                            *)
(***************************************************************************)
EXTENDS AssemblerState

\* Mutant: data symbols are not moved behind the code.
UnmovedAddress(symbol) == symbol.deciAddress

\* A data symbol's image follows the instructions'.
FinalAddress(symbol) ==
    IF "INSTRUCTION" \in symbol.statement
    THEN symbol.deciAddress + directiveCounter ELSE symbol.deciAddress

BothPresent(a, b) == ~hashIsEmptyTable(a) /\ ~hashIsEmptyTable(b)

\* isValidEntryTableElements: every entry that is defined gets its address,
\* even when another one is not.
Defined(id) == id \in DOMAIN symbolTable.nodes
validateEntryTable == \A id \in DOMAIN entryTable.nodes : Defined(id)
EntriesAddressed ==
    [nodes |-> [id \in DOMAIN entryTable.nodes |->
        IF Defined(id)
        THEN [entryTable.nodes[id] EXCEPT !.deciAddress = FinalAddress(symbolTable.nodes[id])]
        ELSE entryTable.nodes[id]],
     count |-> entryTable.count]

isDisjointTables(a, b) == DOMAIN a.nodes \cap DOMAIN b.nodes = {}

\* validateTables skips a check when one of its two tables is empty.
validateTables ==
    /\ BothPresent(entryTable, symbolTable) => validateEntryTable
    /\ BothPresent(externTable, symbolTable) => isDisjointTables(externTable, symbolTable)
    /\ BothPresent(entryTable, externTable) => isDisjointTables(entryTable, externTable)

isValidValidationPass ==
    /\ symbolTable.count <= MaxSymbols
    /\ ~(hashIsEmptyTable(symbolTable) /\ ~hashIsEmptyTable(entryTable))
    /\ validateTables

\* The words are completed only when both passes found the source valid.
ValidateTables ==
    /\ pc = "validationPass"
    /\ entryTable' = IF BothPresent(entryTable, symbolTable) THEN EntriesAddressed ELSE entryTable
    /\ reported' = (reported \/ ~isValidValidationPass)
    /\ createFiles' = (createFiles /\ isValidValidationPass)
    /\ pc' = IF createFiles' THEN "completeDirectiveQ" ELSE "done"
    /\ current' = 1
    /\ UNCHANGED <<program, rest, locals, queues, symbolTable, externTable, completed, outputs>>

\* Mutant: the flag is left on.
UntoggledStatement(node, statement) == node.statement \cup {"COMPLETED", statement}

\* completeNode: the flag is toggled off, the symbol's kind added; an external
\* word is overwritten, a relocatable one only gains bits.
CompleteStatement(node, statement) ==
    LET s == node.statement \cup {"COMPLETED"}
    IN  (IF "NOT_COMPLETE" \in s THEN s \ {"NOT_COMPLETE"} ELSE s \cup {"NOT_COMPLETE"})
            \cup {statement}

completeRelocatableNode(node, symbol) ==
    [node EXCEPT !.binaryCode = @ \cup BitsOf(RELOCATABLE + 4 * FinalAddress(symbol)),
                 !.statement = CompleteStatement(node, "LABEL")]

completeExternalNode(node) ==
    [node EXCEPT !.binaryCode = BitsOf(EXTERNAL),
                 !.statement = CompleteStatement(node, "EXTERN")]

\* One turn of the loop of completeDirectiveQ; a word whose label neither table
\* knows stays incomplete, and nothing is printed.
CompleteDirectiveNode ==
    LET node == directiveQ[current]
    IN  /\ pc = "completeDirectiveQ"
        /\ current <= Len(directiveQ)
        /\ current' = current + 1
        /\ \/ isComplete(node) /\ UNCHANGED <<directiveQ, completed>>
           \/ /\ ~isComplete(node) /\ HasName(symbolTable, node.label)
              /\ directiveQ' = [directiveQ EXCEPT ![current] =
                     completeRelocatableNode(node, hashSearch(symbolTable, node.label))]
              /\ UNCHANGED completed
           \/ /\ ~isComplete(node) /\ ~HasName(symbolTable, node.label)
              /\ HasName(externTable, node.label)
              /\ directiveQ' = [directiveQ EXCEPT ![current] = completeExternalNode(node)]
              /\ UNCHANGED completed
           \/ /\ ~isComplete(node) /\ ~HasName(symbolTable, node.label)
              /\ ~HasName(externTable, node.label)
              /\ completed' = FALSE
              /\ UNCHANGED directiveQ
        /\ UNCHANGED <<pc, program, rest, locals, instructionQ, directiveCounter,
                       instructionCounter, tables, createFiles, reported, outputs>>

\* Mutant: the files are written whatever completeDirectiveQ returns.
WriteIncomplete ==
    /\ pc = "completeDirectiveQ"
    /\ current > Len(directiveQ)
    /\ createFiles' = completed
    /\ pc' = "writeToFile"
    /\ UNCHANGED <<program, rest, locals, queues, tables, reported, current, completed, outputs>>

\* The end of validationPass: its result is the new createFiles.
EndValidation ==
    /\ pc = "completeDirectiveQ"
    /\ current > Len(directiveQ)
    /\ createFiles' = completed
    /\ pc' = IF completed THEN "writeToFile" ELSE "done"
    /\ UNCHANGED <<program, rest, locals, queues, tables, reported, current, completed, outputs>>

ValidationPassNext == ValidateTables \/ CompleteDirectiveNode \/ EndValidation
=============================================================================
