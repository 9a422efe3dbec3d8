---------------------------- MODULE WriteToFile ----------------------------
(***************************************************************************)
(* writeToFile (writeToFileStage.c): the object, entry and extern files,   *)
(* written one word at a time.  A file is a sequence of the lines written, *)
(* the entry file a set of them.                                           *)
(***************************************************************************)
EXTENDS AssemblerState

\* writeDecimalAddressToFile prints the last three digits.
DecimalAddress(deciAddress) == deciAddress % 1000

ObjectLine(node) ==
    [address |-> DecimalAddress(node.deciAddress), code |-> node.binaryCode]
LabelLine(node) ==
    [label |-> node.label, address |-> DecimalAddress(node.deciAddress)]

\* getObjectFP, getEntryFP and getExternFP ask for a file only when there is
\* something to put in it.
Wanted ==
    (IF directiveQ # <<>> \/ instructionQ # <<>> THEN {"ob"} ELSE {})
    \cup (IF hashIsEmptyTable(entryTable) THEN {} ELSE {"ent"})
    \cup (IF hashIsEmptyTable(externTable) THEN {} ELSE {"ext"})

\* A file that cannot be opened is left out, the others are still written.
OpenFiles ==
    /\ pc = "writeToFile"
    /\ \E failing \in SUBSET MayFail : opened' = Wanted \ failing
    /\ pc' = "writeDirectiveQ"
    /\ current' = 1
    /\ UNCHANGED <<program, rest, locals, queues, tables, createFiles, reported, completed,
                   object, entryFile, externFile>>

\* writeToFilesDirectiveQ, one word; the extern file is written in the same
\* loop, so not at all when the object file could not be opened.
WriteDirective ==
    LET node == directiveQ[current]
    IN  /\ pc = "writeDirectiveQ"
        /\ "ob" \in opened /\ current <= Len(directiveQ)
        /\ object' = Append(object, ObjectLine(node))
        /\ externFile' = IF "EXTERN" \in node.statement /\ "ext" \in opened
                         THEN Append(externFile, LabelLine(node)) ELSE externFile
        /\ current' = current + 1
        /\ UNCHANGED <<pc, program, rest, locals, queues, tables, createFiles, reported,
                       completed, opened, entryFile>>

DirectivesWritten ==
    /\ pc = "writeDirectiveQ"
    /\ "ob" \notin opened \/ current > Len(directiveQ)
    /\ pc' = "writeInstructionQ"
    /\ current' = 1
    /\ UNCHANGED <<program, rest, locals, queues, tables, createFiles, reported,
                   completed, outputs>>

\* writeToFilesInstructionQ, one word: its address becomes final as it is written.
WriteInstruction ==
    /\ pc = "writeInstructionQ"
    /\ "ob" \in opened /\ current <= Len(instructionQ)
    /\ instructionQ' = [instructionQ EXCEPT ![current].deciAddress = @ + directiveCounter]
    /\ object' = Append(object, ObjectLine(instructionQ'[current]))
    /\ current' = current + 1
    /\ UNCHANGED <<pc, program, rest, locals, directiveQ, directiveCounter, instructionCounter,
                   tables, createFiles, reported, completed, opened, entryFile, externFile>>

\* writeToFilesEntryTable, and closeFiles.
WriteEntries ==
    /\ pc = "writeInstructionQ"
    /\ "ob" \notin opened \/ current > Len(instructionQ)
    /\ entryFile' = IF "ent" \in opened
                    THEN {LabelLine(entryTable.nodes[id]) : id \in DOMAIN entryTable.nodes}
                    ELSE entryFile
    /\ pc' = "done"
    /\ UNCHANGED <<program, rest, locals, queues, tables, createFiles, reported, current,
                   completed, opened, object, externFile>>

WriteToFileNext ==
    OpenFiles \/ WriteDirective \/ DirectivesWritten \/ WriteInstruction \/ WriteEntries
=============================================================================
