--------------------------- MODULE MacroExpansion ---------------------------
(***************************************************************************)
(* parseMacroV2 (macroExpansion.c): the source is read line by line and    *)
(* copied to the expanded file.  The body of a macro is kept as two        *)
(* positions of the source, and a call copies what is between them by      *)
(* seeking there and back.  endOfLinePos, the position to come back to, is *)
(* counted by the reader and never compared with the position of the file. *)
(***************************************************************************)
EXTENDS LineBuffer

CONSTANTS
    Sources,     \* the source files
    Reserved,    \* the reserved words
    Ident(_),    \* what a hash table tells a word by: its bucket and its key
    MaxLabel     \* MAX_LABEL_LEN, 31 in the code

ASSUME SourcesAssumption == \A file \in Sources : file \in Seq(Characters)

ASSUME LabelAssumption == MaxLabel \in Nat

VARIABLES
    pc,             \* the loop that reads: "runParseMacro" or "getEndOfMacroPos"
    source,         \* the .as file
    position,       \* where the reading of it is
    endOfLinePos,   \* where the code takes it to be
    lineBuffer,
    line,           \* what getNewLineMacro returned and left in the buffer
    definition,     \* locals of processMacro and getEndOfMacroPos
    macroTable,     \* for each identity of a name the positions of its body
    expanded,       \* the .am file
    createFiles,    \* FALSE once the source is rejected
    reported        \* an ERROR line has been printed (history)

fileVars  == <<source, position, endOfLinePos, lineBuffer>>
macroVars == <<fileVars, line, definition, macroTable, expanded>>

LineKinds == {"SUCCESS", "LAST_LINE", "EMPTY_LINE", "STOP"}
NoLine == [kind |-> "none", text |-> <<>>]

NoDefinition == [name |-> <<>>, flush |-> FALSE, start |-> 0, first |-> 0, last |-> 0]

MacroInit ==
    /\ source \in Sources
    /\ position = 0 /\ endOfLinePos = 0
    /\ lineBuffer = EmptyBuffer
    /\ line = NoLine
    /\ definition = NoDefinition
    /\ macroTable = <<>>
    /\ expanded = <<>>

-----------------------------------------------------------------------------
\* getNewLineMacro.

Cleaned(s) == [i \in 1..Len(s) |-> IF s[i] = Foreign THEN Blank ELSE s[i]]
HasForeign(s) == \E i \in 1..Len(s) : s[i] = Foreign
Read(n)       == SubSeq(source, position + 1, position + n)

\* Mutant: a character is counted before it is known to be one.
CountedTooSoon(n) ==
    LET s == Cleaned(Read(n))
    IN  {[kind |-> k, text |-> Text(s), read |-> n,
          counted |-> IF EndsInNewLine(s) THEN n ELSE n + 1,
          copied |-> IF k = "EMPTY_LINE" THEN s ELSE <<>>,
          buffer |-> Closed(lineBuffer, s, k), error |-> HasForeign(Read(n))] :
             k \in Kinds(lineBuffer, s)}

\* A line that fits the buffer: n characters are read and counted.
FittingLine(n) ==
    LET s == Cleaned(Read(n))
    IN  {[kind |-> k, text |-> Text(s), read |-> n, counted |-> n,
          copied |-> IF k = "EMPTY_LINE" THEN s ELSE <<>>,
          buffer |-> Closed(lineBuffer, s, k), error |-> HasForeign(Read(n))] :
             k \in Kinds(lineBuffer, s)}

\* One that does not: what is in the buffer is copied up to its newline, which
\* is the last character of a line of MaxLine, and so is what follows up to
\* the next newline, m characters.  That newline is read and not counted.
OverlongLine(m) ==
    LET head == Cleaned(Read(MaxLine))
        tail == Cleaned(SubSeq(source, position + MaxLine + 1, position + MaxLine + m))
    IN  [kind    |-> IF EndsInNewLine(tail) THEN "EMPTY_LINE" ELSE "STOP",
         text    |-> <<>>,
         read    |-> MaxLine + m,
         counted |-> MaxLine + Len(Text(tail)),
         copied  |-> Text(head) \o tail,
         buffer  |-> Filled(lineBuffer, head \o <<NewLine>>),
         error   |-> TRUE]

getNewLineMacro ==
    LET left == 0..(Len(source) - position)
    IN  (UNION {FittingLine(n) : n \in {k \in left : k < MaxLine /\ IsLine(source, position, k)}})
        \cup {OverlongLine(m) : m \in {k \in left : /\ MaxLine + k <= Len(source) - position
                                                    /\ \A i \in 1..(MaxLine - 1) :
                                                          source[position + i] # NewLine
                                                    /\ IsLine(source, position + MaxLine, k)}}

getNewLine ==
    /\ pc \in {"runParseMacro", "getEndOfMacroPos"} /\ line = NoLine
    /\ \E l \in getNewLineMacro :
          /\ line' = [kind |-> l.kind, text |-> l.text]
          /\ position' = position + l.read
          /\ endOfLinePos' = endOfLinePos + l.counted
          /\ lineBuffer' = l.buffer
          /\ expanded' = expanded \o l.copied
          /\ reported' = (reported \/ l.error)
    /\ UNCHANGED <<pc, source, definition, macroTable, createFiles>>

-----------------------------------------------------------------------------
\* What a line is.

isReserved(word) == \E w \in Reserved : Ident(w) = Ident(word)

ValidLabel(word) ==
    /\ word # <<>> /\ word[1] \notin Digits
    /\ \A i \in 1..Len(word) : word[i] \in Letters \cup Digits
    /\ Len(word) < MaxLabel
    /\ ~isReserved(word)

\* mcr and endmcr, as words of their own.
Keyword(text, word) == FirstWord(skipWhiteSpace(text)) = <<word>>
MissingLabel(text)  == skipWhiteSpace(text) = <<"mcr">>
isStartMacroDeclaration(text) == Keyword(text, "mcr") /\ ~MissingLabel(text)
isClosingMacroDeclaration(text) == Keyword(text, "endmcr")

\* What follows mcr.
MacroLabel(text) == FirstWord(AfterWord(skipWhiteSpace(text)))
getValidMacroLabel(text) ==
    ValidLabel(MacroLabel(text)) /\ AfterWord(AfterWord(skipWhiteSpace(text))) = <<>>

MacroCall(text) == FirstWord(skipWhiteSpace(text))

\* A name alone on its line that is in the table.
isMacroCall(text) ==
    /\ ValidLabel(MacroCall(text)) /\ AfterWord(skipWhiteSpace(text)) = <<>>
    /\ Ident(MacroCall(text)) \in DOMAIN macroTable

\* The loop that is about to handle a line of these kinds; the line is done with.
Handles(loop, kinds) == pc = loop /\ line.kind \in kinds /\ line' = NoLine

\* Mutant: the end of the file is not noticed.
NextLineOrLast == pc' = IF line.kind = "LAST_LINE" THEN "parsed" ELSE "runParseMacro"

\* runParseMacro reads on, unless this was the last line.
NextLine == pc' = IF line.kind \in {"LAST_LINE", "STOP"} THEN "parsed" ELSE "runParseMacro"

Reported(error) == reported' = (reported \/ error)

-----------------------------------------------------------------------------
\* runParseMacro and searchMacro.

\* A blank or comment line, or one too long: the reader has copied it.
SkipLine ==
    /\ Handles("runParseMacro", {"EMPTY_LINE", "STOP"})
    /\ NextLine
    /\ UNCHANGED <<fileVars, definition, macroTable, expanded, createFiles, reported>>

\* mcr and nothing more.
RejectDefinition ==
    /\ Handles("runParseMacro", {"SUCCESS", "LAST_LINE"})
    /\ MissingLabel(line.text)
    /\ NextLine
    /\ createFiles' = FALSE
    /\ Reported(TRUE)
    /\ UNCHANGED <<fileVars, definition, macroTable, expanded>>

\* processMacro, up to the loop over the body.
StartDefinition ==
    /\ Handles("runParseMacro", {"SUCCESS", "LAST_LINE"})
    /\ isStartMacroDeclaration(line.text)
    /\ pc' = "getEndOfMacroPos"
    /\ definition' = [name  |-> MacroLabel(line.text),
                      flush |-> ~getValidMacroLabel(line.text),
                      start |-> endOfLinePos, first |-> endOfLinePos + 1, last |-> endOfLinePos]
    /\ Reported(~getValidMacroLabel(line.text))
    /\ UNCHANGED <<fileVars, macroTable, expanded, createFiles>>

\* An endmcr outside a definition is dropped, and the source not rejected.
DropClosing ==
    /\ Handles("runParseMacro", {"SUCCESS", "LAST_LINE"})
    /\ isClosingMacroDeclaration(line.text)
    /\ NextLine
    /\ Reported(TRUE)
    /\ UNCHANGED <<fileVars, definition, macroTable, expanded, createFiles>>

\* Mutant: the reading goes on behind the body.
CopyWithoutReturn(startingPos, endingPos) ==
    /\ expanded' = expanded \o SubSeq(source, startingPos + 1, endingPos)
    /\ position' = endingPos
    /\ UNCHANGED <<source, endOfLinePos, lineBuffer>>

\* There and, to endOfLinePos, back.
copyChunkToDestFile(startingPos, endingPos) ==
    /\ expanded' = expanded \o SubSeq(source, startingPos + 1, endingPos)
    /\ position' = endOfLinePos
    /\ UNCHANGED <<source, endOfLinePos, lineBuffer>>

expandMacro ==
    /\ Handles("runParseMacro", {"SUCCESS", "LAST_LINE"})
    /\ isMacroCall(line.text)
    /\ LET body == macroTable[Ident(MacroCall(line.text))]
       IN  copyChunkToDestFile(body.start, body.end)
    /\ NextLine
    /\ UNCHANGED <<definition, macroTable, createFiles, reported>>

\* Any other line is copied, the last one as it is, without a newline.
copyLine ==
    /\ Handles("runParseMacro", {"SUCCESS", "LAST_LINE"})
    /\ ~Keyword(line.text, "mcr") /\ ~Keyword(line.text, "endmcr")
    /\ ~isMacroCall(line.text)
    /\ expanded' = expanded \o line.text \o (IF line.kind = "SUCCESS" THEN <<NewLine>> ELSE <<>>)
    /\ NextLine
    /\ UNCHANGED <<fileVars, definition, macroTable, createFiles, reported>>

-----------------------------------------------------------------------------
\* getEndOfMacroPos.

\* A line of the body; if it is blank or a comment the reader has copied it.
BodyLine ==
    /\ Handles("getEndOfMacroPos", {"SUCCESS", "LAST_LINE", "EMPTY_LINE"})
    /\ line.kind # "EMPTY_LINE" => ~isClosingMacroDeclaration(line.text)
    /\ definition' = [definition EXCEPT !.last = endOfLinePos]
    /\ UNCHANGED <<pc, fileVars, macroTable, expanded, createFiles, reported>>

\* Back in runParseMacro.
EndsDefinition(accepted) ==
    /\ pc' = "runParseMacro"
    /\ definition' = NoDefinition
    /\ createFiles' = (createFiles /\ accepted)

ClosesDefinition ==
    /\ Handles("getEndOfMacroPos", {"SUCCESS", "LAST_LINE"})
    /\ isClosingMacroDeclaration(line.text)

\* Mutant: a later definition replaces the first.
Replaced(name, startingPos, endingPos) ==
    [id \in DOMAIN macroTable \cup {Ident(name)} |->
        IF id = Ident(name) THEN [start |-> startingPos, end |-> endingPos]
        ELSE macroTable[id]]

\* hashInsert: the first definition of a name stays.
Inserted(name, startingPos, endingPos) ==
    [id \in DOMAIN macroTable \cup {Ident(name)} |->
        IF id \in DOMAIN macroTable THEN macroTable[id]
        ELSE [start |-> startingPos, end |-> endingPos]]

\* Mutant: the body ends behind the line that closes it.
DefineWithLastLine ==
    /\ ClosesDefinition
    /\ ~definition.flush
    /\ macroTable' = Inserted(definition.name, definition.start, endOfLinePos)
    /\ Reported(Ident(definition.name) \in DOMAIN macroTable)
    /\ EndsDefinition(TRUE)
    /\ UNCHANGED <<fileVars, expanded>>

\* The body is what was read between the two lines.
DefineMacro ==
    /\ ClosesDefinition
    /\ ~definition.flush
    /\ macroTable' = Inserted(definition.name, definition.start, definition.last)
    /\ Reported(Ident(definition.name) \in DOMAIN macroTable)
    /\ EndsDefinition(TRUE)
    /\ UNCHANGED <<fileVars, expanded>>

\* After an invalid label the body is copied in place, from one character too late.
FlushDefinition ==
    /\ ClosesDefinition
    /\ definition.flush
    /\ copyChunkToDestFile(definition.first, definition.last)
    /\ EndsDefinition(FALSE)
    /\ UNCHANGED <<macroTable, reported>>

\* The file ends inside a definition.
Unterminated ==
    /\ Handles("getEndOfMacroPos", {"STOP"})
    /\ Reported(TRUE)
    /\ EndsDefinition(FALSE)
    /\ UNCHANGED <<fileVars, macroTable, expanded>>

MacroNext ==
    \/ getNewLine
    \/ SkipLine \/ RejectDefinition \/ StartDefinition \/ DropClosing \/ expandMacro \/ copyLine
    \/ BodyLine \/ DefineMacro \/ FlushDefinition \/ Unterminated
=============================================================================
