--------------------------- MODULE SourceReading ---------------------------
(***************************************************************************)
(* From the .as file to the lines the first stage parses: startAssembler   *)
(* (main.c) expands the macros into the .am file and, unless that rejected *)
(* the source, has firstStage read it back.                                *)
(***************************************************************************)
EXTENDS LineReader, FiniteSets

vars == <<pc, macroVars, passVars, createFiles, reported>>

Init ==
    /\ pc = "runParseMacro"
    /\ MacroInit
    /\ PassInit
    /\ createFiles = TRUE
    /\ reported = FALSE

\* startMacroExpansion returns, and the first stage runs unless createFiles
\* was cleared.
ExpansionEnds ==
    /\ pc = "parsed"
    /\ pc' = IF createFiles THEN "runFirstStage" ELSE "return"
    /\ UNCHANGED <<macroVars, passVars, createFiles, reported>>

Next ==
    \/ MacroNext /\ UNCHANGED passVars
    \/ PassNext /\ UNCHANGED macroVars
    \/ ExpansionEnds

Spec == Init /\ [][Next]_vars /\ WF_vars(Next)

-----------------------------------------------------------------------------
Positions == 0..Len(source)

\* Every variable has its type; no position is outside its file, the position
\* the code counts never ahead of the one it is at.
TypeOK ==
    /\ pc \in {"runParseMacro", "getEndOfMacroPos", "parsed", "runFirstStage", "return"}
    /\ source \in Seq(Characters)
    /\ position \in Positions
    /\ endOfLinePos \in 0..position
    /\ lineBuffer \in Buffer
    /\ line \in [kind : LineKinds \cup {"none"}, text : Seq(Characters)]
    /\ definition \in [name : Seq(Characters), flush : BOOLEAN,
                       start : Positions, first : 0..(Len(source) + 1), last : Positions]
    /\ \A id \in DOMAIN macroTable : macroTable[id] \in [start : Positions, end : Positions]
    /\ expanded \in Seq(Characters)
    /\ passPosition \in 0..Len(expanded)
    /\ passBuffer \in Buffer
    /\ delivered \in Seq(Seq(Characters))
    /\ createFiles \in BOOLEAN
    /\ reported \in BOOLEAN

\* endOfLinePos, which the reader of macroExpansion.c counts for itself and
\* seeks back to after every call, is where the source is being read, as long as
\* nothing was reported; from then on it may only fall behind.
PositionsTrue == ~reported => endOfLinePos = position

\* A line of the file starts at position p; the line that does.
StartsLine(file, p) == p = 0 \/ file[p] = NewLine
LineAt(file, p) ==
    CHOOSE text \in {Text(Cleaned(SubSeq(file, p + 1, p + n))) :
                        n \in {k \in 0..(Len(file) - p) : IsLine(file, p, k)}} : TRUE

\* The body of a macro starts and ends behind a newline of the source, holds no
\* closing line, and is followed by one: a call copies whole lines, all of them and
\* no others, however often the reading has jumped.
BodiesWhole ==
    ~reported =>
        \A id \in DOMAIN macroTable :
            LET body == macroTable[id]
            IN  /\ body.start <= body.end
                /\ source[body.start] = NewLine /\ source[body.end] = NewLine
                /\ isClosingMacroDeclaration(LineAt(source, body.end))
                /\ \A p \in body.start..(body.end - 1) :
                      StartsLine(source, p) => ~isClosingMacroDeclaration(LineAt(source, p))

\* The .am file has a line that the first stage cannot read: a character that is not
\* ASCII, or MAX_LINE of them, the newline included.
IsUnreadable(file) ==
    \/ HasForeign(file)
    \/ \E p \in 0..(Len(file) - MaxLine) :
          StartsLine(file, p) /\ \A i \in 1..(MaxLine - 1) : file[p + i] # NewLine

\* A source the expansion let pass is rejected by the reader of the first stage exactly
\* if its .am file has a line that cannot be read, wherever it came from: copied, too
\* long for the reader of the expansion, or out of the body of a macro.
VerdictExact ==
    pc = "return" /\ (createFiles \/ passPosition > 0) =>
        (createFiles <=> ~IsUnreadable(expanded))

\* A call cannot make the reading go round in circles, even when endOfLinePos has
\* fallen behind and characters are read again.
Termination == <>(pc = "return")
-----------------------------------------------------------------------------
\* The statements of a file: its lines without the blank ones and the comments, in
\* the order of the positions they start at.  (Bound variables: TLC computes the value of
\* one once.)
StatementStarts(file) ==
    {p \in 0..(Len(file) - 1) : StartsLine(file, p) /\ IsStatement(LineAt(file, p))}
Nth(starts, k) == CHOOSE p \in starts : Cardinality({q \in starts : q <= p}) = k
LinesAt(file, starts) == [k \in 1..Cardinality(starts) |-> LineAt(file, Nth(starts, k))]
StatementsOf(file) ==
    CHOOSE lines \in {LinesAt(f, starts) : f \in {file}, starts \in {StatementStarts(file)}} : TRUE

\* The first stage is given the statements of the .am file, each once and in
\* order, whatever the buffer still held of earlier lines; and nothing else, but for a
\* last line that is blank and has no newline.
DeliversStatements ==
    pc = "return" /\ createFiles =>
        \/ delivered = StatementsOf(expanded)
        \/ /\ delivered # <<>> /\ ~IsStatement(delivered[Len(delivered)])
           /\ delivered = Append(StatementsOf(expanded), delivered[Len(delivered)])

\* The source will be rejected, or its last line has all the characters a line may
\* have: with a newline it is too long for the expansion, though not for the first stage,
\* to which the expansion hands it as it is.
Excused ==
    \/ ~createFiles \/ definition.flush \/ IsUnreadable(expanded)
    \/ /\ Len(expanded) >= MaxLine - 1
       /\ \A i \in (Len(expanded) - MaxLine + 2)..Len(expanded) : expanded[i] # NewLine

Statements(text) == IF IsStatement(text) THEN <<text>> ELSE <<>>
Body(startingPos, endingPos) == StatementsOf(SubSeq(source, startingPos + 1, endingPos))

Substitution == INSTANCE MacroSubstitution WITH
    IsName <- ValidLabel,
    phase  <- IF Excused THEN "fault"
              ELSE IF pc \in {"runFirstStage", "return"} THEN "done" ELSE "expanding",
    todo   <- IF Excused THEN <<>>
              ELSE Statements(line.text) \o Body(position, Len(source)),
    bodies <- IF Excused THEN <<>>
              ELSE [id \in DOMAIN macroTable |-> Body(macroTable[id].start, macroTable[id].end)],
    open   <- IF Excused \/ pc # "getEndOfMacroPos"
              THEN [name |-> <<>>, body |-> <<>>]
              ELSE [name |-> definition.name, body |-> Body(definition.start, definition.last)],
    out    <- IF Excused THEN <<>> ELSE StatementsOf(expanded)

\* Unless the source is rejected, the statements of the .am file are those of the source
\* with each macro call replaced by the statements of that macro: jumping about in the file by
\* counted positions does what substituting sequences of lines does.
ImplementsSubstitution == Substitution!Spec
=============================================================================
