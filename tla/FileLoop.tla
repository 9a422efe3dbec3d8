------------------------------ MODULE FileLoop ------------------------------
(***************************************************************************)
(* mainProgramLoop (main.c) and what it does to the files: one name of the *)
(* command line after the other, in one name buffer, with the question     *)
(* before an .am file is overwritten.  Between two runs of the program the  *)
(* user edits the sources; what is on disk stays.                          *)
(*                                                                         *)
(* The stages of one assembly are Assembler's and MacroExpansion's.  Here  *)
(* a source is its verdict and the output files it calls for.              *)
(***************************************************************************)
EXTENDS Integers, Sequences, FiniteSets

CONSTANTS
    Names,         \* the names on the command line, sequences of characters
    Verdicts,      \* pairs of a verdict and the types of file a source calls for
    Answers,       \* what the user may type at a question
    Unwritable,    \* the paths that cannot be opened for writing
    Unreadable,    \* those that cannot be opened for reading
    MaxArgs, MaxRuns, MaxEdits

as  == <<".", "a", "s">>
am  == <<".", "a", "m">>
ob  == <<".", "o", "b">>
ent == <<".", "e", "n", "t">>
ext == <<".", "e", "x", "t">>

Nul       == "nul"
EndOfFile == "EOF"
Yes       == {"y", "Y"}
No        == {"n", "N"}

\* Four characters and '\0'.
FILE_EXTENSION_LEN == 5

ASSUME NamesAssumption ==
    /\ \A name \in Names : name \in Seq(STRING) /\ \A c \in 1..Len(name) : name[c] # Nul
    /\ MaxArgs \in Nat /\ MaxRuns \in Nat /\ MaxEdits \in Nat

ASSUME AnswersAssumption == \A answer \in Answers : answer \in Seq(STRING)

ASSUME VerdictsAssumption ==
    \A v \in Verdicts : v[1] \in {"macro error", "error", "accepted"} /\ v[2] \subseteq {ob, ent, ext}

VARIABLES
    pc,                 \* the function about to run; "shell" between two runs
    argv, i,            \* the command line and the place in it
    file,               \* the characters of the name buffer
    room,               \* how many were allocated
    currFileNameLen,
    disk,               \* the content of each file there is
    content,            \* what was read from the open source, or .am file
    outputs,            \* the types of the output files that are open
    openFiles,          \* the number of open handles
    stdin,              \* characters typed and not yet read
    leftover,           \* how many of them were there before the question (history)
    consent,            \* the answer to the question was given after it (history)
    questions,          \* how many were asked in this run (history)
    before,             \* the disk when the current name was begun (history)
    edits, runs         \* bounds

nameVars == <<argv, i, file, room, currFileNameLen>>
fileVars == <<disk, content, outputs, openFiles>>
userVars == <<stdin, leftover, consent, questions>>
bounds   == <<edits, runs>>
vars     == <<pc, nameVars, fileVars, userVars, before, bounds>>

Truncated   == [version |-> 0, verdict |-> "error", calls |-> {}]
NothingRead == [version |-> 0, verdict |-> "accepted", calls |-> {}]

Init ==
    /\ pc = "shell"
    /\ argv = <<>> /\ i = 1
    /\ file = <<>> /\ room = 0 /\ currFileNameLen = 0
    /\ disk = <<>> /\ before = <<>>
    /\ content = Truncated /\ outputs = {} /\ openFiles = 0
    /\ stdin = <<>> /\ leftover = 0 /\ consent = FALSE /\ questions = 0
    /\ edits = 0 /\ runs = 0

-----------------------------------------------------------------------------
\* The name buffer and the disk.

\* The string s and its '\0' stored behind the first n characters.
Stored(cells, n, s) ==
    LET z == Append(s, Nul)
    IN  [c \in 1..(IF Len(cells) > n + Len(z) THEN Len(cells) ELSE n + Len(z)) |->
            IF c > n /\ c <= n + Len(z) THEN z[c - n] ELSE cells[c]]

strCopy(cells, argument) == Stored(cells, 0, argument)

\* Mutant: the name ends where the longest name so far did.
ChangedBehindLongest(fileType) == Stored(file, currFileNameLen, fileType)

\* The extension behind the name.
stringChangeFileType(fileType) == Stored(file, Len(argv[i]), fileType)

\* The string in the buffer.
Path(cells) == SubSeq(cells, 1, (CHOOSE c \in 1..Len(cells) :
                          cells[c] = Nul /\ \A b \in 1..(c - 1) : cells[b] # Nul) - 1)

Readable == DOMAIN disk \ Unreadable

With(f, path, text) ==
    [p \in DOMAIN f \cup {path} |-> IF p = path THEN text ELSE f[p]]

\* Mutant: one name too many.
OneMoreName ==
    /\ pc' = IF i <= Len(argv) THEN "copyNewFileName" ELSE "exit"
    /\ i' = i + 1
    /\ before' = disk'

\* startAssembler returns and the loop goes on.
NextName ==
    /\ pc' = IF i < Len(argv) THEN "copyNewFileName" ELSE "exit"
    /\ i' = i + 1
    /\ before' = disk'

-----------------------------------------------------------------------------
\* The user.

Edit ==
    /\ pc = "shell" /\ edits < MaxEdits
    /\ \E name \in Names, v \in Verdicts :
          disk' = With(disk, name \o as,
                       [version |-> edits + 1, verdict |-> v[1], calls |-> v[2]])
    /\ before' = disk'
    /\ edits' = edits + 1
    /\ UNCHANGED <<pc, nameVars, content, outputs, openFiles, userVars, runs>>

CommandLines == UNION {[1..n -> Names] : n \in 0..MaxArgs}

Start ==
    /\ pc = "shell" /\ runs < MaxRuns
    /\ argv' \in CommandLines
    /\ i' = 1
    /\ pc' = IF argv' = <<>> THEN "exit" ELSE "copyNewFileName"
    /\ runs' = runs + 1
    /\ UNCHANGED <<file, room, currFileNameLen, fileVars, userVars, before, edits>>

\* An answer is typed when the program waits for one.
Type(answer) ==
    /\ pc = "fileOverrideWarning" /\ stdin = <<>>
    /\ stdin' = answer
    /\ UNCHANGED <<pc, nameVars, fileVars, leftover, consent, questions, before, bounds>>

Decisive == {a \in Answers : \E c \in 1..Len(a) : a[c] \in Yes \cup No \cup {EndOfFile}}

-----------------------------------------------------------------------------
\* The program.

\* Mutant: no room for the '\0'.
TightRoom(newFileNameLen) ==
    IF currFileNameLen < newFileNameLen THEN newFileNameLen + FILE_EXTENSION_LEN - 1 ELSE room

\* A new buffer, if the name is longer than all before it.
Room(newFileNameLen) ==
    IF currFileNameLen < newFileNameLen THEN newFileNameLen + FILE_EXTENSION_LEN ELSE room

\* With no buffer yet an empty name is written through an uninitialized pointer.
copyNewFileName ==
    LET newFileNameLen == Len(argv[i])
    IN  /\ pc = "copyNewFileName"
        /\ file' = strCopy(IF currFileNameLen < newFileNameLen THEN <<>> ELSE file, argv[i])
        /\ room' = Room(newFileNameLen)
        /\ currFileNameLen' = IF currFileNameLen < newFileNameLen THEN newFileNameLen
                              ELSE currFileNameLen
        /\ pc' = IF room' = 0 THEN "undefined" ELSE "getInputDataFileFP"
        /\ UNCHANGED <<argv, i, fileVars, userVars, before, bounds>>

\* The .as file: opened, or the name is given up.
getInputDataFileFP ==
    /\ pc = "getInputDataFileFP"
    /\ UNCHANGED <<argv, room, currFileNameLen, disk, outputs, userVars, bounds>>
    /\ file' = stringChangeFileType(as)
    /\ \/ /\ Path(file') \in Readable
          /\ content' = disk[Path(file')]
          /\ openFiles' = openFiles + 1
          /\ pc' = "getMainOutputDataFileFP"
          /\ UNCHANGED <<i, before>>
       \/ /\ Path(file') \notin Readable
          /\ NextName
          /\ UNCHANGED <<content, openFiles>>

\* The .am file is opened for reading to see whether there is one; one that cannot be
\* read is overwritten without a question.
getMainOutputDataFileFP ==
    /\ pc = "getMainOutputDataFileFP"
    /\ file' = stringChangeFileType(am)
    /\ \/ /\ Path(file') \in Readable
          /\ openFiles' = openFiles + 1
          /\ leftover' = Len(stdin)
          /\ questions' = questions + 1
          /\ pc' = "fileOverrideWarning"
       \/ /\ Path(file') \notin Readable
          /\ pc' = "fopen"
          /\ UNCHANGED <<openFiles, leftover, questions>>
    /\ consent' = FALSE
    /\ UNCHANGED <<argv, i, room, currFileNameLen, disk, content, outputs, stdin, before, bounds>>

\* getchar; at the end of the file it stays there.
getchar ==
    /\ pc = "fileOverrideWarning" /\ stdin # <<>>
    /\ stdin' = IF Head(stdin) = EndOfFile THEN stdin ELSE Tail(stdin)
    /\ leftover' = IF leftover = 0 THEN 0 ELSE leftover - 1
    /\ consent' = (Head(stdin) \in Yes /\ leftover = 0)

SkipCharacter ==
    /\ getchar
    /\ Head(stdin) \notin Yes \cup No \cup {EndOfFile, Nul}
    /\ UNCHANGED <<pc, nameVars, fileVars, questions, before, bounds>>

\* Mutant: everything but an n proceeds.
ProceedUnlessNo ==
    /\ getchar
    /\ Head(stdin) \notin No
    /\ pc' = "fopen"
    /\ UNCHANGED <<nameVars, fileVars, questions, before, bounds>>

\* The handle of the check stays open.
Proceed ==
    /\ getchar
    /\ Head(stdin) \in Yes
    /\ pc' = "fopen"
    /\ UNCHANGED <<nameVars, fileVars, questions, before, bounds>>

\* Mutant: neither handle is closed.
AbortWithoutClosing ==
    /\ getchar
    /\ Head(stdin) \in No \cup {EndOfFile, Nul}
    /\ UNCHANGED <<fileVars, argv, file, room, currFileNameLen, questions, bounds>>
    /\ NextName

\* Mutant: the end of the input is no answer.
AbortOnNo ==
    /\ getchar
    /\ Head(stdin) \in No
    /\ openFiles' = openFiles - 1
    /\ UNCHANGED <<disk, content, outputs, argv, file, room, currFileNameLen, questions, bounds>>
    /\ NextName

\* The handle of the check is closed, the one of the source stays open.
Abort ==
    /\ getchar
    /\ Head(stdin) \in No \cup {EndOfFile, Nul}
    /\ openFiles' = openFiles - 1
    /\ UNCHANGED <<disk, content, outputs, argv, file, room, currFileNameLen, questions, bounds>>
    /\ NextName

\* The .am file is opened and truncated.  If it cannot be, that is not noticed
\* and the expansion writes through a null pointer.
fopen ==
    /\ pc = "fopen"
    /\ \/ /\ Path(file) \notin Unwritable
          /\ disk' = With(disk, Path(file), Truncated)
          /\ openFiles' = openFiles + 1
          /\ pc' = "parseMacroV2"
       \/ /\ Path(file) \in Unwritable
          /\ pc' = "undefined"
          /\ UNCHANGED <<disk, openFiles>>
    /\ UNCHANGED <<nameVars, content, outputs, userVars, before, bounds>>

\* The .am file is written, and both files are closed, whatever the verdict.
parseMacroV2 ==
    /\ pc = "parseMacroV2"
    /\ disk' = With(disk, Path(file), content)
    /\ openFiles' = openFiles - 2
    /\ IF content.verdict = "macro error" THEN NextName
       ELSE pc' = "firstStage" /\ UNCHANGED <<i, before>>
    /\ UNCHANGED <<argv, file, room, currFileNameLen, content, outputs, userVars, bounds>>

\* The .am file is read back under the name still in the buffer, then validated.  That
\* it cannot be opened is not looked at: validation and writing find empty queues and
\* tables, and write nothing.
firstStage ==
    /\ pc = "firstStage"
    /\ content' = IF Path(file) \in Readable THEN disk[Path(file)] ELSE NothingRead
    /\ UNCHANGED <<disk, argv, file, room, currFileNameLen, outputs, openFiles, userVars, bounds>>
    /\ IF content'.verdict = "accepted" THEN pc' = "getObjectFP" /\ UNCHANGED <<i, before>>
       ELSE NextName

\* Mutant: a file that exists is kept, as an .am file may be.
KeepExisting(fileType, next) ==
    /\ pc' = next
    /\ file' = IF fileType \in content.calls THEN stringChangeFileType(fileType) ELSE file
    /\ \/ /\ fileType \in content.calls /\ Path(file') \notin Unwritable \cup DOMAIN disk
          /\ disk' = With(disk, Path(file'), content)
          /\ openFiles' = openFiles + 1
          /\ outputs' = outputs \cup {fileType}
       \/ /\ fileType \in content.calls => Path(file') \in Unwritable \cup DOMAIN disk
          /\ UNCHANGED <<disk, openFiles, outputs>>
    /\ UNCHANGED <<argv, i, room, currFileNameLen, content, userVars, before, bounds>>

\* An output file, if there is something to put in it.
getFilePointer(fileType, next) ==
    /\ pc' = next
    /\ file' = IF fileType \in content.calls THEN stringChangeFileType(fileType) ELSE file
    /\ \/ /\ fileType \in content.calls /\ Path(file') \notin Unwritable
          /\ disk' = With(disk, Path(file'), content)
          /\ openFiles' = openFiles + 1
          /\ outputs' = outputs \cup {fileType}
       \/ /\ fileType \in content.calls => Path(file') \in Unwritable
          /\ UNCHANGED <<disk, openFiles, outputs>>
    /\ UNCHANGED <<argv, i, room, currFileNameLen, content, userVars, before, bounds>>

getObjectFP == pc = "getObjectFP" /\ getFilePointer(ob, "getEntryFP")
getEntryFP  == pc = "getEntryFP" /\ getFilePointer(ent, "getExternFP")
getExternFP == pc = "getExternFP" /\ getFilePointer(ext, "closeFiles")

closeFiles ==
    /\ pc = "closeFiles"
    /\ openFiles' = openFiles - Cardinality(outputs)
    /\ outputs' = {}
    /\ UNCHANGED <<disk, content, argv, file, room, currFileNameLen, userVars, bounds>>
    /\ NextName

\* The end of the process: its memory, handles and unread input are gone.
Exit ==
    /\ pc = "exit"
    /\ pc' = "shell"
    /\ argv' = <<>> /\ i' = 1
    /\ file' = <<>> /\ room' = 0 /\ currFileNameLen' = 0
    /\ content' = Truncated /\ openFiles' = 0
    /\ stdin' = <<>> /\ leftover' = 0 /\ consent' = FALSE /\ questions' = 0
    /\ UNCHANGED <<disk, outputs, before, bounds>>

Program ==
    \/ copyNewFileName \/ getInputDataFileFP \/ getMainOutputDataFileFP
    \/ SkipCharacter \/ Proceed \/ Abort \/ fopen \/ parseMacroV2 \/ firstStage
    \/ getObjectFP \/ getEntryFP \/ getExternFP \/ closeFiles \/ Exit

Next ==
    \/ Edit \/ Start \/ \E answer \in Answers : Type(answer)
    \/ Program

\* The program runs on; the user does not leave every question without a y or an n.
Fairness ==
    /\ WF_vars(Program)
    /\ SF_vars(\E answer \in Decisive : Type(answer))

Spec == Init /\ [][Next]_vars /\ Fairness

-----------------------------------------------------------------------------
Types == {as, am, ob, ent, ext}

Texts == [version : 0..MaxEdits, verdict : {"macro error", "error", "accepted"}, calls : SUBSET {ob, ent, ext}]

IsDisk(d) == \A p \in DOMAIN d : d[p] \in Texts

\* The characters there are.
Alphabet == UNION {{s[c] : c \in 1..Len(s)} :
                      s \in Names \cup Answers \cup {as, am, ob, ent, ext, <<Nul>>}}

ControlOK ==
    /\ pc \in {"shell", "copyNewFileName", "getInputDataFileFP", "getMainOutputDataFileFP",
               "fileOverrideWarning", "fopen", "parseMacroV2", "firstStage", "getObjectFP",
               "getEntryFP", "getExternFP", "closeFiles", "exit", "undefined"}
    /\ argv \in Seq(Names) /\ i \in 1..(Len(argv) + 1)
    /\ pc \notin {"shell", "exit"} => i <= Len(argv)
    /\ edits \in 0..MaxEdits /\ runs \in 0..MaxRuns

BufferOK == file \in Seq(Alphabet) /\ room \in Nat /\ currFileNameLen \in Nat

FilesOK == /\ IsDisk(disk) /\ IsDisk(before) /\ content \in Texts
           /\ outputs \subseteq {ob, ent, ext} /\ openFiles \in Nat

InputOK == /\ stdin \in Seq(Alphabet) /\ leftover \in 0..Len(stdin)
           /\ consent \in BOOLEAN /\ questions \in 0..i

\* Every variable has its type.
TypeOK == ControlOK /\ BufferOK /\ FilesOK /\ InputOK

\* The name buffer is allocated for the longest name so far, and used for each name with
\* the five extensions behind it: nothing is ever stored outside it, unless the first name is
\* empty.
NameFits == argv # <<>> /\ argv[1] # <<>> => Len(file) <= room

\* An .am file that can be read is overwritten only after a y that was typed after the
\* question, and never a file but the output files of the name being processed.
Consent ==
    [][\A p \in DOMAIN disk :
          /\ pc = "fopen" /\ disk'[p] # disk[p] => consent \/ p \in Unreadable
          /\ pc # "shell" /\ disk'[p] # disk[p] =>
                \E type \in Types \ {as} : p = argv[i] \o type]_vars

\* Between two names one handle is left open for every question that was asked:
\* the one of the check after a y, the one of the source after an n.
OneHandlePerQuestion ==
    pc \in {"copyNewFileName", "exit"} => openFiles = questions

\* An output file on disk was made from the same source as the .am file beside it, or
\* from an earlier one; from an earlier one only if the source of the .am file was rejected,
\* calls for no such file, the file cannot be written, or the .am file not read back.
StaleOnlyIfNotWritten ==
    pc = "shell" =>
        \A name \in Names, type \in {ob, ent, ext} :
            name \o type \in DOMAIN disk =>
                /\ name \o am \in DOMAIN disk
                /\ disk[name \o type].version <= disk[name \o am].version
                /\ \/ disk[name \o type] = disk[name \o am]
                   \/ disk[name \o am].verdict # "accepted"
                   \/ type \notin disk[name \o am].calls
                   \/ name \o type \in Unwritable \/ name \o am \in Unreadable

\* Every run of the program ends, by its own exit or at the null pointer of fopen.
EveryRunEnds == []<>(pc \in {"shell", "undefined"})

\* What a source may contain, and the names still to be processed.
Contents == {[version |-> e, verdict |-> v[1], calls |-> v[2]] : e \in 1..MaxEdits, v \in Verdicts}

todo == IF pc = "shell" THEN <<>> ELSE SubSeq(argv, i, Len(argv))

\* Each name is assembled as if it was alone on the command line: with its own source,
\* into its own files, all of them or only .am, whatever names came before.
AsIfAlone == INSTANCE Batch WITH disk <- before

ImplementsBatch == AsIfAlone!Spec
=============================================================================
