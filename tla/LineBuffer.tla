----------------------------- MODULE LineBuffer -----------------------------
(***************************************************************************)
(* Reading a text file line by line into a buffer that is never cleared,   *)
(* as getNewLineMacro (macroExpansion.c) and getNewLineMainAsmPass         *)
(* (mainAsmPassUtil.c) both do.                                            *)
(*                                                                         *)
(* A file is a sequence of characters; a position in it is the number of   *)
(* characters before it.  "mcr" and "endmcr" count as one character each.  *)
(***************************************************************************)
EXTENDS Integers, Sequences

CONSTANTS
    Letters,     \* the letters of the files, "mcr" and "endmcr" among them
    Digits,
    Marks,       \* any other printable character but ;
    MaxLine      \* MAX_LINE, 81 in the code

NewLine == "newline"
Blank   == "blank"       \* any white space but a newline
Comment == "semicolon"
Foreign == "foreign"     \* a byte above 127

Characters == Letters \cup Digits \cup Marks \cup {NewLine, Blank, Comment, Foreign}

Nul     == "nul"         \* '\0'
Garbage == "garbage"     \* a cell of the buffer nothing was stored in

ASSUME CharactersAssumption ==
    /\ {"mcr", "endmcr"} \subseteq Letters
    /\ {NewLine, Blank, Comment, Foreign, Nul, Garbage} \cap (Letters \cup Digits \cup Marks) = {}
    /\ Letters \cap (Digits \cup Marks) = {}
    /\ Digits \cap Marks = {}

\* Room for a definition, mcr and a name, on a line.
ASSUME MaxLineAssumption == MaxLine \in Nat /\ MaxLine > 4

\* char buffer[MAX_LINE + 1].
Buffer      == [1..(MaxLine + 1) -> Characters \cup {Nul, Garbage}]
EmptyBuffer == [c \in 1..(MaxLine + 1) |-> Garbage]

\* The n characters after position p are a line with its newline, or what the
\* file has left.
IsLine(file, p, n) ==
    /\ \A i \in 1..(n - 1) : file[p + i] # NewLine
    /\ \/ p + n = Len(file)
       \/ n > 0 /\ file[p + n] = NewLine

EndsInNewLine(s) == s # <<>> /\ s[Len(s)] = NewLine
Text(s)          == IF EndsInNewLine(s) THEN SubSeq(s, 1, Len(s) - 1) ELSE s

Filled(buffer, s) == [c \in 1..(MaxLine + 1) |-> IF c <= Len(s) THEN s[c] ELSE buffer[c]]

\* The buffer once the line s is read; nothing marks its end if the file does.
AfterLine(buffer, s) ==
    IF EndsInNewLine(s) THEN Filled(buffer, s \o <<Nul>>) ELSE Filled(buffer, s)

skipWhiteSpace(s) ==
    LET solid == {i \in 1..Len(s) : s[i] # Blank /\ \A j \in 1..(i - 1) : s[j] = Blank}
    IN  IF solid = {} THEN <<>> ELSE SubSeq(s, CHOOSE i \in solid : TRUE, Len(s))

\* What the scan over the blanks of the line s stops at.  If s is blank to its
\* end and has no newline, that is what earlier lines left behind it in the buffer, and
\* may be anything where nothing was ever stored.
FirstSolid(buffer, s) ==
    LET solid == skipWhiteSpace(s)
        stale == skipWhiteSpace(SubSeq(buffer, Len(s) + 1, MaxLine + 1))
    IN  CASE solid # <<>> -> {solid[1]}
          [] solid = <<>> /\ stale # <<>> /\ stale[1] # Garbage -> {stale[1]}
          [] OTHER -> Characters

\* What the reader makes of a line that fits.
Kinds(buffer, s) ==
    IF EndsInNewLine(s)
    THEN {IF c \in {Comment, NewLine} THEN "EMPTY_LINE" ELSE "SUCCESS" : c \in FirstSolid(buffer, s)}
    ELSE {IF s = <<>> \/ c \in {Comment, NewLine} THEN "STOP" ELSE "LAST_LINE" : c \in FirstSolid(buffer, s)}

\* The buffer the caller sees.
Closed(buffer, s, kind) ==
    IF kind = "LAST_LINE" THEN Filled(buffer, s \o <<NewLine, Nul>>) ELSE AfterLine(buffer, s)

-----------------------------------------------------------------------------
\* What the lines say; a text holds no newline.

FirstWord(s) ==
    LET stop == {i \in 1..Len(s) : s[i] = Blank /\ \A j \in 1..(i - 1) : s[j] # Blank}
    IN  IF stop = {} THEN s ELSE SubSeq(s, 1, (CHOOSE i \in stop : TRUE) - 1)

AfterWord(s) == skipWhiteSpace(SubSeq(s, Len(FirstWord(s)) + 1, Len(s)))

IsStatement(text) ==
    LET s == skipWhiteSpace(text) IN s # <<>> /\ s[1] # Comment
=============================================================================
