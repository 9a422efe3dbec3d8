----------------------------- MODULE LineReader -----------------------------
(***************************************************************************)
(* The lines of the expanded file, as runFirstStage gets them from         *)
(* getNewLineMainAsmPass (mainAsmPassUtil.c).  What processLine makes of a *)
(* line is FirstStage's; here it is only delivered.                        *)
(***************************************************************************)
EXTENDS MacroExpansion

VARIABLES
    passPosition,   \* where the reading of the .am file is
    passBuffer,
    delivered       \* the lines handed to processLine

passVars == <<passPosition, passBuffer, delivered>>

PassInit ==
    /\ passPosition = 0
    /\ passBuffer = EmptyBuffer
    /\ delivered = <<>>

Left == 0..(Len(expanded) - passPosition)
PassRead(n) == SubSeq(expanded, passPosition + 1, passPosition + n)

\* Mutant: a last line without a newline is taken for the end of the file.
DropLastLine ==
    /\ pc = "runFirstStage"
    /\ \E n \in {k \in Left : k < MaxLine /\ IsLine(expanded, passPosition, k)} :
          LET s == PassRead(n)
          IN  \E kind \in Kinds(passBuffer, s) :
                 /\ ~HasForeign(s)
                 /\ passPosition' = passPosition + n
                 /\ passBuffer' = Closed(passBuffer, s, kind)
                 /\ delivered' = IF kind = "SUCCESS" THEN Append(delivered, Text(s)) ELSE delivered
                 /\ pc' = IF kind \in {"STOP", "LAST_LINE"} THEN "return" ELSE pc
    /\ UNCHANGED <<createFiles, reported>>

\* A line that fits and is all ASCII.
DeliverLine ==
    /\ pc = "runFirstStage"
    /\ \E n \in {k \in Left : k < MaxLine /\ IsLine(expanded, passPosition, k)} :
          LET s == PassRead(n)
          IN  \E kind \in Kinds(passBuffer, s) :
                 /\ ~HasForeign(s)
                 /\ passPosition' = passPosition + n
                 /\ passBuffer' = Closed(passBuffer, s, kind)
                 /\ delivered' = IF kind \in {"SUCCESS", "LAST_LINE"}
                                 THEN Append(delivered, Text(s)) ELSE delivered
                 /\ pc' = IF kind \in {"STOP", "LAST_LINE"} THEN "return" ELSE pc
    /\ UNCHANGED <<createFiles, reported>>

\* The n-th character of a line is its MAX_LINE-th or its first that is not
\* ASCII.  It is not stored, and what follows is skipped up to the next
\* newline, m characters: the next line, if the n-th character was a newline.
Unreadable(n) ==
    /\ \A i \in 1..(n - 1) : expanded[passPosition + i] \notin {NewLine, Foreign}
    /\ \/ n = MaxLine
       \/ n < MaxLine /\ expanded[passPosition + n] = Foreign

\* Mutant: the error is reported and no more.
FlushAndAccept ==
    /\ pc = "runFirstStage"
    /\ \E n \in {k \in Left \ {0} : k <= MaxLine /\ Unreadable(k)} :
          \E m \in {k \in Left : n + k \in Left /\ IsLine(expanded, passPosition + n, k)} :
             LET skipped == SubSeq(expanded, passPosition + n + 1, passPosition + n + m)
             IN  /\ passPosition' = passPosition + n + m
                 /\ passBuffer' = Filled(passBuffer, PassRead(n - 1))
                 /\ pc' = IF EndsInNewLine(skipped) THEN pc ELSE "return"
    /\ reported' = TRUE
    /\ UNCHANGED <<createFiles, delivered>>

FlushInputLine ==
    /\ pc = "runFirstStage"
    /\ \E n \in {k \in Left \ {0} : k <= MaxLine /\ Unreadable(k)} :
          \E m \in {k \in Left : n + k \in Left /\ IsLine(expanded, passPosition + n, k)} :
             LET skipped == SubSeq(expanded, passPosition + n + 1, passPosition + n + m)
             IN  /\ passPosition' = passPosition + n + m
                 /\ passBuffer' = Filled(passBuffer, PassRead(n - 1))
                 /\ pc' = IF EndsInNewLine(skipped) THEN pc ELSE "return"
    /\ createFiles' = FALSE
    /\ reported' = TRUE
    /\ UNCHANGED delivered

PassNext == DeliverLine \/ FlushInputLine
=============================================================================
