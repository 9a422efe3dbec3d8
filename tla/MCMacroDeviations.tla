------------------------- MODULE MCMacroDeviations -------------------------
(***************************************************************************)
(* What the repository says of reading lines and the code does not do.     *)
(***************************************************************************)
EXTENDS MCMacros

BlankEnd == {Line(<<"x", ",">>) \o <<Blank>>}

\* mainAsmPassUtil.c:79-80: a last line that is blank is one "we can ignore", and
\* the reading ends with STOP.  Behind the blanks the buffer still holds the line
\* before, and a line of blanks is parsed, which rejects the source.
BlankLinesIgnored == \A k \in DOMAIN delivered : IsStatement(delivered[k])
=============================================================================
