------------------------------ MODULE MCFiles ------------------------------
(***************************************************************************)
(* Instances of FileLoop for TLC, and what the repository says of the      *)
(* questions and the code does not do.                                     *)
(***************************************************************************)
EXTENDS FileLoop

\* Two short names and a longer one.
MCNames == {<<"a">>, <<"b", "b">>, <<"c">>}

MCVerdicts == {<<"macro error", {}>>, <<"error", {}>>, <<"accepted", {ob}>>,
               <<"accepted", {ob, ent, ext}>>}
FewVerdicts == {<<"macro error", {}>>, <<"accepted", {ob, ent}>>}

\* A line with one character, an empty one, or the end of the input.
OneLetter == {<<"y", "newline">>, <<"n", "newline">>, <<"x", "newline">>, <<EndOfFile>>}
\* no way
Words     == OneLetter \cup {<<"n", "o", "blank", "w", "a", "y", "newline">>}

\* a cannot have its .ext file, what is written to bb.am cannot be read back, c.am cannot
\* be written.
SomeFail   == {<<"a">> \o ext, <<"c">> \o am}
SomeClosed == {<<"b", "b">> \o am}

-----------------------------------------------------------------------------
\* main.c:162: "Enter 'y' to proceed or 'n' to abort".  The rest of a word typed at one
\* question answers the next one.
AskedEachTime ==
    [][pc = "fopen" /\ Path(file) \in DOMAIN disk => consent]_vars
=============================================================================
