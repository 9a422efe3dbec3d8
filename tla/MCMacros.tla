------------------------------ MODULE MCMacros ------------------------------
(***************************************************************************)
(* Instances of SourceReading for TLC.                                     *)
(***************************************************************************)
EXTENDS SourceReading

MCLetters  == {"mcr", "endmcr", "a", "b", "x", "add"}
MCDigits   == {"1"}
MCMarks    == {","}
MCReserved == {<<"add">>}
MCIdent(word) == word

\* The sources made of at most n of the blocks, the last line with its newline or
\* without.
RECURSIVE Texts(_, _)
Texts(blocks, n) ==
    IF n = 0 THEN {<<>>}
    ELSE LET shorter == Texts(blocks, n - 1) IN shorter \cup {s \o b : s \in shorter, b \in blocks}
BothEnds(texts) == texts \cup {SubSeq(text, 1, Len(text) - 1) : text \in texts \ {<<>>}}

Line(text) == Append(text, NewLine)
Define(name, body) == Line(<<"mcr", Blank, name>>) \o body \o Line(<<"endmcr">>)

\* Definitions and calls in any order: of a name not defined yet, or twice, of a
\* macro in the body of another, with blank and comment lines in a body.
Blocks == {Define("a", <<>>),
           Define("a", Line(<<"x">>) \o Line(<<Comment>>) \o Line(<<Blank, "x", ",">>)),
           Define("b", Line(<<"a">>) \o Line(<<>>)),
           Line(<<"mcr", Blank, "b">>), Line(<<"endmcr">>),
           Line(<<"a">>), Line(<<Blank, "b", Blank>>), Line(<<"x", ",">>),
           Line(<<Comment, "a">>), Line(<<Blank, Blank>>)}

\* Everything a line may do to the two readers.  The fifth and sixth of the last
\* row are the longest line that is not too long, and the one that is by its newline.
OddLines == {<<>>, <<Blank>>, <<"x">>, <<Comment, Foreign>>, <<"a">>, <<"endmcr">>, <<"endmcr", Blank, "x">>,
             <<"mcr">>, <<"mcr", Blank>>, <<"mcr", "a">>, <<"mcr", Blank, ",">>, <<"mcr", Blank, "1", "a">>,
             <<"mcr", Blank, "add">>, <<"mcr", Blank, "a", "x">>, <<"mcr", Blank, "a", Foreign>>,
             <<"a", Foreign>>, <<"a", Blank, "x">>, <<"a", Blank, Blank, Blank>>, <<"a", Blank, Blank, Blank, Blank>>,
             <<"x", "x", "x", "x", "x", "x">>, <<"x", "x", "x", "x", "x", "x", "a">>}

FirstLines == {<<>>, <<"x", "x", "x", "x", "x", "x">>}

PlainSources ==
    BothEnds(Texts(Blocks, 3)
             \cup {Define("a", Line(<<"x">>)) \o b \o Line(<<"a">>) \o c \o Line(<<"a">>) \o Line(<<"b">>) :
                      b, c \in Blocks})
OddSources   ==
    BothEnds({Line(before) \o Define("a", Line(inside)) \o Line(after) \o Line(<<"a">>) :
                 before \in FirstLines, inside, after \in OddLines}
             \cup Texts({Line(text) : text \in OddLines}, 2))
AllSources == PlainSources \cup OddSources

=============================================================================
