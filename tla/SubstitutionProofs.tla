-------------------------- MODULE SubstitutionProofs --------------------------
(***************************************************************************)
(* SourceReading implements MacroSubstitution, for every source and every  *)
(* table of names: unless the source is rejected, jumping about in it by   *)
(* counted positions does what replacing the calls by sequences of lines   *)
(* does.                                                                   *)
(*                                                                         *)
(* The inductive invariant, SInv: as long as nothing excuses the source,   *)
(* the reading is between two of its lines, and the bodies recorded, the   *)
(* definition being read and what has been copied are whole lines.         *)
(***************************************************************************)
EXTENDS SourceReadingProofs

-----------------------------------------------------------------------------
(* Files behind files: what they say, and whether they can be read.         *)

\* A file with another one behind it.
LEMMA JoinedFile ==
    ASSUME NEW a \in Seq(Characters), NEW b \in Seq(Characters)
    PROVE  a \o b \in Seq(Characters) /\ IsJoined(a, b, a \o b)
BY ConcatProperties DEF IsJoined

\* A file no line starts in the middle of: another one may follow it.
EndsWhole(file) == file = <<>> \/ EndsInNewLine(file)

\* The end of a file is all the characters a line may have, and no newline.
LongEnd(file) ==
    /\ Len(file) >= MaxLine - 1
    /\ \A i \in (Len(file) - MaxLine + 2)..Len(file) : file[i] # NewLine

\* The four ways to be excused.
LEMMA ExcusedIs == Excused <=> ~createFiles \/ definition.flush \/ IsUnreadable(expanded) \/ LongEnd(expanded)
BY DEF Excused, LongEnd

\* What is behind it does not make a file readable.
LEMMA UnreadableStays ==
    ASSUME NEW a \in Seq(Characters), NEW b \in Seq(Characters), IsUnreadable(a)
    PROVE  IsUnreadable(a \o b)
<1> DEFINE c == a \o b
<1>1. IsJoined(a, b, c) /\ c \in Seq(Characters)
  BY JoinedFile
<1> HIDE DEF c
<1>0. MaxLine \in Nat /\ MaxLine > 4 /\ Len(a) \in Nat /\ Len(b) \in Nat /\ Len(c) = Len(a) + Len(b)
  BY <1>1, MaxLineAssumption DEF IsJoined
<1>2. CASE HasForeign(a)
  <2>1. PICK i \in 1..Len(a) : a[i] = Foreign
    BY <1>2 DEF HasForeign
  <2>2. i \in 1..Len(c) /\ c[i] = Foreign
    BY <1>0, <1>1, <2>1 DEF IsJoined
  <2> QED
    BY <2>2 DEF IsUnreadable, HasForeign, c
<1>3. CASE \E p \in 0..(Len(a) - MaxLine) :
              StartsLine(a, p) /\ \A i \in 1..(MaxLine - 1) : a[p + i] # NewLine
  <2>1. PICK p \in 0..(Len(a) - MaxLine) :
              StartsLine(a, p) /\ \A i \in 1..(MaxLine - 1) : a[p + i] # NewLine
    BY <1>3
  <2>2. p \in 0..(Len(c) - MaxLine)
    BY <1>0
  <2>3. StartsLine(c, p)
    <3>1. p = 0 \/ p \in 1..Len(a)
      BY <1>0
    <3> QED
      BY <1>1, <2>1, <3>1 DEF StartsLine, IsJoined
  <2>4. ASSUME NEW i \in 1..(MaxLine - 1) PROVE c[p + i] # NewLine
    <3>1. p + i \in 1..Len(a)
      BY <1>0
    <3> QED
      BY <1>1, <2>1, <3>1 DEF IsJoined
  <2> QED
    BY <2>2, <2>3, <2>4 DEF IsUnreadable, c
<1> QED
  BY <1>2, <1>3 DEF IsUnreadable

\* A file that can be followed by another one has no such end.
LEMMA WholeEnd ==
    ASSUME NEW file \in Seq(Characters), EndsWhole(file)
    PROVE  ~LongEnd(file)
<1>1. MaxLine \in Nat /\ MaxLine > 4 /\ Len(file) \in Nat
  BY MaxLineAssumption
<1>2. CASE file = <<>>
  BY <1>1, <1>2 DEF LongEnd
<1>3. CASE EndsInNewLine(file)
  <2>1. file[Len(file)] = NewLine
    BY <1>3 DEF EndsInNewLine
  <2>2. Len(file) \in (Len(file) - MaxLine + 2)..Len(file)
    BY <1>1
  <2> QED
    BY <2>1, <2>2 DEF LongEnd
<1> QED
  BY <1>2, <1>3 DEF EndsWhole

\* So many characters without a newline behind it make a file one that is rejected, or
\* its end one.
LEMMA OverlongCopied ==
    ASSUME NEW a \in Seq(Characters), NEW b \in Seq(Characters), EndsWhole(a),
           Len(b) >= MaxLine - 1, \A i \in 1..(MaxLine - 1) : b[i] # NewLine
    PROVE  IsUnreadable(a \o b) \/ LongEnd(a \o b)
<1> DEFINE c == a \o b
<1>1. IsJoined(a, b, c) /\ c \in Seq(Characters)
  BY JoinedFile
<1> HIDE DEF c
<1>0. /\ MaxLine \in Nat /\ MaxLine > 4 /\ Len(a) \in Nat /\ Len(b) \in Nat
      /\ Len(c) = Len(a) + Len(b)
  BY <1>1, MaxLineAssumption DEF IsJoined
<1>2. \A i \in 1..(MaxLine - 1) : c[Len(a) + i] # NewLine
  BY <1>0, <1>1 DEF IsJoined
<1>3. CASE Len(b) >= MaxLine
  <2>1. Len(a) \in 0..(Len(c) - MaxLine)
    BY <1>0, <1>3
  <2>2. StartsLine(c, Len(a))
    <3>1. CASE a = <<>>
      BY <3>1 DEF StartsLine
    <3>2. CASE EndsInNewLine(a)
      <4>1. Len(a) \in 1..Len(a) /\ a[Len(a)] = NewLine
        BY <1>0, <3>2 DEF EndsInNewLine
      <4> QED
        BY <1>1, <4>1 DEF StartsLine, IsJoined
    <3> QED
      BY <3>1, <3>2 DEF EndsWhole
  <2> QED
    BY <1>2, <2>1, <2>2 DEF IsUnreadable, c
<1>4. CASE Len(b) = MaxLine - 1
  <2>1. ASSUME NEW i \in (Len(c) - MaxLine + 2)..Len(c) PROVE c[i] # NewLine
    <3>1. i - Len(a) \in 1..(MaxLine - 1) /\ Len(a) + (i - Len(a)) = i
      BY <1>0, <1>4
    <3> QED
      BY <1>2, <3>1
  <2>2. Len(c) >= MaxLine - 1
    BY <1>0, <1>4
  <2> QED
    BY <2>1, <2>2 DEF LongEnd, c
<1> QED
  BY <1>0, <1>3, <1>4

-----------------------------------------------------------------------------
\* Where a line ends, and another one may start.
Border(p) == p = 0 \/ source[p] = NewLine \/ p = Len(source)

\* A body that is read in two parts.
LEMMA BodySplit ==
    ASSUME source \in Seq(Characters), NEW s \in Nat, NEW p \in Nat, NEW e \in Nat,
           s <= p, p <= e, e <= Len(source), Border(p)
    PROVE  Body(s, e) = Body(s, p) \o Body(p, e)
<1> DEFINE a == SubSeq(source, s + 1, p)
           b == SubSeq(source, p + 1, e)
<1>0. Len(source) \in Nat
  OBVIOUS
<1>1. a \o b = SubSeq(source, s + 1, e)
  <2> DEFINE m == s + 1
  <2>1. m \in 1..(Len(source) + 1) /\ p \in (m - 1)..Len(source) /\ e \in p..Len(source)
    BY <1>0
  <2> HIDE DEF m
  <2>2. SubSeq(source, m, p) \o SubSeq(source, p + 1, e) = SubSeq(source, m, e)
    BY <2>1, ConcatAdjacentSubSeq
  <2> QED
    BY <2>2 DEF m
<1>2. a \in Seq(Characters) /\ b \in Seq(Characters)
  BY PartType
<1>3. a = <<>> \/ b = <<>> \/ EndsInNewLine(a)
  <2>1. CASE s = p
    BY <2>1
  <2>2. CASE p = Len(source)
    <3>1. e = p
      BY <1>0, <2>2
    <3> QED
      BY <3>1
  <2>3. CASE s < p /\ p # Len(source)
    <3>1. source[p] = NewLine
      BY <2>3 DEF Border
    <3> DEFINE n == p - s
    <3>2. n \in 0..(Len(source) - s) /\ p = s + n /\ n > 0
      BY <1>0, <2>3
    <3> HIDE DEF n, a
    <3>3. EndsInNewLine(SubSeq(source, s + 1, s + n))
      BY <3>1, <3>2, PartElements
    <3> QED
      BY <3>2, <3>3 DEF a
  <2> QED
    BY <2>1, <2>2, <2>3
<1>4. StatementsOf(a \o b) = StatementsOf(a) \o StatementsOf(b)
  <2> HIDE DEF a, b
  <2> QED
    BY <1>2, <1>3, StatementsJoin
<1> QED
  BY <1>1, <1>4, Zenon DEF Body

\* Nothing is between a position and itself.
LEMMA BodyNone ==
    ASSUME NEW p \in Nat
    PROVE  Body(p, p) = <<>>
<1>1. SubSeq(source, p + 1, p) = <<>>
  OBVIOUS
<1> QED
  BY <1>1, NoStatements DEF Body

\* A body is a sequence of texts.
LEMMA BodyType ==
    ASSUME source \in Seq(Characters), NEW s \in Nat, NEW e \in Nat, e <= Len(source)
    PROVE  Body(s, e) \in Seq(Seq(Characters))
<1> DEFINE a == SubSeq(source, s + 1, e)
<1>1. a \in Seq(Characters)
  BY PartType
<1> HIDE DEF a
<1>2. StatementsOf(a) \in Seq(Seq(Characters))
  BY <1>1, StatementsType
<1> QED
  BY <1>2 DEF Body, a

\* The body that is one line of the source.
LEMMA BodyOfLine ==
    ASSUME source \in Seq(Characters), NEW p \in Nat, NEW n \in 0..(Len(source) - p),
           IsLine(source, p, n)
    PROVE  Body(p, p + n) = Statements(TextBetween(p, p + n))
<1> DEFINE s == SubSeq(source, p + 1, p + n)
<1>1. s \in Seq(Characters)
  BY PartType
<1>2. Len(s) = n /\ \A i \in 1..n : s[i] = source[p + i]
  BY PartElements
<1>3. IsLine(s, 0, Len(s))
  <2>1. \A i \in 1..(n - 1) : s[0 + i] # NewLine
    <3>1. \A i \in 1..(n - 1) : i \in 1..n /\ 0 + i = i
      OBVIOUS
    <3> HIDE DEF s
    <3> QED
      BY <1>2, <3>1 DEF IsLine
  <2> HIDE DEF s
  <2> QED
    BY <1>2, <2>1 DEF IsLine
<1>4. StatementsOf(s) = Statements(Text(Cleaned(s)))
  <2> HIDE DEF s
  <2> QED
    BY <1>1, <1>3, OneLine
<1> QED
  BY <1>4, Zenon DEF Body, TextBetween

-----------------------------------------------------------------------------
(* The words of a line.                                                     *)

\* Cleaning leaves the newlines where they are, and nothing to clean.
LEMMA CleanedIs ==
    ASSUME NEW s \in Seq(Characters)
    PROVE  /\ \A i \in 1..Len(s) : Cleaned(s)[i] = NewLine <=> s[i] = NewLine
           /\ Cleaned(Cleaned(s)) = Cleaned(s)
           /\ EndsInNewLine(Cleaned(s)) <=> EndsInNewLine(s)
<1> DEFINE c == Cleaned(s)
<1>1. c \in Seq(Characters) /\ Len(c) = Len(s) /\ Len(s) \in Nat
  BY CleanedType
<1>2. \A i \in 1..Len(s) : c[i] = IF s[i] = Foreign THEN Blank ELSE s[i]
  BY DEF Cleaned
<1> HIDE DEF c
<1>3. \A i \in 1..Len(s) : (c[i] = NewLine <=> s[i] = NewLine) /\ c[i] # Foreign
  BY <1>2 DEF NewLine, Blank, Foreign
<1>4. ~HasForeign(c)
  BY <1>1, <1>3 DEF HasForeign
<1>5. Cleaned(c) = c
  BY <1>1, <1>4, CleanAlready
<1>6. EndsInNewLine(c) <=> EndsInNewLine(s)
  <2>1. CASE Len(s) = 0
    <3>1. c = <<>> /\ s = <<>>
      BY <1>1, <2>1
    <3> QED
      BY <3>1 DEF EndsInNewLine
  <2>2. CASE Len(s) > 0
    <3>1. c # <<>> /\ s # <<>> /\ Len(s) \in 1..Len(s)
      BY <1>1, <2>2
    <3> QED
      BY <1>1, <1>3, <3>1 DEF EndsInNewLine
  <2> QED
    BY <1>1, <2>1, <2>2
<1> QED
  BY <1>3, <1>5, <1>6 DEF c

\* What is left of a text behind its blanks does not start with one.
LEMMA SkippedStarts ==
    ASSUME NEW s \in Seq(Characters), skipWhiteSpace(s) # <<>>
    PROVE  skipWhiteSpace(s)[1] # Blank
<1>1. PICK i : IsSolid(s, i)
  BY Skipped
<1>2. skipWhiteSpace(s)[1] = s[i]
  BY <1>1, Skipped
<1> QED
  BY <1>1, <1>2 DEF IsSolid

\* The first word of a text that is not empty and does not start with a blank.
LEMMA WordStarts ==
    ASSUME NEW s \in Seq(Characters), s # <<>>, s[1] # Blank
    PROVE  FirstWord(s) # <<>> /\ FirstWord(s)[1] = s[1]
<1> DEFINE stop == {i \in 1..Len(s) : s[i] = Blank /\ \A j \in 1..(i - 1) : s[j] # Blank}
<1>1. CASE stop = {}
  BY <1>1 DEF FirstWord
<1>2. CASE stop # {}
  <2> DEFINE k == CHOOSE i \in stop : TRUE
  <2>1. k \in stop
    BY <1>2
  <2>2. k \in 1..Len(s) /\ k # 1
    BY <2>1
  <2> HIDE DEF k
  <2> DEFINE n == k - 1
             w == SubSeq(s, 0 + 1, 0 + n)
  <2>3. n \in 1..Len(s) /\ n \in 0..(Len(s) - 0) /\ 0 \in Nat
    BY <2>2
  <2> HIDE DEF n
  <2>4. Len(w) = n /\ w[1] = s[0 + 1]
    BY <2>3, PartElements
  <2>5. FirstWord(s) = w
    BY <1>2 DEF FirstWord, k, n
  <2>6. w[1] = s[1]
    <3>1. 0 + 1 = 1
      OBVIOUS
    <3> QED
      BY <2>4, <3>1, Zenon
  <2> HIDE DEF w
  <2>7. w # <<>>
    BY <2>3, <2>4
  <2> QED
    BY <2>5, <2>6, <2>7
<1> QED
  BY <1>1, <1>2

\* No word, no text.
LEMMA NoWord ==
    ASSUME NEW s \in Seq(Characters), FirstWord(skipWhiteSpace(s)) = <<>>
    PROVE  skipWhiteSpace(s) = <<>>
<1>1. skipWhiteSpace(s) \in Seq(Characters)
  BY SkipType
<1> QED
  BY <1>1, SkippedStarts, WordStarts

\* A text whose first word does not start a comment is a statement.
LEMMA WordOfStatement ==
    ASSUME NEW text \in Seq(Characters),
           FirstWord(skipWhiteSpace(text)) # <<>>, FirstWord(skipWhiteSpace(text))[1] # Comment
    PROVE  IsStatement(text)
<1> DEFINE s == skipWhiteSpace(text)
<1>1. s \in Seq(Characters)
  BY SkipType
<1>2. s # <<>>
  <2>1. ASSUME s = <<>> PROVE FirstWord(s) = <<>>
    BY <2>1 DEF FirstWord
  <2> QED
    BY <2>1
<1>3. s[1] # Comment
  BY <1>1, <1>2, SkippedStarts, WordStarts
<1> QED
  BY <1>2, <1>3 DEF IsStatement

\* So is a definition, the end of one, and a call.
LEMMA KeywordStatement ==
    ASSUME NEW text \in Seq(Characters), NEW word \in {"mcr", "endmcr"}, Keyword(text, word)
    PROVE  IsStatement(text)
<1>1. word # Comment
  BY CharactersAssumption
<1>2. FirstWord(skipWhiteSpace(text)) = <<word>>
  BY DEF Keyword
<1> QED
  BY <1>1, <1>2, WordOfStatement

\* So is a text that starts with a name.
LEMMA NameStatement ==
    ASSUME NEW text \in Seq(Characters), ValidLabel(FirstWord(skipWhiteSpace(text)))
    PROVE  IsStatement(text)
<1> DEFINE w == FirstWord(skipWhiteSpace(text))
<1>1. w \in Seq(Characters)
  BY SkipType, FirstWordType
<1> HIDE DEF w
<1>2. w # <<>> /\ \A i \in 1..Len(w) : w[i] \in Letters \cup Digits
  BY DEF ValidLabel, w
<1>3. w[1] # Comment
  <2>1. 1 \in 1..Len(w)
    BY <1>1, <1>2
  <2> QED
    BY <1>2, <2>1, CharactersAssumption
<1> QED
  BY <1>2, <1>3, WordOfStatement DEF w

\* The second word is missing exactly if nothing is behind the first.
LEMMA SecondWord ==
    ASSUME NEW s \in Seq(Characters)
    PROVE  FirstWord(AfterWord(s)) = <<>> <=> AfterWord(s) = <<>>
<1> DEFINE r == SubSeq(s, Len(FirstWord(s)) + 1, Len(s))
<1>1. r \in Seq(Characters)
  BY FirstWordType, PartType
<1>2. AfterWord(s) = skipWhiteSpace(r)
  BY DEF AfterWord
<1>3. FirstWord(<<>>) = <<>>
  BY DEF FirstWord
<1> HIDE DEF r
<1> QED
  BY <1>1, <1>2, <1>3, NoWord

-----------------------------------------------------------------------------
(* What the reader of the expansion returns.                                *)

\* What the reader of the expansion returns for a line of n characters that fits.
FittingRead(l, n) ==
    /\ IsLine(source, position, n)
    /\ l.read = n /\ l.counted = n
    /\ l.text = TextBetween(position, position + n)
    /\ l.copied = IF l.kind = "EMPTY_LINE" THEN Cleaned(Read(n)) ELSE <<>>
    /\ EndsInNewLine(Read(n)) =>
          l.kind \in {"SUCCESS", "EMPTY_LINE"} /\ (l.kind = "SUCCESS" <=> IsStatement(l.text))
    /\ ~EndsInNewLine(Read(n)) =>
          l.kind \in {"LAST_LINE", "STOP"} /\ (l.kind = "STOP" => ~IsStatement(l.text))
    /\ n = 0 => l.kind = "STOP"

\* And for one that does not fit.
OverlongRead(l) ==
    /\ l.kind \in {"EMPTY_LINE", "STOP"} /\ l.text = <<>>
    /\ l.copied \in Seq(Characters) /\ Len(l.copied) >= MaxLine - 1
    /\ \A i \in 1..(MaxLine - 1) : l.copied[i] # NewLine
    /\ l.kind = "EMPTY_LINE" => EndsInNewLine(l.copied)

\* A line that fits is read as FittingRead says.
LEMMA FittingFacts ==
    ASSUME TypeOK, NEW n \in 0..(Len(source) - position), IsLine(source, position, n),
           NEW l \in FittingLine(n)
    PROVE  FittingRead(l, n)
<1>0. source \in Seq(Characters) /\ position \in Nat /\ position <= Len(source)
  BY DEF TypeOK, Positions
<1> DEFINE r == Read(n)
           s == Cleaned(r)
<1>1. PICK k \in Kinds(lineBuffer, s) :
         /\ l.kind = k /\ l.text = Text(s) /\ l.read = n /\ l.counted = n
         /\ l.copied = (IF k = "EMPTY_LINE" THEN s ELSE <<>>)
  BY DEF FittingLine
<1>2. r \in Seq(Characters) /\ r = SubSeq(source, position + 1, position + n)
  BY <1>0, PartType DEF Read
<1>3. Len(r) = n /\ \A i \in 1..n : r[i] = source[position + i]
  BY <1>0, PartElements DEF Read
<1>4. TextBetween(position, position + n) = Text(s)
  BY <1>2, Zenon DEF TextBetween
<1> HIDE DEF r
<1>5. s \in Seq(Characters) /\ Len(s) = n
  BY <1>2, <1>3, CleanedType
<1>6. /\ \A i \in 1..n : s[i] = NewLine <=> r[i] = NewLine
      /\ EndsInNewLine(s) <=> EndsInNewLine(r)
  BY <1>2, <1>3, CleanedIs
<1> HIDE DEF s
<1>7. \A i \in 1..(Len(s) - 1) : s[i] # NewLine
  <2>1. \A i \in 1..(n - 1) : i \in 1..n
    OBVIOUS
  <2> QED
    BY <1>3, <1>5, <1>6, <2>1 DEF IsLine
<1>8. /\ EndsInNewLine(s) =>
            k \in {"SUCCESS", "EMPTY_LINE"} /\ (k = "SUCCESS" <=> IsStatement(Text(s)))
      /\ ~EndsInNewLine(s) =>
            k \in {"STOP", "LAST_LINE"} /\ (k = "STOP" => ~IsStatement(Text(s)))
  BY <1>5, <1>7, KindsTell
<1>9. n = 0 => k = "STOP"
  <2>1. ASSUME n = 0 PROVE s = <<>>
    BY <1>5, <2>1
  <2>2. ASSUME s = <<>> PROVE k = "STOP"
    BY <2>2 DEF Kinds, EndsInNewLine
  <2> QED
    BY <2>1, <2>2
<1> QED
  BY <1>1, <1>4, <1>6, <1>8, <1>9 DEF FittingRead, r, s

\* And one that does not as OverlongRead says.
LEMMA OverlongFacts ==
    ASSUME TypeOK, NEW m \in 0..(Len(source) - position), MaxLine + m <= Len(source) - position,
           \A i \in 1..(MaxLine - 1) : source[position + i] # NewLine
    PROVE  OverlongRead(OverlongLine(m))
<1>0. /\ source \in Seq(Characters) /\ position \in Nat /\ position <= Len(source)
      /\ MaxLine \in Nat /\ MaxLine > 4
  BY MaxLineAssumption DEF TypeOK, Positions
<1> DEFINE h == Read(MaxLine)
           t == SubSeq(source, position + MaxLine + 1, position + MaxLine + m)
           head == Cleaned(h)
           tail == Cleaned(t)
           l == OverlongLine(m)
<1>1. /\ l.kind = IF EndsInNewLine(tail) THEN "EMPTY_LINE" ELSE "STOP"
      /\ l.text = <<>> /\ l.copied = Text(head) \o tail
  BY DEF OverlongLine
<1> HIDE DEF l
<1>2. h \in Seq(Characters) /\ t \in Seq(Characters)
  BY <1>0, PartType DEF Read
<1>3. Len(h) = MaxLine /\ \A i \in 1..MaxLine : h[i] = source[position + i]
  BY <1>0, PartElements DEF Read
<1> HIDE DEF h, t
<1>4. head \in Seq(Characters) /\ Len(head) = MaxLine /\ tail \in Seq(Characters)
  BY <1>2, <1>3, CleanedType
<1>5. \A i \in 1..(MaxLine - 1) : head[i] # NewLine
  <2>1. \A i \in 1..(MaxLine - 1) : i \in 1..Len(h)
    BY <1>0, <1>3
  <2>2. \A i \in 1..Len(h) : head[i] = NewLine <=> h[i] = NewLine
    BY <1>2, CleanedIs
  <2> HIDE DEF head
  <2> QED
    BY <1>3, <2>1, <2>2
<1> HIDE DEF head, tail
<1> DEFINE x == Text(head)
           c == x \o tail
<1>6. /\ x \in Seq(Characters) /\ Len(x) >= MaxLine - 1
      /\ \A i \in 1..Len(x) : x[i] = head[i]
  BY <1>0, <1>4, TextIs
<1> HIDE DEF x
<1>7. c \in Seq(Characters) /\ IsJoined(x, tail, c)
  BY <1>4, <1>6, JoinedFile
<1> HIDE DEF c
<1>8. Len(c) >= MaxLine - 1
  BY <1>0, <1>4, <1>6, <1>7 DEF IsJoined
<1>9. ASSUME NEW i \in 1..(MaxLine - 1) PROVE c[i] # NewLine
  <2>1. i \in 1..Len(x)
    BY <1>0, <1>6
  <2> QED
    BY <1>5, <1>6, <1>7, <2>1 DEF IsJoined
<1>10. ASSUME EndsInNewLine(tail) PROVE EndsInNewLine(c)
  <2>1. Len(tail) \in 1..Len(tail) /\ tail[Len(tail)] = NewLine
    BY <1>4, <1>10 DEF EndsInNewLine
  <2>2. c[Len(x) + Len(tail)] = NewLine /\ Len(c) = Len(x) + Len(tail)
    BY <1>7, <2>1 DEF IsJoined
  <2>3. c # <<>>
    BY <1>6, <2>1, <2>2
  <2> QED
    BY <2>2, <2>3 DEF EndsInNewLine
<1>11. l.copied = c
  BY <1>1, Zenon DEF c, x
<1> QED
  BY <1>1, <1>7, <1>8, <1>9, <1>10, <1>11 DEF OverlongRead, l

\* The two kinds of lines that can be read.
LEMMA LineFacts ==
    ASSUME TypeOK, NEW l \in getNewLineMacro
    PROVE  (\E n \in 0..(Len(source) - position) : FittingRead(l, n)) \/ OverlongRead(l)
<1> DEFINE left == 0..(Len(source) - position)
           A == {FittingLine(m) : m \in {k \in left : k < MaxLine /\ IsLine(source, position, k)}}
<1>1. \/ l \in UNION A
      \/ \E m \in left : /\ MaxLine + m <= Len(source) - position /\ l = OverlongLine(m)
                         /\ \A i \in 1..(MaxLine - 1) : source[position + i] # NewLine
  BY DEF getNewLineMacro
<1>2. CASE l \in UNION A
  <2>1. PICK X \in A : l \in X
    BY <1>2
  <2>2. PICK n \in left : IsLine(source, position, n) /\ X = FittingLine(n)
    BY <2>1
  <2>3. FittingRead(l, n)
    BY <2>1, <2>2, FittingFacts
  <2> QED
    BY <2>3
<1>3. CASE \E m \in left : /\ MaxLine + m <= Len(source) - position /\ l = OverlongLine(m)
                           /\ \A i \in 1..(MaxLine - 1) : source[position + i] # NewLine
  BY <1>3, OverlongFacts
<1> QED
  BY <1>1, <1>2, <1>3

-----------------------------------------------------------------------------
(* What is written, and whether it will be rejected.                        *)

\* The loops of the expansion.
Loops == {"runParseMacro", "getEndOfMacroPos"}

\* The .am file is only ever appended to.
LEMMA ExpandedGrows ==
    ASSUME TypeOK, Next
    PROVE  \E b \in Seq(Characters) : expanded' = expanded \o b
<1>1. source \in Seq(Characters) /\ expanded \in Seq(Characters) /\ line.text \in Seq(Characters)
  BY DEF TypeOK
<1>2. ASSUME expanded' = expanded PROVE \E b \in Seq(Characters) : expanded' = expanded \o b
  <2>1. expanded \o <<>> = expanded /\ <<>> \in Seq(Characters)
    BY <1>1, ConcatEmptySeq
  <2> QED
    BY <1>2, <2>1
<1>3. CASE getNewLine
  <2>1. PICK l \in getNewLineMacro : expanded' = expanded \o l.copied
    BY <1>3 DEF getNewLine
  <2>2. l.copied \in Seq(Characters)
    BY ReadTypes DEF TypeOK, Positions
  <2> QED
    BY <2>1, <2>2
<1>4. CASE expandMacro \/ FlushDefinition
  <2>1. \E first, last : first \in Nat /\ last \in Positions /\ copyChunkToDestFile(first, last)
    <3>1. CASE expandMacro
      <4> DEFINE id == Ident(MacroCall(line.text))
      <4>1. id \in DOMAIN macroTable /\ copyChunkToDestFile(macroTable[id].start, macroTable[id].end)
        BY <3>1 DEF expandMacro, isMacroCall
      <4>2. macroTable[id] \in [start : Positions, end : Positions]
        BY <4>1 DEF TypeOK
      <4> QED
        BY <4>1, <4>2 DEF Positions
    <3>2. CASE FlushDefinition
      BY <3>2 DEF FlushDefinition, TypeOK, Positions
    <3> QED
      BY <1>4, <3>1, <3>2
  <2>2. PICK first, last : first \in Nat /\ last \in Positions /\ copyChunkToDestFile(first, last)
    BY <2>1
  <2> DEFINE b == SubSeq(source, first + 1, last)
  <2>3. b \in Seq(Characters)
    BY <1>1, <2>2, PartType DEF Positions
  <2>4. expanded' = expanded \o b
    BY <2>2 DEF copyChunkToDestFile
  <2> HIDE DEF b
  <2> QED
    BY <2>3, <2>4
<1>5. CASE copyLine
  <2> DEFINE e == IF line.kind = "SUCCESS" THEN <<NewLine>> ELSE <<>>
  <2>1. e \in Seq(Characters)
    <3>1. NewLine \in Characters
      BY DEF Characters
    <3> QED
      BY <3>1
  <2>2. expanded' = expanded \o line.text \o e
    BY <1>5, Zenon DEF copyLine
  <2> DEFINE x == line.text
  <2> HIDE DEF e, x
  <2>3. x \in Seq(Characters)
    BY <1>1 DEF x
  <2>4. x \o e \in Seq(Characters)
    BY <2>1, <2>3, ConcatProperties
  <2>5. (expanded \o x) \o e = expanded \o (x \o e)
    BY <1>1, <2>1, <2>3, ConcatAssociative
  <2> QED
    BY <2>2, <2>4, <2>5, Zenon DEF x
<1>6. CASE SkipLine \/ RejectDefinition \/ StartDefinition \/ DropClosing \/ BodyLine
           \/ DefineMacro \/ Unterminated \/ (PassNext /\ UNCHANGED macroVars) \/ ExpansionEnds
  <2>1. expanded' = expanded
    BY <1>6 DEF SkipLine, RejectDefinition, StartDefinition, DropClosing, BodyLine,
                DefineMacro, Unterminated, ExpansionEnds, macroVars
  <2> QED
    BY <1>2, <2>1
<1>7. \/ getNewLine \/ expandMacro \/ FlushDefinition \/ copyLine
      \/ SkipLine \/ RejectDefinition \/ StartDefinition \/ DropClosing \/ BodyLine
      \/ DefineMacro \/ Unterminated \/ (PassNext /\ UNCHANGED macroVars) \/ ExpansionEnds
  BY DEF Next, MacroNext
<1> QED
  BY <1>3, <1>4, <1>5, <1>6, <1>7, Zenon

-----------------------------------------------------------------------------
\* The source will be rejected.
Rejected == ~createFiles \/ definition.flush \/ IsUnreadable(expanded)

\* Only a definition that is being read may have an invalid name.
FlushInside == pc # "getEndOfMacroPos" => ~definition.flush

\* Between two lines of the source the .am file may be appended to.
AppendsWhole == ~Rejected => EndsWhole(expanded) \/ line.kind = "STOP" \/ pc \notin Loops

\* Once it will be rejected it stays so.
LEMMA RejectedStays ==
    ASSUME TypeOK, FlushInside, Next, Rejected
    PROVE  Rejected'
<1>1. expanded \in Seq(Characters) /\ createFiles \in BOOLEAN /\ definition.flush \in BOOLEAN
  BY DEF TypeOK
<1>2. CASE IsUnreadable(expanded)
  <2>1. PICK b \in Seq(Characters) : expanded' = expanded \o b
    BY ExpandedGrows
  <2>2. IsUnreadable(expanded \o b)
    BY <1>1, <1>2, UnreadableStays
  <2>3. IsUnreadable(expanded')
    BY <2>1, <2>2, Zenon
  <2>4. IsUnreadable(expanded)'
    BY <2>3 DEF IsUnreadable, HasForeign, StartsLine
  <2> QED
    BY <2>4 DEF Rejected
<1>3. CASE ~createFiles
  <2>1. ~createFiles'
    BY <1>3 DEF Next, MacroNext, PassNext, ExpansionEnds, DeliverLine, FlushInputLine,
                getNewLine, SkipLine, RejectDefinition, StartDefinition, DropClosing, expandMacro,
                copyLine, BodyLine, DefineMacro, FlushDefinition, Unterminated, EndsDefinition
  <2> QED
    BY <2>1 DEF Rejected
<1>4. CASE definition.flush /\ createFiles
  <2>1. pc = "getEndOfMacroPos"
    BY <1>4 DEF FlushInside
  <2>2. CASE getNewLine
    BY <1>4, <2>2 DEF getNewLine, Rejected
  <2>3. CASE BodyLine
    <3>1. definition'.flush = definition.flush
      <4>1. definition' = [definition EXCEPT !.last = endOfLinePos]
        BY <2>3 DEF BodyLine
      <4> QED
        BY <4>1 DEF TypeOK
    <3> QED
      BY <1>4, <3>1 DEF Rejected
  <2>4. CASE FlushDefinition \/ Unterminated
    BY <2>4 DEF FlushDefinition, Unterminated, EndsDefinition, Rejected
  <2>5. ~(SkipLine \/ RejectDefinition \/ StartDefinition \/ DropClosing \/ expandMacro \/ copyLine
          \/ DefineMacro \/ PassNext \/ ExpansionEnds)
    BY <1>4, <2>1 DEF SkipLine, RejectDefinition, StartDefinition, DropClosing, expandMacro, copyLine,
                DefineMacro, PassNext, ExpansionEnds, Handles, DeliverLine, FlushInputLine
  <2> QED
    BY <2>2, <2>3, <2>4, <2>5 DEF Next, MacroNext
<1> QED
  BY <1>1, <1>2, <1>3, <1>4 DEF Rejected

-----------------------------------------------------------------------------
(* Between two lines of the source.                                         *)

\* A line that was read and is not handled yet.
LineWhole ==
    /\ \A i \in 1..Len(line.text) : line.text[i] # NewLine
    /\ line.kind = "SUCCESS" => IsStatement(line.text)
    /\ line.kind \in {"EMPTY_LINE", "STOP", "none"} => ~IsStatement(line.text)
    /\ line.kind \in {"LAST_LINE", "STOP"} => position = Len(source)

\* The bodies are whole lines, and not the last ones of the source.
TableWhole ==
    \A id \in DOMAIN macroTable :
        /\ macroTable[id].start <= macroTable[id].end /\ macroTable[id].end < Len(source)
        /\ Border(macroTable[id].start) /\ Border(macroTable[id].end)

\* The definition being read; what its body has so far ends where the line starts.
DefinitionWhole ==
    /\ ValidLabel(definition.name)
    /\ definition.start <= definition.last /\ definition.last <= position
    /\ Border(definition.start) /\ Border(definition.last)
    /\ line = NoLine => definition.last = position
    /\ line.kind \in {"SUCCESS", "LAST_LINE", "EMPTY_LINE"} =>
          /\ definition.last < position
          /\ IsLine(source, definition.last, position - definition.last)
          /\ line.text = TextBetween(definition.last, position)

Whole ==
    /\ endOfLinePos = position /\ Border(position)
    /\ LineWhole
    /\ pc \notin Loops => position = Len(source) /\ line = NoLine
    /\ TableWhole
    /\ pc = "getEndOfMacroPos" => DefinitionWhole

SInv == FlushInside /\ AppendsWhole /\ (~Excused => Whole)

-----------------------------------------------------------------------------
\* A definition with an invalid name ends with the source rejected, or does not end.
LEMMA FlushInsideKept ==
    ASSUME TypeOK, FlushInside, Next
    PROVE  FlushInside'
<1>1. CASE getNewLine \/ SkipLine \/ RejectDefinition \/ DropClosing \/ expandMacro \/ copyLine
           \/ BodyLine
  <2>1. /\ pc' = pc \/ pc = "runParseMacro"
        /\ definition' = definition \/ pc' = "getEndOfMacroPos"
    BY <1>1 DEF getNewLine, SkipLine, RejectDefinition, DropClosing, expandMacro, copyLine, BodyLine, Handles
  <2> QED
    BY <2>1 DEF FlushInside
<1>2. CASE StartDefinition
  BY <1>2 DEF StartDefinition, FlushInside
<1>3. CASE DefineMacro \/ FlushDefinition \/ Unterminated
  <2>1. definition' = NoDefinition
    BY <1>3 DEF DefineMacro, FlushDefinition, Unterminated, EndsDefinition
  <2>2. ~NoDefinition.flush
    BY DEF NoDefinition
  <2>3. ~definition'.flush
    BY <2>1, <2>2, Zenon
  <2> QED
    BY <2>3 DEF FlushInside
<1>4. CASE PassNext /\ UNCHANGED macroVars
  <2>1. definition' = definition /\ pc = "runFirstStage"
    BY <1>4 DEF PassNext, DeliverLine, FlushInputLine, macroVars
  <2> QED
    BY <2>1 DEF FlushInside
<1>5. CASE ExpansionEnds
  BY <1>5 DEF ExpansionEnds, FlushInside, macroVars
<1> QED
  BY <1>1, <1>2, <1>3, <1>4, <1>5 DEF Next, MacroNext

\* What ends whole still does with something that does behind it.
LEMMA WholeJoined ==
    ASSUME NEW a \in Seq(Characters), NEW b \in Seq(Characters), EndsWhole(a), EndsWhole(b)
    PROVE  EndsWhole(a \o b)
<1>1. CASE b = <<>>
  <2>1. a \o b = a
    BY <1>1, ConcatEmptySeq
  <2> QED
    BY <2>1, Zenon
<1>2. CASE EndsInNewLine(b)
  <2> DEFINE c == a \o b
  <2>1. c \in Seq(Characters) /\ IsJoined(a, b, c)
    BY JoinedFile
  <2> HIDE DEF c
  <2>2. Len(b) \in 1..Len(b) /\ b[Len(b)] = NewLine
    BY <1>2 DEF EndsInNewLine
  <2>3. c[Len(c)] = NewLine /\ Len(c) > 0
    BY <2>1, <2>2 DEF IsJoined
  <2>4. EndsWhole(c)
    BY <2>1, <2>3 DEF EndsWhole, EndsInNewLine
  <2> QED
    BY <2>4 DEF c
<1> QED
  BY <1>1, <1>2 DEF EndsWhole

\* A chunk of whole lines ends whole.
LEMMA ChunkWhole ==
    ASSUME source \in Seq(Characters), NEW s \in Nat, NEW e \in Nat, s <= e, e < Len(source), Border(e)
    PROVE  /\ SubSeq(source, s + 1, e) \in Seq(Characters)
           /\ EndsWhole(SubSeq(source, s + 1, e))
<1>1. SubSeq(source, s + 1, e) \in Seq(Characters)
  BY PartType
<1>2. CASE s = e
  <2>1. SubSeq(source, s + 1, e) = <<>>
    BY <1>2
  <2> QED
    BY <1>1, <2>1, Zenon DEF EndsWhole
<1>3. CASE s < e
  <2> DEFINE n == e - s
  <2>1. n \in 0..(Len(source) - s) /\ e = s + n /\ n > 0 /\ source[e] = NewLine
    BY <1>3 DEF Border
  <2> HIDE DEF n
  <2>2. EndsInNewLine(SubSeq(source, s + 1, s + n))
    BY <2>1, PartElements
  <2> QED
    BY <1>1, <2>1, <2>2 DEF EndsWhole
<1> QED
  BY <1>2, <1>3

\* A body in the table is such a chunk.
LEMMA ChunkOfTable ==
    ASSUME TypeOK, TableWhole, NEW id \in DOMAIN macroTable
    PROVE  /\ macroTable[id].start \in Nat /\ macroTable[id].end \in Nat
           /\ macroTable[id].start <= macroTable[id].end /\ macroTable[id].end < Len(source)
           /\ SubSeq(source, macroTable[id].start + 1, macroTable[id].end) \in Seq(Characters)
           /\ EndsWhole(SubSeq(source, macroTable[id].start + 1, macroTable[id].end))
<1>1. macroTable[id] \in [start : Positions, end : Positions]
  BY DEF TypeOK
<1> DEFINE s == macroTable[id].start
           e == macroTable[id].end
<1>2. s \in Nat /\ e \in Nat /\ source \in Seq(Characters)
  BY <1>1 DEF Positions, TypeOK
<1>3. s <= e /\ e < Len(source) /\ Border(e)
  BY DEF TableWhole
<1> HIDE DEF s, e
<1>4. SubSeq(source, s + 1, e) \in Seq(Characters) /\ EndsWhole(SubSeq(source, s + 1, e))
  BY <1>2, <1>3, ChunkWhole
<1> QED
  BY <1>2, <1>3, <1>4 DEF s, e

\* Before the last line of a source that will not be rejected nothing is excused.
LEMMA NotExcused ==
    ASSUME TypeOK, AppendsWhole, ~Rejected, line.kind # "STOP", pc \in Loops
    PROVE  EndsWhole(expanded) /\ ~Excused
<1>1. EndsWhole(expanded) /\ expanded \in Seq(Characters)
  BY DEF AppendsWhole, TypeOK
<1> QED
  BY <1>1, WholeEnd, ExcusedIs DEF Rejected

\* What was copied in full ends whole; a last line has no newline.
LEMMA AppendsWholeKept ==
    ASSUME TypeOK, SInv, Next
    PROVE  AppendsWhole'
<1> SUFFICES ASSUME ~Rejected', pc' \in Loops, line'.kind # "STOP" PROVE EndsWhole(expanded')
  BY DEF AppendsWhole, EndsWhole, EndsInNewLine
<1>1. ~Rejected
  BY RejectedStays DEF SInv
<1>2. pc \in Loops
  BY DEF Loops, Next, MacroNext, PassNext, ExpansionEnds, DeliverLine, FlushInputLine, getNewLine, SkipLine,
         RejectDefinition, StartDefinition, DropClosing, expandMacro, copyLine, BodyLine, DefineMacro,
         FlushDefinition, Unterminated, Handles, ClosesDefinition
<1>3. /\ expanded \in Seq(Characters) /\ source \in Seq(Characters) /\ line.text \in Seq(Characters)
      /\ position \in Nat /\ position <= Len(source)
  BY DEF TypeOK, Positions
<1>4. ASSUME line.kind # "STOP" PROVE EndsWhole(expanded) /\ ~Excused
  BY <1>1, <1>2, <1>4, NotExcused DEF SInv
<1>5. CASE getNewLine
  <2>1. PICK l \in getNewLineMacro : line'.kind = l.kind /\ expanded' = expanded \o l.copied
    BY <1>5 DEF getNewLine
  <2>2. EndsWhole(expanded)
    BY <1>4, <1>5 DEF getNewLine, NoLine
  <2>3. l.copied \in Seq(Characters) /\ EndsWhole(l.copied)
    <3>1. CASE OverlongRead(l)
      BY <2>1, <3>1 DEF OverlongRead, EndsWhole
    <3>2. ASSUME NEW n \in 0..(Len(source) - position), FittingRead(l, n)
          PROVE  l.copied \in Seq(Characters) /\ EndsWhole(l.copied)
      <4>1. CASE l.kind = "EMPTY_LINE"
        <5> DEFINE r == Read(n)
        <5>1. r \in Seq(Characters)
          BY <1>3, PartType DEF Read
        <5> HIDE DEF r
        <5>2. EndsInNewLine(r) /\ l.copied = Cleaned(r)
          BY <3>2, <4>1 DEF FittingRead, r
        <5>3. Cleaned(r) \in Seq(Characters) /\ EndsInNewLine(Cleaned(r))
          BY <5>1, <5>2, CleanedType, CleanedIs
        <5> QED
          BY <5>2, <5>3, Zenon DEF EndsWhole
      <4>2. CASE l.kind # "EMPTY_LINE"
        BY <3>2, <4>2 DEF FittingRead, EndsWhole
      <4> QED
        BY <4>1, <4>2
    <3> QED
      BY <3>1, <3>2, LineFacts
  <2>4. EndsWhole(expanded \o l.copied)
    BY <1>3, <2>2, <2>3, WholeJoined
  <2> QED
    BY <2>1, <2>4, Zenon
<1>6. CASE expandMacro
  <2> DEFINE id == Ident(MacroCall(line.text))
             b == SubSeq(source, macroTable[id].start + 1, macroTable[id].end)
  <2>1. id \in DOMAIN macroTable /\ expanded' = expanded \o b /\ line.kind # "STOP"
    BY <1>6 DEF expandMacro, isMacroCall, copyChunkToDestFile, Handles
  <2>2. TableWhole /\ EndsWhole(expanded)
    BY <1>4, <2>1 DEF SInv, Whole
  <2> HIDE DEF id
  <2>3. b \in Seq(Characters) /\ EndsWhole(b)
    BY <2>1, <2>2, ChunkOfTable
  <2> HIDE DEF b
  <2>4. EndsWhole(expanded \o b)
    BY <1>3, <2>2, <2>3, WholeJoined
  <2> QED
    BY <2>1, <2>4, Zenon
<1>7. CASE copyLine
  <2> DEFINE x == line.text
             e == IF line.kind = "SUCCESS" THEN <<NewLine>> ELSE <<>>
  <2>1. expanded' = expanded \o x \o e /\ line.kind \in {"SUCCESS", "LAST_LINE"}
    BY <1>7, Zenon DEF copyLine, Handles
  <2>2. line.kind = "SUCCESS"
    BY <1>7, <2>1 DEF copyLine, NextLine, Loops
  <2>3. e = <<NewLine>>
    BY <2>2
  <2> HIDE DEF x, e
  <2>4. x \in Seq(Characters) /\ e \in Seq(Characters) /\ EndsWhole(e)
    <3>1. NewLine \in Characters
      BY DEF Characters
    <3>2. e # <<>> /\ Len(e) = 1 /\ e[1] = NewLine
      BY <2>3
    <3> QED
      BY <1>3, <2>3, <3>1, <3>2 DEF x, EndsWhole, EndsInNewLine
  <2>5. expanded \o x \in Seq(Characters)
    BY <1>3, <2>4, ConcatProperties
  <2> DEFINE c == expanded \o x
  <2>6. c \in Seq(Characters) /\ expanded' = c \o e
    BY <2>1, <2>5
  <2> HIDE DEF c
  <2>7. c \o e \in Seq(Characters) /\ IsJoined(c, e, c \o e)
    BY <2>4, <2>6, JoinedFile
  <2>8. Len(e) = 1 /\ e[1] = NewLine
    BY <2>3
  <2>9. (c \o e)[Len(c) + 1] = NewLine /\ Len(c \o e) = Len(c) + 1
    BY <2>7, <2>8 DEF IsJoined
  <2> DEFINE d == c \o e
  <2>10. d \in Seq(Characters) /\ Len(d) = Len(c) + 1 /\ d[Len(c) + 1] = NewLine /\ Len(c) \in Nat
    BY <2>6, <2>7, <2>9
  <2> HIDE DEF d
  <2>11. EndsWhole(d)
    BY <2>10 DEF EndsWhole, EndsInNewLine
  <2> QED
    BY <2>6, <2>11, Zenon DEF d
<1>8. CASE SkipLine \/ StartDefinition \/ DropClosing \/ BodyLine \/ DefineMacro
  <2>1. expanded' = expanded /\ line.kind # "STOP"
    BY <1>8 DEF SkipLine, StartDefinition, DropClosing, BodyLine, DefineMacro, Handles, NextLine, Loops,
                ClosesDefinition
  <2> QED
    BY <1>4, <2>1
<1>9. ~(RejectDefinition \/ FlushDefinition \/ Unterminated \/ PassNext \/ ExpansionEnds)
  BY <1>2 DEF RejectDefinition, FlushDefinition, Unterminated, EndsDefinition, PassNext, DeliverLine,
              FlushInputLine, ExpansionEnds, Rejected, Loops
<1> QED
  BY <1>5, <1>6, <1>7, <1>8, <1>9 DEF Next, MacroNext

\* What is excused stays so.
LEMMA ExcusedStays ==
    ASSUME TypeOK, SInv, Next, Excused
    PROVE  Excused'
<1>1. CASE Rejected
  <2>1. Rejected'
    BY <1>1, RejectedStays DEF SInv
  <2> QED
    BY <2>1 DEF Rejected, Excused
<1>2. CASE ~Rejected
  <2>1. LongEnd(expanded) /\ (line.kind = "STOP" \/ pc \notin Loops)
    BY <1>2, NotExcused, ExcusedIs DEF SInv, Rejected
  <2>2. expanded' = expanded
    <3>1. CASE pc \notin Loops
      BY <3>1 DEF Next, MacroNext, getNewLine, SkipLine, RejectDefinition, StartDefinition, DropClosing,
                  expandMacro, copyLine, BodyLine, DefineMacro, FlushDefinition, Unterminated, ClosesDefinition,
                  Handles, Loops, macroVars, ExpansionEnds
    <3>2. CASE line.kind = "STOP"
      <4>1. ~(getNewLine \/ RejectDefinition \/ StartDefinition \/ DropClosing \/ expandMacro \/ copyLine
              \/ BodyLine \/ DefineMacro \/ FlushDefinition)
        BY <3>2 DEF getNewLine, RejectDefinition, StartDefinition, DropClosing, expandMacro, copyLine,
                    BodyLine, DefineMacro, FlushDefinition, ClosesDefinition, Handles, NoLine
      <4> QED
        BY <4>1 DEF Next, MacroNext, SkipLine, Unterminated, macroVars, ExpansionEnds
    <3> QED
      BY <2>1, <3>1, <3>2
  <2> QED
    BY <2>1, <2>2 DEF Excused, LongEnd
<1> QED
  BY <1>1, <1>2

\* What is written may be what excuses the source.
LEMMA ExcusedNext ==
    ASSUME IsUnreadable(expanded') \/ LongEnd(expanded')
    PROVE  Excused'
BY DEF Excused, LongEnd, IsUnreadable, HasForeign, StartsLine

\* A line that does not fit is excused; any other is read and counted.
LEMMA GetFits ==
    ASSUME TypeOK, SInv, getNewLine, UNCHANGED passVars, ~Excused'
    PROVE  \E l, n :
              /\ n \in 0..(Len(source) - position) /\ FittingRead(l, n)
              /\ line' = [kind |-> l.kind, text |-> l.text]
              /\ position' = position + n /\ endOfLinePos' = endOfLinePos + n
              /\ expanded' = expanded \o l.copied
<1>1. PICK l \in getNewLineMacro :
         /\ line' = [kind |-> l.kind, text |-> l.text]
         /\ position' = position + l.read /\ endOfLinePos' = endOfLinePos + l.counted
         /\ expanded' = expanded \o l.copied
  BY DEF getNewLine
<1>2. CASE OverlongRead(l)
  <2>1. ~Excused
    BY ExcusedStays DEF Next, MacroNext
  <2>2. EndsWhole(expanded) /\ expanded \in Seq(Characters)
    BY <2>1, ExcusedIs DEF SInv, AppendsWhole, Rejected, getNewLine, NoLine, Loops, TypeOK
  <2>3. IsUnreadable(expanded \o l.copied) \/ LongEnd(expanded \o l.copied)
    BY <1>2, <2>2, OverlongCopied DEF OverlongRead
  <2>4. IsUnreadable(expanded') \/ LongEnd(expanded')
    BY <1>1, <2>3, Zenon
  <2> QED
    BY <2>4, ExcusedNext
<1>3. ASSUME NEW n \in 0..(Len(source) - position), FittingRead(l, n)
      PROVE  position' = position + n /\ endOfLinePos' = endOfLinePos + n
  BY <1>1, <1>3 DEF FittingRead
<1> QED
  BY <1>1, <1>2, <1>3, LineFacts

\* What the invariant says of the line that was read.
LEMMA LineReadWhole ==
    ASSUME TypeOK, SInv, getNewLine, UNCHANGED passVars, ~Excused', Whole
    PROVE  Whole'
<1>1. PICK l, n :
         /\ n \in 0..(Len(source) - position) /\ FittingRead(l, n)
         /\ line' = [kind |-> l.kind, text |-> l.text]
         /\ position' = position + n /\ endOfLinePos' = endOfLinePos + n
         /\ expanded' = expanded \o l.copied
  BY GetFits
<1>2. /\ source' = source /\ definition' = definition /\ macroTable' = macroTable /\ pc' = pc
      /\ pc \in Loops /\ line = NoLine
  BY DEF getNewLine, Loops
<1>3. /\ source \in Seq(Characters) /\ position \in Nat /\ position <= Len(source) /\ Len(source) \in Nat
      /\ endOfLinePos = position /\ n \in Nat
      /\ definition.start \in Nat /\ definition.last \in Nat
  BY <1>1 DEF TypeOK, Positions, Whole
<1> DEFINE r == Read(n)
           q == position + n
<1>4. /\ r \in Seq(Characters) /\ Len(r) = n
      /\ \A i \in 1..n : r[i] = source[position + i]
      /\ EndsInNewLine(r) <=> n > 0 /\ source[position + n] = NewLine
  <2>1. r = SubSeq(source, position + 1, position + n)
    BY DEF Read
  <2>2. position + 1 \in Nat /\ 0 < position + 1 /\ position + n \in Int /\ position + n <= Len(source)
    BY <1>1, <1>3
  <2>3. r \in Seq(Characters)
    BY <1>3, <2>1, <2>2, PartType
  <2>4. n \in 0..(Len(source) - position)
    BY <1>1
  <2>5. /\ Len(SubSeq(source, position + 1, position + n)) = n
        /\ \A i \in 1..n : SubSeq(source, position + 1, position + n)[i] = source[position + i]
        /\ EndsInNewLine(SubSeq(source, position + 1, position + n))
              <=> n > 0 /\ source[position + n] = NewLine
    BY <1>3, <2>4, PartElements
  <2> HIDE DEF r
  <2> QED
    BY <2>1, <2>3, <2>5, Zenon
<1>5. q \in 0..Len(source) /\ position' = q /\ endOfLinePos' = q /\ Border(q)
  <2>1. n = 0 => q = Len(source)
    BY <1>1, <1>3 DEF FittingRead, IsLine
  <2> QED
    BY <1>1, <1>3, <2>1 DEF FittingRead, IsLine, Border
<1>6. line'.kind = l.kind /\ line'.text = l.text /\ l.kind # "none"
  BY <1>1 DEF FittingRead
<1>7. \A i \in 1..Len(l.text) : l.text[i] # NewLine
  <2> DEFINE s == Cleaned(r)
  <2>1. l.text = Text(s)
    BY <1>1, <1>3, Zenon DEF FittingRead, TextBetween, Read
  <2>2. s \in Seq(Characters) /\ Len(s) = n
    BY <1>4, CleanedType
  <2>3. /\ \A i \in 1..n : s[i] = NewLine <=> r[i] = NewLine
        /\ EndsInNewLine(s) <=> EndsInNewLine(r)
    BY <1>4, CleanedIs
  <2> HIDE DEF s, r
  <2>4. /\ Len(Text(s)) = IF EndsInNewLine(s) THEN Len(s) - 1 ELSE Len(s)
        /\ \A i \in 1..Len(Text(s)) : Text(s)[i] = s[i]
    BY <2>2, TextIs
  <2>5. \A i \in 1..(n - 1) : i \in 1..n /\ s[i] # NewLine
    <3>1. ASSUME NEW i \in 1..(n - 1) PROVE i \in 1..n /\ s[i] # NewLine
      <4>1. i \in 1..n
        BY <1>3
      <4>2. source[position + i] # NewLine
        BY <1>1 DEF FittingRead, IsLine
      <4> QED
        BY <1>4, <2>3, <4>1, <4>2
    <3> QED
      BY <3>1
  <2>6. ~EndsInNewLine(s) => \A i \in 1..n : s[i] # NewLine
    <3>1. ASSUME NEW i \in 1..n, ~EndsInNewLine(s) PROVE s[i] # NewLine
      <4>1. CASE i = n
        <5>1. source[position + n] # NewLine
          BY <1>3, <1>4, <2>3, <3>1, <4>1
        <5> QED
          BY <1>4, <2>3, <3>1, <4>1, <5>1
      <4>2. CASE i # n
        <5>1. i \in 1..(n - 1)
          BY <1>3, <4>2
        <5> QED
          BY <2>5, <5>1
      <4> QED
        BY <4>1, <4>2
    <3> QED
      BY <3>1
  <2> QED
    BY <1>3, <2>1, <2>2, <2>4, <2>5, <2>6
<1>8. LineWhole'
  <2>1. /\ l.kind = "SUCCESS" => IsStatement(l.text)
        /\ l.kind \in {"EMPTY_LINE", "STOP", "none"} => ~IsStatement(l.text)
    BY <1>1 DEF FittingRead
  <2>2. l.kind \in {"LAST_LINE", "STOP"} => q = Len(source)
    <3>1. ASSUME l.kind \in {"LAST_LINE", "STOP"} PROVE ~EndsInNewLine(r)
      BY <1>1, <3>1 DEF FittingRead
    <3> QED
      BY <1>1, <1>3, <1>4, <3>1 DEF FittingRead, IsLine
  <2> HIDE DEF q
  <2>3. \A i \in 1..Len(line'.text) : line'.text[i] # NewLine
    BY <1>6, <1>7, Zenon
  <2>4. /\ line'.kind = "SUCCESS" => IsStatement(line'.text)
        /\ line'.kind \in {"EMPTY_LINE", "STOP", "none"} => ~IsStatement(line'.text)
    BY <1>6, <2>1
  <2>5. line'.kind \in {"LAST_LINE", "STOP"} => position' = Len(source')
    BY <1>2, <1>5, <1>6, <2>2
  <2> QED
    BY <2>3, <2>4, <2>5, Zenon DEF LineWhole
<1>9. TableWhole'
  <2>1. TableWhole
    BY DEF Whole
  <2> QED
    BY <1>2, <2>1 DEF TableWhole, Border
<1>10. ASSUME pc = "getEndOfMacroPos" PROVE DefinitionWhole'
  <2>1. DefinitionWhole /\ definition.last = position
    BY <1>2, <1>10 DEF Whole, DefinitionWhole
  <2>2. line' # NoLine
    BY <1>6 DEF NoLine
  <2>3. line'.kind \in {"SUCCESS", "LAST_LINE", "EMPTY_LINE"} =>
          n > 0 /\ l.text = TextBetween(position, q) /\ IsLine(source, position, n)
    BY <1>1, <1>3, <1>6 DEF FittingRead
  <2>4. q - position = n
    BY <1>3
  <2> HIDE DEF q
  <2>5. TextBetween(position, q) = TextBetween(definition.last, position)'
    BY <1>2, <1>5, <2>1 DEF TextBetween
  <2>6. line'.kind \in {"SUCCESS", "LAST_LINE", "EMPTY_LINE"} =>
          /\ definition.last < position'
          /\ IsLine(source, definition.last, position' - definition.last)
          /\ line'.text = TextBetween(definition.last, position)'
    BY <1>3, <1>5, <1>6, <2>1, <2>3, <2>4, <2>5 DEF q
  <2>7. definition.last <= position'
    BY <1>3, <1>5, <2>1 DEF q
  <2>8. /\ ValidLabel(definition.name) /\ definition.start <= definition.last
        /\ Border(definition.start) /\ Border(definition.last)
    BY <2>1 DEF DefinitionWhole
  <2>9. Border(definition.start)' /\ Border(definition.last)'
    BY <1>2, <2>8 DEF Border
  <2> QED
    BY <1>2, <2>2, <2>6, <2>7, <2>8, <2>9 DEF DefinitionWhole, ValidLabel, isReserved
<1>11. Border(position)'
  BY <1>2, <1>5 DEF Border
<1> QED
  BY <1>2, <1>5, <1>8, <1>9, <1>10, <1>11 DEF Whole

\* No text, no statement.
LEMMA NothingStated == ~IsStatement(<<>>) /\ Statements(<<>>) = <<>>
<1>1. <<>> \in Seq(Characters) /\ Len(<<>>) = 0
  OBVIOUS
<1>2. \A i : ~IsSolid(<<>>, i)
  BY <1>1 DEF IsSolid
<1>3. ~IsStatement(<<>>)
  BY <1>1, <1>2, StatementIs
<1> QED
  BY <1>3 DEF Statements

\* A line that is handled leaves the source where it was read to.
LEMMA HandledWhole ==
    ASSUME Whole, source' = source, endOfLinePos' = endOfLinePos, position' = position, line' = NoLine,
           pc' \notin Loops => position = Len(source),
           TableWhole', pc' = "getEndOfMacroPos" => DefinitionWhole'
    PROVE  Whole'
<1>1. LineWhole'
  <2>1. Len(line'.text) = 0 /\ line'.text = <<>> /\ line'.kind = "none"
    BY DEF NoLine
  <2>2. ~IsStatement(<<>>)
    BY NothingStated
  <2>3. \A i \in 1..Len(line'.text) : line'.text[i] # NewLine
    BY <2>1
  <2>4. ~IsStatement(line'.text)
    BY <2>1, <2>2, Zenon
  <2> QED
    BY <2>1, <2>3, <2>4 DEF LineWhole
<1>2. Border(position)' /\ endOfLinePos' = position'
  BY DEF Whole, Border
<1> QED
  BY <1>1, <1>2 DEF Whole

\* A table that does not change keeps its bodies.
LEMMA TableKept ==
    ASSUME TableWhole, source' = source, macroTable' = macroTable
    PROVE  TableWhole'
BY DEF TableWhole, Border

\* A definition starts with an empty body.
LEMMA DefinitionStarted ==
    ASSUME TypeOK, Whole, StartDefinition, ~Excused'
    PROVE  DefinitionWhole' /\ getValidMacroLabel(line.text)
<1>1. /\ source' = source /\ position' = position /\ line' = NoLine
      /\ definition' = [name  |-> MacroLabel(line.text),
                        flush |-> ~getValidMacroLabel(line.text),
                        start |-> endOfLinePos, first |-> endOfLinePos + 1, last |-> endOfLinePos]
  BY DEF StartDefinition, fileVars, Handles
<1>2. getValidMacroLabel(line.text)
  <2>1. ~definition'.flush
    BY DEF Excused
  <2> QED
    BY <1>1, <2>1
<1>3. ValidLabel(MacroLabel(line.text))
  BY <1>2 DEF getValidMacroLabel
<1>4. endOfLinePos = position /\ Border(position) /\ position \in Nat
  BY DEF Whole, TypeOK, Positions
<1> DEFINE name == MacroLabel(line.text)
<1>5. definition'.name = name /\ definition'.start = position /\ definition'.last = position
  BY <1>1, <1>4
<1> HIDE DEF name
<1>6. ValidLabel(definition'.name)
  BY <1>3, <1>5 DEF name
<1>7. ValidLabel(definition.name)'
  BY <1>6 DEF ValidLabel, isReserved
<1>8. Border(definition.start)' /\ Border(definition.last)'
  BY <1>1, <1>4, <1>5 DEF Border
<1>9. line'.kind = "none"
  BY <1>1 DEF NoLine
<1>10. /\ definition'.start <= definition'.last /\ definition'.last <= position'
       /\ definition'.last = position'
  BY <1>1, <1>4, <1>5
<1> QED
  BY <1>2, <1>7, <1>8, <1>9, <1>10 DEF DefinitionWhole

\* A line of the body moves its end behind it.
LEMMA BodyLineWhole ==
    ASSUME TypeOK, Whole, BodyLine
    PROVE  DefinitionWhole'
<1>1. /\ source' = source /\ position' = position /\ line' = NoLine
      /\ definition' = [definition EXCEPT !.last = endOfLinePos]
      /\ pc = "getEndOfMacroPos"
  BY DEF BodyLine, fileVars, Handles
<1>2. /\ definition.start \in Nat /\ definition.last \in Nat /\ position \in Nat
      /\ definition \in [name : Seq(Characters), flush : BOOLEAN,
                         start : Positions, first : 0..(Len(source) + 1), last : Positions]
  BY DEF TypeOK, Positions
<1>3. endOfLinePos = position /\ Border(position) /\ DefinitionWhole
  BY <1>1 DEF Whole
<1>4. /\ definition'.name = definition.name /\ definition'.start = definition.start
      /\ definition'.last = position
  BY <1>1, <1>2, <1>3
<1>5. ValidLabel(definition.name)'
  BY <1>3, <1>4 DEF DefinitionWhole, ValidLabel, isReserved
<1>6. Border(definition.start)' /\ Border(definition.last)'
  BY <1>1, <1>3, <1>4 DEF Border, DefinitionWhole
<1>7. line'.kind = "none"
  BY <1>1 DEF NoLine
<1>8. /\ definition'.start <= definition'.last /\ definition'.last <= position'
      /\ definition'.last = position'
  BY <1>1, <1>2, <1>3, <1>4 DEF DefinitionWhole
<1> QED
  BY <1>5, <1>6, <1>7, <1>8 DEF DefinitionWhole

\* A recorded body is one of whole lines.
LEMMA TableGrows ==
    ASSUME TypeOK, Whole, DefineMacro
    PROVE  TableWhole'
<1>1. /\ source' = source /\ pc = "getEndOfMacroPos" /\ line.kind \in {"SUCCESS", "LAST_LINE"}
      /\ macroTable' = Inserted(definition.name, definition.start, definition.last)
  BY DEF DefineMacro, ClosesDefinition, Handles, fileVars
<1>2. TableWhole /\ DefinitionWhole
  BY <1>1 DEF Whole
<1>3. /\ definition.start \in Nat /\ definition.last \in Nat /\ position \in Nat
      /\ position <= Len(source) /\ Len(source) \in Nat
  BY DEF TypeOK, Positions
<1>4. /\ definition.start <= definition.last /\ definition.last < Len(source)
      /\ Border(definition.start) /\ Border(definition.last)
  BY <1>1, <1>2, <1>3 DEF DefinitionWhole
<1>5. ASSUME NEW id \in DOMAIN macroTable'
      PROVE  /\ macroTable'[id].start <= macroTable'[id].end /\ macroTable'[id].end < Len(source)
             /\ Border(macroTable'[id].start) /\ Border(macroTable'[id].end)
  <2>1. CASE id \in DOMAIN macroTable
    <3>1. macroTable'[id] = macroTable[id]
      BY <1>1, <2>1 DEF Inserted
    <3> QED
      BY <1>2, <2>1, <3>1 DEF TableWhole
  <2>2. CASE id \notin DOMAIN macroTable
    <3>1. macroTable'[id].start = definition.start /\ macroTable'[id].end = definition.last
      BY <1>1, <2>2 DEF Inserted
    <3> QED
      BY <1>4, <3>1
  <2> QED
    BY <2>1, <2>2
<1> QED
  BY <1>1, <1>5 DEF TableWhole, Border

\* As long as nothing is excused.
LEMMA WholeKept ==
    ASSUME TypeOK, SInv, Next, ~Excused'
    PROVE  Whole'
<1>1. Whole
  BY ExcusedStays DEF SInv
<1>2. TableWhole
  BY <1>1 DEF Whole
<1>3. LineWhole
  BY <1>1 DEF Whole
<1>4. CASE getNewLine /\ UNCHANGED passVars
  BY <1>1, <1>4, LineReadWhole
<1>5. CASE SkipLine \/ DropClosing \/ expandMacro \/ copyLine
  <2>1. /\ source' = source /\ endOfLinePos' = endOfLinePos /\ position' = position /\ line' = NoLine
        /\ macroTable' = macroTable
        /\ pc' = IF line.kind \in {"LAST_LINE", "STOP"} THEN "parsed" ELSE "runParseMacro"
    BY <1>1, <1>5 DEF Whole, SkipLine, DropClosing, expandMacro, copyLine, copyChunkToDestFile, Handles,
                      NextLine, fileVars
  <2>2. TableWhole'
    BY <1>2, <2>1, TableKept
  <2>3. pc' \notin Loops => position = Len(source)
    BY <1>3, <2>1 DEF LineWhole, Loops
  <2> QED
    BY <1>1, <2>1, <2>2, <2>3, HandledWhole
<1>6. CASE StartDefinition
  <2>1. /\ source' = source /\ endOfLinePos' = endOfLinePos /\ position' = position /\ line' = NoLine
        /\ macroTable' = macroTable /\ pc' \in Loops
    BY <1>6 DEF StartDefinition, Handles, fileVars, Loops
  <2>2. TableWhole' /\ DefinitionWhole'
    BY <1>1, <1>2, <1>6, <2>1, TableKept, DefinitionStarted
  <2> QED
    BY <1>1, <2>1, <2>2, HandledWhole
<1>7. CASE BodyLine
  <2>1. /\ source' = source /\ endOfLinePos' = endOfLinePos /\ position' = position /\ line' = NoLine
        /\ macroTable' = macroTable /\ pc' \in Loops
    BY <1>7 DEF BodyLine, Handles, fileVars, Loops
  <2>2. TableWhole' /\ DefinitionWhole'
    BY <1>1, <1>2, <1>7, <2>1, TableKept, BodyLineWhole
  <2> QED
    BY <1>1, <2>1, <2>2, HandledWhole
<1>8. CASE DefineMacro
  <2>1. /\ source' = source /\ endOfLinePos' = endOfLinePos /\ position' = position /\ line' = NoLine
        /\ pc' = "runParseMacro"
    BY <1>8 DEF DefineMacro, ClosesDefinition, EndsDefinition, Handles, fileVars
  <2>2. TableWhole'
    BY <1>1, <1>8, TableGrows
  <2> QED
    BY <1>1, <2>1, <2>2, HandledWhole DEF Loops
<1>9. CASE RejectDefinition \/ FlushDefinition \/ Unterminated
  BY <1>9 DEF RejectDefinition, FlushDefinition, Unterminated, EndsDefinition, Excused
<1>10. CASE (PassNext /\ UNCHANGED macroVars) \/ ExpansionEnds
  <2>1. /\ source' = source /\ endOfLinePos' = endOfLinePos /\ position' = position /\ line' = line
        /\ macroTable' = macroTable /\ pc \notin Loops /\ pc' \notin Loops
    BY <1>10 DEF PassNext, DeliverLine, FlushInputLine, ExpansionEnds, macroVars, fileVars, Loops
  <2>2. position = Len(source) /\ line = NoLine
    BY <1>1, <2>1 DEF Whole
  <2>3. TableWhole' /\ (pc' # "getEndOfMacroPos")
    BY <1>2, <2>1, TableKept DEF Loops
  <2> QED
    BY <1>1, <2>1, <2>2, <2>3, HandledWhole
<1> QED
  BY <1>4, <1>5, <1>6, <1>7, <1>8, <1>9, <1>10 DEF Next, MacroNext

\* At the start nothing is excused.
LEMMA StartsUnexcused == Init => ~Excused
<1> SUFFICES ASSUME Init PROVE ~Excused
  OBVIOUS
<1>1. createFiles /\ ~definition.flush /\ expanded = <<>>
  <2>1. ~NoDefinition.flush
    BY DEF NoDefinition
  <2> QED
    BY <2>1 DEF Init, MacroInit
<1>2. Len(expanded) = 0 /\ MaxLine \in Nat /\ MaxLine > 4
  BY <1>1, MaxLineAssumption
<1> QED
  BY <1>1, <1>2 DEF Excused, IsUnreadable, HasForeign

\* Unless the source will be rejected, the reading is always between two lines of it, the
\* bodies of the macros are whole lines, and so is what has been copied.
THEOREM ReadsWholeLines == Spec => []SInv
<1>1. Init /\ TypeOK => SInv
  <2> SUFFICES ASSUME Init, TypeOK PROVE SInv
    OBVIOUS
  <2>1. FlushInside
    <3>1. ~NoDefinition.flush
      BY DEF NoDefinition
    <3> QED
      BY <3>1 DEF Init, MacroInit, FlushInside
  <2>2. AppendsWhole
    BY DEF Init, MacroInit, AppendsWhole, EndsWhole
  <2>3. Whole
    <3>1. /\ pc = "runParseMacro" /\ position = 0 /\ endOfLinePos = 0 /\ line = NoLine
          /\ macroTable = <<>>
      BY DEF Init, MacroInit
    <3>2. ~IsStatement(<<>>)
      BY NothingStated
    <3>3. LineWhole
      <4>1. line.text = <<>> /\ line.kind = "none" /\ Len(line.text) = 0
        BY <3>1 DEF NoLine
      <4>2. ~IsStatement(line.text)
        BY <3>2, <4>1, Zenon
      <4> QED
        BY <4>1, <4>2 DEF LineWhole
    <3> QED
      BY <3>1, <3>3 DEF Whole, Border, TableWhole, Loops
  <2> QED
    BY <2>1, <2>2, <2>3 DEF SInv
<1>2. TypeOK /\ SInv /\ [Next]_vars => SInv'
  <2> SUFFICES ASSUME TypeOK, SInv, [Next]_vars PROVE SInv'
    OBVIOUS
  <2>1. CASE Next
    <3>1. FlushInside' /\ AppendsWhole'
      BY <2>1, FlushInsideKept, AppendsWholeKept DEF SInv
    <3>2. ~Excused' => Whole'
      BY <2>1, WholeKept
    <3> QED
      BY <3>1, <3>2 DEF SInv
  <2>2. CASE UNCHANGED vars
    BY <2>2 DEF vars, macroVars, fileVars, passVars, SInv, FlushInside, AppendsWhole, Excused, Whole,
                Rejected, EndsWhole, LineWhole, TableWhole, DefinitionWhole, Border, IsUnreadable,
                HasForeign, StartsLine, EndsInNewLine, ValidLabel, isReserved, TextBetween
  <2> QED
    BY <2>1, <2>2
<1> QED
  BY <1>1, <1>2, ReadingTypes, PTL DEF Spec

\* The refinement below is excused for no source that is accepted, but for one: its .am file ends in
\* a line without a newline that has all the characters a line of the first stage may have.
THEOREM OnlyRejectedExcused ==
    Spec => [](pc = "return" /\ createFiles /\ Excused => LongEnd(expanded))
<1>1. SInv /\ VerdictExact => (pc = "return" /\ createFiles /\ Excused => LongEnd(expanded))
  <2> SUFFICES ASSUME SInv, VerdictExact, pc = "return", createFiles, Excused
               PROVE  LongEnd(expanded)
    OBVIOUS
  <2>1. ~definition.flush
    BY DEF SInv, FlushInside
  <2>2. ~IsUnreadable(expanded)
    BY DEF VerdictExact
  <2> QED
    BY <2>1, <2>2, ExcusedIs
<1> QED
  BY <1>1, ReadsWholeLines, VerdictIsExact, PTL

\* What the variables of the substitution are here.
Phase  == IF Excused THEN "fault"
          ELSE IF pc \in {"runFirstStage", "return"} THEN "done" ELSE "expanding"
Todo   == IF Excused THEN <<>> ELSE Statements(line.text) \o Body(position, Len(source))
Bodied == IF Excused THEN <<>>
          ELSE [id \in DOMAIN macroTable |-> Body(macroTable[id].start, macroTable[id].end)]
Opened == IF Excused \/ pc # "getEndOfMacroPos"
          THEN [name |-> <<>>, body |-> <<>>]
          ELSE [name |-> definition.name, body |-> Body(definition.start, definition.last)]
Out    == IF Excused THEN <<>> ELSE StatementsOf(expanded)

Mapped == <<Phase, Todo, Bodied, Opened, Out>>
None   == [name |-> <<>>, body |-> <<>>]

\* The words of the next statement.
First  == FirstWord(skipWhiteSpace(Head(Todo)))
Second == FirstWord(AfterWord(skipWhiteSpace(Head(Todo))))

-----------------------------------------------------------------------------
\* The steps of the substitution, of these.

\* Both modules split a text into words in the same way.
LEMMA SameWords ==
    /\ Substitution!First = First /\ Substitution!Second = Second
    /\ Substitution!NoMacro = None
<1>1. \A s : Substitution!FirstWord(s) = FirstWord(s)
  BY DEF Substitution!FirstWord, FirstWord, Substitution!Blank, Blank
<1>2. \A s : Substitution!skipWhiteSpace(s) = skipWhiteSpace(s)
  BY DEF Substitution!skipWhiteSpace, skipWhiteSpace, Substitution!Blank, Blank
<1>3. \A s : Substitution!AfterWord(s) = AfterWord(s)
  BY <1>1, <1>2 DEF Substitution!AfterWord, AfterWord
<1> QED
  BY <1>1, <1>2, <1>3
     DEF Substitution!First, Substitution!Second, Substitution!NoMacro, First, Second, None, Todo

\* A statement is read.
StatementRead == Phase = "expanding" /\ Phase' = Phase /\ Todo # <<>> /\ Todo' = Tail(Todo)

\* Reading a statement is the part of a step that most actions share.
LEMMA ReadingStep ==
    ASSUME StatementRead
    PROVE  Substitution!Reading
BY DEF StatementRead, Substitution!Reading, Phase, Todo

\* A statement that opens a macro.
LEMMA BeginStep ==
    ASSUME StatementRead, Opened = None, First = <<"mcr">>, ValidLabel(Second),
           Opened' = [name |-> Second, body |-> <<>>], Bodied' = Bodied, Out' = Out
    PROVE  Substitution!Next
<1>1. Substitution!Begin
  BY SameWords DEF Substitution!Begin, Opened, Bodied, Out
<1> QED
  BY <1>1, ReadingStep DEF Substitution!Next

\* One that is collected.
LEMMA CollectStep ==
    ASSUME StatementRead, Opened # None, First # <<"endmcr">>,
           Opened' = [Opened EXCEPT !.body = Append(@, Head(Todo))], Bodied' = Bodied, Out' = Out
    PROVE  Substitution!Next
<1>1. Substitution!Collect
  BY SameWords DEF Substitution!Collect, Opened, Bodied, Out, Todo
<1> QED
  BY <1>1, ReadingStep DEF Substitution!Next

\* One that ends a macro.
LEMMA EndStep ==
    ASSUME StatementRead, Opened # None, First = <<"endmcr">>, Opened' = None, Out' = Out,
           Bodied' = [id \in DOMAIN Bodied \cup {Ident(Opened.name)} |->
                         IF id \in DOMAIN Bodied THEN Bodied[id] ELSE Opened.body]
    PROVE  Substitution!Next
<1>1. Substitution!End
  BY SameWords DEF Substitution!End, Opened, Bodied, Out
<1> QED
  BY <1>1, ReadingStep DEF Substitution!Next

\* One that is dropped.
LEMMA DropStep ==
    ASSUME StatementRead, Opened = None, First = <<"endmcr">>,
           Opened' = Opened, Bodied' = Bodied, Out' = Out
    PROVE  Substitution!Next
<1>1. Substitution!Drop
  BY SameWords DEF Substitution!Drop, Opened, Bodied, Out
<1> QED
  BY <1>1, ReadingStep DEF Substitution!Next

IsCall == ValidLabel(First) /\ Ident(First) \in DOMAIN Bodied /\ Second = <<>>

\* Both modules take the same statements for calls.
LEMMA CallIs == Substitution!IsCall = IsCall
BY SameWords, Zenon DEF Substitution!IsCall, Substitution!Alone, IsCall, Bodied

\* One that is replaced.
LEMMA CallStep ==
    ASSUME StatementRead, Opened = None, IsCall, Out' = Out \o Bodied[Ident(First)],
           Opened' = Opened, Bodied' = Bodied
    PROVE  Substitution!Next
<1>1. Substitution!Call
  BY SameWords, CallIs DEF Substitution!Call, Opened, Bodied, Out
<1> QED
  BY <1>1, ReadingStep DEF Substitution!Next

\* One that is copied.
LEMMA CopyStep ==
    ASSUME StatementRead, Opened = None, ~IsCall, First \notin {<<"mcr">>, <<"endmcr">>},
           Out' = Append(Out, Head(Todo)), Opened' = Opened, Bodied' = Bodied
    PROVE  Substitution!Next
<1>1. Substitution!Copy
  BY SameWords, CallIs DEF Substitution!Copy, Opened, Bodied, Out, Todo
<1> QED
  BY <1>1, ReadingStep DEF Substitution!Next

\* The end.
LEMMA FinishStep ==
    ASSUME Phase = "expanding", Phase' = "done", Todo = <<>>, Opened = None,
           UNCHANGED <<Todo, Bodied, Opened, Out>>
    PROVE  Substitution!Next
<1>1. Substitution!Finish
  BY SameWords DEF Substitution!Finish, Phase, Todo, Opened, Bodied, Out
<1> QED
  BY <1>1 DEF Substitution!Next

\* And the end of every promise.
LEMMA FaultStep ==
    ASSUME Phase = "expanding", Excused'
    PROVE  Substitution!Next
<1>1. Substitution!Fault
  BY SameWords DEF Substitution!Fault, Phase, None
<1> QED
  BY <1>1 DEF Substitution!Next

-----------------------------------------------------------------------------
\* What the steps of the code do to them.

\* The first element of a sequence and the rest of it.
LEMMA HeadTail ==
    ASSUME NEW text \in Seq(Characters), NEW rest \in Seq(Seq(Characters))
    PROVE  /\ <<text>> \o rest # <<>>
           /\ Head(<<text>> \o rest) = text /\ Tail(<<text>> \o rest) = rest
<1>1. <<text>> \in Seq(Seq(Characters)) /\ <<text>> # <<>>
  OBVIOUS
<1>2. Head(<<text>>) = text /\ Tail(<<text>>) = <<>>
  OBVIOUS
<1> DEFINE c == <<text>> \o rest
<1>3. Len(c) = 1 + Len(rest) /\ c[1] = text /\ \A i \in 1..Len(rest) : c[1 + i] = rest[i]
  BY ConcatProperties
<1>4. c \in Seq(Seq(Characters)) /\ Len(rest) \in Nat
  OBVIOUS
<1> HIDE DEF c
<1>5. c # <<>> /\ Head(c) = text
  BY <1>3, <1>4
<1>6. Tail(c) = rest
  <2>1. Tail(c) \in Seq(Seq(Characters)) /\ Len(Tail(c)) = Len(rest)
    BY <1>3, <1>4, <1>5
  <2>2. \A i \in 1..Len(rest) : Tail(c)[i] = rest[i]
    BY <1>3, <1>4, <1>5
  <2> QED
    BY <2>1, <2>2, SeqEqual
<1> QED
  BY <1>5, <1>6 DEF c

\* The body of a line and what follows it.
LEMMA TodoType ==
    ASSUME TypeOK
    PROVE  Body(position, Len(source)) \in Seq(Seq(Characters)) /\ line.text \in Seq(Characters)
BY BodyType DEF TypeOK, Positions

\* A line that is handled: if it is a statement, it was the next one.
LEMMA HandledTodo ==
    ASSUME TypeOK, ~Excused, ~Excused', source' = source, position' = position, line' = NoLine
    PROVE  /\ IsStatement(line.text) => Todo # <<>> /\ Head(Todo) = line.text /\ Todo' = Tail(Todo)
           /\ ~IsStatement(line.text) => Todo' = Todo
<1> DEFINE rest == Body(position, Len(source))
           text == line.text
<1>1. rest \in Seq(Seq(Characters)) /\ text \in Seq(Characters)
  BY TodoType
<1>2. Todo' = rest
  <2>1. rest' = rest
    BY DEF Body
  <2>2. line'.text = <<>>
    BY DEF NoLine
  <2>3. Statements(line.text)' = <<>>
    BY <2>2, NothingStated, Zenon DEF Statements
  <2>4. Todo' = Statements(line.text)' \o rest'
    BY DEF Todo
  <2> HIDE DEF rest
  <2>5. <<>> \o rest = rest
    BY <1>1, ConcatEmptySeq
  <2> QED
    BY <2>1, <2>3, <2>4, <2>5, Zenon
<1>3. Todo = Statements(text) \o rest
  BY DEF Todo
<1> HIDE DEF rest, text
<1>4. CASE IsStatement(text)
  <2>1. Todo = <<text>> \o rest
    BY <1>3, <1>4, Zenon DEF Statements
  <2>2. /\ <<text>> \o rest # <<>>
        /\ Head(<<text>> \o rest) = text /\ Tail(<<text>> \o rest) = rest
    BY <1>1, HeadTail
  <2>3. Todo # <<>> /\ Head(Todo) = text /\ Tail(Todo) = rest
    BY <2>1, <2>2, Zenon
  <2> QED
    BY <1>2, <1>4, <2>3 DEF text
<1>5. CASE ~IsStatement(text)
  <2>1. Todo = <<>> \o rest
    BY <1>3, <1>5, Zenon DEF Statements
  <2>2. <<>> \o rest = rest
    BY <1>1, ConcatEmptySeq
  <2> QED
    BY <1>2, <1>5, <2>1, <2>2, Zenon DEF text
<1> QED
  BY <1>4, <1>5

\* The bodies recorded are what they were.
LEMMA BodiedKept ==
    ASSUME ~Excused, ~Excused', source' = source, macroTable' = macroTable
    PROVE  Bodied' = Bodied
BY DEF Bodied, Body

\* Outside of getEndOfMacroPos no definition is open.
LEMMA OpenedNone ==
    ASSUME pc # "getEndOfMacroPos"
    PROVE  Opened = None
BY DEF Opened, None

\* What is behind whole lines adds its statements.
LEMMA OutAppended ==
    ASSUME TypeOK, ~Excused, ~Excused', EndsWhole(expanded), NEW b \in Seq(Characters),
           expanded' = expanded \o b
    PROVE  Out' = Out \o StatementsOf(b)
<1>1. StatementsOf(expanded \o b) = StatementsOf(expanded) \o StatementsOf(b)
  BY StatementsJoin DEF EndsWhole, TypeOK
<1>2. StatementsOf(expanded') = StatementsOf(expanded) \o StatementsOf(b)
  BY <1>1, Zenon
<1>3. Out' = StatementsOf(expanded') /\ Out = StatementsOf(expanded)
  BY DEF Out
<1> QED
  BY <1>2, <1>3, Zenon

\* Nothing is written, and no statement is added.
LEMMA OutKept ==
    ASSUME ~Excused, ~Excused', expanded' = expanded
    PROVE  Out' = Out
BY DEF Out

\* In the loops nothing unexcused is at the end of a line without a newline.
LEMMA BetweenLines ==
    ASSUME TypeOK, SInv, ~Excused, pc \in Loops, line.kind # "STOP"
    PROVE  EndsWhole(expanded)
BY ExcusedIs DEF SInv, AppendsWhole, Rejected

\* Where the expansion has not ended.
LEMMA PhaseExpanding ==
    ASSUME ~Excused, pc \in Loops \cup {"parsed"}
    PROVE  Phase = "expanding"
BY DEF Phase, Loops

-----------------------------------------------------------------------------
\* Every action of the code is a step of the substitution, or none.

\* A line is read: the statements still to come are the same ones.
LEMMA GetStep ==
    ASSUME TypeOK, SInv, ~Excused, ~Excused', getNewLine, UNCHANGED passVars
    PROVE  UNCHANGED Mapped
<1>1. PICK l, n :
         /\ n \in 0..(Len(source) - position) /\ FittingRead(l, n)
         /\ line' = [kind |-> l.kind, text |-> l.text]
         /\ position' = position + n /\ endOfLinePos' = endOfLinePos + n
         /\ expanded' = expanded \o l.copied
  BY GetFits
<1>2. /\ source' = source /\ definition' = definition /\ macroTable' = macroTable /\ pc' = pc
      /\ pc \in Loops /\ line = NoLine
  BY DEF getNewLine, Loops
<1>3. /\ source \in Seq(Characters) /\ position \in Nat /\ position <= Len(source) /\ Len(source) \in Nat
      /\ n \in Nat /\ position + n \in Nat /\ position + n <= Len(source) /\ position <= position + n
  BY <1>1 DEF TypeOK, Positions
<1> DEFINE q == position + n
           e == Len(source)
           r == Read(n)
<1>4. Todo' = Todo
  <2>1. Border(q)
    <3>1. Whole'
      BY WholeKept DEF Next, MacroNext
    <3> QED
      BY <1>1, <1>2, <3>1 DEF Whole, Border
  <2>2. Body(position, e) = Body(position, q) \o Body(q, e)
    <3>1. q \in Nat /\ e \in Nat /\ position <= q /\ q <= e
      BY <1>3
    <3> HIDE DEF q
    <3> QED
      BY <1>3, <2>1, <3>1, BodySplit
  <2>3. Body(position, q) = Statements(l.text)
    <3>1. Body(position, q) = Statements(TextBetween(position, q))
      BY <1>1, <1>3, BodyOfLine DEF FittingRead
    <3>2. l.text = TextBetween(position, q)
      BY <1>1 DEF FittingRead
    <3> QED
      BY <3>1, <3>2, Zenon
  <2>4. Todo = <<>> \o Body(position, e)
    <3>1. line.text = <<>>
      BY <1>2 DEF NoLine
    <3>2. Statements(line.text) = <<>>
      BY <3>1, NothingStated, Zenon
    <3> QED
      BY <3>2, Zenon DEF Todo
  <2>5. Todo' = Statements(l.text) \o Body(q, e)
    <3>1. Statements(line.text)' = Statements(l.text)
      BY <1>1 DEF Statements
    <3>2. Body(position, Len(source))' = Body(q, e)
      BY <1>1, <1>2 DEF Body
    <3>3. Todo' = Statements(line.text)' \o Body(position, Len(source))'
      BY DEF Todo
    <3> QED
      BY <3>1, <3>2, <3>3, Zenon
  <2>6. <<>> \o Body(position, e) = Body(position, e)
    <3> DEFINE x == Body(position, e)
    <3>1. x \in Seq(Seq(Characters))
      BY TodoType
    <3> HIDE DEF x
    <3>2. <<>> \o x = x
      BY <3>1, ConcatEmptySeq
    <3> QED
      BY <3>2 DEF x
  <2> QED
    BY <2>2, <2>3, <2>4, <2>5, <2>6, Zenon
<1>5. Out' = Out
  <2>1. EndsWhole(expanded) /\ expanded \in Seq(Characters)
    BY <1>2, BetweenLines DEF NoLine, TypeOK
  <2>2. l.copied \in Seq(Characters) /\ StatementsOf(l.copied) = <<>>
    <3>1. CASE l.kind # "EMPTY_LINE"
      <4>1. l.copied = <<>>
        BY <1>1, <3>1 DEF FittingRead
      <4>2. <<>> \in Seq(Characters)
        OBVIOUS
      <4> QED
        BY <4>1, <4>2, NoStatements, Zenon
    <3>2. CASE l.kind = "EMPTY_LINE"
      <4> DEFINE s == Cleaned(r)
      <4>1. r \in Seq(Characters) /\ r = SubSeq(source, position + 1, position + n)
        BY <1>3, PartType DEF Read
      <4>2. Len(SubSeq(source, position + 1, position + n)) = n
            /\ \A i \in 1..n : SubSeq(source, position + 1, position + n)[i] = source[position + i]
        BY <1>1, <1>3, PartElements
      <4>3. l.copied = s /\ l.text = Text(s) /\ ~IsStatement(l.text)
        <5>1. l.copied = s /\ ~IsStatement(l.text)
          BY <1>1, <3>2 DEF FittingRead
        <5>2. l.text = Text(s)
          BY <1>1, Zenon DEF FittingRead, TextBetween, Read
        <5> QED
          BY <5>1, <5>2
      <4> HIDE DEF r
      <4>4. Len(r) = n /\ \A i \in 1..n : r[i] = source[position + i]
        BY <4>1, <4>2, Zenon
      <4>5. s \in Seq(Characters) /\ Len(s) = n /\ Cleaned(s) = s
            /\ \A i \in 1..n : s[i] = NewLine <=> r[i] = NewLine
        BY <4>1, <4>4, CleanedType, CleanedIs
      <4> HIDE DEF s
      <4>6. IsLine(s, 0, Len(s))
        <5>1. \A i \in 1..(n - 1) : s[0 + i] # NewLine
          <6>1. \A i \in 1..(n - 1) : i \in 1..n /\ 0 + i = i
            BY <1>3
          <6>2. \A i \in 1..(n - 1) : source[position + i] # NewLine
            BY <1>1 DEF FittingRead, IsLine
          <6> QED
            BY <4>4, <4>5, <6>1, <6>2
        <5> QED
          BY <4>5, <5>1 DEF IsLine
      <4>7. StatementsOf(s) = Statements(Text(Cleaned(s)))
        BY <4>5, <4>6, OneLine
      <4>8. Statements(Text(s)) = <<>>
        BY <4>3 DEF Statements
      <4>9. StatementsOf(s) = <<>>
        BY <4>5, <4>7, <4>8, Zenon
      <4> QED
        BY <4>3, <4>5, <4>9, Zenon
    <3> QED
      BY <3>1, <3>2
  <2>3. Out' = Out \o StatementsOf(l.copied)
    BY <1>1, <2>1, <2>2, OutAppended
  <2>4. Out \o <<>> = Out
    <3>1. Out \in Seq(Seq(Characters))
      BY <2>1, StatementsType DEF Out
    <3> QED
      BY <3>1, ConcatEmptySeq
  <2> QED
    BY <2>2, <2>3, <2>4, Zenon
<1>6. Bodied' = Bodied
  BY <1>2, BodiedKept
<1>7. Opened' = Opened
  BY <1>2 DEF Opened, Body
<1>8. Phase' = Phase
  BY <1>2 DEF Phase
<1> QED
  BY <1>4, <1>5, <1>6, <1>7, <1>8 DEF Mapped

\* A blank or comment line is none of the statements.
LEMMA SkipStep ==
    ASSUME TypeOK, SInv, ~Excused, ~Excused', SkipLine
    PROVE  UNCHANGED Mapped
<1>1. /\ source' = source /\ position' = position /\ line' = NoLine /\ macroTable' = macroTable
      /\ expanded' = expanded /\ pc = "runParseMacro" /\ pc' \in {"parsed", "runParseMacro"}
      /\ line.kind \in {"EMPTY_LINE", "STOP"}
  BY DEF SkipLine, Handles, NextLine, fileVars
<1>2. ~IsStatement(line.text)
  BY <1>1 DEF SInv, Whole, LineWhole
<1>3. Todo' = Todo
  BY <1>1, <1>2, HandledTodo
<1>4. Opened = None /\ Opened' = None
  BY <1>1 DEF Opened, None
<1>5. Phase' = Phase
  BY <1>1 DEF Phase
<1>6. Bodied' = Bodied /\ Out' = Out
  BY <1>1, BodiedKept, OutKept
<1> QED
  BY <1>3, <1>4, <1>5, <1>6 DEF Mapped

\* mcr opens a macro.
LEMMA StartStep ==
    ASSUME TypeOK, SInv, ~Excused, ~Excused', StartDefinition
    PROVE  Substitution!Next
<1>1. /\ source' = source /\ position' = position /\ line' = NoLine /\ macroTable' = macroTable
      /\ expanded' = expanded /\ pc = "runParseMacro" /\ pc' = "getEndOfMacroPos"
      /\ Keyword(line.text, "mcr")
      /\ definition'.name = MacroLabel(line.text)
      /\ definition'.start = endOfLinePos /\ definition'.last = endOfLinePos
  BY DEF StartDefinition, Handles, fileVars, isStartMacroDeclaration
<1>2. line.text \in Seq(Characters) /\ endOfLinePos \in Nat
  BY DEF TypeOK, Positions
<1>3. Todo # <<>> /\ Head(Todo) = line.text /\ Todo' = Tail(Todo)
  BY <1>1, <1>2, KeywordStatement, HandledTodo
<1>4. First = <<"mcr">> /\ Second = MacroLabel(line.text)
  BY <1>1, <1>3 DEF First, Second, Keyword, MacroLabel
<1>5. ValidLabel(MacroLabel(line.text))
  BY DefinitionStarted DEF getValidMacroLabel, SInv
<1>6. Opened = None /\ Opened' = [name |-> MacroLabel(line.text), body |-> <<>>]
  <2>1. Body(definition.start, definition.last)' = Body(endOfLinePos, endOfLinePos)
    BY <1>1 DEF Body
  <2>2. Body(endOfLinePos, endOfLinePos) = <<>>
    BY <1>2, BodyNone
  <2>3. Opened' = [name |-> definition'.name, body |-> Body(definition.start, definition.last)']
    BY <1>1 DEF Opened
  <2>4. Opened = None
    BY <1>1, OpenedNone
  <2> QED
    BY <1>1, <2>1, <2>2, <2>3, <2>4, Zenon
<1>7. Bodied' = Bodied /\ Out' = Out
  BY <1>1, BodiedKept, OutKept
<1>8. StatementRead
  BY <1>1, <1>3 DEF StatementRead, Phase
<1> QED
  BY <1>4, <1>5, <1>6, <1>7, <1>8, BeginStep

\* An endmcr outside of one is dropped.
LEMMA DropLineStep ==
    ASSUME TypeOK, SInv, ~Excused, ~Excused', DropClosing
    PROVE  Substitution!Next
<1>1. /\ source' = source /\ position' = position /\ line' = NoLine /\ macroTable' = macroTable
      /\ expanded' = expanded /\ pc = "runParseMacro" /\ pc' \in {"parsed", "runParseMacro"}
      /\ Keyword(line.text, "endmcr")
  BY DEF DropClosing, Handles, NextLine, fileVars, isClosingMacroDeclaration
<1>2. line.text \in Seq(Characters)
  BY DEF TypeOK
<1>3. Todo # <<>> /\ Head(Todo) = line.text /\ Todo' = Tail(Todo)
  BY <1>1, <1>2, KeywordStatement, HandledTodo
<1>4. First = <<"endmcr">>
  BY <1>1, <1>3 DEF First, Keyword
<1>5. Opened = None /\ Opened' = None
  BY <1>1 DEF Opened, None
<1>6. Bodied' = Bodied /\ Out' = Out
  BY <1>1, BodiedKept, OutKept
<1>7. StatementRead
  BY <1>1, <1>3 DEF StatementRead, Phase
<1> QED
  BY <1>4, <1>5, <1>6, <1>7, DropStep

\* endmcr ends the macro, which keeps its first definition.
LEMMA DefineStep ==
    ASSUME TypeOK, SInv, ~Excused, ~Excused', DefineMacro
    PROVE  Substitution!Next
<1>1. /\ source' = source /\ position' = position /\ line' = NoLine
      /\ expanded' = expanded /\ pc = "getEndOfMacroPos" /\ pc' = "runParseMacro"
      /\ Keyword(line.text, "endmcr")
      /\ macroTable' = Inserted(definition.name, definition.start, definition.last)
  BY DEF DefineMacro, ClosesDefinition, EndsDefinition, Handles, fileVars, isClosingMacroDeclaration
<1>2. line.text \in Seq(Characters)
  BY DEF TypeOK
<1>3. Todo # <<>> /\ Head(Todo) = line.text /\ Todo' = Tail(Todo)
  BY <1>1, <1>2, KeywordStatement, HandledTodo
<1>4. First = <<"endmcr">>
  BY <1>1, <1>3 DEF First, Keyword
<1>5. /\ Opened = [name |-> definition.name, body |-> Body(definition.start, definition.last)]
      /\ Opened' = None
  BY <1>1 DEF Opened, None
<1>6. Opened # None
  <2>1. definition.name # <<>>
    BY <1>1 DEF SInv, Whole, DefinitionWhole, ValidLabel
  <2>2. Opened.name # None.name
    BY <1>5, <2>1 DEF None
  <2> QED
    BY <2>2
<1>7. Bodied' = [id \in DOMAIN Bodied \cup {Ident(Opened.name)} |->
                    IF id \in DOMAIN Bodied THEN Bodied[id] ELSE Opened.body]
  <2>1. Bodied = [id \in DOMAIN macroTable |-> Body(macroTable[id].start, macroTable[id].end)]
    BY DEF Bodied
  <2>2. Bodied' = [id \in DOMAIN macroTable' |-> Body(macroTable'[id].start, macroTable'[id].end)]
    BY <1>1 DEF Bodied, Body
  <2>3. Opened.name = definition.name /\ Opened.body = Body(definition.start, definition.last)
    BY <1>5
  <2>4. DOMAIN macroTable' = DOMAIN macroTable \cup {Ident(definition.name)}
    BY <1>1 DEF Inserted
  <2>5. ASSUME NEW id \in DOMAIN macroTable'
        PROVE  Body(macroTable'[id].start, macroTable'[id].end)
                  = IF id \in DOMAIN Bodied THEN Bodied[id] ELSE Opened.body
    <3>1. CASE id \in DOMAIN macroTable
      BY <1>1, <2>1, <3>1 DEF Inserted
    <3>2. CASE id \notin DOMAIN macroTable
      <4>1. macroTable'[id].start = definition.start /\ macroTable'[id].end = definition.last
        BY <1>1, <3>2 DEF Inserted
      <4> QED
        BY <2>1, <2>3, <3>2, <4>1
    <3> QED
      BY <3>1, <3>2
  <2> QED
    BY <2>1, <2>2, <2>3, <2>4, <2>5
<1>8. Out' = Out
  BY <1>1, OutKept
<1>9. StatementRead
  BY <1>1, <1>3 DEF StatementRead, Phase
<1> QED
  BY <1>4, <1>5, <1>6, <1>7, <1>8, <1>9, EndStep

\* Statements(text) behind a sequence.
LEMMA OneMore ==
    ASSUME NEW s \in Seq(Seq(Characters)), NEW text \in Seq(Characters)
    PROVE  s \o Statements(text) = IF IsStatement(text) THEN Append(s, text) ELSE s
<1>1. CASE IsStatement(text)
  <2>1. Statements(text) = <<text>>
    BY <1>1 DEF Statements
  <2>2. s \o <<text>> = Append(s, text)
    <3> DEFINE T == Seq(Characters)
    <3>1. s \in Seq(T) /\ text \in T
      OBVIOUS
    <3> HIDE DEF T
    <3> QED
      BY <3>1, AppendIsConcat
  <2> QED
    BY <1>1, <2>1, <2>2, Zenon
<1>2. CASE ~IsStatement(text)
  <2>1. Statements(text) = <<>>
    BY <1>2 DEF Statements
  <2>2. s \o <<>> = s
    BY ConcatEmptySeq
  <2> QED
    BY <1>2, <2>1, <2>2, Zenon
<1> QED
  BY <1>1, <1>2

\* A call is replaced by the statements of the macro.
LEMMA ExpandStep ==
    ASSUME TypeOK, SInv, ~Excused, ~Excused', expandMacro
    PROVE  Substitution!Next
<1> DEFINE w == MacroCall(line.text)
           id == Ident(w)
           b == SubSeq(source, macroTable[id].start + 1, macroTable[id].end)
<1>1. /\ source' = source /\ position' = endOfLinePos /\ line' = NoLine /\ macroTable' = macroTable
      /\ pc = "runParseMacro" /\ pc' \in {"parsed", "runParseMacro"}
      /\ line.kind \in {"SUCCESS", "LAST_LINE"}
      /\ expanded' = expanded \o b
      /\ ValidLabel(w) /\ AfterWord(skipWhiteSpace(line.text)) = <<>> /\ id \in DOMAIN macroTable
  BY DEF expandMacro, isMacroCall, copyChunkToDestFile, Handles, NextLine
<1>2. Whole /\ endOfLinePos = position /\ TableWhole
  BY DEF SInv, Whole
<1>3. line.text \in Seq(Characters) /\ w = FirstWord(skipWhiteSpace(line.text))
  BY DEF TypeOK, MacroCall
<1>4. IsStatement(line.text)
  BY <1>1, <1>3, NameStatement
<1>5. Todo # <<>> /\ Head(Todo) = line.text /\ Todo' = Tail(Todo)
  BY <1>1, <1>2, <1>4, HandledTodo
<1>6. First = w /\ Second = <<>>
  <2>1. FirstWord(<<>>) = <<>>
    BY DEF FirstWord
  <2> QED
    BY <1>1, <1>3, <1>5, <2>1, Zenon DEF First, Second
<1>7. Bodied[id] = StatementsOf(b) /\ id \in DOMAIN Bodied
  <2>1. Bodied = [i \in DOMAIN macroTable |-> Body(macroTable[i].start, macroTable[i].end)]
    BY DEF Bodied
  <2>2. Bodied[id] = Body(macroTable[id].start, macroTable[id].end) /\ id \in DOMAIN Bodied
    BY <1>1, <2>1
  <2> QED
    BY <2>2, Zenon DEF Body
<1>8. b \in Seq(Characters)
  BY <1>1, <1>2, ChunkOfTable
<1>9. EndsWhole(expanded)
  BY <1>1, BetweenLines DEF Loops
<1> HIDE DEF b
<1>10. Out' = Out \o StatementsOf(b)
  BY <1>1, <1>8, <1>9, OutAppended
<1>11. Out' = Out \o Bodied[Ident(First)]
  BY <1>6, <1>7, <1>10, Zenon
<1>12. IsCall
  BY <1>1, <1>6, <1>7, Zenon DEF IsCall
<1>13. Opened = None /\ Opened' = None
  BY <1>1 DEF Opened, None
<1>14. Bodied' = Bodied
  BY <1>1, BodiedKept
<1>15. StatementRead
  BY <1>1, <1>5 DEF StatementRead, Phase
<1> QED
  BY <1>11, <1>12, <1>13, <1>14, <1>15, CallStep

\* A line that is copied is the one statement behind what is there, or none.
LEMMA CopiedLine ==
    ASSUME TypeOK, SInv, ~Excused, ~Excused', copyLine
    PROVE  Out' = IF IsStatement(line.text) THEN Append(Out, line.text) ELSE Out
<1> DEFINE x == line.text
           e == IF line.kind = "SUCCESS" THEN <<NewLine>> ELSE <<>>
           b == x \o e
<1>1. /\ expanded' = (expanded \o x) \o e
      /\ line.kind \in {"SUCCESS", "LAST_LINE"} /\ pc = "runParseMacro"
  BY Zenon DEF copyLine, Handles
<1>2. /\ expanded \in Seq(Characters) /\ x \in Seq(Characters)
      /\ \A i \in 1..Len(x) : x[i] # NewLine
  BY DEF TypeOK, SInv, Whole, LineWhole
<1>3. /\ e \in Seq(Characters)
      /\ e = <<>> \/ (Len(e) = 1 /\ e[1] = NewLine)
  <2>1. NewLine \in Characters
    BY DEF Characters
  <2> QED
    BY <2>1
<1> HIDE DEF x, e
<1>4. b \in Seq(Characters) /\ IsJoined(x, e, b)
  BY <1>2, <1>3, JoinedFile
<1>5. expanded' = expanded \o b
  <2>1. (expanded \o x) \o e = expanded \o (x \o e)
    BY <1>2, <1>3, ConcatAssociative
  <2> QED
    BY <1>1, <2>1, Zenon
<1> HIDE DEF b
<1>6. ~HasForeign(b)
  <2> DEFINE c == expanded \o b
  <2>1. c \in Seq(Characters) /\ IsJoined(expanded, b, c)
    BY <1>2, <1>4, JoinedFile
  <2>2. ~IsUnreadable(c)
    <3>1. ~IsUnreadable(expanded')
      BY ExcusedNext
    <3> QED
      BY <1>5, <3>1, Zenon
  <2> HIDE DEF c
  <2>3. SUFFICES ASSUME NEW i \in 1..Len(b), b[i] = Foreign PROVE FALSE
    BY DEF HasForeign
  <2>4. Len(expanded) + i \in 1..Len(c) /\ c[Len(expanded) + i] = Foreign
    BY <1>2, <1>4, <2>1, <2>3 DEF IsJoined
  <2> QED
    BY <2>2, <2>4 DEF IsUnreadable, HasForeign
<1>7. Cleaned(b) = b
  BY <1>4, <1>6, CleanAlready
<1>8. CASE e = <<>>
  <2>1. b = x
    <3>1. x \o <<>> = x
      BY <1>2, ConcatEmptySeq
    <3> QED
      BY <1>8, <3>1, Zenon DEF b
  <2>2. IsLine(x, 0, Len(x))
    BY <1>2 DEF IsLine
  <2>3. ~EndsInNewLine(x)
    <3>1. x # <<>> => Len(x) \in 1..Len(x)
      BY <1>2
    <3> QED
      BY <1>2, <3>1 DEF EndsInNewLine
  <2>4. Text(x) = x
    BY <2>3 DEF Text
  <2>5. StatementsOf(x) = Statements(Text(Cleaned(x)))
    BY <1>2, <2>2, OneLine
  <2>6. StatementsOf(b) = Statements(x)
    BY <1>7, <2>1, <2>4, <2>5, Zenon
  <2> QED
    <3>1. EndsWhole(expanded)
      BY <1>1, BetweenLines DEF Loops
    <3>2. Out' = Out \o StatementsOf(b)
      BY <1>4, <1>5, <3>1, OutAppended
    <3>3. Out \in Seq(Seq(Characters))
      BY <1>2, StatementsType DEF Out
    <3>4. Out \o Statements(x) = IF IsStatement(x) THEN Append(Out, x) ELSE Out
      BY <1>2, <3>3, OneMore
    <3> QED
      BY <2>6, <3>2, <3>4, Zenon DEF x
<1>9. CASE Len(e) = 1 /\ e[1] = NewLine
  <2>1. /\ Len(b) = Len(x) + 1 /\ b[Len(x) + 1] = NewLine
        /\ \A i \in 1..Len(x) : b[i] = x[i]
    BY <1>4, <1>9 DEF IsJoined
  <2>2. IsLine(b, 0, Len(b))
    <3>1. \A i \in 1..(Len(b) - 1) : b[0 + i] # NewLine
      BY <1>2, <2>1
    <3> QED
      BY <3>1 DEF IsLine
  <2>3. EndsInNewLine(b)
    BY <1>2, <1>4, <2>1 DEF EndsInNewLine
  <2>4. Text(b) = x
    <3>1. /\ Text(b) \in Seq(Characters) /\ Len(Text(b)) = Len(b) - 1
          /\ \A i \in 1..Len(Text(b)) : Text(b)[i] = b[i]
      BY <1>4, <2>3, TextIs
    <3>2. Len(Text(b)) = Len(x)
      BY <1>2, <2>1, <3>1
    <3>3. \A i \in 1..Len(x) : Text(b)[i] = x[i]
      BY <2>1, <3>1, <3>2
    <3> QED
      BY <1>2, <3>1, <3>2, <3>3, SeqEqual
  <2>5. StatementsOf(b) = Statements(Text(Cleaned(b)))
    BY <1>4, <2>2, OneLine
  <2>6. StatementsOf(b) = Statements(x)
    BY <1>7, <2>4, <2>5, Zenon
  <2> QED
    <3>1. EndsWhole(expanded)
      BY <1>1, BetweenLines DEF Loops
    <3>2. Out' = Out \o StatementsOf(b)
      BY <1>4, <1>5, <3>1, OutAppended
    <3>3. Out \in Seq(Seq(Characters))
      BY <1>2, StatementsType DEF Out
    <3>4. Out \o Statements(x) = IF IsStatement(x) THEN Append(Out, x) ELSE Out
      BY <1>2, <3>3, OneMore
    <3> QED
      BY <2>6, <3>2, <3>4, Zenon DEF x
<1> QED
  BY <1>3, <1>8, <1>9

\* Any other statement is copied.
LEMMA CopyLineStep ==
    ASSUME TypeOK, SInv, ~Excused, ~Excused', copyLine
    PROVE  Substitution!Next \/ UNCHANGED Mapped
<1>1. /\ source' = source /\ position' = position /\ line' = NoLine /\ macroTable' = macroTable
      /\ pc = "runParseMacro" /\ pc' \in {"parsed", "runParseMacro"}
      /\ ~Keyword(line.text, "mcr") /\ ~Keyword(line.text, "endmcr") /\ ~isMacroCall(line.text)
  BY DEF copyLine, Handles, NextLine, fileVars
<1>2. Opened = None /\ Opened' = None /\ Phase = "expanding" /\ Phase' = Phase
  BY <1>1 DEF Opened, None, Phase
<1>3. Bodied' = Bodied
  BY <1>1, BodiedKept
<1>4. line.text \in Seq(Characters)
  BY DEF TypeOK
<1>5. Out' = IF IsStatement(line.text) THEN Append(Out, line.text) ELSE Out
  BY CopiedLine
<1>6. CASE ~IsStatement(line.text)
  <2>1. Todo' = Todo
    BY <1>1, <1>6, HandledTodo
  <2> QED
    BY <1>2, <1>3, <1>5, <1>6, <2>1 DEF Mapped
<1>7. CASE IsStatement(line.text)
  <2>1. Todo # <<>> /\ Head(Todo) = line.text /\ Todo' = Tail(Todo)
    BY <1>1, <1>7, HandledTodo
  <2>2. First \notin {<<"mcr">>, <<"endmcr">>}
    BY <1>1, <2>1 DEF First, Keyword
  <2>3. ~IsCall
    <3> DEFINE s == skipWhiteSpace(line.text)
    <3>1. First = FirstWord(s) /\ Second = FirstWord(AfterWord(s))
      BY <2>1 DEF First, Second
    <3>2. Second = <<>> <=> AfterWord(s) = <<>>
      BY <1>4, <3>1, SkipType, SecondWord
    <3>3. DOMAIN Bodied = DOMAIN macroTable
      BY DEF Bodied
    <3> QED
      BY <1>1, <3>1, <3>2, <3>3, Zenon DEF IsCall, isMacroCall, MacroCall
  <2>4. Out' = Append(Out, Head(Todo))
    BY <1>5, <1>7, <2>1
  <2>5. StatementRead
    BY <1>2, <2>1 DEF StatementRead
  <2> QED
    BY <1>2, <1>3, <2>2, <2>3, <2>4, <2>5, CopyStep
<1> QED
  BY <1>6, <1>7

\* A statement inside of a definition is collected.
LEMMA BodyLineStep ==
    ASSUME TypeOK, SInv, ~Excused, ~Excused', BodyLine
    PROVE  Substitution!Next \/ UNCHANGED Mapped
<1>1. /\ source' = source /\ position' = position /\ line' = NoLine /\ macroTable' = macroTable
      /\ expanded' = expanded /\ pc = "getEndOfMacroPos" /\ pc' = pc
      /\ line.kind \in {"SUCCESS", "LAST_LINE", "EMPTY_LINE"}
      /\ line.kind # "EMPTY_LINE" => ~Keyword(line.text, "endmcr")
      /\ definition' = [definition EXCEPT !.last = endOfLinePos]
  BY DEF BodyLine, Handles, fileVars, isClosingMacroDeclaration
<1>2. Whole /\ endOfLinePos = position /\ DefinitionWhole /\ LineWhole
  BY <1>1 DEF SInv, Whole
<1>3. /\ definition \in [name : Seq(Characters), flush : BOOLEAN,
                         start : Positions, first : 0..(Len(source) + 1), last : Positions]
      /\ source \in Seq(Characters) /\ position \in Nat /\ position <= Len(source)
      /\ line.text \in Seq(Characters)
  BY DEF TypeOK, Positions
<1> DEFINE s == definition.start
           p == definition.last
           body == Body(s, p)
           text == line.text
<1>4. /\ s \in Nat /\ p \in Nat /\ p <= Len(source)
      /\ definition'.name = definition.name /\ definition'.start = s /\ definition'.last = position
  BY <1>1, <1>2, <1>3 DEF Positions
<1>5. /\ s <= p /\ p < position /\ Border(p)
      /\ IsLine(source, p, position - p) /\ text = TextBetween(p, position)
      /\ definition.name # <<>>
  BY <1>1, <1>2 DEF DefinitionWhole, ValidLabel
<1>6. Body(s, position) = body \o Statements(text)
  <2> DEFINE n == position - p
  <2>1. n \in 0..(Len(source) - p) /\ p + n = position /\ IsLine(source, p, n)
    BY <1>3, <1>4, <1>5
  <2> HIDE DEF n, s, p
  <2>2. Body(p, p + n) = Statements(TextBetween(p, p + n))
    BY <1>3, <1>4, <2>1, BodyOfLine
  <2>3. Body(p, position) = Statements(text)
    BY <1>5, <2>1, <2>2, Zenon
  <2>4. p <= position
    BY <1>3, <1>4, <1>5
  <2>5. Body(s, position) = Body(s, p) \o Body(p, position)
    BY <1>3, <1>4, <1>5, <2>4, BodySplit
  <2> QED
    BY <2>3, <2>5, Zenon
<1>7. body \in Seq(Seq(Characters))
  BY <1>3, <1>4, BodyType
<1>8. Body(s, position) = IF IsStatement(text) THEN Append(body, text) ELSE body
  <2> HIDE DEF body
  <2>1. body \o Statements(text) = IF IsStatement(text) THEN Append(body, text) ELSE body
    BY <1>3, <1>7, OneMore
  <2> QED
    BY <1>6, <2>1, Zenon
<1>9. /\ Opened = [name |-> definition.name, body |-> body]
      /\ Opened' = [name |-> definition.name, body |-> Body(s, position)]
  <2>1. Opened = [name |-> definition.name, body |-> body]
    BY <1>1 DEF Opened
  <2>2. Opened' = [name |-> definition'.name, body |-> Body(definition.start, definition.last)']
    BY <1>1 DEF Opened
  <2>3. Body(definition.start, definition.last)' = Body(s, position)
    BY <1>1, <1>4 DEF Body
  <2> QED
    BY <1>4, <2>1, <2>2, <2>3
<1>10. Bodied' = Bodied /\ Out' = Out /\ Phase = "expanding" /\ Phase' = Phase
  BY <1>1, BodiedKept, OutKept DEF Phase
<1> HIDE DEF body, s, p
<1>11. CASE ~IsStatement(text)
  <2>1. Todo' = Todo
    BY <1>1, <1>11, HandledTodo
  <2>2. Opened' = Opened
    BY <1>8, <1>9, <1>11
  <2> QED
    BY <1>10, <2>1, <2>2 DEF Mapped
<1>12. CASE IsStatement(text)
  <2>1. Todo # <<>> /\ Head(Todo) = text /\ Todo' = Tail(Todo)
    BY <1>1, <1>12, HandledTodo
  <2>2. First # <<"endmcr">>
    <3>1. line.kind # "EMPTY_LINE"
      BY <1>2, <1>12 DEF LineWhole
    <3> QED
      BY <1>1, <2>1, <3>1 DEF First, Keyword
  <2>3. Opened # None
    <3>1. Opened.name # None.name
      BY <1>5, <1>9 DEF None
    <3> QED
      BY <3>1
  <2>4. Opened' = [Opened EXCEPT !.body = Append(@, Head(Todo))]
    <3> DEFINE name == definition.name
               more == Append(body, Head(Todo))
    <3>1. Opened = [name |-> name, body |-> body] /\ Opened' = [name |-> name, body |-> more]
      BY <1>8, <1>9, <1>12, <2>1, Zenon
    <3>2. Opened.body = body
      BY <3>1
    <3>3. Opened' = [Opened EXCEPT !.body = more]
      <4> HIDE DEF name, more
      <4> QED
        BY <3>1
    <3> QED
      BY <3>2, <3>3, Zenon
  <2>5. StatementRead
    BY <1>10, <2>1 DEF StatementRead
  <2> QED
    BY <1>10, <2>2, <2>3, <2>4, <2>5, CollectStep
<1> QED
  BY <1>11, <1>12

\* The line reader of the first stage reads what the expansion left.
LEMMA PassStep ==
    ASSUME ~Excused, ~Excused', PassNext, UNCHANGED macroVars
    PROVE  UNCHANGED Mapped
<1>1. /\ source' = source /\ position' = position /\ line' = line /\ macroTable' = macroTable
      /\ expanded' = expanded /\ definition' = definition
      /\ pc = "runFirstStage" /\ pc' \in {"runFirstStage", "return"}
  BY DEF PassNext, DeliverLine, FlushInputLine, macroVars, fileVars
<1>2. Phase' = Phase
  BY <1>1 DEF Phase
<1>3. Todo' = Todo
  BY <1>1 DEF Todo, Body, Statements
<1>4. Opened = None /\ Opened' = None
  BY <1>1 DEF Opened, None
<1>5. Bodied' = Bodied /\ Out' = Out
  BY <1>1, BodiedKept, OutKept
<1> QED
  BY <1>2, <1>3, <1>4, <1>5 DEF Mapped

\* The expansion ends when no statement is left.
LEMMA EndsStep ==
    ASSUME TypeOK, SInv, ~Excused, ~Excused', ExpansionEnds
    PROVE  Substitution!Next
<1>1. /\ source' = source /\ position' = position /\ line' = line /\ macroTable' = macroTable
      /\ expanded' = expanded /\ definition' = definition
      /\ pc = "parsed" /\ pc' = IF createFiles THEN "runFirstStage" ELSE "return"
  BY DEF ExpansionEnds, macroVars, fileVars
<1>2. Phase = "expanding" /\ Phase' = "done"
  BY <1>1 DEF Phase
<1>3. Todo = <<>> /\ Todo' = Todo
  <2>1. position = Len(source) /\ line = NoLine
    BY <1>1 DEF SInv, Whole, Loops
  <2>2. Body(position, Len(source)) = <<>>
    <3>1. position \in Nat
      BY DEF TypeOK, Positions
    <3>2. Body(position, position) = <<>>
      BY <3>1, BodyNone
    <3> QED
      BY <2>1, <3>2, Zenon
  <2>3. Statements(line.text) = <<>>
    <3>1. line.text = <<>>
      BY <2>1 DEF NoLine
    <3> QED
      BY <3>1, NothingStated, Zenon
  <2>4. Todo = <<>> \o <<>>
    BY <2>2, <2>3, Zenon DEF Todo
  <2>5. Todo' = Todo
    BY <1>1 DEF Todo, Body, Statements
  <2>6. <<>> \o <<>> = <<>>
    OBVIOUS
  <2> QED
    BY <2>4, <2>5, <2>6, Zenon
<1>4. Opened = None /\ Opened' = None
  BY <1>1 DEF Opened, None
<1>5. Bodied' = Bodied /\ Out' = Out
  BY <1>1, BodiedKept, OutKept
<1> QED
  BY <1>2, <1>3, <1>4, <1>5, FinishStep

\* After the expansion nothing becomes excused that was not.
LEMMA FaultsEarly ==
    ASSUME TypeOK, VerdictInv', Next, ~Excused, Excused'
    PROVE  Phase = "expanding"
<1>1. SUFFICES ASSUME pc \in {"runFirstStage", "return"} PROVE FALSE
  BY DEF Phase
<1>2. PassNext /\ UNCHANGED macroVars
  BY <1>1 DEF Next, MacroNext, getNewLine, SkipLine, RejectDefinition, StartDefinition, DropClosing,
              expandMacro, copyLine, BodyLine, DefineMacro, FlushDefinition, Unterminated, ClosesDefinition,
              Handles, ExpansionEnds
<1>3. expanded' = expanded /\ definition' = definition
  BY <1>2 DEF macroVars
<1>4. CASE DeliverLine
  BY <1>3, <1>4 DEF DeliverLine, Excused
<1>5. CASE FlushInputLine
  <2>1. PICK n \in Left \ {0}, m \in Left : passPosition' = passPosition + n + m
    BY <1>5 DEF FlushInputLine
  <2>2. passPosition' > 0
    BY <2>1 DEF Left, TypeOK
  <2>3. ~createFiles'
    BY <1>5 DEF FlushInputLine
  <2>4. IsUnreadable(expanded)'
    BY <2>2, <2>3 DEF VerdictInv
  <2>5. IsUnreadable(expanded)
    BY <1>3, <2>4 DEF IsUnreadable, HasForeign, StartsLine
  <2> QED
    BY <2>5 DEF Excused
<1> QED
  BY <1>2, <1>4, <1>5 DEF PassNext

\* Every step is one of the substitution, or changes none of its variables.
LEMMA StepImplements ==
    ASSUME TypeOK, SInv, VerdictInv', Next
    PROVE  Substitution!Next \/ UNCHANGED Mapped
<1>1. CASE Excused
  <2>1. Excused'
    BY <1>1, ExcusedStays
  <2> QED
    BY <1>1, <2>1 DEF Mapped, Phase, Todo, Bodied, Opened, Out
<1>2. CASE ~Excused /\ Excused'
  BY <1>2, FaultsEarly, FaultStep
<1>3. CASE ~Excused /\ ~Excused'
  <2>1. CASE getNewLine /\ UNCHANGED passVars
    BY <1>3, <2>1, GetStep
  <2>2. CASE SkipLine
    BY <1>3, <2>2, SkipStep
  <2>3. CASE StartDefinition
    BY <1>3, <2>3, StartStep
  <2>4. CASE DropClosing
    BY <1>3, <2>4, DropLineStep
  <2>5. CASE expandMacro
    BY <1>3, <2>5, ExpandStep
  <2>6. CASE copyLine
    BY <1>3, <2>6, CopyLineStep
  <2>7. CASE BodyLine
    BY <1>3, <2>7, BodyLineStep
  <2>8. CASE DefineMacro
    BY <1>3, <2>8, DefineStep
  <2>9. CASE RejectDefinition \/ FlushDefinition \/ Unterminated
    BY <1>3, <2>9 DEF RejectDefinition, FlushDefinition, Unterminated, EndsDefinition, Excused
  <2>10. CASE PassNext /\ UNCHANGED macroVars
    BY <1>3, <2>10, PassStep
  <2>11. CASE ExpansionEnds
    BY <1>3, <2>11, EndsStep
  <2> QED
    BY <2>1, <2>2, <2>3, <2>4, <2>5, <2>6, <2>7, <2>8, <2>9, <2>10, <2>11 DEF Next, MacroNext
<1> QED
  BY <1>1, <1>2, <1>3

\* The start is one of the substitution: everything is still to be read.
LEMMA InitImplements == Init /\ TypeOK => Substitution!Init
<1> SUFFICES ASSUME Init, TypeOK PROVE Substitution!Init
  OBVIOUS
<1>1. ~Excused
  BY StartsUnexcused
<1>2. /\ pc = "runParseMacro" /\ expanded = <<>> /\ macroTable = <<>>
  BY DEF Init, MacroInit
<1>3. Phase = "expanding" /\ Opened = None
  BY <1>1, <1>2 DEF Phase, Opened, None
<1>4. Todo \in Seq(Seq(Characters))
  <2> DEFINE rest == Body(position, Len(source))
             s == Statements(line.text)
  <2>1. rest \in Seq(Seq(Characters)) /\ line.text \in Seq(Characters)
    BY TodoType
  <2>2. s \in Seq(Seq(Characters))
    BY <2>1 DEF Statements
  <2> HIDE DEF s, rest
  <2>3. s \o rest \in Seq(Seq(Characters))
    BY <2>1, <2>2, ConcatProperties
  <2> QED
    BY <1>1, <2>3 DEF Todo, s, rest
<1>5. Bodied = <<>>
  BY <1>1, <1>2 DEF Bodied
<1>6. Out = <<>>
  BY <1>1, <1>2, NoStatements DEF Out
<1>7. Substitution!Characters = Characters
  BY DEF Substitution!Characters, Characters, Substitution!NewLine, NewLine, Substitution!Blank, Blank,
         Substitution!Comment, Comment, Substitution!Foreign, Foreign
<1> QED
  BY <1>3, <1>4, <1>5, <1>6, <1>7, SameWords
     DEF Substitution!Init, Phase, Todo, Opened, Bodied, Out, None

\* Unless the source is rejected, the expansion replaces each macro call by the
\* statements of the macro, on every source and with every table of names.
THEOREM SubstitutionImplemented == Spec => ImplementsSubstitution
<1>1. Init /\ TypeOK => Substitution!Init
  BY InitImplements
<1>2. TypeOK /\ SInv /\ VerdictInv' /\ [Next]_vars => [Substitution!Next]_Mapped
  <2> SUFFICES ASSUME TypeOK, SInv, VerdictInv', [Next]_vars PROVE Substitution!Next \/ UNCHANGED Mapped
    OBVIOUS
  <2>1. CASE Next
    BY <2>1, StepImplements
  <2>2. CASE UNCHANGED vars
    BY <2>2 DEF vars, macroVars, fileVars, Mapped, Phase, Todo, Bodied, Opened, Out, Excused, Statements, Body
  <2> QED
    BY <2>1, <2>2
<1> QED
  BY <1>1, <1>2, ReadingTypes, ReadsWholeLines, Verdict, PTL
     DEF Spec, ImplementsSubstitution, Substitution!Spec, Mapped, Phase, Todo, Bodied, Opened, Out
=============================================================================
