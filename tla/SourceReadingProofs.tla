------------------------- MODULE SourceReadingProofs -------------------------
(***************************************************************************)
(* Proofs about SourceReading, for every source: until something is        *)
(* reported the counted position is the true one, and the bodies recorded  *)
(* by it are whole lines; the types; the verdict of the line reader; and   *)
(* what it delivers.                                                       *)
(***************************************************************************)
EXTENDS SourceReading, TLAPS, SequenceTheorems, FiniteSetTheorems, FunctionTheorems, WellFoundedInduction

\* Where a line of the source ends, or the source.
AtLineEnd(p) == source[p] = NewLine \/ p = Len(source)

\* No line that starts at one of these positions closes a definition.
NoClosing(first, last) ==
    \A p \in first..(last - 1) :
        StartsLine(source, p) => ~isClosingMacroDeclaration(LineAt(source, p))

TextBetween(p, q) == Text(Cleaned(SubSeq(source, p + 1, q)))

\* What the reader leaves between the position it started from and the one it is at.
LineFrom(p) ==
    /\ IsLine(source, p, position - p)
    /\ line.kind \in {"SUCCESS", "LAST_LINE"} =>
          p < position /\ line.text = TextBetween(p, position)
    /\ line.kind = "EMPTY_LINE" =>
          p < position /\ ~isClosingMacroDeclaration(TextBetween(p, position))

Placed ==
    /\ source \in Seq(Characters)
    /\ ~reported =>
          /\ position \in Nat /\ position <= Len(source) /\ endOfLinePos = position
          /\ line.kind \in {"SUCCESS", "LAST_LINE"} => 0 < position /\ AtLineEnd(position)

DefinitionOpen ==
    ~reported /\ pc = "getEndOfMacroPos" =>
        /\ {"start", "last"} \subseteq DOMAIN definition
        /\ definition.start \in Nat /\ definition.last \in Nat
        /\ 0 < definition.start /\ definition.start <= definition.last
        /\ definition.last <= position
        /\ AtLineEnd(definition.start) /\ AtLineEnd(definition.last)
        /\ NoClosing(definition.start, definition.last)
        /\ IF line = NoLine THEN position = definition.last ELSE LineFrom(definition.last)

IsBody(first, last) ==
    /\ first \in Nat /\ last \in Nat
    /\ first <= last
    /\ source[first] = NewLine /\ source[last] = NewLine
    /\ isClosingMacroDeclaration(LineAt(source, last))
    /\ NoClosing(first, last)

Bodies ==
    ~reported => \A id \in DOMAIN macroTable : IsBody(macroTable[id].start, macroTable[id].end)

IInv == Placed /\ DefinitionOpen /\ Bodies

-----------------------------------------------------------------------------
\* A line is one from a given position only.
LEMMA LineUnique ==
    ASSUME NEW file \in Seq(Characters), NEW p \in Nat, p <= Len(file),
           NEW m \in 0..(Len(file) - p), NEW n \in 0..(Len(file) - p),
           IsLine(file, p, m), IsLine(file, p, n)
    PROVE  m = n
<1>1. ASSUME NEW a \in 0..(Len(file) - p), NEW b \in 0..(Len(file) - p),
             IsLine(file, p, a), IsLine(file, p, b), a < b
      PROVE  FALSE
  <2>1. a # 0 => a \in 1..(b - 1)
    BY <1>1
  <2>2. p + a # Len(file)
    BY <1>1
  <2> QED
    BY <1>1, <2>1, <2>2 DEF IsLine
<1> QED
  BY <1>1

\* LineAt is the line that was read.
LEMMA LineAtRead ==
    ASSUME NEW file \in Seq(Characters), NEW p \in Nat, NEW q \in Nat,
           p <= q, q <= Len(file), IsLine(file, p, q - p)
    PROVE  LineAt(file, p) = Text(Cleaned(SubSeq(file, p + 1, q)))
<1> DEFINE n == CHOOSE k \in 0..(Len(file) - p) : IsLine(file, p, k)
<1>1. q - p \in 0..(Len(file) - p)
  OBVIOUS
<1>2. n \in 0..(Len(file) - p) /\ IsLine(file, p, n)
  BY <1>1
<1> HIDE DEF n
<1>3. n = q - p
  BY <1>1, <1>2, LineUnique
<1>4. p + n = q
  BY <1>3
<1> USE DEF n
<1> QED
  BY <1>4 DEF LineAt

\* The first word of a text starts where the text starts.
LEMMA FirstWordStarts ==
    ASSUME NEW s \in Seq(Characters), NEW c, FirstWord(s) = <<c>>
    PROVE  s # <<>> /\ s[1] = c
<1> DEFINE stop == {i \in 1..Len(s) : s[i] = Blank /\ \A j \in 1..(i - 1) : s[j] # Blank}
<1> DEFINE n == CHOOSE i \in stop : TRUE
<1>1. CASE stop = {}
  <2>1. s = <<c>>
    BY <1>1 DEF FirstWord
  <2> QED
    BY <2>1
<1>2. CASE stop # {}
  <2>1. n \in 1..Len(s)
    BY <1>2
  <2>2. SubSeq(s, 1, n - 1) = <<c>>
    BY <1>2 DEF FirstWord
  <2> HIDE DEF n
  <2>3. Len(SubSeq(s, 1, n - 1)) = n - 1 /\ (n > 1 => SubSeq(s, 1, n - 1)[1] = s[1])
    BY <2>1
  <2>4. n - 1 = 1
    BY <2>1, <2>2, <2>3
  <2>5. <<c>>[1] = c
    OBVIOUS
  <2>6. Len(s) > 0
    BY <2>1
  <2> QED
    <3>1. n > 1
      BY <2>1, <2>4
    <3>2. s[1] = c
      BY <3>1, <2>2, <2>3, <2>5
    <3>3. s # <<>>
      BY <2>6
    <3> QED
      BY <3>2, <3>3
<1> QED
  BY <1>1, <1>2

\* Cleaning a text leaves a text of the same length.
LEMMA CleanedType ==
    ASSUME NEW s \in Seq(Characters)
    PROVE  Cleaned(s) \in Seq(Characters) /\ Len(Cleaned(s)) = Len(s)
<1>1. \A i \in 1..Len(s) : (IF s[i] = Foreign THEN Blank ELSE s[i]) \in Characters
  BY DEF Characters
<1> QED
  BY <1>1 DEF Cleaned

\* A line the reader takes for empty closes nothing: it is blank or a comment.
LEMMA EmptyLineCloses ==
    ASSUME NEW s \in Seq(Characters), NEW buffer,
           "EMPTY_LINE" \in Kinds(buffer, s)
    PROVE  s # <<>> /\ ~isClosingMacroDeclaration(Text(s))
<1> DEFINE t == Text(s)
           solid(u) == {i \in 1..Len(u) : u[i] # Blank /\ \A j \in 1..(i - 1) : u[j] = Blank}
<1>1. EndsInNewLine(s) /\ \E c \in FirstSolid(buffer, s) : c \in {Comment, NewLine}
  BY DEF Kinds
<1>2. s # <<>> /\ Len(s) > 0 /\ s[Len(s)] = NewLine
  BY <1>1 DEF EndsInNewLine
<1>3. t \in Seq(Characters) /\ Len(t) = Len(s) - 1 /\ \A i \in 1..Len(t) : t[i] = s[i]
  <2>1. t = SubSeq(s, 1, Len(s) - 1)
    BY <1>1 DEF Text
  <2>2. Len(s) \in Nat /\ Len(s) > 0
    BY <1>2
  <2> HIDE DEF t
  <2>3. t \in Seq(Characters)
    BY <2>1, <2>2
  <2>4. Len(t) = Len(s) - 1
    <3>1. ASSUME NEW m \in 0..Len(s) PROVE Len(SubSeq(s, 1, m)) = m
      OBVIOUS
    <3>2. Len(s) - 1 \in 0..Len(s)
      BY <2>2
    <3> QED
      BY <3>1, <3>2, <2>1
  <2> QED
    BY <2>1, <2>2, <2>3, <2>4
<1>4. ASSUME NEW i \in solid(t), NEW k \in solid(s) PROVE i = k
  <2>1. /\ i \in 1..(Len(s) - 1) /\ s[i] # Blank /\ \A j \in 1..(i - 1) : s[j] = Blank
    BY <1>3
  <2>2. /\ k \in 1..Len(s) /\ s[k] # Blank /\ \A j \in 1..(k - 1) : s[j] = Blank
    OBVIOUS
  <2> HIDE DEF t
  <2>3. CASE i < k
    <3>1. i \in 1..(k - 1)
      BY <2>1, <2>2, <2>3
    <3> QED
      BY <2>1, <2>2, <3>1
  <2>4. CASE k < i
    <3>1. k \in 1..(i - 1)
      BY <2>1, <2>2, <2>4
    <3> QED
      BY <2>1, <2>2, <3>1
  <2> QED
    BY <1>2, <2>1, <2>2, <2>3, <2>4
<1>5. SUFFICES ASSUME isClosingMacroDeclaration(t) PROVE FALSE
  BY <1>2
<1>6. FirstWord(skipWhiteSpace(t)) = <<"endmcr">>
  BY <1>5 DEF isClosingMacroDeclaration, Keyword
<1>7. solid(t) # {}
  <2>1. SUFFICES ASSUME solid(t) = {} PROVE FALSE
    OBVIOUS
  <2>2. skipWhiteSpace(t) = <<>>
    BY <2>1 DEF skipWhiteSpace
  <2>3. <<>> \in Seq(Characters)
    OBVIOUS
  <2> QED
    BY <1>6, <2>2, <2>3, FirstWordStarts
<1> DEFINE i == CHOOSE k \in solid(t) : TRUE
<1>8. i \in solid(t) /\ i \in solid(s)
  <2>1. i \in solid(t)
    BY <1>7
  <2> HIDE DEF i
  <2> QED
    BY <1>3, <2>1
<1> HIDE DEF i, t
<1>9. skipWhiteSpace(t) = SubSeq(t, i, Len(t))
  BY <1>7 DEF skipWhiteSpace, i
<1>10. SubSeq(t, i, Len(t)) \in Seq(Characters) /\ SubSeq(t, i, Len(t))[1] = t[i]
  BY <1>3, <1>8
<1>11. t[i] = "endmcr"
  BY <1>6, <1>9, <1>10, FirstWordStarts
<1>12. skipWhiteSpace(s) = SubSeq(s, i, Len(s))
  <2>1. (CHOOSE k \in solid(s) : TRUE) = i
    BY <1>4, <1>8 DEF t
  <2>2. solid(s) # {}
    BY <1>8
  <2> QED
    BY <2>1, <2>2 DEF skipWhiteSpace
<1>13. SubSeq(s, i, Len(s)) # <<>> /\ SubSeq(s, i, Len(s))[1] = s[i]
  BY <1>8
<1>14. FirstSolid(buffer, s) = {s[i]}
  BY <1>12, <1>13 DEF FirstSolid
<1>15. s[i] \in {Comment, NewLine}
  BY <1>1, <1>14
<1> QED
  BY <1>3, <1>8, <1>11, <1>15, CharactersAssumption

\* What the reader returns of a line about which it reports nothing.
LEMMA ReadFacts ==
    ASSUME source \in Seq(Characters), position \in Nat, position <= Len(source),
           NEW l \in getNewLineMacro, ~l.error
    PROVE  \E n \in 0..(Len(source) - position) :
              /\ IsLine(source, position, n)
              /\ l.read = n /\ l.counted = n
              /\ l.kind \in LineKinds
              /\ l.kind \in {"SUCCESS", "LAST_LINE"} =>
                    n > 0 /\ l.text = TextBetween(position, position + n)
              /\ l.kind = "EMPTY_LINE" =>
                    n > 0 /\ ~isClosingMacroDeclaration(TextBetween(position, position + n))
<1> DEFINE left == 0..(Len(source) - position)
<1>1. PICK n \in left : IsLine(source, position, n) /\ l \in FittingLine(n)
  <2>1. ASSUME NEW m PROVE OverlongLine(m).error
    BY DEF OverlongLine
  <2>2. CASE \E m \in left : l = OverlongLine(m)
    BY <2>1, <2>2
  <2>3. CASE \E m \in {k \in left : k < MaxLine /\ IsLine(source, position, k)} : l \in FittingLine(m)
    BY <2>3
  <2>4. \/ \E m \in left : l = OverlongLine(m)
        \/ \E m \in {k \in left : k < MaxLine /\ IsLine(source, position, k)} : l \in FittingLine(m)
    <3> DEFINE A == {FittingLine(m) : m \in {k \in left : k < MaxLine /\ IsLine(source, position, k)}}
    <3>1. l \in UNION A \/ \E m \in left : l = OverlongLine(m)
      BY DEF getNewLineMacro
    <3>2. CASE l \in UNION A
      <4>1. PICK X \in A : l \in X
        BY <3>2
      <4> QED
        BY <4>1
    <3> QED
      BY <3>1, <3>2
  <2> QED
    BY <2>2, <2>3, <2>4
<1> DEFINE r == Read(n)
           s == Cleaned(r)
<1>2. PICK k \in Kinds(lineBuffer, s) :
         l.kind = k /\ l.text = Text(s) /\ l.read = n /\ l.counted = n
  BY <1>1 DEF FittingLine
<1>3. r \in Seq(Characters) /\ Len(r) = n
  <2>1. ASSUME NEW a \in 1..(Len(source) + 1), NEW b \in (a - 1)..Len(source)
        PROVE  SubSeq(source, a, b) \in Seq(Characters) /\ Len(SubSeq(source, a, b)) = b - a + 1
    OBVIOUS
  <2>2. position + 1 \in 1..(Len(source) + 1) /\ position + n \in position..Len(source)
    BY <1>1
  <2> QED
    BY <2>1, <2>2 DEF Read
<1>4. s \in Seq(Characters) /\ Len(s) = n
  BY <1>3, CleanedType
<1>5. Text(s) = TextBetween(position, position + n)
  BY DEF TextBetween, Read
<1>6. k \in LineKinds /\ (k \in {"SUCCESS", "LAST_LINE"} => s # <<>>)
  BY <1>2 DEF Kinds, LineKinds, EndsInNewLine
<1>7. k = "EMPTY_LINE" => s # <<>> /\ ~isClosingMacroDeclaration(Text(s))
  BY <1>4, EmptyLineCloses
<1>8. s # <<>> => n > 0
  BY <1>1, <1>4
<1> HIDE DEF r, s
<1> QED
  BY <1>1, <1>2, <1>5, <1>6, <1>7, <1>8

\* No line starts inside the one from p to q.
LEMMA LineWithin ==
    ASSUME source \in Seq(Characters), NEW p \in Nat, NEW q \in Nat,
           p < q, q <= Len(source), IsLine(source, p, q - p)
    PROVE  AtLineEnd(q) /\ \A i \in (p + 1)..(q - 1) : ~StartsLine(source, i)
<1>1. AtLineEnd(q)
  BY DEF IsLine, AtLineEnd
<1>2. ASSUME NEW i \in (p + 1)..(q - 1) PROVE ~StartsLine(source, i)
  <2>1. i - p \in 1..(q - p - 1) /\ p + (i - p) = i
    OBVIOUS
  <2>2. source[p + (i - p)] # NewLine
    BY <2>1 DEF IsLine
  <2> QED
    BY <2>1, <2>2 DEF StartsLine
<1> QED
  BY <1>1, <1>2

-----------------------------------------------------------------------------
\* Back in runParseMacro, or behind it, with no line left: what is to show of the
\* positions and of the bodies is what was known before.
LEMMA HandledLine ==
    ASSUME IInv, line' = NoLine, source' = source, macroTable' = macroTable,
           ~reported' => ~reported,
           ~reported' => position' = position /\ endOfLinePos' = endOfLinePos,
           pc' # "getEndOfMacroPos"
    PROVE  IInv'
<1>1. Placed'
  BY DEF IInv, Placed, NoLine
<1>2. DefinitionOpen'
  BY DEF DefinitionOpen
<1>3. Bodies'
  BY DEF IInv, Bodies, IsBody, NoClosing
<1> QED
  BY <1>1, <1>2, <1>3 DEF IInv

\* A line is read, from the end of the last one.
LEMMA LineReadKeeps ==
    ASSUME IInv, getNewLine
    PROVE  IInv'
<1> USE DEF IInv
<1>1. CASE reported'
  BY <1>1 DEF getNewLine, fileVars, Placed, DefinitionOpen, Bodies
<1>2. CASE ~reported'
  <2>1. PICK l \in getNewLineMacro :
           /\ line' = [kind |-> l.kind, text |-> l.text]
           /\ position' = position + l.read
           /\ endOfLinePos' = endOfLinePos + l.counted
           /\ reported' = (reported \/ l.error)
    BY DEF getNewLine
  <2>2. ~reported /\ ~l.error
    BY <1>2, <2>1
  <2>3. /\ source \in Seq(Characters) /\ position \in Nat /\ position <= Len(source)
        /\ endOfLinePos = position
    BY <2>2 DEF Placed
  <2>4. PICK n \in 0..(Len(source) - position) :
           /\ IsLine(source, position, n)
           /\ l.read = n /\ l.counted = n
           /\ l.kind \in LineKinds
           /\ l.kind \in {"SUCCESS", "LAST_LINE"} =>
                 n > 0 /\ l.text = TextBetween(position, position + n)
           /\ l.kind = "EMPTY_LINE" =>
                 n > 0 /\ ~isClosingMacroDeclaration(TextBetween(position, position + n))
    BY <2>2, <2>3, ReadFacts
  <2>5. /\ source' = source /\ pc' = pc /\ definition' = definition /\ macroTable' = macroTable
        /\ line = NoLine
    BY DEF getNewLine
  <2>6. /\ position' = position + n /\ endOfLinePos' = position'
        /\ position' \in Nat /\ position' <= Len(source) /\ position <= position'
        /\ position' - position = n
        /\ line'.kind = l.kind /\ line'.text = l.text
    BY <2>1, <2>3, <2>4
  <2>7. n > 0 => AtLineEnd(position')
    BY <2>3, <2>4, <2>6, LineWithin
  <2>8. Placed'
    BY <2>3, <2>4, <2>5, <2>6, <2>7 DEF Placed, AtLineEnd
  <2>9. DefinitionOpen'
    <3>1. SUFFICES ASSUME pc = "getEndOfMacroPos" PROVE DefinitionOpen'
      BY <2>5 DEF DefinitionOpen
    <3>2. /\ {"start", "last"} \subseteq DOMAIN definition
          /\ definition.start \in Nat /\ definition.last \in Nat
          /\ 0 < definition.start /\ definition.start <= definition.last
          /\ definition.last = position
          /\ AtLineEnd(definition.start) /\ AtLineEnd(definition.last)
          /\ NoClosing(definition.start, definition.last)
      BY <2>2, <2>5, <3>1 DEF DefinitionOpen
    <3>3. line' # NoLine
      BY <2>4, <2>6 DEF NoLine, LineKinds
    <3>4. LineFrom(definition.last)'
      BY <2>3, <2>4, <2>5, <2>6, <3>2 DEF LineFrom, TextBetween
    <3>5. (definition.last <= position)'
      BY <2>3, <2>5, <2>6, <3>2
    <3>6. (AtLineEnd(definition.start) /\ AtLineEnd(definition.last)
             /\ NoClosing(definition.start, definition.last))'
      BY <2>5, <3>2 DEF AtLineEnd, NoClosing
    <3> QED
      BY <2>5, <3>2, <3>3, <3>4, <3>5, <3>6 DEF DefinitionOpen
  <2>10. Bodies'
    BY <2>2, <2>5 DEF Bodies, IsBody, NoClosing
  <2> QED
    BY <2>8, <2>9, <2>10
<1> QED
  BY <1>1, <1>2

\* The definition starts where its first line was read to.
LEMMA DefinitionStarts ==
    ASSUME IInv, StartDefinition
    PROVE  IInv'
<1> USE DEF IInv
<1>1. CASE reported'
  BY <1>1 DEF StartDefinition, Handles, fileVars, Placed, DefinitionOpen, Bodies
<1>2. CASE ~reported'
  <2>1. /\ ~reported
        /\ source' = source /\ position' = position /\ endOfLinePos' = endOfLinePos
        /\ macroTable' = macroTable /\ line' = NoLine
        /\ line.kind \in {"SUCCESS", "LAST_LINE"}
        /\ definition'.start = endOfLinePos /\ definition'.last = endOfLinePos
        /\ {"start", "last"} \subseteq DOMAIN definition'
    BY <1>2 DEF StartDefinition, Handles, Reported, fileVars
  <2>2. /\ position \in Nat /\ endOfLinePos = position /\ 0 < position
        /\ AtLineEnd(position)
    BY <2>1 DEF Placed
  <2>3. Placed'
    BY <2>1 DEF Placed, NoLine
  <2>4. \A p : p \notin position..(position - 1)
    BY <2>2
  <2>5. NoClosing(position, position)'
    BY <2>1, <2>4 DEF NoClosing
  <2>6. AtLineEnd(position)'
    BY <2>1, <2>2 DEF AtLineEnd
  <2>7. DefinitionOpen'
    BY <2>1, <2>2, <2>5, <2>6 DEF DefinitionOpen
  <2>8. Bodies'
    BY <2>1 DEF Bodies, IsBody, NoClosing
  <2> QED
    BY <2>3, <2>7, <2>8
<1> QED
  BY <1>1, <1>2

\* What is known of a line read into the body of a definition.
LEMMA LineOfBody ==
    ASSUME IInv, ~reported, pc = "getEndOfMacroPos",
           line.kind \in {"SUCCESS", "LAST_LINE", "EMPTY_LINE"}
    PROVE  /\ definition.start \in Nat /\ definition.last \in Nat /\ position \in Nat
           /\ 0 < definition.start /\ definition.start <= definition.last
           /\ definition.last < position /\ position <= Len(source)
           /\ AtLineEnd(definition.start) /\ AtLineEnd(definition.last) /\ AtLineEnd(position)
           /\ NoClosing(definition.start, definition.last)
           /\ \A i \in (definition.last + 1)..(position - 1) : ~StartsLine(source, i)
           /\ isClosingMacroDeclaration(LineAt(source, definition.last)) =>
                 line.kind # "EMPTY_LINE" /\ isClosingMacroDeclaration(line.text)
           /\ line.kind # "EMPTY_LINE" /\ isClosingMacroDeclaration(line.text) =>
                 isClosingMacroDeclaration(LineAt(source, definition.last))
<1>1. source \in Seq(Characters) /\ position \in Nat /\ position <= Len(source)
  BY DEF IInv, Placed
<1>2. line # NoLine
  BY DEF NoLine
<1>3. /\ definition.start \in Nat /\ definition.last \in Nat
      /\ 0 < definition.start /\ definition.start <= definition.last
      /\ AtLineEnd(definition.start) /\ AtLineEnd(definition.last)
      /\ NoClosing(definition.start, definition.last)
      /\ LineFrom(definition.last)
  BY <1>2 DEF IInv, DefinitionOpen
<1>4. /\ definition.last < position
      /\ IsLine(source, definition.last, position - definition.last)
  BY <1>3 DEF LineFrom
<1>5. LineAt(source, definition.last) = TextBetween(definition.last, position)
  BY <1>1, <1>3, <1>4, LineAtRead DEF TextBetween
<1>6. AtLineEnd(position) /\ \A i \in (definition.last + 1)..(position - 1) : ~StartsLine(source, i)
  BY <1>1, <1>3, <1>4, LineWithin
<1>7. /\ isClosingMacroDeclaration(TextBetween(definition.last, position)) =>
           line.kind # "EMPTY_LINE" /\ isClosingMacroDeclaration(line.text)
      /\ line.kind # "EMPTY_LINE" /\ isClosingMacroDeclaration(line.text) =>
           isClosingMacroDeclaration(TextBetween(definition.last, position))
  BY <1>3 DEF LineFrom
<1> QED
  BY <1>1, <1>3, <1>4, <1>5, <1>6, <1>7

\* A line that does not close the definition becomes a part of its body.
LEMMA BodyGrows ==
    ASSUME IInv, BodyLine
    PROVE  IInv'
<1> USE DEF IInv
<1>1. CASE reported'
  BY <1>1 DEF BodyLine, Handles, fileVars, Placed, DefinitionOpen, Bodies
<1>2. CASE ~reported'
  <2>1. /\ ~reported /\ pc = "getEndOfMacroPos" /\ pc' = pc
        /\ source' = source /\ position' = position /\ endOfLinePos' = endOfLinePos
        /\ macroTable' = macroTable /\ line' = NoLine
        /\ line.kind \in {"SUCCESS", "LAST_LINE", "EMPTY_LINE"}
        /\ line.kind # "EMPTY_LINE" => ~isClosingMacroDeclaration(line.text)
        /\ definition' = [definition EXCEPT !.last = endOfLinePos]
    BY <1>2 DEF BodyLine, Handles, fileVars
  <2>2. endOfLinePos = position
    BY <2>1 DEF Placed
  <2>3. /\ definition.start \in Nat /\ definition.last \in Nat /\ position \in Nat
        /\ 0 < definition.start /\ definition.start <= definition.last
        /\ definition.last < position
        /\ AtLineEnd(definition.start) /\ AtLineEnd(position)
        /\ NoClosing(definition.start, definition.last)
        /\ \A i \in (definition.last + 1)..(position - 1) : ~StartsLine(source, i)
        /\ ~isClosingMacroDeclaration(LineAt(source, definition.last))
    BY <2>1, LineOfBody
  <2>4. NoClosing(definition.start, position)
    <3>1. SUFFICES ASSUME NEW p \in definition.start..(position - 1), StartsLine(source, p)
                   PROVE  ~isClosingMacroDeclaration(LineAt(source, p))
      BY DEF NoClosing
    <3>2. CASE p < definition.last
      BY <2>3, <3>1, <3>2 DEF NoClosing
    <3>3. CASE p = definition.last
      BY <2>3, <3>3
    <3>4. CASE p > definition.last
      BY <2>3, <3>1, <3>4
    <3> QED
      BY <2>3, <3>2, <3>3, <3>4
  <2>5. /\ {"start", "last"} \subseteq DOMAIN definition'
        /\ definition'.start = definition.start /\ definition'.last = position
    <3>1. {"start", "last"} \subseteq DOMAIN definition
      BY <2>1 DEF DefinitionOpen
    <3> QED
      BY <2>1, <2>2, <3>1
  <2>6. Placed'
    BY <2>1 DEF Placed, NoLine
  <2>7. (NoClosing(definition.start, definition.last) /\ AtLineEnd(definition.start)
           /\ AtLineEnd(definition.last))'
    BY <2>1, <2>3, <2>4, <2>5 DEF NoClosing, AtLineEnd
  <2>8. DefinitionOpen'
    BY <2>1, <2>3, <2>5, <2>7 DEF DefinitionOpen
  <2>9. Bodies'
    BY <2>1 DEF Bodies, IsBody, NoClosing
  <2> QED
    BY <2>6, <2>8, <2>9
<1> QED
  BY <1>1, <1>2

\* The positions recorded for a name are those of a body of whole lines.
LEMMA BodyRecorded ==
    ASSUME IInv, DefineMacro
    PROVE  IInv'
<1> USE DEF IInv
<1>1. CASE reported'
  BY <1>1 DEF DefineMacro, ClosesDefinition, EndsDefinition, Handles, fileVars,
              Placed, DefinitionOpen, Bodies
<1>2. CASE ~reported'
  <2> DEFINE name == Ident(definition.name)
  <2>1. /\ ~reported /\ pc = "getEndOfMacroPos" /\ pc' = "runParseMacro"
        /\ source' = source /\ position' = position /\ endOfLinePos' = endOfLinePos
        /\ line' = NoLine
        /\ line.kind \in {"SUCCESS", "LAST_LINE"} /\ isClosingMacroDeclaration(line.text)
        /\ name \notin DOMAIN macroTable
        /\ macroTable' = Inserted(definition.name, definition.start, definition.last)
    BY <1>2 DEF DefineMacro, ClosesDefinition, EndsDefinition, Handles, Reported, fileVars
  <2>2. Placed' /\ DefinitionOpen'
    BY <2>1 DEF Placed, DefinitionOpen, NoLine
  <2>3. IsBody(definition.start, definition.last)
    <3>1. /\ definition.start \in Nat /\ definition.last \in Nat /\ position \in Nat
          /\ definition.start <= definition.last
          /\ definition.last < position /\ position <= Len(source)
          /\ AtLineEnd(definition.start) /\ AtLineEnd(definition.last)
          /\ NoClosing(definition.start, definition.last)
          /\ isClosingMacroDeclaration(LineAt(source, definition.last))
      BY <2>1, LineOfBody
    <3>2. definition.start # Len(source) /\ definition.last # Len(source)
      BY <2>1, <3>1 DEF Placed
    <3> QED
      BY <3>1, <3>2 DEF IsBody, AtLineEnd
  <2>4. ASSUME NEW id \in DOMAIN macroTable'
        PROVE  IsBody(macroTable'[id].start, macroTable'[id].end)
    <3>1. id \in DOMAIN macroTable \cup {name}
      BY <2>1 DEF Inserted
    <3>2. CASE id \in DOMAIN macroTable
      <4>1. macroTable'[id] = macroTable[id]
        BY <2>1, <3>2 DEF Inserted
      <4> QED
        BY <2>1, <3>2, <4>1 DEF Bodies
    <3>3. CASE id \notin DOMAIN macroTable
      <4>1. macroTable'[id] = [start |-> definition.start, end |-> definition.last]
        BY <2>1, <3>1, <3>3 DEF Inserted
      <4> QED
        BY <2>3, <4>1
    <3> QED
      BY <3>2, <3>3
  <2>5. ASSUME NEW id \in DOMAIN macroTable'
        PROVE  IsBody(macroTable[id].start, macroTable[id].end)'
    BY <2>1, <2>4 DEF IsBody, NoClosing
  <2>6. Bodies'
    BY <2>5 DEF Bodies
  <2> QED
    BY <2>2, <2>6
<1> QED
  BY <1>1, <1>2

\* A chunk is copied by seeking there and back to where the source was being read.
LEMMA ChunkCopied ==
    ASSUME Placed, NEW first, NEW last, copyChunkToDestFile(first, last), ~reported
    PROVE  source' = source /\ position' = position /\ endOfLinePos' = endOfLinePos
BY DEF Placed, copyChunkToDestFile

\* Whatever the source, as long as nothing has been reported: the reader of
\* macroExpansion.c is at the end of a line and at the position it counts; and between
\* the positions it has recorded are whole lines, none of which closes a definition.
THEOREM Reading == Spec => []IInv
<1>1. Init => IInv
  BY SourcesAssumption DEF Init, MacroInit, IInv, Placed, DefinitionOpen, Bodies, NoLine
<1>2. IInv /\ [Next]_vars => IInv'
  <2> SUFFICES ASSUME IInv, [Next]_vars PROVE IInv'
    OBVIOUS
  <2>1. CASE getNewLine
    BY <2>1, LineReadKeeps
  <2>2. CASE SkipLine
    BY <2>2, HandledLine DEF SkipLine, Handles, NextLine, fileVars
  <2>3. CASE RejectDefinition
    BY <2>3, HandledLine DEF RejectDefinition, Handles, NextLine, Reported, fileVars
  <2>4. CASE StartDefinition
    BY <2>4, DefinitionStarts
  <2>5. CASE DropClosing
    BY <2>5, HandledLine DEF DropClosing, Handles, NextLine, Reported, fileVars
  <2>6. CASE expandMacro
    <3>1. source' = source /\ (~reported => position' = position /\ endOfLinePos' = endOfLinePos)
      BY <2>6, ChunkCopied DEF expandMacro, copyChunkToDestFile, IInv
    <3> QED
      BY <2>6, <3>1, HandledLine DEF expandMacro, Handles, NextLine
  <2>7. CASE copyLine
    BY <2>7, HandledLine DEF copyLine, Handles, NextLine, fileVars
  <2>8. CASE BodyLine
    BY <2>8, BodyGrows
  <2>9. CASE DefineMacro
    BY <2>9, BodyRecorded
  <2>10. CASE FlushDefinition
    <3>1. source' = source /\ (~reported => position' = position /\ endOfLinePos' = endOfLinePos)
      BY <2>10, ChunkCopied DEF FlushDefinition, copyChunkToDestFile, IInv
    <3> QED
      BY <2>10, <3>1, HandledLine
         DEF FlushDefinition, ClosesDefinition, Handles, EndsDefinition
  <2>11. CASE Unterminated
    BY <2>11, HandledLine DEF Unterminated, Handles, EndsDefinition, Reported, fileVars
  <2>12. CASE PassNext /\ UNCHANGED macroVars
    <3>1. pc = "runFirstStage" /\ pc' # "getEndOfMacroPos" /\ (~reported' => ~reported)
      BY <2>12 DEF PassNext, DeliverLine, FlushInputLine
    <3> QED
      BY <2>12, <3>1 DEF macroVars, fileVars, IInv, Placed, DefinitionOpen, Bodies, AtLineEnd,
                         IsBody, NoClosing
  <2>13. CASE ExpansionEnds
    BY <2>13 DEF ExpansionEnds, macroVars, fileVars, IInv, Placed, DefinitionOpen, Bodies,
                 AtLineEnd, IsBody, NoClosing
  <2>14. CASE UNCHANGED vars
    BY <2>14 DEF vars, macroVars, fileVars, IInv, Placed, DefinitionOpen, Bodies, AtLineEnd,
                 NoClosing, LineFrom, TextBetween, IsBody
  <2> QED
    BY <2>1, <2>2, <2>3, <2>4, <2>5, <2>6, <2>7, <2>8, <2>9, <2>10, <2>11, <2>12, <2>13, <2>14
       DEF Next, MacroNext
<1> QED
  BY <1>1, <1>2, PTL DEF Spec

\* endOfLinePos, which the reader of macroExpansion.c counts and the copying of a macro
\* seeks back to, is the position of the source until an error is reported.
THEOREM PositionsTrueAlways == Spec => []PositionsTrue
<1>1. IInv => PositionsTrue
  BY DEF IInv, Placed, PositionsTrue
<1> QED
  BY <1>1, Reading, PTL

\* The body of every macro starts and ends behind a newline, holds no closing line and is
\* followed by one, until an error is reported: a call copies whole lines.
THEOREM BodiesAreWhole == Spec => []BodiesWhole
<1>1. IInv => BodiesWhole
  BY DEF IInv, Bodies, IsBody, NoClosing, BodiesWhole
<1> QED
  BY <1>1, Reading, PTL

-----------------------------------------------------------------------------
\* The types.

\* A part of a text is a text.
LEMMA PartType ==
    ASSUME NEW s \in Seq(Characters), NEW a \in Nat, NEW b \in Int, 0 < a, b <= Len(s)
    PROVE  SubSeq(s, a, b) \in Seq(Characters)
OBVIOUS

\* The length of a part.
LEMMA PartLength ==
    ASSUME NEW s \in Seq(Characters), NEW a \in 1..(Len(s) + 1), NEW b \in (a - 1)..Len(s)
    PROVE  Len(SubSeq(s, a, b)) = b - a + 1
OBVIOUS

\* The text of a line is one, and not longer.
LEMMA TextType ==
    ASSUME NEW s \in Seq(Characters)
    PROVE  Text(s) \in Seq(Characters) /\ Len(Text(s)) <= Len(s)
<1>1. CASE EndsInNewLine(s)
  <2>1. Len(s) \in Nat /\ Len(s) > 0
    BY <1>1 DEF EndsInNewLine
  <2>2. SubSeq(s, 1, Len(s) - 1) \in Seq(Characters)
    BY <2>1
  <2>3. Len(SubSeq(s, 1, Len(s) - 1)) <= Len(s)
    BY <2>1
  <2> QED
    BY <1>1, <2>2, <2>3 DEF Text
<1>2. CASE ~EndsInNewLine(s)
  BY <1>2 DEF Text
<1> QED
  BY <1>1, <1>2

\* What skipWhiteSpace leaves of a text is a text.
LEMMA SkipType ==
    ASSUME NEW s \in Seq(Characters)
    PROVE  skipWhiteSpace(s) \in Seq(Characters)
<1> DEFINE solid == {i \in 1..Len(s) : s[i] # Blank /\ \A j \in 1..(i - 1) : s[j] = Blank}
           n == CHOOSE i \in solid : TRUE
<1>1. CASE solid = {}
  <2>1. skipWhiteSpace(s) = <<>>
    BY <1>1 DEF skipWhiteSpace
  <2> QED
    BY <2>1
<1>2. CASE solid # {}
  <2>1. n \in 1..Len(s) /\ skipWhiteSpace(s) = SubSeq(s, n, Len(s))
    BY <1>2 DEF skipWhiteSpace
  <2> HIDE DEF n
  <2> QED
    BY <2>1, PartType
<1> QED
  BY <1>1, <1>2

\* A word is a text.
LEMMA FirstWordType ==
    ASSUME NEW s \in Seq(Characters)
    PROVE  FirstWord(s) \in Seq(Characters) /\ Len(FirstWord(s)) \in Nat
<1> DEFINE stop == {i \in 1..Len(s) : s[i] = Blank /\ \A j \in 1..(i - 1) : s[j] # Blank}
           n == CHOOSE i \in stop : TRUE
<1>1. CASE stop = {}
  BY <1>1 DEF FirstWord
<1>2. CASE stop # {}
  <2>1. n \in 1..Len(s) /\ FirstWord(s) = SubSeq(s, 1, n - 1)
    BY <1>2 DEF FirstWord
  <2> HIDE DEF n
  <2>2. n - 1 \in Int /\ n - 1 <= Len(s)
    BY <2>1
  <2>3. FirstWord(s) \in Seq(Characters)
    BY <2>1, <2>2, PartType
  <2> QED
    BY <2>3
<1> QED
  BY <1>1, <1>2

\* So is what follows it.
LEMMA AfterWordType ==
    ASSUME NEW s \in Seq(Characters)
    PROVE  AfterWord(s) \in Seq(Characters)
<1> DEFINE n == Len(FirstWord(s))
<1>1. n \in Nat
  BY FirstWordType
<1> HIDE DEF n
<1>2. n + 1 \in Nat /\ 0 < n + 1 /\ Len(s) \in Int /\ Len(s) <= Len(s)
  BY <1>1
<1>3. SubSeq(s, n + 1, Len(s)) \in Seq(Characters)
  BY <1>2, PartType
<1> QED
  BY <1>3, SkipType DEF AfterWord, n

\* The buffer stays one, however many characters are stored.
LEMMA FilledType ==
    ASSUME NEW buffer \in Buffer, NEW s \in Seq(Characters \cup {Nul})
    PROVE  Filled(buffer, s) \in Buffer
<1>1. ASSUME NEW c \in 1..(MaxLine + 1)
      PROVE  (IF c <= Len(s) THEN s[c] ELSE buffer[c]) \in Characters \cup {Nul, Garbage}
  <2>1. buffer[c] \in Characters \cup {Nul, Garbage}
    BY DEF Buffer
  <2>2. CASE c <= Len(s)
    <3>1. c \in 1..Len(s)
      BY <2>2, MaxLineAssumption
    <3>2. s[c] \in Characters \cup {Nul}
      BY <3>1
    <3> QED
      BY <2>2, <3>2
  <2> QED
    BY <2>1, <2>2
<1> QED
  BY <1>1 DEF Filled, Buffer

\* Characters the reader itself puts into a buffer or a file.
LEMMA CharactersAre ==
    /\ NewLine \in Characters /\ Blank \in Characters /\ NewLine \in Characters \cup {Nul}
    /\ Seq(Characters) \subseteq Seq(Characters \cup {Nul})
BY DEF Characters

\* The buffer the caller sees is one.
LEMMA ClosedType ==
    ASSUME NEW buffer \in Buffer, NEW s \in Seq(Characters), NEW kind
    PROVE  Closed(buffer, s, kind) \in Buffer
<1>1. s \in Seq(Characters \cup {Nul})
  BY CharactersAre
<1>2. s \o <<NewLine, Nul>> \in Seq(Characters \cup {Nul}) /\ s \o <<Nul>> \in Seq(Characters \cup {Nul})
  BY <1>1, CharactersAre
<1> QED
  BY <1>1, <1>2, FilledType DEF Closed, AfterLine

\* Whatever the reader finds, it counts at most what it reads, and reads at most what is there.
LEMMA ReadTypes ==
    ASSUME source \in Seq(Characters), position \in Nat, position <= Len(source),
           lineBuffer \in Buffer, NEW l \in getNewLineMacro
    PROVE  /\ l.kind \in LineKinds /\ l.text \in Seq(Characters)
           /\ l.read \in Nat /\ position + l.read <= Len(source)
           /\ l.counted \in 0..l.read
           /\ l.copied \in Seq(Characters)
           /\ l.buffer \in Buffer /\ l.error \in BOOLEAN
<1> DEFINE left == 0..(Len(source) - position)
<1>0. MaxLine \in Nat
  BY MaxLineAssumption
<1>1. \/ \E m \in left : MaxLine + m <= Len(source) - position /\ l = OverlongLine(m)
      \/ \E n \in left : l \in FittingLine(n)
  <2> DEFINE A == {FittingLine(m) : m \in {k \in left : k < MaxLine /\ IsLine(source, position, k)}}
  <2>1. l \in UNION A \/ \E m \in left : MaxLine + m <= Len(source) - position /\ l = OverlongLine(m)
    BY DEF getNewLineMacro
  <2>2. CASE l \in UNION A
    <3>1. PICK X \in A : l \in X
      BY <2>2
    <3> QED
      BY <3>1
  <2> QED
    BY <2>1, <2>2
<1>2. CASE \E n \in left : l \in FittingLine(n)
  <2>1. PICK n \in left : l \in FittingLine(n)
    BY <1>2
  <2> DEFINE r == Read(n)
             s == Cleaned(r)
  <2>2. PICK k \in Kinds(lineBuffer, s) :
           /\ l.kind = k /\ l.text = Text(s) /\ l.read = n /\ l.counted = n
           /\ l.copied = (IF k = "EMPTY_LINE" THEN s ELSE <<>>)
           /\ l.buffer = Closed(lineBuffer, s, k) /\ l.error = HasForeign(r)
    BY <2>1 DEF FittingLine
  <2>3. r \in Seq(Characters)
    <3>1. position + 1 \in Nat /\ 0 < position + 1 /\ position + n \in Int /\ position + n <= Len(source)
      BY <2>1
    <3> QED
      BY <3>1, PartType DEF Read
  <2>4. s \in Seq(Characters)
    BY <2>3, CleanedType
  <2>5. k \in LineKinds
    BY <2>2 DEF Kinds, LineKinds
  <2>6. l.text \in Seq(Characters)
    BY <2>2, <2>4, TextType
  <2>7. l.copied \in Seq(Characters)
    BY <2>2, <2>4
  <2>8. l.buffer \in Buffer
    BY <2>2, <2>4, ClosedType
  <2>9. l.error \in BOOLEAN
    BY <2>2 DEF HasForeign
  <2> HIDE DEF r, s
  <2> QED
    BY <2>1, <2>2, <2>5, <2>6, <2>7, <2>8, <2>9
<1>3. CASE \E m \in left : MaxLine + m <= Len(source) - position /\ l = OverlongLine(m)
  <2>1. PICK m \in left : MaxLine + m <= Len(source) - position /\ l = OverlongLine(m)
    BY <1>3
  <2> DEFINE h == Read(MaxLine)
             t == SubSeq(source, position + MaxLine + 1, position + MaxLine + m)
             head == Cleaned(h)
             tail == Cleaned(t)
  <2>2. /\ l.kind \in {"EMPTY_LINE", "STOP"} /\ l.text = <<>>
        /\ l.read = MaxLine + m /\ l.counted = MaxLine + Len(Text(tail))
        /\ l.copied = Text(head) \o tail
        /\ l.buffer = Filled(lineBuffer, head \o <<NewLine>>) /\ l.error = TRUE
    BY <2>1 DEF OverlongLine
  <2>3. h \in Seq(Characters)
    <3>1. /\ position + 1 \in Nat /\ 0 < position + 1
          /\ position + MaxLine \in Int /\ position + MaxLine <= Len(source)
      BY <1>0, <2>1
    <3> QED
      BY <3>1, PartType DEF Read
  <2>4. t \in Seq(Characters) /\ Len(t) = m
    <3>1. /\ position + MaxLine + 1 \in Nat /\ 0 < position + MaxLine + 1
          /\ position + MaxLine + m \in Int /\ position + MaxLine + m <= Len(source)
      BY <1>0, <2>1
    <3>2. t \in Seq(Characters)
      BY <3>1, PartType
    <3>3. /\ position + MaxLine + 1 \in 1..(Len(source) + 1)
          /\ position + MaxLine + m \in (position + MaxLine)..Len(source)
      BY <1>0, <2>1
    <3> DEFINE a == position + MaxLine + 1
               b == position + MaxLine + m
    <3>4. a \in 1..(Len(source) + 1) /\ b \in (a - 1)..Len(source) /\ b - a + 1 = m
      BY <1>0, <2>1
    <3>5. t = SubSeq(source, a, b)
      OBVIOUS
    <3> HIDE DEF t, a, b
    <3>6. Len(t) = b - a + 1
      BY <3>4, <3>5, PartLength
    <3> QED
      BY <3>2, <3>4, <3>6
  <2>5. head \in Seq(Characters) /\ tail \in Seq(Characters) /\ Len(tail) = m
    BY <2>3, <2>4, CleanedType
  <2> HIDE DEF h, t, head, tail
  <2>6. /\ Text(head) \in Seq(Characters)
        /\ Text(tail) \in Seq(Characters) /\ Len(Text(tail)) <= m /\ Len(Text(tail)) \in Nat
    BY <2>5, TextType
  <2>7. l.copied \in Seq(Characters)
    BY <2>2, <2>5, <2>6
  <2>8. l.buffer \in Buffer
    <3>1. head \o <<NewLine>> \in Seq(Characters \cup {Nul})
      BY <2>5, CharactersAre
    <3> QED
      BY <2>2, <3>1, FilledType
  <2>9. l.counted \in 0..l.read
    BY <1>0, <2>1, <2>2, <2>6
  <2>10. l.text \in Seq(Characters)
    BY <2>2
  <2>11. l.kind \in LineKinds
    BY <2>2 DEF LineKinds
  <2>12. l.read \in Nat /\ position + l.read <= Len(source)
    BY <1>0, <2>1, <2>2
  <2> QED
    BY <2>2, <2>7, <2>8, <2>9, <2>10, <2>11, <2>12
<1> QED
  BY <1>1, <1>2, <1>3

Control == {"runParseMacro", "getEndOfMacroPos", "parsed", "runFirstStage", "return"}
Definitions == [name : Seq(Characters), flush : BOOLEAN,
                start : Positions, first : 0..(Len(source) + 1), last : Positions]

\* A handled line leaves the source where it was read to, or goes back to where the code
\* takes it to be.
LEMMA HandledTypes ==
    ASSUME TypeOK, UNCHANGED <<source, endOfLinePos, lineBuffer>>,
           position' \in {position, endOfLinePos}, line' = NoLine, pc' \in Control,
           definition' \in Definitions,
           \A id \in DOMAIN macroTable' : macroTable'[id] \in [start : Positions, end : Positions],
           expanded' \in Seq(Characters), Len(expanded) <= Len(expanded'),
           createFiles' \in BOOLEAN, reported' \in BOOLEAN, UNCHANGED passVars
    PROVE  TypeOK'
<1>1. /\ source' = source /\ endOfLinePos' = endOfLinePos /\ lineBuffer' = lineBuffer
      /\ passPosition' = passPosition /\ passBuffer' = passBuffer /\ delivered' = delivered
  BY DEF passVars
<1>2. Positions' = Positions /\ Positions = 0..Len(source)
  BY <1>1 DEF Positions
<1>3. position \in 0..Len(source) /\ endOfLinePos \in 0..position /\ source \in Seq(Characters)
  BY <1>2 DEF TypeOK
<1>4. position' \in 0..Len(source) /\ endOfLinePos \in 0..position'
  BY <1>3
<1>5. line' \in [kind : LineKinds \cup {"none"}, text : Seq(Characters)]
  BY DEF NoLine
<1>6. passPosition \in 0..Len(expanded')
  BY DEF TypeOK
<1>7. lineBuffer \in Buffer /\ passBuffer \in Buffer /\ delivered \in Seq(Seq(Characters))
  BY DEF TypeOK
<1> QED
  BY <1>1, <1>2, <1>3, <1>4, <1>5, <1>6, <1>7 DEF TypeOK, Definitions, Control

\* What is written behind a file makes it no shorter.
LEMMA Longer ==
    ASSUME NEW s \in Seq(Characters), NEW t \in Seq(Characters)
    PROVE  s \o t \in Seq(Characters) /\ Len(s) <= Len(s \o t)
BY ConcatProperties

\* What a chunk adds is a part of the source.
LEMMA ChunkTypes ==
    ASSUME TypeOK, NEW first \in Nat, NEW last \in Positions, copyChunkToDestFile(first, last)
    PROVE  /\ expanded' \in Seq(Characters) /\ Len(expanded) <= Len(expanded')
           /\ position' = endOfLinePos /\ UNCHANGED <<source, endOfLinePos, lineBuffer>>
<1>1. source \in Seq(Characters) /\ expanded \in Seq(Characters)
  BY DEF TypeOK
<1>2. first + 1 \in Nat /\ 0 < first + 1 /\ last \in Int /\ last <= Len(source)
  BY <1>1 DEF Positions
<1> DEFINE chunk == SubSeq(source, first + 1, last)
<1>3. chunk \in Seq(Characters)
  BY <1>1, <1>2, PartType
<1> HIDE DEF chunk
<1>4. expanded' = expanded \o chunk
  BY DEF copyChunkToDestFile, chunk
<1>5. expanded \o chunk \in Seq(Characters) /\ Len(expanded) <= Len(expanded \o chunk)
  BY <1>1, <1>3, Longer
<1>6. expanded' \in Seq(Characters) /\ Len(expanded) <= Len(expanded')
  BY <1>4, <1>5, Zenon
<1> QED
  BY <1>6 DEF copyChunkToDestFile

\* The name of a macro is a text.
LEMMA MacroLabelType ==
    ASSUME NEW text \in Seq(Characters)
    PROVE  MacroLabel(text) \in Seq(Characters)
BY SkipType, AfterWordType, FirstWordType DEF MacroLabel

\* The reader of the first stage keeps the types.
LEMMA PassTypes ==
    ASSUME TypeOK, PassNext, UNCHANGED macroVars
    PROVE  TypeOK'
<1>1. /\ source' = source /\ position' = position /\ endOfLinePos' = endOfLinePos
      /\ lineBuffer' = lineBuffer /\ line' = line /\ definition' = definition
      /\ macroTable' = macroTable /\ expanded' = expanded
  BY DEF macroVars, fileVars
<1>2. /\ expanded \in Seq(Characters) /\ passPosition \in 0..Len(expanded)
      /\ passBuffer \in Buffer /\ delivered \in Seq(Seq(Characters))
      /\ createFiles \in BOOLEAN /\ reported \in BOOLEAN
  BY DEF TypeOK
<1>3. SUFFICES /\ passPosition' \in 0..Len(expanded) /\ passBuffer' \in Buffer
               /\ delivered' \in Seq(Seq(Characters)) /\ pc' \in Control
               /\ createFiles' \in BOOLEAN /\ reported' \in BOOLEAN
  BY <1>1 DEF TypeOK, Positions, Control
<1>4. ASSUME NEW n \in Left PROVE PassRead(n) \in Seq(Characters)
  <2>1. passPosition + 1 \in Nat /\ 0 < passPosition + 1 /\ passPosition + n \in Int
        /\ passPosition + n <= Len(expanded)
    BY <1>2 DEF Left
  <2> QED
    BY <1>2, <2>1, PartType DEF PassRead
<1>5. CASE DeliverLine
  <2>1. PICK n \in Left : \E kind \in Kinds(passBuffer, PassRead(n)) :
           /\ passPosition' = passPosition + n
           /\ passBuffer' = Closed(passBuffer, PassRead(n), kind)
           /\ delivered' \in {delivered, Append(delivered, Text(PassRead(n)))}
           /\ pc' \in {"return", pc} /\ pc = "runFirstStage"
           /\ createFiles' = createFiles /\ reported' = reported
    BY <1>5 DEF DeliverLine
  <2>2. passPosition' \in 0..Len(expanded)
    BY <1>2, <2>1 DEF Left
  <2>3. Text(PassRead(n)) \in Seq(Characters)
    BY <1>4, TextType
  <2>4. passBuffer' \in Buffer
    <3>1. \A kind : Closed(passBuffer, PassRead(n), kind) \in Buffer
      BY <1>2, <1>4, ClosedType
    <3> QED
      BY <2>1, <3>1
  <2>5. delivered' \in Seq(Seq(Characters))
    <3>1. Append(delivered, Text(PassRead(n))) \in Seq(Seq(Characters))
      BY <1>2, <2>3
    <3> QED
      BY <1>2, <2>1, <3>1
  <2> QED
    BY <1>2, <2>1, <2>2, <2>4, <2>5 DEF Control
<1>6. CASE FlushInputLine
  <2>1. PICK n \in Left \ {0}, m \in Left :
           /\ n + m \in Left /\ passPosition' = passPosition + n + m
           /\ passBuffer' = Filled(passBuffer, PassRead(n - 1))
           /\ pc' \in {"return", pc} /\ pc = "runFirstStage"
           /\ createFiles' = FALSE /\ reported' = TRUE /\ delivered' = delivered
    BY <1>6 DEF FlushInputLine
  <2>2. passPosition' \in 0..Len(expanded) /\ n - 1 \in Left
    BY <1>2, <2>1 DEF Left
  <2>3. PassRead(n - 1) \in Seq(Characters \cup {Nul})
    BY <1>4, <2>2, CharactersAre
  <2>4. passBuffer' \in Buffer
    BY <1>2, <2>1, <2>3, FilledType
  <2> QED
    BY <1>2, <2>1, <2>2, <2>4 DEF Control
<1> QED
  BY <1>5, <1>6 DEF PassNext

\* The reader of the expansion keeps the types.
LEMMA GetTypes ==
    ASSUME TypeOK, getNewLine, UNCHANGED passVars
    PROVE  TypeOK'
<1>1. /\ source \in Seq(Characters) /\ position \in 0..Len(source)
      /\ endOfLinePos \in 0..position /\ lineBuffer \in Buffer
      /\ expanded \in Seq(Characters) /\ passPosition \in 0..Len(expanded)
      /\ reported \in BOOLEAN
  BY DEF TypeOK, Positions
<1>2. position \in Nat /\ position <= Len(source)
  BY <1>1
<1>3. PICK l \in getNewLineMacro :
         /\ line' = [kind |-> l.kind, text |-> l.text]
         /\ position' = position + l.read
         /\ endOfLinePos' = endOfLinePos + l.counted
         /\ lineBuffer' = l.buffer
         /\ expanded' = expanded \o l.copied
         /\ reported' = (reported \/ l.error)
  BY DEF getNewLine
<1>4. /\ l.kind \in LineKinds /\ l.text \in Seq(Characters)
      /\ l.read \in Nat /\ position + l.read <= Len(source)
      /\ l.counted \in 0..l.read
      /\ l.copied \in Seq(Characters)
      /\ l.buffer \in Buffer /\ l.error \in BOOLEAN
  BY <1>1, <1>2, ReadTypes
<1> DEFINE r == l.read
           c == l.counted
           k == l.copied
<1>5. position + r \in 0..Len(source) /\ endOfLinePos + c \in 0..(position + r)
  <2>1. r \in Nat /\ position + r <= Len(source) /\ c \in 0..r
    BY <1>4
  <2> HIDE DEF r, c
  <2> QED
    BY <1>1, <2>1
<1>6. expanded' \in Seq(Characters) /\ passPosition \in 0..Len(expanded')
  <2>1. k \in Seq(Characters) /\ expanded' = expanded \o k
    BY <1>3, <1>4
  <2> HIDE DEF k
  <2>2. expanded \o k \in Seq(Characters) /\ Len(expanded) <= Len(expanded \o k)
    BY <1>1, <2>1, Longer
  <2>3. expanded' \in Seq(Characters) /\ Len(expanded) <= Len(expanded')
    BY <2>1, <2>2, Zenon
  <2> QED
    BY <1>1, <2>3
<1>7. line' \in [kind : LineKinds \cup {"none"}, text : Seq(Characters)]
  BY <1>3, <1>4
<1>8. /\ pc' = pc /\ source' = source /\ definition' = definition /\ macroTable' = macroTable
      /\ createFiles' = createFiles
      /\ passPosition' = passPosition /\ passBuffer' = passBuffer /\ delivered' = delivered
  BY DEF getNewLine, passVars
<1>9. reported' \in BOOLEAN /\ lineBuffer' \in Buffer
  BY <1>1, <1>3, <1>4
<1>10. position' \in 0..Len(source) /\ endOfLinePos' \in 0..position'
  BY <1>3, <1>5
<1> HIDE DEF r, c, k
<1> QED
  BY <1>6, <1>7, <1>8, <1>9, <1>10 DEF TypeOK, Positions

\* Every variable keeps its type, on every source and after any errors: no position is
\* outside its file, and the counted one is never ahead of the one the file is at.
THEOREM ReadingTypes == Spec => []TypeOK
<1>1. Init => TypeOK
  <2> SUFFICES ASSUME Init PROVE TypeOK
    OBVIOUS
  <2>1. /\ source \in Seq(Characters) /\ position = 0 /\ endOfLinePos = 0
        /\ lineBuffer = EmptyBuffer /\ line = NoLine /\ definition = NoDefinition
        /\ macroTable = <<>> /\ expanded = <<>>
        /\ passPosition = 0 /\ passBuffer = EmptyBuffer /\ delivered = <<>>
        /\ pc = "runParseMacro" /\ createFiles = TRUE /\ reported = FALSE
    BY SourcesAssumption DEF Init, MacroInit, PassInit
  <2>2. EmptyBuffer \in Buffer
    BY DEF EmptyBuffer, Buffer
  <2>3. 0 \in Positions /\ 0 \in 0..(Len(source) + 1)
    BY <2>1 DEF Positions
  <2>4. <<>> \in Seq(Characters) /\ <<>> \in Seq(Seq(Characters)) /\ Len(<<>>) = 0 /\ DOMAIN <<>> = {}
    OBVIOUS
  <2>5. line \in [kind : LineKinds \cup {"none"}, text : Seq(Characters)]
    BY <2>1, <2>4 DEF NoLine
  <2>6. definition \in [name : Seq(Characters), flush : BOOLEAN,
                       start : Positions, first : 0..(Len(source) + 1), last : Positions]
    BY <2>1, <2>3, <2>4 DEF NoDefinition
  <2>7. \A id \in DOMAIN macroTable : macroTable[id] \in [start : Positions, end : Positions]
    BY <2>1, <2>4
  <2>8. expanded \in Seq(Characters) /\ passPosition \in 0..Len(expanded)
    BY <2>1, <2>4
  <2> QED
    BY <2>1, <2>2, <2>3, <2>4, <2>5, <2>6, <2>7, <2>8 DEF TypeOK
<1>2. TypeOK /\ [Next]_vars => TypeOK'
  <2> SUFFICES ASSUME TypeOK, [Next]_vars PROVE TypeOK'
    OBVIOUS
  <2>1. /\ source \in Seq(Characters) /\ definition \in Definitions
        /\ \A id \in DOMAIN macroTable : macroTable[id] \in [start : Positions, end : Positions]
        /\ expanded \in Seq(Characters) /\ Len(expanded) <= Len(expanded)
        /\ createFiles \in BOOLEAN /\ reported \in BOOLEAN
        /\ line.text \in Seq(Characters)
        /\ endOfLinePos \in Positions
    BY DEF TypeOK, Definitions, Positions
  <2>2. pc \in Control
    BY DEF TypeOK, Control
  <2>3. NoDefinition \in Definitions
    <3>1. 0 \in Positions /\ 0 \in 0..(Len(source) + 1)
      BY <2>1 DEF Positions
    <3> QED
      BY <3>1 DEF NoDefinition, Definitions
  <2>4. CASE getNewLine /\ UNCHANGED passVars
    BY <2>4, GetTypes
  <2>5. CASE SkipLine /\ UNCHANGED passVars
    BY <2>1, <2>5, HandledTypes DEF SkipLine, Handles, NextLine, fileVars, Control
  <2>6. CASE RejectDefinition /\ UNCHANGED passVars
    BY <2>1, <2>6, HandledTypes DEF RejectDefinition, Handles, NextLine, Reported, fileVars, Control
  <2>7. CASE StartDefinition /\ UNCHANGED passVars
    <3>1. getValidMacroLabel(line.text) \in BOOLEAN
      BY DEF getValidMacroLabel, ValidLabel
    <3>2. MacroLabel(line.text) \in Seq(Characters)
      BY <2>1, MacroLabelType
    <3>3. endOfLinePos + 1 \in 0..(Len(source) + 1)
      BY <2>1 DEF Positions
    <3>4. definition' \in Definitions
      BY <2>1, <2>7, <3>1, <3>2, <3>3 DEF StartDefinition, Definitions
    <3> QED
      BY <2>1, <2>7, <3>1, <3>4, HandledTypes DEF StartDefinition, Handles, Reported, fileVars, Control
  <2>8. CASE DropClosing /\ UNCHANGED passVars
    BY <2>1, <2>8, HandledTypes DEF DropClosing, Handles, NextLine, Reported, fileVars, Control
  <2>9. CASE expandMacro /\ UNCHANGED passVars
    <3> DEFINE body == macroTable[Ident(MacroCall(line.text))]
    <3>1. body.start \in Positions /\ body.end \in Positions
      BY <2>1, <2>9 DEF expandMacro, isMacroCall
    <3>2. copyChunkToDestFile(body.start, body.end)
      BY <2>9 DEF expandMacro
    <3> HIDE DEF body
    <3>3. body.start \in Nat
      BY <2>1, <3>1 DEF Positions
    <3>4. /\ expanded' \in Seq(Characters) /\ Len(expanded) <= Len(expanded')
          /\ position' = endOfLinePos /\ UNCHANGED <<source, endOfLinePos, lineBuffer>>
      BY <3>1, <3>2, <3>3, ChunkTypes
    <3> QED
      BY <2>1, <2>9, <3>4, HandledTypes DEF expandMacro, Handles, NextLine, Control
  <2>10. CASE copyLine /\ UNCHANGED passVars
    <3> DEFINE end == IF line.kind = "SUCCESS" THEN <<NewLine>> ELSE <<>>
               more == expanded \o line.text
    <3>1. end \in Seq(Characters)
      BY CharactersAre
    <3>2. more \in Seq(Characters) /\ Len(expanded) <= Len(more)
      BY <2>1, Longer
    <3>3. expanded' = more \o end
      BY <2>10 DEF copyLine
    <3> HIDE DEF end, more
    <3>4. more \o end \in Seq(Characters) /\ Len(more) <= Len(more \o end)
      BY <3>1, <3>2, Longer
    <3>5. expanded' \in Seq(Characters) /\ Len(more) <= Len(expanded')
      BY <3>3, <3>4, Zenon
    <3>6. Len(expanded) <= Len(expanded')
      BY <2>1, <3>2, <3>5
    <3> QED
      BY <2>1, <2>10, <3>5, <3>6, HandledTypes DEF copyLine, Handles, NextLine, fileVars, Control
  <2>11. CASE BodyLine /\ UNCHANGED passVars
    <3>1. definition' \in Definitions
      BY <2>1, <2>11 DEF BodyLine, Definitions
    <3> QED
      BY <2>1, <2>2, <2>11, <3>1, HandledTypes DEF BodyLine, Handles, fileVars
  <2>12. CASE DefineMacro /\ UNCHANGED passVars
    <3>1. \A id \in DOMAIN macroTable' : macroTable'[id] \in [start : Positions, end : Positions]
      <4>1. definition.start \in Positions /\ definition.last \in Positions
        BY <2>1 DEF Definitions
      <4>2. macroTable' = Inserted(definition.name, definition.start, definition.last)
        BY <2>12 DEF DefineMacro
      <4> QED
        BY <2>1, <4>1, <4>2 DEF Inserted
    <3>2. reported' \in BOOLEAN /\ createFiles' \in BOOLEAN
      BY <2>1, <2>12 DEF DefineMacro, Reported, EndsDefinition
    <3> QED
      BY <2>1, <2>3, <2>12, <3>1, <3>2, HandledTypes
         DEF DefineMacro, ClosesDefinition, Handles, EndsDefinition, fileVars, Control
  <2>13. CASE FlushDefinition /\ UNCHANGED passVars
    <3>1. definition.first \in Nat /\ definition.last \in Positions
      BY <2>1 DEF Definitions
    <3>2. /\ expanded' \in Seq(Characters) /\ Len(expanded) <= Len(expanded')
          /\ position' = endOfLinePos /\ UNCHANGED <<source, endOfLinePos, lineBuffer>>
      BY <2>13, <3>1, ChunkTypes DEF FlushDefinition
    <3> QED
      BY <2>1, <2>3, <2>13, <3>2, HandledTypes
         DEF FlushDefinition, ClosesDefinition, Handles, EndsDefinition, Control
  <2>14. CASE Unterminated /\ UNCHANGED passVars
    BY <2>1, <2>3, <2>14, HandledTypes
       DEF Unterminated, Handles, EndsDefinition, Reported, fileVars, Control
  <2>15. CASE PassNext /\ UNCHANGED macroVars
    BY <2>15, PassTypes
  <2>16. CASE ExpansionEnds
    BY <2>16 DEF ExpansionEnds, macroVars, passVars, fileVars, TypeOK, Positions
  <2>17. CASE UNCHANGED vars
    BY <2>17 DEF vars, macroVars, passVars, fileVars, TypeOK, Positions
  <2> QED
    BY <2>4, <2>5, <2>6, <2>7, <2>8, <2>9, <2>10, <2>11, <2>12, <2>13, <2>14, <2>15, <2>16, <2>17
       DEF Next, MacroNext
<1> QED
  BY <1>1, <1>2, PTL DEF Spec

-----------------------------------------------------------------------------
\* The verdict of the line reader.

\* The line at a position does not fit the buffer.
TooLong(p) ==
    /\ p + MaxLine <= Len(expanded)
    /\ \A i \in 1..(MaxLine - 1) : expanded[p + i] # NewLine

\* All that is before a position, and the lines that start there, can be read.
ReadableTo(p) ==
    /\ \A i \in 1..p : expanded[i] # Foreign
    /\ \A q \in 0..(p - 1) : StartsLine(expanded, q) => ~TooLong(q)

\* What has been read of the .am file decides the verdict, line after line.
VerdictInv ==
    /\ pc \notin {"runFirstStage", "return"} => passPosition = 0
    /\ pc = "runFirstStage" => StartsLine(expanded, passPosition) /\ (createFiles \/ passPosition > 0)
    /\ pc = "return" /\ createFiles => passPosition = Len(expanded)
    /\ createFiles => ReadableTo(passPosition)
    /\ ~createFiles /\ passPosition > 0 => IsUnreadable(expanded)

\* The characters of a part, and whether it ends in a newline.
LEMMA PartElements ==
    ASSUME NEW s \in Seq(Characters), NEW p \in Nat, NEW n \in 0..(Len(s) - p)
    PROVE  /\ Len(SubSeq(s, p + 1, p + n)) = n
           /\ \A i \in 1..n : SubSeq(s, p + 1, p + n)[i] = s[p + i]
           /\ EndsInNewLine(SubSeq(s, p + 1, p + n)) <=> n > 0 /\ s[p + n] = NewLine
<1> DEFINE t == SubSeq(s, p + 1, p + n)
<1>1. t \in Seq(Characters)
  <2>1. p + 1 \in Nat /\ 0 < p + 1 /\ p + n \in Int /\ p + n <= Len(s)
    OBVIOUS
  <2> QED
    BY <2>1, PartType
<1>2. Len(t) = n
  <2> DEFINE a == p + 1
             b == p + n
  <2>1. a \in 1..(Len(s) + 1) /\ b \in (a - 1)..Len(s) /\ b - a + 1 = n
    <3>1. CASE n > 0
      BY <3>1
    <3>2. CASE n = 0
      BY <3>2
    <3> QED
      BY <3>1, <3>2
  <2>2. t = SubSeq(s, a, b)
    OBVIOUS
  <2> HIDE DEF t, a, b
  <2>3. Len(t) = b - a + 1
    BY <2>1, <2>2, PartLength
  <2> QED
    BY <2>1, <2>3
<1>3. ASSUME NEW i \in 1..n PROVE t[i] = s[p + i]
  <2>1. p + 1 + i - 1 = p + i /\ i \in 1..(p + n - (p + 1) + 1)
    OBVIOUS
  <2>2. t[i] = s[p + 1 + i - 1]
    BY <2>1
  <2> QED
    BY <2>1, <2>2
<1>4. EndsInNewLine(t) <=> n > 0 /\ s[p + n] = NewLine
  <2>1. t # <<>> <=> n > 0
    BY <1>1, <1>2
  <2>2. n > 0 => t[Len(t)] = s[p + n]
    <3>1. SUFFICES ASSUME n > 0 PROVE t[Len(t)] = s[p + n]
      OBVIOUS
    <3>2. n \in 1..n
      BY <3>1
    <3> HIDE DEF t
    <3> QED
      BY <1>2, <1>3, <3>2
  <2> HIDE DEF t
  <2> QED
    BY <2>1, <2>2 DEF EndsInNewLine
<1> QED
  BY <1>2, <1>3, <1>4

\* A line that was read is neither too long, nor does another start inside it.
LEMMA LineReadable ==
    ASSUME NEW p \in Nat, NEW n \in 0..(Len(expanded) - p), expanded \in Seq(Characters),
           IsLine(expanded, p, n), n < MaxLine, ReadableTo(p),
           \A i \in 1..n : expanded[p + i] # Foreign
    PROVE  ReadableTo(p + n)
<1>1. ASSUME NEW i \in 1..(p + n) PROVE expanded[i] # Foreign
  <2>1. CASE i \in 1..p
    BY <2>1 DEF ReadableTo
  <2>2. CASE i \notin 1..p
    <3>1. i - p \in 1..n /\ p + (i - p) = i
      BY <2>2
    <3>2. expanded[p + (i - p)] # Foreign
      BY <3>1
    <3> QED
      BY <3>1, <3>2
  <2> QED
    BY <2>1, <2>2
<1>2. ASSUME NEW q \in 0..(p + n - 1), StartsLine(expanded, q) PROVE ~TooLong(q)
  <2>1. CASE q \in 0..(p - 1)
    BY <1>2, <2>1 DEF ReadableTo
  <2>2. CASE q = p
    <3>1. CASE p + n = Len(expanded)
      BY <2>2, <3>1, MaxLineAssumption DEF TooLong
    <3>2. CASE n > 0 /\ expanded[p + n] = NewLine
      <4>1. n \in 1..(MaxLine - 1)
        BY <3>2, MaxLineAssumption
      <4> QED
        BY <2>2, <3>2, <4>1 DEF TooLong
    <3> QED
      BY <3>1, <3>2 DEF IsLine
  <2>3. CASE q > p
    <3>1. q - p \in 1..(n - 1) /\ p + (q - p) = q /\ q # 0
      BY <2>3
    <3>2. expanded[p + (q - p)] # NewLine
      BY <3>1 DEF IsLine
    <3> QED
      BY <1>2, <3>1, <3>2 DEF StartsLine
  <2> QED
    BY <2>1, <2>2, <2>3
<1> QED
  BY <1>1, <1>2 DEF ReadableTo

\* A line that fits and is all ASCII leaves the verdict right.
LEMMA LineDelivered ==
    ASSUME TypeOK, VerdictInv, DeliverLine, UNCHANGED macroVars
    PROVE  VerdictInv'
<1>1. /\ expanded' = expanded /\ createFiles' = createFiles /\ pc = "runFirstStage"
      /\ expanded \in Seq(Characters) /\ passPosition \in 0..Len(expanded)
      /\ createFiles \in BOOLEAN
  BY DEF macroVars, DeliverLine, TypeOK
<1> DEFINE p == passPosition
<1>2. PICK n \in Left : \E kind \in Kinds(passBuffer, PassRead(n)) :
         /\ n < MaxLine /\ IsLine(expanded, p, n)
         /\ ~HasForeign(PassRead(n))
         /\ passPosition' = p + n
         /\ pc' = IF kind \in {"STOP", "LAST_LINE"} THEN "return" ELSE pc
  BY DEF DeliverLine
<1>3. p \in Nat /\ n \in 0..(Len(expanded) - p)
  BY <1>1, <1>2 DEF Left
<1>4. /\ Len(PassRead(n)) = n
      /\ \A i \in 1..n : PassRead(n)[i] = expanded[p + i]
      /\ EndsInNewLine(PassRead(n)) <=> n > 0 /\ expanded[p + n] = NewLine
  BY <1>1, <1>3, PartElements DEF PassRead
<1>5. /\ pc' = pc => EndsInNewLine(PassRead(n))
      /\ pc' = "return" => ~EndsInNewLine(PassRead(n))
      /\ pc' \in {pc, "return"}
  BY <1>1, <1>2 DEF Kinds
<1>6. \A i \in 1..n : expanded[p + i] # Foreign
  BY <1>2, <1>4 DEF HasForeign
<1>7. createFiles => ReadableTo(p + n)
  BY <1>1, <1>2, <1>3, <1>6, LineReadable DEF VerdictInv
<1>8. pc' = pc => StartsLine(expanded, p + n)
  BY <1>4, <1>5 DEF StartsLine
<1>9. pc' = "return" => p + n = Len(expanded)
  BY <1>2, <1>4, <1>5 DEF IsLine
<1>10. /\ ~createFiles /\ p + n > 0 => IsUnreadable(expanded)
       /\ createFiles \/ p + n > 0
  BY <1>1, <1>3 DEF VerdictInv
<1>11. ReadableTo(passPosition)' <=> ReadableTo(p + n)
  BY <1>1, <1>2 DEF ReadableTo, TooLong
<1> HIDE DEF p
<1> QED
  BY <1>1, <1>2, <1>5, <1>7, <1>8, <1>9, <1>10, <1>11 DEF VerdictInv

\* A line that is flushed is one that cannot be read.
LEMMA LineFlushed ==
    ASSUME TypeOK, VerdictInv, FlushInputLine, UNCHANGED macroVars
    PROVE  VerdictInv'
<1>1. /\ expanded' = expanded /\ createFiles' = FALSE /\ pc = "runFirstStage"
      /\ expanded \in Seq(Characters) /\ passPosition \in 0..Len(expanded)
      /\ createFiles \in BOOLEAN
  BY DEF macroVars, FlushInputLine, TypeOK
<1> DEFINE p == passPosition
<1>2. PICK n \in Left \ {0}, m \in Left :
         /\ n <= MaxLine /\ Unreadable(n) /\ n + m \in Left
         /\ passPosition' = p + n + m
         /\ pc' = IF EndsInNewLine(SubSeq(expanded, p + n + 1, p + n + m)) THEN pc ELSE "return"
  BY DEF FlushInputLine
<1>3. /\ p \in Nat /\ n \in Nat /\ n > 0 /\ m \in Nat /\ p + n + m <= Len(expanded)
      /\ StartsLine(expanded, p)
  BY <1>1, <1>2 DEF Left, VerdictInv
<1>4. IsUnreadable(expanded)
  <2>1. CASE n = MaxLine
    <3>1. p \in 0..(Len(expanded) - MaxLine)
      BY <1>3, <2>1, MaxLineAssumption
    <3>2. \A i \in 1..(MaxLine - 1) : expanded[p + i] # NewLine
      BY <1>2, <2>1 DEF Unreadable
    <3> QED
      BY <1>3, <3>1, <3>2 DEF IsUnreadable
  <2>2. CASE n < MaxLine /\ expanded[p + n] = Foreign
    <3>1. p + n \in 1..Len(expanded)
      BY <1>3
    <3> QED
      BY <2>2, <3>1 DEF IsUnreadable, HasForeign
  <2> QED
    BY <1>2, <2>1, <2>2 DEF Unreadable
<1>5. pc' = pc => StartsLine(expanded, p + n + m)
  <2> DEFINE a == p + n
  <2>1. a \in Nat /\ m \in 0..(Len(expanded) - a)
    BY <1>3
  <2>2. EndsInNewLine(SubSeq(expanded, a + 1, a + m)) => expanded[a + m] = NewLine
    BY <1>1, <2>1, PartElements
  <2> QED
    BY <1>1, <1>2, <2>2 DEF StartsLine
<1>6. pc' \in {pc, "return"} /\ passPosition' > 0
  BY <1>1, <1>2, <1>3
<1> QED
  BY <1>1, <1>2, <1>4, <1>5, <1>6 DEF VerdictInv

\* The expansion reads no line of the .am file, whatever it writes.
LEMMA ExpansionReadsNothing ==
    ASSUME TypeOK, VerdictInv, MacroNext, UNCHANGED passVars
    PROVE  VerdictInv'
<1>1. pc \in {"runParseMacro", "getEndOfMacroPos"}
      /\ pc' \in {"runParseMacro", "getEndOfMacroPos", "parsed"}
  BY DEF MacroNext, getNewLine, SkipLine, RejectDefinition, StartDefinition, DropClosing, expandMacro,
         copyLine, BodyLine, DefineMacro, FlushDefinition, Unterminated, Handles, NextLine,
         ClosesDefinition, EndsDefinition
<1>2. passPosition' = 0
  BY <1>1 DEF passVars, VerdictInv
<1> QED
  BY <1>1, <1>2 DEF VerdictInv, ReadableTo

\* What the first stage has read so far is readable, or the source is rejected.
THEOREM Verdict == Spec => []VerdictInv
<1>1. Init => VerdictInv
  BY DEF Init, MacroInit, PassInit, VerdictInv, ReadableTo
<1>2. TypeOK /\ VerdictInv /\ [Next]_vars => VerdictInv'
  <2> SUFFICES ASSUME TypeOK, VerdictInv, [Next]_vars PROVE VerdictInv'
    OBVIOUS
  <2>1. CASE MacroNext /\ UNCHANGED passVars
    BY <2>1, ExpansionReadsNothing
  <2>2. CASE PassNext /\ UNCHANGED macroVars
    BY <2>2, LineDelivered, LineFlushed DEF PassNext
  <2>3. CASE ExpansionEnds
    <3>1. /\ pc = "parsed" /\ passPosition' = passPosition /\ expanded' = expanded
          /\ createFiles' = createFiles /\ passPosition = 0
          /\ pc' = IF createFiles THEN "runFirstStage" ELSE "return"
      BY <2>3 DEF ExpansionEnds, passVars, macroVars, VerdictInv
    <3> QED
      BY <3>1 DEF VerdictInv, ReadableTo, StartsLine
  <2>4. CASE UNCHANGED vars
    BY <2>4 DEF vars, passVars, macroVars, VerdictInv, ReadableTo, TooLong
  <2> QED
    BY <2>1, <2>2, <2>3, <2>4 DEF Next
<1> QED
  BY <1>1, <1>2, ReadingTypes, PTL DEF Spec

\* For every source that is not rejected by the expansion, whatever was copied, was too long for
\* it or came out of a macro: the reader of the first stage rejects the .am file exactly if
\* it has a line that cannot be read.
THEOREM VerdictIsExact == Spec => []VerdictExact
<1>1. TypeOK /\ VerdictInv => VerdictExact
  <2> SUFFICES ASSUME TypeOK, VerdictInv, pc = "return", createFiles, IsUnreadable(expanded)
               PROVE  FALSE
    BY DEF VerdictExact, VerdictInv, TypeOK
  <2>1. ReadableTo(Len(expanded)) /\ expanded \in Seq(Characters)
    BY DEF VerdictInv, TypeOK
  <2>2. ~HasForeign(expanded)
    BY <2>1 DEF ReadableTo, HasForeign
  <2>3. PICK q \in 0..(Len(expanded) - MaxLine) :
           StartsLine(expanded, q) /\ \A i \in 1..(MaxLine - 1) : expanded[q + i] # NewLine
    BY <2>2 DEF IsUnreadable
  <2>4. q \in 0..(Len(expanded) - 1) /\ q + MaxLine <= Len(expanded)
    BY <2>1, MaxLineAssumption
  <2> QED
    BY <2>1, <2>3, <2>4 DEF ReadableTo, TooLong
<1> QED
  BY <1>1, Verdict, ReadingTypes, PTL

-----------------------------------------------------------------------------
(* The statements of a file.  No induction over the file: a statement is    *)
(* told by the rank of the position it starts at.                           *)

\* A set of natural numbers that is not empty has a least element.
LEMMA LeastNatural ==
    ASSUME NEW T \in SUBSET Nat, T # {}
    PROVE  \E m \in T : \A k \in T : m <= k
<1> DEFINE R == OpToRel(<, Nat)
<1>1. IsWellFoundedOn(R, Nat)
  BY NatLessThanWellFounded, Zenon
<1>2. \A x, y \in Nat : <<y, x>> \in R <=> y < x
  BY DEF OpToRel
<1> HIDE DEF R
<1>3. \E x \in T : \A y \in T : ~ (<<y, x>> \in R)
  BY <1>1, WFMin, Zenon
<1>4. PICK m \in T : \A k \in T : ~ (<<k, m>> \in R)
  BY <1>3
<1>5. \A k \in T : ~ (k < m)
  BY <1>2, <1>4
<1> QED
  BY <1>4, <1>5

\* How many elements a set has up to p.
Rank(S, p) == Cardinality({q \in S : q <= p})

\* The rank of an element of a finite set of numbers tells it from the others, and every
\* number up to the size of the set is the rank of one.
LEMMA Ranks ==
    ASSUME NEW S \in SUBSET Nat, IsFiniteSet(S)
    PROVE  /\ Cardinality(S) \in Nat
           /\ \A p \in S : Rank(S, p) \in 1..Cardinality(S)
           /\ \A p, q \in S : Rank(S, p) = Rank(S, q) => p = q
           /\ \A k \in 1..Cardinality(S) : \E p \in S : Rank(S, p) = k
<1> DEFINE Up(p) == {q \in S : q <= p}
           rank == [p \in S |-> Rank(S, p)]
<1>1. Cardinality(S) \in Nat
  BY FS_CardinalityType
<1>2. ASSUME NEW p \in S
      PROVE  IsFiniteSet(Up(p)) /\ Cardinality(Up(p)) \in 1..Cardinality(S)
  <2>1. Up(p) \in SUBSET S
    OBVIOUS
  <2>2. IsFiniteSet(Up(p)) /\ Cardinality(Up(p)) <= Cardinality(S)
    BY <2>1, FS_Subset
  <2>3. p \in Up(p)
    OBVIOUS
  <2>4. Cardinality(Up(p)) \in Nat /\ Cardinality(Up(p)) # 0
    <3>1. Up(p) # {}
      BY <2>3
    <3> HIDE DEF Up
    <3> QED
      BY <2>2, <3>1, FS_CardinalityType, FS_EmptySet
  <2> HIDE DEF Up
  <2> QED
    BY <1>1, <2>2, <2>4
<1>3. ASSUME NEW p \in S, NEW q \in S, p < q
      PROVE  Cardinality(Up(p)) # Cardinality(Up(q))
  <2>1. Up(p) \in SUBSET Up(q) /\ q \in Up(q) /\ q \notin Up(p)
    <3>1. p \in Nat /\ q \in Nat /\ \A r \in S : r \in Nat
      OBVIOUS
    <3>2. \A r \in S : r <= p => r <= q
      BY <1>3, <3>1
    <3>3. q <= q /\ ~(q <= p)
      BY <1>3, <3>1
    <3> QED
      BY <3>2, <3>3
  <2>2. Up(p) # Up(q)
    BY <2>1
  <2>3. IsFiniteSet(Up(q))
    BY <1>2
  <2> HIDE DEF Up
  <2> QED
    BY <2>1, <2>2, <2>3, FS_Subset
<1>4. \A p, q \in S : Rank(S, p) = Rank(S, q) => p = q
  BY <1>3 DEF Rank
<1>5. \A p \in S : Rank(S, p) \in 1..Cardinality(S)
  BY <1>2 DEF Rank
<1>6. rank \in Injection(S, 1..Cardinality(S))
  BY <1>4, <1>5 DEF Injection, IsInjective
<1>7. IsFiniteSet(1..Cardinality(S)) /\ Cardinality(1..Cardinality(S)) = Cardinality(S)
  BY <1>1, FS_Interval
<1>8. rank \in Surjection(S, 1..Cardinality(S))
  <2> HIDE DEF rank
  <2> QED
    BY <1>6, <1>7, FS_Injection
<1>9. \A k \in 1..Cardinality(S) : \E p \in S : Rank(S, p) = k
  BY <1>8 DEF Surjection
<1> QED
  BY <1>1, <1>4, <1>5, <1>9

\* The element of a rank is the one that has it.
LEMMA NthOfRank ==
    ASSUME NEW S \in SUBSET Nat, IsFiniteSet(S)
    PROVE  /\ \A k \in 1..Cardinality(S) : Nth(S, k) \in S /\ Rank(S, Nth(S, k)) = k
           /\ \A p \in S : Nth(S, Rank(S, p)) = p
<1>1. ASSUME NEW k \in 1..Cardinality(S)
      PROVE  Nth(S, k) \in S /\ Rank(S, Nth(S, k)) = k
  <2>1. \E p \in S : Cardinality({q \in S : q <= p}) = k
    BY Ranks DEF Rank
  <2> QED
    BY <2>1 DEF Nth, Rank
<1>2. ASSUME NEW p \in S
      PROVE  Nth(S, Rank(S, p)) = p
  <2> DEFINE k == Rank(S, p)
  <2>1. k \in 1..Cardinality(S)
    BY Ranks
  <2> HIDE DEF k
  <2>2. Nth(S, k) \in S /\ Rank(S, Nth(S, k)) = Rank(S, p)
    BY <1>1, <2>1 DEF k
  <2>3. \A x, y \in S : Rank(S, x) = Rank(S, y) => x = y
    BY Ranks
  <2>4. Nth(S, k) = p
    BY <2>2, <2>3
  <2> QED
    BY <2>4 DEF k
<1> QED
  BY <1>1, <1>2

\* From every position of a file there is a line.
LEMMA LineExists ==
    ASSUME NEW file \in Seq(Characters), NEW p \in 0..Len(file)
    PROVE  \E n \in 0..(Len(file) - p) : IsLine(file, p, n)
<1> DEFINE T == {i \in 1..(Len(file) - p) : file[p + i] = NewLine}
<1>1. CASE T = {}
  <2> DEFINE n == Len(file) - p
  <2>1. n \in 0..(Len(file) - p) /\ p + n = Len(file)
    OBVIOUS
  <2>2. \A i \in 1..(Len(file) - p) : file[p + i] # NewLine
    BY <1>1
  <2>3. \A i \in 1..(n - 1) : i \in 1..(Len(file) - p)
    OBVIOUS
  <2>4. IsLine(file, p, n)
    BY <2>1, <2>2, <2>3 DEF IsLine
  <2> QED
    BY <2>1, <2>4
<1>2. CASE T # {}
  <2>1. T \in SUBSET Nat
    OBVIOUS
  <2>2. PICK m \in T : \A k \in T : m <= k
    BY <1>2, <2>1, LeastNatural
  <2>3. m \in 0..(Len(file) - p) /\ m > 0 /\ file[p + m] = NewLine
    BY <2>2
  <2>4. \A i \in 1..(m - 1) : file[p + i] # NewLine
    <3> SUFFICES ASSUME NEW i \in 1..(m - 1), file[p + i] = NewLine PROVE FALSE
      OBVIOUS
    <3>1. i \in T
      BY <2>3
    <3>2. m <= i
      BY <2>2, <3>1
    <3> HIDE DEF T
    <3> QED
      BY <2>3, <3>2
  <2>5. IsLine(file, p, m)
    BY <2>3, <2>4 DEF IsLine
  <2> QED
    BY <2>3, <2>5
<1> QED
  BY <1>1, <1>2

\* Adding a number to the elements of a set of numbers does not change its size.
LEMMA ShiftedSize ==
    ASSUME NEW T \in SUBSET Nat, IsFiniteSet(T), NEW n \in Nat
    PROVE  IsFiniteSet({n + q : q \in T}) /\ Cardinality({n + q : q \in T}) = Cardinality(T)
<1> DEFINE U == {n + q : q \in T}
           f == [q \in T |-> n + q]
<1>1. f \in [T -> U]
  OBVIOUS
<1>2. \A q, r \in T : f[q] = f[r] => q = r
  OBVIOUS
<1>3. \A u \in U : \E q \in T : f[q] = u
  OBVIOUS
<1>4. f \in Bijection(T, U)
  BY <1>1, <1>2, <1>3, Fun_IsBij DEF Bijection, Injection, Surjection, IsInjective
<1>5. ExistsBijection(T, U)
  BY <1>4 DEF ExistsBijection
<1> HIDE DEF U
<1> QED
  BY <1>5, FS_Bijection DEF U

\* U is the set S of numbers below n and the set T, n further on.
IsBehind(S, n, T, U) ==
    /\ \A p \in S : p < n
    /\ \A u : u \in U <=> u \in S \/ \E q \in T : u = n + q

\* The ranks in a set of numbers and another one behind it.
LEMMA JoinedRanks ==
    ASSUME NEW S \in SUBSET Nat, IsFiniteSet(S), NEW T \in SUBSET Nat, IsFiniteSet(T),
           NEW U \in SUBSET Nat, IsFiniteSet(U), NEW n \in Nat, IsBehind(S, n, T, U)
    PROVE  /\ Cardinality(U) = Cardinality(S) + Cardinality(T)
           /\ \A p \in S : Rank(U, p) = Rank(S, p)
           /\ \A q \in T : Rank(U, n + q) = Cardinality(S) + Rank(T, q)
<1> USE DEF IsBehind
<1>1. ASSUME NEW R \in SUBSET T
      PROVE  /\ IsFiniteSet(S \cup {n + q : q \in R})
             /\ Cardinality(S \cup {n + q : q \in R}) = Cardinality(S) + Cardinality(R)
  <2> DEFINE V == {n + q : q \in R}
  <2>1. IsFiniteSet(R) /\ R \in SUBSET Nat
    BY FS_Subset
  <2>2. IsFiniteSet(V) /\ Cardinality(V) = Cardinality(R)
    BY <2>1, ShiftedSize
  <2>3. S \cap V = {}
    <3>1. \A q \in R : q \in Nat /\ ~(n + q < n)
      OBVIOUS
    <3> QED
      BY <3>1
  <2> HIDE DEF V
  <2>4. Cardinality(S \cap V) = 0
    BY <2>3, FS_EmptySet
  <2>5. Cardinality(S) \in Nat /\ Cardinality(V) \in Nat
    BY <2>2, FS_CardinalityType
  <2>6. /\ IsFiniteSet(S \cup V)
        /\ Cardinality(S \cup V) = Cardinality(S) + Cardinality(V) - Cardinality(S \cap V)
    BY <2>2, FS_Union
  <2>7. Cardinality(S \cup V) = Cardinality(S) + Cardinality(V)
    BY <2>4, <2>5, <2>6
  <2> QED
    BY <2>2, <2>6, <2>7 DEF V
<1>0. U = S \cup {n + q : q \in T}
  OBVIOUS
<1>3. Cardinality(U) = Cardinality(S) + Cardinality(T)
  BY <1>0, <1>1, Zenon
<1>4. ASSUME NEW p \in S
      PROVE  Rank(U, p) = Rank(S, p)
  <2>1. p \in Nat /\ p < n
    OBVIOUS
  <2>2. \A q \in T : ~(n + q <= p)
    BY <2>1
  <2>3. {q \in U : q <= p} = {q \in S : q <= p}
    BY <1>0, <2>2
  <2> QED
    BY <2>3 DEF Rank
<1>5. ASSUME NEW q \in T
      PROVE  Rank(U, n + q) = Cardinality(S) + Rank(T, q)
  <2> DEFINE R == {r \in T : r <= q}
  <2>1. \A p \in S : p <= n + q
    OBVIOUS
  <2>2. \A r \in T : n + r <= n + q <=> r <= q
    OBVIOUS
  <2>3. {u \in U : u <= n + q} = S \cup {n + r : r \in R}
    BY <1>0, <2>1, <2>2
  <2>4. Cardinality(S \cup {n + r : r \in R}) = Cardinality(S) + Cardinality(R)
    BY <1>1, Zenon
  <2> QED
    BY <2>3, <2>4, Zenon DEF Rank
<1> QED
  BY <1>3, <1>4, <1>5

\* The sequence StatementsOf stands for.
LEMMA StatementsAre ==
    ASSUME NEW file
    PROVE  StatementsOf(file) = LinesAt(file, StatementStarts(file))
<1> DEFINE starts == StatementStarts(file)
           A == {LinesAt(f, s) : f \in {file}, s \in {starts}}
<1>1. LinesAt(file, starts) \in A
  <2>1. file \in {file} /\ starts \in {starts}
    OBVIOUS
  <2> QED
    BY <2>1
<1>2. \A x \in A : x = LinesAt(file, starts)
  OBVIOUS
<1>3. (CHOOSE lines \in A : TRUE) = LinesAt(file, starts)
  <2> HIDE DEF A
  <2> QED
    BY <1>1, <1>2
<1> QED
  BY <1>3 DEF StatementsOf

\* The positions statements start at.
LEMMA StartsType ==
    ASSUME NEW file \in Seq(Characters)
    PROVE  /\ StatementStarts(file) \in SUBSET Nat /\ IsFiniteSet(StatementStarts(file))
           /\ \A p \in StatementStarts(file) : p < Len(file)
<1>1. StatementStarts(file) \in SUBSET (0..(Len(file) - 1))
  BY DEF StatementStarts
<1>2. IsFiniteSet(0..(Len(file) - 1))
  BY FS_Interval
<1>3. IsFiniteSet(StatementStarts(file))
  BY <1>1, <1>2, FS_Subset
<1> QED
  BY <1>1, <1>3

\* A line is the same wherever it is.
LEMMA SameLine ==
    ASSUME NEW a \in Seq(Characters), NEW c \in Seq(Characters), NEW p \in Nat, NEW r \in Nat,
           NEW k \in 0..(Len(a) - p), r + k <= Len(c),
           \A i \in 1..k : a[p + i] = c[r + i],
           IsLine(a, p, k), p + k = Len(a) => IsLine(c, r, k)
    PROVE  LineAt(a, p) = LineAt(c, r)
<1> DEFINE s == SubSeq(a, p + 1, p + k)
           t == SubSeq(c, r + 1, r + k)
<1>1. s \in Seq(Characters) /\ t \in Seq(Characters)
  BY PartType
<1>2. Len(s) = k /\ \A i \in 1..k : s[i] = a[p + i]
  BY PartElements
<1>3. k \in 0..(Len(c) - r)
  OBVIOUS
<1>4. Len(t) = k /\ \A i \in 1..k : t[i] = c[r + i]
  BY <1>3, PartElements
<1>5. s = t
  <2> HIDE DEF s, t
  <2>1. \A i \in 1..k : s[i] = t[i]
    BY <1>2, <1>4
  <2> QED
    BY <1>1, <1>2, <1>4, <2>1, SeqEqual
<1>6. IsLine(c, r, k)
  <2>1. CASE p + k # Len(a)
    <3>1. k > 0 /\ a[p + k] = NewLine /\ \A i \in 1..(k - 1) : a[p + i] # NewLine
      BY <2>1 DEF IsLine
    <3>2. \A i \in 1..(k - 1) : i \in 1..k
      OBVIOUS
    <3>4. k \in 1..k
      BY <3>1
    <3>5. c[r + k] = NewLine
      BY <3>1, <3>4
    <3>3. c[r + k] = NewLine /\ \A i \in 1..(k - 1) : c[r + i] # NewLine
      BY <3>1, <3>2, <3>5
    <3> QED
      BY <3>1, <3>3 DEF IsLine
  <2> QED
    BY <2>1
<1>7. LineAt(a, p) = Text(Cleaned(s))
  <2>1. (p + k) - p = k /\ p <= p + k /\ p + k <= Len(a) /\ p + k \in Nat
    OBVIOUS
  <2> QED
    BY <2>1, LineAtRead
<1>8. LineAt(c, r) = Text(Cleaned(t))
  <2>1. (r + k) - r = k /\ r <= r + k /\ r + k <= Len(c) /\ r + k \in Nat
    OBVIOUS
  <2> QED
    BY <1>6, <2>1, LineAtRead
<1> QED
  BY <1>5, <1>7, <1>8, Zenon

\* The file c is the file a with b behind it.
IsJoined(a, b, c) ==
    /\ Len(c) = Len(a) + Len(b)
    /\ \A i \in 1..Len(a) : c[i] = a[i]
    /\ \A i \in 1..Len(b) : c[Len(a) + i] = b[i]

\* Behind a newline the lines are those of the two files.
LEMMA JoinedLines ==
    ASSUME NEW a \in Seq(Characters), NEW b \in Seq(Characters), NEW c \in Seq(Characters),
           IsJoined(a, b, c), EndsInNewLine(a)
    PROVE  /\ \A p \in 0..(Len(a) - 1) :
                 LineAt(c, p) = LineAt(a, p) /\ (StartsLine(c, p) <=> StartsLine(a, p))
           /\ \A q \in 0..(Len(b) - 1) :
                 LineAt(c, Len(a) + q) = LineAt(b, q) /\ (StartsLine(c, Len(a) + q) <=> StartsLine(b, q))
<1>1. Len(a) \in Nat /\ Len(b) \in Nat /\ Len(a) > 0 /\ a[Len(a)] = NewLine /\ c[Len(a)] = NewLine
  BY DEF EndsInNewLine, IsJoined
<1>2. ASSUME NEW p \in 0..(Len(a) - 1)
      PROVE  LineAt(c, p) = LineAt(a, p) /\ (StartsLine(c, p) <=> StartsLine(a, p))
  <2>0. p \in Nat /\ p \in 0..Len(a)
    BY <1>1
  <2>1. PICK k \in 0..(Len(a) - p) : IsLine(a, p, k)
    BY <2>0, LineExists
  <2>2. \A i \in 1..k : p + i \in 1..Len(a)
    BY <1>1
  <2>3. \A i \in 1..k : a[p + i] = c[p + i]
    BY <2>2 DEF IsJoined
  <2>4. p + k <= Len(c)
    BY <1>1 DEF IsJoined
  <2>5. p + k = Len(a) => IsLine(c, p, k)
    <3>1. SUFFICES ASSUME p + k = Len(a) PROVE IsLine(c, p, k)
      OBVIOUS
    <3>2. k > 0 /\ c[p + k] = NewLine
      BY <1>1, <3>1
    <3>3. \A i \in 1..(k - 1) : i \in 1..k
      OBVIOUS
    <3>4. \A i \in 1..(k - 1) : c[p + i] # NewLine
      BY <2>1, <2>3, <3>3 DEF IsLine
    <3> QED
      BY <3>2, <3>4 DEF IsLine
  <2>6. LineAt(a, p) = LineAt(c, p)
    BY <2>0, <2>1, <2>3, <2>4, <2>5, SameLine
  <2>7. p = 0 \/ p \in 1..Len(a)
    BY <1>1
  <2>8. StartsLine(c, p) <=> StartsLine(a, p)
    BY <2>7 DEF StartsLine, IsJoined
  <2> QED
    BY <2>6, <2>8
<1>3. ASSUME NEW q \in 0..(Len(b) - 1)
      PROVE  LineAt(c, Len(a) + q) = LineAt(b, q) /\ (StartsLine(c, Len(a) + q) <=> StartsLine(b, q))
  <2> DEFINE r == Len(a) + q
  <2>0. q \in Nat /\ q \in 0..Len(b)
    BY <1>1
  <2>1. PICK k \in 0..(Len(b) - q) : IsLine(b, q, k)
    BY <2>0, LineExists
  <2>2. \A i \in 1..k : q + i \in 1..Len(b) /\ Len(a) + (q + i) = r + i
    BY <1>1
  <2>3. \A i \in 1..k : b[q + i] = c[r + i]
    BY <2>2 DEF IsJoined
  <2>4. r \in Nat /\ r + k <= Len(c)
    BY <1>1 DEF IsJoined
  <2>5. q + k = Len(b) => IsLine(c, r, k)
    <3>1. SUFFICES ASSUME q + k = Len(b) PROVE IsLine(c, r, k)
      OBVIOUS
    <3>2. r + k = Len(c)
      <4>1. Len(c) = Len(a) + Len(b)
        BY DEF IsJoined
      <4>2. Len(a) \in Nat /\ q \in Int /\ k \in Int
        BY <1>1
      <4> QED
        BY <3>1, <4>1, <4>2
    <3>3. \A i \in 1..(k - 1) : i \in 1..k
      OBVIOUS
    <3>4. \A i \in 1..(k - 1) : c[r + i] # NewLine
      BY <2>1, <2>3, <3>3 DEF IsLine
    <3> QED
      BY <3>2, <3>4 DEF IsLine
  <2>6. LineAt(b, q) = LineAt(c, r)
    <3> HIDE DEF r
    <3> QED
      BY <2>0, <2>1, <2>3, <2>4, <2>5, SameLine
  <2>7. StartsLine(c, r) <=> StartsLine(b, q)
    <3>1. CASE q = 0
      BY <1>1, <3>1 DEF StartsLine
    <3>2. CASE q # 0
      <4>1. q \in 1..Len(b) /\ r # 0
        BY <1>1, <3>2
      <4> QED
        BY <3>2, <4>1 DEF StartsLine, IsJoined
    <3> QED
      BY <3>1, <3>2
  <2> QED
    BY <2>6, <2>7
<1> QED
  BY <1>2, <1>3

\* A line is a text.
LEMMA LineAtType ==
    ASSUME NEW file \in Seq(Characters), NEW p \in 0..Len(file)
    PROVE  LineAt(file, p) \in Seq(Characters)
<1>1. PICK k \in 0..(Len(file) - p) : IsLine(file, p, k)
  BY LineExists
<1> DEFINE s == SubSeq(file, p + 1, p + k)
<1>2. s \in Seq(Characters)
  BY PartType
<1>3. LineAt(file, p) = Text(Cleaned(s))
  <2>1. (p + k) - p = k /\ p <= p + k /\ p + k <= Len(file) /\ p + k \in Nat /\ p \in Nat
    OBVIOUS
  <2> QED
    BY <1>1, <2>1, LineAtRead
<1> HIDE DEF s
<1>4. Text(Cleaned(s)) \in Seq(Characters)
  BY <1>2, CleanedType, TextType
<1> QED
  BY <1>3, <1>4

\* The statements are texts, as many as there are positions at which one starts.
LEMMA StatementsType ==
    ASSUME NEW file \in Seq(Characters)
    PROVE  /\ StatementsOf(file) \in Seq(Seq(Characters))
           /\ Cardinality(StatementStarts(file)) \in Nat
           /\ Len(StatementsOf(file)) = Cardinality(StatementStarts(file))
           /\ \A k \in 1..Cardinality(StatementStarts(file)) :
                 StatementsOf(file)[k] = LineAt(file, Nth(StatementStarts(file), k))
<1> DEFINE S == StatementStarts(file)
           n == Cardinality(S)
<1>1. S \in SUBSET Nat /\ IsFiniteSet(S) /\ \A p \in S : p < Len(file)
  BY StartsType
<1>2. n \in Nat
  BY <1>1, Ranks
<1>3. ASSUME NEW k \in 1..n PROVE LineAt(file, Nth(S, k)) \in Seq(Characters)
  <2> DEFINE p == Nth(S, k)
  <2> HIDE DEF S
  <2>1. p \in S
    BY <1>1, NthOfRank
  <2>2. p \in 0..Len(file)
    <3> HIDE DEF p
    <3> QED
      BY <1>1, <2>1
  <2> HIDE DEF p
  <2>3. LineAt(file, p) \in Seq(Characters)
    BY <2>2, LineAtType
  <2> QED
    BY <2>3 DEF p
<1> HIDE DEF n
<1>4. StatementsOf(file) = [k \in 1..n |-> LineAt(file, Nth(S, k))]
  BY StatementsAre DEF LinesAt, n
<1> HIDE DEF S
<1>5. StatementsOf(file) \in Seq(Seq(Characters)) /\ Len(StatementsOf(file)) = n
  BY <1>2, <1>3, <1>4
<1>6. \A k \in 1..n : StatementsOf(file)[k] = LineAt(file, Nth(S, k))
  BY <1>4
<1> QED
  BY <1>2, <1>5, <1>6 DEF n, S

\* In the order of their positions: the statement that starts at p is the one of its rank.
LEMMA StatementOfRank ==
    ASSUME NEW file \in Seq(Characters), NEW p \in StatementStarts(file)
    PROVE  /\ Rank(StatementStarts(file), p) \in 1..Len(StatementsOf(file))
           /\ StatementsOf(file)[Rank(StatementStarts(file), p)] = LineAt(file, p)
<1> DEFINE S == StatementStarts(file)
           k == Rank(S, p)
<1>1. S \in SUBSET Nat /\ IsFiniteSet(S)
  BY StartsType
<1>2. k \in 1..Cardinality(S) /\ Nth(S, k) = p
  <2> HIDE DEF S
  <2> QED
    BY <1>1, Ranks, NthOfRank DEF S
<1> HIDE DEF k
<1>3. StatementsOf(file)[k] = LineAt(file, Nth(S, k)) /\ Len(StatementsOf(file)) = Cardinality(S)
  BY <1>2, StatementsType
<1> QED
  BY <1>2, <1>3 DEF k

\* Every statement is the line at the position of its rank.
LEMMA RankOfStatement ==
    ASSUME NEW file \in Seq(Characters), NEW k \in 1..Len(StatementsOf(file))
    PROVE  \E p \in StatementStarts(file) :
              Rank(StatementStarts(file), p) = k /\ StatementsOf(file)[k] = LineAt(file, p)
<1> DEFINE S == StatementStarts(file)
<1>1. S \in SUBSET Nat /\ IsFiniteSet(S)
  BY StartsType
<1>2. k \in 1..Cardinality(S)
  BY StatementsType
<1>3. PICK p \in S : Rank(S, p) = k
  <2> HIDE DEF S
  <2> QED
    BY <1>1, <1>2, Ranks
<1>4. StatementsOf(file)[k] = LineAt(file, p)
  BY <1>3, StatementOfRank
<1> QED
  BY <1>3, <1>4

\* The positions at which the statements of a joined file start.
LEMMA JoinedStarts ==
    ASSUME NEW a \in Seq(Characters), NEW b \in Seq(Characters), NEW c \in Seq(Characters),
           IsJoined(a, b, c), EndsInNewLine(a)
    PROVE  \A p : p \in StatementStarts(c) <=>
              p \in StatementStarts(a) \/ \E q \in StatementStarts(b) : p = Len(a) + q
<1>1. Len(a) \in Nat /\ Len(b) \in Nat /\ Len(c) = Len(a) + Len(b)
  BY DEF IsJoined
<1>2. ASSUME NEW p \in StatementStarts(c)
      PROVE  p \in StatementStarts(a) \/ \E q \in StatementStarts(b) : p = Len(a) + q
  <2>1. p \in 0..(Len(c) - 1) /\ StartsLine(c, p) /\ IsStatement(LineAt(c, p))
    BY DEF StatementStarts
  <2>2. CASE p < Len(a)
    <3>1. p \in 0..(Len(a) - 1)
      BY <1>1, <2>1, <2>2
    <3> QED
      BY <2>1, <3>1, JoinedLines DEF StatementStarts
  <2>3. CASE ~(p < Len(a))
    <3> DEFINE q == p - Len(a)
    <3>1. q \in 0..(Len(b) - 1) /\ p = Len(a) + q
      BY <1>1, <2>1, <2>3
    <3> HIDE DEF q
    <3>2. LineAt(c, p) = LineAt(b, q) /\ (StartsLine(c, p) <=> StartsLine(b, q))
      BY <3>1, JoinedLines
    <3>3. q \in StatementStarts(b)
      BY <2>1, <3>1, <3>2 DEF StatementStarts
    <3> QED
      BY <3>1, <3>3
  <2> QED
    BY <2>2, <2>3
<1>3. ASSUME NEW p \in StatementStarts(a) PROVE p \in StatementStarts(c)
  <2>1. p \in 0..(Len(a) - 1) /\ StartsLine(a, p) /\ IsStatement(LineAt(a, p))
    BY DEF StatementStarts
  <2>2. p \in 0..(Len(c) - 1)
    BY <1>1, <2>1
  <2>3. LineAt(c, p) = LineAt(a, p) /\ (StartsLine(c, p) <=> StartsLine(a, p))
    BY <2>1, JoinedLines
  <2> QED
    BY <2>1, <2>2, <2>3 DEF StatementStarts
<1>4. ASSUME NEW q \in StatementStarts(b) PROVE Len(a) + q \in StatementStarts(c)
  <2>1. q \in 0..(Len(b) - 1) /\ StartsLine(b, q) /\ IsStatement(LineAt(b, q))
    BY DEF StatementStarts
  <2>2. Len(a) + q \in 0..(Len(c) - 1)
    BY <1>1, <2>1
  <2>3. LineAt(c, Len(a) + q) = LineAt(b, q) /\ (StartsLine(c, Len(a) + q) <=> StartsLine(b, q))
    BY <2>1, JoinedLines
  <2> QED
    BY <2>1, <2>2, <2>3 DEF StatementStarts
<1> QED
  BY <1>2, <1>3, <1>4

\* No file, no statements.
LEMMA NoStatements == StatementsOf(<<>>) = <<>>
<1> DEFINE e == <<>>
<1>1. e \in Seq(Characters) /\ Len(e) = 0
  OBVIOUS
<1>2. StatementStarts(e) = {}
  <2>1. \A p : p \notin 0..(Len(e) - 1)
    BY <1>1
  <2> QED
    BY <2>1 DEF StatementStarts
<1>3. Cardinality({}) = 0
  BY FS_EmptySet
<1>4. Len(StatementsOf(e)) = 0 /\ StatementsOf(e) \in Seq(Seq(Characters))
  BY <1>1, <1>2, <1>3, StatementsType
<1> QED
  BY <1>4

\* The statements of two files joined behind a newline are those of the one and then those
\* of the other.
LEMMA StatementsJoin ==
    ASSUME NEW a \in Seq(Characters), NEW b \in Seq(Characters),
           a = <<>> \/ b = <<>> \/ EndsInNewLine(a)
    PROVE  StatementsOf(a \o b) = StatementsOf(a) \o StatementsOf(b)
<1>1. StatementsOf(a) \in Seq(Seq(Characters)) /\ StatementsOf(b) \in Seq(Seq(Characters))
  BY StatementsType
<1>2. CASE a = <<>>
  <2>1. a \o b = b
    BY <1>2, ConcatEmptySeq
  <2>2. <<>> \o StatementsOf(b) = StatementsOf(b)
    BY <1>1, ConcatEmptySeq
  <2> QED
    BY <1>2, <2>1, <2>2, NoStatements
<1>3. CASE b = <<>>
  <2>1. a \o b = a
    BY <1>3, ConcatEmptySeq
  <2>2. StatementsOf(a) \o <<>> = StatementsOf(a)
    BY <1>1, ConcatEmptySeq
  <2> QED
    BY <1>3, <2>1, <2>2, NoStatements
<1>4. CASE EndsInNewLine(a)
  <2> DEFINE c == a \o b
             A == StatementStarts(a)
             B == StatementStarts(b)
             C == StatementStarts(c)
             n == Len(a)
             s == StatementsOf(a)
             t == StatementsOf(b)
             u == StatementsOf(c)
  <2>1. c \in Seq(Characters) /\ IsJoined(a, b, c)
    BY ConcatProperties DEF IsJoined
  <2>2. n \in Nat /\ Len(b) \in Nat
    OBVIOUS
  <2>3. A \in SUBSET Nat /\ IsFiniteSet(A) /\ \A p \in A : p < n
    BY StartsType
  <2>4. B \in SUBSET Nat /\ IsFiniteSet(B)
    BY StartsType
  <2> HIDE DEF c
  <2>5. \A p : p \in C <=> p \in A \/ \E q \in B : p = n + q
    BY <1>4, <2>1, JoinedStarts
  <2>6. s \in Seq(Seq(Characters)) /\ t \in Seq(Seq(Characters)) /\ u \in Seq(Seq(Characters))
    BY <2>1, StatementsType
  <2>7. Len(s) = Cardinality(A) /\ Len(t) = Cardinality(B) /\ Len(u) = Cardinality(C)
    BY <2>1, StatementsType
  <2>8. \A p \in A : p \in 0..(n - 1) /\ p \in C /\ LineAt(c, p) = LineAt(a, p)
    <3>1. \A p \in A : p \in 0..(n - 1)
      BY DEF StatementStarts
    <3>2. \A p \in 0..(n - 1) : LineAt(c, p) = LineAt(a, p)
      BY <1>4, <2>1, JoinedLines
    <3> QED
      BY <2>5, <3>1, <3>2
  <2>9. \A q \in B : n + q \in C /\ LineAt(c, n + q) = LineAt(b, q)
    <3>1. \A q \in B : q \in 0..(Len(b) - 1)
      BY DEF StatementStarts
    <3>2. \A q \in 0..(Len(b) - 1) : LineAt(c, n + q) = LineAt(b, q)
      BY <1>4, <2>1, JoinedLines
    <3> QED
      BY <2>5, <3>1, <3>2
  <2>10. \A k \in 1..Len(s) : \E p \in A : Rank(A, p) = k /\ s[k] = LineAt(a, p)
    BY RankOfStatement
  <2>11. \A k \in 1..Len(t) : \E q \in B : Rank(B, q) = k /\ t[k] = LineAt(b, q)
    BY RankOfStatement
  <2>12. \A p \in C : u[Rank(C, p)] = LineAt(c, p)
    BY <2>1, StatementOfRank
  <2>13. C \in SUBSET Nat /\ IsFiniteSet(C)
    BY <2>1, StartsType
  <2> HIDE DEF A, B, C, n, s, t, u
  <2>14. IsBehind(A, n, B, C)
    BY <2>3, <2>5 DEF IsBehind
  <2>15. /\ Cardinality(C) = Cardinality(A) + Cardinality(B)
         /\ \A p \in A : Rank(C, p) = Rank(A, p)
         /\ \A q \in B : Rank(C, n + q) = Cardinality(A) + Rank(B, q)
    BY <2>2, <2>3, <2>4, <2>13, <2>14, JoinedRanks
  <2>16. Len(s) \in Nat /\ Len(t) \in Nat /\ Len(u) = Len(s) + Len(t)
    BY <2>6, <2>7, <2>15
  <2>17. ASSUME NEW k \in 1..Len(s) PROVE u[k] = s[k]
    <3>1. PICK p \in A : Rank(A, p) = k /\ s[k] = LineAt(a, p)
      BY <2>10
    <3> QED
      BY <2>8, <2>12, <2>15, <3>1
  <2>18. ASSUME NEW k \in 1..Len(t) PROVE u[Len(s) + k] = t[k]
    <3>1. PICK q \in B : Rank(B, q) = k /\ t[k] = LineAt(b, q)
      BY <2>11
    <3>2. Rank(C, n + q) = Len(s) + k
      BY <2>7, <2>15, <3>1
    <3> QED
      BY <2>9, <2>12, <3>1, <3>2
  <2> DEFINE v == s \o t
  <2>19. v \in Seq(Seq(Characters)) /\ Len(v) = Len(s) + Len(t)
         /\ \A i \in 1..(Len(s) + Len(t)) : v[i] = IF i <= Len(s) THEN s[i] ELSE t[i - Len(s)]
    BY <2>6, ConcatProperties
  <2> HIDE DEF v
  <2>20. \A i \in 1..Len(u) : u[i] = v[i]
    <3> SUFFICES ASSUME NEW i \in 1..Len(u) PROVE u[i] = v[i]
      OBVIOUS
    <3>1. CASE i <= Len(s)
      <4>1. i \in 1..Len(s) /\ i \in 1..(Len(s) + Len(t))
        BY <2>16, <3>1
      <4> QED
        BY <2>17, <2>19, <3>1, <4>1
    <3>2. CASE ~(i <= Len(s))
      <4> DEFINE k == i - Len(s)
      <4>1. k \in 1..Len(t) /\ i = Len(s) + k /\ i \in 1..(Len(s) + Len(t))
        BY <2>16, <3>2
      <4>2. v[i] = t[k]
        BY <2>19, <3>2, <4>1
      <4> HIDE DEF k
      <4> QED
        BY <2>18, <4>1, <4>2
    <3> QED
      BY <3>1, <3>2
  <2>21. u = v
    BY <2>6, <2>16, <2>19, <2>20, SeqEqual
  <2> QED
    BY <2>21 DEF u, v, s, t, c
<1> QED
  BY <1>2, <1>3, <1>4

-----------------------------------------------------------------------------
(* What the readers return for a line, and what it says.                    *)

\* The i-th character of s is its first that is not blank.
IsSolid(s, i) == i \in 1..Len(s) /\ s[i] # Blank /\ \A j \in 1..(i - 1) : s[j] = Blank

\* What skipWhiteSpace leaves starts with the first character that is not blank, if there
\* is one.
LEMMA Skipped ==
    ASSUME NEW s \in Seq(Characters)
    PROVE  /\ \A i : IsSolid(s, i) => skipWhiteSpace(s) # <<>> /\ skipWhiteSpace(s)[1] = s[i]
           /\ skipWhiteSpace(s) # <<>> => \E i : IsSolid(s, i)
<1> DEFINE solid == {i \in 1..Len(s) : s[i] # Blank /\ \A j \in 1..(i - 1) : s[j] = Blank}
<1>1. ASSUME NEW i, IsSolid(s, i), NEW k, IsSolid(s, k) PROVE i = k
  <2>1. i \in Nat /\ k \in Nat /\ i >= 1 /\ k >= 1
    BY <1>1 DEF IsSolid
  <2>2. ~(i < k)
    BY <1>1, <2>1 DEF IsSolid
  <2>3. ~(k < i)
    BY <1>1, <2>1 DEF IsSolid
  <2> QED
    BY <2>1, <2>2, <2>3
<1>2. \A i : i \in solid <=> IsSolid(s, i)
  BY DEF IsSolid
<1>3. ASSUME NEW i, IsSolid(s, i)
      PROVE  skipWhiteSpace(s) # <<>> /\ skipWhiteSpace(s)[1] = s[i]
  <2>1. solid # {}
    BY <1>2, <1>3
  <2>2. (CHOOSE k \in solid : TRUE) = i
    <3> HIDE DEF solid
    <3> QED
      BY <1>1, <1>2, <1>3, <2>1
  <2>3. skipWhiteSpace(s) = SubSeq(s, i, Len(s))
    BY <2>1, <2>2 DEF skipWhiteSpace
  <2>4. i \in 1..Len(s)
    BY <1>3 DEF IsSolid
  <2>5. SubSeq(s, i, Len(s)) # <<>> /\ SubSeq(s, i, Len(s))[1] = s[i]
    BY <2>4
  <2> QED
    BY <2>3, <2>5
<1>4. ASSUME skipWhiteSpace(s) # <<>> PROVE \E i : IsSolid(s, i)
  <2>1. solid # {}
    BY <1>4 DEF skipWhiteSpace
  <2> QED
    BY <1>2, <2>1
<1> QED
  BY <1>3, <1>4

\* A statement is a text whose first character that is not blank does not start a comment.
LEMMA StatementIs ==
    ASSUME NEW s \in Seq(Characters)
    PROVE  IsStatement(s) <=> \E i : IsSolid(s, i) /\ s[i] # Comment
BY Skipped DEF IsStatement

\* A text with a character that is not blank has a first one.
LEMMA SolidExists ==
    ASSUME NEW s \in Seq(Characters), NEW n \in 1..Len(s), s[n] # Blank
    PROVE  \E i \in 1..n : IsSolid(s, i)
<1> DEFINE T == {i \in 1..Len(s) : s[i] # Blank}
<1>1. T \in SUBSET Nat /\ n \in T
  OBVIOUS
<1>2. PICK m \in T : \A k \in T : m <= k
  <2> HIDE DEF T
  <2> QED
    BY <1>1, LeastNatural
<1>3. m \in 1..n /\ s[m] # Blank
  BY <1>1, <1>2
<1>4. \A j \in 1..(m - 1) : s[j] = Blank
  BY <1>2
<1> QED
  BY <1>3, <1>4 DEF IsSolid

\* The text of a line: its characters, all but the newline.
LEMMA TextIs ==
    ASSUME NEW s \in Seq(Characters)
    PROVE  /\ Text(s) \in Seq(Characters)
           /\ Len(Text(s)) = IF EndsInNewLine(s) THEN Len(s) - 1 ELSE Len(s)
           /\ \A i \in 1..Len(Text(s)) : Text(s)[i] = s[i]
<1>1. CASE ~EndsInNewLine(s)
  BY <1>1 DEF Text
<1>2. CASE EndsInNewLine(s)
  <2> DEFINE n == Len(s) - 1
             t == SubSeq(s, 0 + 1, 0 + n)
  <2>1. n \in 0..(Len(s) - 0) /\ 0 \in Nat
    BY <1>2 DEF EndsInNewLine
  <2>2. t = Text(s)
    BY <1>2 DEF Text
  <2>3. Len(t) = n /\ \A i \in 1..n : t[i] = s[0 + i]
    <3> HIDE DEF n
    <3> QED
      BY <2>1, PartElements
  <2>4. Text(s) \in Seq(Characters)
    BY TextType
  <2> HIDE DEF t
  <2> QED
    BY <1>2, <2>1, <2>2, <2>3, <2>4
<1> QED
  BY <1>1, <1>2

\* What the kind the two readers return for a line tells of it: with a newline, if it is a
\* statement; without, that it is none if it is taken for the end of the file.
LEMMA KindsTell ==
    ASSUME NEW s \in Seq(Characters), \A i \in 1..(Len(s) - 1) : s[i] # NewLine,
           NEW buffer, NEW kind \in Kinds(buffer, s)
    PROVE  /\ EndsInNewLine(s) =>
                 kind \in {"SUCCESS", "EMPTY_LINE"} /\ (kind = "SUCCESS" <=> IsStatement(Text(s)))
           /\ ~EndsInNewLine(s) =>
                 kind \in {"STOP", "LAST_LINE"} /\ (kind = "STOP" => ~IsStatement(Text(s)))
<1> DEFINE t == Text(s)
<1>1. t \in Seq(Characters) /\ \A i \in 1..Len(t) : t[i] = s[i]
  BY TextIs
<1>2. NewLine # Blank /\ NewLine # Comment /\ Blank # Comment
  BY DEF NewLine, Blank, Comment
<1>3. Len(s) \in Nat /\ Len(t) \in Nat /\ Len(t) <= Len(s)
  BY <1>1, TextType
<1>4. \A i : IsSolid(t, i) => IsSolid(s, i)
  <2> HIDE DEF t
  <2> QED
    BY <1>1, <1>3 DEF IsSolid
<1>5. \A i : IsSolid(s, i) => FirstSolid(buffer, s) = {s[i]}
  BY Skipped DEF FirstSolid
<1>6. \A i : IsSolid(s, i) /\ i <= Len(t) => IsSolid(t, i)
  <2> HIDE DEF t
  <2> QED
    BY <1>1, <1>3 DEF IsSolid
<1>7. CASE EndsInNewLine(s)
  <2>1. Len(s) > 0 /\ s[Len(s)] = NewLine /\ Len(t) = Len(s) - 1
    BY <1>7, TextIs DEF EndsInNewLine
  <2>2. Len(s) \in 1..Len(s)
    BY <1>3, <2>1
  <2>3. PICK i \in 1..Len(s) : IsSolid(s, i)
    BY <1>2, <2>1, <2>2, SolidExists
  <2>4. kind = IF s[i] \in {Comment, NewLine} THEN "EMPTY_LINE" ELSE "SUCCESS"
    BY <1>5, <1>7, <2>3 DEF Kinds
  <2>5. CASE i <= Len(t)
    <3>1. IsSolid(t, i) /\ t[i] = s[i]
      <4> HIDE DEF t
      <4> QED
        BY <1>1, <1>3, <1>6, <2>3, <2>5
    <3>2. s[i] # NewLine
      <4>1. i \in 1..(Len(s) - 1)
        BY <1>3, <2>1, <2>5
      <4> QED
        BY <4>1
    <3>3. IsStatement(t) <=> s[i] # Comment
      <4> HIDE DEF t
      <4> QED
        BY <1>1, <3>1, Skipped DEF IsStatement
    <3> QED
      BY <1>7, <2>4, <3>2, <3>3
  <2>6. CASE ~(i <= Len(t))
    <3>1. i = Len(s)
      BY <1>3, <2>1, <2>6
    <3>2. \A k : ~IsSolid(t, k)
      <4>1. SUFFICES ASSUME NEW k, IsSolid(t, k) PROVE FALSE
        OBVIOUS
      <4>2. k \in 1..(Len(s) - 1) /\ t[k] # Blank
        BY <2>1, <4>1 DEF IsSolid
      <4>3. s[k] = Blank
        BY <2>3, <3>1, <4>2 DEF IsSolid
      <4>4. t[k] = s[k]
        BY <1>1, <2>1, <4>2
      <4> QED
        BY <4>2, <4>3, <4>4
    <3>3. ~IsStatement(t)
      <4> HIDE DEF t
      <4> QED
        BY <1>1, <3>2, StatementIs
    <3> QED
      BY <1>7, <2>1, <2>4, <3>1, <3>3
  <2> QED
    BY <2>5, <2>6
<1>8. CASE ~EndsInNewLine(s)
  <2>1. t = s
    BY <1>8 DEF Text
  <2>2. kind \in {"STOP", "LAST_LINE"}
    BY <1>8 DEF Kinds
  <2>3. ASSUME kind = "STOP", IsStatement(s) PROVE FALSE
    <3>1. PICK i : IsSolid(s, i) /\ s[i] # Comment
      BY <2>3, StatementIs
    <3>2. FirstSolid(buffer, s) = {s[i]} /\ s # <<>>
      BY <1>5, <3>1 DEF IsSolid
    <3>3. s[i] \in {Comment, NewLine}
      BY <1>8, <2>3, <3>2 DEF Kinds
    <3>4. i \in 1..Len(s) /\ s[Len(s)] # NewLine
      BY <1>8, <3>1, <3>2 DEF IsSolid, EndsInNewLine
    <3>5. i \in 1..(Len(s) - 1) \/ i = Len(s)
      BY <3>4
    <3> QED
      BY <3>1, <3>3, <3>4, <3>5
  <2> QED
    BY <1>8, <2>1, <2>2, <2>3
<1> QED
  BY <1>7, <1>8

\* A text without a character that is not ASCII is clean.
LEMMA CleanAlready ==
    ASSUME NEW s \in Seq(Characters), ~HasForeign(s)
    PROVE  Cleaned(s) = s
<1>1. \A i \in 1..Len(s) : s[i] # Foreign
  BY DEF HasForeign
<1>2. Cleaned(s) \in Seq(Characters) /\ Len(Cleaned(s)) = Len(s)
  BY CleanedType
<1>3. \A i \in 1..Len(s) : Cleaned(s)[i] = s[i]
  BY <1>1 DEF Cleaned
<1> QED
  BY <1>2, <1>3, SeqEqual

\* The statements of a file of one line.
LEMMA OneLine ==
    ASSUME NEW s \in Seq(Characters), IsLine(s, 0, Len(s))
    PROVE  StatementsOf(s) = Statements(Text(Cleaned(s)))
<1> DEFINE t == Text(Cleaned(s))
           S == StatementStarts(s)
           u == StatementsOf(s)
<1>1. Len(s) \in Nat /\ t \in Seq(Characters)
  BY CleanedType, TextType
<1>2. LineAt(s, 0) = t
  <2> DEFINE n == Len(s)
  <2>1. IsLine(s, 0, n - 0) /\ 0 \in Nat /\ n \in Nat /\ 0 <= n /\ n <= Len(s)
    BY <1>1
  <2>2. LineAt(s, 0) = Text(Cleaned(SubSeq(s, 0 + 1, n)))
    <3> HIDE DEF n
    <3> QED
      BY <2>1, LineAtRead
  <2>3. SubSeq(s, 0 + 1, n) = s
    BY SubSeqFull
  <2> QED
    BY <2>2, <2>3
<1>3. ASSUME NEW p \in S PROVE p = 0
  <2>1. p \in 0..(Len(s) - 1) /\ StartsLine(s, p)
    BY DEF StatementStarts
  <2>2. CASE p # 0
    <3>1. p \in 1..(Len(s) - 1) /\ s[0 + p] = NewLine
      BY <2>1, <2>2 DEF StartsLine
    <3> QED
      BY <3>1 DEF IsLine
  <2> QED
    BY <2>2
<1>4. 0 \in S <=> Len(s) > 0 /\ IsStatement(t)
  BY <1>1, <1>2 DEF StatementStarts, StartsLine
<1>5. u \in Seq(Seq(Characters)) /\ Len(u) = Cardinality(S)
  BY StatementsType
<1>6. CASE IsStatement(t) /\ Len(s) > 0
  <2>1. S = {0}
    <3> HIDE DEF S
    <3> QED
      BY <1>3, <1>4, <1>6
  <2>2. Cardinality(S) = 1
    BY <2>1, FS_Singleton
  <2>3. u[1] = t
    <3>1. 1 \in 1..Len(u)
      BY <1>5, <2>2
    <3>2. \E p \in S : u[1] = LineAt(s, p)
      BY <3>1, RankOfStatement
    <3> HIDE DEF S, u, t
    <3> QED
      BY <1>2, <1>3, <3>2
  <2>4. u = <<t>>
    <3> HIDE DEF u, t, S
    <3> QED
      BY <1>1, <1>5, <2>2, <2>3
  <2> QED
    BY <1>6, <2>4 DEF Statements
<1>7. CASE ~(IsStatement(t) /\ Len(s) > 0)
  <2>1. S = {}
    <3> HIDE DEF S
    <3> QED
      BY <1>3, <1>4, <1>7
  <2>2. Cardinality(S) = 0
    BY <2>1, FS_EmptySet
  <2>3. u = <<>>
    <3> HIDE DEF u, S
    <3> QED
      BY <1>5, <2>2
  <2>4. ~IsStatement(t)
    <3>1. SUFFICES ASSUME Len(s) = 0 PROVE ~IsStatement(t)
      BY <1>1, <1>7
    <3>2. Len(t) = 0
      <4> DEFINE c == Cleaned(s)
      <4>1. c \in Seq(Characters) /\ Len(c) = 0
        BY <3>1, CleanedType
      <4> HIDE DEF c
      <4>2. Text(c) \in Seq(Characters) /\ Len(Text(c)) <= Len(c)
        BY <4>1, TextType
      <4>3. Len(Text(c)) = 0
        BY <4>1, <4>2
      <4> QED
        BY <4>3 DEF c
    <3> HIDE DEF t
    <3>3. \A i : ~IsSolid(t, i)
      BY <3>2 DEF IsSolid
    <3> QED
      BY <1>1, <3>3, StatementIs
  <2> QED
    BY <2>3, <2>4 DEF Statements
<1> QED
  BY <1>6, <1>7

\* The statements of a file read up to p, and then on by a line.
LEMMA LineJoined ==
    ASSUME NEW file \in Seq(Characters), NEW p \in Nat, NEW n \in 0..(Len(file) - p),
           StartsLine(file, p) \/ n = 0, IsLine(file, p, n)
    PROVE  StatementsOf(SubSeq(file, 1, p + n)) =
              StatementsOf(SubSeq(file, 1, p)) \o Statements(Text(Cleaned(SubSeq(file, p + 1, p + n))))
<1> DEFINE a == SubSeq(file, 1, p)
           s == SubSeq(file, p + 1, p + n)
<1>1. a \o s = SubSeq(file, 1, p + n)
  <2> DEFINE m == 1
             k == p + n
  <2>1. m \in 1..(Len(file) + 1) /\ p \in (m - 1)..Len(file) /\ k \in p..Len(file)
    OBVIOUS
  <2> HIDE DEF m, k
  <2>2. SubSeq(file, m, p) \o SubSeq(file, p + 1, k) = SubSeq(file, m, k)
    BY <2>1, ConcatAdjacentSubSeq
  <2> QED
    BY <2>2 DEF m, k
<1>2. a \in Seq(Characters) /\ s \in Seq(Characters)
  BY PartType
<1>3. Len(s) = n /\ \A i \in 1..n : s[i] = file[p + i]
  BY PartElements
<1>4. a = <<>> \/ s = <<>> \/ EndsInNewLine(a)
  <2>1. CASE n = 0
    BY <1>2, <1>3, <2>1
  <2>2. CASE p = 0
    BY <2>2
  <2>3. CASE p # 0 /\ n # 0
    <3>1. file[p] = NewLine /\ 0 \in Nat /\ p \in 0..(Len(file) - 0)
      BY <2>3 DEF StartsLine
    <3>2. EndsInNewLine(SubSeq(file, 0 + 1, 0 + p)) <=> p > 0 /\ file[0 + p] = NewLine
      BY <3>1, PartElements
    <3> QED
      BY <2>3, <3>1, <3>2
  <2> QED
    BY <2>1, <2>2, <2>3
<1>5. IsLine(s, 0, Len(s))
  <2>1. \A i \in 1..(n - 1) : s[0 + i] # NewLine
    <3>1. \A i \in 1..(n - 1) : i \in 1..n /\ 0 + i = i
      OBVIOUS
    <3> HIDE DEF s
    <3> QED
      BY <1>3, <3>1 DEF IsLine
  <2> HIDE DEF s
  <2> QED
    BY <1>3, <2>1 DEF IsLine
<1>6. StatementsOf(s) = Statements(Text(Cleaned(s)))
  <2> HIDE DEF s
  <2> QED
    BY <1>2, <1>5, OneLine
<1>7. StatementsOf(a \o s) = StatementsOf(a) \o StatementsOf(s)
  <2> HIDE DEF a, s
  <2> QED
    BY <1>2, <1>4, StatementsJoin
<1> QED
  BY <1>1, <1>6, <1>7, Zenon

-----------------------------------------------------------------------------
(* The lines delivered are the statements of the .am file.                  *)

\* What has been delivered is what has been read.
DeliveredInv ==
    /\ pc \notin {"runFirstStage", "return"} => delivered = <<>>
    /\ pc = "runFirstStage" /\ createFiles =>
          delivered = StatementsOf(SubSeq(expanded, 1, passPosition))
    /\ DeliversStatements

\* A line is delivered if it is a statement, or blank and the last one.
LEMMA StatementDelivered ==
    ASSUME TypeOK, VerdictInv, DeliveredInv, DeliverLine, UNCHANGED macroVars
    PROVE  DeliveredInv'
<1>1. /\ expanded' = expanded /\ createFiles' = createFiles /\ pc = "runFirstStage"
      /\ expanded \in Seq(Characters) /\ passPosition \in 0..Len(expanded)
      /\ createFiles \in BOOLEAN /\ delivered \in Seq(Seq(Characters))
  BY DEF macroVars, DeliverLine, TypeOK
<1>2. PICK n \in Left : \E kind \in Kinds(passBuffer, PassRead(n)) :
         /\ IsLine(expanded, passPosition, n)
         /\ ~HasForeign(PassRead(n))
         /\ passPosition' = passPosition + n
         /\ delivered' = IF kind \in {"SUCCESS", "LAST_LINE"}
                         THEN Append(delivered, Text(PassRead(n))) ELSE delivered
         /\ pc' = IF kind \in {"STOP", "LAST_LINE"} THEN "return" ELSE pc
  BY DEF DeliverLine
<1>3. PICK kind \in Kinds(passBuffer, PassRead(n)) :
         /\ delivered' = IF kind \in {"SUCCESS", "LAST_LINE"}
                         THEN Append(delivered, Text(PassRead(n))) ELSE delivered
         /\ pc' = IF kind \in {"STOP", "LAST_LINE"} THEN "return" ELSE pc
  BY <1>2
<1> DEFINE p == passPosition
           s == PassRead(n)
           t == Text(s)
<1>4. p \in Nat /\ n \in 0..(Len(expanded) - p)
  BY <1>1, <1>2 DEF Left
<1>5. s \in Seq(Characters) /\ s = SubSeq(expanded, p + 1, p + n)
  BY <1>1, <1>4, PartType DEF PassRead
<1>6. /\ Len(s) = n
      /\ \A i \in 1..n : s[i] = expanded[p + i]
      /\ EndsInNewLine(s) <=> n > 0 /\ expanded[p + n] = NewLine
  BY <1>1, <1>4, PartElements DEF PassRead
<1>7. \A i \in 1..(Len(s) - 1) : s[i] # NewLine
  <2>1. \A i \in 1..(n - 1) : i \in 1..n
    BY <1>4
  <2> HIDE DEF s
  <2> QED
    BY <1>2, <1>6, <2>1 DEF IsLine
<1>8. /\ EndsInNewLine(s) =>
            kind \in {"SUCCESS", "EMPTY_LINE"} /\ (kind = "SUCCESS" <=> IsStatement(t))
      /\ ~EndsInNewLine(s) =>
            kind \in {"STOP", "LAST_LINE"} /\ (kind = "STOP" => ~IsStatement(t))
  BY <1>3, <1>5, <1>7, KindsTell
<1>9. Cleaned(s) = s
  BY <1>2, <1>5, CleanAlready
<1> SUFFICES ASSUME createFiles PROVE DeliveredInv'
  BY <1>1, <1>3 DEF DeliveredInv, DeliversStatements
<1>10. StatementsOf(SubSeq(expanded, 1, p + n)) = delivered \o Statements(t)
  <2>1. StartsLine(expanded, p)
    BY <1>1 DEF VerdictInv
  <2>2. StatementsOf(SubSeq(expanded, 1, p + n)) =
           StatementsOf(SubSeq(expanded, 1, p)) \o Statements(Text(Cleaned(SubSeq(expanded, p + 1, p + n))))
    BY <1>1, <1>2, <1>4, <2>1, LineJoined
  <2>3. delivered = StatementsOf(SubSeq(expanded, 1, p))
    BY <1>1 DEF DeliveredInv
  <2> QED
    BY <1>5, <1>9, <2>2, <2>3, Zenon
<1>11. t \in Seq(Characters)
  BY <1>5, TextType
<1> HIDE DEF s, t
<1>12. Statements(t) = IF IsStatement(t) THEN <<t>> ELSE <<>>
  BY DEF Statements
<1>13. delivered \o <<>> = delivered /\ delivered \o <<t>> = Append(delivered, t)
  <2>1. delivered \o <<>> = delivered
    BY <1>1, ConcatEmptySeq
  <2>2. delivered \o <<t>> = Append(delivered, t)
    BY <1>1, <1>11, AppendIsConcat
  <2> QED
    BY <2>1, <2>2
<1>14. delivered' = IF kind \in {"SUCCESS", "LAST_LINE"} THEN Append(delivered, t) ELSE delivered
  BY <1>3 DEF s, t
<1>15. CASE EndsInNewLine(s)
  <2>1. delivered' = StatementsOf(SubSeq(expanded, 1, p + n)) /\ pc' = pc
    BY <1>3, <1>8, <1>10, <1>12, <1>13, <1>14, <1>15
  <2>2. delivered' = StatementsOf(SubSeq(expanded, 1, passPosition))'
    BY <1>1, <1>2, <2>1
  <2> QED
    BY <1>1, <2>1, <2>2 DEF DeliveredInv, DeliversStatements
<1>16. CASE ~EndsInNewLine(s)
  <2>1. pc' = "return"
    BY <1>3, <1>8, <1>16
  <2>2. SubSeq(expanded, 1, p + n) = expanded
    <3>1. p + n = Len(expanded)
      BY <1>2, <1>6, <1>16 DEF IsLine
    <3> QED
      BY <1>1, <3>1, SubSeqFull
  <2>3. StatementsOf(expanded) = delivered \o Statements(t)
    BY <1>10, <2>2
  <2>4. CASE kind = "STOP" \/ IsStatement(t)
    <3>1. delivered' = StatementsOf(expanded)
      BY <1>8, <1>12, <1>13, <1>14, <1>16, <2>3, <2>4
    <3> QED
      BY <1>1, <2>1, <3>1 DEF DeliveredInv, DeliversStatements
  <2>5. CASE kind = "LAST_LINE" /\ ~IsStatement(t)
    <3>1. delivered' = Append(StatementsOf(expanded), t)
      BY <1>12, <1>13, <1>14, <2>3, <2>5
    <3>2. delivered' # <<>> /\ delivered'[Len(delivered')] = t
      <4>1. StatementsOf(expanded) = delivered
        BY <1>12, <1>13, <2>3, <2>5
      <4>2. delivered' = Append(delivered, t)
        BY <3>1, <4>1
      <4>3. Len(Append(delivered, t)) = Len(delivered) + 1 /\ Append(delivered, t)[Len(delivered) + 1] = t
            /\ Append(delivered, t) # <<>>
        BY <1>1, <1>11, AppendProperties
      <4> QED
        BY <4>2, <4>3
    <3> QED
      BY <1>1, <2>1, <2>5, <3>1, <3>2 DEF DeliveredInv, DeliversStatements
  <2> QED
    BY <1>8, <1>16, <2>4, <2>5
<1> QED
  BY <1>15, <1>16

\* If the source is not rejected, the first stage is given the statements of the .am file,
\* each once and in order, and nothing else but for a blank last line without a newline:
\* for every source, and whatever is left in the buffer of the lines before.
THEOREM StatementsDelivered == Spec => []DeliversStatements
<1>1. Init => DeliveredInv
  BY DEF Init, MacroInit, PassInit, DeliveredInv, DeliversStatements
<1>2. TypeOK /\ VerdictInv /\ DeliveredInv /\ [Next]_vars => DeliveredInv'
  <2> SUFFICES ASSUME TypeOK, VerdictInv, DeliveredInv, [Next]_vars PROVE DeliveredInv'
    OBVIOUS
  <2>1. CASE MacroNext /\ UNCHANGED passVars
    <3>1. /\ pc \in {"runParseMacro", "getEndOfMacroPos"}
          /\ pc' \in {"runParseMacro", "getEndOfMacroPos", "parsed"}
      BY <2>1 DEF MacroNext, getNewLine, SkipLine, RejectDefinition, StartDefinition, DropClosing,
                  expandMacro, copyLine, BodyLine, DefineMacro, FlushDefinition, Unterminated, Handles,
                  NextLine, ClosesDefinition, EndsDefinition
    <3> QED
      BY <2>1, <3>1 DEF passVars, DeliveredInv, DeliversStatements
  <2>2. CASE DeliverLine /\ UNCHANGED macroVars
    BY <2>2, StatementDelivered
  <2>3. CASE FlushInputLine /\ UNCHANGED macroVars
    <3>1. createFiles' = FALSE /\ pc' \in {"runFirstStage", "return"}
      BY <2>3 DEF FlushInputLine
    <3> QED
      BY <3>1 DEF DeliveredInv, DeliversStatements
  <2>4. CASE ExpansionEnds
    <3>1. /\ pc = "parsed" /\ passPosition = 0 /\ delivered = <<>>
          /\ passPosition' = passPosition /\ delivered' = delivered /\ expanded' = expanded
          /\ pc' = IF createFiles' THEN "runFirstStage" ELSE "return"
      BY <2>4 DEF ExpansionEnds, passVars, macroVars, VerdictInv, DeliveredInv
    <3>2. SubSeq(expanded, 1, 0) = <<>>
      OBVIOUS
    <3>3. delivered' = StatementsOf(SubSeq(expanded, 1, passPosition))'
      BY <3>1, <3>2, NoStatements
    <3> QED
      BY <3>1, <3>3 DEF DeliveredInv, DeliversStatements
  <2>5. CASE UNCHANGED vars
    BY <2>5 DEF vars, passVars, macroVars, DeliveredInv, DeliversStatements
  <2> QED
    BY <2>1, <2>2, <2>3, <2>4, <2>5 DEF Next, PassNext
<1>3. DeliveredInv => DeliversStatements
  BY DEF DeliveredInv
<1> QED
  BY <1>1, <1>2, <1>3, ReadingTypes, Verdict, PTL DEF Spec
=============================================================================
