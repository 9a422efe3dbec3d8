--------------------------- MODULE FileLoopProofs ---------------------------
(***************************************************************************)
(* Proofs about FileLoop, for all names, sources, answers and files that   *)
(* cannot be opened: the name buffer is large enough; the handles left     *)
(* open are those of the questions; every variable has its type; each name *)
(* is assembled as if it was alone; the files of a name belong together;   *)
(* and no .am file is overwritten without the user's consent.              *)
(***************************************************************************)
EXTENDS FileLoop, TLAPS, FiniteSetTheorems, SequenceTheorems

\* The name that is processed is one of the command line.
AtName ==
    /\ argv \in Seq(Names)
    /\ i \in Nat \ {0}
    /\ pc \notin {"shell", "exit"} => i <= Len(argv)

\* Where the buffer holds no name yet, or that of an earlier turn.
BetweenNames == {"shell", "copyNewFileName", "exit", "undefined"}

\* What was allocated is what the longest name so far needs, and only an empty first name
\* was ever stored outside it.
BufferFits ==
    /\ currFileNameLen \in Nat
    /\ room = IF currFileNameLen = 0 THEN 0 ELSE currFileNameLen + FILE_EXTENSION_LEN
    /\ Len(file) \in Nat
    /\ Len(file) <= room \/ (argv # <<>> /\ argv[1] = <<>>)
    /\ pc = "shell" => argv = <<>> /\ currFileNameLen = 0
    /\ currFileNameLen = 0 => pc \in BetweenNames /\ (pc = "copyNewFileName" => i = 1)
    /\ pc \notin BetweenNames => Len(argv[i]) <= currFileNameLen

NameInv == AtName /\ BufferFits

\* The handles that are open beside those of the questions.
HandlesOpen(n)     == openFiles = questions + n /\ outputs = {}
OutputsOpen(types) == openFiles = questions + Cardinality(outputs) /\ outputs \subseteq types

HandleInv ==
    /\ openFiles \in Int /\ questions \in Nat
    /\ pc \in {"shell", "copyNewFileName", "exit", "getInputDataFileFP", "firstStage", "getObjectFP"} =>
          HandlesOpen(0)
    /\ pc \in {"getMainOutputDataFileFP", "fileOverrideWarning", "fopen"} => HandlesOpen(1)
    /\ pc = "parseMacroV2" => HandlesOpen(2)
    /\ pc = "getEntryFP"   => OutputsOpen({ob})
    /\ pc = "getExternFP"  => OutputsOpen({ob, ent})
    /\ pc = "closeFiles"   => OutputsOpen({ob, ent, ext})

-----------------------------------------------------------------------------
\* A string is stored with its '\0', and what was behind it stays.
LEMMA StoredLength ==
    ASSUME NEW cells, Len(cells) \in Nat, NEW S, NEW s \in Seq(S), NEW n \in Nat
    PROVE  LET end == n + Len(s) + 1
           IN  Len(Stored(cells, n, s)) = IF Len(cells) > end THEN Len(cells) ELSE end
<1> DEFINE z == Append(s, Nul)
           length == IF Len(cells) > n + Len(z) THEN Len(cells) ELSE n + Len(z)
<1>1. s \in Seq(S \cup {Nul}) /\ Nul \in S \cup {Nul}
  OBVIOUS
<1>2. Len(z) = Len(s) + 1
  BY <1>1
<1> HIDE DEF z
<1>3. length \in Nat
  BY <1>2
<1> HIDE DEF length
<1>4. Stored(cells, n, s) =
         [c \in 1..length |-> IF c > n /\ c <= n + Len(z) THEN z[c - n] ELSE cells[c]]
  BY DEF Stored, z, length
<1>5. Len(Stored(cells, n, s)) = length
  BY <1>3, <1>4
<1> QED
  BY <1>2, <1>5 DEF length

\* A name on the command line is a string.
LEMMA NameType ==
    ASSUME AtName, i <= Len(argv)
    PROVE  argv[i] \in Seq(STRING) /\ Len(argv[i]) \in Nat
<1>1. argv[i] \in Names
  BY DEF AtName
<1> QED
  BY <1>1, NamesAssumption

\* The characters of the extensions.
Characters == {".", "a", "s", "m", "o", "b", "e", "n", "t", "x"}

\* The extensions are strings of at most four characters.
LEMMA ExtensionType ==
    ASSUME NEW type \in Types
    PROVE  type \in Seq(Characters) /\ Len(type) <= 4
<1>1. /\ as \in Seq(Characters) /\ am \in Seq(Characters) /\ ob \in Seq(Characters)
      /\ Len(as) <= 4 /\ Len(am) <= 4 /\ Len(ob) <= 4
  BY DEF Characters, as, am, ob
<1>2. /\ ent \in Seq(Characters) /\ ext \in Seq(Characters)
      /\ Len(ent) <= 4 /\ Len(ext) <= 4
  BY DEF Characters, ent, ext
<1>3. type = as \/ type = am \/ type = ob \/ type = ent \/ type = ext
  BY DEF Types
<1>4. CASE type = as
  BY <1>1, <1>4, Zenon
<1>5. CASE type = am
  BY <1>1, <1>5, Zenon
<1>6. CASE type = ob
  BY <1>1, <1>6, Zenon
<1>7. CASE type = ent
  BY <1>2, <1>7, Zenon
<1>8. CASE type = ext
  BY <1>2, <1>8, Zenon
<1> QED
  BY <1>3, <1>4, <1>5, <1>6, <1>7, <1>8

\* Another extension behind the name stays in the buffer.
LEMMA ExtensionFits ==
    ASSUME NameInv, pc \notin BetweenNames, NEW type \in Types
    PROVE  /\ Len(stringChangeFileType(type)) \in Nat
           /\ Len(file) <= room => Len(stringChangeFileType(type)) <= room
<1>1. /\ i <= Len(argv) /\ Len(argv[i]) <= currFileNameLen
      /\ currFileNameLen \in Nat /\ room = currFileNameLen + 5 /\ Len(file) \in Nat
  BY DEF NameInv, AtName, BufferFits, BetweenNames, FILE_EXTENSION_LEN
<1>2. Len(argv[i]) \in Nat
  BY <1>1, NameType DEF NameInv
<1>3. type \in Seq(Characters) /\ Len(type) \in Nat /\ Len(type) <= 4
  BY ExtensionType
<1> QED
  BY <1>1, <1>2, <1>3, StoredLength DEF stringChangeFileType

\* copyNewFileName allocates for the name and the longest extension.
LEMMA NameCopied ==
    ASSUME NameInv, copyNewFileName
    PROVE  NameInv'
<1> DEFINE n == Len(argv[i])
<1>1. /\ pc = "copyNewFileName" /\ pc' = IF room' = 0 THEN "undefined" ELSE "getInputDataFileFP"
      /\ argv' = argv /\ i' = i /\ i <= Len(argv)
      /\ file' = strCopy(IF currFileNameLen < n THEN <<>> ELSE file, argv[i])
      /\ room' = IF currFileNameLen < n THEN n + FILE_EXTENSION_LEN ELSE room
      /\ currFileNameLen' = IF currFileNameLen < n THEN n ELSE currFileNameLen
  BY DEF copyNewFileName, NameInv, AtName, Room
<1>2. argv[i] \in Seq(STRING) /\ n \in Nat
  BY <1>1, NameType DEF NameInv
<1>3. AtName'
  BY <1>1 DEF NameInv, AtName
<1>4. /\ currFileNameLen \in Nat /\ Len(file) \in Nat
      /\ room = IF currFileNameLen = 0 THEN 0 ELSE currFileNameLen + FILE_EXTENSION_LEN
      /\ Len(file) <= room \/ (argv # <<>> /\ argv[1] = <<>>)
      /\ currFileNameLen = 0 => i = 1
  BY <1>1 DEF NameInv, BufferFits
<1> HIDE DEF n
<1>5. CASE currFileNameLen < n
  <2>1. Len(<<>>) = 0
    OBVIOUS
  <2>2. Len(file') = n + 1
    BY <1>1, <1>2, <1>5, <2>1, StoredLength DEF strCopy, n
  <2>3. /\ currFileNameLen' \in Nat /\ currFileNameLen' # 0 /\ currFileNameLen' = n
        /\ room' = n + FILE_EXTENSION_LEN /\ Len(file') \in Nat /\ Len(file') <= room'
        /\ pc' = "getInputDataFileFP"
    BY <1>1, <1>2, <1>4, <1>5, <2>2 DEF FILE_EXTENSION_LEN
  <2>4. BufferFits'
    BY <1>1, <2>3 DEF BufferFits, n
  <2> QED
    BY <1>3, <2>4 DEF NameInv
<1>6. CASE ~(currFileNameLen < n)
  <2>1. Len(file') = IF Len(file) > n + 1 THEN Len(file) ELSE n + 1
    BY <1>1, <1>2, <1>4, <1>6, StoredLength DEF strCopy, n
  <2>2. currFileNameLen' = currFileNameLen /\ room' = room /\ n <= currFileNameLen
    BY <1>1, <1>2, <1>4, <1>6
  <2>3. CASE currFileNameLen = 0
    <3>1. argv[1] = <<>> /\ argv # <<>>
      BY <1>1, <1>2, <1>4, <2>2, <2>3 DEF n, NameInv, AtName
    <3>2. pc' = "undefined"
      BY <1>1, <1>4, <2>2, <2>3
    <3>3. BufferFits'
      BY <1>1, <1>2, <1>4, <2>1, <2>2, <2>3, <3>1, <3>2 DEF BufferFits, BetweenNames
    <3> QED
      BY <1>3, <3>3 DEF NameInv
  <2>4. CASE currFileNameLen # 0
    <3>1. room' # 0 /\ pc' = "getInputDataFileFP"
      BY <1>1, <1>4, <2>2, <2>4 DEF FILE_EXTENSION_LEN
    <3>2. Len(file') \in Nat /\ (Len(file) <= room => Len(file') <= room')
      BY <1>2, <1>4, <2>1, <2>2, <2>4 DEF FILE_EXTENSION_LEN
    <3>3. BufferFits'
      BY <1>1, <1>4, <2>2, <2>4, <3>1, <3>2 DEF BufferFits, n
    <3> QED
      BY <1>3, <3>3 DEF NameInv
  <2> QED
    BY <2>3, <2>4
<1> QED
  BY <1>5, <1>6

\* Any other step of the program leaves the buffer as it is or changes the extension.
LEMMA NameKept ==
    ASSUME NameInv, pc \notin {"shell", "copyNewFileName", "exit"}, argv' = argv,
           room' = room, currFileNameLen' = currFileNameLen,
           Len(file') \in Nat, Len(file) <= room => Len(file') <= room,
           \/ pc' \notin {"shell", "copyNewFileName", "exit"} /\ i' = i
                 /\ (pc \notin BetweenNames \/ pc' = "undefined")
           \/ NextName /\ pc \notin BetweenNames
    PROVE  NameInv'
<1>1. /\ argv \in Seq(Names) /\ i \in Nat \ {0} /\ i <= Len(argv)
      /\ currFileNameLen \in Nat
  BY DEF NameInv, AtName, BufferFits
<1>2. CASE pc' \notin {"shell", "copyNewFileName", "exit"} /\ i' = i
              /\ (pc \notin BetweenNames \/ pc' = "undefined")
  BY <1>1, <1>2 DEF NameInv, AtName, BufferFits, BetweenNames
<1>3. CASE NextName /\ pc \notin BetweenNames
  <2>1. i' = i + 1 /\ pc' = IF i < Len(argv) THEN "copyNewFileName" ELSE "exit"
    BY <1>3 DEF NextName
  <2>2. AtName'
    BY <1>1, <2>1 DEF AtName
  <2>3. BufferFits'
    BY <1>1, <1>3, <2>1 DEF NameInv, BufferFits, BetweenNames
  <2> QED
    BY <2>2, <2>3 DEF NameInv
<1> QED
  BY <1>2, <1>3

\* However long the names are and in whatever order they come, each is stored with its
\* extensions inside the name buffer, unless the first is empty.
THEOREM NamesFit == Spec => []NameFits
<1>1. Init => NameInv
  <2>1. <<>> \in Seq(Names) /\ Len(<<>>) = 0
    OBVIOUS
  <2> QED
    BY <2>1 DEF Init, NameInv, AtName, BufferFits, BetweenNames
<1>2. NameInv /\ [Next]_vars => NameInv'
  <2> SUFFICES ASSUME NameInv, [Next]_vars PROVE NameInv'
    OBVIOUS
  <2> USE DEF nameVars
  <2>0. Len(file) \in Nat
    BY DEF NameInv, BufferFits
  <2>1. CASE Edit
    BY <2>1 DEF Edit, NameInv, AtName, BufferFits, BetweenNames
  <2>2. CASE Start
    <3>1. /\ pc = "shell" /\ i' = 1
          /\ pc' = IF argv' = <<>> THEN "exit" ELSE "copyNewFileName"
          /\ file' = file /\ room' = room /\ currFileNameLen' = currFileNameLen
      BY <2>2 DEF Start
    <3>2. argv' \in Seq(Names)
      BY <2>2, NamesAssumption DEF Start, CommandLines
    <3>3. AtName'
      BY <3>1, <3>2 DEF AtName
    <3>4. BufferFits'
      BY <3>1 DEF NameInv, BufferFits, BetweenNames
    <3> QED
      BY <3>3, <3>4 DEF NameInv
  <2>3. CASE \E answer \in Answers : Type(answer)
    BY <2>3 DEF Type, NameInv, AtName, BufferFits, BetweenNames
  <2>4. CASE copyNewFileName
    BY <2>4, NameCopied
  <2>5. CASE getInputDataFileFP
    <3>1. file' = stringChangeFileType(as) /\ pc = "getInputDataFileFP"
      BY <2>5 DEF getInputDataFileFP
    <3>2. Len(file') \in Nat /\ (Len(file) <= room => Len(file') <= room)
      BY <3>1, ExtensionFits DEF BetweenNames, Types
    <3> QED
      BY <2>5, <3>1, <3>2, NameKept DEF getInputDataFileFP, BetweenNames
  <2>6. CASE getMainOutputDataFileFP
    <3>1. file' = stringChangeFileType(am) /\ pc = "getMainOutputDataFileFP"
      BY <2>6 DEF getMainOutputDataFileFP
    <3>2. Len(file') \in Nat /\ (Len(file) <= room => Len(file') <= room)
      BY <3>1, ExtensionFits DEF BetweenNames, Types
    <3> QED
      BY <2>6, <3>1, <3>2, NameKept DEF getMainOutputDataFileFP, BetweenNames
  <2>7. CASE SkipCharacter
    BY <2>0, <2>7, NameKept DEF SkipCharacter, getchar, BetweenNames
  <2>8. CASE Proceed
    BY <2>0, <2>8, NameKept DEF Proceed, getchar, BetweenNames
  <2>9. CASE Abort
    BY <2>0, <2>9, NameKept DEF Abort, getchar, BetweenNames
  <2>10. CASE fopen
    BY <2>0, <2>10, NameKept DEF fopen, BetweenNames
  <2>11. CASE parseMacroV2
    BY <2>0, <2>11, NameKept DEF parseMacroV2, BetweenNames
  <2>12. CASE firstStage
    BY <2>0, <2>12, NameKept DEF firstStage, BetweenNames
  <2>13. ASSUME NEW type \in Types, NEW next \in {"getEntryFP", "getExternFP", "closeFiles"},
                pc \in {"getObjectFP", "getEntryFP", "getExternFP"}, getFilePointer(type, next)
         PROVE  NameInv'
    <3>1. file' = stringChangeFileType(type) \/ file' = file
      BY <2>13 DEF getFilePointer
    <3>2. Len(file') \in Nat /\ (Len(file) <= room => Len(file') <= room)
      BY <2>0, <2>13, <3>1, ExtensionFits DEF BetweenNames
    <3> QED
      BY <2>13, <3>2, NameKept DEF getFilePointer, BetweenNames
  <2>14. CASE getObjectFP \/ getEntryFP \/ getExternFP
    BY <2>13, <2>14 DEF getObjectFP, getEntryFP, getExternFP, Types
  <2>15. CASE closeFiles
    BY <2>0, <2>15, NameKept DEF closeFiles, BetweenNames
  <2>16. CASE Exit
    <3>1. <<>> \in Seq(Names) /\ Len(<<>>) = 0
      OBVIOUS
    <3> QED
      BY <2>16, <3>1 DEF Exit, NameInv, AtName, BufferFits, BetweenNames
  <2>17. CASE UNCHANGED vars
    BY <2>17 DEF vars, NameInv, AtName, BufferFits
  <2> QED
    BY <2>1, <2>2, <2>3, <2>4, <2>5, <2>6, <2>7, <2>8, <2>9, <2>10, <2>11, <2>12, <2>14, <2>15,
       <2>16, <2>17 DEF Next, Program
<1>3. NameInv => NameFits
  BY DEF NameInv, BufferFits, NameFits
<1> QED
  BY <1>1, <1>2, <1>3, PTL DEF Spec

-----------------------------------------------------------------------------
\* One more output file is open.
LEMMA OutputOpened ==
    ASSUME NEW opened, opened \subseteq Types, NEW type \in Types \ opened
    PROVE  Cardinality(opened \cup {type}) = Cardinality(opened) + 1 /\ Cardinality(opened) \in Nat
<1>1. IsFiniteSet(Types)
  <2>1. ASSUME NEW S, IsFiniteSet(S), NEW x PROVE IsFiniteSet(S \cup {x})
    BY <2>1, FS_AddElement
  <2>2. IsFiniteSet(((({as} \cup {am}) \cup {ob}) \cup {ent}) \cup {ext})
    BY <2>1, FS_Singleton
  <2>3. Types = ((({as} \cup {am}) \cup {ob}) \cup {ent}) \cup {ext}
    BY Zenon DEF Types
  <2> QED
    BY <2>2, <2>3
<1>2. IsFiniteSet(opened)
  BY <1>1, FS_Subset
<1> QED
  BY <1>2, FS_AddElement, FS_CardinalityType

\* No output file is open.
LEMMA NoOutputs == Cardinality({}) = 0
BY FS_EmptySet

\* The extensions differ.
LEMMA ExtensionsDiffer == am \notin {ob, ent, ext} /\ ob # ent /\ ob # ext /\ ent # ext
<1>1. am[2] = "a" /\ ob[2] = "o" /\ ent[2] = "e" /\ ext[2] = "e" /\ ent[3] = "n" /\ ext[3] = "x"
  BY DEF am, ob, ent, ext
<1> QED
  BY <1>1

\* An output file is opened, or not.
LEMMA OutputCounted ==
    ASSUME NEW opened, opened \subseteq Types, NEW type \in Types \ opened, NEW next,
           openFiles \in Int, questions \in Nat,
           OutputsOpen(opened), getFilePointer(type, next)
    PROVE  openFiles' \in Int /\ questions' = questions /\ OutputsOpen(opened \cup {type})'
<1>1. outputs \subseteq opened /\ openFiles = questions + Cardinality(outputs)
  BY DEF OutputsOpen
<1>2. questions' = questions
  BY DEF getFilePointer, userVars
<1>3. CASE openFiles' = openFiles + 1 /\ outputs' = outputs \cup {type}
  <2>1. Cardinality(outputs \cup {type}) = Cardinality(outputs) + 1 /\ Cardinality(outputs) \in Nat
    BY <1>1, OutputOpened
  <2> QED
    BY <1>1, <1>2, <1>3, <2>1 DEF OutputsOpen
<1>4. CASE openFiles' = openFiles /\ outputs' = outputs
  BY <1>1, <1>2, <1>4 DEF OutputsOpen
<1> QED
  BY <1>3, <1>4 DEF getFilePointer

\* The open handles are counted at every place of the program.
LEMMA HandleInvariant == Spec => []HandleInv
<1>1. Init => HandleInv
  BY NoOutputs DEF Init, HandleInv, HandlesOpen
<1>2. HandleInv /\ [Next]_vars => HandleInv'
  <2> SUFFICES ASSUME HandleInv, [Next]_vars PROVE HandleInv'
    OBVIOUS
  <2> USE DEF HandleInv, HandlesOpen, OutputsOpen
  <2>1. CASE Edit
    BY <2>1 DEF Edit, userVars
  <2>2. CASE Start
    BY <2>2 DEF Start, fileVars, userVars
  <2>3. CASE \E answer \in Answers : Type(answer)
    BY <2>3 DEF Type, fileVars
  <2>4. CASE copyNewFileName
    BY <2>4 DEF copyNewFileName, fileVars, userVars
  <2>5. CASE getInputDataFileFP
    <3>1. /\ pc = "getInputDataFileFP" /\ outputs' = outputs /\ questions' = questions
          /\ \/ openFiles' = openFiles + 1 /\ pc' = "getMainOutputDataFileFP"
             \/ openFiles' = openFiles /\ pc' \in {"copyNewFileName", "exit"}
      BY <2>5 DEF getInputDataFileFP, NextName, userVars
    <3> QED
      BY <3>1
  <2>6. CASE getMainOutputDataFileFP
    BY <2>6 DEF getMainOutputDataFileFP
  <2>7. CASE SkipCharacter
    BY <2>7 DEF SkipCharacter, getchar, fileVars
  <2>8. CASE Proceed
    BY <2>8 DEF Proceed, getchar, fileVars
  <2>9. CASE Abort
    BY <2>9 DEF Abort, getchar, NextName
  <2>10. CASE fopen
    BY <2>10 DEF fopen, userVars
  <2>11. CASE parseMacroV2
    <3>1. /\ pc = "parseMacroV2" /\ outputs' = outputs /\ questions' = questions
          /\ openFiles' = openFiles - 2 /\ pc' \in {"firstStage", "copyNewFileName", "exit"}
      BY <2>11 DEF parseMacroV2, NextName, userVars
    <3> QED
      BY <3>1
  <2>12. CASE firstStage
    <3>1. /\ pc = "firstStage" /\ outputs' = outputs /\ questions' = questions
          /\ openFiles' = openFiles /\ pc' \in {"getObjectFP", "copyNewFileName", "exit"}
      BY <2>12 DEF firstStage, NextName, userVars
    <3> QED
      BY <3>1
  <2>13. CASE getObjectFP
    <3>0. OutputsOpen({})
      BY <2>13, NoOutputs DEF getObjectFP
    <3>1. openFiles' \in Int /\ questions' = questions /\ OutputsOpen({} \cup {ob})'
      BY <2>13, <3>0, OutputCounted DEF getObjectFP, Types
    <3>2. pc' = "getEntryFP" /\ {} \cup {ob} = {ob}
      BY <2>13 DEF getObjectFP, getFilePointer
    <3> QED
      BY <3>1, <3>2
  <2>14. CASE getEntryFP
    <3>1. openFiles' \in Int /\ questions' = questions /\ OutputsOpen({ob} \cup {ent})'
      BY <2>14, OutputCounted, ExtensionsDiffer DEF getEntryFP, Types
    <3>2. pc' = "getExternFP" /\ {ob} \cup {ent} = {ob, ent}
      BY <2>14 DEF getEntryFP, getFilePointer
    <3> QED
      BY <3>1, <3>2
  <2>15. CASE getExternFP
    <3>1. openFiles' \in Int /\ questions' = questions /\ OutputsOpen({ob, ent} \cup {ext})'
      BY <2>15, OutputCounted, ExtensionsDiffer DEF getExternFP, Types
    <3>2. pc' = "closeFiles" /\ {ob, ent} \cup {ext} = {ob, ent, ext}
      BY <2>15 DEF getExternFP, getFilePointer
    <3> QED
      BY <3>1, <3>2
  <2>16. CASE closeFiles
    <3>1. Cardinality(outputs) \in Nat
      <4>1. outputs \subseteq Types \ {am}
        BY <2>16, ExtensionsDiffer DEF closeFiles, Types
      <4> QED
        BY <4>1, OutputOpened DEF Types
    <3>2. openFiles = questions + Cardinality(outputs)
      BY <2>16 DEF closeFiles
    <3> QED
      BY <2>16, <3>1, <3>2 DEF closeFiles, NextName, userVars
  <2>17. CASE Exit
    BY <2>17 DEF Exit
  <2>18. CASE UNCHANGED vars
    BY <2>18 DEF vars, fileVars, userVars
  <2> QED
    BY <2>1, <2>2, <2>3, <2>4, <2>5, <2>6, <2>7, <2>8, <2>9, <2>10, <2>11, <2>12, <2>13, <2>14,
       <2>15, <2>16, <2>17, <2>18 DEF Next, Program
<1> QED
  BY <1>1, <1>2, PTL DEF Spec

\* Between two names exactly one handle is open for every question that was asked, however
\* the names, the answers and the failures to open follow each other.
THEOREM HandlePerQuestion == Spec => []OneHandlePerQuestion
<1>1. HandleInv => OneHandlePerQuestion
  BY DEF HandleInv, HandlesOpen, OneHandlePerQuestion
<1> QED
  BY <1>1, HandleInvariant, PTL

-----------------------------------------------------------------------------
\* The name in the buffer.

\* The buffer holds the name that is processed, with an extension behind it.
NameHeld(cells) ==
    /\ Len(argv[i]) < Len(cells)
    /\ \A c \in 1..Len(argv[i]) : cells[c] = argv[i][c]

PathInv ==
    /\ pc \notin BetweenNames => NameHeld(file)
    /\ pc \in {"fileOverrideWarning", "fopen", "parseMacroV2", "firstStage"} =>
          Path(file) = argv[i] \o am

\* A question is asked once for a name.
QuestionInv ==
    /\ pc = "shell" => i = 1
    /\ pc \in {"shell", "copyNewFileName", "getInputDataFileFP", "getMainOutputDataFileFP", "exit"} =>
          questions < i

LoopInv == TypeOK /\ PathInv /\ QuestionInv

\* What a name, an answer or an extension is made of is a character.
LEMMA CharacterOf ==
    ASSUME NEW s \in Names \cup Answers \cup {as, am, ob, ent, ext, <<Nul>>}, NEW c \in 1..Len(s)
    PROVE  s[c] \in Alphabet
<1> DEFINE letters(x) == {x[d] : d \in 1..Len(x)}
<1>1. s[c] \in letters(s)
  OBVIOUS
<1>2. Alphabet = UNION {letters(x) : x \in Names \cup Answers \cup {as, am, ob, ent, ext, <<Nul>>}}
  BY DEF Alphabet
<1> HIDE DEF letters
<1>3. QED
  BY <1>1, <1>2, Zenon

\* Names, answers and extensions are made of characters.
LEMMA AlphabetStrings ==
    ASSUME NEW s \in Names \cup Answers \cup {as, am, ob, ent, ext, <<Nul>>}
    PROVE  s \in Seq(Alphabet) /\ Len(s) \in Nat
<1>1. ASSUME NEW S, s \in Seq(S)
      PROVE  s \in Seq(Alphabet)
  <2>1. Len(s) \in Nat /\ s = [c \in 1..Len(s) |-> s[c]]
    BY <1>1
  <2>2. \A c \in 1..Len(s) : s[c] \in Alphabet
    BY CharacterOf
  <2>3. QED
    BY <2>1, <2>2
<1>2. CASE s \in Names
  BY <1>1, <1>2, NamesAssumption
<1>3. CASE s \in Answers
  BY <1>1, <1>3, AnswersAssumption
<1>4. CASE s \in Types
  BY <1>1, <1>4, ExtensionType
<1>5. CASE s = <<Nul>>
  <2>1. <<Nul>> \in Seq({Nul})
    OBVIOUS
  <2>2. QED
    BY <1>1, <1>5, <2>1
<1>6. QED
  BY <1>1, <1>2, <1>3, <1>4, <1>5, LenProperties DEF Types

\* And so is '\0'.
LEMMA NulCharacter == Nul \in Alphabet
<1>1. <<Nul>>[1] = Nul /\ 1 \in 1..Len(<<Nul>>)
  OBVIOUS
<1>2. QED
  BY <1>1, CharacterOf

\* What is stored behind the first n characters leaves these as they were.
LEMMA StoredString ==
    ASSUME NEW cells \in Seq(Alphabet), NEW n \in 0..Len(cells), NEW s \in Seq(Alphabet)
    PROVE  LET new == Stored(cells, n, s)
           IN  /\ new \in Seq(Alphabet) /\ Len(new) \in Nat /\ n + Len(s) < Len(new)
               /\ \A c \in 1..n : new[c] = cells[c]
               /\ \A c \in 1..Len(s) : new[n + c] = s[c]
               /\ new[n + Len(s) + 1] = Nul
<1> DEFINE z == Append(s, Nul)
           length == IF Len(cells) > n + Len(z) THEN Len(cells) ELSE n + Len(z)
           cell(c) == IF c > n /\ c <= n + Len(z) THEN z[c - n] ELSE cells[c]
           new == Stored(cells, n, s)
<1>1. /\ Len(z) = Len(s) + 1 /\ Len(s) \in Nat /\ z \in Seq(Alphabet)
      /\ \A c \in 1..Len(s) : z[c] = s[c]
      /\ z[Len(s) + 1] = Nul
  BY NulCharacter, AppendProperties, LenProperties
<1>2. Len(cells) \in Nat /\ n \in Nat /\ n <= Len(cells)
  BY LenProperties
<1> HIDE DEF z
<1>3. length \in Nat /\ n + Len(s) < length
  BY <1>1, <1>2
<1>4. \A c \in 1..length : cell(c) \in Alphabet
  BY <1>1, <1>2
<1>5. new = [c \in 1..length |-> cell(c)]
  BY DEF Stored, z
<1> HIDE DEF length
<1>6. /\ \A c \in 1..n : cell(c) = cells[c] /\ c \in 1..length
      /\ \A c \in 1..Len(s) : cell(n + c) = s[c] /\ n + c \in 1..length
      /\ cell(n + Len(s) + 1) = Nul /\ n + Len(s) + 1 \in 1..length
  BY <1>1, <1>2, <1>3
<1> HIDE DEF cell
<1>7. new \in Seq(Alphabet) /\ Len(new) = length /\ \A c \in 1..length : new[c] = cell(c)
  BY <1>3, <1>4, <1>5
<1> HIDE DEF new
<1>8. QED
  BY <1>3, <1>6, <1>7 DEF new

\* The string in a buffer ends at the first '\0'.
LEMMA PathOfString ==
    ASSUME NEW cells \in Seq(Alphabet), NEW s \in Seq(Alphabet), Len(s) < Len(cells),
           \A c \in 1..Len(s) : cells[c] = s[c] /\ s[c] # Nul,
           cells[Len(s) + 1] = Nul
    PROVE  Path(cells) = s
<1> DEFINE end(c) == cells[c] = Nul /\ \A b \in 1..(c - 1) : cells[b] # Nul
<1>1. Len(s) \in Nat /\ Len(cells) \in Nat
  BY LenProperties
<1>2. end(Len(s) + 1) /\ Len(s) + 1 \in 1..Len(cells)
  BY <1>1
<1>3. ASSUME NEW c \in 1..Len(cells), end(c)
      PROVE  c = Len(s) + 1
  BY <1>1, <1>3
<1>4. (CHOOSE c \in 1..Len(cells) : end(c)) = Len(s) + 1
  <2> HIDE DEF end
  <2>1. QED
    BY <1>2, <1>3
<1>5. Path(cells) = SubSeq(cells, 1, Len(s))
  BY <1>1, <1>4 DEF Path
<1>6. /\ SubSeq(cells, 1, Len(s)) \in Seq(Alphabet)
      /\ Len(SubSeq(cells, 1, Len(s))) = Len(s)
      /\ \A c \in 1..Len(s) : SubSeq(cells, 1, Len(s))[c] = s[c]
  <2>1. \A c \in 1..Len(s) : cells[c] \in Alphabet
    BY <1>1
  <2>2. QED
    BY <1>1, <2>1, SubSeqProperties
<1>7. QED
  BY <1>5, <1>6, SeqEqual

\* An extension stored behind the name gives the path of the name's file.
LEMMA ExtensionStored ==
    ASSUME ControlOK, file \in Seq(Alphabet), pc \notin BetweenNames, NameHeld(file),
           NEW type \in Types
    PROVE  /\ stringChangeFileType(type) \in Seq(Alphabet)
           /\ NameHeld(stringChangeFileType(type))
           /\ Path(stringChangeFileType(type)) = argv[i] \o type
<1> DEFINE name == argv[i]
           new  == stringChangeFileType(type)
<1>1. name \in Names /\ name \in Seq(Alphabet) /\ Len(name) \in Nat
  <2>1. name \in Names
    BY DEF ControlOK, BetweenNames
  <2>2. QED
    BY <2>1, AlphabetStrings
<1>2. type \in Seq(Alphabet) /\ Len(type) \in Nat
  BY AlphabetStrings DEF Types
<1>3. /\ \A c \in 1..Len(name) : name[c] # Nul
      /\ \A c \in 1..Len(type) : type[c] # Nul
  <2>1. \A c \in 1..Len(type) : type[c] \in Characters
    BY ExtensionType, ElementOfSeq
  <2>2. Nul \notin Characters
    BY DEF Characters, Nul
  <2>3. QED
    BY <1>1, <2>1, <2>2, NamesAssumption
<1>4. Len(name) \in 0..Len(file)
  BY <1>1, LenProperties DEF NameHeld
<1>5. /\ new \in Seq(Alphabet) /\ Len(new) \in Nat /\ Len(name) + Len(type) < Len(new)
      /\ \A c \in 1..Len(name) : new[c] = file[c]
      /\ \A c \in 1..Len(type) : new[Len(name) + c] = type[c]
      /\ new[Len(name) + Len(type) + 1] = Nul
  BY <1>2, <1>4, StoredString DEF stringChangeFileType
<1> HIDE DEF new
<1>6. NameHeld(new)
  BY <1>1, <1>2, <1>5 DEF NameHeld
<1>7. /\ name \o type \in Seq(Alphabet) /\ Len(name \o type) = Len(name) + Len(type)
      /\ \A c \in 1..(Len(name) + Len(type)) :
            (name \o type)[c] = IF c <= Len(name) THEN name[c] ELSE type[c - Len(name)]
  BY <1>1, <1>2, ConcatProperties
<1> DEFINE path == name \o type
<1> HIDE DEF path
<1>8. ASSUME NEW c \in 1..Len(path)
      PROVE  new[c] = path[c] /\ path[c] # Nul
  <2>1. CASE c <= Len(name)
    BY <1>1, <1>2, <1>3, <1>6, <1>7, <2>1 DEF NameHeld, path
  <2>2. CASE ~(c <= Len(name))
    <3>1. c - Len(name) \in 1..Len(type) /\ c = Len(name) + (c - Len(name))
      BY <1>1, <1>2, <1>7, <2>2 DEF path
    <3>2. path[c] = type[c - Len(name)]
      BY <1>7, <2>2 DEF path
    <3>3. new[Len(name) + (c - Len(name))] = type[c - Len(name)]
      BY <1>5, <3>1
    <3>4. QED
      BY <1>3, <3>1, <3>2, <3>3
  <2>3. QED
    BY <2>1, <2>2
<1>9. Path(new) = path
  BY <1>5, <1>7, <1>8, PathOfString DEF path
<1>10. QED
  BY <1>5, <1>6, <1>9 DEF new, path


-----------------------------------------------------------------------------
\* Every variable has its type.

\* The places of the program where a name is processed.
Places == {"copyNewFileName", "getInputDataFileFP", "getMainOutputDataFileFP",
           "fileOverrideWarning", "fopen", "parseMacroV2", "firstStage", "getObjectFP",
           "getEntryFP", "getExternFP", "closeFiles", "undefined"}

\* The program stays with the name, or goes on to the next.
LEMMA ProgramControl ==
    ASSUME TypeOK, Program, ~Exit
    PROVE  /\ pc \in Places \ {"undefined"} /\ argv' = argv /\ edits' = edits /\ runs' = runs
           /\ (pc' \in Places \ {"copyNewFileName"} /\ i' = i /\ before' = before) \/ NextName
<1> USE DEF nameVars, bounds, Places
<1>1. CASE copyNewFileName
  BY <1>1 DEF copyNewFileName
<1>2. CASE getInputDataFileFP
  BY <1>2 DEF getInputDataFileFP
<1>3. CASE getMainOutputDataFileFP
  BY <1>3 DEF getMainOutputDataFileFP
<1>4. CASE SkipCharacter
  BY <1>4 DEF SkipCharacter, getchar
<1>5. CASE Proceed
  BY <1>5 DEF Proceed, getchar
<1>6. CASE Abort
  BY <1>6 DEF Abort, getchar
<1>7. CASE fopen
  BY <1>7 DEF fopen
<1>8. CASE parseMacroV2
  BY <1>8 DEF parseMacroV2
<1>9. CASE firstStage
  BY <1>9 DEF firstStage
<1>10. CASE getObjectFP \/ getEntryFP \/ getExternFP
  BY <1>10 DEF getObjectFP, getEntryFP, getExternFP, getFilePointer
<1>11. CASE closeFiles
  BY <1>11 DEF closeFiles
<1>12. QED
  BY <1>1, <1>2, <1>3, <1>4, <1>5, <1>6, <1>7, <1>8, <1>9, <1>10, <1>11 DEF Program

\* The place in the program and on the command line stays where it may be.
LEMMA ControlKept ==
    ASSUME TypeOK, QuestionInv, [Next]_vars
    PROVE  ControlOK'
<1>0. /\ argv \in Seq(Names) /\ i \in 1..(Len(argv) + 1) /\ Len(argv) \in Nat
      /\ edits \in 0..MaxEdits /\ runs \in 0..MaxRuns
      /\ MaxEdits \in Nat /\ MaxRuns \in Nat
      /\ pc \notin {"shell", "exit"} => i <= Len(argv)
  BY NamesAssumption, LenProperties DEF TypeOK, ControlOK
<1>1. CASE Edit
  BY <1>0, <1>1 DEF Edit, nameVars, TypeOK, ControlOK
<1>2. CASE Start
  <2>1. argv' \in Seq(Names) /\ Len(argv') \in Nat /\ (argv' # <<>> => Len(argv') > 0)
    BY <1>2, NamesAssumption DEF Start, CommandLines
  <2>2. /\ i' = 1 /\ pc' = IF argv' = <<>> THEN "exit" ELSE "copyNewFileName"
        /\ runs' = runs + 1 /\ runs < MaxRuns /\ edits' = edits
    BY <1>2 DEF Start
  <2>3. QED
    BY <1>0, <2>1, <2>2 DEF ControlOK
<1>3. CASE \E answer \in Answers : Type(answer)
  BY <1>0, <1>3 DEF Type, nameVars, bounds, TypeOK, ControlOK
<1>4. CASE Program /\ ~Exit
  <2>1. /\ pc \in Places /\ argv' = argv /\ edits' = edits /\ runs' = runs
        /\ (pc' \in Places /\ i' = i) \/ NextName
    BY <1>4, ProgramControl
  <2>2. i <= Len(argv)
    BY <1>0, <2>1 DEF Places
  <2>3. CASE pc' \in Places /\ i' = i
    BY <1>0, <2>1, <2>2, <2>3 DEF ControlOK, Places
  <2>4. CASE NextName
    BY <1>0, <2>1, <2>2, <2>4 DEF ControlOK, NextName
  <2>5. QED
    BY <2>1, <2>3, <2>4
<1>5. CASE Exit
  <2>1. <<>> \in Seq(Names) /\ Len(<<>>) = 0
    OBVIOUS
  <2>2. QED
    BY <1>0, <1>5, <2>1 DEF Exit, bounds, ControlOK
<1>6. CASE UNCHANGED vars
  BY <1>0, <1>6 DEF vars, nameVars, bounds, TypeOK, ControlOK
<1>7. QED
  BY <1>1, <1>2, <1>3, <1>4, <1>5, <1>6 DEF Next

\* The program changes the extension in the buffer, or leaves the buffer.
LEMMA ProgramBuffer ==
    ASSUME TypeOK, Program, pc \notin BetweenNames
    PROVE  /\ room' = room /\ currFileNameLen' = currFileNameLen
           /\ file' = file \/ \E type \in Types : file' = stringChangeFileType(type)
<1> USE DEF nameVars, BetweenNames, Types
<1>2. CASE getInputDataFileFP
  BY <1>2 DEF getInputDataFileFP
<1>3. CASE getMainOutputDataFileFP
  BY <1>3 DEF getMainOutputDataFileFP
<1>4. CASE SkipCharacter
  BY <1>4 DEF SkipCharacter
<1>5. CASE Proceed
  BY <1>5 DEF Proceed
<1>6. CASE Abort
  BY <1>6 DEF Abort
<1>7. CASE fopen
  BY <1>7 DEF fopen
<1>8. CASE parseMacroV2
  BY <1>8 DEF parseMacroV2
<1>9. CASE firstStage
  BY <1>9 DEF firstStage
<1>10. CASE getObjectFP \/ getEntryFP \/ getExternFP
  BY <1>10 DEF getObjectFP, getEntryFP, getExternFP, getFilePointer
<1>11. CASE closeFiles
  BY <1>11 DEF closeFiles
<1>12. QED
  BY <1>2, <1>3, <1>4, <1>5, <1>6, <1>7, <1>8, <1>9, <1>10, <1>11
     DEF Program, copyNewFileName, Exit

\* The next name is copied over what the buffer held, or into a new one.
LEMMA NameStored ==
    ASSUME TypeOK, copyNewFileName
    PROVE  BufferOK' /\ NameHeld(file')
<1> DEFINE cells == IF currFileNameLen < Len(argv[i]) THEN <<>> ELSE file
<1>1. argv[i] \in Seq(Alphabet) /\ Len(argv[i]) \in Nat
  <2>1. argv[i] \in Names
    BY DEF copyNewFileName, TypeOK, ControlOK
  <2>2. QED
    BY <2>1, AlphabetStrings
<1>2. cells \in Seq(Alphabet) /\ 0 \in 0..Len(cells)
  BY LenProperties DEF TypeOK, BufferOK
<1>3. /\ file' = Stored(cells, 0, argv[i])
      /\ room' \in {room, Len(argv[i]) + 5}
      /\ currFileNameLen' \in {currFileNameLen, Len(argv[i])}
  BY DEF copyNewFileName, strCopy, Room, FILE_EXTENSION_LEN
<1> HIDE DEF cells
<1>4. /\ file' \in Seq(Alphabet) /\ Len(argv[i]) < Len(file')
      /\ \A c \in 1..Len(argv[i]) : file'[c] = argv[i][c]
  <2>1. /\ file' \in Seq(Alphabet) /\ Len(file') \in Nat /\ 0 + Len(argv[i]) < Len(file')
        /\ \A c \in 1..Len(argv[i]) : file'[0 + c] = argv[i][c]
    BY <1>1, <1>2, <1>3, StoredString
  <2>2. QED
    BY <1>1, <2>1
<1>5. BufferOK'
  BY <1>1, <1>3, <1>4 DEF TypeOK, BufferOK
<1>6. QED
  BY <1>4, <1>5 DEF NameHeld

\* The name buffer stays a string of characters.
LEMMA BufferKept ==
    ASSUME LoopInv, [Next]_vars
    PROVE  BufferOK'
<1>0. TypeOK /\ BufferOK
  BY DEF LoopInv, TypeOK
<1>1. CASE Edit \/ Start \/ (\E answer \in Answers : Type(answer)) \/ UNCHANGED vars
  BY <1>0, <1>1 DEF Edit, Start, Type, vars, nameVars, BufferOK
<1>2. CASE copyNewFileName
  BY <1>0, <1>2, NameStored
<1>3. CASE Program /\ pc \notin BetweenNames
  <2>1. /\ room' = room /\ currFileNameLen' = currFileNameLen
        /\ file' = file \/ \E type \in Types : file' = stringChangeFileType(type)
    BY <1>0, <1>3, ProgramBuffer
  <2>2. ASSUME NEW type \in Types
        PROVE  stringChangeFileType(type) \in Seq(Alphabet)
    BY <1>0, <1>3, ExtensionStored DEF LoopInv, TypeOK, BufferOK, PathInv
  <2>3. QED
    BY <1>0, <2>1, <2>2 DEF BufferOK
<1>4. CASE Exit
  <2>1. <<>> \in Seq(Alphabet)
    OBVIOUS
  <2>2. QED
    BY <1>4, <2>1 DEF Exit, BufferOK
<1>5. QED
  <2>1. Program => copyNewFileName \/ Exit \/ pc \notin BetweenNames
    BY DEF Program, BetweenNames, getInputDataFileFP, getMainOutputDataFileFP, getchar, SkipCharacter,
           Proceed, Abort, fopen, parseMacroV2, firstStage, getObjectFP, getEntryFP, getExternFP, closeFiles
  <2>2. QED
    BY <1>1, <1>2, <1>3, <1>4, <2>1 DEF Next


\* A text that is written leaves a disk of texts.
LEMMA TextStored ==
    ASSUME NEW d, IsDisk(d), NEW p, NEW text \in Texts
    PROVE  IsDisk(With(d, p, text))
BY DEF With, IsDisk

\* An .am file just truncated and one that could not be read are texts too.
LEMMA SpecialTexts == Truncated \in Texts /\ NothingRead \in Texts
BY NamesAssumption DEF Truncated, NothingRead, Texts

\* What is on disk, what was read and what is open stay what they may be.
LEMMA FilesKept ==
    ASSUME TypeOK, HandleInv, [Next]_vars
    PROVE  FilesOK'
<1>0. /\ IsDisk(disk) /\ IsDisk(before) /\ content \in Texts
      /\ outputs \subseteq {ob, ent, ext} /\ openFiles \in Nat
  BY DEF TypeOK, FilesOK
<1> DEFINE Kept(d, b) == /\ IsDisk(d) /\ IsDisk(b)
<1>1. CASE Edit
  <2>1. PICK name \in Names, v \in Verdicts :
           disk' = With(disk, name \o as, [version |-> edits + 1, verdict |-> v[1], calls |-> v[2]])
    BY <1>1 DEF Edit
  <2>2. edits + 1 \in 0..MaxEdits
    BY <1>1, NamesAssumption DEF Edit, TypeOK, ControlOK
  <2>3. [version |-> edits + 1, verdict |-> v[1], calls |-> v[2]] \in Texts
    BY <2>2, VerdictsAssumption DEF Texts
  <2>4. IsDisk(disk')
    BY <1>0, <2>1, <2>3, TextStored
  <2>5. before' = disk' /\ content' = content /\ outputs' = outputs /\ openFiles' = openFiles
    BY <1>1 DEF Edit
  <2>6. QED
    BY <1>0, <2>4, <2>5 DEF FilesOK, IsDisk
<1>2. CASE UNCHANGED <<fileVars, before>>
  BY <1>0, <1>2 DEF fileVars, FilesOK, IsDisk
<1>3. CASE Start \/ (\E answer \in Answers : Type(answer)) \/ copyNewFileName \/ SkipCharacter \/ Proceed
           \/ UNCHANGED vars
  BY <1>2, <1>3 DEF Start, Type, copyNewFileName, SkipCharacter, Proceed, vars
<1>4. ASSUME before' = before \/ before' = disk', IsDisk(disk'), content' \in Texts,
             outputs' \subseteq {ob, ent, ext}, openFiles' \in Nat
      PROVE  FilesOK'
  BY <1>0, <1>4 DEF FilesOK, IsDisk
<1>5. CASE getInputDataFileFP
  <2>1. disk' = disk /\ outputs' = outputs /\ openFiles' \in Nat /\ (before' = before \/ before' = disk')
    <3>1. disk' = disk /\ outputs' = outputs /\ (before' = before \/ before' = disk')
      BY <1>5 DEF getInputDataFileFP, NextName
    <3>2. openFiles' = openFiles + 1 \/ openFiles' = openFiles
      BY <1>5 DEF getInputDataFileFP
    <3>3. QED
      BY <1>0, <3>1, <3>2
  <2>2. content' \in Texts
    BY <1>0, <1>5 DEF getInputDataFileFP, Readable, IsDisk
  <2>3. IsDisk(disk')
    BY <1>0, <2>1 DEF IsDisk
  <2>4. QED
    BY <1>0, <1>4, <2>1, <2>2, <2>3
<1>6. CASE getMainOutputDataFileFP
  <2>1. disk' = disk /\ IsDisk(disk') /\ openFiles' \in Nat
    BY <1>0, <1>6 DEF getMainOutputDataFileFP, IsDisk
  <2>2. QED
    BY <1>0, <1>4, <1>6, <2>1 DEF getMainOutputDataFileFP
<1>7. CASE Abort
  <2>1. openFiles' \in Nat
    BY <1>7 DEF Abort, getchar, HandleInv, HandlesOpen
  <2>2. disk' = disk /\ IsDisk(disk')
    BY <1>0, <1>7 DEF Abort, IsDisk
  <2>3. QED
    BY <1>0, <1>4, <1>7, <2>1, <2>2 DEF Abort, NextName
<1>8. CASE fopen
  <2>1. IsDisk(disk')
    <3>1. CASE disk' = disk
      BY <1>0, <3>1 DEF IsDisk
    <3>2. CASE disk' = With(disk, Path(file), Truncated)
      BY <1>0, <3>2, TextStored, SpecialTexts
    <3>3. QED
      BY <1>8, <3>1, <3>2 DEF fopen
  <2>2. QED
    BY <1>0, <1>4, <1>8, <2>1 DEF fopen
<1>9. CASE parseMacroV2
  <2>1. IsDisk(disk')
    BY <1>0, <1>9, TextStored DEF parseMacroV2
  <2>2. openFiles' \in Nat
    <3>1. pc = "parseMacroV2" /\ openFiles' = openFiles - 2
      BY <1>9 DEF parseMacroV2
    <3>2. HandlesOpen(2) /\ questions \in Nat
      BY <3>1 DEF HandleInv
    <3>3. QED
      BY <3>1, <3>2 DEF HandlesOpen
  <2>3. QED
    BY <1>0, <1>4, <1>9, <2>1, <2>2 DEF parseMacroV2, NextName
<1>10. CASE firstStage
  <2>1. disk' = disk /\ IsDisk(disk')
    BY <1>0, <1>10 DEF firstStage, IsDisk
  <2>2. content' \in Texts
    BY <1>0, <1>10, SpecialTexts DEF firstStage, Readable, IsDisk
  <2>3. QED
    BY <1>0, <1>4, <1>10, <2>1, <2>2 DEF firstStage, NextName
<1>11. ASSUME NEW type \in {ob, ent, ext}, NEW next, getFilePointer(type, next)
       PROVE  FilesOK'
  <2>1. IsDisk(disk')
    <3>1. CASE disk' = disk
      BY <1>0, <3>1 DEF IsDisk
    <3>2. CASE disk' = With(disk, Path(file'), content)
      BY <1>0, <3>2, TextStored
    <3>3. QED
      BY <1>11, <3>1, <3>2 DEF getFilePointer
  <2>2. openFiles' \in Nat /\ outputs' \subseteq {ob, ent, ext}
    BY <1>0, <1>11 DEF getFilePointer
  <2>3. QED
    BY <1>0, <1>4, <1>11, <2>1, <2>2 DEF getFilePointer
<1>12. CASE getObjectFP \/ getEntryFP \/ getExternFP
  BY <1>11, <1>12 DEF getObjectFP, getEntryFP, getExternFP
<1>13. CASE closeFiles
  <2>1. openFiles' \in Nat
    <3>1. pc = "closeFiles" /\ openFiles' = openFiles - Cardinality(outputs)
      BY <1>13 DEF closeFiles
    <3>2. OutputsOpen({ob, ent, ext}) /\ questions \in Nat
      BY <3>1 DEF HandleInv
    <3>3. Cardinality(outputs) \in Nat
      BY <1>0, ExtensionsDiffer, OutputOpened DEF Types
    <3>4. QED
      BY <3>1, <3>2, <3>3 DEF OutputsOpen
  <2>2. disk' = disk /\ IsDisk(disk')
    BY <1>0, <1>13 DEF closeFiles, IsDisk
  <2>3. QED
    BY <1>0, <1>4, <1>13, <2>1, <2>2 DEF closeFiles, NextName
<1>14. CASE Exit
  <2>1. IsDisk(disk')
    BY <1>0, <1>14 DEF Exit, IsDisk
  <2>2. QED
    BY <1>0, <1>4, <1>14, <2>1, SpecialTexts DEF Exit
<1>15. QED
  BY <1>1, <1>3, <1>5, <1>6, <1>7, <1>8, <1>9, <1>10, <1>12, <1>13, <1>14 DEF Next, Program

\* What is left of the input is the rest of what was typed.
LEMMA CharacterRead ==
    ASSUME InputOK, getchar
    PROVE  /\ stdin' \in Seq(Alphabet) /\ leftover' \in 0..Len(stdin') /\ consent' \in BOOLEAN
           /\ \A c \in 1..Len(stdin') : stdin'[c] = stdin[c] \/ (c + 1 \in 1..Len(stdin) /\ stdin'[c] = stdin[c + 1])
<1>1. /\ stdin \in Seq(Alphabet) /\ stdin # <<>> /\ Len(stdin) \in Nat /\ leftover \in 0..Len(stdin)
      /\ stdin' = stdin \/ stdin' = Tail(stdin)
      /\ leftover' = IF leftover = 0 THEN 0 ELSE leftover - 1
      /\ consent' = (Head(stdin) \in Yes /\ leftover = 0)
  BY LenProperties DEF InputOK, getchar
<1>2. CASE stdin' = stdin
  BY <1>1, <1>2
<1>3. CASE stdin' = Tail(stdin)
  <2>1. /\ Tail(stdin) \in Seq(Alphabet) /\ Len(Tail(stdin)) = Len(stdin) - 1
        /\ \A c \in 1..(Len(stdin) - 1) : Tail(stdin)[c] = stdin[c + 1]
        /\ Len(stdin) > 0
    BY <1>1
  <2>2. QED
    BY <1>1, <1>3, <2>1
<1>4. QED
  BY <1>1, <1>2, <1>3

\* The input stays what was typed, and no name has two questions.
LEMMA InputKept ==
    ASSUME TypeOK, QuestionInv, [Next]_vars
    PROVE  InputOK' /\ QuestionInv'
<1>0. /\ stdin \in Seq(Alphabet) /\ Len(stdin) \in Nat /\ leftover \in 0..Len(stdin)
      /\ consent \in BOOLEAN /\ questions \in 0..i /\ i \in Nat
  BY LenProperties DEF TypeOK, InputOK, ControlOK
<1>1. CASE Edit \/ Start \/ UNCHANGED vars
  BY <1>0, <1>1 DEF Edit, Start, vars, userVars, nameVars, InputOK, QuestionInv
<1>2. ASSUME NEW answer \in Answers, Type(answer)
      PROVE  InputOK' /\ QuestionInv'
  <2>1. answer \in Seq(Alphabet) /\ Len(answer) \in Nat
    BY AlphabetStrings
  <2>2. Len(stdin) = 0
    BY <1>2 DEF Type
  <2>3. stdin' = answer /\ leftover' = 0
    BY <1>0, <1>2, <2>2 DEF Type
  <2>4. QED
    BY <1>0, <1>2, <2>1, <2>3 DEF Type, nameVars, InputOK, QuestionInv
<1>3. ASSUME stdin' \in Seq(Alphabet), leftover' \in 0..Len(stdin'), consent' \in BOOLEAN,
             questions' = questions,
             pc \notin {"copyNewFileName", "getInputDataFileFP", "getMainOutputDataFileFP", "shell", "exit"}
                \/ pc' \in {"undefined", "getInputDataFileFP", "getMainOutputDataFileFP"} \/ NextName,
             (pc' \in Places \ {"copyNewFileName"} /\ i' = i) \/ NextName,
             pc' \in {"getInputDataFileFP", "getMainOutputDataFileFP"} =>
                pc \in {"copyNewFileName", "getInputDataFileFP"}
      PROVE  InputOK' /\ QuestionInv'
  BY <1>0, <1>3 DEF InputOK, QuestionInv, NextName, Places
<1>5. CASE copyNewFileName
  BY <1>0, <1>3, <1>5 DEF copyNewFileName, userVars, Places
<1>6. CASE getInputDataFileFP
  BY <1>0, <1>3, <1>6 DEF getInputDataFileFP, userVars, Places
<1>7. CASE getMainOutputDataFileFP
  <2>1. questions' \in 0..i
    BY <1>0, <1>7 DEF getMainOutputDataFileFP, QuestionInv
  <2>2. stdin' \in Seq(Alphabet) /\ leftover' \in 0..Len(stdin') /\ consent' \in BOOLEAN
    <3>1. stdin' = stdin /\ (leftover' = Len(stdin) \/ leftover' = leftover)
      BY <1>7 DEF getMainOutputDataFileFP
    <3>2. consent' = FALSE
      BY <1>7 DEF getMainOutputDataFileFP
    <3>3. stdin' \in Seq(Alphabet) /\ leftover' \in 0..Len(stdin')
      BY <1>0, <3>1
    <3>4. QED
      BY <3>2, <3>3
  <2>3. pc' \in {"fileOverrideWarning", "fopen"} /\ i' = i
    BY <1>7 DEF getMainOutputDataFileFP
  <2>4. QED
    BY <2>1, <2>2, <2>3 DEF InputOK, QuestionInv
<1>8. CASE getchar /\ (SkipCharacter \/ Proceed \/ Abort)
  <2>1. /\ stdin' \in Seq(Alphabet) /\ leftover' \in 0..Len(stdin') /\ consent' \in BOOLEAN
    BY <1>8, CharacterRead DEF TypeOK
  <2>2. questions' = questions /\ pc = "fileOverrideWarning"
        /\ ((pc' \in {"fileOverrideWarning", "fopen"} /\ i' = i) \/ NextName)
    BY <1>8 DEF getchar, SkipCharacter, Proceed, Abort, nameVars
  <2>3. pc' \notin {"getInputDataFileFP", "getMainOutputDataFileFP"}
    BY <2>2 DEF NextName
  <2>4. QED
    BY <1>3, <2>1, <2>2, <2>3 DEF Places
<1>9. CASE fopen
  BY <1>0, <1>3, <1>9 DEF fopen, nameVars, userVars, Places
<1>10. CASE parseMacroV2
  BY <1>0, <1>3, <1>10 DEF parseMacroV2, userVars, NextName, Places
<1>11. CASE firstStage
  BY <1>0, <1>3, <1>11 DEF firstStage, userVars, NextName, Places
<1>12. CASE getObjectFP \/ getEntryFP \/ getExternFP
  BY <1>0, <1>3, <1>12 DEF getObjectFP, getEntryFP, getExternFP, getFilePointer, userVars, Places
<1>13. CASE closeFiles
  BY <1>0, <1>3, <1>13 DEF closeFiles, userVars, NextName, Places
<1>14. CASE Exit
  <2>1. <<>> \in Seq(Alphabet) /\ Len(<<>>) = 0
    OBVIOUS
  <2>2. /\ stdin' = <<>> /\ leftover' = 0 /\ questions' = 0 /\ i' = 1
        /\ consent' \in BOOLEAN
    BY <1>14 DEF Exit
  <2>3. QED
    BY <2>1, <2>2 DEF InputOK, QuestionInv
<1>15. QED
  BY <1>1, <1>2, <1>5, <1>6, <1>7, <1>8, <1>9, <1>10, <1>11, <1>12, <1>13, <1>14
     DEF Next, Program, SkipCharacter, Proceed, Abort

\* The name stays in the buffer, and behind it the extension of the file in question.
LEMMA PathKept ==
    ASSUME LoopInv, [Next]_vars
    PROVE  PathInv'
<1>0. TypeOK /\ PathInv /\ ControlOK /\ file \in Seq(Alphabet)
  BY DEF LoopInv, TypeOK, BufferOK
<1>1. ASSUME pc' \in BetweenNames
      PROVE  PathInv'
  BY <1>1 DEF PathInv, BetweenNames
<1>2. ASSUME NameHeld(file'), argv' = argv, i' = i,
             pc' \in {"fileOverrideWarning", "fopen", "parseMacroV2", "firstStage"} =>
                Path(file') = argv[i] \o am
      PROVE  PathInv'
  BY <1>2 DEF PathInv, NameHeld
<1>3. ASSUME UNCHANGED nameVars, pc \notin BetweenNames,
             pc' \in {"fileOverrideWarning", "fopen", "parseMacroV2", "firstStage"} =>
                pc \in {"fileOverrideWarning", "fopen", "parseMacroV2", "firstStage"}
      PROVE  PathInv'
  BY <1>0, <1>3 DEF nameVars, PathInv, NameHeld
<1>4. CASE Edit \/ Start \/ copyNewFileName \/ Exit
  <2>1. CASE copyNewFileName
    BY <1>0, <1>2, <2>1, NameStored DEF copyNewFileName
  <2>2. CASE Edit \/ Start \/ Exit
    BY <1>1, <2>2 DEF Edit, Start, Exit, BetweenNames
  <2>3. QED
    BY <1>4, <2>1, <2>2
<1>5. CASE (\E answer \in Answers : Type(answer)) \/ SkipCharacter \/ Proceed
  BY <1>3, <1>5 DEF Type, SkipCharacter, Proceed, getchar, BetweenNames
<1>6. ASSUME NEW type \in Types, file' = stringChangeFileType(type), pc \notin BetweenNames
      PROVE  NameHeld(file') /\ Path(file') = argv[i] \o type
  BY <1>0, <1>6, ExtensionStored DEF PathInv
<1>7. CASE NextName
  BY <1>1, <1>7 DEF NextName, BetweenNames
<1>8. CASE getInputDataFileFP
  <2>1. file' = stringChangeFileType(as) /\ pc = "getInputDataFileFP" /\ argv' = argv
        /\ ((pc' = "getMainOutputDataFileFP" /\ i' = i) \/ NextName)
    BY <1>8 DEF getInputDataFileFP
  <2>2. NameHeld(file')
    BY <1>6, <2>1 DEF BetweenNames, Types
  <2>3. QED
    BY <1>2, <1>7, <2>1, <2>2
<1>9. CASE getMainOutputDataFileFP
  <2>1. file' = stringChangeFileType(am) /\ pc = "getMainOutputDataFileFP" /\ argv' = argv /\ i' = i
    BY <1>9 DEF getMainOutputDataFileFP
  <2>2. NameHeld(file') /\ Path(file') = argv[i] \o am
    BY <1>6, <2>1 DEF BetweenNames, Types
  <2>3. QED
    BY <1>2, <2>1, <2>2
<1>10. CASE Abort \/ closeFiles
  BY <1>7, <1>10 DEF Abort, closeFiles
<1>11. CASE fopen
  BY <1>3, <1>11 DEF fopen, BetweenNames
<1>12. CASE parseMacroV2 \/ firstStage
  <2>1. NextName \/ (pc \in {"parseMacroV2", "firstStage"} /\ UNCHANGED nameVars)
    BY <1>12 DEF parseMacroV2, firstStage, nameVars
  <2>2. QED
    BY <1>3, <1>7, <2>1 DEF BetweenNames
<1>13. CASE getObjectFP \/ getEntryFP \/ getExternFP
  <2>1. /\ pc \in {"getObjectFP", "getEntryFP", "getExternFP"} /\ argv' = argv /\ i' = i
        /\ pc' \in {"getEntryFP", "getExternFP", "closeFiles"}
        /\ file' = file \/ \E type \in Types : file' = stringChangeFileType(type)
    BY <1>13 DEF getObjectFP, getEntryFP, getExternFP, getFilePointer, Types
  <2>2. NameHeld(file')
    BY <1>0, <1>6, <2>1 DEF PathInv, BetweenNames
  <2>3. QED
    BY <1>2, <2>1, <2>2
<1>14. CASE UNCHANGED vars
  BY <1>0, <1>14 DEF vars, nameVars, PathInv, NameHeld
<1>15. QED
  BY <1>4, <1>5, <1>8, <1>9, <1>10, <1>11, <1>12, <1>13, <1>14 DEF Next, Program

\* The name, its type and the number of questions are kept by every step.
LEMMA LoopInvariant == Spec => []LoopInv
<1>1. Init => LoopInv
  <2> SUFFICES ASSUME Init PROVE LoopInv
    OBVIOUS
  <2>1. <<>> \in Seq(Names) /\ <<>> \in Seq(Alphabet) /\ Len(<<>>) = 0 /\ DOMAIN <<>> = {}
    OBVIOUS
  <2>2. ControlOK /\ BufferOK
    BY <2>1, NamesAssumption DEF Init, ControlOK, BufferOK
  <2>6. InputOK
    <3>1. stdin = <<>> /\ leftover = 0 /\ questions = 0 /\ i = 1 /\ consent \in BOOLEAN
      BY DEF Init
    <3>2. QED
      BY <2>1, <3>1 DEF InputOK
  <2>3. FilesOK
    BY <2>1, SpecialTexts DEF Init, FilesOK, IsDisk
  <2>4. PathInv /\ QuestionInv
    BY DEF Init, PathInv, QuestionInv, BetweenNames
  <2>5. QED
    BY <2>2, <2>3, <2>4, <2>6 DEF LoopInv, TypeOK
<1>2. LoopInv /\ HandleInv /\ [Next]_vars => LoopInv'
  <2> SUFFICES ASSUME LoopInv, HandleInv, [Next]_vars PROVE LoopInv'
    OBVIOUS
  <2>1. ControlOK' /\ FilesOK' /\ InputOK' /\ QuestionInv'
    BY ControlKept, FilesKept, InputKept DEF LoopInv
  <2>2. BufferOK' /\ PathInv'
    BY BufferKept, PathKept
  <2>3. QED
    BY <2>1, <2>2 DEF LoopInv, TypeOK
<1>3. QED
  BY <1>1, <1>2, HandleInvariant, PTL DEF Spec

\* The name buffer, the files and the input are what TypeOK says, for all names and answers.
THEOREM LoopTypes == Spec => []TypeOK
<1>1. LoopInv => TypeOK
  BY DEF LoopInv
<1>2. QED
  BY <1>1, LoopInvariant, PTL

-----------------------------------------------------------------------------
\* Each name as if it was alone.

\* Where a source is open or was read.
Writing   == {"getObjectFP", "getEntryFP", "getExternFP", "closeFiles"}
Assembling == {"getMainOutputDataFileFP", "fileOverrideWarning", "fopen", "parseMacroV2",
               "firstStage"} \cup Writing

Source == before[argv[i] \o as]

\* The types of file whose turn has come.
Done == CASE pc = "getObjectFP" -> {}
          [] pc = "getEntryFP"  -> {ob}
          [] pc = "getExternFP" -> {ob, ent}
          [] OTHER -> {ob, ent, ext}

\* The files written for a name.
FilesOf(name, types) == {name \o am} \cup ({name \o type : type \in types} \ Unwritable)

\* What is on disk while a name is assembled is what the names before it left, and
\* the files written so far.
BatchInv ==
    /\ pc = "exit" => i = Len(argv) + 1
    /\ pc \in Assembling => argv[i] \o as \in DOMAIN before \ Unreadable
    /\ pc \notin {"parseMacroV2", "firstStage", "undefined"} \cup Writing => disk = before
    /\ pc \in {"getMainOutputDataFileFP", "fileOverrideWarning", "fopen", "parseMacroV2"} =>
          content = Source
    /\ pc = "fileOverrideWarning" => argv[i] \o am \in Readable
    /\ pc = "parseMacroV2" => disk = AsIfAlone!With(before, {argv[i] \o am}, Truncated)
    /\ pc = "firstStage" => /\ disk = AsIfAlone!With(before, {argv[i] \o am}, Source)
                            /\ Source.verdict # "macro error"
    /\ pc \in Writing =>
          /\ content = IF argv[i] \o am \in Unreadable THEN NothingRead ELSE Source
          /\ content.verdict = "accepted"
          /\ disk = AsIfAlone!With(before, FilesOf(argv[i], content.calls \cap Done), Source)

\* The files of a name are no older than those they are made from, and an output file that
\* is older has its reason.
FreshName(d, time, name) ==
    /\ name \o as \in DOMAIN d => d[name \o as].version <= time
    /\ name \o am \in DOMAIN d =>
          /\ name \o as \in DOMAIN d
          /\ d[name \o am].version <= d[name \o as].version
    /\ \A type \in {ob, ent, ext} :
          name \o type \in DOMAIN d =>
              /\ name \o am \in DOMAIN d
              /\ d[name \o type].version <= d[name \o am].version
              /\ \/ d[name \o type] = d[name \o am]
                 \/ d[name \o am].verdict # "accepted"
                 \/ type \notin d[name \o am].calls
                 \/ name \o type \in Unwritable \/ name \o am \in Unreadable

FreshInv == \A name \in Names : FreshName(before, edits, name)

\* Behind the first character that ends a question there is no y.
OneAnswer(typed) ==
    \A c, d \in 1..Len(typed) :
        c < d /\ typed[c] \in Yes \cup No \cup {EndOfFile, Nul} => typed[d] \notin Yes

\* What is left of the answers cannot answer a question with y.
ConsentInv ==
    /\ pc # "fileOverrideWarning" => \A c \in 1..Len(stdin) : stdin[c] \notin Yes
    /\ pc = "fileOverrideWarning" => /\ \A c \in 1..leftover : stdin[c] \notin Yes
                                     /\ OneAnswer(stdin)
    /\ pc = "fopen" => consent \/ argv[i] \o am \notin Readable


\* The loop takes the names in their order.
LEMMA TodoType ==
    ASSUME TypeOK
    PROVE  todo \in Seq(Names)
<1>1. /\ argv \in Seq(Names) /\ i \in Int /\ Len(argv) \in Int /\ 1 <= i
      /\ \A n \in i..Len(argv) : argv[n] \in Names
  BY LenProperties DEF TypeOK, ControlOK
<1>2. SubSeq(argv, i, Len(argv)) \in Seq(Names)
  BY <1>1, SubSeqProperties
<1>3. QED
  BY <1>2 DEF todo

\* The next name is the first of those still to be processed.
LEMMA NameTaken ==
    ASSUME TypeOK, pc \in Places, argv' = argv, NextName
    PROVE  /\ todo # <<>> /\ Head(todo) = argv[i] /\ todo' = Tail(todo) /\ argv[i] \in Names
           /\ pc' = "exit" => i' = Len(argv') + 1
<1>1. /\ argv \in Seq(Names) /\ i \in 1..Len(argv) /\ Len(argv) \in i..Len(argv) /\ Len(argv) \in Nat
      /\ \A n \in i..Len(argv) : argv[n] \in Names
  BY LenProperties DEF TypeOK, ControlOK, Places
<1>2. todo = SubSeq(argv, i, Len(argv))
  BY DEF todo, Places
<1>3. todo # <<>>
  <2>1. Len(SubSeq(argv, i, Len(argv))) = Len(argv) - i + 1
    BY <1>1, SubSeqProperties
  <2>2. Len(SubSeq(argv, i, Len(argv))) # 0 /\ Len(<<>>) = 0
    BY <1>1, <2>1
  <2>3. QED
    BY <1>2, <2>2, Zenon
<1>4. Head(todo) = argv[i] /\ Tail(todo) = SubSeq(argv, i + 1, Len(argv))
  BY <1>1, <1>2, HeadTailOfSubSeq
<1>5. todo' = SubSeq(argv, i + 1, Len(argv))
  BY DEF todo, NextName
<1>6. pc' = "exit" => i' = Len(argv') + 1
  BY <1>1 DEF NextName
<1>7. todo' = Tail(todo)
  BY <1>4, <1>5, Zenon
<1>8. argv[i] \in Names
  BY <1>1
<1>9. QED
  BY <1>3, <1>4, <1>6, <1>7, <1>8

\* Writing one file after the other is writing the set of them.
LEMMA OneWritten ==
    ASSUME NEW d, NEW p, NEW text
    PROVE  With(d, p, text) = AsIfAlone!With(d, {p}, text)
BY DEF With, AsIfAlone!With

\* One more file joins the set.
LEMMA OneMoreWritten ==
    ASSUME NEW d, NEW paths, NEW p, NEW text
    PROVE  With(AsIfAlone!With(d, paths, text), p, text) = AsIfAlone!With(d, paths \cup {p}, text)
BY DEF With, AsIfAlone!With

\* A file that is written again has the new text.
LEMMA WrittenAgain ==
    ASSUME NEW d, NEW p, NEW text, NEW other
    PROVE  With(AsIfAlone!With(d, {p}, other), p, text) = AsIfAlone!With(d, {p}, text)
BY DEF With, AsIfAlone!With

\* A file that can be written joins the files of the name.
LEMMA FileAdded ==
    ASSUME NEW name, NEW types, NEW type, name \o type \notin Unwritable
    PROVE  FilesOf(name, types \cup {type}) = FilesOf(name, types) \cup {name \o type}
BY DEF FilesOf

\* One that cannot be written does not.
LEMMA FileNotAdded ==
    ASSUME NEW name, NEW types, NEW type, name \o type \in Unwritable
    PROVE  FilesOf(name, types \cup {type}) = FilesOf(name, types)
BY DEF FilesOf

\* The files a source gets when it was assembled.
Called(name, source) ==
    IF source.verdict = "accepted" /\ name \o am \notin Unreadable THEN source.calls ELSE {}

\* A name is done when its files are written.
LEMMA NameDone ==
    ASSUME TypeOK, pc \in Places, argv' = argv, NextName,
           argv[i] \o as \in DOMAIN before \ Unreadable,
           disk' = AsIfAlone!With(before, FilesOf(argv[i], Called(argv[i], Source)), Source)
    PROVE  AsIfAlone!Assemble
<1>1. /\ todo # <<>> /\ Head(todo) = argv[i] /\ todo' = Tail(todo)
  BY NameTaken
<1>2. AsIfAlone!am = am /\ AsIfAlone!as = as /\ AsIfAlone!Readable = DOMAIN before \ Unreadable
  BY DEF AsIfAlone!am, AsIfAlone!as, am, as, AsIfAlone!Readable
<1>3. before' = disk'
  BY DEF NextName
<1>4. before' = AsIfAlone!Assembled(argv[i])
  BY <1>2, <1>3 DEF AsIfAlone!Assembled, FilesOf, Called, Source
<1>5. QED
  BY <1>1, <1>2, <1>4 DEF AsIfAlone!Assemble, todo

\* Or when it is given up.
LEMMA NameGivenUp ==
    ASSUME TypeOK, pc \in Places, argv' = argv, NextName, disk' = before,
           argv[i] \o as \in DOMAIN before \ Unreadable => argv[i] \o am \in DOMAIN before \ Unreadable
    PROVE  AsIfAlone!Skip
<1>1. /\ todo # <<>> /\ Head(todo) = argv[i] /\ todo' = Tail(todo)
  BY NameTaken
<1>2. AsIfAlone!am = am /\ AsIfAlone!as = as /\ AsIfAlone!Readable = DOMAIN before \ Unreadable
  BY DEF AsIfAlone!am, AsIfAlone!as, am, as, AsIfAlone!Readable
<1>3. before' = before
  BY DEF NextName
<1>4. QED
  BY <1>1, <1>2, <1>3 DEF AsIfAlone!Skip, todo


\* The program stays at the name.
AtSameName == pc \in Places /\ pc' \in Places /\ argv' = argv /\ i' = i /\ before' = before

\* While the program stays at a name, so does its source and what is still to be done.
LEMMA NameStays ==
    ASSUME AtSameName
    PROVE  before' = before /\ todo' = todo /\ Source' = Source /\ argv'[i'] = argv[i]
BY DEF AtSameName, todo, Source, Places

\* When the next name is taken, the files of this one are the disk it starts from.
LEMMA NextBegun ==
    ASSUME TypeOK, pc \in Places, argv' = argv, NextName
    PROVE  BatchInv'
<1>1. pc' \in {"copyNewFileName", "exit"} /\ disk' = before' /\ (pc' = "exit" => i' = Len(argv') + 1)
  BY NameTaken DEF NextName
<1>2. QED
  BY <1>1 DEF BatchInv, Assembling, Writing

\* Before anything is written.
LEMMA NothingWritten ==
    ASSUME AtSameName, disk' = disk, disk = before,
           pc' \in {"copyNewFileName", "getInputDataFileFP", "getMainOutputDataFileFP",
                    "fileOverrideWarning", "fopen", "undefined"},
           pc' \in Assembling => argv[i] \o as \in DOMAIN before \ Unreadable /\ content' = Source,
           pc' = "fileOverrideWarning" => argv[i] \o am \in Readable
    PROVE  BatchInv'
<1>1. before' = before /\ Source' = Source /\ argv'[i'] = argv[i]
  BY NameStays
<1>2. Readable' = Readable
  BY DEF Readable
<1>3. (argv[i] \o am)' = argv[i] \o am /\ (argv[i] \o as)' = argv[i] \o as
  BY <1>1
<1>4. QED
  BY <1>1, <1>2, <1>3 DEF BatchInv, Assembling, Writing

\* Where the outcome of the null pointer is all there is.
LEMMA Undefined ==
    ASSUME pc' = "undefined"
    PROVE  BatchInv'
BY DEF BatchInv, Assembling, Writing

\* The source of the name is a text.
LEMMA SourceType ==
    ASSUME TypeOK, argv[i] \o as \in DOMAIN before \ Unreadable
    PROVE  Source \in Texts
BY DEF TypeOK, FilesOK, IsDisk, Source

\* One of the output files, or its turn has passed.
LEMMA OutputWritten ==
    ASSUME LoopInv, BatchInv, NEW type \in {ob, ent, ext}, NEW next, getFilePointer(type, next),
           pc \in {"getObjectFP", "getEntryFP", "getExternFP"},
           next \in {"getEntryFP", "getExternFP", "closeFiles"},
           Done' = Done \cup {type}
    PROVE  BatchInv' /\ AtSameName
<1> DEFINE name  == argv[i]
           files == FilesOf(name, content.calls \cap Done)
<1>1. /\ pc' = next /\ argv' = argv /\ i' = i /\ before' = before /\ content' = content
      /\ AtSameName
  BY DEF getFilePointer, AtSameName, Places
<1>2. /\ name \o as \in DOMAIN before \ Unreadable
      /\ content = IF name \o am \in Unreadable THEN NothingRead ELSE Source
      /\ content.verdict = "accepted"
      /\ disk = AsIfAlone!With(before, files, Source)
  BY DEF BatchInv, Assembling, Writing
<1>3. type \in content.calls => Path(file') = name \o type
  <2>1. file' = stringChangeFileType(type) => Path(file') = name \o type
    BY ExtensionStored DEF LoopInv, TypeOK, BufferOK, PathInv, BetweenNames, Types
  <2>2. QED
    BY <2>1 DEF getFilePointer
<1>4. disk' = AsIfAlone!With(before, FilesOf(name, content.calls \cap (Done \cup {type})), Source)
  <2>1. CASE type \in content.calls /\ name \o type \notin Unwritable
    <3>1. disk' = With(disk, name \o type, content)
      BY <1>3, <2>1 DEF getFilePointer
    <3>2. content = Source
      BY <1>2, <2>1 DEF NothingRead
    <3>3. disk' = AsIfAlone!With(before, files \cup {name \o type}, Source)
      <4>1. disk' = With(AsIfAlone!With(before, files, Source), name \o type, Source)
        BY <1>2, <3>1, <3>2, Zenon
      <4> DEFINE path == name \o type
      <4> HIDE DEF files, path
      <4>2. With(AsIfAlone!With(before, files, Source), path, Source)
               = AsIfAlone!With(before, files \cup {path}, Source)
        BY OneMoreWritten
      <4>3. QED
        BY <4>1, <4>2, Zenon DEF files, path
    <3>4. content.calls \cap (Done \cup {type}) = (content.calls \cap Done) \cup {type}
      BY <2>1
    <3>5. FilesOf(name, content.calls \cap (Done \cup {type})) = files \cup {name \o type}
      <4>1. FilesOf(name, (content.calls \cap Done) \cup {type}) = files \cup {name \o type}
        BY <2>1, FileAdded, Zenon
      <4>2. QED
        BY <3>4, <4>1, Zenon
    <3>6. QED
      BY <3>3, <3>5
  <2>2. CASE ~(type \in content.calls /\ name \o type \notin Unwritable)
    <3>1. disk' = disk
      BY <1>3, <2>2 DEF getFilePointer
    <3>2. FilesOf(name, content.calls \cap (Done \cup {type})) = files
      <4>1. CASE type \in content.calls
        <5>1. content.calls \cap (Done \cup {type}) = (content.calls \cap Done) \cup {type}
          BY <4>1
        <5>2. FilesOf(name, (content.calls \cap Done) \cup {type}) = files
          BY <2>2, <4>1, FileNotAdded, Zenon
        <5>3. QED
          BY <5>1, <5>2, Zenon
      <4>2. CASE type \notin content.calls
        <5>1. content.calls \cap (Done \cup {type}) = content.calls \cap Done
          BY <4>2
        <5>2. QED
          BY <5>1
      <4>3. QED
        BY <4>1, <4>2
    <3>3. QED
      BY <1>2, <3>1, <3>2
  <2>3. QED
    BY <2>1, <2>2
<1>5. Source' = Source /\ argv'[i'] = name
  BY <1>1, NameStays
<1>6. QED
  BY <1>1, <1>2, <1>4, <1>5 DEF BatchInv, Assembling, Writing

\* Every step of the loop keeps the account of what is on disk, and is a step of the abstract
\* specification or none.
LEMMA BatchStep ==
    ASSUME LoopInv, BatchInv, [Next]_vars
    PROVE  BatchInv' /\ [AsIfAlone!Next]_<<before, todo>>
<1> USE DEF nameVars
<1>0. TypeOK
  BY DEF LoopInv
<1>1. ASSUME AtSameName, BatchInv'
      PROVE  BatchInv' /\ [AsIfAlone!Next]_<<before, todo>>
  BY <1>1, NameStays
<1>2. ASSUME pc \in Places, argv' = argv, NextName, AsIfAlone!Assemble \/ AsIfAlone!Skip
      PROVE  BatchInv' /\ [AsIfAlone!Next]_<<before, todo>>
  BY <1>0, <1>2, NextBegun DEF AsIfAlone!Next
<1>3. CASE Edit
  <2>1. PICK name \in Names, v \in Verdicts :
           disk' = With(disk, name \o as, [version |-> edits + 1, verdict |-> v[1], calls |-> v[2]])
    BY <1>3 DEF Edit
  <2>2. pc = "shell" /\ pc' = "shell" /\ before' = disk' /\ disk = before /\ edits < MaxEdits
    BY <1>3 DEF Edit, BatchInv, Writing
  <2>3. edits + 1 \in 1..MaxEdits
    BY <1>0, <2>2, NamesAssumption DEF TypeOK, ControlOK
  <2>4. before' = AsIfAlone!With(before, {name \o as},
                     [version |-> edits + 1, verdict |-> v[1], calls |-> v[2]])
    BY <2>1, <2>2, OneWritten, Zenon
  <2>5. AsIfAlone!Edit
    <3>1. todo = <<>> /\ todo' = todo
      BY <2>2 DEF todo
    <3>2. AsIfAlone!as = as
      BY DEF AsIfAlone!as, as
    <3>3. [version |-> edits + 1, verdict |-> v[1], calls |-> v[2]] \in Contents
      BY <2>3 DEF Contents
    <3>4. QED
      BY <2>4, <3>1, <3>2, <3>3, Zenon DEF AsIfAlone!Edit
  <2>6. BatchInv'
    BY <2>2 DEF BatchInv, Assembling, Writing
  <2>7. QED
    BY <2>5, <2>6 DEF AsIfAlone!Next
<1>4. CASE Start
  <2>1. /\ pc = "shell" /\ pc' \in {"exit", "copyNewFileName"} /\ disk' = disk /\ before' = before
        /\ disk = before /\ argv' \in Seq(Names) /\ i' = 1
        /\ pc' = "exit" => argv' = <<>>
    BY <1>4 DEF Start, fileVars, BatchInv, Writing, CommandLines
  <2>2. todo' \in Seq(Names)
    <3>1. SubSeq(argv', 1, Len(argv')) = argv'
      BY <2>1, SubSeqFull
    <3>2. todo' = SubSeq(argv', 1, Len(argv'))
      BY <2>1 DEF todo
    <3>3. QED
      BY <2>1, <3>1, <3>2
  <2>3. AsIfAlone!Start
    BY <2>1, <2>2 DEF AsIfAlone!Start, todo
  <2>4. BatchInv'
    <3>1. Len(<<>>) = 0
      OBVIOUS
    <3>2. argv' = <<>> => Len(argv') = 0
      BY <3>1, Zenon
    <3>3. pc' = "exit" => i' = Len(argv') + 1
      BY <2>1, <3>2
    <3>4. QED
      BY <2>1, <3>3 DEF BatchInv, Assembling, Writing
  <2>5. QED
    BY <2>3, <2>4 DEF AsIfAlone!Next
<1>5. CASE \E answer \in Answers : Type(answer)
  <2>1. AtSameName /\ pc = "fileOverrideWarning" /\ pc' = pc /\ disk' = disk /\ content' = content
    BY <1>5 DEF Type, AtSameName, fileVars, Places
  <2>2. BatchInv'
    BY <2>1, NothingWritten DEF BatchInv, Assembling, Writing
  <2>3. QED
    BY <1>1, <2>1, <2>2
<1>6. CASE copyNewFileName
  <2>1. /\ AtSameName /\ pc = "copyNewFileName" /\ disk' = disk /\ content' = content
        /\ pc' \in {"getInputDataFileFP", "undefined"}
    BY <1>6 DEF copyNewFileName, AtSameName, fileVars, Places
  <2>2. BatchInv'
    BY <2>1, NothingWritten DEF BatchInv, Assembling, Writing
  <2>3. QED
    BY <1>1, <2>1, <2>2
<1>7. CASE getInputDataFileFP
  <2>1. /\ pc = "getInputDataFileFP" /\ disk' = disk /\ disk = before /\ argv' = argv
        /\ file' = stringChangeFileType(as)
    BY <1>7 DEF getInputDataFileFP, BatchInv, Writing
  <2>2. Path(file') = argv[i] \o as
    BY <2>1, ExtensionStored DEF LoopInv, TypeOK, BufferOK, PathInv, BetweenNames, Types
  <2>3. CASE argv[i] \o as \in Readable
    <3>1. AtSameName /\ pc' = "getMainOutputDataFileFP" /\ content' = disk[argv[i] \o as]
      BY <1>7, <2>1, <2>2, <2>3 DEF getInputDataFileFP, AtSameName, Places
    <3>2. content' = Source /\ argv[i] \o as \in DOMAIN before \ Unreadable
      BY <2>1, <2>3, <3>1 DEF Source, Readable
    <3>3. BatchInv'
      BY <2>1, <3>1, <3>2, NothingWritten
    <3>4. QED
      BY <1>1, <3>1, <3>3
  <2>4. CASE argv[i] \o as \notin Readable
    <3>1. NextName
      BY <1>7, <2>2, <2>4 DEF getInputDataFileFP
    <3>2. AsIfAlone!Skip
      BY <1>0, <2>1, <2>4, <3>1, NameGivenUp DEF Readable, Places
    <3>3. QED
      BY <1>2, <2>1, <3>1, <3>2 DEF Places
  <2>5. QED
    BY <2>3, <2>4
<1>8. CASE getMainOutputDataFileFP
  <2>1. /\ pc = "getMainOutputDataFileFP" /\ disk' = disk /\ disk = before /\ AtSameName
        /\ file' = stringChangeFileType(am) /\ content' = content /\ content = Source
        /\ argv[i] \o as \in DOMAIN before \ Unreadable
        /\ pc' \in {"fileOverrideWarning", "fopen"}
        /\ pc' = "fileOverrideWarning" => Path(file') \in Readable
    BY <1>8 DEF getMainOutputDataFileFP, BatchInv, Assembling, Writing, AtSameName, Places
  <2>2. Path(file') = argv[i] \o am
    BY <2>1, ExtensionStored DEF LoopInv, TypeOK, BufferOK, PathInv, BetweenNames, Types
  <2>3. BatchInv'
    BY <2>1, <2>2, NothingWritten
  <2>4. QED
    BY <1>1, <2>1, <2>3
<1>9. CASE SkipCharacter \/ Proceed
  <2>1. /\ AtSameName /\ pc = "fileOverrideWarning" /\ pc' \in {"fileOverrideWarning", "fopen"}
        /\ disk' = disk /\ content' = content
    BY <1>9 DEF SkipCharacter, Proceed, getchar, AtSameName, fileVars, Places
  <2>2. BatchInv'
    BY <2>1, NothingWritten DEF BatchInv, Assembling, Writing
  <2>3. QED
    BY <1>1, <2>1, <2>2
<1>10. CASE Abort
  <2>1. /\ pc = "fileOverrideWarning" /\ disk' = disk /\ argv' = argv /\ NextName
    BY <1>10 DEF Abort, getchar
  <2>2. disk = before /\ argv[i] \o am \in DOMAIN before \ Unreadable
    BY <2>1 DEF BatchInv, Writing, Readable
  <2>3. AsIfAlone!Skip
    BY <1>0, <2>1, <2>2, NameGivenUp DEF Places
  <2>4. QED
    BY <1>2, <2>1, <2>3 DEF Places
<1>11. CASE fopen
  <2>1. /\ AtSameName /\ pc = "fopen" /\ content' = content /\ pc' \in {"parseMacroV2", "undefined"}
        /\ pc' = "parseMacroV2" => disk' = With(disk, Path(file), Truncated)
    BY <1>11 DEF fopen, AtSameName, Places
  <2>2. /\ disk = before /\ content = Source /\ argv[i] \o as \in DOMAIN before \ Unreadable
        /\ Path(file) = argv[i] \o am
    BY <2>1 DEF BatchInv, Assembling, Writing, LoopInv, PathInv
  <2>3. CASE pc' = "parseMacroV2"
    <3>1. disk' = AsIfAlone!With(before, {argv[i] \o am}, Truncated)
      BY <2>1, <2>2, <2>3, OneWritten, Zenon
    <3>2. before' = before /\ Source' = Source /\ argv'[i'] = argv[i]
      BY <2>1, NameStays
    <3>3. BatchInv'
      BY <2>1, <2>2, <2>3, <3>1, <3>2 DEF BatchInv, Assembling, Writing
    <3>4. QED
      BY <1>1, <2>1, <3>3
  <2>4. CASE pc' = "undefined"
    BY <1>1, <2>1, <2>4, Undefined
  <2>5. QED
    BY <2>1, <2>3, <2>4
<1>12. CASE parseMacroV2
  <2>1. /\ pc = "parseMacroV2" /\ argv' = argv /\ content' = content
        /\ disk' = With(disk, Path(file), content)
        /\ content = Source /\ argv[i] \o as \in DOMAIN before \ Unreadable
        /\ disk = AsIfAlone!With(before, {argv[i] \o am}, Truncated)
        /\ Path(file) = argv[i] \o am
    BY <1>12 DEF parseMacroV2, BatchInv, Assembling, Writing, LoopInv, PathInv
  <2>2. disk' = AsIfAlone!With(before, {argv[i] \o am}, Source)
    <3>1. disk' = With(AsIfAlone!With(before, {argv[i] \o am}, Truncated), argv[i] \o am, Source)
      BY <2>1, Zenon
    <3>2. QED
      BY <3>1, WrittenAgain, Zenon
  <2>3. CASE Source.verdict = "macro error"
    <3>1. NextName
      BY <1>12, <2>1, <2>3 DEF parseMacroV2
    <3>2. FilesOf(argv[i], Called(argv[i], Source)) = {argv[i] \o am}
      BY <2>3 DEF FilesOf, Called
    <3>3. AsIfAlone!Assemble
      BY <1>0, <2>1, <2>2, <3>1, <3>2, NameDone DEF Places
    <3>4. QED
      BY <1>2, <2>1, <3>1, <3>3 DEF Places
  <2>4. CASE Source.verdict # "macro error"
    <3>1. AtSameName /\ pc' = "firstStage"
      BY <1>12, <2>1, <2>4 DEF parseMacroV2, AtSameName, Places
    <3>2. before' = before /\ Source' = Source /\ argv'[i'] = argv[i]
      BY <3>1, NameStays
    <3>3. BatchInv'
      BY <2>1, <2>2, <2>4, <3>1, <3>2 DEF BatchInv, Assembling, Writing
    <3>4. QED
      BY <1>1, <3>1, <3>3
  <2>5. QED
    BY <2>3, <2>4
<1>13. CASE firstStage
  <2>1. /\ pc = "firstStage" /\ argv' = argv /\ disk' = disk
        /\ content' = IF Path(file) \in Readable THEN disk[Path(file)] ELSE NothingRead
        /\ argv[i] \o as \in DOMAIN before \ Unreadable
        /\ disk = AsIfAlone!With(before, {argv[i] \o am}, Source)
        /\ Path(file) = argv[i] \o am
    BY <1>13 DEF firstStage, BatchInv, Assembling, Writing, LoopInv, PathInv
  <2>2. argv[i] \o am \in DOMAIN disk /\ disk[argv[i] \o am] = Source
    BY <2>1 DEF AsIfAlone!With
  <2>3. content' = IF argv[i] \o am \in Unreadable THEN NothingRead ELSE Source
    BY <2>1, <2>2 DEF Readable
  <2>4. CASE content'.verdict = "accepted"
    <3>1. AtSameName /\ pc' = "getObjectFP"
      BY <1>13, <2>1, <2>4 DEF firstStage, AtSameName, Places
    <3>2. before' = before /\ Source' = Source /\ argv'[i'] = argv[i]
      BY <3>1, NameStays
    <3>3. FilesOf(argv[i], {}) = {argv[i] \o am} /\ Done' = {}
      BY <3>1 DEF FilesOf, Done
    <3>4. FilesOf(argv[i], content.calls \cap Done)' = {argv[i] \o am}
      BY <3>2, <3>3 DEF FilesOf
    <3>5. BatchInv'
      BY <2>1, <2>3, <2>4, <3>1, <3>2, <3>4 DEF BatchInv, Assembling, Writing
    <3>6. QED
      BY <1>1, <3>1, <3>5
  <2>5. CASE content'.verdict # "accepted"
    <3>1. NextName
      BY <1>13, <2>1, <2>5 DEF firstStage
    <3>2. content' = Source
      BY <2>3, <2>5 DEF NothingRead
    <3>3. FilesOf(argv[i], Called(argv[i], Source)) = {argv[i] \o am}
      BY <2>5, <3>2 DEF FilesOf, Called
    <3>4. AsIfAlone!Assemble
      BY <1>0, <2>1, <3>1, <3>3, NameDone DEF Places
    <3>5. QED
      BY <1>2, <2>1, <3>1, <3>4 DEF Places
  <2>6. QED
    BY <2>4, <2>5
<1>14. CASE getObjectFP
  <2>1. Done = {} /\ Done' = {ob}
    BY <1>14 DEF getObjectFP, getFilePointer, Done
  <2>2. BatchInv' /\ AtSameName
    BY <1>14, <2>1, OutputWritten DEF getObjectFP
  <2>3. QED
    BY <1>1, <2>2
<1>15. CASE getEntryFP
  <2>1. Done = {ob} /\ Done' = {ob, ent}
    BY <1>15 DEF getEntryFP, getFilePointer, Done
  <2>2. BatchInv' /\ AtSameName
    BY <1>15, <2>1, OutputWritten DEF getEntryFP
  <2>3. QED
    BY <1>1, <2>2
<1>16. CASE getExternFP
  <2>1. Done = {ob, ent} /\ Done' = {ob, ent, ext}
    BY <1>16 DEF getExternFP, getFilePointer, Done
  <2>2. BatchInv' /\ AtSameName
    BY <1>16, <2>1, OutputWritten DEF getExternFP
  <2>3. QED
    BY <1>1, <2>2
<1>17. CASE closeFiles
  <2>1. /\ pc = "closeFiles" /\ argv' = argv /\ disk' = disk /\ NextName
        /\ argv[i] \o as \in DOMAIN before \ Unreadable
        /\ content = IF argv[i] \o am \in Unreadable THEN NothingRead ELSE Source
        /\ content.verdict = "accepted"
        /\ disk = AsIfAlone!With(before, FilesOf(argv[i], content.calls \cap Done), Source)
    BY <1>17 DEF closeFiles, BatchInv, Assembling, Writing
  <2>2. Done = {ob, ent, ext}
    BY <2>1 DEF Done
  <2>3. content.calls \cap Done = Called(argv[i], Source)
    <3>1. Source.calls \subseteq {ob, ent, ext}
      BY <1>0, <2>1, SourceType DEF Texts
    <3>2. QED
      BY <2>1, <2>2, <3>1 DEF Called, NothingRead
  <2>4. AsIfAlone!Assemble
    BY <1>0, <2>1, <2>3, NameDone DEF Places
  <2>5. QED
    BY <1>2, <2>1, <2>4 DEF Places
<1>18. CASE Exit
  <2>1. /\ pc = "exit" /\ pc' = "shell" /\ i = Len(argv) + 1 /\ disk' = disk /\ before' = before
        /\ disk = before
    BY <1>18 DEF Exit, BatchInv, Writing
  <2>2. todo = <<>> /\ todo' = <<>>
    <3>1. Len(argv) \in Nat
      BY <1>0, LenProperties DEF TypeOK, ControlOK
    <3>2. SubSeq(argv, i, Len(argv)) = <<>>
      BY <2>1, <3>1, SubSeqEmpty
    <3>3. QED
      BY <2>1, <3>2 DEF todo
  <2>3. BatchInv'
    BY <2>1 DEF BatchInv, Assembling, Writing
  <2>4. QED
    BY <2>1, <2>2, <2>3
<1>19. CASE UNCHANGED vars
  <2>1. UNCHANGED <<pc, argv, i, disk, content, before>>
    BY <1>19 DEF vars, fileVars
  <2>2. UNCHANGED <<before, todo>>
    BY <2>1 DEF todo
  <2>3. BatchInv'
    BY <2>1 DEF BatchInv, Source, Done, Readable
  <2>4. QED
    BY <2>2, <2>3
<1>20. QED
  BY <1>3, <1>4, <1>5, <1>6, <1>7, <1>8, <1>9, <1>10, <1>11, <1>12, <1>13, <1>14, <1>15, <1>16,
     <1>17, <1>18, <1>19 DEF Next, Program

\* The disk is as BatchInv says at every place of the program.
LEMMA BatchInvariant == Spec => []BatchInv
<1>1. Init => BatchInv
  BY DEF Init, BatchInv, Assembling, Writing
<1>2. LoopInv /\ BatchInv /\ [Next]_vars => BatchInv'
  BY BatchStep
<1>3. QED
  BY <1>1, <1>2, LoopInvariant, PTL DEF Spec

\* Whatever names came before in the one name buffer, and whatever was answered, each name is
\* assembled as if it was alone on the command line, or skipped.
THEOREM EachAsIfAlone == Spec => ImplementsBatch
<1>1. Init => AsIfAlone!Init
  BY DEF Init, AsIfAlone!Init, todo
<1>2. LoopInv /\ BatchInv /\ [Next]_vars => [AsIfAlone!Next]_<<before, todo>>
  BY BatchStep
<1>3. QED
  BY <1>1, <1>2, LoopInvariant, BatchInvariant, PTL DEF Spec, ImplementsBatch, AsIfAlone!Spec, todo

-----------------------------------------------------------------------------
\* The files of a name, and the user's consent.

\* An extension ends a path.
LEMMA PathEnds ==
    ASSUME NEW name \in Names, NEW type \in Types
    PROVE  LET path == name \o type
           IN  /\ Len(name) \in Nat /\ Len(type) \in {3, 4} /\ Len(path) = Len(name) + Len(type)
               /\ path[Len(path)] = type[Len(type)] /\ path[Len(path) - 1] = type[Len(type) - 1]
               /\ \A c \in 1..Len(name) : path[c] = name[c]
<1>1. name \in Seq(Alphabet) /\ type \in Seq(Alphabet) /\ Len(name) \in Nat
  BY AlphabetStrings DEF Types
<1>2. Len(as) = 3 /\ Len(am) = 3 /\ Len(ob) = 3 /\ Len(ent) = 4 /\ Len(ext) = 4
  BY DEF as, am, ob, ent, ext
<1>3. Len(type) \in {3, 4}
  BY <1>2 DEF Types
<1> DEFINE path == name \o type
<1>4. /\ Len(path) = Len(name) + Len(type)
      /\ \A c \in 1..(Len(name) + Len(type)) :
            path[c] = IF c <= Len(name) THEN name[c] ELSE type[c - Len(name)]
  BY <1>1, ConcatProperties
<1> HIDE DEF path
<1>5. /\ path[Len(name) + Len(type)] = type[Len(type)]
      /\ path[Len(name) + Len(type) - 1] = type[Len(type) - 1]
  <2> DEFINE n == Len(name)
             m == Len(type)
  <2>1. n \in Nat /\ (m = 3 \/ m = 4)
    BY <1>1, <1>3
  <2>2. \A c \in 1..(n + m) : path[c] = IF c <= n THEN name[c] ELSE type[c - n]
    BY <1>4
  <2> HIDE DEF n, m
  <2>3. \A c : c = n + m => path[c] = type[m]
    BY <2>1, <2>2
  <2>4. \A c : c = n + m - 1 => path[c] = type[m - 1]
    BY <2>1, <2>2
  <2>5. path[n + m] = type[m] /\ path[n + m - 1] = type[m - 1]
    BY <2>3, <2>4, Zenon
  <2>6. QED
    BY <2>5, Zenon DEF n, m
<1>7. \A c \in 1..Len(name) : path[c] = name[c]
  BY <1>1, <1>3, <1>4
<1>8. path[Len(path)] = type[Len(type)] /\ path[Len(path) - 1] = type[Len(type) - 1]
  <2> DEFINE end == Len(name) + Len(type)
  <2>1. path[end] = type[Len(type)] /\ path[end - 1] = type[Len(type) - 1]
    BY <1>5
  <2>2. Len(path) = end
    BY <1>4
  <2> HIDE DEF end
  <2>3. QED
    BY <2>1, <2>2, Zenon
<1>9. QED
  BY <1>1, <1>3, <1>4, <1>7, <1>8 DEF path

\* A path is of one name and of one type.
LEMMA PathsDiffer ==
    ASSUME NEW name \in Names, NEW other \in Names, NEW type \in Types, NEW kind \in Types,
           name \o type = other \o kind
    PROVE  name = other /\ type = kind
<1> DEFINE path == name \o type
<1>1. /\ Len(name) \in Nat /\ Len(type) \in {3, 4} /\ Len(path) = Len(name) + Len(type)
      /\ path[Len(path)] = type[Len(type)] /\ path[Len(path) - 1] = type[Len(type) - 1]
      /\ \A c \in 1..Len(name) : path[c] = name[c]
  BY PathEnds
<1>2. /\ Len(other) \in Nat /\ Len(kind) \in {3, 4} /\ Len(path) = Len(other) + Len(kind)
      /\ path[Len(path)] = kind[Len(kind)] /\ path[Len(path) - 1] = kind[Len(kind) - 1]
      /\ \A c \in 1..Len(other) : path[c] = other[c]
  <2> DEFINE same == other \o kind
  <2>1. /\ Len(other) \in Nat /\ Len(kind) \in {3, 4} /\ Len(same) = Len(other) + Len(kind)
        /\ same[Len(same)] = kind[Len(kind)] /\ same[Len(same) - 1] = kind[Len(kind) - 1]
        /\ \A c \in 1..Len(other) : same[c] = other[c]
    BY PathEnds
  <2>2. path = same
    OBVIOUS
  <2> HIDE DEF path, same
  <2>3. QED
    BY <2>1, <2>2, Zenon
<1> HIDE DEF path
<1>3. type[Len(type)] = kind[Len(kind)] /\ type[Len(type) - 1] = kind[Len(kind) - 1]
  BY <1>1, <1>2, Zenon
<1>4. type = kind
  <2> DEFINE last(t) == t[Len(t)]
             prev(t) == t[Len(t) - 1]
  <2>1. /\ last(as) = "s" /\ last(am) = "m" /\ last(ob) = "b" /\ last(ent) = "t" /\ last(ext) = "t"
        /\ prev(ent) = "n" /\ prev(ext) = "x"
    BY DEF as, am, ob, ent, ext
  <2>2. last(type) = last(kind) /\ prev(type) = prev(kind)
    BY <1>3
  <2> HIDE DEF last, prev
  <2>3. (type = as \/ type = am \/ type = ob \/ type = ent \/ type = ext)
        /\ (kind = as \/ kind = am \/ kind = ob \/ kind = ent \/ kind = ext)
    BY Zenon DEF Types
  <2>4. /\ type = as => last(type) = "s"
        /\ type = am => last(type) = "m"
        /\ type = ob => last(type) = "b"
        /\ type = ent => last(type) = "t" /\ prev(type) = "n"
        /\ type = ext => last(type) = "t" /\ prev(type) = "x"
    BY <2>1, Zenon
  <2>5. /\ kind = as => last(kind) = "s"
        /\ kind = am => last(kind) = "m"
        /\ kind = ob => last(kind) = "b"
        /\ kind = ent => last(kind) = "t" /\ prev(kind) = "n"
        /\ kind = ext => last(kind) = "t" /\ prev(kind) = "x"
    BY <2>1, Zenon
  <2>6. QED
    BY <2>2, <2>3, <2>4, <2>5
<1>5. Len(name) = Len(other)
  <2>1. Len(type) = Len(kind)
    BY <1>4, Zenon
  <2>2. QED
    BY <1>1, <1>2, <2>1
<1>6. name = other
  <2>1. name \in Seq(Alphabet) /\ other \in Seq(Alphabet)
    BY AlphabetStrings
  <2>2. \A c \in 1..Len(name) : name[c] = other[c]
    BY <1>1, <1>2, <1>5
  <2>3. QED
    BY <1>5, <2>1, <2>2, SeqEqual
<1>7. QED
  BY <1>4, <1>6

\* The types differ.
LEMMA TypesDiffer == as # am /\ as \notin {ob, ent, ext} /\ am \notin {ob, ent, ext}
<1>1. as[2] = "a" /\ as[3] = "s" /\ am[3] = "m" /\ ob[2] = "o" /\ ent[2] = "e" /\ ext[2] = "e"
  BY DEF as, am, ob, ent, ext
<1>2. QED
  BY <1>1, ExtensionsDiffer


\* A text has a version.
LEMMA VersionType ==
    ASSUME NEW text \in Texts
    PROVE  text.version \in Int /\ text.calls \subseteq {ob, ent, ext}
<1>1. text.version \in 0..MaxEdits /\ text.calls \subseteq {ob, ent, ext}
  BY DEF Texts
<1>2. QED
  BY <1>1, NamesAssumption

\* A name whose files were not touched.
LEMMA NameUntouched ==
    ASSUME NEW d, NEW new, NEW time \in Int, NEW later \in Int, IsDisk(d), NEW name \in Names,
           FreshName(d, time, name), time <= later,
           \A type \in Types : /\ name \o type \in DOMAIN new <=> name \o type \in DOMAIN d
                               /\ name \o type \in DOMAIN d => new[name \o type] = d[name \o type]
    PROVE  FreshName(new, later, name)
<1>1. name \o as \in DOMAIN d => d[name \o as].version \in Int
  BY VersionType DEF IsDisk
<1>2. as \in Types /\ am \in Types /\ {ob, ent, ext} \subseteq Types
  BY DEF Types
<1>3. name \o as \in DOMAIN new => new[name \o as].version <= later
  <2>1. ASSUME name \o as \in DOMAIN d
        PROVE  d[name \o as].version <= later
    <3>1. d[name \o as].version <= time
      BY <2>1 DEF FreshName
    <3>2. QED
      <4> DEFINE version == d[name \o as].version
      <4>1. version \in Int /\ version <= time
        BY <1>1, <2>1, <3>1
      <4> HIDE DEF version
      <4>2. version <= later
        BY <4>1
      <4>3. QED
        BY <4>2 DEF version
  <2>2. QED
    BY <1>2, <2>1, Zenon
<1>4. name \o am \in DOMAIN new =>
          /\ name \o as \in DOMAIN new
          /\ new[name \o am].version <= new[name \o as].version
  BY <1>2 DEF FreshName
<1>5. ASSUME NEW type \in {ob, ent, ext}, name \o type \in DOMAIN new
      PROVE  name \o am \in DOMAIN d /\ new[name \o am] = d[name \o am]
             /\ name \o type \in DOMAIN d /\ new[name \o type] = d[name \o type]
  BY <1>2, <1>5 DEF FreshName
<1>6. QED
  BY <1>2, <1>3, <1>4, <1>5 DEF FreshName

\* What is written for one name leaves the files of another.
LEMMA OthersUntouched ==
    ASSUME NEW name \in Names, NEW other \in Names, name # other, NEW type \in Types,
           NEW types \in SUBSET {ob, ent, ext}
    PROVE  name \o type \notin FilesOf(other, types) /\ name \o type # other \o as
<1>1. \A kind \in Types : name \o type # other \o kind
  BY PathsDiffer
<1>2. QED
  BY <1>1 DEF FilesOf, Types

\* A name that was assembled is fresh.
LEMMA NameRefreshed ==
    ASSUME NEW d, NEW new, NEW time \in Int, IsDisk(d), NEW name \in Names,
           FreshName(d, time, name), name \o as \in DOMAIN d,
           new = AsIfAlone!With(d, FilesOf(name, Called(name, d[name \o as])), d[name \o as])
    PROVE  FreshName(new, time, name)
<1> DEFINE source == d[name \o as]
           files  == FilesOf(name, Called(name, source))
<1>1. source.version \in Int /\ Called(name, source) \subseteq {ob, ent, ext}
  BY VersionType DEF IsDisk, Called
<1>2. /\ DOMAIN new = DOMAIN d \cup files
      /\ \A p \in DOMAIN new : new[p] = IF p \in files THEN source ELSE d[p]
  BY DEF AsIfAlone!With
<1>3. \A type, kind \in Types : name \o type = name \o kind => type = kind
  BY PathsDiffer
<1>4. /\ as \in Types /\ am \in Types /\ {ob, ent, ext} \subseteq Types
      /\ as # am /\ as \notin {ob, ent, ext} /\ am \notin {ob, ent, ext}
  BY TypesDiffer DEF Types
<1>5. name \o am \in files /\ name \o as \notin files
  BY <1>1, <1>3, <1>4 DEF FilesOf
<1>6. \A type \in {ob, ent, ext} :
         name \o type \in files <=> type \in Called(name, source) /\ name \o type \notin Unwritable
  BY <1>1, <1>3, <1>4 DEF FilesOf
<1>7. source.version <= time
  BY DEF FreshName
<1> HIDE DEF files, source
<1>8. /\ name \o as \in DOMAIN new /\ new[name \o as] = source
      /\ name \o am \in DOMAIN new /\ new[name \o am] = source
  BY <1>2, <1>5 DEF source
<1>9. ASSUME NEW type \in {ob, ent, ext}, name \o type \in DOMAIN new
      PROVE  /\ new[name \o type].version <= source.version
             /\ \/ new[name \o type] = source
                \/ source.verdict # "accepted"
                \/ type \notin source.calls
                \/ name \o type \in Unwritable \/ name \o am \in Unreadable
  <2>1. CASE name \o type \in files
    <3>1. new[name \o type] = source
      BY <1>2, <1>9, <2>1
    <3>2. new[name \o type].version = source.version
      BY <3>1, Zenon
    <3>3. QED
      BY <1>1, <3>1, <3>2
  <2>2. CASE name \o type \notin files
    <3>1. name \o type \in DOMAIN d /\ new[name \o type] = d[name \o type]
      BY <1>2, <1>9, <2>2
    <3>2. /\ name \o am \in DOMAIN d
          /\ d[name \o type].version <= d[name \o am].version
          /\ d[name \o am].version <= source.version
      BY <3>1 DEF FreshName, source
    <3>3. d[name \o type].version \in Int /\ d[name \o am].version \in Int
      BY <3>1, <3>2, VersionType DEF IsDisk
    <3>4. d[name \o type].version <= source.version
      BY <1>1, <3>2, <3>3
    <3>5. new[name \o type].version <= source.version
      BY <3>1, <3>4, Zenon
    <3>6. type \notin Called(name, source) \/ name \o type \in Unwritable
      BY <1>6, <2>2
    <3>7. QED
      BY <3>5, <3>6 DEF Called
  <2>3. QED
    BY <2>1, <2>2
<1>10. new[name \o as].version <= time /\ new[name \o am].version <= new[name \o as].version
  BY <1>1, <1>7, <1>8
<1>11. QED
  BY <1>8, <1>9, <1>10, Zenon DEF FreshName

\* A name whose source was edited.
LEMMA NameEdited ==
    ASSUME NEW d, NEW time \in Int, NEW later \in Int, IsDisk(d), NEW name \in Names,
           FreshName(d, time, name), NEW text \in Texts, text.version = later, time <= later
    PROVE  FreshName(With(d, name \o as, text), later, name)
<1> DEFINE new == With(d, name \o as, text)
<1>1. /\ DOMAIN new = DOMAIN d \cup {name \o as}
      /\ \A p \in DOMAIN new : new[p] = IF p = name \o as THEN text ELSE d[p]
  BY DEF With
<1>2. /\ name \o am # name \o as
      /\ \A type \in {ob, ent, ext} : name \o type # name \o as
  BY PathsDiffer, TypesDiffer DEF Types
<1> HIDE DEF new
<1>3. name \o as \in DOMAIN new /\ new[name \o as] = text
  BY <1>1
<1>4. \A type \in {am, ob, ent, ext} :
         /\ name \o type \in DOMAIN new <=> name \o type \in DOMAIN d
         /\ name \o type \in DOMAIN d => new[name \o type] = d[name \o type]
  BY <1>1, <1>2
<1>5. ASSUME name \o am \in DOMAIN d
      PROVE  d[name \o am].version <= text.version
  <2>1. name \o as \in DOMAIN d
    BY <1>5 DEF FreshName
  <2>2. d[name \o am].version \in Int /\ d[name \o as].version \in Int
    BY <1>5, <2>1, VersionType DEF IsDisk
  <2>3. QED
    <3>1. d[name \o am].version <= d[name \o as].version /\ d[name \o as].version <= time
      BY <1>5, <2>1 DEF FreshName
    <3> DEFINE older == d[name \o am].version
               old   == d[name \o as].version
    <3>2. older \in Int /\ old \in Int /\ older <= old /\ old <= time
      BY <2>2, <3>1, Zenon
    <3> HIDE DEF older, old
    <3>3. older <= text.version
      BY <3>2
    <3>4. QED
      BY <3>3 DEF older
<1>6. new[name \o as].version <= later
  BY <1>3
<1>7. name \o am \in DOMAIN new =>
          name \o as \in DOMAIN new /\ new[name \o am].version <= new[name \o as].version
  BY <1>3, <1>4, <1>5
<1>8. ASSUME NEW type \in {ob, ent, ext}, name \o type \in DOMAIN new
      PROVE  /\ name \o am \in DOMAIN d /\ new[name \o am] = d[name \o am]
             /\ name \o am \in DOMAIN new
             /\ name \o type \in DOMAIN d /\ new[name \o type] = d[name \o type]
  BY <1>4, <1>8 DEF FreshName
<1>9. FreshName(new, later, name)
  BY <1>6, <1>7, <1>8 DEF FreshName
<1>10. QED
  BY <1>9 DEF new


\* The time goes on with the edits only.
LEMMA EditsGrow ==
    ASSUME TypeOK, [Next]_vars
    PROVE  Edit \/ (edits' = edits /\ (before' = before \/ todo # <<>>))
<1> USE DEF bounds
<1>1. CASE Program
  <2>1. CASE Exit
    BY <2>1 DEF Exit
  <2>2. CASE ~Exit
    BY <1>1, <2>2, ProgramControl, NameTaken
  <2>3. QED
    BY <2>1, <2>2
<1>2. CASE Start \/ (\E answer \in Answers : Type(answer)) \/ UNCHANGED vars
  BY <1>2 DEF Start, Type, vars
<1>3. QED
  BY <1>1, <1>2 DEF Next

\* Every step keeps the names fresh: a source that is edited becomes newer, and the files of
\* one name are all made from its source, or left with a reason.
LEMMA FreshStep ==
    ASSUME LoopInv, LoopInv', BatchInv, FreshInv, [Next]_vars
    PROVE  FreshInv'
<1>1. IsDisk(before) /\ edits \in Int /\ edits' \in Int /\ edits \in Nat
  BY NamesAssumption DEF LoopInv, TypeOK, FilesOK, ControlOK
<1>2. SUFFICES ASSUME NEW name \in Names
               PROVE  FreshName(before', edits', name)
  BY DEF FreshInv, FreshName
<1>3. FreshName(before, edits, name)
  BY DEF FreshInv
<1>4. CASE Edit
  <2>1. PICK other \in Names, v \in Verdicts :
           disk' = With(disk, other \o as, [version |-> edits + 1, verdict |-> v[1], calls |-> v[2]])
    BY <1>4 DEF Edit
  <2> DEFINE text == [version |-> edits + 1, verdict |-> v[1], calls |-> v[2]]
  <2>2. before' = disk' /\ disk = before /\ edits' = edits + 1 /\ edits < MaxEdits
    BY <1>4 DEF Edit, BatchInv, Writing
  <2>3. text \in Texts /\ text.version = edits'
    <3>1. edits + 1 \in 0..MaxEdits
      BY <1>1, <2>2, NamesAssumption
    <3>2. QED
      BY <2>2, <3>1, VerdictsAssumption DEF Texts
  <2>4. before' = With(before, other \o as, text)
    BY <2>1, <2>2, Zenon
  <2>5. edits <= edits'
    BY <1>1, <2>2
  <2> HIDE DEF text
  <2>6. CASE other = name
    <3>1. FreshName(With(before, name \o as, text), edits', name)
      BY <1>1, <1>3, <2>3, <2>5, NameEdited
    <3>2. QED
      BY <2>4, <2>6, <3>1, Zenon
  <2>7. CASE other # name
    <3>1. /\ DOMAIN before' = DOMAIN before \cup {other \o as}
          /\ \A p \in DOMAIN before' : before'[p] = IF p = other \o as THEN text ELSE before[p]
      BY <2>4 DEF With
    <3>2. \A type \in Types : name \o type # other \o as
      BY <2>7, PathsDiffer DEF Types
    <3>3. \A type \in Types :
             /\ name \o type \in DOMAIN before' <=> name \o type \in DOMAIN before
             /\ name \o type \in DOMAIN before => before'[name \o type] = before[name \o type]
      BY <3>1, <3>2
    <3>4. QED
      BY <1>1, <1>3, <2>5, <3>3, NameUntouched
  <2>8. QED
    BY <2>6, <2>7
<1>5. CASE before' = before /\ edits' = edits
  BY <1>3, <1>5, Zenon
<1>6. CASE AsIfAlone!Assemble /\ edits' = edits
  <2> DEFINE other  == Head(todo)
             source == before[other \o as]
  <2>1. other \in Names
    BY <1>6, TodoType, HeadTailProperties DEF AsIfAlone!Assemble, LoopInv
  <2>2. AsIfAlone!am = am /\ AsIfAlone!as = as /\ AsIfAlone!Readable = DOMAIN before \ Unreadable
    BY DEF AsIfAlone!am, AsIfAlone!as, am, as, AsIfAlone!Readable
  <2>3. /\ other \o as \in DOMAIN before
        /\ before' = AsIfAlone!With(before, FilesOf(other, Called(other, source)), source)
    BY <1>6, <2>2 DEF AsIfAlone!Assemble, AsIfAlone!Assembled, FilesOf, Called
  <2>4. Called(other, source) \in SUBSET {ob, ent, ext}
    BY <1>1, <2>3, VersionType DEF IsDisk, Called
  <2> HIDE DEF other
  <2>5. CASE other = name
    <3>1. FreshName(before', edits, name)
      BY <1>1, <1>3, <2>3, <2>5, NameRefreshed
    <3>2. QED
      BY <1>6, <3>1, Zenon
  <2>6. CASE other # name
    <3>1. \A type \in Types : name \o type \notin FilesOf(other, Called(other, source))
      BY <2>1, <2>4, <2>6, OthersUntouched
    <3>2. /\ DOMAIN before' = DOMAIN before \cup FilesOf(other, Called(other, source))
          /\ \A p \in DOMAIN before : p \notin FilesOf(other, Called(other, source)) => before'[p] = before[p]
      BY <2>3 DEF AsIfAlone!With
    <3>3. \A type \in Types :
             /\ name \o type \in DOMAIN before' <=> name \o type \in DOMAIN before
             /\ name \o type \in DOMAIN before => before'[name \o type] = before[name \o type]
      BY <3>1, <3>2
    <3>4. QED
      BY <1>1, <1>3, <1>6, <3>3, NameUntouched
  <2>7. QED
    BY <2>5, <2>6
<1>7. QED
  <2>1. [AsIfAlone!Next]_<<before, todo>>
    BY BatchStep
  <2>2. before' = before \/ AsIfAlone!Assemble \/ Edit
    <3>1. Edit \/ before' = before \/ todo # <<>>
      BY EditsGrow DEF LoopInv
    <3>2. AsIfAlone!Edit => todo = <<>>
      BY DEF AsIfAlone!Edit
    <3>3. QED
      BY <2>1, <3>1, <3>2 DEF AsIfAlone!Next, AsIfAlone!Start, AsIfAlone!Skip
  <2>3. QED
    BY <1>4, <1>5, <1>6, <2>1, <2>2, EditsGrow DEF LoopInv


\* An output file is never newer than the .am file beside it, and older only for a reason.
THEOREM FilesBelongTogether == Spec => []StaleOnlyIfNotWritten
<1>1. Init => FreshInv
  <2>1. DOMAIN <<>> = {}
    OBVIOUS
  <2>2. QED
    BY <2>1 DEF Init, FreshInv, FreshName
<1>2. LoopInv /\ LoopInv' /\ BatchInv /\ FreshInv /\ [Next]_vars => FreshInv'
  BY FreshStep
<1>3. BatchInv /\ FreshInv => StaleOnlyIfNotWritten
  <2> SUFFICES ASSUME BatchInv, FreshInv, pc = "shell", NEW name \in Names
               PROVE  \A type \in {ob, ent, ext} :
                         name \o type \in DOMAIN disk =>
                             /\ name \o am \in DOMAIN disk
                             /\ disk[name \o type].version <= disk[name \o am].version
                             /\ \/ disk[name \o type] = disk[name \o am]
                                \/ disk[name \o am].verdict # "accepted"
                                \/ type \notin disk[name \o am].calls
                                \/ name \o type \in Unwritable \/ name \o am \in Unreadable
    BY DEF StaleOnlyIfNotWritten
  <2>1. disk = before
    BY DEF BatchInv, Writing
  <2>2. FreshName(disk, edits, name)
    BY <2>1 DEF FreshInv
  <2>3. QED
    BY <2>2 DEF FreshName
<1>4. QED
  BY <1>1, <1>2, <1>3, LoopInvariant, BatchInvariant, PTL DEF Spec

-----------------------------------------------------------------------------
\* What follows an answer in its line cannot answer a question with y.
LEMMA RestHarmless ==
    ASSUME InputOK, OneAnswer(stdin), getchar, Head(stdin) \in Yes \cup No \cup {EndOfFile, Nul}
    PROVE  \A c \in 1..Len(stdin') : stdin'[c] \notin Yes
<1>1. /\ stdin \in Seq(Alphabet) /\ stdin # <<>> /\ Len(stdin) \in Nat
      /\ stdin' = IF Head(stdin) = EndOfFile THEN stdin ELSE Tail(stdin)
  BY LenProperties DEF InputOK, getchar
<1>2. Len(stdin) > 0 /\ Head(stdin) = stdin[1]
  BY <1>1
<1>3. \A d \in 2..Len(stdin) : stdin[d] \notin Yes
  <2>1. 1 \in 1..Len(stdin) /\ \A d \in 2..Len(stdin) : d \in 1..Len(stdin) /\ 1 < d
    BY <1>1, <1>2
  <2>2. QED
    BY <1>2, <2>1, Zenon DEF OneAnswer
<1>4. CASE Head(stdin) = EndOfFile
  <2>1. stdin[1] \notin Yes
    BY <1>2, <1>4 DEF EndOfFile, Yes
  <2>2. QED
    BY <1>1, <1>3, <1>4, <2>1
<1>5. CASE Head(stdin) # EndOfFile
  <2>1. /\ stdin' = Tail(stdin) /\ Len(Tail(stdin)) = Len(stdin) - 1
        /\ \A c \in 1..Len(Tail(stdin)) : Tail(stdin)[c] = stdin[c + 1]
    BY <1>1, <1>5, HeadTailProperties
  <2>2. QED
    BY <1>1, <1>2, <1>3, <2>1
<1>6. QED
  BY <1>4, <1>5

\* A character that decides nothing leaves the input as good as it was.
LEMMA RestOfAnswer ==
    ASSUME InputOK, OneAnswer(stdin), \A c \in 1..leftover : stdin[c] \notin Yes,
           getchar, Head(stdin) # EndOfFile
    PROVE  OneAnswer(stdin') /\ \A c \in 1..leftover' : stdin'[c] \notin Yes
<1>1. /\ stdin \in Seq(Alphabet) /\ stdin # <<>> /\ Len(stdin) \in Nat /\ leftover \in 0..Len(stdin)
      /\ stdin' = Tail(stdin) /\ leftover' = IF leftover = 0 THEN 0 ELSE leftover - 1
  BY LenProperties DEF InputOK, getchar
<1>2. /\ Len(Tail(stdin)) = Len(stdin) - 1
      /\ \A c \in 1..Len(Tail(stdin)) : Tail(stdin)[c] = stdin[c + 1]
  BY <1>1, HeadTailProperties
<1>3. OneAnswer(stdin')
  <2> SUFFICES ASSUME NEW c \in 1..Len(stdin'), NEW d \in 1..Len(stdin'), c < d,
                      stdin'[c] \in Yes \cup No \cup {EndOfFile, Nul}
               PROVE  stdin'[d] \notin Yes
    BY DEF OneAnswer
  <2>1. /\ c + 1 \in 1..Len(stdin) /\ d + 1 \in 1..Len(stdin) /\ c + 1 < d + 1
        /\ stdin'[c] = stdin[c + 1] /\ stdin'[d] = stdin[d + 1]
    BY <1>1, <1>2
  <2>2. stdin[c + 1] \in Yes \cup No \cup {EndOfFile, Nul}
    BY <2>1
  <2>3. stdin[d + 1] \notin Yes
    BY <2>1, <2>2, Zenon DEF OneAnswer
  <2>4. QED
    BY <2>1, <2>3
<1>4. \A c \in 1..leftover' : stdin'[c] \notin Yes
  <2> SUFFICES ASSUME NEW c \in 1..leftover' PROVE stdin'[c] \notin Yes
    OBVIOUS
  <2>1. c + 1 \in 1..leftover /\ c \in 1..Len(Tail(stdin))
    BY <1>1, <1>2
  <2>2. stdin'[c] = stdin[c + 1]
    BY <1>1, <1>2, <2>1
  <2>3. QED
    BY <2>1, <2>2
<1>5. QED
  BY <1>3, <1>4

\* No answer leaves a y behind, and the .am file is opened after one only.
LEMMA ConsentStep ==
    ASSUME \A answer \in Answers : OneAnswer(answer), LoopInv, ConsentInv, [Next]_vars
    PROVE  ConsentInv'
<1>0. InputOK /\ TypeOK
  BY DEF LoopInv, TypeOK
<1>1. ASSUME pc # "fileOverrideWarning", stdin' = stdin, pc' \notin {"fileOverrideWarning", "fopen"}
      PROVE  ConsentInv'
  BY <1>1 DEF ConsentInv
<1>2. CASE Edit \/ Start \/ copyNewFileName \/ fopen \/ parseMacroV2 \/ firstStage
           \/ getObjectFP \/ getEntryFP \/ getExternFP \/ closeFiles \/ getInputDataFileFP
  <2> USE DEF userVars
  <2>1. CASE Edit \/ Start
    BY <1>1, <2>1 DEF Edit, Start
  <2>2. CASE copyNewFileName \/ getInputDataFileFP
    BY <1>1, <2>2 DEF copyNewFileName, getInputDataFileFP, NextName
  <2>3. CASE fopen
    BY <1>1, <2>3 DEF fopen
  <2>4. CASE parseMacroV2 \/ firstStage \/ closeFiles
    BY <1>1, <2>4 DEF parseMacroV2, firstStage, closeFiles, NextName
  <2>5. CASE getObjectFP \/ getEntryFP \/ getExternFP
    BY <1>1, <2>5 DEF getObjectFP, getEntryFP, getExternFP, getFilePointer
  <2>6. QED
    BY <1>2, <2>1, <2>2, <2>3, <2>4, <2>5
<1>3. ASSUME NEW answer \in Answers, Type(answer)
      PROVE  ConsentInv'
  <2>1. /\ pc = "fileOverrideWarning" /\ pc' = pc /\ stdin = <<>> /\ stdin' = answer
        /\ leftover' = leftover
    BY <1>3 DEF Type
  <2>2. Len(<<>>) = 0
    OBVIOUS
  <2>3. Len(stdin) = 0
    BY <2>1, <2>2, Zenon
  <2>4. leftover' = 0
    BY <1>0, <2>1, <2>3 DEF InputOK
  <2>5. OneAnswer(stdin')
    BY <2>1, Zenon
  <2>6. QED
    BY <2>1, <2>4, <2>5 DEF ConsentInv
<1>4. CASE getMainOutputDataFileFP
  <2>1. /\ pc = "getMainOutputDataFileFP" /\ stdin' = stdin /\ disk' = disk /\ argv' = argv /\ i' = i
        /\ file' = stringChangeFileType(am)
        /\ \/ pc' = "fileOverrideWarning" /\ leftover' = Len(stdin)
           \/ pc' = "fopen" /\ Path(file') \notin Readable
    BY <1>4 DEF getMainOutputDataFileFP
  <2>2. Path(file') = argv[i] \o am
    BY <2>1, ExtensionStored DEF LoopInv, TypeOK, BufferOK, PathInv, BetweenNames, Types
  <2>3. \A c \in 1..Len(stdin) : stdin[c] \notin Yes
    BY <2>1 DEF ConsentInv
  <2>4. CASE pc' = "fileOverrideWarning" /\ leftover' = Len(stdin)
    <3>1. OneAnswer(stdin')
      BY <2>1, <2>3 DEF OneAnswer
    <3>2. QED
      BY <2>1, <2>3, <2>4, <3>1 DEF ConsentInv
  <2>5. CASE pc' = "fopen" /\ Path(file') \notin Readable
    <3>1. argv[i] \o am \notin Readable /\ Readable' = Readable
      BY <2>1, <2>2, <2>5 DEF Readable
    <3>2. QED
      BY <2>1, <2>3, <2>5, <3>1 DEF ConsentInv
  <2>6. QED
    BY <2>1, <2>4, <2>5
<1>5. CASE SkipCharacter
  <2>1. /\ pc = "fileOverrideWarning" /\ pc' = pc /\ getchar
        /\ Head(stdin) \notin Yes \cup No \cup {EndOfFile, Nul}
    BY <1>5 DEF SkipCharacter, getchar
  <2>2. OneAnswer(stdin') /\ \A c \in 1..leftover' : stdin'[c] \notin Yes
    BY <1>0, <2>1, RestOfAnswer DEF ConsentInv
  <2>3. QED
    BY <2>1, <2>2 DEF ConsentInv
<1>6. CASE Proceed
  <2>1. /\ pc = "fileOverrideWarning" /\ pc' = "fopen" /\ getchar /\ Head(stdin) \in Yes
    BY <1>6 DEF Proceed, getchar
  <2>2. \A c \in 1..Len(stdin') : stdin'[c] \notin Yes
    BY <1>0, <2>1, RestHarmless DEF ConsentInv
  <2>3. leftover = 0
    <3>1. stdin \in Seq(Alphabet) /\ stdin # <<>> /\ leftover \in 0..Len(stdin)
      BY <1>0, <2>1 DEF InputOK, getchar
    <3>2. Head(stdin) = stdin[1]
      BY <3>1
    <3>3. stdin[1] \in Yes
      BY <2>1, <3>2, Zenon
    <3>4. \A c \in 1..leftover : stdin[c] \notin Yes
      BY <2>1 DEF ConsentInv
    <3>5. QED
      BY <3>1, <3>3, <3>4
  <2>4. consent'
    BY <2>1, <2>3 DEF getchar
  <2>5. QED
    BY <2>1, <2>2, <2>4 DEF ConsentInv
<1>7. CASE Abort
  <2>1. /\ pc = "fileOverrideWarning" /\ NextName /\ getchar /\ Head(stdin) \in No \cup {EndOfFile, Nul}
    BY <1>7 DEF Abort, getchar
  <2>2. \A c \in 1..Len(stdin') : stdin'[c] \notin Yes
    BY <1>0, <2>1, RestHarmless DEF ConsentInv
  <2>3. QED
    BY <2>1, <2>2 DEF ConsentInv, NextName
<1>8. CASE Exit
  <2>1. stdin' = <<>> /\ pc' = "shell" /\ Len(<<>>) = 0
    BY <1>8 DEF Exit
  <2>2. Len(stdin') = 0
    BY <2>1, Zenon
  <2>3. QED
    BY <2>1, <2>2 DEF ConsentInv
<1>9. CASE UNCHANGED vars
  BY <1>9 DEF vars, nameVars, fileVars, userVars, ConsentInv, OneAnswer, Readable
<1>10. QED
  BY <1>2, <1>3, <1>4, <1>5, <1>6, <1>7, <1>8, <1>9 DEF Next, Program

\* What a step of the program changes on disk.
LEMMA PathChanged ==
    ASSUME LoopInv, [Next]_vars, NEW p \in DOMAIN disk, disk'[p] # disk[p], pc # "shell"
    PROVE  /\ \E type \in Types \ {as} : p = argv[i] \o type
           /\ pc = "fopen" => p = argv[i] \o am
<1>1. ASSUME NEW q, NEW text, disk' = With(disk, q, text)
      PROVE  p = q
  BY <1>1 DEF With
<1>2. am \in Types \ {as} /\ {ob, ent, ext} \subseteq Types \ {as}
  BY TypesDiffer DEF Types
<1>3. CASE fopen \/ parseMacroV2
  <2>1. PICK text : disk' = With(disk, Path(file), text)
    BY <1>3 DEF fopen, parseMacroV2
  <2>2. pc \in {"fopen", "parseMacroV2"}
    BY <1>3 DEF fopen, parseMacroV2
  <2>3. p = Path(file) /\ Path(file) = argv[i] \o am
    BY <1>1, <2>1, <2>2 DEF LoopInv, PathInv
  <2>4. QED
    BY <1>2, <2>3
<1>4. ASSUME NEW type \in {ob, ent, ext}, NEW next, getFilePointer(type, next),
             pc \in {"getObjectFP", "getEntryFP", "getExternFP"}
      PROVE  p = argv[i] \o type
  <2>1. disk' = With(disk, Path(file'), content) /\ file' = stringChangeFileType(type)
    BY <1>4 DEF getFilePointer
  <2>2. Path(file') = argv[i] \o type
    BY <1>4, <2>1, ExtensionStored DEF LoopInv, TypeOK, BufferOK, PathInv, BetweenNames, Types
  <2>3. QED
    BY <1>1, <2>1, <2>2
<1>5. CASE getObjectFP \/ getEntryFP \/ getExternFP
  BY <1>2, <1>4, <1>5 DEF getObjectFP, getEntryFP, getExternFP
<1>6. disk' # disk
  OBVIOUS
<1>7. QED
  BY <1>3, <1>5, <1>6 DEF Next, Program, Edit, Start, Type, copyNewFileName, getInputDataFileFP,
     getMainOutputDataFileFP, SkipCharacter, Proceed, Abort, firstStage, closeFiles, Exit, vars, fileVars

\* Where no answer holds a y behind the character that ends the question, a file that can be
\* read is overwritten only after a y typed after the question, and only files of the name.
THEOREM AskedBeforeOverwriting ==
    ASSUME \A answer \in Answers : OneAnswer(answer)
    PROVE  Spec => Consent
<1>1. Init => ConsentInv
  <2>1. Len(<<>>) = 0
    OBVIOUS
  <2>2. QED
    BY <2>1 DEF Init, ConsentInv
<1>2. LoopInv /\ ConsentInv /\ [Next]_vars => ConsentInv'
  BY ConsentStep
<1> DEFINE Changed ==
      \A p \in DOMAIN disk :
          /\ pc = "fopen" /\ disk'[p] # disk[p] => consent \/ p \in Unreadable
          /\ pc # "shell" /\ disk'[p] # disk[p] =>
                \E type \in Types \ {as} : p = argv[i] \o type
<1>3. LoopInv /\ ConsentInv /\ [Next]_vars => [Changed]_vars
  <2> SUFFICES ASSUME LoopInv, ConsentInv, [Next]_vars, NEW p \in DOMAIN disk, disk'[p] # disk[p],
                      pc # "shell"
               PROVE  /\ pc = "fopen" => consent \/ p \in Unreadable
                      /\ \E type \in Types \ {as} : p = argv[i] \o type
    OBVIOUS
  <2>1. /\ \E type \in Types \ {as} : p = argv[i] \o type
        /\ pc = "fopen" => p = argv[i] \o am
    BY PathChanged
  <2>2. pc = "fopen" => consent \/ p \in Unreadable
    BY <2>1 DEF ConsentInv, Readable
  <2>3. QED
    BY <2>1, <2>2
<1>4. QED
  BY <1>1, <1>2, <1>3, LoopInvariant, PTL DEF Spec, Consent
=============================================================================
