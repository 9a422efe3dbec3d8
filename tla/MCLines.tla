------------------------------ MODULE MCLines ------------------------------
(***************************************************************************)
(* Sources of one line, in great variety: every instruction with every     *)
(* kind of operand, and every short sequence of tokens with the statement  *)
(* it stands for.                                                          *)
(***************************************************************************)
EXTENDS MCAssembler, SequencesExt

\* The mnemonics by what they take.
TwoOperands == {"mov", "cmp", "add", "sub", "lea"}
OneOperand  == {"not", "clr", "inc", "dec", "red", "prn"}
NoOperand   == {"rts", "stop"}
Jumps       == {"jmp", "bne", "jsr"}

AllowedSource(mnemonic)      == IF mnemonic = "lea" THEN {1} ELSE {0, 1, 3}
AllowedDestination(mnemonic) == IF mnemonic \in {"cmp", "prn"} THEN {0, 1, 3} ELSE {1, 3}

\* Every register, a symbol, and the immediate values at the edges of the range.
SomeOperands ==
    {Register(n) : n \in 0..7} \cup {Symbol("A")}
    \cup {Immediate(v) : v \in {MINIMUM - 1, MINIMUM, -1, 0, 5, MAXIMUM, MAXIMUM + 1}}

AllInstructions ==
    {InstructionLine("A", m, <<a, b>>) : m \in TwoOperands, a, b \in SomeOperands}
    \cup {InstructionLine("A", m, <<a>>) : m \in OneOperand, a \in SomeOperands}
    \cup {InstructionLine("A", m, <<>>) : m \in NoOperand}
    \cup {JumpLine("A", m, "A", <<>>) : m \in Jumps}
    \cup {JumpLine("A", m, "A", <<a, b>>) : m \in Jumps, a, b \in SomeOperands}
    \cup {DataLine("A", <<v>>) : v \in {-8193, -8192, -1, 0, 8191, 8192}}
    \cup {StringLine("A", s) : s \in {<<>>, <<97>>, <<98, 34, 127>>}}

\* The statements the language allows.
Mnemonic(op) == CHOOSE m \in DOMAIN MCOpcodeOf : MCOpcodeOf[m] = op
Modes(s) ==
    LET m == Mnemonic(s.op)
    IN  CASE m \in TwoOperands -> <<AllowedSource(m), AllowedDestination(m)>>
          [] m \in OneOperand  -> <<AllowedDestination(m)>>
          [] m \in Jumps       -> <<{0, 1, 3}, {0, 1, 3}>>
          [] m \in NoOperand   -> <<>>
Legal(s) ==
    IF s.kind = "data" THEN \A i \in 1..Len(s.values) : s.values[i] \in -8192..8191
    ELSE \A i \in 1..Len(s.operands) :
            /\ s.operands[i].mode \in Modes(s)[i]
            /\ s.operands[i].mode = 0 => s.operands[i].value \in -8192..8191

EncodingLines ==
    {IF Legal(l.means) THEN l ELSE Malformed(l.text) : l \in AllInstructions}

-----------------------------------------------------------------------------
\* The grammar, read off the whole token sequence.  Every line declares A, so
\* that A may be used.

A == <<Decl("A"), Ws>>

\* Sequences of at most n tokens: white space comes as one token, and so does a word.
Separate(s) ==
    \A i \in 1..(Len(s) - 1) : s[i].t \in {"ws", "id"} => s[i + 1].t # s[i].t
UpTo(S, n) == {s \in UNION {[1..k -> S] : k \in 0..n} : Separate(s)}

NoWs(s)     == SelectSeq(s, LAMBDA token : token # Ws)
Trimmed(s)  == IF s # <<>> /\ Last(s) = Ws THEN Front(s) ELSE s

OperandOf(token) ==
    CASE token.t = "imm"    -> Immediate(token.v)
      [] token = Id("A")    -> Symbol("A")
      [] token = Id("r3")   -> Register(3)
TwoOperandsOf(a, b) == <<OperandOf(a), OperandOf(b)>>

\* A: mov s
MovMeaning(s) ==
    LET u == NoWs(s)
    IN  IF /\ Len(u) = 3 /\ u[2] = Comma
           /\ u[1] \in {Id("A"), Id("r3"), Imm(5)} /\ u[3] \in {Id("A"), Id("r3")}
        THEN InstructionMeaning("A", "mov", TwoOperandsOf(u[1], u[3]), NoName)
        ELSE [kind |-> "malformed"]

\* A: jmp As
JumpMeaning(s) ==
    LET u == Trimmed(s)
    IN  IF u = <<>> THEN InstructionMeaning("A", "jmp", <<>>, "A")
        ELSE IF /\ Len(u) = 5 /\ u[1] = Open /\ u[3] = Comma /\ u[5] = Close
                /\ {u[2], u[4]} \subseteq {Id("A"), Imm(5)}
        THEN InstructionMeaning("A", "jmp", TwoOperandsOf(u[2], u[4]), "A")
        ELSE [kind |-> "malformed"]

\* A: .data s.  Two liberties of the scanner are in the grammar: a number with
\* something after it need only have four digits, and text after a comma that
\* starts no number ends the line there.
IsNumber(token)      == token = Sign \/ (token.t = "num" /\ token.v \in -9999..9999)
ValueOfToken(token)  == IF token = Sign THEN 0 ELSE token.v
Values(u, n)         == DataMeaning("A", [i \in 1..n |-> ValueOfToken(u[2 * i - 1])])
NumbersWithComma(u) ==
    Max({k \in 0..(Len(u) \div 2) :
            \A i \in 1..k : IsNumber(u[2 * i - 1]) /\ u[2 * i] = Comma})
DataMeaningOf(s) ==
    LET u == NoWs(s)
        k == NumbersWithComma(u)
    IN  IF /\ Len(u) = 2 * k + 1 /\ IsNumber(Last(u))
           /\ ValueOfToken(Last(u)) \in -8192..8191 \/ Last(s) = Ws
        THEN Values(u, k + 1)
        ELSE IF k > 0 /\ Len(u) > 2 * k /\ u[2 * k + 1].t \notin {"num", "sign", "digits", "comma"}
        THEN Values(u, k)
        ELSE [kind |-> "malformed"]

MovTexts ==
    UpTo({Id("A"), Id("r3"), Id("inc"), Imm(5), Comma, Ws, Junk}, 3)
    \cup {<<Id("r3"), Comma>> \o s : s \in UpTo({Id("A"), Imm(5), Comma, Ws, Junk}, 3)}
JumpTexts ==
    UpTo({Id("A"), Imm(5), Comma, Open, Close, Ws}, 4)
    \cup {<<Open, Imm(5), Comma, Id("A")>> \o s :
             s \in UpTo({Imm(5), Comma, Open, Close, Ws}, 3)}
DataTexts ==
    UpTo({Num(7), Num(9000), Num(10000), Digits("2nd"), Sign, Comma, Ws, Junk}, 3)
    \cup {<<Num(7), Ws, Comma>> \o s :
             s \in UpTo({Num(9000), Num(10000), Digits("2nd"), Sign, Comma, Ws, Junk}, 3)}

\* The rest of the language, by example.
OtherLines ==
    {BlankLine, UnreadableLine,
     Line(<<Ws, Decl(""), Id("rts"), Ws>>, InstructionMeaning("", "rts", <<>>, NoName)),
     Line(A \o <<Dot("extern"), Ws, Digits("2nd"), Ws>>, [kind |-> "extern", name |-> "2nd"]),
     Line(<<Decl("mov"), Id("rts")>>, InstructionMeaning("mov", "rts", <<>>, NoName)),
     Line(A \o <<Id("clr"), Ws, Id("A"), Ws>>, InstructionMeaning("A", "clr", <<Symbol("A")>>, NoName)),
     Line(A \o <<Dot("string"), Str(<<97>>, TRUE)>>, [kind |-> "malformed"])}
    \cup {Malformed(t) : t \in
        {<<Decl("A")>>, A, A \o A, <<Id("A")>>, <<Digits("2nd")>>, <<Id("mov"), Comma>>,
         <<Id("rts"), Ws, Id("A")>>, <<Id("jmp")>>, <<Id("jmp"), Ws, Id("inc")>>,
         <<Id("jmp"), Ws, Decl("inc")>>, <<Dot("unknown"), Ws>>, <<Dot("data")>>, <<Dot("string"), Ws, Junk>>,
         <<Dot("string"), Ws, Str(<<97>>, FALSE)>>, <<Dot("entry"), Ws>>, <<Dot("extern")>>,
         <<Dot("entry"), Ws, Id("mov")>>, <<Dot("extern"), Ws, Id("A"), Comma>>}}

AllLines ==
    OtherLines
    \cup {Line(A \o <<Id("mov"), Ws>> \o s, MovMeaning(s)) : s \in MovTexts}
    \cup {Line(A \o <<Id("jmp"), Ws, Id("A")>> \o s, JumpMeaning(s)) : s \in JumpTexts}
    \cup {Line(A \o <<Dot("data"), Ws>> \o s, DataMeaningOf(s)) : s \in DataTexts}

\* One comprehension over them all: TLC then looks a line up in a sorted set.
ScannerLines == {Line(l.text, l.means) : l \in {l \in AllLines : Separate(l.text)}}

LanguageLines == EncodingLines \cup ScannerLines
=============================================================================
