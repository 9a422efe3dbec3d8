------------------------------- MODULE Words -------------------------------
(***************************************************************************)
(* The 14-bit machine word and the pieces mainAssemblerPass.c builds it    *)
(* from.  A word is the set of its bits that are 1: the code assembles     *)
(* words with |=, which is set union, and prints bits 13 to 0 of an int,   *)
(* so keeping only these bits when a value is stored loses nothing.        *)
(***************************************************************************)
EXTENDS Integers

\* sharedEnums.h
IMMEDIATE       == 0
DIRECT          == 1
JUMP            == 2
DIRECT_REGISTER == 3
SOURCE          == 0
DESTINATION     == 1
EXTERNAL        == 1
RELOCATABLE     == 2

MINIMUM == -8192
MAXIMUM == 8191

inRange(v) == MINIMUM <= v /\ v <= MAXIMUM

\* The bits writeBinaryCodeToFile prints.
WordBits == 0..13

\* Mutant: an int of 16 bits, not cut to the 14 of a word.
UncutBits(v) == {b \in 0..15 : (v \div 2^b) % 2 = 1}

\* The printed bits of an int (two's complement: \div rounds down).
BitsOf(v) == {b \in WordBits : (v \div 2^b) % 2 = 1}

\* The bits a register number sets: 8-10 as a source, 2-4 as a destination.
\* Never called for r0, which the last branch would encode as r7.
registerToBinaryCode(registerNum, state) ==
    LET shift == IF state = SOURCE THEN 8 ELSE 2
        ones  == CASE registerNum \in {1, 2, 4} -> {registerNum \div 2}
                   [] registerNum = 3 -> {0, 1}
                   [] registerNum = 5 -> {0, 2}
                   [] registerNum = 6 -> {1, 2}
                   [] OTHER -> {0, 1, 2}
    IN  {shift + b : b \in ones}

\* The register word's bits, with the callers' guard for register 0.
RegisterBits(registerNum, state) ==
    IF registerNum = 0 THEN {} ELSE registerToBinaryCode(registerNum, state)

\* Mutant: the source field two bits too high.
HighSourceField(addressing, state) ==
    LET shift == IF state = SOURCE THEN 6 ELSE 2
    IN  CASE addressing = DIRECT -> {shift}
          [] addressing = JUMP   -> {shift + 1}
          [] OTHER               -> {shift, shift + 1}

\* The addressing bits of an ordinary instruction: 4-5 source, 2-3 destination.
updateQnodeBinCode(addressing, state) ==
    LET shift == IF state = SOURCE THEN 4 ELSE 2
    IN  CASE addressing = DIRECT -> {shift}
          [] addressing = JUMP   -> {shift + 1}
          [] OTHER               -> {shift, shift + 1}

\* Mutant: the parameter fields four bits too low.
LowParameterField(addressing, state) ==
    LET shift == IF state = SOURCE THEN 8 ELSE 6
    IN  CASE addressing = DIRECT          -> {shift}
          [] addressing = DIRECT_REGISTER -> {shift, shift + 1}
          [] OTHER                        -> {}

\* The parameter bits of a jump with operands: 12-13 source, 10-11 destination.
updateJumpWithOperBinCode(addressing, state) ==
    LET shift == IF state = SOURCE THEN 12 ELSE 10
    IN  CASE addressing = DIRECT          -> {shift}
          [] addressing = DIRECT_REGISTER -> {shift, shift + 1}
          [] OTHER                        -> {}

\* Which operands an opcode takes.
Binary     == {0, 1, 2, 3, 6}
JmpCapable == {9, 10, 13}
getArity(opCode) ==
    CASE opCode \in Binary     -> "BINARY"
      [] opCode \in JmpCapable -> "JMP_CAPABLE"
      [] opCode \notin Binary \cup JmpCapable /\ opCode < 14 -> "UNARY"
      [] OTHER                 -> "NULLARY"

\* Which addressing modes an opcode accepts for an operand.
isCompatibleAddressing(state, opCode, addressing) ==
    \/ opCode \in JmpCapable
    \/ state = SOURCE /\ (opCode \in {0, 1, 2, 3} \/ (opCode = 6 /\ addressing = DIRECT))
    \/ state = DESTINATION /\ (opCode \in {1, 12} \/ addressing # IMMEDIATE)
=============================================================================
