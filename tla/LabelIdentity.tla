--------------------------- MODULE LabelIdentity ---------------------------
(***************************************************************************)
(* The two numbers a table tells a label by: getKey (sharedFunctions.c)    *)
(* and the FNV hash of hashTableDS.c and queueDS.c, modulo the size of the *)
(* table.  A label is a sequence of characters.                            *)
(***************************************************************************)
EXTENDS Integers, Sequences, Bitwise

CONSTANT LongBytes     \* the bytes of an unsigned long: 8, or 4

\* HASH_TABLE_SIZE.
TableSize == 307
MAX_LABEL_LEN   == 31

Digits == <<"0", "1", "2", "3", "4", "5", "6", "7", "8", "9">>
Upper  == <<"A", "B", "C", "D", "E", "F", "G", "H", "I", "J", "K", "L", "M",
            "N", "O", "P", "Q", "R", "S", "T", "U", "V", "W", "X", "Y", "Z">>
Lower  == <<"a", "b", "c", "d", "e", "f", "g", "h", "i", "j", "k", "l", "m",
            "n", "o", "p", "q", "r", "s", "t", "u", "v", "w", "x", "y", "z">>

Characters == {":"} \cup {s[i] : s \in {Digits}, i \in 1..10}
                    \cup {s[i] : s \in {Upper, Lower}, i \in 1..26}

PlaceIn(s, c) == CHOOSE i \in 1..Len(s) : s[i] = c
IsIn(s, c)    == \E i \in 1..Len(s) : s[i] = c

\* ASCII.
Code == [c \in Characters |->
            CASE c = ":"        -> 58
              [] IsIn(Digits, c) -> 47 + PlaceIn(Digits, c)
              [] IsIn(Upper, c)  -> 64 + PlaceIn(Upper, c)
              [] IsIn(Lower, c)  -> 96 + PlaceIn(Lower, c)]

\* 0 to 9, 10 to 35, 36 to 61.
getVal(c) == CASE IsIn(Digits, c) -> Code[c] - 48
               [] IsIn(Upper, c)  -> Code[c] - 55
               [] OTHER           -> Code[c] - 61

\* A label up to its ':' or its end, as the loops over it see it and as
\* enqueueV1_1 copies it.
LabelProper(label) ==
    LET end == {i \in 1..Len(label) : label[i] = ":"}
    IN  IF end = {} THEN label
        ELSE SubSeq(label, 1, (CHOOSE i \in end : \A j \in end : i <= j) - 1)

\* getKey: twice the key so far plus the value of the character.
KeyOfLabel(label) ==
    LET s == LabelProper(label)
        key[i \in 0..(MAX_LABEL_LEN - 1)] == IF i = 0 THEN 0 ELSE 2 * key[i - 1] + getVal(s[i])
    IN  key[IF Len(s) < MAX_LABEL_LEN THEN Len(s) ELSE MAX_LABEL_LEN - 1]

-----------------------------------------------------------------------------
\* An unsigned long, as the sequence of its bytes, the lowest first.

Bytes == [1..LongBytes -> 0..255]

\* 2166136261, which is 129, 157, 28 and 197 from the highest byte down.
FNV_offset_basis == [k \in 1..LongBytes |-> IF k <= 4 THEN <<197, 157, 28, 129>>[k] ELSE 0]

\* hash *= 16777619, which is 2^24 + 403; what leaves the long is lost.
TimesPrime(hash) ==
    LET Sum(k)   == 403 * hash[k] + (IF k > 3 THEN hash[k - 3] ELSE 0)
        carry[k \in 0..LongBytes] == IF k = 0 THEN 0 ELSE (Sum(k) + carry[k - 1]) \div 256
    IN  [k \in 1..LongBytes |-> (Sum(k) + carry[k - 1]) % 256]

\* hash ^= the character, and the multiplication.
Hashed(hash, c) == TimesPrime([hash EXCEPT ![1] = @ ^^ Code[c]])

Modulo(hash) ==
    LET rest[k \in 1..(LongBytes + 1)] ==
            IF k > LongBytes THEN 0 ELSE (256 * rest[k + 1] + hash[k]) % TableSize
    IN  rest[1]

\* hashFunctionV2.
BucketOfLabel(label) ==
    LET s == LabelProper(label)
        hash[i \in 0..Len(s)] == IF i = 0 THEN FNV_offset_basis ELSE Hashed(hash[i - 1], s[i])
    IN  Modulo(hash[Len(s)])

\* hashFunction: the copy of it in queueDS.c, for the label of a node.
BucketOfNode(label) == BucketOfLabel(label)
=============================================================================
