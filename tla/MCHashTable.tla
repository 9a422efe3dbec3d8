---------------------------- MODULE MCHashTable ----------------------------
(***************************************************************************)
(* Instances of HashTable for TLC, with the hash and the key of the code.  *)
(***************************************************************************)
EXTENDS HashTable

Real == INSTANCE LabelIdentity WITH LongBytes <- 8

\* clr, data and a are in one bucket; ad and dX also have one key.
Chained == {<<"c", "l", "r">>, <<"d", "a", "t", "a">>, <<"a", "d">>, <<"d", "X", ":">>,
            <<"a", ":">>, <<"a">>}

KeywordSeq == <<<<"m", "o", "v">>, <<"c", "m", "p">>, <<"a", "d", "d">>, <<"s", "u", "b">>,
                <<"n", "o", "t">>, <<"c", "l", "r">>, <<"l", "e", "a">>, <<"i", "n", "c">>,
                <<"d", "e", "c">>, <<"j", "m", "p">>, <<"b", "n", "e">>, <<"r", "e", "d">>,
                <<"p", "r", "n">>, <<"j", "s", "r">>, <<"r", "t", "s">>, <<"s", "t", "o", "p">>>>
Keywords == {KeywordSeq[k] : k \in 1..16}

\* Place and key of every label of a run, computed once.
Known == Chained \cup Keywords \cup {<<"y", "P", "x">>}
         \cup {Real!LabelProper(label) : label \in Chained}
HashOf == [label \in Known |-> Real!BucketOfLabel(label)]
NodeHashOf == [label \in Known |-> Real!BucketOfNode(label)]
KeyOf  == [label \in Known |-> Real!KeyOfLabel(label)]

MCNodeLabel(label)      == Real!LabelProper(label)
MChashFunctionV2(label) == HashOf[label]
MChashFunction(label)   == NodeHashOf[label]
MCgetKey(label)         == KeyOf[label]

\* What AssemblerState assumes of the reserved words, of the functions of the code.
ASSUME KeywordsKeptApart ==
    \A j, k \in 1..16 :
        HashOf[KeywordSeq[j]] = HashOf[KeywordSeq[k]] /\ KeyOf[KeywordSeq[j]] = KeyOf[KeywordSeq[k]]
            => j = k

\* A word that is not reserved and cannot be told from mov.
ASSUME KeywordsHaveLookalikes ==
    LET word == <<"y", "P", "x">> mov == KeywordSeq[1]
    IN  HashOf[word] = HashOf[mov] /\ KeyOf[word] = KeyOf[mov]
=============================================================================
