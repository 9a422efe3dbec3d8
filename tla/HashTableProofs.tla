--------------------------- MODULE HashTableProofs ---------------------------
(***************************************************************************)
(* The chains of the tables are sound and the table is a dictionary, for   *)
(* any size, any labels, any hash function and key, collisions included.   *)
(***************************************************************************)
EXTENDS HashTable, TLAPS, WellFoundedInduction

\* A set of numbers that is not empty has a smallest one.
LEMMA Smallest ==
    ASSUME NEW S \in SUBSET Nat, S # {}
    PROVE  \E n \in S : \A m \in S : n <= m
<1>1. \E n \in S : \A m \in S : <<m, n>> \notin OpToRel(<, Nat)
    BY NatLessThanWellFounded, WFMin, Zenon
<1>2. PICK n \in S : \A m \in S : <<m, n>> \notin OpToRel(<, Nat)
    BY <1>1
<1>3. \A m \in S : ~(m < n)
    BY <1>2 DEF OpToRel
<1> QED
    BY <1>3

\* Place finds a node with the key if there is one.
LEMMA PlaceFinds ==
    ASSUME NEW nodes \in Seq(NodeSet), NEW key
    PROVE  LET n == Place(nodes, key)
           IN  \/ n = 0 /\ \A m \in 1..Len(nodes) : nodes[m].authKey # key
               \/ n \in 1..Len(nodes) /\ nodes[n].authKey = key
<1> DEFINE same == {n \in 1..Len(nodes) : nodes[n].authKey = key}
<1>1. CASE same = {}
    BY <1>1 DEF Place
<1>2. CASE same # {}
    <2>1. same \in SUBSET Nat
        OBVIOUS
    <2>2. \E n \in same : \A m \in same : n <= m
        BY <1>2, <2>1, Smallest
    <2>3. Place(nodes, key) \in same
        BY <1>2, <2>2 DEF Place
    <2> QED
        BY <2>3
<1> QED
    BY <1>1, <1>2

\* The bucket of a label is one of the table's, and the same for both copies.
LEMMA BucketOf ==
    ASSUME NEW label \in Labels
    PROVE  /\ hashFunctionV2(label) \in Buckets
           /\ hashFunction(NodeLabel(label)) = hashFunctionV2(label)
           /\ getKey(NodeLabel(label)) = getKey(label)
           /\ getKey(label) \in Nat
BY BucketsAssumption, CopiesAssumption DEF Buckets

\* A new node has its type.
LEMMA NodeType ==
    ASSUME NEW label \in Labels, NEW value \in Values \cup {Lost}
    PROVE  Qnode(label, value) \in NodeSet
BY BucketOf DEF Qnode, NodeSet

LEMMA InitIsSound == Init => TypeOK /\ ChainsSound
<1> SUFFICES ASSUME Init PROVE TypeOK /\ ChainsSound
    OBVIOUS
<1>1. Unallocated \in [allocated : BOOLEAN, nodes : Seq(NodeSet)]
    BY DEF Unallocated
<1>2. \A b \in Buckets : table[b].nodes = <<>>
    BY DEF Init, Unallocated
<1>3. TypeOK
    BY <1>1, BucketsAssumption DEF Init, TypeOK
<1>4. ChainsSound
    BY <1>2 DEF ChainsSound
<1> QED
    BY <1>3, <1>4

\* A label inserted where its key is new.
LEMMA InsertNodeSound ==
    ASSUME TypeOK, ChainsSound, NEW label \in Labels, NEW value \in Values \cup {Lost},
           InsertNode(label, value)
    PROVE  TypeOK' /\ ChainsSound'
<1> DEFINE b    == hashFunctionV2(label)
           node == Qnode(label, value)
           old  == table[b].nodes
<1>1. b \in Buckets /\ node \in NodeSet
    BY BucketOf, NodeType
<1>2. old \in Seq(NodeSet) /\ Append(old, node) \in Seq(NodeSet)
    BY <1>1 DEF TypeOK
<1>3. table' = [table EXCEPT ![b] = Queue(Append(old, node))]
    BY DEF InsertNode, Enqueued
<1>4. table' \in [Buckets -> [allocated : BOOLEAN, nodes : Seq(NodeSet)]]
    BY <1>1, <1>2, <1>3 DEF TypeOK, Queue
<1>5. table'[b].nodes = Append(old, node) /\ \A c \in Buckets \ {b} : table'[c] = table[c]
    BY <1>1, <1>3 DEF TypeOK, Queue
<1>6. elementCount' \in 0..MaxCount
    BY BucketsAssumption DEF InsertNode, TypeOK
<1>7. index = 0 /\ probe = 0 /\ UNCHANGED <<found, index, probe>>
    BY DEF InsertNode, Walking
<1>8. TypeOK'
    BY <1>4, <1>6, <1>7 DEF TypeOK, Buckets
<1>9. \A n \in 1..Len(old) : old[n].authKey # node.authKey
    BY <1>1, <1>2, PlaceFinds DEF InsertNode, isUniqueLabel, Qnode
<1>10. hashFunction(node.label) = b /\ getKey(node.label) = node.authKey
    BY BucketOf DEF Qnode
<1>11. ChainsSound'
    <2> SUFFICES ASSUME NEW c \in Buckets
                 PROVE  LET nodes == table'[c].nodes
                        IN  /\ \A n \in 1..Len(nodes) :
                                  /\ hashFunction(nodes[n].label) = c
                                  /\ getKey(nodes[n].label) = nodes[n].authKey
                            /\ \A n, m \in 1..Len(nodes) :
                                  nodes[n].authKey = nodes[m].authKey => n = m
        BY DEF ChainsSound, Buckets
    <2>1. CASE c # b
        BY <1>5, <2>1 DEF ChainsSound
    <2>2. CASE c = b
        <3> DEFINE new == Append(old, node)
        <3>1. Len(new) = Len(old) + 1 /\ new[Len(old) + 1] = node
              /\ \A n \in 1..Len(old) : new[n] = old[n]
            BY <1>1, <1>2
        <3>2. \A n \in 1..Len(new) :
                 hashFunction(new[n].label) = b /\ getKey(new[n].label) = new[n].authKey
            BY <1>1, <1>2, <1>10, <3>1 DEF ChainsSound
        <3>3. \A n, m \in 1..Len(old) : old[n].authKey = old[m].authKey => n = m
            BY <1>1 DEF ChainsSound
        <3>4. Len(old) \in Nat /\ \A n \in 1..Len(new) : n \in 1..Len(old) \/ n = Len(old) + 1
            BY <1>2, <3>1
        <3>5. \A n, m \in 1..Len(new) : new[n].authKey = new[m].authKey => n = m
            <4> HIDE DEF new, old, node, b
            <4> QED
                BY <1>9, <3>1, <3>3, <3>4
        <3> QED
            BY <1>5, <2>2, <3>2, <3>5
    <2> QED
        BY <2>1, <2>2
<1> QED
    BY <1>8, <1>11

\* A queue created and left empty.
LEMMA InsertFailsSound ==
    ASSUME TypeOK, ChainsSound, NEW label \in Labels, InsertFails(label)
    PROVE  TypeOK' /\ ChainsSound' /\ \A b \in Buckets : table'[b].nodes = table[b].nodes
<1>1. hashFunctionV2(label) \in Buckets
    BY BucketOf
<1>2. Queue(<<>>) \in [allocated : BOOLEAN, nodes : Seq(NodeSet)] /\ Queue(<<>>).nodes = <<>>
    BY DEF Queue
<1>3. \A b \in Buckets : table'[b].nodes = table[b].nodes
    BY <1>1, <1>2 DEF InsertFails, TypeOK, Unallocated
<1>4. table' \in [Buckets -> [allocated : BOOLEAN, nodes : Seq(NodeSet)]]
    BY <1>1, <1>2 DEF InsertFails, TypeOK
<1>5. index = 0 /\ probe = 0 /\ UNCHANGED <<elementCount, found, index, probe>>
    BY DEF InsertFails, Walking
<1>6. TypeOK'
    BY <1>4, <1>5 DEF TypeOK, Buckets
<1>7. ChainsSound'
    BY <1>3 DEF ChainsSound, Buckets
<1> QED
    BY <1>3, <1>6, <1>7

\* What a search returns is a node or NULL.
LEMMA SearchSound ==
    ASSUME TypeOK, ChainsSound, NEW label \in Labels, hashSearchElement(label) \/ hashSearch(label)
    PROVE  TypeOK' /\ ChainsSound'
<1> DEFINE b == hashFunctionV2(label)
           n == Place(table[b].nodes, getKey(label))
<1>1. b \in Buckets /\ hashFunction(NodeLabel(label)) = b
    BY BucketOf
<1>2. n # 0 => table[b].nodes[n] \in NodeSet
    BY <1>1, PlaceFinds DEF TypeOK
<1>3. found' \in NodeSet \cup {NULL} /\ UNCHANGED <<table, elementCount, index, probe>>
    BY <1>1, <1>2 DEF hashSearchElement, hashSearch
<1>4. TypeOK'
    BY <1>3 DEF TypeOK, Buckets
<1>5. ChainsSound'
    BY <1>3 DEF ChainsSound, Buckets
<1> QED
    BY <1>4, <1>5

\* The next cell of a walk: the first one from index on that is not empty.
LEMMA NextCellGoes ==
    ASSUME TypeOK, NextCell
    PROVE  \/ /\ NonEmptyFrom(index) = {}
              /\ index' = 0 /\ probe' = 0 /\ found' = NULL
           \/ \E b \in Buckets :
                 /\ b >= index /\ ~hashIsEmptyCell(b)
                 /\ \A c \in Buckets : c >= index /\ ~hashIsEmptyCell(c) => b <= c
                 /\ index' = b + 1 /\ probe' = 1 /\ found' = table[b].nodes[1]
<1> DEFINE rest == NonEmptyFrom(index)
<1>1. CASE rest = {}
    BY <1>1 DEF NextCell, hashGetNextNonEmptyCell
<1>2. CASE rest # {}
    <2>1. rest \in SUBSET Nat
        BY BucketsAssumption DEF NonEmptyFrom, Buckets
    <2>2. \E k \in rest : \A m \in rest : k <= m
        BY <1>2, <2>1, Smallest
    <2> DEFINE b == CHOOSE k \in rest : \A m \in rest : k <= m
    <2>3. b \in rest /\ \A m \in rest : b <= m
        BY <2>2
    <2>4. index' = b + 1 /\ probe' = 1 /\ found' = table[b].nodes[1]
        BY <1>2 DEF NextCell, hashGetNextNonEmptyCell
    <2> HIDE DEF b
    <2> QED
        BY <2>3, <2>4 DEF NonEmptyFrom
<1> QED
    BY <1>1, <1>2

LEMMA WalkSound ==
    ASSUME TypeOK, ChainsSound, NextCell \/ NextNode
    PROVE  TypeOK' /\ ChainsSound'
<1>1. UNCHANGED <<table, elementCount>>
    BY DEF NextCell, NextNode
<1>2. ChainsSound'
    BY <1>1 DEF ChainsSound, Buckets
<1>3. ASSUME NextCell PROVE TypeOK'
    <2>1. ASSUME index' = 0, probe' = 0, found' = NULL PROVE TypeOK'
        BY <1>1, <2>1, BucketsAssumption DEF TypeOK, Buckets, NULL
    <2>2. ASSUME NEW b \in Buckets, ~hashIsEmptyCell(b),
                 index' = b + 1, probe' = 1, found' = table[b].nodes[1]
          PROVE  TypeOK'
        <3>1. table[b].nodes \in Seq(NodeSet) /\ table[b].nodes # <<>>
            BY <2>2 DEF TypeOK, hashIsEmptyCell
        <3>2. 1 <= Len(table[b].nodes) /\ table[b].nodes[1] \in NodeSet
            BY <3>1
        <3>3. index' \in 1..HASH_TABLE_SIZE /\ index' - 1 = b
            BY <2>2, BucketsAssumption DEF Buckets
        <3>4. found' \in NodeSet \cup {NULL} /\ probe' <= Len(table'[index' - 1].nodes)
            BY <1>1, <2>2, <3>2, <3>3
        <3> QED
            BY <1>1, <2>2, <3>3, <3>4, BucketsAssumption DEF TypeOK, Buckets
    <2> QED
        BY <1>3, <2>1, <2>2, NextCellGoes
<1>4. ASSUME NextNode PROVE TypeOK'
    <2>1. probe # 0 /\ index # 0 /\ index - 1 \in Buckets
        BY <1>4, BucketsAssumption DEF NextNode, TypeOK, Buckets
    <2>2. table[index - 1].nodes \in Seq(NodeSet)
        BY <2>1 DEF TypeOK
    <2>3. probe + 1 \in 1..Len(table[index - 1].nodes)
        BY <1>4, <2>1, <2>2 DEF NextNode, TypeOK
    <2>4. found' \in NodeSet \cup {NULL}
        BY <1>4, <2>2, <2>3 DEF NextNode
    <2>5. probe' \in Nat /\ probe' # 0 /\ index' = index
          /\ probe' <= Len(table'[index' - 1].nodes)
        BY <1>1, <1>4, <2>2, <2>3 DEF NextNode, TypeOK
    <2> QED
        BY <1>1, <2>1, <2>4, <2>5 DEF TypeOK, Buckets
<1>5. TypeOK'
    BY <1>3, <1>4
<1> QED
    BY <1>2, <1>5

LEMMA NextIsSound == TypeOK /\ ChainsSound /\ [Next]_vars => TypeOK' /\ ChainsSound'
<1> SUFFICES ASSUME TypeOK, ChainsSound, [Next]_vars PROVE TypeOK' /\ ChainsSound'
    OBVIOUS
<1>1. CASE \E label \in Labels, value \in Values : InsertNode(label, value)
    BY <1>1, InsertNodeSound
<1>2. CASE \E label \in Labels : InsertRepeat(label)
    <2>1. elementCount' \in 0..MaxCount /\ UNCHANGED <<table, found, index, probe>>
        BY <1>2, BucketsAssumption DEF InsertRepeat, TypeOK
    <2>2. TypeOK'
        BY <2>1 DEF TypeOK, Buckets
    <2>3. ChainsSound'
        BY <2>1 DEF ChainsSound, Buckets
    <2> QED
        BY <2>2, <2>3
<1>3. CASE \E label \in Labels : InsertFails(label)
    BY <1>3, InsertFailsSound
<1>4. CASE \E label \in Labels : InsertWithoutData(label)
    BY <1>4, InsertNodeSound DEF InsertWithoutData
<1>5. CASE \E label \in Labels : hashSearchElement(label) \/ hashSearch(label)
    BY <1>5, SearchSound
<1>6. CASE NextCell \/ NextNode
    BY <1>6, WalkSound
<1>7. CASE UNCHANGED vars
    BY <1>7 DEF vars, TypeOK, ChainsSound, Buckets
<1> QED
    BY <1>1, <1>2, <1>3, <1>4, <1>5, <1>6, <1>7 DEF Next

\* Every variable of a table has its type, and a walk over it is at a node.
THEOREM TableTypes == Spec => []TypeOK
<1>1. Spec => [](TypeOK /\ ChainsSound)
    BY InitIsSound, NextIsSound, PTL DEF Spec
<1> QED
    BY <1>1, PTL

\* However labels collide and allocations fail, every node is in the bucket and under the
\* key of its label, and no bucket holds two nodes with one key.
THEOREM TableSound == Spec => []ChainsSound
<1>1. Spec => [](TypeOK /\ ChainsSound)
    BY InitIsSound, NextIsSound, PTL DEF Spec
<1> QED
    BY <1>1, PTL

-----------------------------------------------------------------------------
\* The table as a dictionary.

\* A search finds a node under its own key when no other node of the bucket has it.
LEMMA PlaceIs ==
    ASSUME NEW nodes \in Seq(NodeSet), NEW n \in 1..Len(nodes),
           \A k, m \in 1..Len(nodes) : nodes[k].authKey = nodes[m].authKey => k = m
    PROVE  Place(nodes, nodes[n].authKey) = n
BY PlaceFinds

\* The chains of a sound table, one by one.
LEMMA Chains ==
    ASSUME TypeOK, ChainsSound, NEW b \in Buckets
    PROVE  /\ table[b].nodes \in Seq(NodeSet)
           /\ \A n, m \in 1..Len(table[b].nodes) :
                 table[b].nodes[n].authKey = table[b].nodes[m].authKey => n = m
           /\ \A n \in 1..Len(table[b].nodes) :
                 Place(table[b].nodes, table[b].nodes[n].authKey) = n
<1>1. table[b].nodes \in Seq(NodeSet)
    BY DEF TypeOK
<1>2. \A n, m \in 1..Len(table[b].nodes) :
         table[b].nodes[n].authKey = table[b].nodes[m].authKey => n = m
    BY DEF ChainsSound
<1> QED
    BY <1>1, <1>2, PlaceIs

\* The identities of a table are its nodes' buckets and keys.
LEMMA IdentitiesAre ==
    ASSUME NEW buckets, NEW id
    PROVE  id \in Identities(buckets) <=>
              \E b \in Buckets : \E n \in 1..Len(buckets[b].nodes) :
                  id = <<b, buckets[b].nodes[n].authKey>>
BY DEF Identities

\* A search for an identity that is there finds one of its nodes.
LEMMA StoredIs ==
    ASSUME TypeOK, NEW b \in Buckets, NEW key
    PROVE  /\ Place(table[b].nodes, key) = 0 => <<b, key>> \notin Identities(table)
           /\ Place(table[b].nodes, key) # 0 => <<b, key>> \in Identities(table)
<1>1. table[b].nodes \in Seq(NodeSet)
    BY DEF TypeOK
<1> QED
    BY <1>1, PlaceFinds, IdentitiesAre

\* What is stored is not NULL.
LEMMA EntryOfNode ==
    ASSUME NEW node \in NodeSet
    PROVE  Entry(node) = [label |-> node.label, value |-> node.data]
<1>1. DOMAIN node = {"label", "authKey", "data"} /\ DOMAIN NULL = {"label"}
    BY DEF NodeSet, NULL
<1>2. node # NULL
    BY <1>1
<1> QED
    BY <1>2 DEF Entry

\* Two tables with the same chains hold the same nodes.
LEMMA SameChains ==
    ASSUME NEW old, NEW new, \A b \in Buckets : new[b].nodes = old[b].nodes
    PROVE  /\ Identities(new) = Identities(old)
           /\ \A id \in Identities(old) : Stored(new, id) = Stored(old, id)
<1>1. \A id : id \in Identities(new) <=> id \in Identities(old)
    BY IdentitiesAre
<1>2. \A id \in Identities(old) : id[1] \in Buckets
    BY IdentitiesAre
<1> QED
    BY <1>1, <1>2 DEF Stored

LEMMA InitRefines == Init => Contents!Init
<1> SUFFICES ASSUME Init PROVE Contents!Init
    OBVIOUS
<1>1. \A b \in Buckets : table[b].nodes = <<>>
    BY DEF Init, Unallocated
<1>2. Identities(table) = {}
    BY <1>1, IdentitiesAre
<1>3. Ahead = {} /\ elementCount = 0 /\ Entry(found) = NULL
    BY DEF Init, Ahead, Walking, Entry
<1> QED
    BY <1>2, <1>3 DEF Contents!Init, Contents!Nothing, NULL

\* An insertion of a new label adds its node and leaves the others.
LEMMA InsertNodeRefines ==
    ASSUME TypeOK, ChainsSound, NEW label \in Labels, NEW value \in Values \cup {Lost},
           InsertNode(label, value)
    PROVE  Contents!Insert(label, value)
<1> DEFINE b    == hashFunctionV2(label)
           key  == getKey(label)
           node == Qnode(label, value)
           old  == table[b].nodes
           new  == Append(old, node)
<1>1. b \in Buckets /\ node \in NodeSet /\ node.authKey = key
    BY BucketOf, NodeType DEF Qnode
<1>2. /\ old \in Seq(NodeSet)
      /\ \A n \in 1..Len(old) : Place(old, old[n].authKey) = n
      /\ \A n, m \in 1..Len(old) : old[n].authKey = old[m].authKey => n = m
    BY <1>1, Chains
<1>3. /\ new \in Seq(NodeSet) /\ Len(old) \in Nat
      /\ Len(new) = Len(old) + 1 /\ new[Len(old) + 1] = node
      /\ \A n \in 1..Len(old) : new[n] = old[n]
    BY <1>1, <1>2
<1>4. table'[b].nodes = new /\ \A c \in Buckets : c # b => table'[c] = table[c]
    BY <1>1 DEF InsertNode, Enqueued, TypeOK, Queue
<1>5. \A n \in 1..Len(old) : old[n].authKey # key
    BY <1>1, <1>2, PlaceFinds DEF InsertNode, isUniqueLabel
<1>6. \A n \in 1..Len(new) : Place(new, new[n].authKey) = n
    <2> HIDE DEF new, old, node, b, key
    <2>1. \A n \in 1..Len(new) : n \in 1..Len(old) \/ n = Len(old) + 1
        BY <1>3
    <2>2. \A n, m \in 1..Len(new) : new[n].authKey = new[m].authKey => n = m
        BY <1>1, <1>2, <1>3, <1>5, <2>1
    <2> QED
        BY <1>3, <2>2, PlaceIs
<1>7. Ahead = {} /\ Ahead' = {}
    BY DEF InsertNode, Ahead, Walking
<1>8. Stored(table', <<b, key>>) = [label |-> NodeLabel(label), value |-> value]
    <2>1. Place(new, key) = Len(old) + 1
        BY <1>1, <1>3, <1>6
    <2>2. Stored(table', <<b, key>>) = Entry(node)
        BY <1>3, <1>4, <2>1 DEF Stored
    <2> QED
        BY <1>1, <2>2, EntryOfNode DEF Qnode
<1>9. ASSUME NEW id \in Identities(table)
      PROVE  id \in Identities(table') /\ Stored(table', id) = Stored(table, id)
    <2>1. PICK c, n : c \in Buckets /\ n \in 1..Len(table[c].nodes) /\ id = <<c, table[c].nodes[n].authKey>>
        BY IdentitiesAre
    <2>2. CASE c # b
        BY <1>4, <2>1, <2>2, IdentitiesAre DEF Stored
    <2>3. CASE c = b
        <3>1. n \in 1..Len(new) /\ new[n] = old[n] /\ Place(new, new[n].authKey) = n
              /\ Place(old, old[n].authKey) = n
            BY <1>2, <1>3, <1>6, <2>1, <2>3
        <3>2. id = <<b, old[n].authKey>>
            BY <2>1, <2>3
        <3> QED
            BY <1>1, <1>4, <3>1, <3>2, IdentitiesAre DEF Stored
    <2> QED
        BY <2>2, <2>3
<1>10. <<b, key>> \in Identities(table') /\ <<b, key>> \notin Identities(table)
    <2>1. Len(old) + 1 \in 1..Len(new) /\ new[Len(old) + 1].authKey = key
        BY <1>1, <1>3
    <2>2. <<b, key>> \in Identities(table')
        BY <1>1, <1>4, <2>1, IdentitiesAre
    <2> QED
        BY <1>5, <2>2, IdentitiesAre
<1>11. ASSUME NEW id \in Identities(table') PROVE id \in Identities(table) \cup {<<b, key>>}
    <2>1. PICK c, n : c \in Buckets /\ n \in 1..Len(table'[c].nodes) /\ id = <<c, table'[c].nodes[n].authKey>>
        BY IdentitiesAre
    <2>2. CASE c # b
        BY <1>4, <2>1, <2>2, IdentitiesAre
    <2>3. CASE c = b
        <3>1. n \in 1..Len(new) /\ id = <<b, new[n].authKey>>
            BY <1>4, <2>1, <2>3
        <3>2. CASE n = Len(old) + 1
            BY <1>1, <1>3, <3>1, <3>2
        <3>3. CASE n \in 1..Len(old)
            BY <1>1, <1>3, <3>1, <3>3, IdentitiesAre
        <3> QED
            BY <1>3, <3>1, <3>2, <3>3
    <2> QED
        BY <2>2, <2>3
<1>12. Identities(table') = Identities(table) \cup {<<b, key>>}
    BY <1>9, <1>10, <1>11
<1>13. [id \in Identities(table') |-> Stored(table', id)] =
          [id \in Identities(table) \cup {Identity(label)} |->
              IF id \in Identities(table) THEN Stored(table, id)
              ELSE [label |-> NodeLabel(label), value |-> value]]
    BY <1>8, <1>9, <1>10, <1>12 DEF Identity
<1>14. elementCount' = elementCount + 1 /\ UNCHANGED found
    BY DEF InsertNode
<1> QED
    BY <1>7, <1>13, <1>14 DEF Contents!Insert, Contents!Node

\* An insertion of a label that is there only counts.
LEMMA InsertRepeatRefines ==
    ASSUME TypeOK, ChainsSound, NEW label \in Labels, InsertRepeat(label)
    PROVE  Contents!Insert(label, Lost)
<1>1. Identity(label) \in Identities(table)
    BY BucketOf, StoredIs DEF InsertRepeat, isUniqueLabel, Identity
<1>2. Ahead = {} /\ Ahead' = {} /\ elementCount' = elementCount + 1 /\ UNCHANGED <<table, found>>
    BY DEF InsertRepeat, Ahead, Walking
<1>3. [id \in Identities(table') |-> Stored(table', id)] =
          [id \in Identities(table) \cup {Identity(label)} |->
              IF id \in Identities(table) THEN Stored(table, id)
              ELSE [label |-> NodeLabel(label), value |-> Lost]]
    BY <1>1, <1>2
<1> QED
    BY <1>2, <1>3 DEF Contents!Insert, Contents!Node

\* A failed insertion is not seen.
LEMMA InsertFailsRefines ==
    ASSUME TypeOK, ChainsSound, NEW label \in Labels, InsertFails(label)
    PROVE  /\ [id \in Identities(table') |-> Stored(table', id)] =
                 [id \in Identities(table) |-> Stored(table, id)]
           /\ UNCHANGED <<elementCount, Entry(found), Ahead>>
<1>1. \A b \in Buckets : table'[b].nodes = table[b].nodes
    BY InsertFailsSound
<1>2. Ahead = {} /\ Ahead' = {} /\ UNCHANGED <<elementCount, found>>
    BY DEF InsertFails, Ahead, Walking
<1>3. /\ Identities(table') = Identities(table)
      /\ \A id \in Identities(table) : Stored(table', id) = Stored(table, id)
    BY <1>1, SameChains
<1> QED
    BY <1>2, <1>3

\* A search finds what is stored, or is for nothing in an empty table.
LEMMA SearchRefines ==
    ASSUME TypeOK, ChainsSound, NEW label \in Labels, hashSearchElement(label) \/ hashSearch(label)
    PROVE  Contents!Search(label) \/ Contents!Forget
<1> DEFINE b == hashFunctionV2(label)
           n == Place(table[b].nodes, getKey(label))
<1>1. b \in Buckets /\ hashFunction(NodeLabel(label)) = b
    BY BucketOf
<1>2. Ahead = {} /\ Ahead' = {} /\ UNCHANGED <<table, elementCount>>
    BY DEF hashSearchElement, hashSearch, Ahead, Walking
<1>3. CASE found' = NULL /\ ~hashSearchElement(label)
    BY <1>2, <1>3 DEF Contents!Forget, Contents!Nothing, Entry, NULL
<1>4. CASE found' = IF n = 0 THEN NULL ELSE table[b].nodes[n]
    <2>1. CASE n = 0
        BY <1>1, <1>2, <1>4, <2>1, StoredIs
        DEF Contents!Search, Contents!Nothing, Identity, Entry, NULL
    <2>2. CASE n # 0
        <3>1. Identity(label) \in Identities(table)
            BY <1>1, <2>2, StoredIs DEF Identity
        <3>2. Entry(found') = Stored(table, Identity(label))
            BY <1>4, <2>2 DEF Stored, Identity
        <3> QED
            BY <1>2, <3>1, <3>2 DEF Contents!Search
    <2> QED
        BY <2>1, <2>2
<1> QED
    BY <1>1, <1>3, <1>4 DEF hashSearchElement, hashSearch

\* Where a walk that goes on to the next cell has been: behind it are the buckets from
\* index on.
LEMMA NodesAhead ==
    ASSUME TypeOK, ChainsSound, NextCell
    PROVE  IF Walking THEN Ahead = {id \in Identities(table) : id[1] >= index}
           ELSE Ahead = {} /\ index = 0
<1>1. CASE ~Walking
    BY <1>1 DEF Ahead, Walking
<1>2. CASE Walking
    <2>1. index - 1 \in Buckets /\ probe = Len(table[index - 1].nodes)
        BY <1>2, BucketsAssumption DEF Walking, NextCell, TypeOK, Buckets
    <2>2. \A id \in Identities(table) : id[1] = index - 1 => ~(Place(table[id[1]].nodes, id[2]) > probe)
        <3> SUFFICES ASSUME NEW id \in Identities(table), id[1] = index - 1
                     PROVE  ~(Place(table[id[1]].nodes, id[2]) > probe)
            OBVIOUS
        <3>1. table[index - 1].nodes \in Seq(NodeSet)
            BY <2>1 DEF TypeOK
        <3>2. Place(table[index - 1].nodes, id[2]) \in 0..Len(table[index - 1].nodes)
            BY <3>1, PlaceFinds
        <3> QED
            BY <2>1, <3>1, <3>2
    <2>3. Ahead = {id \in Identities(table) : id[1] >= index}
        BY <1>2, <2>2 DEF Ahead, Behind
    <2> QED
        BY <1>2, <2>3
<1> QED
    BY <1>1, <1>2

\* The next cell is one node of the dictionary, or the end of the look at them.
LEMMA NextCellRefines ==
    ASSUME TypeOK, ChainsSound, NextCell
    PROVE  Contents!LookAtAll \/ (\E id \in Ahead : Contents!Look(id)) \/ Contents!Forget
<1> DEFINE rest == {id \in Identities(table) : id[1] >= index}
<1>1. UNCHANGED <<table, elementCount>>
    BY DEF NextCell
<1>2. \A id \in Identities(table) : id[1] \in Buckets /\ id[1] \in Nat
    BY IdentitiesAre, BucketsAssumption DEF Buckets
<1>3. Ahead = (IF Walking THEN rest ELSE {}) /\ (~Walking => rest = Identities(table))
    <2>1. index = 0 => rest = Identities(table)
        BY <1>2
    <2> QED
        BY <2>1, NodesAhead
<1>4. ASSUME NonEmptyFrom(index) = {}, index' = 0, probe' = 0, found' = NULL
      PROVE  Contents!Forget
    <2>1. rest = {}
        <3> SUFFICES ASSUME NEW id \in rest PROVE FALSE
            OBVIOUS
        <3>1. PICK b, n : b \in Buckets /\ n \in 1..Len(table[b].nodes)
                          /\ id = <<b, table[b].nodes[n].authKey>>
            BY IdentitiesAre
        <3>2. table[b].nodes # <<>> /\ b >= index
            BY <3>1
        <3> QED
            BY <1>4, <3>1, <3>2 DEF NonEmptyFrom, hashIsEmptyCell
    <2>2. Ahead = {} /\ Ahead' = {}
        BY <1>3, <1>4, <2>1 DEF Ahead, Walking
    <2> QED
        BY <1>1, <1>4, <2>2 DEF Contents!Forget, Contents!Nothing, Entry, NULL
<1>5. ASSUME NEW b \in Buckets, b >= index, ~hashIsEmptyCell(b),
             \A c \in Buckets : c >= index /\ ~hashIsEmptyCell(c) => b <= c,
             index' = b + 1, probe' = 1, found' = table[b].nodes[1]
      PROVE  Contents!LookAtAll \/ \E id \in Ahead : Contents!Look(id)
    <2> DEFINE first == <<b, table[b].nodes[1].authKey>>
    <2>1. table[b].nodes \in Seq(NodeSet) /\ table[b].nodes # <<>> /\ b \in Nat
        BY <1>5, BucketsAssumption DEF TypeOK, hashIsEmptyCell, Buckets
    <2>2. 1 \in 1..Len(table[b].nodes) /\ Place(table[b].nodes, table[b].nodes[1].authKey) = 1
        BY <2>1, Chains
    <2>3. first \in rest
        BY <1>5, <2>2, IdentitiesAre
    <2>4. Entry(found') = Stored(table, first)
        BY <1>5, <2>2 DEF Stored
    <2>5. Ahead' = {id \in Identities(table) :
                       id[1] >= b + 1 \/ (id[1] = b /\ Place(table[b].nodes, id[2]) > 1)}
        BY <1>1, <1>5, <2>1 DEF Ahead, Walking, Behind
    <2>6. ASSUME NEW id \in Identities(table)
          PROVE  (id[1] >= b + 1 \/ (id[1] = b /\ Place(table[b].nodes, id[2]) > 1)) <=>
                     id \in rest /\ id # first
        <3>1. PICK c, n : c \in Buckets /\ n \in 1..Len(table[c].nodes)
                          /\ id = <<c, table[c].nodes[n].authKey>>
            BY IdentitiesAre
        <3>2. c \in Nat /\ index \in Nat /\ table[c].nodes \in Seq(NodeSet) /\ id[1] = c
              /\ Place(table[c].nodes, id[2]) = n
            BY <3>1, Chains, BucketsAssumption DEF TypeOK, Buckets
        <3>3. ~hashIsEmptyCell(c)
            BY <3>1, <3>2 DEF hashIsEmptyCell
        <3>4. CASE c # b
            BY <1>5, <2>1, <3>1, <3>2, <3>3, <3>4
        <3>5. CASE c = b
            <4>1. id = first <=> n = 1
                BY <2>2, <3>1, <3>2, <3>5
            <4> QED
                BY <1>5, <2>1, <3>1, <3>2, <3>5, <4>1
        <3> QED
            BY <3>4, <3>5
    <2>7. Ahead' = rest \ {first}
        BY <2>5, <2>6
    <2>8. CASE Walking
        <3>1. first \in Ahead /\ Contents!Look(first)
            BY <1>1, <1>3, <2>3, <2>4, <2>7, <2>8 DEF Contents!Look
        <3> QED
            BY <3>1
    <2>9. CASE ~Walking
        <3>1. Contents!LookAtAll
            BY <1>1, <1>3, <2>3, <2>4, <2>7, <2>9 DEF Contents!LookAtAll
        <3> QED
            BY <3>1
    <2> QED
        BY <2>8, <2>9
<1> QED
    BY <1>4, <1>5, NextCellGoes

\* The next node of a bucket is one node of the dictionary.
LEMMA NextNodeRefines ==
    ASSUME TypeOK, ChainsSound, NextNode
    PROVE  \E id \in Ahead : Contents!Look(id)
<1> DEFINE b     == index - 1
           nodes == table[b].nodes
           next  == <<b, nodes[probe + 1].authKey>>
<1>1. probe # 0 /\ index # 0 /\ b \in Buckets /\ Walking
    BY BucketsAssumption DEF NextNode, TypeOK, Buckets, Walking
<1>2. nodes \in Seq(NodeSet) /\ probe \in Nat /\ index \in Nat
    BY <1>1, BucketsAssumption DEF TypeOK
<1>3. probe + 1 \in 1..Len(nodes) /\ Place(nodes, nodes[probe + 1].authKey) = probe + 1
    BY <1>1, <1>2, Chains DEF NextNode
<1>4. probe' = probe + 1 /\ found' = nodes[probe + 1] /\ UNCHANGED <<table, elementCount, index>>
    BY DEF NextNode
<1>5. next \in Identities(table) /\ Entry(found') = Stored(table, next)
    BY <1>1, <1>3, <1>4, IdentitiesAre DEF Stored
<1>6. next \in Ahead
    BY <1>1, <1>2, <1>3, <1>5 DEF Ahead, Behind
<1>7. ASSUME NEW id \in Identities(table)
      PROVE  Behind(id)' <=> Behind(id) /\ id # next
    <2>1. PICK c, n : c \in Buckets /\ n \in 1..Len(table[c].nodes)
                      /\ id = <<c, table[c].nodes[n].authKey>>
        BY IdentitiesAre
    <2>2. c \in Nat /\ table[c].nodes \in Seq(NodeSet) /\ id[1] = c
          /\ Place(table[c].nodes, id[2]) = n
        BY <2>1, Chains, BucketsAssumption DEF TypeOK, Buckets
    <2>3. CASE c # b
        BY <1>2, <1>4, <2>1, <2>2, <2>3 DEF Behind
    <2>4. CASE c = b
        <3>1. id = next <=> n = probe + 1
            BY <1>3, <2>1, <2>2, <2>4
        <3> QED
            BY <1>2, <1>4, <2>1, <2>2, <2>4, <3>1 DEF Behind
    <2> QED
        BY <2>3, <2>4
<1>8. Ahead' = Ahead \ {next}
    BY <1>1, <1>4, <1>7 DEF Ahead, Walking
<1> QED
    BY <1>4, <1>5, <1>6, <1>8 DEF Contents!Look

LEMMA NextRefines ==
    TypeOK /\ ChainsSound /\ [Next]_vars =>
        [Contents!Next]_<<[id \in Identities(table) |-> Stored(table, id)],
                          elementCount, Entry(found), Ahead>>
<1> SUFFICES ASSUME TypeOK, ChainsSound, [Next]_vars
             PROVE  [Contents!Next]_<<[id \in Identities(table) |-> Stored(table, id)],
                                      elementCount, Entry(found), Ahead>>
    OBVIOUS
<1>1. CASE \E label \in Labels, value \in Values : InsertNode(label, value)
    BY <1>1, InsertNodeRefines DEF Contents!Next
<1>2. CASE \E label \in Labels : InsertRepeat(label)
    BY <1>2, InsertRepeatRefines DEF Contents!Next
<1>3. CASE \E label \in Labels : InsertFails(label)
    BY <1>3, InsertFailsRefines
<1>4. CASE \E label \in Labels : InsertWithoutData(label)
    BY <1>4, InsertNodeRefines DEF InsertWithoutData, Contents!Next
<1>5. CASE \E label \in Labels : hashSearchElement(label) \/ hashSearch(label)
    BY <1>5, SearchRefines DEF Contents!Next
<1>6. CASE NextCell
    BY <1>6, NextCellRefines DEF Contents!Next
<1>7. CASE NextNode
    BY <1>7, NextNodeRefines DEF Contents!Next
<1>8. CASE UNCHANGED vars
    BY <1>8 DEF vars, Ahead, Walking, Behind
<1> QED
    BY <1>1, <1>2, <1>3, <1>4, <1>5, <1>6, <1>7, <1>8 DEF Next

\* The tables of the assembler are dictionaries: whatever labels share buckets or keys and
\* whichever allocations fail, the first node of an identity is what every search for it
\* finds, and a walk with hashGetNextNonEmptyCell and getNextNode meets each node once.
THEOREM TableImplementsDictionary == Spec => ImplementsDictionary
<1>1. Spec => []TypeOK /\ []ChainsSound
    BY TableTypes, TableSound
<1> QED
    BY <1>1, InitRefines, NextRefines, PTL DEF Spec, ImplementsDictionary, Contents!Spec
=============================================================================
