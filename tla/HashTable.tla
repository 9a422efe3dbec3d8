------------------------------ MODULE HashTable ------------------------------
(***************************************************************************)
(* The tables of hashTableDS.c: an array of buckets, each NULL or a queue   *)
(* of nodes, and the walk over all nodes that validation and writing make. *)
(***************************************************************************)
EXTENDS Integers, Sequences

CONSTANTS
    Labels,
    Values,             \* the data of a node
    NodeLabel(_),       \* a label as a node keeps it, up to its ':'
    HASH_TABLE_SIZE,
    hashFunctionV2(_),  \* the bucket of a label
    hashFunction(_),    \* the bucket of a node's label, a second copy in queueDS.c
    getKey(_),
    MaxCount,           \* bound on the insertions
    MayFail             \* whether an allocation may fail

\* The data of a node for which it could not be allocated.
Lost == "lost"

ASSUME BucketsAssumption ==
    /\ HASH_TABLE_SIZE \in Nat \ {0}
    /\ \A label \in Labels :
          hashFunctionV2(label) \in 0..(HASH_TABLE_SIZE - 1) /\ getKey(label) \in Nat
    /\ Lost \notin Values
    /\ MaxCount \in Nat /\ MayFail \in BOOLEAN

\* A label as written and as stored is in the same place: both copies of the hash
\* function stop at the ':', and so does the key.
ASSUME CopiesAssumption ==
    \A label \in Labels :
        /\ hashFunction(NodeLabel(label)) = hashFunctionV2(label)
        /\ getKey(NodeLabel(label)) = getKey(label)

VARIABLES
    table,          \* the buckets
    elementCount,
    found,          \* what the last search or step of a walk returned
    index,          \* where a walk over the table is; 0 and no probe before it
    probe           \* the place of its node in the bucket before index, or 0

vars == <<table, elementCount, found, index, probe>>

NULL == [label |-> "none"]
Buckets == 0..(HASH_TABLE_SIZE - 1)

\* Mutant: the ':' is copied too.
UncutQnode(label, value) == [label |-> label, authKey |-> getKey(label), data |-> value]

\* struct Qnode.
Qnode(label, value) == [label |-> NodeLabel(label), authKey |-> getKey(label), data |-> value]

Unallocated == [allocated |-> FALSE, nodes |-> <<>>]
Queue(nodes) == [allocated |-> TRUE, nodes |-> nodes]

Init ==
    /\ table = [b \in Buckets |-> Unallocated]
    /\ elementCount = 0
    /\ found = NULL
    /\ index = 0 /\ probe = 0

Walking == probe # 0 \/ index # 0

-----------------------------------------------------------------------------
\* hashIsEmptyCell: no queue, or one whose first node could not be allocated.
hashIsEmptyCell(b) == table[b].nodes = <<>>

\* Mutant: only the first node of the bucket is compared.
FirstPlace(nodes, authKey) ==
    IF nodes # <<>> /\ nodes[1].authKey = authKey THEN 1 ELSE 0

\* The place in a bucket of its first node with the key, 0 if there is none.
Place(nodes, authKey) ==
    LET same == {n \in 1..Len(nodes) : nodes[n].authKey = authKey}
    IN  IF same = {} THEN 0 ELSE CHOOSE n \in same : \A m \in same : n <= m

isUniqueLabel(b, authKey) == Place(table[b].nodes, authKey) = 0

\* enqueueV1_1: a new tail.
Enqueued(b, node) == [table EXCEPT ![b] = Queue(Append(@.nodes, node))]

\* hashInsert of a label that is not there yet.
InsertNode(label, value) ==
    LET b == hashFunctionV2(label)
    IN  /\ ~Walking /\ elementCount < MaxCount
        /\ isUniqueLabel(b, getKey(label))
        /\ table' = Enqueued(b, Qnode(label, value))
        /\ elementCount' = elementCount + 1
        /\ UNCHANGED <<found, index, probe>>

\* The allocation of the data fails: fillDataField returns ERROR, which enqueueV1_1
\* does not look at.
InsertWithoutData(label) == MayFail /\ InsertNode(label, Lost)

\* hashInsert of one that is: counted and not stored.
InsertRepeat(label) ==
    /\ ~Walking /\ elementCount < MaxCount
    /\ ~isUniqueLabel(hashFunctionV2(label), getKey(label))
    /\ elementCount' = elementCount + 1
    /\ UNCHANGED <<table, found, index, probe>>

\* createQueue or the allocation of the node fails: the queue may be there, the
\* node is not, and the insertion returns ERROR.
InsertFails(label) ==
    LET b == hashFunctionV2(label)
    IN  /\ ~Walking /\ MayFail
        /\ isUniqueLabel(b, getKey(label))
        /\ \/ table[b] = Unallocated /\ table' = [table EXCEPT ![b] = Queue(<<>>)]
           \/ UNCHANGED table
        /\ UNCHANGED <<elementCount, found, index, probe>>

\* hashSearchElement, for a label.
hashSearchElement(label) ==
    LET b == hashFunctionV2(label)
        n == Place(table[b].nodes, getKey(label))
    IN  /\ ~Walking
        /\ found' = IF n = 0 THEN NULL ELSE table[b].nodes[n]
        /\ UNCHANGED <<table, elementCount, index, probe>>

\* hashSearch, for a node of another table: nothing is looked for in an empty one.
hashSearch(label) ==
    LET b == hashFunction(NodeLabel(label))
        n == Place(table[b].nodes, getKey(label))
    IN  /\ ~Walking
        /\ found' = IF elementCount = 0 \/ n = 0 THEN NULL ELSE table[b].nodes[n]
        /\ UNCHANGED <<table, elementCount, index, probe>>

-----------------------------------------------------------------------------
\* The walk: index is the bucket behind the one probe is in.

NonEmptyFrom(k) == {b \in Buckets : b >= k /\ ~hashIsEmptyCell(b)}

\* Mutant: behind the last bucket it begins again.
RoundAgain ==
    LET rest == IF NonEmptyFrom(index) = {} THEN NonEmptyFrom(0) ELSE NonEmptyFrom(index)
    IN  IF rest = {} THEN (index' = 0 /\ probe' = 0 /\ found' = NULL)
        ELSE LET b == CHOOSE k \in rest : \A m \in rest : k <= m
             IN  index' = b + 1 /\ probe' = 1 /\ found' = table[b].nodes[1]

\* hashGetNextNonEmptyCell; behind the last bucket the walk is over.
hashGetNextNonEmptyCell ==
    LET rest == NonEmptyFrom(index)
    IN  IF rest = {} THEN (index' = 0 /\ probe' = 0 /\ found' = NULL)
        ELSE LET b == CHOOSE k \in rest : \A m \in rest : k <= m
             IN  index' = b + 1 /\ probe' = 1 /\ found' = table[b].nodes[1]

\* Mutant: one node of each bucket.
OneNodeEach ==
    /\ hashGetNextNonEmptyCell
    /\ UNCHANGED <<table, elementCount>>

\* The first cell, or the next one when the nodes of a bucket are done with.
NextCell ==
    /\ probe # 0 => probe = Len(table[index - 1].nodes)
    /\ hashGetNextNonEmptyCell
    /\ UNCHANGED <<table, elementCount>>

\* getNextNode.
NextNode ==
    /\ probe # 0 /\ probe < Len(table[index - 1].nodes)
    /\ probe' = probe + 1
    /\ found' = table[index - 1].nodes[probe + 1]
    /\ UNCHANGED <<table, elementCount, index>>

Next ==
    \/ \E label \in Labels, value \in Values : InsertNode(label, value)
    \/ \E label \in Labels :
          \/ InsertRepeat(label) \/ InsertFails(label) \/ InsertWithoutData(label)
          \/ hashSearchElement(label) \/ hashSearch(label)
    \/ NextCell \/ NextNode

\* A walk is not left half-way.
Spec == Init /\ [][Next]_vars /\ WF_vars(NextNode) /\ WF_vars(Walking /\ NextCell)

-----------------------------------------------------------------------------
NodeSet == [label : {NodeLabel(label) : label \in Labels}, authKey : Nat, data : Values \cup {Lost}]

\* Every variable has its type, and a walk is at a node.
TypeOK ==
    /\ table \in [Buckets -> [allocated : BOOLEAN, nodes : Seq(NodeSet)]]
    /\ elementCount \in 0..MaxCount
    /\ found \in NodeSet \cup {NULL}
    /\ index \in 0..HASH_TABLE_SIZE /\ probe \in Nat
    /\ (index = 0) <=> (probe = 0)
    /\ index # 0 => probe <= Len(table[index - 1].nodes)

\* A node is in the bucket its own label hashes to, under the key of that label, and
\* no two nodes of a bucket have the same key: a search that stops at the first match
\* finds what a later one would, in whatever order labels were inserted or failed to be.
ChainsSound ==
    \A b \in Buckets :
        LET nodes == table[b].nodes
        IN  /\ \A n \in 1..Len(nodes) :
                  hashFunction(nodes[n].label) = b /\ getKey(nodes[n].label) = nodes[n].authKey
            /\ \A n, m \in 1..Len(nodes) : nodes[n].authKey = nodes[m].authKey => n = m

\* A walk over the table comes to its end.
WalksEnd == []<>~Walking

-----------------------------------------------------------------------------
\* The table as a function from identities to nodes.
Identity(label) == <<hashFunctionV2(label), getKey(label)>>

Entry(node) == IF node = NULL THEN node ELSE [label |-> node.label, value |-> node.data]

Identities(buckets) ==
    UNION {{<<b, buckets[b].nodes[n].authKey>> : n \in 1..Len(buckets[b].nodes)} : b \in Buckets}

Stored(buckets, id) == Entry(buckets[id[1]].nodes[Place(buckets[id[1]].nodes, id[2])])

\* Whether a walk has not come to a node yet.
Behind(id) ==
    \/ id[1] >= index
    \/ id[1] = index - 1 /\ Place(table[id[1]].nodes, id[2]) > probe

Ahead == IF Walking THEN {id \in Identities(table) : Behind(id)} ELSE {}

Contents == INSTANCE Dictionary WITH
    Values <- Values \cup {Lost},
    Ident  <- Identity,
    nodes  <- [id \in Identities(table) |-> Stored(table, id)],
    count  <- elementCount,
    result <- Entry(found),
    todo   <- Ahead

\* Buckets, chains and the two copies of the hash function make a dictionary, in which
\* the first node of an identity stays and a walk meets every node exactly once.
ImplementsDictionary == Contents!Spec
=============================================================================
