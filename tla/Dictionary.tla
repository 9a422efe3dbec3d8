----------------------------- MODULE Dictionary -----------------------------
(***************************************************************************)
(* What a table promises its callers: the first node inserted for each      *)
(* identity, found again by that identity, and a way to look at every node  *)
(* once.  AssemblerState and MacroExpansion keep their tables like this.    *)
(***************************************************************************)
EXTENDS Integers

CONSTANTS
    Labels,
    Values,
    NodeLabel(_),
    Ident(_)     \* what a label is told by

VARIABLES
    nodes,       \* for each identity the node stored
    count,       \* the insertions, those of a repeated identity among them
    result,      \* what the last search found
    todo         \* the identities a look at every node has not come to yet

Node(label, value) == [label |-> NodeLabel(label), value |-> value]
Nothing == [label |-> "none"]

Init == nodes = [id \in {} |-> Nothing] /\ count = 0 /\ result = Nothing /\ todo = {}

Insert(label, value) ==
    /\ todo = {}
    /\ nodes' = [id \in DOMAIN nodes \cup {Ident(label)} |->
                    IF id \in DOMAIN nodes THEN nodes[id] ELSE Node(label, value)]
    /\ count' = count + 1
    /\ UNCHANGED <<result, todo>>

Search(label) ==
    /\ todo = {}
    /\ result' = IF Ident(label) \in DOMAIN nodes THEN nodes[Ident(label)] ELSE Nothing
    /\ UNCHANGED <<nodes, count, todo>>

\* A look at every node begins with one of them.
LookAtAll ==
    /\ todo = {}
    /\ \E id \in DOMAIN nodes : todo' = DOMAIN nodes \ {id} /\ result' = nodes[id]
    /\ UNCHANGED <<nodes, count>>

Look(id) ==
    /\ id \in todo
    /\ todo' = todo \ {id}
    /\ result' = nodes[id]
    /\ UNCHANGED <<nodes, count>>

\* The end of it, or a search for nothing.
Forget ==
    /\ todo = {}
    /\ result' = Nothing
    /\ UNCHANGED <<nodes, count, todo>>

Next ==
    \/ \E label \in Labels, value \in Values : Insert(label, value)
    \/ \E label \in Labels : Search(label)
    \/ LookAtAll \/ Forget
    \/ \E id \in todo : Look(id)

Spec == Init /\ [][Next]_<<nodes, count, result, todo>>
=============================================================================
