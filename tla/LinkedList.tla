----------------------------- MODULE LinkedList -----------------------------
(***************************************************************************)
(* The singly linked lists of util.c that hold the client's audio streams, *)
(* users, channels and listens.  A LinkNode carries an index and a data    *)
(* pointer; a list is the sequence of its nodes, head first.               *)
(***************************************************************************)
EXTENDS Naturals, Sequences

Node(index, data) == [index |-> index, data |-> data]


(* list_add: pushes a node at the head; an index that is already present   *)
(* is not looked for.                                                      *)
list_add(list, index, data) == <<Node(index, data)>> \o list

(* The position of the first node with this index, where there is one.     *)
FirstAt(list, index) ==
    CHOOSE k \in DOMAIN list :
        /\ list[k].index = index
        /\ \A j \in DOMAIN list : list[j].index = index => k <= j

(* list_remove: unlinks the first node with this index, if there is one.   *)
list_remove(list, index) ==
    IF \E k \in DOMAIN list : list[k].index = index
    THEN [j \in 1 .. (Len(list) - 1) |->
            IF j < FirstAt(list, index) THEN list[j] ELSE list[j + 1]]
    ELSE list

(* The data pointers a walk over the list would meet.                      *)
DataOf(list) == {list[k].data : k \in DOMAIN list}

(* The data of the head node, and of the node after the first one that     *)
(* holds d: what `list` and `n->next` lead to in the loops over a list.    *)
HeadData(list, none) == IF list = <<>> THEN none ELSE list[1].data

NextData(list, d, none) ==
    IF \E k \in 1 .. (Len(list) - 1) : list[k].data = d
    THEN list[1 + CHOOSE k \in 1 .. (Len(list) - 1) :
                    /\ list[k].data = d
                    /\ \A j \in 1 .. (Len(list) - 1) : list[j].data = d => k <= j].data
    ELSE none
=============================================================================
