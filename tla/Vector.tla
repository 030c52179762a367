------------------------------- MODULE Vector -------------------------------
(***************************************************************************)
(* mem/vector.c: a singly linked chain of nodes with a separate length.     *)
(* A vector is a record of the chain (the data_addr of each node, in chain  *)
(* order) and the length field.  The two can differ: see vector_pop.        *)
(***************************************************************************)
EXTENDS Naturals, Sequences

NULL == "NULL"

new_vector == [nodes |-> <<>>, length |-> 0]

\* The new node goes to the end of the chain, wherever length says the end is.
vector_push(vec, val) ==
    [nodes |-> Append(vec.nodes, val), length |-> vec.length + 1]

vector_at(vec, idx) ==
    IF vec.length <= idx THEN NULL ELSE vec.nodes[idx + 1]

\* The chain without its i-th node.
Unlink(nodes, i) ==
    [j \in 1 .. Len(nodes) - 1 |-> IF j < i THEN nodes[j] ELSE nodes[j + 1]]

\* Variant: the length is not decremented.
vector_pop_same_length(vec, idx) ==
    IF vec.length = 0 THEN vec
    ELSE [length |-> vec.length,
          nodes  |-> IF idx = 0 THEN Tail(vec.nodes)
                     ELSE IF idx + 1 < Len(vec.nodes) THEN Unlink(vec.nodes, idx + 2)
                     ELSE vec.nodes]

\* For idx > 0 the walk stops at node idx itself and unlinks the node after it.
\* If idx is the last node of the chain, next_node of the NULL node is read, at
\* address 8 of the loaded page tree: zero in the ELF header that the user
\* images have there, so the chain stays as it is.
vector_pop(vec, idx) ==
    IF vec.length = 0 THEN vec
    ELSE [length |-> vec.length - 1,
          nodes  |-> IF idx = 0 THEN Tail(vec.nodes)
                     ELSE IF idx + 1 < Len(vec.nodes) THEN Unlink(vec.nodes, idx + 2)
                     ELSE vec.nodes]
=============================================================================
