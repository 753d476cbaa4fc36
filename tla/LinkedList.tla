------------------------------ MODULE LinkedList ------------------------------
(***************************************************************************)
(* The singly linked lists of linkedlist.c, which hold every list of the  *)
(* peer (have, missing, wanted, a chunk's peer list, both transfer lists). *)
(* A list is the sequence of its nodes' data from the head; a node is      *)
(* named by its position, which is how node_find()'s result is handed to   *)
(* node_delete().  Allocation failure (calloc returning NULL) is fatal to  *)
(* the peer and not modelled.                                              *)
(***************************************************************************)
EXTENDS SequencesExt

(* Node: the list reachable from a head pointer, data first to last.       *)
List(D) == Seq(D)

(* count_node(): the number of nodes.                                      *)
CountNode(l) == Len(l)

(* node_length(): the number of nodes, walking from the head.              *)
NodeLength(l) == Len(l)

(* node_insert(): a new node holding x becomes the head.                   *)
NodeInsert(l, x) == <<x>> \o l

(* node_find(): the position of the first node whose data the compare     *)
(* function accepts (is in the set match), 0 (NULL) when none does.        *)
NodeFind(l, match) == SelectInSeq(l, LAMBDA x : x \in match)

(* node_delete(): unlink the node at position i; a node not in the list   *)
(* (0, NULL) leaves it unchanged.                                          *)
NodeDelete(l, i) == IF i \in 1 .. Len(l) THEN RemoveAt(l, i) ELSE l

(* node_iterate_delete(): delete every node whose data test accepts (is  *)
(* in the set test), saving next before each node_delete();                *)
(* handle_transfer_dead() writes the same loop inline over a chunk's peer  *)
(* list.                                                                   *)
NodeIterateDelete(l, test) == SelectSeq(l, LAMBDA x : x \notin test)
=============================================================================
