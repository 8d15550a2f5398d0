------------------------------ MODULE CJsonTree ------------------------------
(***************************************************************************)
(* A client of cJSON that builds, edits and deletes trees in any order.    *)
(* It gives an item to one list at a time and never to one below itself,   *)
(* as every user of the library does; items it has given away it reaches   *)
(* through their parent.                                                   *)
(***************************************************************************)
EXTENDS CJson

VARIABLE heap

Init == heap = [i \in {} |-> Fields]

Below(i) == Freed([heap EXCEPT ![i].next = Nil], i)
MayGive(p, i) == i \in Loose(heap) /\ p \notin Below(i)

Create == ~Full(heap) /\ heap' = WithItem(heap, "array")

Append_(p, i) == MayGive(p, i) /\ heap' = AddToArray(heap, p, i)

InsertAt_(p, n, i) == MayGive(p, i) /\ heap' = Insert(heap, p, n, i)

Take(p, i) == i \in ToSet(Children(heap, p)) /\ heap' = Detach(heap, p, i)

DeleteFrom(p, i) == /\ i \in ToSet(Children(heap, p))
                    /\ heap' = Delete(Detach(heap, p, i), i)

Exchange(p, i, r) == /\ i \in ToSet(Children(heap, p)) /\ MayGive(p, r)
                     /\ heap' = Replace(heap, p, i, r)

Copy(i) == heap' = Duplicate(heap, i)

DeleteRoot(i) == i \in Loose(heap) /\ heap' = Delete(heap, i)

Next == \/ Create
        \/ \E p, i \in DOMAIN heap :
              \/ Append_(p, i) \/ \E n \in 0..Len(Children(heap, p)) : InsertAt_(p, n, i)
              \/ Take(p, i) \/ DeleteFrom(p, i)
              \/ \E r \in DOMAIN heap : Exchange(p, i, r)
        \/ \E i \in DOMAIN heap : Copy(i) \/ DeleteRoot(i)

Spec == Init /\ [][Next]_heap
-----------------------------------------------------------------------------
(* Properties *)

(* After every call each list is closed: its first element points back to  *)
(* its last one, which is where the next append goes, and nothing points   *)
(* to a freed item (cJSON.c:2012, 2243).                                   *)
ListsClosed == /\ NoDangling(heap)
               /\ \A p \in DOMAIN heap : Closed(heap, Children(heap, p))
               /\ \A i \in Loose(heap) : heap[i].next = Nil /\ heap[i].prev = Nil

(* Each call does to the linked items what it promises of the sequences of *)
(* children, and frees exactly the items it should (cJSON.c:253).          *)
Trees == INSTANCE ItemTrees WITH kids <- [i \in DOMAIN heap |-> Children(heap, i)]
ImplementsTrees == Trees!Spec
=============================================================================
