-------------------------------- MODULE CJson --------------------------------
(***************************************************************************)
(* The items of cJSON (components/dsp_json/cjson) as a heap: a function    *)
(* from the allocated items to their fields.  The children of an item are  *)
(* a list linked by next; the prev of its first element is the last one,   *)
(* so that appending needs no walk.  The operators take a heap and give    *)
(* the heap the C function leaves; the strings an item owns are part of    *)
(* it, and are freed with it.                                              *)
(***************************************************************************)
EXTENDS Naturals, Sequences, SequencesExt, FiniteSets, Functions

CONSTANT MaxItems  \* bound: items in memory, an allocation beyond fails

ASSUME CJsonAssumption == MaxItems \in Nat \ {0}

Item == 1..MaxItems
Nil == 0
NoStr == "NULL"

Fields == [type |-> "invalid", name |-> NoStr, str |-> NoStr,
           next |-> Nil, prev |-> Nil, child |-> Nil]

Full(h) == DOMAIN h = Item
Fresh(h) == CHOOSE i \in Item \ DOMAIN h : \A j \in Item \ DOMAIN h : i <= j

(* cJSON_New_Item with a type; only called when the heap is not full.      *)
WithItem(h, type) == [i \in DOMAIN h \cup {Fresh(h)} |->
                        IF i = Fresh(h) THEN [Fields EXCEPT !.type = type] ELSE h[i]]

(* The list that starts with item i.                                       *)
List(h, i) ==
    LET from[j \in Item \cup {Nil}] ==
            IF j \in DOMAIN h THEN <<j>> \o from[h[j].next] ELSE <<>>
    IN from[i]

Children(h, i) == List(h, h[i].child)

(* What cJSON_Delete frees: the item with its children, and every item     *)
(* that follows it in its list.                                            *)
Freed_ItemOnly(h, i) == {i} \cap DOMAIN h
Freed(h, i) ==
    LET from[j \in Item \cup {Nil}] ==
            IF j \in DOMAIN h THEN from[h[j].child] \cup {j} \cup from[h[j].next] ELSE {}
    IN from[i]

Delete(h, i) == Restrict(h, DOMAIN h \ Freed(h, i))

(* get_array_item and the case sensitive get_object_item: the first match, *)
(* and nothing when an element without a name comes before it.             *)
ArrayItem(h, i, n) == IF n + 1 \in DOMAIN Children(h, i) THEN Children(h, i)[n + 1] ELSE Nil

ObjectItem(h, i, name) ==
    LET kids == Children(h, i)
        stop == {n \in DOMAIN kids : h[kids[n]].name \in {NoStr, name}}
        first == kids[CHOOSE n \in stop : \A m \in stop : n <= m]
    IN IF stop = {} \/ h[first].name = NoStr THEN Nil ELSE first

(* add_item_to_array.                                                      *)
AddToArray_KeepsTail(h, a, i) ==
    LET first == h[a].child IN
    IF first = Nil THEN [h EXCEPT ![a].child = i, ![i].prev = i, ![i].next = Nil]
    ELSE [h EXCEPT ![h[first].prev].next = i, ![i].prev = h[first].prev]
AddToArray(h, a, i) ==
    LET first == h[a].child IN
    IF first = Nil THEN [h EXCEPT ![a].child = i, ![i].prev = i, ![i].next = Nil]
    ELSE IF h[first].prev # Nil
    THEN [h EXCEPT ![h[first].prev].next = i, ![i].prev = h[first].prev, ![first].prev = i]
    ELSE h

(* add_item_to_object, once the key is copied.                             *)
AddToObject(h, o, key, i) == AddToArray([h EXCEPT ![i].name = key], o, i)

(* cJSON_DetachItemViaPointer of an element of p.                          *)
Detach(h, p, i) ==
    LET first == h[p].child
        nx == h[i].next
        before == IF i # first THEN [h EXCEPT ![h[i].prev].next = nx] ELSE h
        after == IF nx # Nil THEN [before EXCEPT ![nx].prev = h[i].prev] ELSE before
        ends == IF i = first THEN [after EXCEPT ![p].child = nx]
                ELSE IF nx = Nil THEN [after EXCEPT ![first].prev = h[i].prev] ELSE after
    IN [ends EXCEPT ![i].prev = Nil, ![i].next = Nil]

(* cJSON_InsertItemInArray.                                                *)
Insert(h, a, n, i) ==
    LET at == ArrayItem(h, a, n)
        linked == [h EXCEPT ![i].next = at, ![i].prev = h[at].prev, ![at].prev = i]
    IN IF at = Nil THEN AddToArray(h, a, i)
       ELSE IF at = h[a].child THEN [linked EXCEPT ![a].child = i]
       ELSE [linked EXCEPT ![h[at].prev].next = i]

(* cJSON_ReplaceItemViaPointer of an element of p by another item.         *)
Replace(h, p, i, r) ==
    LET first == h[p].child
        nx == h[i].next
        alone == i = first /\ h[first].prev = first
        copied == [h EXCEPT ![r].next = nx, ![r].prev = IF alone THEN r ELSE h[i].prev]
        after == IF nx # Nil THEN [copied EXCEPT ![nx].prev = r] ELSE copied
        before == IF i = first THEN [after EXCEPT ![p].child = r]
                  ELSE [after EXCEPT ![h[i].prev].next = r]
        ends == IF i # first /\ nx = Nil THEN [before EXCEPT ![first].prev = r] ELSE before
    IN Delete([ends EXCEPT ![i].next = Nil, ![i].prev = Nil], i)

(* cJSON_Duplicate with its children: each item at or below i goes to a    *)
(* free one, whichever, and the lists are linked anew.  What a copy that   *)
(* runs out of memory has made, it deletes.                                *)
Duplicate(h, i) ==
    LET old == Freed([h EXCEPT ![i].next = Nil], i)
        new == CHOOSE f \in Injection(old, Item \ DOMAIN h) : TRUE
        to(j) == IF j = Nil THEN Nil ELSE new[j]
        before(j) == IF \E k \in old : h[k].next = j THEN CHOOSE k \in old : h[k].next = j
                     ELSE Last(List(h, j))
        copy(j) == [h[j] EXCEPT !.child = to(@), !.next = IF j = i THEN Nil ELSE to(@),
                                !.prev = IF j = i THEN Nil ELSE new[before(j)]]
    IN IF Cardinality(old) > Cardinality(Item \ DOMAIN h) THEN h
       ELSE [k \in DOMAIN h \cup Range(new) |->
               IF k \in DOMAIN h THEN h[k] ELSE copy(CHOOSE j \in old : new[j] = k)]

(* The items that are in no list.                                          *)
Loose(h) == {i \in DOMAIN h : \A p \in DOMAIN h : i \notin ToSet(Children(h, p))}

(* A list is closed when the prev of its first element is its last one and *)
(* every other prev is the element before.                                 *)
Closed(h, list) == \A n \in DOMAIN list :
    h[list[n]].prev = IF n = 1 THEN Last(list) ELSE list[n - 1]

NoDangling(h) == \A i \in DOMAIN h : {h[i].next, h[i].prev, h[i].child} \subseteq DOMAIN h \cup {Nil}
=============================================================================
