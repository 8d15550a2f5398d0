------------------------------ MODULE ItemTrees ------------------------------
(***************************************************************************)
(* What cJSON promises of its trees: every item has a sequence of          *)
(* children, and each call changes the one sequence it names.              *)
(***************************************************************************)
EXTENDS Naturals, Sequences, SequencesExt, FiniteSets, Functions

CONSTANT Item

VARIABLE kids  \* the children of each live item, in order

Live == DOMAIN kids
Parents(i) == {p \in Live : i \in ToSet(kids[p])}
Root(i) == Parents(i) = {}

(* The items at and below i, for a call that deletes i: the least set that *)
(* holds i and the children of its members.                                *)
Whole(C) == \A j \in C : ToSet(kids[j]) \subseteq C
Below(i) == {j \in Live : \A C \in SUBSET Live : i \in C /\ Whole(C) => j \in C}

Without(f, gone) == Restrict(f, DOMAIN f \ gone)

Init == kids = [i \in {} |-> <<>>]

Create(i) == i \notin Live /\ kids' = [j \in Live \cup {i} |-> IF j = i THEN <<>> ELSE kids[j]]

(* An item is given to a list once, and not to one below itself.           *)
Give(p, n, i) ==
    /\ Root(i) /\ p \notin Below(i)
    /\ kids' = [kids EXCEPT ![p] = InsertAt(@, n, i)]

(* The element at place n of p is taken out, deleted, or exchanged for r.  *)
Drop(p, n) == [kids EXCEPT ![p] = RemoveAt(@, n)]

Take(p, n) == kids' = Drop(p, n)

DeleteFrom(p, n) == kids' = Without(Drop(p, n), Below(kids[p][n]))

Exchange(p, n, r) ==
    /\ Root(r) /\ p \notin Below(r)
    /\ kids' = Without([kids EXCEPT ![p][n] = r], Below(kids[p][n]))

(* A copy of i and of what is below it, in new items.                      *)
Copy(i) == \E new \in Injection(Below(i), Item \ Live) :
    kids' = [j \in Live \cup Range(new) |->
               IF j \in Live THEN kids[j]
               ELSE LET old == CHOOSE o \in Below(i) : new[o] = j
                    IN [n \in DOMAIN kids[old] |-> new[kids[old][n]]]]

DeleteRoot(i) == Root(i) /\ kids' = Without(kids, Below(i))

Next == \/ \E i \in Item : Create(i)
        \/ \E p, i \in Live : \E n \in 1..Len(kids[p]) + 1 : Give(p, n, i)
        \/ \E p \in Live : \E n \in DOMAIN kids[p] :
              Take(p, n) \/ DeleteFrom(p, n) \/ \E r \in Live : Exchange(p, n, r)
        \/ \E i \in Live : Copy(i) \/ DeleteRoot(i)

Spec == Init /\ [][Next]_kids
=============================================================================
