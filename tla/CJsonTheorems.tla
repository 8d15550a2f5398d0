---------------------------- MODULE CJsonTheorems ----------------------------
(***************************************************************************)
(* The theorems about cJSON.  Of CJsonTree, for any number of items:       *)
(* whatever calls a client makes, the links stay in order, and each call   *)
(* does to the trees what ItemTrees says.  Of CJsonString, for strings of  *)
(* any length: what parse_string writes fits what it allocated, and a      *)
(* string that is printed is read back.                                    *)
(***************************************************************************)
EXTENDS CJsonTree, CJsonString, CJsonProofs

kids == [i \in DOMAIN heap |-> Children(heap, i)]

(* The invariant: the fields of the items say the same as the sequences of *)
(* children, no item is in two places, and no tree closes on itself.       *)
TreeInv == InOrder(heap, kids)

LEMMA KidsHere == kids = KidsOf(heap)
  BY DEF kids, KidsOf

(* What the heap is after a call, the sequences of children are too.       *)
LEMMA After == ASSUME NEW L, InOrder(heap', L) PROVE TreeInv' /\ kids' = L
<1>1. KidsOf(heap') = L
  BY KidsAre
<1>2. kids' = KidsOf(heap')
  BY DEF kids, KidsOf
<1> QED
  BY <1>1, <1>2 DEF TreeInv

LEMMA BelowHere == ASSUME TreeInv, NEW i \in DOMAIN kids
                   PROVE  /\ Below(i) = Under(Kin(kids), i)
                          /\ Trees!Below(i) = Under(Kin(kids), i)
<1>1. Below(i) = Under(Kin(kids), i)
  BY FreedTree DEF TreeInv, InOrder, Below
<1>2. \A C \in SUBSET DOMAIN kids : Trees!Whole(C) <=> Shut(Kin(kids), C)
  <2> SUFFICES ASSUME NEW C \in SUBSET DOMAIN kids PROVE Trees!Whole(C) <=> Shut(Kin(kids), C)
    OBVIOUS
  <2>1. Trees!Whole(C) <=> \A j \in C : ToSet(kids[j]) \subseteq C
    BY DEF Trees!Whole, Trees!ToSet, ToSet, kids
  <2>2. \A j \in C : Kin(kids)[j] = ToSet(kids[j])
    BY DEF Kin
  <2> QED
    BY <2>1, <2>2 DEF Shut
<1>3. Trees!Below(i) = {j \in DOMAIN kids : \A C \in SUBSET DOMAIN kids : i \in C /\ Trees!Whole(C) => j \in C}
  BY DEF Trees!Below, Trees!Live, kids
<1>4. DOMAIN Kin(kids) = DOMAIN kids
  BY DEF Kin
<1> QED
  BY <1>1, <1>2, <1>3, <1>4 DEF Under

LEMMA RootHere == ASSUME TreeInv, NEW i \in DOMAIN kids
                  PROVE  /\ i \in Loose(heap) <=> ~Placed(kids, i)
                         /\ Trees!Root(i) <=> ~Placed(kids, i)
<1>1. i \in Loose(heap) <=> ~Placed(kids, i)
  BY LooseItems DEF TreeInv
<1>2. \A p \in DOMAIN kids : ToSet(kids[p]) = {kids[p][n] : n \in 1 .. Len(kids[p])}
  BY RepPlace DEF TreeInv, InOrder
<1>3. Trees!Root(i) <=> \A p \in DOMAIN kids : i \notin ToSet(kids[p])
  <2>1. Trees!Root(i) <=> {p \in DOMAIN kids : i \in ToSet(kids[p])} = {}
    BY DEF Trees!Root, Trees!Parents, Trees!Live, Trees!ToSet, ToSet, kids
  <2> QED
    BY <2>1
<1> QED
  BY <1>1, <1>2, <1>3 DEF Placed

LEMMA GiveHere == ASSUME TreeInv, NEW p \in DOMAIN kids, NEW i \in DOMAIN kids, MayGive(p, i)
                  PROVE  /\ MayHold(kids, p, i) /\ Trees!Root(i) /\ p \notin Trees!Below(i)
  BY BelowHere, RootHere DEF MayGive, MayHold

LEMMA Domains == ASSUME TreeInv
                 PROVE  /\ DOMAIN kids = DOMAIN heap
                        /\ \A p \in DOMAIN kids : Children(heap, p) = kids[p]
                        /\ \A p \in DOMAIN kids : /\ DOMAIN kids[p] = 1 .. Len(kids[p]) /\ Len(kids[p]) \in Nat
                                                  /\ ToSet(kids[p]) = {kids[p][n] : n \in 1 .. Len(kids[p])}
<1>1. \A p \in DOMAIN kids : /\ DOMAIN kids[p] = 1 .. Len(kids[p]) /\ Len(kids[p]) \in Nat
                             /\ ToSet(kids[p]) = {kids[p][n] : n \in 1 .. Len(kids[p])}
  BY RepPlace DEF TreeInv, InOrder
<1>2. DOMAIN kids = DOMAIN heap /\ \A p \in DOMAIN kids : Children(heap, p) = kids[p]
  BY DEF kids
<1> QED
  BY <1>1, <1>2

-----------------------------------------------------------------------------
(* One lemma for each call: the links stay in order, and the sequences of  *)
(* children change as ItemTrees says.                                      *)

LEMMA CreateHere == ASSUME TreeInv, Create
                    PROVE  TreeInv' /\ \E i \in Item : Trees!Create(i)
<1> DEFINE f == Fresh(heap)
           L == WithLeaf(kids, f)
<1>1. f \in Item \ DOMAIN kids /\ InOrder(heap', L)
  BY NewTree DEF Create, TreeInv
<1>2. TreeInv' /\ kids' = L
  BY <1>1, After
<1>3. kids' = [j \in DOMAIN kids \cup {f} |-> IF j = f THEN <<>> ELSE kids[j]]
  BY <1>2 DEF WithLeaf
<1> HIDE DEF f
<1>4. Trees!Create(f)
  BY <1>1, <1>3 DEF Trees!Create, Trees!Live, kids
<1> QED
  BY <1>1, <1>2, <1>4

LEMMA AppendHere == ASSUME TreeInv, NEW p \in DOMAIN heap, NEW i \in DOMAIN heap, Append_(p, i)
                    PROVE  TreeInv' /\ \E n \in 1 .. Len(kids[p]) + 1 : Trees!Give(p, n, i)
<1> DEFINE n == Len(kids[p]) + 1
           L == WithList(kids, p, InsertAt(kids[p], n, i))
<1>1. p \in DOMAIN kids /\ i \in DOMAIN kids /\ n \in 1 .. n
  BY Domains
<1>2. MayHold(kids, p, i) /\ Trees!Root(i) /\ p \notin Trees!Below(i)
  BY <1>1, GiveHere DEF Append_
<1>3. InOrder(heap', L)
  BY <1>1, <1>2, AddTree DEF Append_, TreeInv
<1>4. TreeInv' /\ kids' = [kids EXCEPT ![p] = InsertAt(@, n, i)]
  BY <1>3, After DEF WithList
<1> HIDE DEF n
<1>5. Trees!Give(p, n, i)
  BY <1>2, <1>4 DEF Trees!Give, Trees!InsertAt, InsertAt, kids
<1> QED
  BY <1>1, <1>4, <1>5 DEF n

LEMMA InsertHere == ASSUME TreeInv, NEW p \in DOMAIN heap, NEW i \in DOMAIN heap,
                           NEW n \in 0 .. Len(Children(heap, p)), InsertAt_(p, n, i)
                    PROVE  TreeInv' /\ \E m \in 1 .. Len(kids[p]) + 1 : Trees!Give(p, m, i)
<1> DEFINE L == WithList(kids, p, InsertAt(kids[p], n + 1, i))
<1>1. /\ p \in DOMAIN kids /\ i \in DOMAIN kids /\ n \in 0 .. Len(kids[p])
      /\ n + 1 \in 1 .. Len(kids[p]) + 1
  BY Domains
<1>2. MayHold(kids, p, i) /\ Trees!Root(i) /\ p \notin Trees!Below(i)
  BY <1>1, GiveHere DEF InsertAt_
<1>3. InOrder(heap', L)
  BY <1>1, <1>2, InsertCall DEF InsertAt_, TreeInv
<1>4. TreeInv' /\ kids' = [kids EXCEPT ![p] = InsertAt(@, n + 1, i)]
  BY <1>3, After DEF WithList
<1>5. Trees!Give(p, n + 1, i)
  BY <1>2, <1>4 DEF Trees!Give, Trees!InsertAt, InsertAt, kids
<1> QED
  BY <1>1, <1>4, <1>5

(* The place of an element.                                                *)
LEMMA PlaceHere == ASSUME TreeInv, NEW p \in DOMAIN heap, NEW i \in ToSet(Children(heap, p))
                   PROVE  /\ p \in DOMAIN kids /\ DOMAIN kids[p] = 1 .. Len(kids[p])
                          /\ \E n \in 1 .. Len(kids[p]) : i = kids[p][n]
  BY Domains

LEMMA TakeHere == ASSUME TreeInv, NEW p \in DOMAIN heap, NEW i \in DOMAIN heap, Take(p, i)
                  PROVE  TreeInv' /\ \E n \in DOMAIN kids[p] : Trees!Take(p, n)
<1>1. PICK n \in 1 .. Len(kids[p]) : i = kids[p][n]
  BY PlaceHere DEF Take
<1>2. p \in DOMAIN kids /\ DOMAIN kids[p] = 1 .. Len(kids[p])
  BY PlaceHere DEF Take
<1>3. InOrder(heap', WithList(kids, p, RemoveAt(kids[p], n)))
  BY <1>1, <1>2, DetachTree DEF Take, TreeInv
<1>4. TreeInv' /\ kids' = [kids EXCEPT ![p] = RemoveAt(@, n)]
  BY <1>3, After DEF WithList
<1>5. Trees!Take(p, n)
  BY <1>4 DEF Trees!Take, Trees!Drop, Trees!RemoveAt, RemoveAt, kids
<1> QED
  BY <1>2, <1>4, <1>5

(* Without i and all below it, once i is in no list.                       *)
LEMMA Dropped ==
    ASSUME TreeInv, NEW p \in DOMAIN kids, NEW n \in 1 .. Len(kids[p]), NEW t, NEW g,
           InOrder(g, WithList(kids, p, t)), ~Placed(WithList(kids, p, t), kids[p][n]),
           heap' = Delete(g, kids[p][n])
    PROVE  TreeInv' /\ kids' = Trees!Without([kids EXCEPT ![p] = t], Trees!Below(kids[p][n]))
<1> DEFINE i == kids[p][n]
           L == WithList(kids, p, t)
           D == Under(Kin(L), i)
<1>1. i \in DOMAIN kids /\ p \notin Under(Kin(kids), i)
  BY ParentAbove DEF TreeInv
<1>2. D = Under(Kin(kids), i)
  BY <1>1, BelowKept DEF TreeInv
<1>3. DOMAIN L = DOMAIN kids
  BY DEF WithList
<1>4. InOrder(heap', Restrict(L, DOMAIN L \ D))
  <2>1. i \in DOMAIN L
    BY <1>1, <1>3
  <2> HIDE DEF L
  <2> QED
    BY <2>1, DeleteTree DEF L
<1>5. TreeInv' /\ kids' = Restrict(L, DOMAIN L \ D)
  BY <1>4, After
<1>6. D = Trees!Below(i)
  BY <1>1, <1>2, BelowHere
<1> QED
  BY <1>5, <1>6 DEF Trees!Without, Trees!Restrict, Restrict, WithList

LEMMA DeleteFromHere == ASSUME TreeInv, NEW p \in DOMAIN heap, NEW i \in DOMAIN heap, DeleteFrom(p, i)
                        PROVE  TreeInv' /\ \E n \in DOMAIN kids[p] : Trees!DeleteFrom(p, n)
<1>1. PICK n \in 1 .. Len(kids[p]) : i = kids[p][n]
  BY PlaceHere DEF DeleteFrom
<1>2. p \in DOMAIN kids /\ DOMAIN kids[p] = 1 .. Len(kids[p])
  BY PlaceHere DEF DeleteFrom
<1> DEFINE t == RemoveAt(kids[p], n)
<1>3. /\ InOrder(Detach(heap, p, i), WithList(kids, p, t))
      /\ ~Placed(WithList(kids, p, t), i)
  BY <1>1, <1>2, DetachTree DEF TreeInv
<1>4. TreeInv' /\ kids' = Trees!Without([kids EXCEPT ![p] = t], Trees!Below(kids[p][n]))
  <2> HIDE DEF t
  <2> QED
    BY <1>1, <1>2, <1>3, Dropped DEF DeleteFrom
<1>5. Trees!DeleteFrom(p, n)
  BY <1>4 DEF Trees!DeleteFrom, Trees!Drop, Trees!RemoveAt, RemoveAt, kids
<1> QED
  BY <1>2, <1>4, <1>5

LEMMA ExchangeHere == ASSUME TreeInv, NEW p \in DOMAIN heap, NEW i \in DOMAIN heap,
                             NEW r \in DOMAIN heap, Exchange(p, i, r)
                      PROVE  TreeInv' /\ \E n \in DOMAIN kids[p] : Trees!Exchange(p, n, r)
<1>1. PICK n \in 1 .. Len(kids[p]) : i = kids[p][n]
  BY PlaceHere DEF Exchange
<1>2. p \in DOMAIN kids /\ DOMAIN kids[p] = 1 .. Len(kids[p]) /\ r \in DOMAIN kids
  BY PlaceHere, Domains DEF Exchange
<1>3. MayHold(kids, p, r) /\ Trees!Root(r) /\ p \notin Trees!Below(r)
  BY <1>2, GiveHere DEF Exchange
<1> DEFINE t == [kids[p] EXCEPT ![n] = r]
<1>4. /\ InOrder(Swapped(heap, p, i, r), WithList(kids, p, t))
      /\ ~Placed(WithList(kids, p, t), i)
  BY <1>1, <1>2, <1>3, SwapTree DEF TreeInv
<1>5. heap' = Delete(Swapped(heap, p, i, r), i)
  BY DEF Exchange, Replace, Swapped
<1>6. TreeInv' /\ kids' = Trees!Without([kids EXCEPT ![p] = t], Trees!Below(kids[p][n]))
  <2> HIDE DEF t
  <2> QED
    BY <1>1, <1>2, <1>4, <1>5, Dropped
<1>7. [kids EXCEPT ![p] = t] = [kids EXCEPT ![p][n] = r]
  OBVIOUS
<1>8. Trees!Exchange(p, n, r)
  BY <1>3, <1>6, <1>7 DEF Trees!Exchange, kids
<1> QED
  BY <1>2, <1>6, <1>8

LEMMA DeleteRootHere == ASSUME TreeInv, NEW i \in DOMAIN heap, DeleteRoot(i)
                        PROVE  TreeInv' /\ Trees!DeleteRoot(i)
<1>1. i \in DOMAIN kids /\ ~Placed(kids, i) /\ Trees!Root(i)
  BY Domains, RootHere DEF DeleteRoot
<1>2. InOrder(heap', Restrict(kids, DOMAIN kids \ Under(Kin(kids), i)))
  BY <1>1, DeleteTree DEF DeleteRoot, TreeInv
<1>3. TreeInv' /\ kids' = Restrict(kids, DOMAIN kids \ Trees!Below(i))
  BY <1>1, <1>2, After, BelowHere
<1>4. Trees!DeleteRoot(i)
  BY <1>1, <1>3 DEF Trees!DeleteRoot, Trees!Without, Trees!Restrict, Restrict, kids
<1> QED
  BY <1>3, <1>4

LEMMA CopyHere == ASSUME TreeInv, NEW i \in DOMAIN heap, Copy(i)
                  PROVE  TreeInv' /\ (Trees!Copy(i) \/ kids' = kids)
<1> DEFINE old == Under(Kin(kids), i)
<1>1. i \in DOMAIN kids /\ old = Trees!Below(i)
  BY Domains, BelowHere
<1>2. CASE heap' = heap
  BY <1>2 DEF TreeInv, kids
<1>3. CASE heap' # heap
  <2>1. PICK new \in Injection(old, Item \ DOMAIN kids) : heap' = WithCopies(heap, i, old, new)
    BY <1>1, <1>3, DuplicateCall DEF Copy, TreeInv
  <2>2. InOrder(heap', WithCopy(kids, old, new))
    BY <1>1, <2>1, CopyTree DEF TreeInv
  <2>3. TreeInv' /\ kids' = WithCopy(kids, old, new)
    BY <2>2, After
  <2>4. new \in Trees!Injection(Trees!Below(i), Item \ Trees!Live)
    BY <1>1, <2>1 DEF Trees!Injection, Injection, Trees!IsInjective, IsInjective, Trees!Live, kids
  <2>5. kids' = WithCopy(kids, Trees!Below(i), new)
    BY <1>1, <2>3
  <2>6. kids' = [j \in Trees!Live \cup Trees!Range(new) |->
                   IF j \in Trees!Live THEN kids[j]
                   ELSE LET o == CHOOSE x \in Trees!Below(i) : new[x] = j
                        IN [n \in DOMAIN kids[o] |-> new[kids[o][n]]]]
    BY ONLY <2>5 DEF Trees!Live, Trees!Range, Range, WithCopy, Twin, kids
  <2>7. Trees!Copy(i)
    BY ONLY <2>4, <2>6 DEF Trees!Copy, kids
  <2> QED
    BY <2>3, <2>7
<1> QED
  BY <1>2, <1>3

-----------------------------------------------------------------------------

LEMMA InitHere == ASSUME Init PROVE TreeInv /\ Trees!Init
<1>1. DOMAIN heap = {} /\ DOMAIN kids = {}
  BY DEF Init, kids
<1>2. kids = [i \in {} |-> <<>>] /\ heap = [i \in DOMAIN heap |-> Fields]
  BY <1>1 DEF Init, kids
<1>3. Heap(heap)
  BY <1>1, <1>2 DEF Heap
<1>4. kids \in [DOMAIN kids -> Seq(DOMAIN kids)]
  BY <1>1, <1>2
<1>5. Rep(heap, kids)
  BY <1>1, <1>3, <1>4 DEF Rep, Apart, Linked, Placed
<1>6. Founded(Kin(kids)) /\ Rooted(Kin(kids))
  BY <1>1 DEF Founded, Rooted, Kin
<1>7. Trees!Init
  BY <1>2 DEF Trees!Init, kids
<1> QED
  BY <1>5, <1>6, <1>7 DEF TreeInv, InOrder

LEMMA StepHere == ASSUME TreeInv, [Next]_heap
                  PROVE  TreeInv' /\ (Trees!Next \/ kids' = kids)
<1>0. /\ DOMAIN kids = DOMAIN heap /\ Trees!Live = DOMAIN kids
      /\ \A p \in DOMAIN kids : Children(heap, p) = kids[p] /\ DOMAIN kids[p] = 1 .. Len(kids[p])
  BY Domains DEF Trees!Live, kids
<1>1. CASE Create
  <2>1. TreeInv' /\ \E i \in Item : Trees!Create(i)
    BY <1>1, CreateHere
  <2> QED
    BY <2>1 DEF Trees!Next
<1>2. ASSUME NEW p \in DOMAIN heap, NEW i \in DOMAIN heap,
             Append_(p, i) \/ \E n \in 0 .. Len(Children(heap, p)) : InsertAt_(p, n, i)
      PROVE  TreeInv' /\ Trees!Next
  <2>1. TreeInv' /\ \E n \in 1 .. Len(kids[p]) + 1 : Trees!Give(p, n, i)
    BY <1>2, AppendHere, InsertHere
  <2> QED
    BY <1>0, <2>1 DEF Trees!Next, kids
<1>3. ASSUME NEW p \in DOMAIN heap, NEW i \in DOMAIN heap, Take(p, i) \/ DeleteFrom(p, i)
      PROVE  TreeInv' /\ Trees!Next
  <2>1. TreeInv' /\ \E n \in DOMAIN kids[p] : Trees!Take(p, n) \/ Trees!DeleteFrom(p, n)
    BY <1>3, TakeHere, DeleteFromHere
  <2> QED
    BY <1>0, <2>1 DEF Trees!Next, kids
<1>4. ASSUME NEW p \in DOMAIN heap, NEW i \in DOMAIN heap, NEW r \in DOMAIN heap, Exchange(p, i, r)
      PROVE  TreeInv' /\ Trees!Next
  <2>1. TreeInv' /\ \E n \in DOMAIN kids[p] : Trees!Exchange(p, n, r)
    BY <1>4, ExchangeHere
  <2> QED
    BY <1>0, <2>1 DEF Trees!Next, kids
<1>5. ASSUME NEW i \in DOMAIN heap, Copy(i) \/ DeleteRoot(i)
      PROVE  TreeInv' /\ (Trees!Next \/ kids' = kids)
  <2>1. TreeInv' /\ (Trees!Copy(i) \/ Trees!DeleteRoot(i) \/ kids' = kids)
    BY <1>5, CopyHere, DeleteRootHere
  <2> QED
    BY <1>0, <2>1 DEF Trees!Next
<1>6. CASE UNCHANGED heap
  <2>1. kids' = kids
    BY <1>6 DEF kids
  <2> QED
    BY <1>6, <2>1 DEF TreeInv
<1> QED
  BY <1>1, <1>2, <1>3, <1>4, <1>5, <1>6 DEF Next

(* Whatever calls a client makes, in whatever order, and whichever         *)
(* allocations fail: the items are linked as sequences of children, each   *)
(* item in one place at most, and no tree closes on itself, so that every  *)
(* walk of cJSON.c over next or child ends (cJSON.c:253, 2012, 2243).      *)
THEOREM TreesInOrder == Spec => []TreeInv
<1>1. Init => TreeInv
  BY InitHere
<1>2. TreeInv /\ [Next]_heap => TreeInv'
  BY StepHere
<1> QED
  BY <1>1, <1>2, PTL DEF Spec

LEMMA OrderClosed == ASSUME TreeInv PROVE ListsClosed
<1>1. NoDangling(heap)
  BY DEF TreeInv, InOrder, Rep, Heap, NoDangling
<1>2. ASSUME NEW p \in DOMAIN heap PROVE Closed(heap, Children(heap, p))
  <2>1. p \in DOMAIN kids /\ Children(heap, p) = kids[p] /\ DOMAIN kids[p] = 1 .. Len(kids[p])
    BY Domains
  <2>2. \A n \in 1 .. Len(kids[p]) : heap[kids[p][n]].prev = PrevOf(kids[p], n)
    BY <2>1 DEF TreeInv, InOrder, Rep, Linked
  <2> QED
    BY <2>1, <2>2 DEF Closed, PrevOf, Last
<1>3. ASSUME NEW i \in Loose(heap) PROVE heap[i].next = Nil /\ heap[i].prev = Nil
  <2>1. i \in DOMAIN kids /\ ~Placed(kids, i)
    BY LooseItems DEF TreeInv
  <2> QED
    BY <2>1 DEF TreeInv, InOrder, Rep, Linked
<1> QED
  BY <1>1, <1>2, <1>3 DEF ListsClosed

(* After every call nothing points to a freed item, the first element of   *)
(* each list points back to its last one, where the next append goes, and  *)
(* an item that is in no list has no neighbours (cJSON.c:2012, 2243).      *)
THEOREM ListsStayClosed == Spec => []ListsClosed
<1>1. TreeInv => ListsClosed
  BY OrderClosed
<1> QED
  BY <1>1, TreesInOrder, PTL

(* The linked items implement the sequences of children: each call changes *)
(* the one sequence it names, frees exactly the item it deletes with all   *)
(* that is below it, and copies a tree whole or not at all (cJSON.c:253,   *)
(* 2012, 2243, 2286, 2771).                                                *)
THEOREM TreesImplemented == Spec => ImplementsTrees
<1>1. Init => Trees!Init
  BY InitHere
<1>2. TreeInv /\ [Next]_heap => [Trees!Next]_([i \in DOMAIN heap |-> Children(heap, i)])
  BY StepHere DEF kids
<1> QED
  BY <1>1, <1>2, TreesInOrder, PTL DEF Spec, ImplementsTrees, Trees!Spec

-----------------------------------------------------------------------------
(* Strings: the first pass of parse_string.                                *)
(* The first pass from place n, given what it finds from later ones.       *)
ScanStep(lit, f, n) ==
    IF n > Len(lit) THEN [end |-> 0, skipped |-> 0]
    ELSE IF lit[n] = Quote THEN [end |-> n, skipped |-> 0]
    ELSE IF lit[n] # Backslash THEN f[n + 1]
    ELSE IF n = Len(lit) THEN [end |-> 0, skipped |-> 0]
    ELSE [f[n + 2] EXCEPT !.skipped = @ + 1]

Found == [end : Nat, skipped : Nat]
ScanFrom(lit, f) == /\ f \in [1 .. Len(lit) + 2 -> Found]
                    /\ \A n \in 1 .. Len(lit) + 2 : f[n] = ScanStep(lit, f, n)

LEMMA ScanIs == ASSUME NEW lit, lit \in Seq(Bytes)
                PROVE  \E f : ScanFrom(lit, f) /\ Scan(lit) = f[1]
<1> DEFINE L == Len(lit)
           D == 1 .. L + 2
           H == [x \in D \X [D -> Found] |-> ScanStep(lit, x[2], x[1])]
           rank == [n \in D |-> (L + 2) - n]
           f == CHOOSE f : f = [n \in D |-> ScanStep(lit, f, n)]
<1>1. L \in Nat
  OBVIOUS
<1>2. ASSUME NEW n \in D, NEW g \in [D -> Found] PROVE ScanStep(lit, g, n) \in Found
  <2>1. n \in Nat
    BY <1>1
  <2>2. CASE n > L
    BY <2>2 DEF ScanStep, Found
  <2>3. CASE ~(n > L)
    <3>1. n + 1 \in D /\ n + 2 \in D
      BY <1>1, <2>1, <2>3
    <3> HIDE DEF D
    <3>2. g[n + 1] \in Found /\ g[n + 2] \in Found
      BY <3>1
    <3>3. [g[n + 2] EXCEPT !.skipped = @ + 1] \in Found
      BY <3>2 DEF Found
    <3>4. [end |-> n, skipped |-> 0] \in Found /\ [end |-> 0, skipped |-> 0] \in Found
      BY <2>1 DEF Found
    <3> QED
      BY <3>2, <3>3, <3>4, Zenon DEF ScanStep
  <2> QED
    BY <2>2, <2>3
<1>3. H \in [D \X [D -> Found] -> Found]
  <2> HIDE DEF D
  <2>1. \A x \in D \X [D -> Found] : ScanStep(lit, x[2], x[1]) \in Found
    BY <1>2
  <2> QED
    BY <2>1
<1>4. \A p \in D : \A g1, g2 \in [D -> Found] :
         (\A q \in D : rank[q] < rank[p] => g1[q] = g2[q]) => H[<<p, g1>>] = H[<<p, g2>>]
  <2> SUFFICES ASSUME NEW p \in D, NEW g1 \in [D -> Found], NEW g2 \in [D -> Found],
                      \A q \in D : rank[q] < rank[p] => g1[q] = g2[q]
               PROVE  H[<<p, g1>>] = H[<<p, g2>>]
    OBVIOUS
  <2>1. H[<<p, g1>>] = ScanStep(lit, g1, p) /\ H[<<p, g2>>] = ScanStep(lit, g2, p)
    <3> HIDE DEF D
    <3> QED
      OBVIOUS
  <2>2. CASE p > L
    <3>1. ScanStep(lit, g1, p) = ScanStep(lit, g2, p)
      BY <2>2, Zenon DEF ScanStep
    <3> QED
      BY <2>1, <3>1
  <2>3. CASE ~(p > L)
    <3>1. p + 1 \in D /\ p + 2 \in D /\ rank[p + 1] < rank[p] /\ rank[p + 2] < rank[p]
      BY <1>1, <2>3
    <3> HIDE DEF D, rank
    <3>2. g1[p + 1] = g2[p + 1] /\ g1[p + 2] = g2[p + 2]
      BY <3>1
    <3>3. ScanStep(lit, g1, p) = ScanStep(lit, g2, p)
      BY <3>2, Zenon DEF ScanStep
    <3> QED
      BY <2>1, <3>3
  <2> QED
    BY <2>2, <2>3
<1>5. rank \in [D -> 0 .. L + 2] /\ L + 2 \in Nat
  BY <1>1
<1>6. Found # {}
  <2>1. [end |-> 0, skipped |-> 0] \in Found
    BY DEF Found
  <2> QED
    BY <2>1
<1>7. PICK g : Recursive(D, Found, H, g)
  <2> HIDE DEF D, H, rank, L
  <2> QED
    BY <1>3, <1>4, <1>5, <1>6, Recursion, ZenonT(30)
<1>8. g \in [D -> Found] /\ \A n \in D : g[n] = ScanStep(lit, g, n)
  <2> HIDE DEF D
  <2> QED
    BY <1>7 DEF Recursive
<1>9. f = [n \in D |-> ScanStep(lit, f, n)]
  <2>1. g = [n \in D |-> ScanStep(lit, g, n)]
    <3> HIDE DEF D
    <3> QED
      BY <1>8
  <2>2. \E x : x = [n \in D |-> ScanStep(lit, x, n)]
    BY <2>1
  <2> QED
    BY <2>2
<1>10. Scan(lit) = f[1]
  BY Zenon DEF Scan, ScanStep
<1>11. \A p \in D : f[p] = g[p]
  <2> DEFINE S == {p \in D : f[p] = g[p]}
  <2>1. ASSUME NEW p \in D, \A q \in D : rank[q] < rank[p] => q \in S PROVE p \in S
    <3>0. f[p] = ScanStep(lit, f, p) /\ g[p] = ScanStep(lit, g, p)
      <4> HIDE DEF D, f
      <4> QED
        BY <1>8, <1>9
    <3>1. CASE p > L
      <4>1. ScanStep(lit, f, p) = ScanStep(lit, g, p)
        BY <3>1, Zenon DEF ScanStep
      <4> QED
        BY <3>0, <4>1
    <3>2. CASE ~(p > L)
      <4>1. p + 1 \in D /\ p + 2 \in D /\ rank[p + 1] < rank[p] /\ rank[p + 2] < rank[p]
        BY <1>1, <3>2
      <4> HIDE DEF D, rank, f
      <4>2. f[p + 1] = g[p + 1] /\ f[p + 2] = g[p + 2]
        BY <2>1, <4>1
      <4>3. ScanStep(lit, f, p) = ScanStep(lit, g, p)
        BY <4>2, Zenon DEF ScanStep
      <4> QED
        BY <3>0, <4>3
    <3> QED
      BY <3>1, <3>2
  <2>2. \A p \in D : p \in S
    <3> HIDE DEF D, rank, S, L
    <3> QED
      BY <1>5, <2>1, RankInduction
  <2> QED
    BY <2>2
<1>12. f = g
  <2> HIDE DEF D
  <2>1. f = [n \in D |-> f[n]] /\ g = [n \in D |-> g[n]]
    <3> HIDE DEF f
    <3> QED
      BY <1>8, <1>9
  <2> HIDE DEF f
  <2> QED
    BY <1>11, <2>1
<1>13. ScanFrom(lit, g)
  BY <1>8 DEF ScanFrom
<1> QED
  BY <1>10, <1>12, <1>13

-----------------------------------------------------------------------------
(* The values of four digits, and the code points.                         *)
MaxUnit == 65535
MaxCode == 1114111
Four == 0 .. MaxUnit
Codes == 0 .. MaxCode
Wide == 65536
Page == 4096

LEMMA FourIs == ASSUME NEW u PROVE u \in Four <=> u \in Int /\ u >= 0 /\ u <= 65535
<1>1. MaxUnit \in Int
  BY SMT DEF MaxUnit
<1>2. u \in Four <=> u \in Int /\ u >= 0 /\ u <= MaxUnit
  BY <1>1, SMT DEF Four
<1> QED
  BY <1>2, SMT DEF MaxUnit

LEMMA CodesAre == ASSUME NEW u PROVE u \in Codes <=> u \in Int /\ u >= 0 /\ u <= 1114111
<1>1. MaxCode \in Int
  BY SMT DEF MaxCode
<1>2. u \in Codes <=> u \in Int /\ u >= 0 /\ u <= MaxCode
  BY <1>1, SMT DEF Codes
<1> QED
  BY <1>2, SMT DEF MaxCode

LEMMA FourDigits == ASSUME NEW a \in 0 .. 15, NEW b \in 0 .. 15, NEW c \in 0 .. 15, NEW d \in 0 .. 15
                    PROVE  ((a * 16 + b) * 16 + c) * 16 + d \in Four
<1> DEFINE u == ((a * 16 + b) * 16 + c) * 16 + d
<1>1. /\ a \in Int /\ a >= 0 /\ a <= 15 /\ b \in Int /\ b >= 0 /\ b <= 15
      /\ c \in Int /\ c >= 0 /\ c <= 15 /\ d \in Int /\ d >= 0 /\ d <= 15
  OBVIOUS
<1>2. u = 4096 * a + 256 * b + 16 * c + d
  BY <1>1, SMT
<1>3. u \in Int /\ u >= 0 /\ u <= 65535
  BY <1>1, <1>2, SMT
<1> HIDE DEF u
<1>4. u \in Four
  BY <1>3, FourIs, SMT
<1> QED
  BY <1>4 DEF u

LEMMA JoinedIs == ASSUME NEW hi \in Four, NEW lo \in Four PROVE Joined(hi, lo) \in Codes
<1> DEFINE x == hi % 1024
           y == lo % 1024
<1>1. hi \in Nat /\ lo \in Nat
  BY FourIs, SMT
<1>2. x \in Int /\ x >= 0 /\ x <= 1023 /\ y \in Int /\ y >= 0 /\ y <= 1023
  <2>1. \A m \in Nat : m % 1024 \in Int /\ m % 1024 >= 0 /\ m % 1024 <= 1023
    BY SMT
  <2> QED
    BY <1>1, <2>1
<1>3. Joined(hi, lo) = 65536 + x * 1024 + y
  BY SMT DEF Joined
<1> HIDE DEF x, y
<1>4. 65536 + x * 1024 + y \in Int /\ 65536 + x * 1024 + y >= 0 /\ 65536 + x * 1024 + y <= 1114111
  BY <1>2, SMT
<1> QED
  BY <1>3, <1>4, CodesAre, SMT

LEMMA HexDigitIs == ASSUME NEW c \in Bytes PROVE HexDigit(c) \in -1 .. 15
  BY DEF HexDigit, Bytes

LEMMA Hex4Is == ASSUME NEW lit, NEW p, \A k \in 0 .. 3 : lit[p + k] \in Bytes
                PROVE  Hex4(lit, p) \in Four
<1> DEFINE d == [k \in 0 .. 3 |-> HexDigit(lit[p + k])]
           bad == \E k \in 0 .. 3 : d[k] = -1
<1>1. \A k \in 0 .. 3 : d[k] \in -1 .. 15
  BY HexDigitIs
<1>2. Hex4(lit, p) = IF bad THEN 0 ELSE ((d[0] * 16 + d[1]) * 16 + d[2]) * 16 + d[3]
  BY Zenon DEF Hex4
<1>3. CASE bad
  <2>1. Hex4(lit, p) = 0
    BY <1>2, <1>3, Zenon
  <2> QED
    BY <2>1, FourIs, SMT
<1>4. CASE ~bad
  <2>1. \A k \in 0 .. 3 : d[k] # -1
    BY <1>4, Zenon
  <2> HIDE DEF d
  <2>2. d[0] \in 0 .. 15 /\ d[1] \in 0 .. 15 /\ d[2] \in 0 .. 15 /\ d[3] \in 0 .. 15
    <3>1. \A k \in 0 .. 3 : d[k] \in 0 .. 15
      BY <1>1, <2>1
    <3> QED
      BY <3>1
  <2>3. Hex4(lit, p) = ((d[0] * 16 + d[1]) * 16 + d[2]) * 16 + d[3]
    BY <1>2, <1>4, Zenon
  <2>4. ((d[0] * 16 + d[1]) * 16 + d[2]) * 16 + d[3] \in Four
    BY <2>2, FourDigits
  <2> QED
    BY <2>3, <2>4
<1> QED
  BY <1>3, <1>4

LEMMA TailByte == ASSUME NEW c \in Nat, NEW n \in Nat \ {0} PROVE 128 + ((c \div n) % 64) \in 128 .. 191
<1>1. c \div n \in Nat
  OBVIOUS
<1>2. \A m \in Nat : m % 64 \in 0 .. 63
  OBVIOUS
<1>3. (c \div n) % 64 \in 0 .. 63
  BY <1>1, <1>2
<1> QED
  BY <1>3

LEMMA Utf8Is ==
    ASSUME NEW c \in Codes
    PROVE  Utf8(c) \in Seq(Bytes) /\ Len(Utf8(c)) \in 1 .. 4 /\ (c < Wide => Len(Utf8(c)) <= 3)
<1> DEFINE tail(n) == 128 + ((c \div n) % 64)
           x1 == <<c>>
           x2 == <<192 + (c \div 64), tail(1)>>
           x3 == <<224 + (c \div Page), tail(64), tail(1)>>
           b4 == 240 + (c \div 262144)
           x4 == <<b4, tail(Page), tail(64), tail(1)>>
<1>1. Utf8(c) = IF c < 128 THEN x1 ELSE IF c < 2048 THEN x2 ELSE IF c < Wide THEN x3 ELSE x4
  BY SMT DEF Utf8, Wide, Page
<1>c. c \in Nat
  BY CodesAre, SMT
<1>d. c <= 1114111
  BY CodesAre, SMT
<1>2. tail(1) \in Bytes /\ tail(64) \in Bytes /\ tail(Page) \in Bytes
  <2>1. \A b \in 128 .. 191 : b \in Bytes
    BY DEF Bytes
  <2>2. tail(1) \in 128 .. 191 /\ tail(64) \in 128 .. 191 /\ tail(Page) \in 128 .. 191
    <3>1. 1 \in Nat \ {0} /\ 64 \in Nat \ {0} /\ Page \in Nat \ {0}
      BY SMT DEF Page
    <3> QED
      BY <1>c, <3>1, TailByte, Zenon
  <2> QED
    BY <2>1, <2>2, Zenon
<1> HIDE DEF tail, b4
<1>3. CASE c < 128
  <2>1. c \in Bytes
    BY <1>c, <1>3, SMT DEF Bytes
  <2>2. x1 \in Seq(Bytes) /\ Len(x1) = 1
    BY <2>1
  <2>3. Utf8(c) = x1
    BY <1>1, <1>3, Zenon
  <2> QED
    BY <2>2, <2>3
<1>4. CASE ~(c < 128) /\ c < 2048
  <2>1. 192 + (c \div 64) \in Bytes
    BY <1>c, <1>4, SMT DEF Bytes
  <2>2. x2 \in Seq(Bytes) /\ Len(x2) = 2
    BY <1>2, <2>1
  <2>3. Utf8(c) = x2
    BY <1>1, <1>4
  <2> QED
    BY <2>2, <2>3
<1>5. CASE ~(c < 128) /\ ~(c < 2048) /\ c < Wide
  <2>1. 224 + (c \div Page) \in Bytes
    BY <1>c, <1>5, SMT DEF Bytes, Wide, Page
  <2>2. x3 \in Seq(Bytes) /\ Len(x3) = 3
    BY <1>2, <2>1
  <2>3. Utf8(c) = x3
    BY <1>1, <1>5
  <2> QED
    BY <2>2, <2>3
<1>6. CASE ~(c < 128) /\ ~(c < 2048) /\ ~(c < Wide)
  <2>1. b4 \in Bytes
    BY <1>c, <1>d, <1>6, SMT DEF Bytes, Wide, b4
  <2>2. x4 \in Seq(Bytes) /\ Len(x4) = 4
    BY <1>2, <2>1
  <2>3. Utf8(c) = x4
    BY <1>1, <1>6
  <2> QED
    BY <1>6, <2>2, <2>3
<1> QED
  BY <1>3, <1>4, <1>5, <1>6

(* An escape: refused, or what it takes of the literal and what it gives.  *)
Refused(e) == e.used = 0 /\ e.bytes = <<>>
Taken(e, p, end) == /\ e.bytes \in Seq(Bytes)
                    /\ \/ e.used = 2 /\ Len(e.bytes) = 1
                       \/ e.used = 6 /\ Len(e.bytes) \in 1 .. 3 /\ p + 6 <= end
                       \/ e.used = 12 /\ Len(e.bytes) \in 1 .. 4 /\ p + 12 <= end

LEMMA Utf16Is ==
    ASSUME NEW lit, lit \in Seq(Bytes), NEW end \in Nat, end <= Len(lit), NEW p \in Nat \ {0}, p < end
    PROVE  Refused(Utf16(lit, p, end)) \/ Taken(Utf16(lit, p, end), p, end)
<1> DEFINE none == [used |-> 0, bytes |-> <<>>]
           first == Hex4(lit, p + 2)
           second == Hex4(lit, p + 8)
           r1 == [used |-> 6, bytes |-> Utf8(first)]
           r2 == [used |-> 12, bytes |-> Utf8(Joined(first, second))]
           e == Utf16(lit, p, end)
<1>0. \A n \in 1 .. end : lit[n] \in Bytes
  <2>1. \A n \in 1 .. end : n \in 1 .. Len(lit)
    OBVIOUS
  <2> QED
    BY <2>1, ElementOfSeq
<1>1. \/ e = none
      \/ e = r1 /\ ~(end - p < 6)
      \/ e = r2 /\ ~(end - p < 12) /\ ~(end - p < 6)
  BY Zenon DEF Utf16
<1>2. CASE e = none
  BY <1>2 DEF Refused
<1>a. ASSUME ~(end - p < 6) PROVE first \in Four
  <2>1. \A k \in 0 .. 3 : (p + 2) + k \in 1 .. end
    BY <1>a
  <2>2. \A k \in 0 .. 3 : lit[(p + 2) + k] \in Bytes
    BY <1>0, <2>1
  <2> QED
    BY <2>2, Hex4Is
<1>b. ASSUME ~(end - p < 12) PROVE second \in Four
  <2>1. \A k \in 0 .. 3 : (p + 8) + k \in 1 .. end
    BY <1>b
  <2>2. \A k \in 0 .. 3 : lit[(p + 8) + k] \in Bytes
    BY <1>0, <2>1
  <2> QED
    BY <2>2, Hex4Is
<1> HIDE DEF first, second, e
<1>3. CASE e = r1 /\ ~(end - p < 6)
  <2>1. first \in Four
    BY <1>3, <1>a
  <2>2. first \in Codes /\ first < Wide
    BY <2>1, FourIs, CodesAre, SMT DEF Wide
  <2>3. Utf8(first) \in Seq(Bytes) /\ Len(Utf8(first)) \in 1 .. 4 /\ Len(Utf8(first)) <= 3
    BY <2>2, Utf8Is
  <2>4. e.used = 6 /\ e.bytes = Utf8(first)
    BY <1>3
  <2>5. p + 6 <= end
    BY <1>3
  <2>6. Len(Utf8(first)) \in 1 .. 3
    <3>1. \A l \in 1 .. 4 : l <= 3 => l \in 1 .. 3
      OBVIOUS
    <3> QED
      BY <2>3, <3>1, Zenon
  <2> QED
    BY <2>3, <2>4, <2>5, <2>6, Zenon DEF Taken, e
<1>4. CASE e = r2 /\ ~(end - p < 12) /\ ~(end - p < 6)
  <2>1. first \in Four /\ second \in Four
    BY <1>4, <1>a, <1>b
  <2> DEFINE c == Joined(first, second)
  <2>2. c \in Codes
    BY <2>1, JoinedIs
  <2> HIDE DEF c
  <2>3. Utf8(c) \in Seq(Bytes) /\ Len(Utf8(c)) \in 1 .. 4
    BY <2>2, Utf8Is
  <2>4. e.used = 12 /\ e.bytes = Utf8(c)
    BY <1>4 DEF c
  <2>5. p + 12 <= end
    BY <1>4
  <2> QED
    BY <2>3, <2>4, <2>5, Zenon DEF Taken, e
<1> QED
  BY <1>1, <1>2, <1>3, <1>4 DEF e

LEMMA EscapeIs ==
    ASSUME NEW lit, lit \in Seq(Bytes), NEW end \in Nat, end <= Len(lit), NEW p \in Nat \ {0}, p < end
    PROVE  Refused(Escape(lit, p, end)) \/ Taken(Escape(lit, p, end), p, end)
<1> DEFINE char(b) == [used |-> 2, bytes |-> <<b>>]
           e == Escape(lit, p, end)
           none == [used |-> 0, bytes |-> <<>>]
           c == lit[p + 1]
<1>1. c \in Bytes
  <2>1. p + 1 \in 1 .. Len(lit)
    OBVIOUS
  <2> QED
    BY <2>1, ElementOfSeq
<1>2. \/ \E b \in {8, 12, 10, 13, 9, c} : e = char(b)
      \/ e = Utf16(lit, p, end)
      \/ e = none
  BY DEF Escape
<1>3. CASE \E b \in {8, 12, 10, 13, 9, c} : e = char(b)
  <2>1. PICK b \in {8, 12, 10, 13, 9, c} : e = char(b)
    BY <1>3
  <2>2. b \in Bytes
    <3>1. 8 \in Bytes /\ 12 \in Bytes /\ 10 \in Bytes /\ 13 \in Bytes /\ 9 \in Bytes
      BY DEF Bytes
    <3> QED
      BY <1>1, <3>1
  <2>3. <<b>> \in Seq(Bytes) /\ Len(<<b>>) = 1
    BY <2>2
  <2>4. e.used = 2 /\ e.bytes = <<b>>
    BY <2>1
  <2> HIDE DEF e
  <2> QED
    BY <2>3, <2>4, Zenon DEF Taken, e
<1>4. CASE e = Utf16(lit, p, end)
  BY <1>4, Utf16Is, Zenon
<1>5. CASE e = none
  BY <1>5 DEF Refused
<1> QED
  BY <1>2, <1>3, <1>4, <1>5

-----------------------------------------------------------------------------
(* Where the first pass ends from place n.                                 *)
LEMMA ScanEnd ==
    ASSUME NEW lit, lit \in Seq(Bytes), NEW f, ScanFrom(lit, f), NEW n \in 1 .. Len(lit) + 2, f[n].end # 0
    PROVE  f[n].end \in n .. Len(lit)
<1> DEFINE L == Len(lit)
           D == 1 .. L + 2
           rank == [m \in D |-> (L + 2) - m]
           S == {m \in D : f[m].end # 0 => f[m].end \in m .. L}
<1>1. L \in Nat /\ L + 2 \in Nat
  OBVIOUS
<1>2. rank \in [D -> 0 .. L + 2]
  BY <1>1
<1>3. ASSUME NEW m \in D, \A q \in D : rank[q] < rank[m] => q \in S PROVE m \in S
  <2>1. f[m] = ScanStep(lit, f, m)
    BY DEF ScanFrom
  <2>2. CASE m > L
    <3>1. f[m] = [end |-> 0, skipped |-> 0]
      BY <2>1, <2>2 DEF ScanStep
    <3> QED
      BY <3>1
  <2>3. CASE ~(m > L)
    <3>0. m \in Nat /\ m <= L
      BY <1>1, <2>3
    <3>1. m + 1 \in D /\ m + 2 \in D /\ rank[m + 1] < rank[m] /\ rank[m + 2] < rank[m]
      BY <1>1, <3>0
    <3>2. m + 1 \in S /\ m + 2 \in S
      <4> HIDE DEF D, rank, S
      <4> QED
        BY <1>3, <3>1
    <3>3. /\ f[m + 1].end # 0 => f[m + 1].end \in m .. L
          /\ f[m + 2].end # 0 => f[m + 2].end \in m .. L
      <4>1. \A x : (x \in m + 1 .. L \/ x \in m + 2 .. L) => x \in m .. L
        BY <1>1, <3>0
      <4> QED
        BY <3>2, <4>1
    <3> HIDE DEF D, rank, L
    <3>4. f[m + 2] \in Found
      BY <3>1 DEF ScanFrom, D, L
    <3>5. \/ f[m] = [end |-> 0, skipped |-> 0] \/ f[m] = [end |-> m, skipped |-> 0] \/ f[m] = f[m + 1]
          \/ f[m] = [f[m + 2] EXCEPT !.skipped = @ + 1]
      BY <2>1 DEF ScanStep
    <3>6. [f[m + 2] EXCEPT !.skipped = @ + 1].end = f[m + 2].end
      BY <3>4 DEF Found
    <3>7. m \in m .. L
      BY <1>1, <3>0
    <3>8. f[m].end = 0 \/ f[m].end = m \/ f[m].end = f[m + 1].end \/ f[m].end = f[m + 2].end
      <4>1. [end |-> 0, skipped |-> 0].end = 0 /\ [end |-> m, skipped |-> 0].end = m
        OBVIOUS
      <4> QED
        BY <3>5, <3>6, <4>1, Zenon
    <3> QED
      BY <3>3, <3>7, <3>8
  <2> QED
    BY <2>2, <2>3
<1>4. \A m \in D : m \in S
  <2> HIDE DEF D, rank, S, L
  <2> QED
    BY <1>1, <1>2, <1>3, RankInduction, SMTT(30)
<1> QED
  BY <1>4

(* The second pass from place p, given what it writes from later ones.     *)
FillStep(lit, end, f, p) ==
    IF p >= end THEN [ok |-> TRUE, out |-> <<>>]
    ELSE IF lit[p] # Backslash
    THEN [f[p + 1] EXCEPT !.out = <<lit[p]>> \o @]
    ELSE IF Escape(lit, p, end).used = 0 THEN [ok |-> FALSE, out |-> <<>>]
    ELSE [f[p + Escape(lit, p, end).used] EXCEPT !.out = Escape(lit, p, end).bytes \o @]

Read == [ok : BOOLEAN, out : Seq(Bytes)]
FillFrom(lit, end, f) == /\ f \in [1 .. end + 1 -> Read]
                         /\ \A p \in 1 .. end + 1 : f[p] = FillStep(lit, end, f, p)

LEMMA ReadWith == ASSUME NEW r \in Read, NEW o \in Seq(Bytes)
                  PROVE  /\ [r EXCEPT !.out = o] \in Read
                         /\ [r EXCEPT !.out = o].ok = r.ok /\ [r EXCEPT !.out = o].out = o
BY DEF Read

(* The second pass goes on within the literal.                             *)
LEMMA FillOn ==
    ASSUME NEW lit, lit \in Seq(Bytes), NEW end \in Nat, end <= Len(lit), NEW p \in 1 .. end + 1, ~(p >= end)
    PROVE  /\ p + 1 \in 1 .. end + 1 /\ lit[p] \in Bytes
           /\ Escape(lit, p, end).used # 0 =>
                 /\ p + Escape(lit, p, end).used \in p + 1 .. end + 1
                 /\ Escape(lit, p, end).bytes \in Seq(Bytes)
<1> DEFINE e == Escape(lit, p, end)
<1>1. p \in Nat \ {0} /\ p < end /\ p \in 1 .. Len(lit)
  OBVIOUS
<1>2. Refused(e) \/ Taken(e, p, end)
  BY <1>1, EscapeIs
<1>3. lit[p] \in Bytes
  BY <1>1, ElementOfSeq
<1> HIDE DEF e
<1>4. ASSUME e.used # 0 PROVE p + e.used \in p + 1 .. end + 1 /\ e.bytes \in Seq(Bytes)
  <2>1. Taken(e, p, end)
    BY <1>2, <1>4 DEF Refused
  <2>2. e.bytes \in Seq(Bytes)
    BY <2>1 DEF Taken
  <2>3. e.used = 2 \/ (e.used = 6 /\ p + 6 <= end) \/ (e.used = 12 /\ p + 12 <= end)
    BY <2>1, Zenon DEF Taken
  <2>4. p + e.used \in p + 1 .. end + 1
    BY <1>1, <2>3
  <2> QED
    BY <2>2, <2>4
<1> QED
  BY <1>1, <1>3, <1>4 DEF e

LEMMA FillIs == ASSUME NEW lit, lit \in Seq(Bytes), Scan(lit).end # 0
                PROVE  \E f : FillFrom(lit, Scan(lit).end, f) /\ Fill(lit) = f[1]
<1> DEFINE end == Scan(lit).end
           D == 1 .. end + 1
           H == [x \in D \X [D -> Read] |-> FillStep(lit, end, x[2], x[1])]
           rank == [n \in D |-> (end + 1) - n]
           f == CHOOSE f : f = [p \in D |-> FillStep(lit, end, f, p)]
           e(p) == Escape(lit, p, end)
<1>1. end \in Nat /\ end <= Len(lit) /\ end >= 1
  <2>1. PICK g : ScanFrom(lit, g) /\ Scan(lit) = g[1]
    BY ScanIs
  <2>2. 1 \in 1 .. Len(lit) + 2 /\ Len(lit) \in Nat
    OBVIOUS
  <2>3. end \in 1 .. Len(lit)
    BY <2>1, <2>2, ScanEnd
  <2> HIDE DEF end
  <2> QED
    BY <2>2, <2>3
<1> HIDE DEF end
<1>2. ASSUME NEW p \in D, NEW g \in [D -> Read] PROVE FillStep(lit, end, g, p) \in Read
  <2>1. CASE p >= end
    <3>1. FillStep(lit, end, g, p) = [ok |-> TRUE, out |-> <<>>]
      BY <2>1, Zenon DEF FillStep
    <3>2. <<>> \in Seq(Bytes)
      OBVIOUS
    <3> QED
      BY <3>1, <3>2 DEF Read
  <2>2. CASE ~(p >= end)
    <3>1. /\ p + 1 \in D /\ lit[p] \in Bytes
          /\ e(p).used # 0 => p + e(p).used \in p + 1 .. end + 1 /\ e(p).bytes \in Seq(Bytes)
      BY <1>1, <2>2, FillOn
    <3>2. e(p).used # 0 => p + e(p).used \in D
      <4>1. \A x \in p + 1 .. end + 1 : x \in D
        BY <1>1
      <4> QED
        BY <3>1, <4>1, Zenon
    <3> HIDE DEF D
    <3>3. ASSUME NEW q \in D, NEW b \in Seq(Bytes) PROVE [g[q] EXCEPT !.out = b \o @] \in Read
      <4>1. g[q] \in Read
        OBVIOUS
      <4>2. g[q].out \in Seq(Bytes)
        BY <4>1 DEF Read
      <4>3. b \o g[q].out \in Seq(Bytes)
        BY <4>2
      <4> QED
        BY <4>1, <4>3, ReadWith, Zenon
    <3>4. <<lit[p]>> \in Seq(Bytes)
      BY <3>1
    <3>5. [ok |-> FALSE, out |-> <<>>] \in Read
      <4>1. <<>> \in Seq(Bytes)
        OBVIOUS
      <4> QED
        BY <4>1 DEF Read
    <3> QED
      BY <2>2, <3>1, <3>2, <3>3, <3>4, <3>5, Zenon DEF FillStep
  <2> QED
    BY <2>1, <2>2
<1>3. H \in [D \X [D -> Read] -> Read]
  <2> HIDE DEF D
  <2>1. \A x \in D \X [D -> Read] : FillStep(lit, end, x[2], x[1]) \in Read
    BY <1>2
  <2> QED
    BY <2>1
<1>s. ASSUME NEW p \in D, NEW g1, NEW g2, \A q \in D : rank[q] < rank[p] => g1[q] = g2[q]
      PROVE  FillStep(lit, end, g1, p) = FillStep(lit, end, g2, p)
  <2>1. CASE p >= end
    BY <2>1, Zenon DEF FillStep
  <2>2. CASE ~(p >= end)
    <3>1. p + 1 \in D /\ (e(p).used # 0 => p + e(p).used \in p + 1 .. end + 1)
      BY <1>1, <2>2, FillOn
    <3>2. \A x \in p + 1 .. end + 1 : x \in D /\ rank[x] < rank[p]
      BY <1>1
    <3>3. p + 1 \in p + 1 .. end + 1
      BY <1>1, <2>2
    <3> HIDE DEF D, rank
    <3>4. g1[p + 1] = g2[p + 1] /\ (e(p).used # 0 => g1[p + e(p).used] = g2[p + e(p).used])
      BY <1>s, <3>1, <3>2, <3>3, Zenon
    <3> QED
      BY <3>4, Zenon DEF FillStep
  <2> QED
    BY <2>1, <2>2
<1>4. \A p \in D : \A g1, g2 \in [D -> Read] :
         (\A q \in D : rank[q] < rank[p] => g1[q] = g2[q]) => H[<<p, g1>>] = H[<<p, g2>>]
  <2> SUFFICES ASSUME NEW p \in D, NEW g1 \in [D -> Read], NEW g2 \in [D -> Read],
                      \A q \in D : rank[q] < rank[p] => g1[q] = g2[q]
               PROVE  H[<<p, g1>>] = H[<<p, g2>>]
    OBVIOUS
  <2>1. H[<<p, g1>>] = FillStep(lit, end, g1, p) /\ H[<<p, g2>>] = FillStep(lit, end, g2, p)
    <3> HIDE DEF D
    <3> QED
      OBVIOUS
  <2>2. FillStep(lit, end, g1, p) = FillStep(lit, end, g2, p)
    <3> HIDE DEF D, rank
    <3> QED
      BY <1>s, Zenon
  <2> QED
    BY <2>1, <2>2
<1>5. rank \in [D -> 0 .. end + 1] /\ end + 1 \in Nat
  BY <1>1
<1>6. Read # {}
  <2>1. <<>> \in Seq(Bytes)
    OBVIOUS
  <2>2. [ok |-> TRUE, out |-> <<>>] \in Read
    BY <2>1 DEF Read
  <2> QED
    BY <2>2
<1>7. PICK g : Recursive(D, Read, H, g)
  <2> HIDE DEF D, H, rank
  <2> QED
    BY <1>3, <1>4, <1>5, <1>6, Recursion, ZenonT(30)
<1>8. g \in [D -> Read] /\ \A p \in D : g[p] = FillStep(lit, end, g, p)
  <2> HIDE DEF D
  <2> QED
    BY <1>7 DEF Recursive
<1>9. f = [p \in D |-> FillStep(lit, end, f, p)]
  <2>1. g = [p \in D |-> FillStep(lit, end, g, p)]
    <3> HIDE DEF D
    <3> QED
      BY <1>8
  <2>2. \E x : x = [p \in D |-> FillStep(lit, end, x, p)]
    BY <2>1
  <2> QED
    BY <2>2
<1>10. Fill(lit) = f[1]
  BY Zenon DEF Fill, FillStep, end
<1>11. \A p \in D : f[p] = g[p]
  <2> DEFINE S == {p \in D : f[p] = g[p]}
  <2>1. ASSUME NEW p \in D, \A q \in D : rank[q] < rank[p] => q \in S PROVE p \in S
    <3> HIDE DEF D, rank, f
    <3>1. f[p] = FillStep(lit, end, f, p) /\ g[p] = FillStep(lit, end, g, p)
      BY <1>8, <1>9
    <3>2. \A q \in D : rank[q] < rank[p] => f[q] = g[q]
      BY <2>1
    <3>3. FillStep(lit, end, f, p) = FillStep(lit, end, g, p)
      BY <1>s, <3>2, Zenon
    <3> QED
      BY <3>1, <3>3
  <2>2. \A p \in D : p \in S
    <3> HIDE DEF D, rank, S
    <3> QED
      BY <1>5, <2>1, RankInduction
  <2> QED
    BY <2>2
<1>12. f = g
  <2> HIDE DEF D
  <2>1. f = [p \in D |-> f[p]] /\ g = [p \in D |-> g[p]]
    <3> HIDE DEF f
    <3> QED
      BY <1>8, <1>9
  <2> HIDE DEF f
  <2> QED
    BY <1>11, <2>1
<1>13. FillFrom(lit, end, g)
  BY <1>8 DEF FillFrom
<1> QED
  BY <1>10, <1>12, <1>13 DEF end

-----------------------------------------------------------------------------
(* The first pass from place q comes to the quote at end.                  *)
On(lit, f, end, q) == q \in 1 .. Len(lit) + 2 /\ end # 0 /\ f[q].end = end

LEMMA ScanOn ==
    ASSUME NEW lit, lit \in Seq(Bytes), NEW f, ScanFrom(lit, f), NEW end, NEW q, On(lit, f, end, q)
    PROVE  /\ end \in Nat /\ end <= Len(lit) /\ q <= end /\ q \in Nat \ {0} /\ f[q].skipped \in Nat
           /\ q # end \/ (f[q].skipped = 0 /\ lit[q] = Quote)
           /\ (q # end /\ lit[q] # Backslash) => (f[q + 1] = f[q] /\ On(lit, f, end, q + 1))
           /\ (q # end /\ lit[q] = Backslash) =>
                 (On(lit, f, end, q + 2) /\ f[q].skipped = f[q + 2].skipped + 1)
<1> DEFINE L == Len(lit)
           over == [end |-> 0, skipped |-> 0]
           here == [end |-> q, skipped |-> 0]
           skip == [f[q + 2] EXCEPT !.skipped = @ + 1]
<1>1. L \in Nat /\ q \in 1 .. L + 2 /\ f[q].end = end /\ end # 0
  BY DEF On
<1>2. end \in q .. L
  BY <1>1, ScanEnd
<1>3. end \in Nat /\ end <= L /\ q <= end /\ q \in Nat \ {0} /\ q <= L
  BY <1>1, <1>2
<1>4. q + 1 \in 1 .. L + 2 /\ q + 2 \in 1 .. L + 2
  BY <1>1, <1>3
<1>5. f[q] \in Found /\ f[q + 1] \in Found /\ f[q + 2] \in Found
  BY <1>1, <1>4 DEF ScanFrom
<1>6. f[q] = ScanStep(lit, f, q)
  BY <1>1 DEF ScanFrom
<1>7. over.end = 0 /\ here.end = q /\ here.skipped = 0
  OBVIOUS
<1>8. skip.end = f[q + 2].end /\ skip.skipped = f[q + 2].skipped + 1
  BY <1>5 DEF Found
<1>9. ~(q > L)
  BY <1>1, <1>3
<1> HIDE DEF over, here, skip
<1>10. \/ lit[q] = Quote /\ f[q] = here
       \/ lit[q] # Quote /\ lit[q] # Backslash /\ f[q] = f[q + 1]
       \/ lit[q] # Quote /\ lit[q] = Backslash /\ f[q] = skip
  <2>1. f[q] # over
    BY <1>1, <1>7
  <2>2. f[q] = IF lit[q] = Quote THEN here ELSE IF lit[q] # Backslash THEN f[q + 1]
               ELSE IF q = L THEN over ELSE skip
    BY <1>6, <1>9, Zenon DEF ScanStep, over, here, skip
  <2> QED
    BY <2>1, <2>2, Zenon
<1>11. f[q].skipped \in Nat
  BY <1>5 DEF Found
<1>12. f[q + 1].end = end => q + 1 <= end
  <2>1. f[q + 1].end = end => end \in q + 1 .. L
    BY <1>1, <1>4, ScanEnd
  <2> QED
    BY <1>3, <2>1
<1>13. f[q + 2].end = end => q + 2 <= end
  <2>1. f[q + 2].end = end => end \in q + 2 .. L
    BY <1>1, <1>4, ScanEnd
  <2> QED
    BY <1>3, <2>1
<1>14. CASE lit[q] = Quote /\ f[q] = here
  <2>1. q = end /\ f[q].skipped = 0
    BY <1>1, <1>7, <1>14
  <2> QED
    BY <1>3, <1>11, <1>14, <2>1
<1>15. CASE lit[q] # Quote /\ lit[q] # Backslash /\ f[q] = f[q + 1]
  <2>1. f[q + 1].end = end
    BY <1>1, <1>15
  <2>2. On(lit, f, end, q + 1) /\ q # end
    BY <1>1, <1>3, <1>4, <1>12, <2>1 DEF On
  <2> QED
    BY <1>3, <1>11, <1>15, <2>2
<1>16. CASE lit[q] # Quote /\ lit[q] = Backslash /\ f[q] = skip
  <2>1. f[q + 2].end = end /\ f[q].skipped = f[q + 2].skipped + 1
    BY <1>1, <1>8, <1>16
  <2>2. On(lit, f, end, q + 2) /\ q # end
    BY <1>1, <1>3, <1>4, <1>13, <2>1 DEF On
  <2> QED
    BY <1>3, <1>11, <1>16, <2>1, <2>2
<1> QED
  BY <1>10, <1>14, <1>15, <1>16

LEMMA OnIn ==
    ASSUME NEW lit, lit \in Seq(Bytes), NEW f, ScanFrom(lit, f), NEW end, NEW q, On(lit, f, end, q)
    PROVE  end \in Nat /\ end <= Len(lit) /\ q <= end /\ q \in Nat \ {0} /\ f[q].skipped \in Nat
BY ScanOn

LEMMA OnEnd ==
    ASSUME NEW lit, lit \in Seq(Bytes), NEW f, ScanFrom(lit, f), NEW end, On(lit, f, end, end)
    PROVE  f[end].skipped = 0
<1>1. \A q : On(lit, f, end, q) => q <= end /\ (q # end \/ (f[q].skipped = 0 /\ lit[q] = Quote))
  BY ScanOn
<1> QED
  BY <1>1

LEMMA OnPlain ==
    ASSUME NEW lit, lit \in Seq(Bytes), NEW f, ScanFrom(lit, f), NEW end, NEW q, On(lit, f, end, q),
           q # end, lit[q] # Backslash
    PROVE  f[q + 1] = f[q] /\ On(lit, f, end, q + 1)
BY ScanOn

LEMMA OnEscape ==
    ASSUME NEW lit, lit \in Seq(Bytes), NEW f, ScanFrom(lit, f), NEW end, NEW q, On(lit, f, end, q),
           q # end, lit[q] = Backslash
    PROVE  On(lit, f, end, q + 2) /\ f[q].skipped = f[q + 2].skipped + 1
BY ScanOn

(* On its way it comes to place r or to the next one, and every escape it  *)
(* has seen till then took two bytes.                                      *)
Ahead(lit, f, end, q, r) ==
    \E t \in {r, r + 1} : On(lit, f, end, t) /\ 2 * f[q].skipped <= 2 * f[t].skipped + (t - q)

LEMMA Slower == ASSUME NEW a \in Nat, NEW b \in Nat, NEW q \in Nat, NEW t \in Nat,
                       2 * a <= 2 * b + (t - q)
                PROVE  /\ \A r : t + 1 = r => 2 * a <= 2 * b + (r - q)
                       /\ \A r, c : t + 1 = r /\ c \in Nat /\ b = c + 1 => 2 * a <= 2 * c + ((r + 1) - q)
OBVIOUS

LEMMA Advance ==
    ASSUME NEW lit, lit \in Seq(Bytes), NEW f, ScanFrom(lit, f), NEW end, NEW q, On(lit, f, end, q)
    PROVE  end \in Nat /\ \A r \in q .. end : Ahead(lit, f, end, q, r)
<1>1. end \in Nat /\ q <= end /\ q \in Nat \ {0} /\ f[q].skipped \in Nat
  BY OnIn
<1> DEFINE D == q .. end
           rank == [r \in D |-> r - q]
           S == {r \in D : Ahead(lit, f, end, q, r)}
<1>2. rank \in [D -> 0 .. end]
  BY <1>1
<1>3. ASSUME NEW r \in D, \A x \in D : rank[x] < rank[r] => x \in S PROVE r \in S
  <2>1. CASE r = q
    <3>1. 2 * f[q].skipped <= 2 * f[q].skipped + (q - q)
      BY <1>1
    <3>2. Ahead(lit, f, end, q, q)
      BY <3>1 DEF Ahead
    <3> QED
      BY <2>1, <3>2
  <2>2. CASE r # q
    <3>1. r - 1 \in D /\ rank[r - 1] < rank[r] /\ (r - 1) + 1 = r /\ r \in Nat
      BY <1>1, <2>2
    <3>2. Ahead(lit, f, end, q, r - 1)
      <4>1. r - 1 \in S
        <5> HIDE DEF D, rank, S
        <5> QED
          BY <1>3, <3>1
      <4> QED
        BY <4>1
    <3>3. PICK t \in {r - 1, r} : On(lit, f, end, t) /\ 2 * f[q].skipped <= 2 * f[t].skipped + (t - q)
      BY <3>1, <3>2 DEF Ahead
    <3> HIDE DEF rank, S
    <3>4. CASE t = r
      BY <3>3, <3>4 DEF Ahead, S
    <3>5. CASE t = r - 1
      <4>1. t # end /\ t + 1 = r /\ t + 2 = r + 1 /\ t \in Nat
        BY <1>1, <3>1, <3>5
      <4>2. f[t].skipped \in Nat
        BY <3>3, OnIn
      <4>3. CASE lit[t] # Backslash
        <5>1. f[r] = f[t] /\ On(lit, f, end, r)
          BY <3>3, <4>1, <4>3, OnPlain
        <5>2. 2 * f[q].skipped <= 2 * f[r].skipped + (r - q)
          BY <1>1, <3>3, <4>1, <4>2, <5>1, Slower
        <5> QED
          BY <5>1, <5>2 DEF Ahead, S
      <4>4. CASE lit[t] = Backslash
        <5>a. On(lit, f, end, t)
          BY <3>3
        <5>0. On(lit, f, end, t + 2) /\ f[t].skipped = f[t + 2].skipped + 1
          BY <4>1, <4>4, <5>a, OnEscape
        <5>1. On(lit, f, end, r + 1) /\ f[t].skipped = f[r + 1].skipped + 1
          BY <4>1, <5>0
        <5>2. f[r + 1].skipped \in Nat
          BY <5>1, OnIn
        <5>3. 2 * f[q].skipped <= 2 * f[r + 1].skipped + ((r + 1) - q)
          BY <1>1, <3>3, <4>1, <4>2, <5>1, <5>2, Slower
        <5> QED
          BY <5>1, <5>3 DEF Ahead, S
      <4> QED
        BY <4>3, <4>4
    <3> QED
      BY <3>4, <3>5
  <2> QED
    BY <2>1, <2>2
<1>4. \A r \in D : r \in S
  <2> HIDE DEF D, rank, S
  <2> QED
    BY <1>1, <1>2, <1>3, RankInduction
<1> QED
  BY <1>1, <1>4

(* What the second pass writes from place p leaves the two bytes of each   *)
(* escape the first pass finds there.                                      *)
Roomy(lit, f, g, end, p) ==
    \A q \in {p, p + 1} : On(lit, f, end, q) => Len(g[p].out) + f[q].skipped <= end - p

LEMMA RoomLeft ==
    ASSUME NEW p \in Nat, NEW q \in Nat, NEW end \in Nat, NEW k \in Nat, NEW l \in Nat, NEW n \in Nat,
           NEW a \in Nat, NEW b \in Nat, NEW t, NEW m, m = l + n,
           p <= q, t \in {p + k, p + k + 1}, 2 * a <= 2 * b + (t - q), n + b <= end - (p + k), 2 * l <= k
    PROVE  m + a <= end - p
<1>1. t \in Int /\ t <= p + k + 1
  OBVIOUS
<1>2. 2 * a <= 2 * b + (k + 1)
  BY <1>1
<1>3. 2 * (m + a) <= 2 * (end - p) + 1
  BY <1>2
<1> QED
  BY <1>3

LEMMA EveryPlaceRoomy ==
    ASSUME NEW lit, lit \in Seq(Bytes), NEW f, ScanFrom(lit, f), NEW end, On(lit, f, end, 1),
           NEW g, FillFrom(lit, end, g)
    PROVE  \A p \in 1 .. end : Roomy(lit, f, g, end, p)
<1>1. end \in Nat /\ end <= Len(lit) /\ 1 <= end
  BY OnIn
<1> DEFINE D == 1 .. end
           rank == [p \in D |-> end - p]
           S == {p \in D : Roomy(lit, f, g, end, p)}
<1>2. rank \in [D -> 0 .. end]
  BY <1>1
<1>3. ASSUME NEW p \in D, \A x \in D : rank[x] < rank[p] => x \in S PROVE p \in S
  <2> DEFINE e == Escape(lit, p, end)
  <2>1. p \in Nat \ {0} /\ p <= end /\ p \in 1 .. end + 1
    BY <1>1
  <2>2. g[p] = FillStep(lit, end, g, p) /\ g \in [1 .. end + 1 -> Read]
    BY <2>1 DEF FillFrom
  <2>3. \A x \in p + 1 .. end : Roomy(lit, f, g, end, x)
    <3>1. \A x \in p + 1 .. end : x \in D /\ rank[x] < rank[p]
      BY <1>1, <2>1
    <3> HIDE DEF D, rank
    <3> QED
      BY <1>3, <3>1
  <2> HIDE DEF D, rank, S, e
  <2>4. \A x \in 1 .. end + 1 : g[x] \in Read /\ g[x].out \in Seq(Bytes)
    BY <2>2 DEF Read
  <2>5. ASSUME NEW q \in {p, p + 1}, On(lit, f, end, q)
        PROVE  Len(g[p].out) + f[q].skipped <= end - p
    <3>1. q \in Nat /\ q <= end /\ f[q].skipped \in Nat /\ p <= q /\ q <= p + 1
      <4>1. q \in Nat \ {0} /\ q <= end /\ f[q].skipped \in Nat
        BY <2>5, OnIn
      <4> QED
        BY <2>1, <4>1
    <3>2. CASE g[p].out = <<>>
      <4>1. end \in q .. end
        BY <1>1, <3>1
      <4>2. PICK t \in {end, end + 1} : On(lit, f, end, t) /\ 2 * f[q].skipped <= 2 * f[t].skipped + (t - q)
        BY <2>5, <4>1, Advance DEF Ahead
      <4>3. t = end
        <5>1. t <= end
          BY <4>2, OnIn
        <5> QED
          BY <1>1, <4>2, <5>1
      <4>4. f[end].skipped = 0
        BY <4>2, <4>3, OnEnd
      <4>5. 2 * f[q].skipped <= end - q
        BY <1>1, <3>1, <4>2, <4>3, <4>4
      <4>6. Len(g[p].out) = 0
        BY <3>2
      <4> QED
        BY <1>1, <2>1, <3>1, <4>5, <4>6
    <3>3. CASE ~(p >= end) /\ lit[p] # Backslash
      <4>1. p + 1 \in 1 .. end + 1 /\ lit[p] \in Bytes /\ p + 1 \in p + 1 .. end
        BY <1>1, <2>1, <3>3, FillOn
      <4>2. g[p].out = <<lit[p]>> \o g[p + 1].out
        <5>1. g[p] = [g[p + 1] EXCEPT !.out = <<lit[p]>> \o @]
          BY <2>2, <3>3, Zenon DEF FillStep
        <5>2. <<lit[p]>> \o g[p + 1].out \in Seq(Bytes)
          BY <2>4, <4>1
        <5> QED
          BY <2>4, <4>1, <5>1, <5>2, ReadWith
      <4>3. Len(g[p].out) = 1 + Len(g[p + 1].out) /\ Len(g[p + 1].out) \in Nat
        BY <2>4, <4>1, <4>2
      <4>4. On(lit, f, end, p + 1) /\ f[q].skipped = f[p + 1].skipped
        <5>1. CASE q = p + 1
          BY <2>5, <5>1
        <5>2. CASE q = p
          <6>1. q # end
            BY <1>1, <2>1, <3>3, <5>2
          <6>2. f[q + 1] = f[q] /\ On(lit, f, end, q + 1)
            BY <2>5, <3>3, <5>2, <6>1, OnPlain
          <6> QED
            BY <5>2, <6>2
        <5> QED
          BY <5>1, <5>2
      <4>5. Roomy(lit, f, g, end, p + 1)
        BY <2>3, <4>1
      <4>6. Len(g[p + 1].out) + f[p + 1].skipped <= end - (p + 1)
        BY <4>4, <4>5 DEF Roomy
      <4> QED
        <5> DEFINE x == Len(g[p].out)
                   y == Len(g[p + 1].out)
                   z == f[q].skipped
        <5>1. x = 1 + y /\ y \in Nat /\ z \in Nat /\ y + z <= end - (p + 1)
          BY <3>1, <4>3, <4>4, <4>6
        <5>2. p \in Nat /\ end \in Nat
          BY <1>1, <2>1
        <5> HIDE DEF x, y, z
        <5>3. x + z <= end - p
          BY <5>1, <5>2
        <5> QED
          BY <5>3 DEF x, z
    <3>4. CASE ~(p >= end) /\ lit[p] = Backslash /\ e.used # 0
      <4>0. p < end
        BY <1>1, <2>1, <3>4
      <4>1. Taken(e, p, end)
        <5>1. Refused(e) \/ Taken(e, p, end)
          BY <1>1, <2>1, <4>0, EscapeIs DEF e
        <5> QED
          BY <3>4, <5>1 DEF Refused
      <4> DEFINE k == e.used
      <4>2. p + k \in p + 1 .. end + 1 /\ e.bytes \in Seq(Bytes)
        BY <1>1, <2>1, <3>4, FillOn DEF e
      <4>3. g[p].out = e.bytes \o g[p + k].out
        <5>0. p + k \in 1 .. end + 1
          BY <2>1, <4>2
        <5>1. g[p] = [g[p + k] EXCEPT !.out = e.bytes \o @]
          BY <2>2, <3>4, Zenon DEF FillStep, e
        <5>2. e.bytes \o g[p + k].out \in Seq(Bytes)
          BY <2>4, <4>2, <5>0
        <5> QED
          BY <2>4, <5>0, <5>1, <5>2, ReadWith
      <4>4. /\ Len(g[p].out) = Len(e.bytes) + Len(g[p + k].out)
            /\ Len(g[p + k].out) \in Nat /\ Len(e.bytes) \in Nat
        <5>1. p + k \in 1 .. end + 1
          BY <2>1, <4>2
        <5> QED
          BY <2>4, <4>2, <4>3, <5>1
      <4>5. /\ \/ k = 2 /\ Len(e.bytes) = 1
               \/ k = 6 /\ Len(e.bytes) <= 3
               \/ k = 12 /\ Len(e.bytes) <= 4
            /\ k = 2 \/ p + k <= end
        <5>1. \/ k = 2 /\ Len(e.bytes) = 1
              \/ k = 6 /\ Len(e.bytes) \in 1 .. 3 /\ p + 6 <= end
              \/ k = 12 /\ Len(e.bytes) \in 1 .. 4 /\ p + 12 <= end
          BY <4>1, Zenon DEF Taken
        <5>2. \A x : (x \in 1 .. 3 => x <= 3) /\ (x \in 1 .. 4 => x <= 4)
          OBVIOUS
        <5> HIDE DEF k
        <5> QED
          BY <5>1, <5>2
      <4>6. CASE p + k <= end
        <5> DEFINE l == Len(e.bytes)
        <5>l. /\ l \in Nat
              /\ (k = 2 /\ l = 1) \/ (k = 6 /\ l <= 3) \/ (k = 12 /\ l <= 4)
          BY <4>4, <4>5
        <5> HIDE DEF k, l
        <5>0. k \in Nat /\ l \in Nat /\ 2 * l <= k /\ k >= 2
          BY <5>l
        <5>m. Len(g[p].out) = l + Len(g[p + k].out) /\ Len(g[p + k].out) \in Nat
          BY <4>4 DEF k, l
        <5>1. p + k \in q .. end /\ p + k \in p + 1 .. end
          BY <1>1, <2>1, <3>1, <4>6, <5>0
        <5>2. PICK t \in {p + k, p + k + 1} :
                 On(lit, f, end, t) /\ 2 * f[q].skipped <= 2 * f[t].skipped + (t - q)
          BY <2>5, <5>1, Advance DEF Ahead
        <5>3. Roomy(lit, f, g, end, p + k)
          BY <2>3, <5>1
        <5>4. Len(g[p + k].out) + f[t].skipped <= end - (p + k)
          BY <5>2, <5>3 DEF Roomy
        <5>5. f[t].skipped \in Nat
          BY <5>2, OnIn
        <5> QED
          <6> DEFINE m == Len(g[p].out)
                     n == Len(g[p + k].out)
                     a == f[q].skipped
                     b == f[t].skipped
          <6>0. m = l + n /\ n \in Nat /\ a \in Nat /\ b \in Nat /\ n + b <= end - (p + k)
            BY <3>1, <5>4, <5>5, <5>m
          <6>2. t \in {p + k, p + k + 1} /\ 2 * a <= 2 * b + (t - q)
            BY <5>2
          <6>3. p \in Nat /\ q \in Nat /\ end \in Nat /\ p <= q
            BY <1>1, <2>1, <3>1
          <6> HIDE DEF m, n, a, b, l
          <6>4. m + a <= end - p
            BY <5>0, <6>0, <6>2, <6>3, RoomLeft
          <6>1. Len(g[p].out) + f[q].skipped <= end - p
            BY <6>4 DEF m, a
          <6> QED
            BY <6>1
      <4>7. CASE ~(p + k <= end)
        <5>1. k = 2 /\ Len(e.bytes) = 1 /\ p + 2 = end + 1 /\ p + k = end + 1
          BY <1>1, <2>1, <4>2, <4>5, <4>7
        <5>2. g[end + 1].out = <<>>
          <6>1. end + 1 \in 1 .. end + 1 /\ end + 1 >= end
            BY <1>1
          <6>2. g[end + 1] = [ok |-> TRUE, out |-> <<>>]
            BY <6>1, Zenon DEF FillFrom, FillStep
          <6> QED
            BY <6>2
        <5>3. Len(g[p].out) = 1
          BY <4>4, <5>1, <5>2
        <5>4. q # p
          <6> SUFFICES ASSUME q = p PROVE FALSE
            OBVIOUS
          <6>1. On(lit, f, end, q + 2)
            <7>1. q # end
              BY <1>1, <2>1, <4>0
            <7> QED
              BY <2>5, <3>4, <7>1, OnEscape
          <6>2. q + 2 <= end
            BY <6>1, OnIn
          <6> QED
            BY <1>1, <2>1, <5>1, <6>2
        <5>5. q = end
          BY <1>1, <2>1, <5>1, <5>4
        <5>6. f[q].skipped = 0
          BY <2>5, <5>5, OnEnd
        <5> QED
          BY <1>1, <2>1, <5>1, <5>3, <5>6
      <4> QED
        BY <4>6, <4>7
    <3>5. \/ g[p].out = <<>>
          \/ ~(p >= end) /\ lit[p] # Backslash
          \/ ~(p >= end) /\ lit[p] = Backslash /\ e.used # 0
      <4>1. [ok |-> TRUE, out |-> <<>>].out = <<>> /\ [ok |-> FALSE, out |-> <<>>].out = <<>>
        OBVIOUS
      <4> QED
        BY <2>2, <4>1, Zenon DEF FillStep, e
    <3> QED
      BY <3>2, <3>3, <3>4, <3>5
  <2>6. Roomy(lit, f, g, end, p)
    BY <2>5 DEF Roomy
  <2> QED
    BY <2>6 DEF S
<1>4. \A p \in D : p \in S
  <2> HIDE DEF D, rank, S
  <2> QED
    BY <1>1, <1>2, <1>3, RankInduction
<1> QED
  BY <1>4

(* What is written of any literal fits what was allocated for it.          *)
THEOREM LiteralsFit == \A lit \in Seq(Bytes) : FitsRoom(lit)
<1> SUFFICES ASSUME NEW lit, lit \in Seq(Bytes), Scan(lit).end # 0
             PROVE  Len(Fill(lit).out) + 1 <= Room(lit)
  BY DEF FitsRoom
<1> DEFINE end == Scan(lit).end
<1>1. PICK f : ScanFrom(lit, f) /\ Scan(lit) = f[1]
  BY ScanIs
<1>2. PICK g : FillFrom(lit, end, g) /\ Fill(lit) = g[1]
  BY FillIs
<1>3. On(lit, f, end, 1)
  <2>1. 1 \in 1 .. Len(lit) + 2
    OBVIOUS
  <2> QED
    BY <1>1, <2>1 DEF On
<1> HIDE DEF end
<1>4. end \in Nat /\ 1 <= end /\ f[1].skipped \in Nat
  BY <1>1, <1>3, OnIn
<1>5. Roomy(lit, f, g, end, 1)
  <2>1. 1 \in 1 .. end
    BY <1>4
  <2> QED
    BY <1>1, <1>2, <1>3, <2>1, EveryPlaceRoomy
<1>6. Len(g[1].out) + f[1].skipped <= end - 1
  BY <1>3, <1>5 DEF Roomy
<1>7. Len(g[1].out) \in Nat
  <2>1. 1 \in 1 .. end + 1
    BY <1>4
  <2>2. g[1] \in Read
    BY <1>2, <2>1 DEF FillFrom
  <2> QED
    BY <2>2 DEF Read
<1>8. Room(lit) = end - f[1].skipped + 1
  BY <1>1 DEF Room, end
<1> QED
  BY <1>2, <1>4, <1>6, <1>7, <1>8

-----------------------------------------------------------------------------
(* What is printed.                                                        *)
NonNul == 1 .. 255
ShortOnes == {8, 9, 10, 12, 13, Quote, Backslash}
Plain(b) == b \notin ShortOnes /\ ~(b < 32)
Control(b) == b \notin ShortOnes /\ b < 32
Hexed(b) == <<Backslash, 117, 48, 48, HexChar(b \div 16), HexChar(b % 16)>>

LEMMA ShortIs == /\ DOMAIN Short = ShortOnes
                 /\ \A b \in ShortOnes : Short[b] \in Bytes
                 /\ Short[8] = 98 /\ Short[9] = 116 /\ Short[10] = 110 /\ Short[12] = 102 /\ Short[13] = 114
                 /\ Short[Quote] = Quote /\ Short[Backslash] = Backslash
<1>1. DOMAIN Short = ShortOnes
  BY DEF Short, ShortOnes
<1>2. /\ Short[8] = 98 /\ Short[9] = 116 /\ Short[10] = 110 /\ Short[12] = 102 /\ Short[13] = 114
      /\ Short[Quote] = Quote /\ Short[Backslash] = Backslash
  BY DEF Short, Quote, Backslash
<1>3. \A b \in ShortOnes : Short[b] \in Bytes
  BY <1>2 DEF ShortOnes, Bytes, Quote, Backslash
<1> QED
  BY <1>1, <1>2, <1>3

LEMMA HexCharIs == ASSUME NEW d \in 0 .. 15
                   PROVE  HexChar(d) \in 48 .. 57 \cup 97 .. 102 /\ HexDigit(HexChar(d)) = d
<1>1. CASE d < 10
  BY <1>1 DEF HexChar, HexDigit
<1>2. CASE ~(d < 10)
  BY <1>2 DEF HexChar, HexDigit
<1> QED
  BY <1>1, <1>2

LEMMA ByteDigits == ASSUME NEW b \in NonNul
                    PROVE  \E q, r \in 0 .. 15 : b \div 16 = q /\ b % 16 = r /\ b = 16 * q + r
<1> DEFINE q == b \div 16
           r == b % 16
<1>1. b \in 0 .. 255
  BY DEF NonNul
<1>2. q \in 0 .. 15 /\ r \in 0 .. 15 /\ b = 16 * q + r
  BY <1>1
<1>3. b \div 16 = q /\ b % 16 = r
  OBVIOUS
<1> HIDE DEF q, r
<1> QED
  BY <1>2, <1>3

LEMMA HexChars == ASSUME NEW b \in NonNul
                  PROVE  HexChar(b \div 16) \in 48 .. 57 \cup 97 .. 102 /\ HexChar(b % 16) \in 48 .. 57 \cup 97 .. 102
<1>1. PICK q, r \in 0 .. 15 : b \div 16 = q /\ b % 16 = r
  BY ByteDigits
<1>2. HexChar(q) \in 48 .. 57 \cup 97 .. 102 /\ HexChar(r) \in 48 .. 57 \cup 97 .. 102
  BY HexCharIs
<1> QED
  BY <1>1, <1>2, Zenon

LEMMA EscapedIs ==
    ASSUME NEW b \in NonNul
    PROVE  /\ \/ Plain(b) /\ Escaped(b) = <<b>> /\ Extra(b) = 0
              \/ b \in ShortOnes /\ Escaped(b) = <<Backslash, Short[b]>> /\ Extra(b) = 1
              \/ Control(b) /\ Escaped(b) = Hexed(b) /\ Extra(b) = 5
           /\ Escaped(b) \in Seq(Bytes) /\ Len(Escaped(b)) = 1 + Extra(b)
<1>0. b \in Nat /\ b \in Bytes /\ Backslash \in Bytes /\ 117 \in Bytes /\ 48 \in Bytes
  BY DEF NonNul, Bytes, Backslash
<1>1. CASE Plain(b)
  <2>1. Escaped(b) = <<b>> /\ Extra(b) = 0
    BY <1>1, ShortIs DEF Plain, Escaped, Extra
  <2>2. <<b>> \in Seq(Bytes) /\ Len(<<b>>) = 1 + 0
    BY <1>0
  <2> QED
    BY <1>1, <2>1, <2>2
<1>2. CASE b \in ShortOnes
  <2>1. Escaped(b) = <<Backslash, Short[b]>> /\ Extra(b) = 1
    BY <1>2, ShortIs DEF Escaped, Extra
  <2>2. <<Backslash, Short[b]>> \in Seq(Bytes) /\ Len(<<Backslash, Short[b]>>) = 1 + 1
    BY <1>0, <1>2, ShortIs
  <2> QED
    BY <1>2, <2>1, <2>2
<1>3. CASE Control(b)
  <2>1. Escaped(b) = Hexed(b) /\ Extra(b) = 5
    BY <1>3, ShortIs DEF Control, Escaped, Extra, Hexed
  <2>2. HexChar(b \div 16) \in Bytes /\ HexChar(b % 16) \in Bytes
    <3>1. \A x \in 48 .. 57 \cup 97 .. 102 : x \in Bytes
      BY DEF Bytes
    <3> QED
      BY <3>1, ByteDigits, HexCharIs
  <2>3. Hexed(b) \in Seq(Bytes) /\ Len(Hexed(b)) = 1 + 5
    BY <1>0, <2>2 DEF Hexed
  <2> QED
    BY <1>3, <2>1, <2>3
<1> QED
  BY <1>1, <1>2, <1>3 DEF Plain, Control

(* The first pass counts what the second one writes.                       *)
CountStep(s, f, n) == IF n = 0 THEN 0 ELSE f[n - 1] + 1 + Extra(s[n])

LEMMA OutputLengthIs ==
    ASSUME NEW s, s \in Seq(NonNul)
    PROVE  \E u : /\ u \in [0 .. Len(s) -> Nat]
                  /\ \A n \in 0 .. Len(s) : u[n] = CountStep(s, u, n)
                  /\ OutputLength(s) = u[Len(s)]
<1> DEFINE N == Len(s)
           D == 0 .. N
           H == [x \in D \X [D -> Nat] |-> CountStep(s, x[2], x[1])]
           rank == [i \in D |-> i]
           f == CHOOSE f : f = [n \in D |-> CountStep(s, f, n)]
<1>1. N \in Nat
  OBVIOUS
<1>e. \A i \in D : i # 0 => Extra(s[i]) \in Nat
  BY ElementOfSeq DEF Extra
<1>b. ASSUME NEW i \in D, i # 0 PROVE i - 1 \in D /\ rank[i - 1] < rank[i]
  BY <1>1, <1>b
<1>2. ASSUME NEW i \in D, NEW g \in [D -> Nat] PROVE CountStep(s, g, i) \in Nat
  <2>1. i # 0 => g[i - 1] \in Nat
    <3> HIDE DEF D, rank
    <3> QED
      BY <1>b
  <2> HIDE DEF D
  <2> QED
    BY <1>e, <2>1 DEF CountStep
<1>3. H \in [D \X [D -> Nat] -> Nat]
  <2> HIDE DEF D
  <2>1. \A x \in D \X [D -> Nat] : CountStep(s, x[2], x[1]) \in Nat
    BY <1>2
  <2> QED
    BY <2>1
<1>s. ASSUME NEW i \in D, NEW g1, NEW g2, \A q \in D : rank[q] < rank[i] => g1[q] = g2[q]
      PROVE  CountStep(s, g1, i) = CountStep(s, g2, i)
  <2>1. i # 0 => g1[i - 1] = g2[i - 1]
    <3> HIDE DEF D, rank
    <3> QED
      BY <1>s, <1>b
  <2> QED
    BY <2>1, Zenon DEF CountStep
<1>4. \A p \in D : \A g1, g2 \in [D -> Nat] :
         (\A q \in D : rank[q] < rank[p] => g1[q] = g2[q]) => H[<<p, g1>>] = H[<<p, g2>>]
  <2> SUFFICES ASSUME NEW p \in D, NEW g1 \in [D -> Nat], NEW g2 \in [D -> Nat],
                      \A q \in D : rank[q] < rank[p] => g1[q] = g2[q]
               PROVE  H[<<p, g1>>] = H[<<p, g2>>]
    OBVIOUS
  <2>1. H[<<p, g1>>] = CountStep(s, g1, p) /\ H[<<p, g2>>] = CountStep(s, g2, p)
    <3> HIDE DEF D
    <3> QED
      OBVIOUS
  <2>2. CountStep(s, g1, p) = CountStep(s, g2, p)
    <3> HIDE DEF D, rank
    <3> QED
      BY <1>s, Zenon
  <2> QED
    BY <2>1, <2>2
<1>5. rank \in [D -> 0 .. N]
  BY <1>1
<1>7. PICK g : Recursive(D, Nat, H, g)
  <2>1. Nat # {}
    OBVIOUS
  <2> HIDE DEF D, H, rank, N
  <2> QED
    BY <1>1, <1>3, <1>4, <1>5, <2>1, Recursion
<1>8. g \in [D -> Nat] /\ \A p \in D : g[p] = CountStep(s, g, p)
  <2> HIDE DEF D
  <2> QED
    BY <1>7 DEF Recursive
<1>9. f = [p \in D |-> CountStep(s, f, p)]
  <2>1. g = [p \in D |-> CountStep(s, g, p)]
    <3> HIDE DEF D
    <3> QED
      BY <1>8
  <2>2. \E x : x = [p \in D |-> CountStep(s, x, p)]
    BY <2>1
  <2> QED
    BY <2>2
<1>10. OutputLength(s) = f[N]
  BY Zenon DEF OutputLength, CountStep
<1>11. \A p \in D : f[p] = g[p]
  <2> DEFINE T == {p \in D : f[p] = g[p]}
  <2>1. ASSUME NEW p \in D, \A q \in D : rank[q] < rank[p] => q \in T PROVE p \in T
    <3> HIDE DEF D, rank, f
    <3>1. f[p] = CountStep(s, f, p) /\ g[p] = CountStep(s, g, p)
      BY <1>8, <1>9
    <3>2. \A q \in D : rank[q] < rank[p] => f[q] = g[q]
      BY <2>1
    <3>3. CountStep(s, f, p) = CountStep(s, g, p)
      BY <1>s, <3>2, Zenon
    <3> QED
      BY <3>1, <3>3
  <2>2. \A p \in D : p \in T
    <3> HIDE DEF D, rank, T, N
    <3> QED
      BY <1>1, <1>5, <2>1, RankInduction
  <2> QED
    BY <2>2
<1>12. f[N] = g[N]
  <2>1. N \in D
    BY <1>1
  <2> HIDE DEF D, f
  <2> QED
    BY <1>11, <2>1
<1> QED
  <2> HIDE DEF D, f
  <2>1. g \in [D -> Nat] /\ (\A p \in D : g[p] = CountStep(s, g, p)) /\ OutputLength(s) = g[N]
    BY <1>8, <1>10, <1>12
  <2> QED
    BY <2>1 DEF D

(* The printed string after its opening quote: the escapes one after the   *)
(* other and the closing quote.                                            *)
Written(s, u, lit) ==
    /\ u \in [0 .. Len(s) -> Nat] /\ u[0] = 0
    /\ \A k \in 1 .. Len(s) : /\ u[k] = u[k - 1] + 1 + Extra(s[k]) /\ u[k] <= u[Len(s)]
                              /\ \A i \in 1 .. 1 + Extra(s[k]) : lit[u[k - 1] + i] = Escaped(s[k])[i]
    /\ lit \in Seq(Bytes) /\ Len(lit) = u[Len(s)] + 1 /\ lit[u[Len(s)] + 1] = Quote

LEMMA PrintedIs == ASSUME NEW s, s \in Seq(NonNul)
                   PROVE  \E u : Written(s, u, Tail(PrintString(s)))
<1> DEFINE N == Len(s)
           ss == [n \in 1 .. Len(s) |-> Escaped(s[n])]
           body == FlattenSeq(ss)
           p == PrintString(s)
           lit == Tail(p)
<1>1. PICK u : /\ u \in [0 .. N -> Nat]
               /\ \A n \in 0 .. N : u[n] = CountStep(s, u, n)
               /\ OutputLength(s) = u[N]
  BY OutputLengthIs
<1>2. N \in Nat /\ N \in 0 .. N
  OBVIOUS
<1>3. u[0] = 0 /\ \A k \in 1 .. N : u[k] = u[k - 1] + 1 + Extra(s[k])
  <2>1. 0 \in 0 .. N /\ \A k \in 1 .. N : k \in 0 .. N /\ k # 0
    BY <1>2
  <2> QED
    BY <1>1, <2>1, Zenon DEF CountStep
<1>4. \A k \in 1 .. N : s[k] \in NonNul /\ Extra(s[k]) \in Nat /\ u[k - 1] \in Nat
  <2>1. \A k \in 1 .. N : k - 1 \in 0 .. N
    BY <1>2
  <2>2. \A k \in 1 .. N : s[k] \in NonNul
    BY ElementOfSeq
  <2> QED
    BY <1>1, <2>1, <2>2 DEF Extra
<1>5. ss \in Seq(Seq(Bytes)) /\ Len(ss) = N /\ \A k \in 1 .. N : ss[k] = Escaped(s[k])
  <2>1. \A k \in 1 .. N : Escaped(s[k]) \in Seq(Bytes)
    BY <1>4, EscapedIs
  <2> QED
    BY <1>2, <2>1
<1>6. \A k \in 1 .. N : Len(ss[k]) = 1 + Extra(s[k])
  BY <1>4, <1>5, EscapedIs
<1> HIDE DEF N, ss
<1>7. Offsets(ss, u)
  <2>1. \A k \in 1 .. N : u[k] = u[k - 1] + Len(ss[k])
    <3>1. \A a, b \in Nat : a + 1 + b = a + (1 + b)
      OBVIOUS
    <3> QED
      BY <1>3, <1>4, <1>6, <3>1
  <2> QED
    BY <1>1, <1>3, <1>5, <2>1, Zenon DEF Offsets
<1>8. body \in Seq(Bytes) /\ Pieced(ss, u, body, N)
  BY <1>5, <1>7, FlattenPieced
<1> HIDE DEF body
<1>9. Len(body) = u[N] /\ u[N] \in Nat
  BY <1>1, <1>2, <1>8 DEF Pieced
<1> DEFINE m == u[N]
           F == [k \in 1 .. m + 2 |-> IF k \in {1, m + 2} THEN Quote
                                      ELSE IF k - 1 \in DOMAIN body THEN body[k - 1] ELSE NUL]
<1>10. p = F
  <2>1. OutputLength(s) = m
    BY <1>1
  <2>2. body = FlattenSeq([n \in 1 .. Len(s) |-> Escaped(s[n])])
    BY DEF body, ss
  <2> HIDE DEF m
  <2> QED
    BY <2>1, <2>2, Zenon DEF PrintString
<1>11. m \in Nat /\ DOMAIN body = 1 .. m
  <2>1. DOMAIN body = 1 .. Len(body)
    BY <1>8, LenProperties
  <2> QED
    BY <1>9, <2>1
<1> HIDE DEF m, p
<1>12. /\ F \in Seq(Bytes) /\ Len(F) = m + 2 /\ F[m + 2] = Quote
       /\ \A i \in 1 .. m : F[i + 1] = body[i]
  <2>1. \A i \in 1 .. m : body[i] \in Bytes
    BY <1>8, <1>9, ElementOfSeq DEF m
  <2>2. Quote \in Bytes /\ NUL \in Bytes
    BY DEF Quote, NUL, Bytes
  <2>3. \A k \in 1 .. m + 2 : F[k] \in Bytes
    BY <1>11, <2>1, <2>2
  <2>4. m + 2 \in Nat
    BY <1>11
  <2>5. F \in Seq(Bytes) /\ Len(F) = m + 2
    BY <2>3, <2>4
  <2>6. F[m + 2] = Quote
    BY <1>11
  <2>7. \A i \in 1 .. m : F[i + 1] = body[i]
    <3> SUFFICES ASSUME NEW i \in 1 .. m PROVE F[i + 1] = body[i]
      OBVIOUS
    <3>1. i + 1 \in 1 .. m + 2 /\ i + 1 # 1 /\ i + 1 # m + 2 /\ (i + 1) - 1 = i
      BY <1>11
    <3> QED
      BY <1>11, <3>1
  <2> QED
    BY <2>5, <2>6, <2>7
<1> HIDE DEF F
<1>13. /\ lit \in Seq(Bytes) /\ Len(lit) = m + 1
       /\ \A i \in 1 .. m + 1 : lit[i] = F[i + 1]
  <2>1. F # <<>>
    BY <1>11, <1>12
  <2>2. /\ Tail(F) \in Seq(Bytes) /\ Len(Tail(F)) = Len(F) - 1
        /\ \A i \in 1 .. Len(Tail(F)) : Tail(F)[i] = F[i + 1]
    BY <1>12, <2>1, HeadTailProperties
  <2> QED
    BY <1>10, <1>11, <1>12, <2>2
<1> HIDE DEF lit
<1>14. ASSUME NEW k \in 1 .. N
       PROVE  u[k] <= m /\ \A i \in 1 .. 1 + Extra(s[k]) : lit[u[k - 1] + i] = Escaped(s[k])[i]
  <2>1. u[k] <= m /\ \A i \in 1 .. Len(ss[k]) : body[u[k - 1] + i] = ss[k][i]
    BY <1>8 DEF Pieced, m
  <2>2. ASSUME NEW i \in 1 .. 1 + Extra(s[k]) PROVE lit[u[k - 1] + i] = Escaped(s[k])[i]
    <3>1. u[k - 1] + i \in 1 .. m /\ u[k - 1] + i \in 1 .. m + 1
      <4>1. u[k] = u[k - 1] + 1 + Extra(s[k]) /\ u[k - 1] \in Nat /\ Extra(s[k]) \in Nat
        BY <1>3, <1>4
      <4> QED
        BY <1>11, <2>1, <4>1
    <3>2. body[u[k - 1] + i] = ss[k][i]
      BY <1>6, <2>1
    <3>3. lit[u[k - 1] + i] = body[u[k - 1] + i]
      BY <1>12, <1>13, <3>1
    <3> QED
      BY <1>5, <3>2, <3>3
  <2> QED
    BY <2>1, <2>2
<1>15. lit[m + 1] = Quote
  <2>1. m + 1 \in 1 .. m + 1 /\ (m + 1) + 1 = m + 2
    BY <1>11
  <2> QED
    BY <1>12, <1>13, <2>1
<1>16. Written(s, u, lit)
  BY <1>1, <1>3, <1>13, <1>14, <1>15, Zenon DEF Written, N, m
<1> QED
  BY <1>16 DEF lit, p

LEMMA ScanPlain == ASSUME NEW lit, lit \in Seq(Bytes), NEW f, ScanFrom(lit, f), NEW q \in 1 .. Len(lit),
                          lit[q] # Quote, lit[q] # Backslash
                   PROVE  f[q] = f[q + 1]
<1>1. q \in 1 .. Len(lit) + 2 /\ ~(q > Len(lit))
  OBVIOUS
<1>2. f[q] = ScanStep(lit, f, q)
  BY <1>1 DEF ScanFrom
<1> QED
  BY <1>1, <1>2, Zenon DEF ScanStep

LEMMA ScanSkip == ASSUME NEW lit, lit \in Seq(Bytes), NEW f, ScanFrom(lit, f), NEW q \in 1 .. Len(lit),
                         lit[q] = Backslash, q # Len(lit)
                  PROVE  f[q].end = f[q + 2].end
<1>1. q \in 1 .. Len(lit) + 2 /\ ~(q > Len(lit)) /\ q + 2 \in 1 .. Len(lit) + 2
  OBVIOUS
<1>2. f[q] = ScanStep(lit, f, q)
  BY <1>1 DEF ScanFrom
<1>3. lit[q] # Quote
  BY DEF Quote, Backslash
<1>4. f[q] = [f[q + 2] EXCEPT !.skipped = @ + 1]
  BY <1>1, <1>2, <1>3, Zenon DEF ScanStep
<1>5. f[q + 2] \in Found
  BY <1>1 DEF ScanFrom
<1>6. [f[q + 2] EXCEPT !.skipped = @ + 1].end = f[q + 2].end
  BY <1>5 DEF Found
<1> QED
  BY <1>4, <1>6

(* The bytes of what was written for character k, and where they are.      *)
Step(s, u, lit, k) ==
    LET a == u[k - 1]
        b == s[k]
        end == u[Len(s)] + 1
    IN /\ a \in Nat /\ b \in NonNul /\ end \in Nat /\ end = Len(lit)
       /\ \/ /\ Plain(b) /\ u[k] = a + 1 /\ a + 1 < end
             /\ lit[a + 1] = b
          \/ /\ b \in ShortOnes /\ u[k] = a + 2 /\ a + 2 < end
             /\ lit[a + 1] = Backslash /\ lit[a + 2] = Short[b]
          \/ /\ Control(b) /\ u[k] = a + 6 /\ a + 6 < end
             /\ lit[a + 1] = Backslash /\ lit[a + 2] = 117 /\ lit[a + 3] = 48 /\ lit[a + 4] = 48
             /\ lit[a + 5] = HexChar(b \div 16) /\ lit[a + 6] = HexChar(b % 16)

LEMMA StepIs == ASSUME NEW s, s \in Seq(NonNul), NEW u, NEW lit, Written(s, u, lit), NEW k \in 1 .. Len(s)
                PROVE  Step(s, u, lit, k)
<1> DEFINE a == u[k - 1]
           b == s[k]
           m == u[Len(s)]
           n == Len(s)
           e == Escaped(b)
<1>1. n \in Nat /\ k - 1 \in 0 .. n /\ k \in 0 .. n /\ n \in 0 .. n
  OBVIOUS
<1>2. a \in Nat /\ m \in Nat /\ u[k] \in Nat
  <2>1. u \in [0 .. n -> Nat]
    BY DEF Written
  <2> QED
    BY <1>1, <2>1
<1>3. b \in NonNul
  BY ElementOfSeq
<1>4. /\ u[k] = a + 1 + Extra(b) /\ u[k] <= m /\ Len(lit) = m + 1
      /\ \A i \in 1 .. 1 + Extra(b) : lit[a + i] = e[i]
  BY DEF Written
<1> HIDE DEF a, b, m, n
<1>5. CASE Plain(b) /\ e = <<b>> /\ Extra(b) = 0
  <2>1. 1 \in 1 .. 1 + Extra(b) /\ e[1] = b
    BY <1>5
  <2>2. u[k] = a + 1 /\ a + 1 < m + 1 /\ m + 1 \in Nat /\ lit[a + 1] = b
    BY <1>2, <1>4, <1>5, <2>1
  <2> QED
    BY <1>2, <1>3, <1>4, <1>5, <2>2, Zenon DEF Step, a, b, m
<1>6. CASE b \in ShortOnes /\ e = <<Backslash, Short[b]>> /\ Extra(b) = 1
  <2>1. 1 \in 1 .. 1 + Extra(b) /\ 2 \in 1 .. 1 + Extra(b) /\ e[1] = Backslash /\ e[2] = Short[b]
    BY <1>6
  <2>2. u[k] = a + 2 /\ a + 2 < m + 1 /\ m + 1 \in Nat
    BY <1>2, <1>4, <1>6
  <2>3. lit[a + 1] = Backslash /\ lit[a + 2] = Short[b]
    BY <1>4, <2>1
  <2> QED
    BY <1>2, <1>3, <1>4, <1>6, <2>2, <2>3, Zenon DEF Step, a, b, m
<1>7. CASE Control(b) /\ e = Hexed(b) /\ Extra(b) = 5
  <2>1. \A i \in 1 .. 6 : i \in 1 .. 1 + Extra(b)
    BY <1>7
  <2>2. u[k] = a + 6 /\ a + 6 < m + 1 /\ m + 1 \in Nat
    BY <1>2, <1>4, <1>7
  <2> DEFINE h1 == HexChar(b \div 16)
             h2 == HexChar(b % 16)
  <2>3. e = <<Backslash, 117, 48, 48, h1, h2>>
    BY <1>7 DEF Hexed
  <2> HIDE DEF h1, h2, e
  <2>4. e[1] = Backslash /\ e[2] = 117 /\ e[3] = 48 /\ e[4] = 48 /\ e[5] = h1 /\ e[6] = h2
    BY <2>3
  <2>5. /\ lit[a + 1] = e[1] /\ lit[a + 2] = e[2] /\ lit[a + 3] = e[3]
        /\ lit[a + 4] = e[4] /\ lit[a + 5] = e[5] /\ lit[a + 6] = e[6]
    <3>1. \A i \in 1 .. 6 : lit[a + i] = e[i]
      BY <1>4, <2>1
    <3> QED
      BY <3>1
  <2>6. /\ lit[a + 1] = Backslash /\ lit[a + 2] = 117 /\ lit[a + 3] = 48 /\ lit[a + 4] = 48
        /\ lit[a + 5] = h1 /\ lit[a + 6] = h2
    BY <2>4, <2>5
  <2>7. Control(b)
    BY <1>7
  <2> QED
    BY <1>2, <1>3, <1>4, <2>2, <2>6, <2>7, Zenon DEF Step, a, b, m, h1, h2
<1> QED
  BY <1>3, <1>5, <1>6, <1>7, EscapedIs

(* The first pass finds the quote that was written last.                   *)
LEMMA WrittenScanned ==
    ASSUME NEW s, s \in Seq(NonNul), NEW u, NEW lit, Written(s, u, lit), NEW f, ScanFrom(lit, f)
    PROVE  f[1].end = Len(lit)
<1> DEFINE n == Len(s)
           D == 0 .. n
           rank == [k \in D |-> n - k]
           T == {k \in D : f[u[k] + 1].end = Len(lit)}
<1>1. n \in Nat
  OBVIOUS
<1>2. /\ \A k \in D : u[k] \in Nat
      /\ u[0] = 0 /\ lit \in Seq(Bytes) /\ Len(lit) = u[n] + 1 /\ lit[u[n] + 1] = Quote
  BY DEF Written
<1>3. rank \in [D -> 0 .. n]
  BY <1>1
<1>4. ASSUME NEW k \in D, \A q \in D : rank[q] < rank[k] => q \in T PROVE k \in T
  <2>1. CASE k = n
    <3> DEFINE q == u[n] + 1
    <3>1. q \in 1 .. Len(lit) + 2 /\ ~(q > Len(lit)) /\ q = Len(lit)
      BY <1>1, <1>2
    <3>2. f[q] = ScanStep(lit, f, q)
      BY <3>1 DEF ScanFrom
    <3>3. lit[q] = Quote
      BY <1>2
    <3> HIDE DEF q
    <3>4. f[q] = [end |-> q, skipped |-> 0]
      BY <3>1, <3>2, <3>3, Zenon DEF ScanStep
    <3>5. f[q].end = Len(lit)
      BY <3>1, <3>4
    <3> QED
      BY <2>1, <3>5 DEF q
  <2>2. CASE k # n
    <3>1. k + 1 \in D /\ rank[k + 1] < rank[k] /\ k + 1 \in 1 .. n /\ (k + 1) - 1 = k
      BY <1>1, <2>2
    <3>2. f[u[k + 1] + 1].end = Len(lit)
      <4>1. k + 1 \in T
        <5> HIDE DEF D, rank, T
        <5> QED
          BY <1>4, <3>1
      <4> QED
        BY <4>1
    <3>3. Step(s, u, lit, k + 1)
      BY <3>1, StepIs
    <3> DEFINE a == u[k]
               b == s[k + 1]
               end == u[n] + 1
    <3>4. /\ a \in Nat /\ b \in NonNul /\ end \in Nat /\ end = Len(lit)
          /\ \/ /\ Plain(b) /\ u[k + 1] = a + 1 /\ a + 1 < end
                /\ lit[a + 1] = b
             \/ /\ b \in ShortOnes /\ u[k + 1] = a + 2 /\ a + 2 < end
                /\ lit[a + 1] = Backslash /\ lit[a + 2] = Short[b]
             \/ /\ Control(b) /\ u[k + 1] = a + 6 /\ a + 6 < end
                /\ lit[a + 1] = Backslash /\ lit[a + 2] = 117 /\ lit[a + 3] = 48 /\ lit[a + 4] = 48
                /\ lit[a + 5] = HexChar(b \div 16) /\ lit[a + 6] = HexChar(b % 16)
      BY <3>1, <3>3, ZenonT(30) DEF Step
    <3> HIDE DEF a, b, end, D, rank, T
    <3> SUFFICES f[a + 1].end = Len(lit)
      BY DEF T, a
    <3>p. ASSUME NEW i \in 1 .. 5, a + i < end, lit[a + i] # Quote, lit[a + i] # Backslash
          PROVE  f[a + i] = f[a + (i + 1)]
      <4>1. a + i \in 1 .. Len(lit) /\ (a + i) + 1 = a + (i + 1)
        BY <3>4, <3>p
      <4>2. f[a + i] = f[(a + i) + 1]
        BY <1>2, <3>p, <4>1, ScanPlain
      <4> QED
        BY <4>1, <4>2
    <3>s. ASSUME a + 2 < end, lit[a + 1] = Backslash PROVE f[a + 1].end = f[a + 3].end
      <4>1. a + 1 \in 1 .. Len(lit) /\ a + 1 # Len(lit) /\ (a + 1) + 2 = a + 3
        BY <3>4, <3>s
      <4>2. f[a + 1].end = f[(a + 1) + 2].end
        BY <1>2, <3>s, <4>1, ScanSkip
      <4> QED
        BY <4>1, <4>2
    <3>5. CASE Plain(b) /\ u[k + 1] = a + 1 /\ a + 1 < end /\ lit[a + 1] = b
      <4>1. b # Quote /\ b # Backslash
        BY <3>5 DEF Plain, ShortOnes
      <4>2. f[a + 1] = f[a + (1 + 1)]
        BY <3>5, <3>p, <4>1
      <4>3. (a + 1) + 1 = a + (1 + 1)
        BY <3>4
      <4> QED
        BY <3>2, <3>5, <4>2, <4>3
    <3>6. CASE b \in ShortOnes /\ u[k + 1] = a + 2 /\ a + 2 < end /\ lit[a + 1] = Backslash
      <4>1. (a + 2) + 1 = a + 3
        BY <3>4
      <4> QED
        BY <3>2, <3>6, <3>s, <4>1
    <3>7. CASE /\ Control(b) /\ u[k + 1] = a + 6 /\ a + 6 < end
               /\ lit[a + 1] = Backslash /\ lit[a + 3] = 48 /\ lit[a + 4] = 48
               /\ lit[a + 5] = HexChar(b \div 16) /\ lit[a + 6] = HexChar(b % 16)
      <4>1. \A x \in 48 .. 57 \cup 97 .. 102 : x # Quote /\ x # Backslash
        BY DEF Quote, Backslash
      <4>2. HexChar(b \div 16) \in 48 .. 57 \cup 97 .. 102 /\ HexChar(b % 16) \in 48 .. 57 \cup 97 .. 102
        <5>1. b \in NonNul
          BY <3>4
        <5> QED
          BY <5>1, HexChars
      <4>3. /\ a + 3 < end /\ a + 4 < end /\ a + 5 < end /\ a + 2 < end /\ (a + 6) + 1 = a + 7
            /\ 3 + 1 = 4 /\ 4 + 1 = 5 /\ 5 + 1 = 6 /\ (a + 6) \in 1 .. Len(lit)
        BY <3>4, <3>7
      <4>4. 48 # Quote /\ 48 # Backslash
        BY DEF Quote, Backslash
      <4>5. f[a + 3] = f[a + (3 + 1)]
        BY <3>7, <3>p, <4>3, <4>4
      <4>6. f[a + 4] = f[a + (4 + 1)]
        BY <3>7, <3>p, <4>3, <4>4
      <4>a. /\ lit[a + 5] # Quote /\ lit[a + 5] # Backslash
            /\ lit[a + 6] # Quote /\ lit[a + 6] # Backslash
        BY <3>7, <4>1, <4>2, Zenon
      <4>7. f[a + 5] = f[a + (5 + 1)]
        BY <3>p, <4>3, <4>a
      <4>8. f[a + 6] = f[(a + 6) + 1]
        BY <1>2, <4>3, <4>a, ScanPlain
      <4>9. f[a + 1].end = f[a + 3].end
        BY <3>7, <3>s, <4>3
      <4>10. f[a + 3] = f[(a + 6) + 1]
        BY <4>5, <4>6, <4>7, <4>8, <4>3
      <4> QED
        BY <3>2, <3>7, <4>9, <4>10
    <3> QED
      BY <3>4, <3>5, <3>6, <3>7
  <2> QED
    BY <2>1, <2>2
<1>5. \A k \in D : k \in T
  <2> HIDE DEF D, rank, T, n
  <2> QED
    BY <1>1, <1>3, <1>4, RankInduction
<1>6. 0 \in D
  BY <1>1
<1>7. f[u[0] + 1].end = Len(lit)
  BY <1>5, <1>6
<1> QED
  BY <1>2, <1>7

(* What is left of a string.                                               *)
Rest(s, k) == SubSeq(s, k + 1, Len(s))

LEMMA RestIs ==
    ASSUME NEW S, NEW s \in Seq(S)
    PROVE  /\ Rest(s, 0) = s /\ Rest(s, Len(s)) = <<>>
           /\ \A k \in 1 .. Len(s) : Rest(s, k - 1) = <<s[k]>> \o Rest(s, k) /\ Rest(s, k) \in Seq(S)
<1> DEFINE n == Len(s)
<1>1. n \in Nat
  OBVIOUS
<1>2. ASSUME NEW k \in 0 .. n
      PROVE  /\ Rest(s, k) \in Seq(S) /\ Len(Rest(s, k)) = n - k
             /\ \A i \in 1 .. n - k : Rest(s, k)[i] = s[k + i]
  <2>1. k + 1 \in Int /\ n \in Int /\ \A i \in k + 1 .. n : i \in 1 .. n
    BY <1>1
  <2>2. \A i \in k + 1 .. n : s[i] \in S
    BY <2>1, ElementOfSeq
  <2>3. /\ Rest(s, k) \in Seq(S)
        /\ Len(Rest(s, k)) = IF k + 1 <= n THEN n - (k + 1) + 1 ELSE 0
        /\ \A i \in 1 .. n - (k + 1) + 1 : Rest(s, k)[i] = s[(k + 1) + i - 1]
    BY <2>1, <2>2, SubSeqProperties DEF Rest
  <2>4. n - (k + 1) + 1 = n - k /\ \A i \in 1 .. n - k : (k + 1) + i - 1 = k + i
    BY <1>1
  <2>5. Len(Rest(s, k)) = n - k
    BY <1>1, <2>3
  <2> QED
    BY <2>3, <2>4, <2>5
<1>3. Rest(s, 0) = s
  <2>1. 0 \in 0 .. n /\ n - 0 = n /\ \A i \in 1 .. n : 0 + i = i
    BY <1>1
  <2>2. Rest(s, 0) \in Seq(S) /\ Len(Rest(s, 0)) = Len(s) /\ \A i \in 1 .. Len(Rest(s, 0)) : Rest(s, 0)[i] = s[i]
    BY <1>2, <2>1
  <2> QED
    BY <2>2, SeqEqual
<1>4. Rest(s, n) = <<>>
  <2>1. n \in 0 .. n /\ n - n = 0
    BY <1>1
  <2>2. Rest(s, n) \in Seq(S) /\ Len(Rest(s, n)) = 0
    BY <1>2, <2>1
  <2> QED
    BY <2>2, EmptySeq
<1>5. ASSUME NEW k \in 1 .. n
      PROVE  Rest(s, k - 1) = <<s[k]>> \o Rest(s, k) /\ Rest(s, k) \in Seq(S)
  <2>1. k \in 0 .. n /\ k - 1 \in 0 .. n /\ n - (k - 1) = 1 + (n - k) /\ (k - 1) + 1 = k /\ n - k \in Nat
    BY <1>1
  <2>2. s[k] \in S /\ <<s[k]>> \in Seq(S) /\ Len(<<s[k]>>) = 1 /\ <<s[k]>>[1] = s[k]
    <3>1. s[k] \in S
      BY ElementOfSeq
    <3> QED
      BY <3>1
  <2> DEFINE x == <<s[k]>>
             y == Rest(s, k)
             z == Rest(s, k - 1)
  <2>3. y \in Seq(S) /\ Len(y) = n - k /\ \A i \in 1 .. n - k : y[i] = s[k + i]
    BY <1>2, <2>1
  <2>4. z \in Seq(S) /\ Len(z) = 1 + (n - k) /\ \A i \in 1 .. 1 + (n - k) : z[i] = s[(k - 1) + i]
    <3>1. z \in Seq(S) /\ Len(z) = n - (k - 1) /\ \A i \in 1 .. n - (k - 1) : z[i] = s[(k - 1) + i]
      BY <1>2, <2>1
    <3> QED
      BY <2>1, <3>1
  <2> HIDE DEF y, z
  <2>5. x \in Seq(S) /\ Len(x) = 1 /\ x[1] = s[k]
    BY <2>2
  <2> HIDE DEF x
  <2>6. /\ x \o y \in Seq(S) /\ Len(x \o y) = Len(x) + Len(y)
        /\ \A i \in 1 .. Len(x) : (x \o y)[i] = x[i]
        /\ \A i \in 1 .. Len(y) : (x \o y)[Len(x) + i] = y[i]
    <3>1. x \in Seq(S) /\ y \in Seq(S)
      BY <2>3, <2>5
    <3> QED
      BY <3>1, ConcatAt
  <2>7. Len(z) = Len(x \o y)
    BY <2>3, <2>4, <2>5, <2>6
  <2>8. ASSUME NEW i \in 1 .. Len(z) PROVE z[i] = (x \o y)[i]
    <3>1. CASE i = 1
      <4>1. 1 \in 1 .. Len(x) /\ 1 \in 1 .. 1 + (n - k)
        BY <2>1, <2>5
      <4>2. z[1] = s[(k - 1) + 1]
        BY <2>4, <4>1
      <4> QED
        BY <2>1, <2>5, <2>6, <3>1, <4>1, <4>2
    <3>2. CASE i # 1
      <4>1. i - 1 \in 1 .. Len(y) /\ Len(x) + (i - 1) = i /\ i - 1 \in 1 .. n - k /\ i \in 1 .. 1 + (n - k)
            /\ (k - 1) + i = k + (i - 1)
        BY <2>1, <2>3, <2>4, <2>5, <3>2
      <4>2. z[i] = s[k + (i - 1)]
        BY <2>4, <4>1
      <4>3. y[i - 1] = s[k + (i - 1)]
        BY <2>3, <4>1
      <4>4. (x \o y)[i] = y[i - 1]
        BY <2>6, <4>1
      <4> QED
        BY <4>2, <4>3, <4>4
    <3> QED
      BY <3>1, <3>2
  <2>9. z = x \o y
    BY <2>4, <2>6, <2>7, <2>8, SeqEqual
  <2> QED
    BY <2>3, <2>9 DEF x, y, z
<1> QED
  BY <1>3, <1>4, <1>5

(* The second pass at a character, and at an escape of one byte.           *)
LEMMA FillPlain ==
    ASSUME NEW lit, lit \in Seq(Bytes), NEW end \in Nat, end <= Len(lit), NEW g, FillFrom(lit, end, g),
           NEW p \in 1 .. end - 1, lit[p] # Backslash, NEW o \in Seq(Bytes), g[p + 1] = [ok |-> TRUE, out |-> o]
    PROVE  g[p] = [ok |-> TRUE, out |-> <<lit[p]>> \o o]
<1>1. p \in 1 .. end + 1 /\ ~(p >= end)
  OBVIOUS
<1>2. g[p] = [g[p + 1] EXCEPT !.out = <<lit[p]>> \o @]
  BY <1>1, Zenon DEF FillFrom, FillStep
<1> DEFINE x == <<lit[p]>> \o o
<1>3. g[p] = [[ok |-> TRUE, out |-> o] EXCEPT !.out = x]
  <2>1. g[p + 1].out = o
    OBVIOUS
  <2> QED
    BY <1>2, <2>1, Zenon
<1> HIDE DEF x
<1>4. g[p] = [ok |-> TRUE, out |-> x]
  BY <1>3
<1> QED
  BY <1>4 DEF x

Gives(g, p, o) == g[p] = [ok |-> TRUE, out |-> o]
Takes(lit, p, end, used, b) == Escape(lit, p, end) = [used |-> used, bytes |-> <<b>>]

LEMMA FillEscape ==
    ASSUME NEW lit, lit \in Seq(Bytes), NEW end \in Nat, end <= Len(lit), NEW g, FillFrom(lit, end, g),
           NEW p \in 1 .. end - 1, lit[p] = Backslash, NEW used \in Nat \ {0}, NEW b,
           Takes(lit, p, end, used, b), NEW o \in Seq(Bytes), Gives(g, p + used, o)
    PROVE  Gives(g, p, <<b>> \o o)
<1> DEFINE e == Escape(lit, p, end)
<1>1. p \in 1 .. end + 1 /\ ~(p >= end)
  OBVIOUS
<1>2. e.used = used /\ e.bytes = <<b>> /\ e.used # 0
  BY DEF Takes
<1>3. g[p] = [g[p + e.used] EXCEPT !.out = e.bytes \o @]
  BY <1>1, <1>2, Zenon DEF FillFrom, FillStep
<1> DEFINE x == <<b>> \o o
<1>4. g[p] = [[ok |-> TRUE, out |-> o] EXCEPT !.out = x]
  <2>1. g[p + used].out = o /\ g[p + used] = [ok |-> TRUE, out |-> o]
    BY DEF Gives
  <2> HIDE DEF e
  <2> QED
    BY <1>2, <1>3, <2>1, Zenon
<1> HIDE DEF x
<1>5. g[p] = [ok |-> TRUE, out |-> x]
  BY <1>4
<1> QED
  BY <1>5 DEF x, Gives

LEMMA ShortEscape ==
    ASSUME NEW lit, NEW end, NEW p, NEW b \in ShortOnes, lit[p + 1] = Short[b]
    PROVE  Escape(lit, p, end) = [used |-> 2, bytes |-> <<b>>]
<1> DEFINE c == lit[p + 1]
<1>1. Quote = 34 /\ Backslash = 92
  BY DEF Quote, Backslash
<1>2. \/ b = 8 /\ c = 98
      \/ b = 12 /\ c = 102
      \/ b = 10 /\ c = 110
      \/ b = 13 /\ c = 114
      \/ b = 9 /\ c = 116
      \/ b = 34 /\ c = 34
      \/ b = 92 /\ c = 92
  BY <1>1, ShortIs DEF ShortOnes
<1> QED
  BY <1>1, <1>2 DEF Escape

(* The hexadecimal escape of a control character stands for it.            *)
LEMMA HexEscape ==
    ASSUME NEW lit, NEW end \in Nat, NEW p \in Nat, p + 6 <= end, NEW b \in NonNul, b < 32,
           lit[p + 1] = 117, lit[p + 2] = 48, lit[p + 3] = 48,
           lit[p + 4] = HexChar(b \div 16), lit[p + 5] = HexChar(b % 16)
    PROVE  Escape(lit, p, end) = [used |-> 6, bytes |-> <<b>>]
<1> DEFINE first == Hex4(lit, p + 2)
           d == [k \in 0 .. 3 |-> HexDigit(lit[(p + 2) + k])]
<1>1. PICK q \in 0 .. 15, r \in 0 .. 15 : b \div 16 = q /\ b % 16 = r /\ b = 16 * q + r
  BY ByteDigits
<1>2. HexDigit(48) = 0
  BY DEF HexDigit
<1>3. d[0] = 0 /\ d[1] = 0 /\ d[2] = q /\ d[3] = r
  <2>1. (p + 2) + 0 = p + 2 /\ (p + 2) + 1 = p + 3 /\ (p + 2) + 2 = p + 4 /\ (p + 2) + 3 = p + 5
    OBVIOUS
  <2>2. HexDigit(lit[p + 4]) = q /\ HexDigit(lit[p + 5]) = r
    BY <1>1, HexCharIs, Zenon
  <2>3. 0 \in 0 .. 3 /\ 1 \in 0 .. 3 /\ 2 \in 0 .. 3 /\ 3 \in 0 .. 3
    OBVIOUS
  <2>4. /\ d[0] = HexDigit(lit[(p + 2) + 0]) /\ d[1] = HexDigit(lit[(p + 2) + 1])
        /\ d[2] = HexDigit(lit[(p + 2) + 2]) /\ d[3] = HexDigit(lit[(p + 2) + 3])
    BY <2>3, Zenon
  <2> HIDE DEF d
  <2> QED
    BY <1>2, <2>1, <2>2, <2>4
<1>4. first = IF \E k \in 0 .. 3 : d[k] = -1 THEN 0 ELSE ((d[0] * 16 + d[1]) * 16 + d[2]) * 16 + d[3]
  BY Zenon DEF Hex4
<1> HIDE DEF d
<1>5. first = b
  <2>1. ~ \E k \in 0 .. 3 : d[k] = -1
    BY <1>3
  <2>2. first = ((d[0] * 16 + d[1]) * 16 + d[2]) * 16 + d[3]
    BY <1>4, <2>1, Zenon
  <2>3. ((0 * 16 + 0) * 16 + q) * 16 + r = b
    BY <1>1
  <2> HIDE DEF first
  <2> QED
    BY <1>3, <2>2, <2>3
<1>6. b \in Int /\ b >= 1 /\ b < 32
  BY DEF NonNul
<1>7. ~Low(b) /\ ~High(b)
  BY <1>6, SMT DEF Low, High
<1>8. Utf8(b) = <<b>>
  BY <1>6, SMT DEF Utf8
<1>9. ~(end - p < 6)
  OBVIOUS
<1>10. Utf16(lit, p, end) = [used |-> 6, bytes |-> Utf8(first)]
  BY <1>5, <1>7, <1>9, Zenon DEF Utf16
<1>11. Escape(lit, p, end) = Utf16(lit, p, end)
  BY DEF Escape, Quote, Backslash
<1> HIDE DEF first
<1> QED
  BY <1>5, <1>8, <1>10, <1>11

(* The second pass gives back every character that was written.            *)
LEMMA WrittenRead ==
    ASSUME NEW s, s \in Seq(NonNul), NEW u, NEW lit, Written(s, u, lit), NEW g, FillFrom(lit, Len(lit), g)
    PROVE  g[1] = [ok |-> TRUE, out |-> s]
<1> DEFINE n == Len(s)
           D == 0 .. n
           rank == [k \in D |-> n - k]
           is(k) == g[u[k] + 1] = [ok |-> TRUE, out |-> Rest(s, k)]
           T == {k \in D : is(k)}
           end == Len(lit)
<1>1. n \in Nat
  OBVIOUS
<1>2. /\ \A k \in D : u[k] \in Nat
      /\ u[0] = 0 /\ lit \in Seq(Bytes) /\ end = u[n] + 1 /\ lit[u[n] + 1] = Quote /\ end \in Nat
  <2>1. /\ \A k \in D : u[k] \in Nat
        /\ u[0] = 0 /\ lit \in Seq(Bytes) /\ end = u[n] + 1 /\ lit[u[n] + 1] = Quote
    BY DEF Written
  <2>2. end \in Nat
    BY <2>1
  <2> QED
    BY <2>1, <2>2
<1>3. rank \in [D -> 0 .. n]
  BY <1>1
<1>r. /\ Rest(s, 0) = s /\ Rest(s, n) = <<>>
      /\ \A k \in 1 .. n : Rest(s, k - 1) = <<s[k]>> \o Rest(s, k) /\ Rest(s, k) \in Seq(Bytes)
  <2>1. s \in Seq(Bytes)
    <3>1. \A k \in 1 .. Len(s) : s[k] \in NonNul
      BY ElementOfSeq
    <3>2. \A k \in 1 .. Len(s) : s[k] \in Bytes
      BY <3>1 DEF NonNul, Bytes
    <3> QED
      BY <3>2
  <2> QED
    BY <2>1, RestIs
<1>4. ASSUME NEW k \in D, \A q \in D : rank[q] < rank[k] => q \in T PROVE k \in T
  <2>1. CASE k = n
    <3> DEFINE q == u[n] + 1
    <3>1. q \in 1 .. end + 1 /\ q >= end
      BY <1>1, <1>2
    <3>2. g[q] = [ok |-> TRUE, out |-> <<>>]
      BY <3>1, Zenon DEF FillFrom, FillStep
    <3>3. is(n)
      BY <1>r, <3>2
    <3> QED
      BY <2>1, <3>3
  <2>2. CASE k # n
    <3>1. k + 1 \in D /\ rank[k + 1] < rank[k] /\ k + 1 \in 1 .. n /\ (k + 1) - 1 = k
      BY <1>1, <2>2
    <3>2. is(k + 1)
      <4>1. k + 1 \in T
        <5> HIDE DEF D, rank, T, is
        <5> QED
          BY <1>4, <3>1
      <4> QED
        BY <4>1
    <3>3. Step(s, u, lit, k + 1)
      BY <3>1, StepIs
    <3> DEFINE a == u[k]
               b == s[k + 1]
               o == Rest(s, k + 1)
    <3>4. /\ a \in Nat /\ b \in NonNul /\ u[n] + 1 = end
          /\ \/ /\ Plain(b) /\ u[k + 1] = a + 1 /\ a + 1 < end
                /\ lit[a + 1] = b
             \/ /\ b \in ShortOnes /\ u[k + 1] = a + 2 /\ a + 2 < end
                /\ lit[a + 1] = Backslash /\ lit[a + 2] = Short[b]
             \/ /\ Control(b) /\ u[k + 1] = a + 6 /\ a + 6 < end
                /\ lit[a + 1] = Backslash /\ lit[a + 2] = 117 /\ lit[a + 3] = 48 /\ lit[a + 4] = 48
                /\ lit[a + 5] = HexChar(b \div 16) /\ lit[a + 6] = HexChar(b % 16)
      <4>1. u[n] + 1 = end
        BY <1>2
      <4> HIDE DEF end
      <4> QED
        BY <3>1, <3>3, <4>1, Zenon DEF Step
    <3>5. Rest(s, k) = <<b>> \o o /\ o \in Seq(Bytes)
      <4>1. Rest(s, (k + 1) - 1) = <<s[k + 1]>> \o Rest(s, k + 1) /\ Rest(s, k + 1) \in Seq(Bytes)
        BY <1>r, <3>1
      <4> QED
        BY <3>1, <4>1
    <3>6. g[u[k + 1] + 1] = [ok |-> TRUE, out |-> o]
      BY <3>2
    <3>7. end \in Nat /\ lit \in Seq(Bytes) /\ end <= Len(lit) /\ FillFrom(lit, end, g)
      BY <1>2
    <3> HIDE DEF a, b, o, end, D, rank, T
    <3> SUFFICES g[a + 1] = [ok |-> TRUE, out |-> <<b>> \o o]
      BY <3>5 DEF T, a
    <3>8. CASE Plain(b) /\ u[k + 1] = a + 1 /\ a + 1 < end /\ lit[a + 1] = b
      <4>1. a + 1 \in 1 .. end - 1
        BY <3>4, <3>7, <3>8
      <4>2. lit[a + 1] # Backslash
        BY <3>8 DEF Plain, ShortOnes
      <4>3. g[(a + 1) + 1] = [ok |-> TRUE, out |-> o]
        BY <3>6, <3>8
      <4>4. g[a + 1] = [ok |-> TRUE, out |-> <<lit[a + 1]>> \o o]
        BY <3>5, <3>7, <4>1, <4>2, <4>3, FillPlain
      <4> QED
        BY <3>8, <4>4
    <3>9. CASE /\ b \in ShortOnes /\ u[k + 1] = a + 2 /\ a + 2 < end
               /\ lit[a + 1] = Backslash /\ lit[a + 2] = Short[b]
      <4>1. a + 1 \in 1 .. end - 1 /\ (a + 1) + 1 = a + 2 /\ (a + 1) + 2 = (a + 2) + 1 /\ 2 \in Nat \ {0}
        BY <3>4, <3>7, <3>9
      <4>2. Escape(lit, a + 1, end) = [used |-> 2, bytes |-> <<b>>]
        BY <3>9, <4>1, ShortEscape
      <4>3. g[(a + 1) + 2] = [ok |-> TRUE, out |-> o]
        BY <3>6, <3>9, <4>1
      <4> QED
        <5>1. lit[a + 1] = Backslash
          BY <3>9
        <5>2. a + 1 \in 1 .. end - 1 /\ 2 \in Nat \ {0} /\ o \in Seq(Bytes)
          BY <3>5, <4>1
        <5>3. Takes(lit, a + 1, end, 2, b) /\ Gives(g, (a + 1) + 2, o)
          BY <4>2, <4>3 DEF Takes, Gives
        <5>4. Gives(g, a + 1, <<b>> \o o)
          BY <3>7, <5>1, <5>2, <5>3, FillEscape
        <5> QED
          BY <5>4 DEF Gives
    <3>10. CASE /\ Control(b) /\ u[k + 1] = a + 6 /\ a + 6 < end
                /\ lit[a + 1] = Backslash /\ lit[a + 2] = 117 /\ lit[a + 3] = 48 /\ lit[a + 4] = 48
                /\ lit[a + 5] = HexChar(b \div 16) /\ lit[a + 6] = HexChar(b % 16)
      <4>1. /\ a + 1 \in 1 .. end - 1 /\ a + 1 \in Nat /\ (a + 1) + 6 <= end
            /\ (a + 1) + 1 = a + 2 /\ (a + 1) + 2 = a + 3 /\ (a + 1) + 3 = a + 4 /\ (a + 1) + 4 = a + 5
            /\ (a + 1) + 5 = a + 6 /\ (a + 1) + 6 = (a + 6) + 1 /\ 6 \in Nat \ {0}
        BY <3>4, <3>7, <3>10
      <4>2. b < 32
        BY <3>10 DEF Control
      <4>3. Escape(lit, a + 1, end) = [used |-> 6, bytes |-> <<b>>]
        BY <3>4, <3>7, <3>10, <4>1, <4>2, HexEscape, SMTT(30)
      <4>4. g[(a + 1) + 6] = [ok |-> TRUE, out |-> o]
        BY <3>6, <3>10, <4>1
      <4> QED
        <5>1. lit[a + 1] = Backslash
          BY <3>10
        <5>2. a + 1 \in 1 .. end - 1 /\ 6 \in Nat \ {0} /\ o \in Seq(Bytes)
          BY <3>5, <4>1
        <5>3. Takes(lit, a + 1, end, 6, b) /\ Gives(g, (a + 1) + 6, o)
          BY <4>3, <4>4 DEF Takes, Gives
        <5>4. Gives(g, a + 1, <<b>> \o o)
          BY <3>7, <5>1, <5>2, <5>3, FillEscape
        <5> QED
          BY <5>4 DEF Gives
    <3> QED
      BY <3>4, <3>8, <3>9, <3>10
  <2> QED
    BY <2>1, <2>2
<1>5. \A k \in D : k \in T
  <2> HIDE DEF D, rank, T, n
  <2> QED
    BY <1>1, <1>3, <1>4, RankInduction
<1>6. is(0)
  <2>1. 0 \in D
    BY <1>1
  <2>2. 0 \in T
    BY <1>5, <2>1
  <2> QED
    BY <2>2
<1>7. u[0] + 1 = 1
  BY <1>2
<1> QED
  BY <1>6, <1>7, <1>r

(* Every string of bytes that are not 0 is read back as it was printed.    *)
THEOREM PrintedReadsBack ==
    \A s \in Seq(NonNul) : ParseString(Tail(PrintString(s))) = [ok |-> TRUE, out |-> s]
<1> SUFFICES ASSUME NEW s, s \in Seq(NonNul) PROVE ParseString(Tail(PrintString(s))) = [ok |-> TRUE, out |-> s]
  OBVIOUS
<1> DEFINE lit == Tail(PrintString(s))
<1>1. PICK u : Written(s, u, lit)
  BY PrintedIs
<1> HIDE DEF lit
<1>2. lit \in Seq(Bytes) /\ Len(lit) = u[Len(s)] + 1 /\ u[Len(s)] \in Nat
  <2>1. Len(s) \in 0 .. Len(s)
    OBVIOUS
  <2> QED
    BY <1>1, <2>1 DEF Written
<1>3. PICK f : ScanFrom(lit, f) /\ Scan(lit) = f[1]
  BY <1>2, ScanIs
<1>4. Scan(lit).end = Len(lit)
  BY <1>1, <1>3, WrittenScanned
<1>5. Scan(lit).end # 0
  BY <1>2, <1>4
<1>6. PICK g : FillFrom(lit, Scan(lit).end, g) /\ Fill(lit) = g[1]
  BY <1>2, <1>5, FillIs
<1>7. Fill(lit) = [ok |-> TRUE, out |-> s]
  BY <1>1, <1>4, <1>6, WrittenRead
<1>8. ParseString(lit) = Fill(lit)
  BY <1>5 DEF ParseString
<1> QED
  BY <1>7, <1>8 DEF lit

LEMMA CStringIs == ASSUME NEW s, s \in Seq(Bytes) PROVE CString(s) \in Seq(NonNul)
<1> DEFINE I == {i \in 1 .. Len(s) : s[i] = NUL}
           m == CHOOSE x \in I : \A y \in I : x <= y
           nul == SelectInSeq(s, LAMBDA b : b = NUL)
<1>1. nul = IF I # {} THEN m ELSE 0
  BY Zenon DEF SelectInSeq, Min
<1>2. CString(s) = IF nul = 0 THEN s ELSE SubSeq(s, 1, nul - 1)
  BY DEF CString
<1>n. \A b \in Bytes : b # NUL => b \in NonNul
  BY DEF Bytes, NUL, NonNul
<1>3. CASE I = {}
  <2>1. \A i \in 1 .. Len(s) : s[i] \in Bytes /\ s[i] # NUL
    BY <1>3, ElementOfSeq
  <2>2. s \in Seq(NonNul)
    <3>1. \A i \in 1 .. Len(s) : s[i] \in NonNul
      BY <1>n, <2>1
    <3> QED
      BY <3>1
  <2>3. nul = 0
    BY <1>1, <1>3
  <2> QED
    BY <1>2, <2>2, <2>3
<1>4. CASE I # {}
  <2>1. m \in I /\ \A y \in I : m <= y
    <3>1. I \subseteq Nat
      OBVIOUS
    <3> HIDE DEF I
    <3>2. \E x \in I : \A y \in I : x <= y
      BY <1>4, <3>1, LeastNat
    <3> QED
      BY <3>2, Zenon
  <2> HIDE DEF m
  <2>2. m \in 1 .. Len(s) /\ \A i \in 1 .. Len(s) : s[i] = NUL => m <= i
    BY <2>1
  <2> HIDE DEF I
  <2>3. nul = m /\ nul # 0 /\ m - 1 \in Nat /\ m - 1 <= Len(s) /\ m \in Nat
    BY <1>1, <1>4, <2>2
  <2>4. /\ SubSeq(s, 1, m - 1) \in Seq(Bytes) /\ Len(SubSeq(s, 1, m - 1)) = m - 1
        /\ \A i \in 1 .. m - 1 : SubSeq(s, 1, m - 1)[i] = s[i]
    BY <2>3, PrefixOf
  <2>5. \A i \in 1 .. m - 1 : s[i] \in NonNul
    <3> SUFFICES ASSUME NEW i \in 1 .. m - 1 PROVE s[i] \in NonNul
      OBVIOUS
    <3>1. i \in 1 .. Len(s) /\ ~(m <= i)
      BY <2>3
    <3>2. s[i] \in Bytes /\ s[i] # NUL
      BY <2>2, <3>1, ElementOfSeq
    <3> QED
      BY <1>n, <3>2
  <2> DEFINE t == SubSeq(s, 1, m - 1)
  <2>6. t \in Seq(Bytes) /\ \A i \in 1 .. Len(t) : t[i] \in NonNul
    BY <2>4, <2>5
  <2> HIDE DEF t
  <2>7. t \in Seq(NonNul)
    BY <2>6
  <2>8. CString(s) = t
    BY <1>2, <2>3 DEF t
  <2> QED
    BY <2>7, <2>8
<1> QED
  BY <1>3, <1>4

LEMMA LiteralIs == pieces \in Seq(Piece) => Append(Literal, Quote) \in Seq(Bytes)
<1> SUFFICES ASSUME pieces \in Seq(Piece) PROVE Append(Literal, Quote) \in Seq(Bytes)
  OBVIOUS
<1> DEFINE ss == [n \in 1 .. Len(pieces) |-> pieces[n].bytes]
<1>1. \A n \in 1 .. Len(pieces) : pieces[n].bytes \in Seq(Bytes)
  BY ElementOfSeq, StringAssumption
<1>2. ss \in Seq(Seq(Bytes)) /\ Len(ss) = Len(pieces)
  BY <1>1
<1>3. Literal = FlattenSeq(ss)
  BY DEF Literal
<1> HIDE DEF ss
<1>4. Literal \in Seq(Bytes)
  <2>1. CASE Len(ss) = 0
    <3>1. ss = <<>>
      BY <1>2, <2>1, EmptySeq
    <3>2. FlattenSeq(ss) = <<>>
      BY <2>1, <3>1, Zenon DEF FlattenSeq
    <3>3. <<>> \in Seq(Bytes)
      OBVIOUS
    <3> QED
      BY <1>3, <3>2, <3>3
  <2>2. CASE Len(ss) # 0
    <3>1. PICK f \in [1 .. Len(ss) -> Seq(Bytes)] : FlattenSeq(ss) = f[Len(ss)]
      BY <1>2, <2>2, FlattenIs
    <3>2. Len(ss) \in 1 .. Len(ss)
      BY <1>2, <2>2
    <3> QED
      BY <1>3, <3>1, <3>2
  <2> QED
    BY <2>1, <2>2
<1>5. Quote \in Bytes
  BY DEF Quote, Bytes
<1> QED
  BY <1>4, <1>5

(* A string that is read and printed is read back as the same string.      *)
THEOREM StringsReadBack == StringSpec => []StringRoundTrip
<1> DEFINE Inv == pieces \in Seq(Piece)
<1>1. StringInit => Inv
  BY DEF StringInit
<1>2. Inv /\ [StringNext]_pieces => Inv'
  <2> SUFFICES ASSUME Inv, [StringNext]_pieces PROVE Inv'
    OBVIOUS
  <2>1. CASE UNCHANGED pieces
    BY <2>1
  <2>2. CASE StringNext
    <3>1. PICK p \in Piece : AddPiece(p)
      BY <2>2 DEF StringNext
    <3>2. pieces' = Append(pieces, p)
      BY <3>1 DEF AddPiece
    <3> QED
      BY <3>2
  <2> QED
    BY <2>1, <2>2
<1>3. Inv => StringRoundTrip
  <2> SUFFICES ASSUME Inv PROVE StringRoundTrip
    OBVIOUS
  <2> DEFINE lit == Append(Literal, Quote)
             read == ParseString(lit)
             s == CString(read.out)
  <2>1. lit \in Seq(Bytes)
    BY LiteralIs
  <2> HIDE DEF lit
  <2>2. ASSUME read.ok PROVE ParseString(Tail(PrintString(s))) = [ok |-> TRUE, out |-> s]
    <3>1. Scan(lit).end # 0 /\ read = Fill(lit)
      <4>1. Scan(lit).end = 0 => read = [ok |-> FALSE, out |-> <<>>]
        BY DEF ParseString
      <4>2. [ok |-> FALSE, out |-> <<>>].ok = FALSE
        OBVIOUS
      <4>3. Scan(lit).end # 0
        BY <2>2, <4>1, <4>2
      <4> QED
        BY <4>3 DEF ParseString
    <3>2. PICK g : FillFrom(lit, Scan(lit).end, g) /\ Fill(lit) = g[1]
      BY <2>1, <3>1, FillIs
    <3>3. read.out \in Seq(Bytes)
      <4>1. 1 \in 1 .. Scan(lit).end + 1
        <5>1. PICK f : ScanFrom(lit, f) /\ Scan(lit) = f[1]
          BY <2>1, ScanIs
        <5>2. 1 \in 1 .. Len(lit) + 2 /\ Len(lit) \in Nat
          BY <2>1
        <5>3. f[1].end \in 1 .. Len(lit)
          BY <2>1, <3>1, <5>1, <5>2, ScanEnd
        <5> QED
          BY <5>1, <5>2, <5>3
      <4>2. g[1] \in Read
        BY <3>2, <4>1 DEF FillFrom
      <4> QED
        BY <3>1, <3>2, <4>2 DEF Read
    <3>4. s \in Seq(NonNul)
      BY <3>3, CStringIs
    <3> QED
      BY <3>4, PrintedReadsBack
  <2> QED
    BY <2>2 DEF StringRoundTrip, lit
<1> QED
  BY <1>1, <1>2, <1>3, PTL DEF StringSpec
=============================================================================
