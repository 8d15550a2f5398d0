----------------------------- MODULE CJsonProofs -----------------------------
(***************************************************************************)
(* The heap of cJSON's items, for any number of them: what its lists and   *)
(* its trees are while the links are in order, and what each operation     *)
(* does to them.  At the end, what the proofs about bytes share: parts of  *)
(* sequences, functions defined by recursion and concatenations.           *)
(***************************************************************************)
EXTENDS CJson, SequenceTheorems, FiniteSetTheorems, FunctionTheorems, WellFoundedInduction, TLAPS

(* The least-number principle, in the form the provers can use.            *)
LEMMA LeastNat == ASSUME NEW T, T \subseteq Nat, T # {} PROVE \E n \in T : \A m \in T : n <= m
<1>1. IsWellFoundedOn(OpToRel(<, Nat), Nat)
  BY NatLessThanWellFounded
<1>2. \E n \in T : \A m \in T : ~(<<m, n>> \in OpToRel(<, Nat))
  BY <1>1, WFMin
<1>3. \A m, n \in T : m < n => <<m, n>> \in OpToRel(<, Nat)
  BY DEF OpToRel
<1>4. \E n \in T : \A m \in T : ~(m < n)
  BY <1>2, <1>3
<1> QED
  BY <1>4

(* The greatest of a set of numbers up to a bound.                         *)
LEMMA GreatestNat == ASSUME NEW b \in Nat, NEW T, T \subseteq 0 .. b, T # {}
                     PROVE  \E n \in T : \A m \in T : m <= n
<1> DEFINE U == {b - n : n \in T}
<1>1. U \subseteq Nat /\ U # {}
  <2>1. \A n \in T : b - n \in Nat
    OBVIOUS
  <2> QED
    BY <2>1
<1>2. PICK u \in U : \A v \in U : u <= v
  BY <1>1, LeastNat
<1>3. PICK n \in T : u = b - n
  BY <1>2
<1>4. \A m \in T : b - n <= b - m
  BY <1>2, <1>3
<1> QED
  BY <1>3, <1>4

-----------------------------------------------------------------------------
(* Sequences of children: inserting, removing and exchanging an element.   *)

Longer(t, s, n, x) ==
    /\ Len(t) = Len(s) + 1
    /\ \A m \in 1 .. Len(s) + 1 : t[m] = IF m < n THEN s[m] ELSE IF m = n THEN x ELSE s[m - 1]
Shorter(t, s, n) ==
    /\ Len(t) = Len(s) - 1
    /\ \A m \in 1 .. Len(s) - 1 : t[m] = IF m < n THEN s[m] ELSE s[m + 1]

LEMMA Inserted ==
    ASSUME NEW S, NEW s \in Seq(S), NEW n \in 1 .. Len(s) + 1, NEW x \in S
    PROVE  InsertAt(s, n, x) \in Seq(S) /\ Longer(InsertAt(s, n, x), s, n, x)
<1> DEFINE a == SubSeq(s, 1, n - 1)
           b == <<x>>
           c == SubSeq(s, n, Len(s))
<1>0. Len(s) \in Nat /\ \A i \in 1 .. Len(s) : s[i] \in S
  BY LenProperties, ElementOfSeq
<1>1. a \in Seq(S) /\ Len(a) = n - 1 /\ \A i \in 1 .. n - 1 : a[i] = s[i]
  <2>1. SubSeq(s, 1, n - 1) \in Seq(S)
    BY <1>0, SubSeqProperties
  <2> QED
    BY <1>0, <2>1, SubSeqProperties
<1>2. c \in Seq(S) /\ Len(c) = Len(s) - n + 1 /\ \A i \in 1 .. Len(s) - n + 1 : c[i] = s[n + i - 1]
  <2>1. CASE n <= Len(s)
    BY <1>0, <2>1, SubSeqProperties
  <2>2. CASE n = Len(s) + 1
    BY <1>0, <2>2, SubSeqProperties
  <2> QED
    BY <1>0, <2>1, <2>2
<1>3. b \in Seq(S) /\ Len(b) = 1 /\ b[1] = x
  OBVIOUS
<1> HIDE DEF a, b, c
<1>4. /\ a \o b \in Seq(S) /\ Len(a \o b) = Len(a) + Len(b)
      /\ \A i \in 1 .. Len(a) + Len(b) :
            (a \o b)[i] = IF i <= Len(a) THEN a[i] ELSE b[i - Len(a)]
  BY <1>1, <1>3, ConcatProperties
<1>a. Len(a \o b) = n /\ \A i \in 1 .. n : (a \o b)[i] = IF i < n THEN s[i] ELSE x
  BY <1>0, <1>1, <1>3, <1>4
<1>b. a \o b \in Seq(S)
  BY <1>4
<1>5. /\ (a \o b) \o c \in Seq(S) /\ Len((a \o b) \o c) = Len(a \o b) + Len(c)
      /\ \A m \in 1 .. Len(a \o b) + Len(c) :
            ((a \o b) \o c)[m] = IF m <= Len(a \o b) THEN (a \o b)[m] ELSE c[m - Len(a \o b)]
  BY <1>2, <1>b, ConcatProperties, SMTT(30)
<1>6. InsertAt(s, n, x) = (a \o b) \o c
  BY DEF InsertAt, a, b, c
<1>7. Len(InsertAt(s, n, x)) = Len(s) + 1 /\ InsertAt(s, n, x) \in Seq(S)
  BY <1>0, <1>2, <1>a, <1>5, <1>6
<1>8. ASSUME NEW m \in 1 .. Len(s) + 1
      PROVE  InsertAt(s, n, x)[m] = IF m < n THEN s[m] ELSE IF m = n THEN x ELSE s[m - 1]
  <2>1. InsertAt(s, n, x)[m] = IF m <= n THEN (a \o b)[m] ELSE c[m - n]
    BY <1>0, <1>2, <1>a, <1>5, <1>6
  <2>2. CASE m <= n
    BY <1>a, <2>1, <2>2
  <2>3. CASE m > n
    <3>1. m - n \in 1 .. Len(s) - n + 1 /\ n + (m - n) - 1 = m - 1
      BY <1>0, <2>3
    <3>2. c[m - n] = s[n + (m - n) - 1]
      BY <1>2, <3>1
    <3> QED
      BY <2>1, <2>3, <3>1, <3>2
  <2> QED
    BY <1>0, <2>2, <2>3
<1> QED
  BY <1>7, <1>8 DEF Longer

LEMMA Removed ==
    ASSUME NEW S, NEW s \in Seq(S), NEW n \in 1 .. Len(s)
    PROVE  RemoveAt(s, n) \in Seq(S) /\ Shorter(RemoveAt(s, n), s, n)
<1> DEFINE a == SubSeq(s, 1, n - 1)
           c == SubSeq(s, n + 1, Len(s))
<1>0. Len(s) \in Nat /\ \A i \in 1 .. Len(s) : s[i] \in S
  BY LenProperties, ElementOfSeq
<1>1. a \in Seq(S) /\ Len(a) = n - 1 /\ \A i \in 1 .. n - 1 : a[i] = s[i]
  BY <1>0, SubSeqProperties
<1>2. c \in Seq(S) /\ Len(c) = Len(s) - n /\ \A i \in 1 .. Len(s) - n : c[i] = s[n + i]
  <2>1. CASE n < Len(s)
    BY <1>0, <2>1, SubSeqProperties
  <2>2. CASE n = Len(s)
    BY <1>0, <2>2, SubSeqProperties
  <2> QED
    BY <1>0, <2>1, <2>2
<1> HIDE DEF a, c
<1>3. /\ a \o c \in Seq(S) /\ Len(a \o c) = Len(a) + Len(c)
      /\ \A m \in 1 .. Len(a) + Len(c) :
            (a \o c)[m] = IF m <= Len(a) THEN a[m] ELSE c[m - Len(a)]
  BY <1>1, <1>2, ConcatProperties
<1>4. RemoveAt(s, n) = a \o c
  BY DEF RemoveAt, a, c
<1>5. RemoveAt(s, n) \in Seq(S) /\ Len(RemoveAt(s, n)) = Len(s) - 1
  BY <1>0, <1>1, <1>2, <1>3, <1>4
<1>6. ASSUME NEW m \in 1 .. Len(s) - 1
      PROVE  RemoveAt(s, n)[m] = IF m < n THEN s[m] ELSE s[m + 1]
  <2>1. RemoveAt(s, n)[m] = IF m <= n - 1 THEN a[m] ELSE c[m - (n - 1)]
    BY <1>0, <1>1, <1>2, <1>3, <1>4, SMTT(30)
  <2>2. CASE m <= n - 1
    BY <1>0, <1>1, <2>1, <2>2
  <2>3. CASE m > n - 1
    <3>1. m - (n - 1) \in 1 .. Len(s) - n /\ n + (m - (n - 1)) = m + 1
      BY <1>0, <2>3
    <3>2. c[m - (n - 1)] = s[n + (m - (n - 1))]
      BY <1>2, <3>1
    <3> QED
      BY <1>0, <2>1, <2>3, <3>1, <3>2
  <2> QED
    BY <1>0, <2>2, <2>3
<1> QED
  BY <1>5, <1>6 DEF Shorter

-----------------------------------------------------------------------------
(* A function of sets is read as a graph: G[j] is where j leads.  What i   *)
(* leads to is the least set that holds i and leads nowhere else.          *)

Graph(G) == G \in [DOMAIN G -> SUBSET DOMAIN G]

Shut(G, C) == \A j \in C : G[j] \subseteq C

Under(G, i) == {j \in DOMAIN G : \A C \in SUBSET DOMAIN G : i \in C /\ Shut(G, C) => j \in C}

(* Every set has a member that leads to none of it, and one that none of   *)
(* it leads to.                                                            *)
Founded(G) == \A C \in SUBSET DOMAIN G : C # {} => \E x \in C : G[x] \cap C = {}
Rooted(G) == \A C \in SUBSET DOMAIN G : C # {} => \E x \in C : \A y \in C : x \notin G[y]

OneParent(G) == \A p, q \in DOMAIN G : G[p] \cap G[q] # {} => p = q

LEMMA UnderSet == ASSUME NEW G, Graph(G), NEW i \in DOMAIN G
                  PROVE  /\ Under(G, i) \in SUBSET DOMAIN G
                         /\ i \in Under(G, i) /\ Shut(G, Under(G, i))
  BY DEF Under, Shut, Graph

LEMMA UnderLeast == ASSUME NEW G, NEW i, NEW C \in SUBSET DOMAIN G, i \in C, Shut(G, C)
                    PROVE  Under(G, i) \subseteq C
  BY DEF Under

LEMMA UnderMore == ASSUME NEW G, Graph(G), NEW i \in DOMAIN G, NEW j \in Under(G, i)
                   PROVE  Under(G, j) \subseteq Under(G, i)
  BY UnderSet, UnderLeast

(* i, and what its successors lead to.                                     *)
LEMMA UnderStep == ASSUME NEW G, Graph(G), NEW i \in DOMAIN G
                   PROVE  Under(G, i) = {i} \cup UNION {Under(G, j) : j \in G[i]}
<1> DEFINE C == {i} \cup UNION {Under(G, j) : j \in G[i]}
<1>1. G[i] \subseteq DOMAIN G
  BY DEF Graph
<1>2. \A j \in G[i] : Under(G, j) \subseteq DOMAIN G /\ j \in Under(G, j) /\ Shut(G, Under(G, j))
  BY <1>1, UnderSet
<1>3. Shut(G, C)
  BY <1>2 DEF Shut
<1>4. C \in SUBSET DOMAIN G
  BY <1>2
<1>5. Under(G, i) \subseteq C
  BY <1>3, <1>4, UnderLeast
<1>6. i \in Under(G, i) /\ G[i] \subseteq Under(G, i)
  BY UnderSet DEF Shut
<1>7. \A j \in G[i] : Under(G, j) \subseteq Under(G, i)
  BY <1>6, UnderMore
<1> QED
  BY <1>5, <1>6, <1>7

(* What i leads to, other than i, is led to by some of it.                 *)
LEMMA UnderParent == ASSUME NEW G, Graph(G), NEW i \in DOMAIN G, NEW x \in Under(G, i), x # i
                     PROVE  \E p \in Under(G, i) : x \in G[p]
<1> SUFFICES ASSUME \A p \in Under(G, i) : x \notin G[p]
             PROVE  FALSE
  OBVIOUS
<1>1. Shut(G, Under(G, i) \ {x})
  BY UnderSet DEF Shut
<1> QED
  BY <1>1, UnderSet, UnderLeast

(* Graphs that agree on what i leads to in one of them.                    *)
LEMMA UnderSame ==
    ASSUME NEW G, NEW H, Graph(G), Graph(H), NEW i \in DOMAIN G, i \in DOMAIN H,
           Under(G, i) \subseteq DOMAIN H, \A j \in Under(G, i) : H[j] = G[j]
    PROVE  Under(H, i) = Under(G, i)
<1>1. Under(H, i) \subseteq Under(G, i)
  <2>1. Shut(H, Under(G, i))
    BY UnderSet DEF Shut
  <2> QED
    BY <2>1, UnderSet, UnderLeast
<1>2. Shut(G, Under(H, i))
  BY <1>1, UnderSet DEF Shut
<1> QED
  BY <1>1, <1>2, UnderSet, UnderLeast

(* Nothing i leads to leads back to i.                                     *)
LEMMA NoReturn == ASSUME NEW G, Graph(G), Rooted(G), NEW i \in DOMAIN G, NEW x \in Under(G, i)
                  PROVE  i \notin G[x]
<1> SUFFICES ASSUME i \in G[x] PROVE FALSE
  OBVIOUS
<1>1. PICK y \in Under(G, i) : \A z \in Under(G, i) : y \notin G[z]
  BY UnderSet DEF Rooted
<1> QED
  BY <1>1, UnderParent

-----------------------------------------------------------------------------
(* Items and their fields.                                                 *)

Link == Item \cup {Nil}

Heap(h) ==
    /\ DOMAIN h \in SUBSET Item
    /\ h = [i \in DOMAIN h |-> [type |-> h[i].type, name |-> h[i].name, str |-> h[i].str,
                                next |-> h[i].next, prev |-> h[i].prev, child |-> h[i].child]]
    /\ \A i \in DOMAIN h : {h[i].next, h[i].prev, h[i].child} \subseteq DOMAIN h \cup {Nil}

(* A heap with the same items as another.                                  *)
Alike(g, h) == Heap(g) /\ DOMAIN g = DOMAIN h
SameNext(g, h, T) == \A j \in T : g[j].next = h[j].next
SamePrev(g, h, T) == \A j \in T : g[j].prev = h[j].prev
SameChild(g, h, T) == \A j \in T : g[j].child = h[j].child

NextSet(g, h, a, v) ==
    /\ Alike(g, h) /\ g[a].next = v /\ SameNext(g, h, DOMAIN h \ {a})
    /\ SamePrev(g, h, DOMAIN h) /\ SameChild(g, h, DOMAIN h)
PrevSet(g, h, a, v) ==
    /\ Alike(g, h) /\ g[a].prev = v /\ SamePrev(g, h, DOMAIN h \ {a})
    /\ SameNext(g, h, DOMAIN h) /\ SameChild(g, h, DOMAIN h)
ChildSet(g, h, a, v) ==
    /\ Alike(g, h) /\ g[a].child = v /\ SameChild(g, h, DOMAIN h \ {a})
    /\ SameNext(g, h, DOMAIN h) /\ SamePrev(g, h, DOMAIN h)

LEMMA SetNext == ASSUME NEW h, Heap(h), NEW a \in DOMAIN h, NEW v \in DOMAIN h \cup {Nil}
                 PROVE  NextSet([h EXCEPT ![a].next = v], h, a, v)
  BY DEF Heap, Alike, SameNext, SamePrev, SameChild, NextSet

LEMMA SetPrev == ASSUME NEW h, Heap(h), NEW a \in DOMAIN h, NEW v \in DOMAIN h \cup {Nil}
                 PROVE  PrevSet([h EXCEPT ![a].prev = v], h, a, v)
  BY DEF Heap, Alike, SameNext, SamePrev, SameChild, PrevSet

LEMMA SetChild == ASSUME NEW h, Heap(h), NEW a \in DOMAIN h, NEW v \in DOMAIN h \cup {Nil}
                  PROVE  ChildSet([h EXCEPT ![a].child = v], h, a, v)
  BY DEF Heap, Alike, SameNext, SamePrev, SameChild, ChildSet

(* The recursive functions of Freed and List are the only ones that obey   *)
(* their equations when the links come to an end.                          *)
Links(h) == [j \in DOMAIN h |-> {h[j].child, h[j].next} \ {Nil}]

LEMMA LinksGraph == ASSUME NEW h, Heap(h)
                    PROVE  DOMAIN Links(h) = DOMAIN h /\ Graph(Links(h))
  BY DEF Links, Graph, Heap

FreeFrom(h) == CHOOSE f : f = [j \in Item \cup {Nil} |->
                  IF j \in DOMAIN h THEN f[h[j].child] \cup {j} \cup f[h[j].next] ELSE {}]

LEMMA FreedFrom == ASSUME NEW h, NEW i PROVE Freed(h, i) = FreeFrom(h)[i]
  BY DEF Freed, FreeFrom

LEMMA FreedUnder ==
    ASSUME NEW h, Heap(h), Founded(Links(h)), NEW i \in DOMAIN h \cup {Nil}
    PROVE  Freed(h, i) = IF i = Nil THEN {} ELSE Under(Links(h), i)
<1> DEFINE G == Links(h)
           g == [j \in Link |-> IF j \in DOMAIN h THEN Under(G, j) ELSE {}]
           Eq(f) == f = [j \in Link |->
                      IF j \in DOMAIN h THEN f[h[j].child] \cup {j} \cup f[h[j].next] ELSE {}]
<1>1. DOMAIN G = DOMAIN h /\ Graph(G)
  BY LinksGraph
<1>2. DOMAIN h \subseteq Link \ {Nil}
  BY DEF Heap, Link, Nil, Item
<1>3. \A j \in DOMAIN h : h[j].child \in DOMAIN h \cup {Nil} /\ h[j].next \in DOMAIN h \cup {Nil}
  BY DEF Heap
<1>4. ASSUME NEW j \in DOMAIN h
      PROVE  g[j] = g[h[j].child] \cup {j} \cup g[h[j].next]
  <2>1. Under(G, j) = {j} \cup UNION {Under(G, k) : k \in G[j]}
    BY <1>1, UnderStep
  <2>2. G[j] = {h[j].child, h[j].next} \ {Nil}
    BY DEF Links
  <2>3. \A k \in DOMAIN h \cup {Nil} : g[k] = IF k = Nil THEN {} ELSE Under(G, k)
    BY <1>2 DEF Link
  <2> HIDE DEF g, G
  <2> QED
    BY <1>2, <1>3, <2>1, <2>2, <2>3
<1>5. Eq(g)
  BY <1>4
<1>6. Eq(FreeFrom(h))
  BY <1>5 DEF FreeFrom, Link
<1>7. \A j \in DOMAIN h : FreeFrom(h)[j] = g[j]
  <2> DEFINE C == {j \in DOMAIN h : FreeFrom(h)[j] # g[j]}
  <2> SUFFICES ASSUME C # {} PROVE FALSE
    OBVIOUS
  <2>1. PICK x \in C : G[x] \cap C = {}
    BY <1>1 DEF Founded
  <2>2. FreeFrom(h)[Nil] = {} /\ g[Nil] = {}
    BY <1>2, <1>5, <1>6 DEF Link
  <2>3. \A k \in {h[x].child, h[x].next} : FreeFrom(h)[k] = g[k]
    BY <1>3, <2>1, <2>2 DEF Links
  <2>4. FreeFrom(h)[x] = FreeFrom(h)[h[x].child] \cup {x} \cup FreeFrom(h)[h[x].next]
    BY <1>2, <1>6
  <2> QED
    BY <1>4, <2>1, <2>3, <2>4
<1> QED
  BY <1>2, <1>5, <1>6, <1>7, FreedFrom DEF Link

-----------------------------------------------------------------------------
(* The links in order: K is the sequence of children of each item.  No     *)
(* item is in two places; the fields say the same as the sequences, and an *)
(* item in none of them has neither next nor prev.                         *)

Kin(K) == [p \in DOMAIN K |-> ToSet(K[p])]

Apart(K) == \A p, q \in DOMAIN K : \A m \in 1 .. Len(K[p]), n \in 1 .. Len(K[q]) :
                K[p][m] = K[q][n] => p = q /\ m = n

Placed(K, i) == \E p \in DOMAIN K : \E n \in 1 .. Len(K[p]) : K[p][n] = i

FirstOf(s) == IF Len(s) = 0 THEN Nil ELSE s[1]
NextOf(s, n) == IF n = Len(s) THEN Nil ELSE s[n + 1]
PrevOf(s, n) == IF n = 1 THEN s[Len(s)] ELSE s[n - 1]

Linked(h, K) ==
    /\ \A p \in DOMAIN K : /\ h[p].child = FirstOf(K[p])
                           /\ \A n \in 1 .. Len(K[p]) : /\ h[K[p][n]].next = NextOf(K[p], n)
                                                        /\ h[K[p][n]].prev = PrevOf(K[p], n)
    /\ \A i \in DOMAIN K : ~Placed(K, i) => h[i].next = Nil /\ h[i].prev = Nil

Rep(h, K) == /\ Heap(h) /\ DOMAIN K = DOMAIN h /\ K \in [DOMAIN K -> Seq(DOMAIN K)]
             /\ Apart(K) /\ Linked(h, K)

LEMMA RepPlace == ASSUME NEW h, NEW K, Rep(h, K), NEW p \in DOMAIN K
                  PROVE  /\ K[p] \in Seq(DOMAIN K) /\ Len(K[p]) \in Nat /\ DOMAIN K[p] = 1 .. Len(K[p])
                         /\ \A n \in 1 .. Len(K[p]) : K[p][n] \in DOMAIN K
                         /\ ToSet(K[p]) = {K[p][n] : n \in 1 .. Len(K[p])}
<1>1. K[p] \in Seq(DOMAIN K)
  BY DEF Rep
<1> QED
  BY <1>1, LenProperties, ElementOfSeq DEF ToSet

LEMMA KinGraph == ASSUME NEW h, NEW K, Rep(h, K)
                  PROVE  /\ DOMAIN Kin(K) = DOMAIN K /\ Graph(Kin(K)) /\ OneParent(Kin(K))
                         /\ \A p \in DOMAIN K : Kin(K)[p] = {K[p][n] : n \in 1 .. Len(K[p])}
                         /\ \A i : Placed(K, i) <=> \E p \in DOMAIN K : i \in Kin(K)[p]
<1>1. \A p \in DOMAIN K : Kin(K)[p] = {K[p][n] : n \in 1 .. Len(K[p])}
  BY RepPlace DEF Kin
<1>2. \A p \in DOMAIN K : Kin(K)[p] \subseteq DOMAIN K
  BY <1>1, RepPlace
<1>3. Graph(Kin(K))
  BY <1>2 DEF Graph, Kin
<1>4. OneParent(Kin(K))
  <2> SUFFICES ASSUME NEW p \in DOMAIN K, NEW q \in DOMAIN K, Kin(K)[p] \cap Kin(K)[q] # {}
               PROVE  p = q
    BY DEF OneParent, Kin
  <2>1. PICK m \in 1 .. Len(K[p]) : K[p][m] \in Kin(K)[q]
    BY <1>1
  <2>2. PICK n \in 1 .. Len(K[q]) : K[p][m] = K[q][n]
    BY <1>1, <2>1
  <2> QED
    BY <2>2 DEF Rep, Apart
<1> QED
  BY <1>1, <1>3, <1>4 DEF Kin, Placed

(* Lists and trees that end: so do the links.  Of an item without          *)
(* grandchildren in a set, the last child in it leads to none of it.       *)
LEMMA LinksFounded == ASSUME NEW h, NEW K, Rep(h, K), Founded(Kin(K))
                      PROVE  Founded(Links(h))
<1> SUFFICES ASSUME NEW C \in SUBSET DOMAIN K, C # {}
             PROVE  \E x \in C : h[x].child \notin C /\ h[x].next \notin C
  <2>1. DOMAIN Links(h) = DOMAIN K /\ \A x \in DOMAIN K : Links(h)[x] = {h[x].child, h[x].next} \ {Nil}
    BY DEF Links, Rep
  <2> QED
    BY <2>1 DEF Founded
<1>0. Nil \notin DOMAIN K
  BY DEF Rep, Heap, Nil, Item
<1> DEFINE G == Kin(K)
           T == {p \in DOMAIN K : G[p] \cap C # {}}
<1>1. /\ Graph(G) /\ DOMAIN G = DOMAIN K
      /\ \A p \in DOMAIN K : G[p] = {K[p][n] : n \in 1 .. Len(K[p])}
      /\ \A i : Placed(K, i) <=> \E p \in DOMAIN K : i \in G[p]
  BY KinGraph
<1>2. \A p \in DOMAIN K : h[p].child = Nil \/ h[p].child \in G[p]
  <2> SUFFICES ASSUME NEW p \in DOMAIN K, Len(K[p]) # 0
               PROVE  h[p].child \in G[p]
    BY DEF Rep, Linked, FirstOf
  <2>1. 1 \in 1 .. Len(K[p]) /\ h[p].child = K[p][1]
    BY RepPlace DEF Rep, Linked, FirstOf
  <2> QED
    BY <1>1, <2>1
<1> HIDE DEF G
<1>3. CASE T = {}
  <2>1. PICK x \in C : TRUE
    OBVIOUS
  <2>2. h[x].next = Nil
    BY <1>1, <1>3 DEF Rep, Linked
  <2>3. h[x].child \notin C
    BY <1>0, <1>2, <1>3
  <2> QED
    BY <1>0, <2>2, <2>3
<1>4. CASE T # {}
  <2>1. PICK p \in T : G[p] \cap T = {}
    <3>1. T \in SUBSET DOMAIN G
      BY <1>1
    <3> QED
      BY <1>4, <3>1 DEF Founded, G
  <2> DEFINE P == {n \in 1 .. Len(K[p]) : K[p][n] \in C}
  <2>2. Len(K[p]) \in Nat /\ P # {} /\ P \subseteq 0 .. Len(K[p])
    <3>1. Len(K[p]) \in Nat /\ G[p] = {K[p][n] : n \in 1 .. Len(K[p])}
      BY <1>1, RepPlace
    <3>2. PICK n \in 1 .. Len(K[p]) : K[p][n] \in C
      BY <3>1
    <3> QED
      BY <3>1, <3>2
  <2>3. PICK n \in P : \A m \in P : m <= n
    BY <2>2, GreatestNat
  <2> DEFINE x == K[p][n]
  <2>4. h[x].next \notin C
    <3>1. h[x].next = NextOf(K[p], n)
      BY DEF Rep, Linked
    <3>2. CASE n = Len(K[p])
      BY <1>0, <3>1, <3>2 DEF NextOf
    <3>3. CASE n # Len(K[p])
      <4>1. n + 1 \in 1 .. Len(K[p]) /\ ~(n + 1 <= n) /\ h[x].next = K[p][n + 1]
        BY <2>2, <3>1, <3>3 DEF NextOf
      <4> QED
        BY <2>3, <4>1
    <3> QED
      BY <3>2, <3>3
  <2>5. x \in C /\ x \in G[p]
    BY <1>1
  <2>6. G[x] \cap C = {}
    BY <1>1, <2>1, <2>5
  <2>7. h[x].child \notin C
    BY <1>0, <1>2, <2>5, <2>6
  <2> QED
    BY <2>4, <2>5, <2>7
<1> QED
  BY <1>3, <1>4

(* Walking a list gives the sequence.                                      *)
Walk(h) == CHOOSE f : f = [j \in Item \cup {Nil} |->
               IF j \in DOMAIN h THEN <<j>> \o f[h[j].next] ELSE <<>>]

LEMMA ListWalk == ASSUME NEW h, NEW i PROVE List(h, i) = Walk(h)[i]
  BY DEF List, Walk

Tails(K, j) == CHOOSE s : \E p \in DOMAIN K : \E n \in 1 .. Len(K[p]) :
                   K[p][n] = j /\ s = SubSeq(K[p], n, Len(K[p]))

LEMMA ListTails ==
    ASSUME NEW h, NEW K, Rep(h, K), Founded(Kin(K))
    PROVE  /\ \A p \in DOMAIN K : \A n \in 1 .. Len(K[p]) :
                 List(h, K[p][n]) = SubSeq(K[p], n, Len(K[p]))
           /\ List(h, Nil) = <<>>
<1> DEFINE g == [j \in Link |-> IF j \notin DOMAIN K THEN <<>>
                                ELSE IF Placed(K, j) THEN Tails(K, j) ELSE <<j>>]
           Eq(f) == f = [j \in Link |-> IF j \in DOMAIN h THEN <<j>> \o f[h[j].next] ELSE <<>>]
<1>0. /\ DOMAIN h = DOMAIN K /\ DOMAIN K \subseteq Link \ {Nil} /\ Nil \in Link
      /\ \A j \in DOMAIN K : h[j].next \in DOMAIN K \cup {Nil}
  BY DEF Rep, Heap, Nil, Item, Link
<1>1. ASSUME NEW p \in DOMAIN K, NEW n \in 1 .. Len(K[p])
      PROVE  Tails(K, K[p][n]) = SubSeq(K[p], n, Len(K[p]))
  <2> DEFINE Is(s) == \E q \in DOMAIN K : \E m \in 1 .. Len(K[q]) :
                         K[q][m] = K[p][n] /\ s = SubSeq(K[q], m, Len(K[q]))
  <2>1. Is(SubSeq(K[p], n, Len(K[p])))
    OBVIOUS
  <2>2. \A s : Is(s) => s = SubSeq(K[p], n, Len(K[p]))
    BY DEF Rep, Apart
  <2>3. Tails(K, K[p][n]) = CHOOSE s : Is(s)
    BY DEF Tails
  <2> HIDE DEF Is
  <2> QED
    BY <2>1, <2>2, <2>3
<1>2. ASSUME NEW p \in DOMAIN K, NEW n \in 1 .. Len(K[p])
      PROVE  g[K[p][n]] = SubSeq(K[p], n, Len(K[p]))
  BY <1>0, <1>1, RepPlace DEF Placed
<1>3. ASSUME NEW j \in DOMAIN K
      PROVE  g[j] = <<j>> \o g[h[j].next]
  <2>0. g[Nil] = <<>>
    BY <1>0
  <2>1. CASE ~Placed(K, j)
    <3>1. h[j].next = Nil /\ g[j] = <<j>>
      BY <1>0, <2>1 DEF Rep, Linked
    <3>2. <<j>> \o <<>> = <<j>>
      <4>1. <<j>> \in Seq({j})
        OBVIOUS
      <4> QED
        BY <4>1, ConcatEmptySeq
    <3> QED
      BY <2>0, <3>1, <3>2
  <2>2. CASE Placed(K, j)
    <3>0. PICK p \in DOMAIN K : \E n \in 1 .. Len(K[p]) : K[p][n] = j
      BY <2>2 DEF Placed
    <3>1. PICK n \in 1 .. Len(K[p]) : K[p][n] = j
      BY <3>0
    <3>2. K[p] \in Seq(DOMAIN K) /\ Len(K[p]) \in Nat
      BY RepPlace
    <3>3. SubSeq(K[p], n, Len(K[p])) = <<j>> \o SubSeq(K[p], n + 1, Len(K[p]))
      <4>1. Len(K[p]) \in n .. Len(K[p])
        BY <3>2
      <4> QED
        BY <3>1, <3>2, <4>1, SubSeqRecursiveFirst
    <3>4. h[j].next = NextOf(K[p], n) /\ g[j] = SubSeq(K[p], n, Len(K[p]))
      BY <1>2, <3>1 DEF Rep, Linked
    <3> HIDE DEF g
    <3>5. CASE n = Len(K[p])
      <4>1. SubSeq(K[p], n + 1, Len(K[p])) = <<>>
        BY <3>2, <3>5, SubSeqEmpty
      <4> QED
        BY <2>0, <3>3, <3>4, <3>5, <4>1 DEF NextOf
    <3>6. CASE n # Len(K[p])
      <4>1. n + 1 \in 1 .. Len(K[p]) /\ h[j].next = K[p][n + 1]
        BY <3>2, <3>4, <3>6 DEF NextOf
      <4>2. g[K[p][n + 1]] = SubSeq(K[p], n + 1, Len(K[p]))
        BY <1>2, <4>1
      <4> QED
        BY <3>3, <3>4, <4>1, <4>2
    <3> QED
      BY <3>5, <3>6
  <2> QED
    BY <2>1, <2>2
<1>4. Eq(g)
  BY <1>0, <1>3
<1>5. Eq(Walk(h))
  BY <1>4 DEF Walk, Link
<1>6. \A j \in DOMAIN K : Walk(h)[j] = g[j]
  <2> DEFINE C == {j \in DOMAIN K : Walk(h)[j] # g[j]}
  <2> SUFFICES ASSUME C # {} PROVE FALSE
    OBVIOUS
  <2>1. PICK x \in C : Links(h)[x] \cap C = {}
    <3>1. C \in SUBSET DOMAIN Links(h)
      BY <1>0 DEF Links
    <3> QED
      BY <3>1, LinksFounded, ZenonT(30) DEF Founded
  <2>2. Walk(h)[Nil] = <<>> /\ g[Nil] = <<>>
    BY <1>0, <1>5
  <2>3. Walk(h)[h[x].next] = g[h[x].next]
    BY <1>0, <2>1, <2>2 DEF Links
  <2>4. Walk(h)[x] = <<x>> \o Walk(h)[h[x].next]
    BY <1>0, <1>5
  <2> QED
    BY <1>3, <2>3, <2>4
<1>7. List(h, Nil) = <<>>
  BY <1>0, <1>5, ListWalk
<1> HIDE DEF g
<1> QED
  BY <1>2, <1>6, <1>7, ListWalk, RepPlace

LEMMA ChildrenSeq == ASSUME NEW h, NEW K, Rep(h, K), Founded(Kin(K)), NEW p \in DOMAIN K
                     PROVE  Children(h, p) = K[p]
<1>0. K[p] \in Seq(DOMAIN K) /\ Len(K[p]) \in Nat /\ h[p].child = FirstOf(K[p])
  BY RepPlace DEF Rep, Linked
<1>1. CASE Len(K[p]) = 0
  <2>1. K[p] = <<>>
    BY <1>0, <1>1, EmptySeq
  <2> QED
    BY <1>0, <1>1, <2>1, ListTails DEF Children, FirstOf
<1>2. CASE Len(K[p]) # 0
  <2>1. 1 \in 1 .. Len(K[p]) /\ h[p].child = K[p][1]
    BY <1>0, <1>2 DEF FirstOf
  <2>2. List(h, K[p][1]) = SubSeq(K[p], 1, Len(K[p]))
    BY <2>1, ListTails
  <2> QED
    BY <1>0, <2>1, <2>2, SubSeqFull DEF Children
<1> QED
  BY <1>1, <1>2

(* What a call that deletes i frees is i and all below it, and no more.    *)
LEMMA FreedTree ==
    ASSUME NEW h, NEW K, Rep(h, K), Founded(Kin(K)), Rooted(Kin(K)), NEW i \in DOMAIN K
    PROVE  Freed([h EXCEPT ![i].next = Nil], i) = Under(Kin(K), i)
<1> DEFINE G == Kin(K)
           g == [h EXCEPT ![i].next = Nil]
           D == Under(G, i)
           R == Under(Links(g), i)
<1>1. /\ Heap(g) /\ DOMAIN g = DOMAIN K /\ g[i].next = Nil
      /\ \A j \in DOMAIN K : (j # i => g[j].next = h[j].next) /\ g[j].child = h[j].child
  <2>1. Heap(h) /\ i \in DOMAIN h /\ DOMAIN h = DOMAIN K
    BY DEF Rep
  <2>2. Alike(g, h) /\ g[i].next = Nil /\ SameNext(g, h, DOMAIN h \ {i}) /\ SameChild(g, h, DOMAIN h)
    BY <2>1, SetNext DEF NextSet
  <2> QED
    BY <2>1, <2>2 DEF Alike, SameNext, SameChild
<1>2. /\ Graph(G) /\ DOMAIN G = DOMAIN K
      /\ \A p \in DOMAIN K : G[p] = {K[p][n] : n \in 1 .. Len(K[p])}
      /\ \A j : Placed(K, j) <=> \E p \in DOMAIN K : j \in G[p]
  BY KinGraph
<1>3. Nil \notin DOMAIN K
  BY DEF Rep, Heap, Nil, Item
<1> HIDE DEF G, g
<1>4. \A j \in DOMAIN K : Links(g)[j] = {g[j].child, g[j].next} \ {Nil}
  BY <1>1 DEF Links
<1>5. Graph(Links(g)) /\ DOMAIN Links(g) = DOMAIN K
  BY <1>1, LinksGraph
<1>6. Founded(Links(g))
  <2>1. \A j \in DOMAIN K : Links(g)[j] \subseteq Links(h)[j]
    BY <1>1, <1>4 DEF Links, Rep
  <2>2. DOMAIN Links(h) = DOMAIN K
    BY DEF Links, Rep
  <2> QED
    BY <1>5, <2>1, <2>2, LinksFounded DEF Founded
<1>7. Freed(g, i) = R
  BY <1>1, <1>3, <1>6, FreedUnder
<1>8. /\ D \in SUBSET DOMAIN K /\ i \in D /\ Shut(G, D)
      /\ R \in SUBSET DOMAIN K /\ i \in R /\ Shut(Links(g), R)
  BY <1>2, <1>5, UnderSet
<1>9. R \subseteq D
  <2> SUFFICES ASSUME NEW j \in D PROVE g[j].child \in D \cup {Nil} /\ g[j].next \in D \cup {Nil}
    <3>1. Shut(Links(g), D)
      BY <1>4, <1>8 DEF Shut
    <3> QED
      BY <1>5, <1>8, <3>1, UnderLeast
  <2>1. G[j] \subseteq D
    BY <1>8 DEF Shut
  <2>2. g[j].child \in D \cup {Nil}
    <3>1. g[j].child = FirstOf(K[j]) /\ Len(K[j]) \in Nat
      BY <1>1, <1>8, RepPlace DEF Rep, Linked
    <3>2. CASE Len(K[j]) # 0
      <4>1. 1 \in 1 .. Len(K[j]) /\ g[j].child = K[j][1]
        BY <3>1, <3>2 DEF FirstOf
      <4> QED
        BY <1>2, <1>8, <2>1, <4>1
    <3> QED
      BY <3>1, <3>2 DEF FirstOf
  <2>3. CASE j # i
    <3>1. PICK p \in D : j \in G[p]
      BY <1>2, <2>3, UnderParent
    <3>2. PICK n \in 1 .. Len(K[p]) : j = K[p][n]
      BY <1>2, <1>8, <3>1
    <3>3. g[j].next = NextOf(K[p], n) /\ Len(K[p]) \in Nat
      BY <1>1, <1>8, <2>3, <3>2, RepPlace DEF Rep, Linked
    <3>4. n # Len(K[p]) => n + 1 \in 1 .. Len(K[p])
      BY <3>3
    <3>5. G[p] \subseteq D
      BY <1>8 DEF Shut
    <3> QED
      BY <1>2, <1>8, <2>2, <3>3, <3>4, <3>5 DEF NextOf
  <2> QED
    BY <1>1, <2>2, <2>3
<1>10. D \subseteq R
  <2> SUFFICES ASSUME NEW j \in R PROVE G[j] \subseteq R
    <3>1. Shut(G, R)
      BY DEF Shut
    <3> QED
      BY <1>2, <1>8, <3>1, UnderLeast
  <2> DEFINE T == {n \in 1 .. Len(K[j]) : K[j][n] \notin R}
  <2> SUFFICES ASSUME T # {} PROVE FALSE
    BY <1>2, <1>8
  <2>0. Len(K[j]) \in Nat /\ \A n \in 1 .. Len(K[j]) : K[j][n] \in DOMAIN K
    BY <1>8, RepPlace
  <2>1. PICK n \in T : \A m \in T : n <= m
    <3>1. T \subseteq Nat
      OBVIOUS
    <3> QED
      BY <3>1, LeastNat
  <2>2. CASE n = 1
    <3>1. g[j].child = K[j][1] /\ K[j][1] \in DOMAIN K
      BY <1>1, <1>8, <2>0, <2>2 DEF Rep, Linked, FirstOf
    <3>2. K[j][1] \in Links(g)[j]
      BY <1>3, <1>4, <1>8, <3>1
    <3> QED
      BY <1>8, <2>2, <3>2 DEF Shut
  <2>3. CASE n # 1
    <3>1. n - 1 \in 1 .. Len(K[j]) /\ n - 1 \notin T /\ n - 1 # Len(K[j])
      BY <2>0, <2>1, <2>3
    <3> DEFINE k == K[j][n - 1]
    <3>2. k \in R /\ k \in G[j]
      BY <1>2, <1>8, <3>1
    <3>3. i \notin G[j]
      BY <1>2, <1>8, <1>9, NoReturn DEF G
    <3>4. g[k].next = NextOf(K[j], n - 1)
      BY <1>1, <1>8, <2>0, <3>1, <3>2, <3>3 DEF Rep, Linked
    <3>5. g[k].next = K[j][n] /\ K[j][n] \in DOMAIN K
      BY <2>0, <3>1, <3>4 DEF NextOf
    <3>6. K[j][n] \in Links(g)[k]
      BY <1>3, <1>4, <1>8, <3>2, <3>5
    <3> QED
      BY <1>8, <3>2, <3>6 DEF Shut
  <2> QED
    BY <2>2, <2>3
<1> QED
  BY <1>7, <1>9, <1>10 DEF g, G

LEMMA FreedLoose ==
    ASSUME NEW h, NEW K, Rep(h, K), Founded(Kin(K)), Rooted(Kin(K)), NEW i \in DOMAIN K, ~Placed(K, i)
    PROVE  Freed(h, i) = Under(Kin(K), i)
<1>1. [h EXCEPT ![i].next = Nil] = h
  BY DEF Rep, Heap, Linked
<1> QED
  BY <1>1, FreedTree

-----------------------------------------------------------------------------
(* Trees that lose edges, or gain one that closes no cycle, stay trees.    *)

LEMMA FewerEdges ==
    ASSUME NEW G, NEW H, Founded(G), Rooted(G), DOMAIN H \subseteq DOMAIN G,
           \A j \in DOMAIN H : H[j] \subseteq G[j]
    PROVE  Founded(H) /\ Rooted(H)
  BY DEF Founded, Rooted

LEMMA OneMoreEdge ==
    ASSUME NEW G, NEW H, Graph(G), Founded(G), Rooted(G), DOMAIN H = DOMAIN G,
           NEW p \in DOMAIN G, NEW i \in DOMAIN G, p \notin Under(G, i),
           H[p] \subseteq G[p] \cup {i}, \A j \in DOMAIN G \ {p} : H[j] \subseteq G[j]
    PROVE  Founded(H) /\ Rooted(H)
<1> DEFINE D == Under(G, i)
<1>1. D \in SUBSET DOMAIN G /\ i \in D /\ Shut(G, D)
  BY UnderSet
<1>2. ASSUME NEW C \in SUBSET DOMAIN G, C # {} PROVE \E x \in C : H[x] \cap C = {}
  <2>1. CASE C \cap D # {}
    <3>1. PICK x \in C \cap D : G[x] \cap (C \cap D) = {}
      BY <1>1, <2>1 DEF Founded
    <3>2. H[x] \subseteq G[x] /\ G[x] \subseteq D
      BY <1>1 DEF Shut
    <3> QED
      BY <3>1, <3>2
  <2>2. CASE C \cap D = {}
    <3>1. PICK x \in C : G[x] \cap C = {}
      BY <1>2 DEF Founded
    <3>2. H[x] \subseteq G[x] \cup {i}
      OBVIOUS
    <3> QED
      BY <1>1, <2>2, <3>1, <3>2
  <2> QED
    BY <2>1, <2>2
<1>3. ASSUME NEW C \in SUBSET DOMAIN G, C # {} PROVE \E x \in C : \A y \in C : x \notin H[y]
  <2>1. CASE C \subseteq D
    <3>1. PICK x \in C : \A y \in C : x \notin G[y]
      BY <1>3 DEF Rooted
    <3>2. \A y \in C : H[y] \subseteq G[y]
      BY <2>1
    <3> QED
      BY <3>1, <3>2
  <2>2. CASE ~(C \subseteq D)
    <3>1. PICK x \in C \ D : \A y \in C \ D : x \notin G[y]
      <4>1. C \ D # {} /\ C \ D \in SUBSET DOMAIN G
        BY <2>2
      <4> HIDE DEF D
      <4> QED
        BY <4>1 DEF Rooted
    <3>2. \A y \in D : x \notin G[y]
      BY <1>1 DEF Shut
    <3>3. \A y \in C : H[y] \subseteq G[y] \cup {i}
      OBVIOUS
    <3> QED
      BY <1>1, <3>1, <3>2, <3>3
  <2> QED
    BY <2>1, <2>2
<1> QED
  BY <1>2, <1>3 DEF Founded, Rooted

-----------------------------------------------------------------------------
(* What each call leaves.                                                  *)

InOrder(h, K) == Rep(h, K) /\ Founded(Kin(K)) /\ Rooted(Kin(K))

(* A new sequence of children for p.                                       *)
Fits(K, p, s) ==
    /\ s \in Seq(DOMAIN K)
    /\ \A m, n \in 1 .. Len(s) : s[m] = s[n] => m = n
    /\ \A n \in 1 .. Len(s) : \A q \in DOMAIN K \ {p} : s[n] \notin Kin(K)[q]

Relinks(g, h, K, p, s) ==
    /\ Alike(g, h) /\ g[p].child = FirstOf(s) /\ SameChild(g, h, DOMAIN K \ {p})
    /\ \A n \in 1 .. Len(s) : g[s[n]].next = NextOf(s, n) /\ g[s[n]].prev = PrevOf(s, n)
    /\ \A j \in DOMAIN K : (\A n \in 1 .. Len(s) : s[n] # j) =>
          IF j \in Kin(K)[p] THEN g[j].next = Nil /\ g[j].prev = Nil
          ELSE g[j].next = h[j].next /\ g[j].prev = h[j].prev

WithList(K, p, s) == [K EXCEPT ![p] = s]

LEMMA Relinked ==
    ASSUME NEW h, NEW K, Rep(h, K), NEW p \in DOMAIN K, NEW s, Fits(K, p, s),
           NEW g, Relinks(g, h, K, p, s)
    PROVE  /\ Rep(g, WithList(K, p, s)) /\ DOMAIN Kin(WithList(K, p, s)) = DOMAIN K
           /\ Kin(WithList(K, p, s))[p] = {s[n] : n \in 1 .. Len(s)}
           /\ \A q \in DOMAIN K \ {p} : Kin(WithList(K, p, s))[q] = Kin(K)[q]
<1> DEFINE L == WithList(K, p, s)
<1>1. /\ L \in [DOMAIN K -> Seq(DOMAIN K)] /\ DOMAIN L = DOMAIN K
      /\ L[p] = s /\ \A q \in DOMAIN K \ {p} : L[q] = K[q]
  BY DEF Rep, WithList, Fits
<1>2. DOMAIN s = 1 .. Len(s) /\ \A n \in 1 .. Len(s) : s[n] \in DOMAIN K
  BY LenProperties, ElementOfSeq DEF Fits
<1>3. /\ \A q \in DOMAIN K : Kin(K)[q] = {K[q][n] : n \in 1 .. Len(K[q])}
      /\ \A j : Placed(K, j) <=> \E q \in DOMAIN K : j \in Kin(K)[q]
      /\ DOMAIN Kin(K) = DOMAIN K
  BY KinGraph
<1> HIDE DEF L
<1>4. Apart(L)
  <2> SUFFICES ASSUME NEW q \in DOMAIN K, NEW r \in DOMAIN K, NEW m \in 1 .. Len(L[q]),
                      NEW n \in 1 .. Len(L[r]), L[q][m] = L[r][n]
               PROVE  q = r /\ m = n
    BY <1>1 DEF Apart
  <2>1. CASE q = p /\ r = p
    BY <1>1, <2>1 DEF Fits
  <2>2. CASE q # p /\ r # p
    BY <1>1, <2>2 DEF Rep, Apart
  <2>3. CASE q = p /\ r # p
    BY <1>1, <1>3, <2>3 DEF Fits
  <2>4. CASE q # p /\ r = p
    BY <1>1, <1>3, <2>4 DEF Fits
  <2> QED
    BY <2>1, <2>2, <2>3, <2>4
<1>5. \A q \in DOMAIN K : g[q].child = FirstOf(L[q])
  BY <1>1 DEF SameChild, Rep, Linked, Relinks
<1>6. ASSUME NEW q \in DOMAIN K, NEW n \in 1 .. Len(L[q])
      PROVE  g[L[q][n]].next = NextOf(L[q], n) /\ g[L[q][n]].prev = PrevOf(L[q], n)
  <2>1. CASE q = p
    BY <1>1, <2>1 DEF Relinks
  <2>2. CASE q # p
    <3>1. n \in 1 .. Len(K[q]) /\ L[q] = K[q]
      BY <1>1, <2>2
    <3>2. K[q][n] \in Kin(K)[q] /\ K[q][n] \in DOMAIN K
      BY <1>3, <3>1, RepPlace
    <3>3. K[q][n] \notin Kin(K)[p] /\ \A m \in 1 .. Len(s) : s[m] # K[q][n]
      <4>1. K[q][n] \notin Kin(K)[p]
        BY <2>2, <3>2, KinGraph DEF OneParent
      <4> QED
        BY <2>2, <3>2, <4>1 DEF Fits
    <3>4. g[K[q][n]].next = h[K[q][n]].next /\ g[K[q][n]].prev = h[K[q][n]].prev
      BY <3>2, <3>3 DEF Relinks
    <3> QED
      BY <3>1, <3>4 DEF Rep, Linked
  <2> QED
    BY <2>1, <2>2
<1>7. ASSUME NEW j \in DOMAIN K, ~Placed(L, j) PROVE g[j].next = Nil /\ g[j].prev = Nil
  <2>1. \A n \in 1 .. Len(s) : s[n] # j
    BY <1>1, <1>7 DEF Placed
  <2>2. \A q \in DOMAIN K \ {p} : j \notin Kin(K)[q]
    <3> SUFFICES ASSUME NEW q \in DOMAIN K \ {p}, j \in Kin(K)[q] PROVE FALSE
      OBVIOUS
    <3>1. PICK n \in 1 .. Len(K[q]) : K[q][n] = j
      BY <1>3
    <3>2. L[q] = K[q] /\ q \in DOMAIN L
      BY <1>1
    <3> QED
      BY <1>7, <3>1, <3>2 DEF Placed
  <2>3. j \notin Kin(K)[p] => ~Placed(K, j)
    BY <1>3, <2>2
  <2> QED
    BY <1>1, <2>1, <2>3 DEF Rep, Linked, Relinks
<1>8. Linked(g, L)
  BY <1>1, <1>5, <1>6, <1>7 DEF Linked
<1>9. Rep(g, L)
  BY <1>1, <1>4, <1>8 DEF Rep, Alike, Relinks
<1>10. \A q \in DOMAIN K : Kin(L)[q] = IF q = p THEN {s[n] : n \in 1 .. Len(s)} ELSE Kin(K)[q]
  <2>1. ToSet(s) = {s[n] : n \in 1 .. Len(s)}
    BY <1>2 DEF ToSet
  <2> QED
    BY <1>1, <2>1 DEF Kin
<1>11. DOMAIN Kin(L) = DOMAIN K
  BY <1>1 DEF Kin
<1> QED
  BY <1>9, <1>10, <1>11 DEF L

(* What is known of one list.                                              *)
ListOf(h, K, p, s) ==
    /\ s \in Seq(DOMAIN K) /\ Len(s) \in Nat
    /\ \A m \in 1 .. Len(s) : s[m] \in DOMAIN K
    /\ Kin(K)[p] = {s[m] : m \in 1 .. Len(s)}
    /\ \A m, r \in 1 .. Len(s) : s[m] = s[r] => m = r
    /\ \A m \in 1 .. Len(s) : \A q \in DOMAIN K \ {p} : s[m] \notin Kin(K)[q]
    /\ h[p].child = FirstOf(s)
    /\ \A m \in 1 .. Len(s) : h[s[m]].next = NextOf(s, m) /\ h[s[m]].prev = PrevOf(s, m)
    /\ Heap(h) /\ DOMAIN h = DOMAIN K /\ Nil \notin DOMAIN K
    /\ Graph(Kin(K)) /\ DOMAIN Kin(K) = DOMAIN K

LEMMA TheList ==
    ASSUME NEW h, NEW K, Rep(h, K), NEW p \in DOMAIN K, NEW s, s = K[p]
    PROVE  ListOf(h, K, p, s)
<1>1. /\ s \in Seq(DOMAIN K) /\ Len(s) \in Nat
      /\ \A m \in 1 .. Len(s) : s[m] \in DOMAIN K
  BY RepPlace
<1>2. /\ Graph(Kin(K)) /\ DOMAIN Kin(K) = DOMAIN K /\ OneParent(Kin(K))
      /\ Kin(K)[p] = {s[m] : m \in 1 .. Len(s)}
  BY KinGraph
<1>3. \A m, r \in 1 .. Len(s) : s[m] = s[r] => m = r
  BY DEF Rep, Apart
<1>4. \A m \in 1 .. Len(s) : \A q \in DOMAIN K \ {p} : s[m] \notin Kin(K)[q]
  BY <1>2 DEF OneParent
<1>5. /\ h[p].child = FirstOf(s)
      /\ \A m \in 1 .. Len(s) : h[s[m]].next = NextOf(s, m) /\ h[s[m]].prev = PrevOf(s, m)
  BY DEF Rep, Linked
<1>6. Heap(h) /\ DOMAIN h = DOMAIN K /\ Nil \notin DOMAIN K
  BY DEF Rep, Heap, Nil, Item
<1> QED
  BY <1>1, <1>2, <1>3, <1>4, <1>5, <1>6 DEF ListOf

(* cJSON_DetachItemViaPointer removes the element.                         *)
Unlinked(g, h, p, i, first, nx, pv) ==
    /\ Alike(g, h)
    /\ g[p].child = (IF i = first THEN nx ELSE first)
    /\ SameChild(g, h, DOMAIN h \ {p})
    /\ \A j \in DOMAIN h :
         /\ g[j].next = IF j = i THEN Nil ELSE IF i # first /\ j = pv THEN nx ELSE h[j].next
         /\ g[j].prev = IF j = i THEN Nil ELSE IF j = nx THEN pv
                        ELSE IF i # first /\ nx = Nil /\ j = first THEN pv ELSE h[j].prev

LEMMA DetachFields ==
    ASSUME NEW h, Heap(h), Nil \notin DOMAIN h, NEW p \in DOMAIN h, NEW i \in DOMAIN h,
           NEW first \in DOMAIN h, NEW nx \in DOMAIN h \cup {Nil}, NEW pv \in DOMAIN h,
           h[p].child = first, h[i].next = nx, h[i].prev = pv
    PROVE  Unlinked(Detach(h, p, i), h, p, i, first, nx, pv)
<1> DEFINE before == IF i # first THEN [h EXCEPT ![pv].next = nx] ELSE h
           after == IF nx # Nil THEN [before EXCEPT ![nx].prev = pv] ELSE before
           ends == IF i = first THEN [after EXCEPT ![p].child = nx]
                   ELSE IF nx = Nil THEN [after EXCEPT ![first].prev = pv] ELSE after
           g == [ends EXCEPT ![i].prev = Nil, ![i].next = Nil]
<1>0. Detach(h, p, i) = g
  BY DEF Detach
<1> DEFINE D == DOMAIN h
<1>1. /\ Alike(before, h) /\ SamePrev(before, h, D) /\ SameChild(before, h, D)
      /\ \A j \in D : before[j].next = IF i # first /\ j = pv THEN nx ELSE h[j].next
  <2>1. CASE i # first
    <3>1. before = [h EXCEPT ![pv].next = nx]
      BY <2>1
    <3> HIDE DEF before
    <3>2. NextSet(before, h, pv, nx)
      BY <3>1, SetNext
    <3> QED
      BY <2>1, <3>2 DEF NextSet, SameNext
  <2>2. CASE i = first
    BY <2>2 DEF Alike, SamePrev, SameChild
  <2> QED
    BY <2>1, <2>2
<1> HIDE DEF before
<1>2. /\ Alike(after, h) /\ SameNext(after, before, D) /\ SameChild(after, before, D)
      /\ \A j \in D : after[j].prev = IF j = nx THEN pv ELSE h[j].prev
  <2>1. CASE nx # Nil
    <3>0. Heap(before) /\ DOMAIN before = D /\ nx \in D
      BY <1>1, <2>1 DEF Alike
    <3>1. after = [before EXCEPT ![nx].prev = pv]
      BY <2>1
    <3> HIDE DEF after
    <3>2. PrevSet(after, before, nx, pv)
      BY <3>0, <3>1, SetPrev
    <3> QED
      BY <1>1, <2>1, <3>0, <3>2 DEF PrevSet, SamePrev, Alike
  <2>2. CASE nx = Nil
    BY <1>1, <2>2 DEF Alike, SamePrev, SameNext, SameChild
  <2> QED
    BY <2>1, <2>2
<1> HIDE DEF after
<1>3. /\ Alike(ends, h) /\ SameNext(ends, after, D) /\ SameChild(ends, after, D \ {p})
      /\ ends[p].child = IF i = first THEN nx ELSE after[p].child
      /\ \A j \in D : ends[j].prev = IF i # first /\ nx = Nil /\ j = first THEN pv ELSE after[j].prev
  <2>0. Heap(after) /\ DOMAIN after = D
    BY <1>2 DEF Alike
  <2>1. CASE i = first
    <3>1. ends = [after EXCEPT ![p].child = nx]
      BY <2>1
    <3> HIDE DEF ends
    <3>2. ChildSet(ends, after, p, nx)
      BY <2>0, <3>1, SetChild
    <3> QED
      BY <2>0, <2>1, <3>2 DEF ChildSet, SamePrev, Alike
  <2>2. CASE i # first /\ nx = Nil
    <3>1. ends = [after EXCEPT ![first].prev = pv]
      BY <2>2
    <3> HIDE DEF ends
    <3>2. PrevSet(ends, after, first, pv)
      BY <2>0, <3>1, SetPrev
    <3> QED
      BY <2>0, <2>2, <3>2 DEF PrevSet, SamePrev, SameChild, Alike
  <2>3. CASE i # first /\ nx # Nil
    BY <2>0, <2>3 DEF Alike, SamePrev, SameNext, SameChild
  <2> QED
    BY <2>1, <2>2, <2>3
<1> HIDE DEF ends
<1>4. /\ Alike(g, h) /\ SameChild(g, ends, D)
      /\ \A j \in D : /\ g[j].next = IF j = i THEN Nil ELSE ends[j].next
                      /\ g[j].prev = IF j = i THEN Nil ELSE ends[j].prev
  <2> DEFINE e == [ends EXCEPT ![i].prev = Nil]
  <2>0. Heap(ends) /\ DOMAIN ends = D
    BY <1>3 DEF Alike
  <2>1. PrevSet(e, ends, i, Nil)
    BY <2>0, SetPrev
  <2>2. Heap(e) /\ DOMAIN e = D
    BY <2>0, <2>1 DEF PrevSet, Alike
  <2>3. g = [e EXCEPT ![i].next = Nil]
    OBVIOUS
  <2> HIDE DEF e, g
  <2>4. NextSet(g, e, i, Nil)
    BY <2>2, <2>3, SetNext
  <2> QED
    BY <2>0, <2>1, <2>2, <2>4 DEF NextSet, PrevSet, Alike, SameNext, SamePrev, SameChild
<1> HIDE DEF g
<1>5. g[p].child = IF i = first THEN nx ELSE first
  BY <1>1, <1>2, <1>3, <1>4 DEF SameChild
<1> QED
  BY <1>0, <1>1, <1>2, <1>3, <1>4, <1>5 DEF SameNext, SamePrev, SameChild, Unlinked

LEMMA DetachTree ==
    ASSUME NEW h, NEW K, InOrder(h, K), NEW p \in DOMAIN K, NEW s, s = K[p],
           NEW n \in 1 .. Len(s), NEW i, i = s[n]
    PROVE  LET L == WithList(K, p, RemoveAt(s, n)) IN
           InOrder(Detach(h, p, i), L) /\ ~Placed(L, i)
<1> DEFINE k == Len(s)
           t == RemoveAt(s, n)
           g == Detach(h, p, i)
           nx == NextOf(s, n)
           pv == PrevOf(s, n)
<1>0. Rep(h, K)
  BY DEF InOrder
<1>1. /\ s \in Seq(DOMAIN K) /\ k \in Nat
      /\ \A m \in 1 .. k : s[m] \in DOMAIN K
      /\ Kin(K)[p] = {s[m] : m \in 1 .. k}
      /\ \A m, r \in 1 .. k : s[m] = s[r] => m = r
      /\ \A m \in 1 .. k : \A q \in DOMAIN K \ {p} : s[m] \notin Kin(K)[q]
      /\ h[p].child = FirstOf(s)
      /\ \A m \in 1 .. k : h[s[m]].next = NextOf(s, m) /\ h[s[m]].prev = PrevOf(s, m)
      /\ Heap(h) /\ DOMAIN h = DOMAIN K /\ Nil \notin DOMAIN K /\ DOMAIN Kin(K) = DOMAIN K
  <2>1. ListOf(h, K, p, s)
    BY <1>0, TheList
  <2> QED
    BY <2>1 DEF ListOf
<1>2. /\ t \in Seq(DOMAIN K) /\ Len(t) = k - 1
      /\ \A m \in 1 .. k - 1 : t[m] = IF m < n THEN s[m] ELSE s[m + 1]
  <2>1. s \in Seq(DOMAIN K)
    BY <1>1
  <2>2. t \in Seq(DOMAIN K) /\ Shorter(t, s, n)
    BY <2>1, Removed
  <2> HIDE DEF t
  <2> QED
    BY <2>2 DEF Shorter
<1>3. /\ k # 0 /\ 1 \in 1 .. k /\ k \in 1 .. k /\ i \in DOMAIN K
      /\ h[p].child = s[1] /\ s[1] \in DOMAIN K /\ s[k] \in DOMAIN K
      /\ (i = s[1] <=> n = 1)
      /\ (n # 1 => n - 1 \in 1 .. k) /\ (n # k => n + 1 \in 1 .. k)
  BY <1>1 DEF FirstOf
<1>4. /\ nx = (IF n = k THEN Nil ELSE s[n + 1]) /\ pv = (IF n = 1 THEN s[k] ELSE s[n - 1])
      /\ nx \in DOMAIN K \cup {Nil} /\ pv \in DOMAIN K
      /\ h[i].next = nx /\ h[i].prev = pv
  BY <1>1, <1>3 DEF NextOf, PrevOf
<1> HIDE DEF nx, pv, t, k
<1>7. /\ Alike(g, h)
      /\ g[p].child = (IF n = 1 THEN nx ELSE s[1])
      /\ SameChild(g, h, DOMAIN K \ {p})
      /\ \A j \in DOMAIN K :
            /\ g[j].next = IF j = i THEN Nil ELSE IF n # 1 /\ j = pv THEN nx ELSE h[j].next
            /\ g[j].prev = IF j = i THEN Nil ELSE IF j = nx THEN pv
                           ELSE IF n # 1 /\ nx = Nil /\ j = s[1] THEN pv ELSE h[j].prev
  <2>1. Unlinked(g, h, p, i, s[1], nx, pv)
    BY <1>1, <1>3, <1>4, DetachFields
  <2> HIDE DEF g
  <2> QED
    BY <1>1, <1>3, <2>1 DEF Unlinked
<1> HIDE DEF g
<1>8. g[p].child = FirstOf(t)
  BY <1>1, <1>2, <1>3, <1>4, <1>7 DEF FirstOf
<1>9. ASSUME NEW m \in 1 .. k - 1
      PROVE  g[t[m]].next = NextOf(t, m) /\ g[t[m]].prev = PrevOf(t, m)
  <2>0. k - 1 \in Nat /\ k \in Nat /\ n \in 1 .. k
    BY <1>1, <1>3 DEF k
  <2>1. CASE m < n
    <3>1. m \in 1 .. k /\ t[m] = s[m] /\ s[m] # i /\ s[m] \in DOMAIN K
      BY <1>1, <1>2, <2>0, <2>1 DEF k
    <3>2. /\ g[s[m]].next = (IF m = n - 1 THEN nx ELSE s[m + 1])
          /\ m + 1 \in 1 .. k
      <4>1. n # 1 /\ n - 1 \in 1 .. k /\ m + 1 \in 1 .. k /\ m # k /\ pv = s[n - 1]
        BY <1>4, <2>0, <2>1, <3>1
      <4>2. s[m] = pv <=> m = n - 1
        BY <1>1, <3>1, <4>1 DEF k
      <4>3. g[s[m]].next = IF s[m] = pv THEN nx ELSE h[s[m]].next
        BY ONLY <1>7, <3>1, <4>1
      <4>4. h[s[m]].next = s[m + 1]
        BY <1>1, <3>1, <4>1 DEF NextOf, k
      <4> QED
        BY ONLY <4>1, <4>2, <4>3, <4>4
    <3>3. NextOf(t, m) = (IF m = n - 1 THEN nx ELSE s[m + 1])
      BY <1>2, <1>4, <2>0, <2>1, SMTT(30) DEF NextOf
    <3>4. s[m] # nx /\ (s[m] = s[1] => m = 1)
      BY <1>1, <1>3, <1>4, <2>0, <2>1, <3>1 DEF k
    <3>5. g[s[m]].prev = IF m = 1 THEN (IF n = k THEN s[n - 1] ELSE s[k]) ELSE s[m - 1]
      BY <1>1, <1>3, <1>4, <1>7, <2>0, <2>1, <3>1, <3>4, SMTT(30) DEF PrevOf, k
    <3>6. PrevOf(t, m) = IF m = 1 THEN (IF n = k THEN s[n - 1] ELSE s[k]) ELSE s[m - 1]
      BY <1>2, <2>0, <2>1 DEF PrevOf
    <3> QED
      BY <3>1, <3>2, <3>3, <3>5, <3>6
  <2>2. CASE m >= n
    <3>1. m + 1 \in 1 .. k /\ t[m] = s[m + 1] /\ s[m + 1] # i /\ s[m + 1] \in DOMAIN K
      BY <1>1, <1>2, <2>0, <2>2 DEF k
    <3>2. n # 1 => s[m + 1] # pv
      BY <1>1, <1>3, <1>4, <2>0, <2>2, <3>1 DEF k
    <3>3. g[s[m + 1]].next = NextOf(s, m + 1)
      BY <1>1, <1>7, <3>1, <3>2 DEF k
    <3>4. NextOf(t, m) = NextOf(s, m + 1)
      BY <1>2, <2>0, <2>2, <3>1 DEF NextOf, k
    <3>5. s[m + 1] = nx <=> m = n
      BY <1>1, <1>3, <1>4, <2>0, <2>2, <3>1 DEF k
    <3>6. s[m + 1] # s[1]
      BY <1>1, <1>3, <2>0, <3>1 DEF k
    <3>7. g[s[m + 1]].prev = IF m = n THEN pv ELSE s[m]
      BY <1>1, <1>7, <2>0, <2>2, <3>1, <3>5, <3>6 DEF PrevOf, k
    <3>8. PrevOf(t, m) = IF m = n THEN pv ELSE s[m]
      BY <1>2, <1>4, <2>0, <2>2, SMTT(30) DEF PrevOf
    <3> QED
      BY <3>1, <3>3, <3>4, <3>7, <3>8
  <2> QED
    BY <2>0, <2>1, <2>2
<1>10. ASSUME NEW j \in DOMAIN K, \A m \in 1 .. Len(t) : t[m] # j
       PROVE  IF j \in Kin(K)[p] THEN g[j].next = Nil /\ g[j].prev = Nil
              ELSE g[j].next = h[j].next /\ g[j].prev = h[j].prev
  <2>1. CASE j \in Kin(K)[p]
    <3>1. PICK m \in 1 .. k : j = s[m]
      BY <1>1, <2>1
    <3>2. CASE m < n
      BY <1>1, <1>2, <1>10, <3>1, <3>2 DEF k
    <3>3. CASE m > n
      <4>1. m - 1 \in 1 .. k - 1 /\ t[m - 1] = s[m]
        BY <1>1, <1>2, <3>3 DEF k
      <4> QED
        BY <1>2, <1>10, <3>1, <4>1
    <3>4. CASE m = n
      BY <1>7, <2>1, <3>1, <3>4
    <3> QED
      BY <1>1, <3>2, <3>3, <3>4 DEF k
  <2>2. CASE j \notin Kin(K)[p]
    <3>1. j # i /\ j # pv /\ j # nx /\ j # s[1]
      BY <1>1, <1>3, <1>4, <2>2 DEF k
    <3> QED
      BY <1>7, <2>2, <3>1
  <2> QED
    BY <2>1, <2>2
<1>11. \A m, r \in 1 .. k - 1 : t[m] = t[r] => m = r
  BY <1>1, <1>2 DEF k
<1>12. \A m \in 1 .. k - 1 : t[m] \in Kin(K)[p] /\ t[m] # i
  BY <1>1, <1>2 DEF k
<1> DEFINE L == WithList(K, p, t)
<1>13. /\ Rep(g, L) /\ DOMAIN Kin(L) = DOMAIN K
       /\ Kin(L)[p] = {t[m] : m \in 1 .. k - 1}
       /\ \A q \in DOMAIN K \ {p} : Kin(L)[q] = Kin(K)[q]
  <2>1. \A m \in 1 .. Len(t) : \A q \in DOMAIN K \ {p} : t[m] \notin Kin(K)[q]
    BY <1>1, <1>2 DEF k
  <2>2. Fits(K, p, t)
    BY <1>2, <1>11, <2>1 DEF Fits
  <2>3. Relinks(g, h, K, p, t)
    BY <1>2, <1>7, <1>8, <1>9, <1>10 DEF Relinks
  <2> QED
    BY <1>0, <1>2, <2>2, <2>3, Relinked
<1> HIDE DEF L
<1>14. \A q \in DOMAIN K : Kin(L)[q] \subseteq Kin(K)[q]
  BY <1>12, <1>13
<1>15. Founded(Kin(L)) /\ Rooted(Kin(L))
  BY <1>1, <1>13, <1>14, FewerEdges DEF InOrder
<1>16. ~Placed(L, i)
  <2>1. \A q \in DOMAIN K : i \notin Kin(L)[q]
    BY <1>1, <1>12, <1>13 DEF k
  <2>2. DOMAIN L = DOMAIN K
    BY DEF L, WithList
  <2> QED
    BY <1>13, <2>1, <2>2, KinGraph
<1> QED
  BY <1>13, <1>15, <1>16 DEF InOrder, t, g, L

(* A loose item put at place n of p's children, and not below itself.      *)
MayHold(K, p, i) == i \in DOMAIN K /\ ~Placed(K, i) /\ p \notin Under(Kin(K), i)

Inserts(g, h, p, s, n, i) ==
    /\ Alike(g, h) /\ SameChild(g, h, DOMAIN h \ {p})
    /\ g[p].child = IF n = 1 THEN i ELSE s[1]
    /\ \A j \in DOMAIN h :
         /\ g[j].next = IF j = i THEN (IF n = Len(s) + 1 THEN Nil ELSE s[n])
                        ELSE IF n # 1 /\ j = s[n - 1] THEN i ELSE h[j].next
         /\ g[j].prev = IF j = i THEN (IF Len(s) = 0 THEN i ELSE IF n = 1 THEN s[Len(s)] ELSE s[n - 1])
                        ELSE IF n # Len(s) + 1 /\ j = s[n] THEN i
                        ELSE IF n # 1 /\ n = Len(s) + 1 /\ j = s[1] THEN i ELSE h[j].prev

LEMMA InsertTree ==
    ASSUME NEW h, NEW K, InOrder(h, K), NEW p \in DOMAIN K, NEW s, s = K[p], NEW i, MayHold(K, p, i),
           NEW n \in 1 .. Len(s) + 1, NEW g, Inserts(g, h, p, s, n, i)
    PROVE  InOrder(g, WithList(K, p, InsertAt(s, n, i)))
<1> DEFINE k == Len(s)
           t == InsertAt(s, n, i)
<1>0. Rep(h, K)
  BY DEF InOrder
<1>1. /\ s \in Seq(DOMAIN K) /\ k \in Nat
      /\ \A m \in 1 .. k : s[m] \in DOMAIN K
      /\ Kin(K)[p] = {s[m] : m \in 1 .. k}
      /\ \A m, r \in 1 .. k : s[m] = s[r] => m = r
      /\ \A m \in 1 .. k : \A q \in DOMAIN K \ {p} : s[m] \notin Kin(K)[q]
      /\ h[p].child = FirstOf(s)
      /\ \A m \in 1 .. k : h[s[m]].next = NextOf(s, m) /\ h[s[m]].prev = PrevOf(s, m)
      /\ Heap(h) /\ DOMAIN h = DOMAIN K /\ Nil \notin DOMAIN K
      /\ Graph(Kin(K)) /\ DOMAIN Kin(K) = DOMAIN K
  <2>1. ListOf(h, K, p, s)
    BY <1>0, TheList
  <2> QED
    BY <2>1 DEF ListOf
<1>2. /\ t \in Seq(DOMAIN K) /\ Len(t) = k + 1
      /\ \A m \in 1 .. k + 1 : t[m] = IF m < n THEN s[m] ELSE IF m = n THEN i ELSE s[m - 1]
  <2>1. s \in Seq(DOMAIN K) /\ i \in DOMAIN K
    BY <1>1 DEF MayHold
  <2>2. t \in Seq(DOMAIN K) /\ Longer(t, s, n, i)
    BY <2>1, Inserted
  <2> HIDE DEF t
  <2> QED
    BY <2>2 DEF Longer
<1>3. /\ i \in DOMAIN K /\ \A q \in DOMAIN K : i \notin Kin(K)[q]
      /\ \A m \in 1 .. k : s[m] # i
  <2>1. \A q \in DOMAIN K : i \notin Kin(K)[q]
    BY <1>0, KinGraph DEF MayHold
  <2> QED
    BY <1>1, <2>1 DEF MayHold
<1> HIDE DEF t, k
<1>4. n \in 1 .. k + 1 /\ k \in Nat
  BY <1>1 DEF k
<1>5. /\ Alike(g, h) /\ SameChild(g, h, DOMAIN K \ {p})
      /\ g[p].child = IF n = 1 THEN i ELSE s[1]
      /\ \A j \in DOMAIN K :
           /\ g[j].next = IF j = i THEN (IF n = k + 1 THEN Nil ELSE s[n])
                          ELSE IF n # 1 /\ j = s[n - 1] THEN i ELSE h[j].next
           /\ g[j].prev = IF j = i THEN (IF k = 0 THEN i ELSE IF n = 1 THEN s[k] ELSE s[n - 1])
                          ELSE IF n # k + 1 /\ j = s[n] THEN i
                          ELSE IF n # 1 /\ n = k + 1 /\ j = s[1] THEN i ELSE h[j].prev
  BY <1>1 DEF Inserts, k
<1>6. g[p].child = FirstOf(t)
  BY <1>2, <1>4, <1>5 DEF FirstOf
<1>7. ASSUME NEW m \in 1 .. k + 1
      PROVE  g[t[m]].next = NextOf(t, m) /\ g[t[m]].prev = PrevOf(t, m)
  <2>1. CASE m < n
    <3>1. m \in 1 .. k /\ t[m] = s[m] /\ s[m] # i /\ s[m] \in DOMAIN K
      BY <1>1, <1>2, <1>3, <1>4, <2>1
    <3>2. n # 1 /\ n - 1 \in 1 .. k /\ (s[m] = s[n - 1] <=> m = n - 1)
      BY <1>1, <1>4, <2>1, <3>1
    <3>3. g[s[m]].next = (IF m = n - 1 THEN i ELSE s[m + 1])
      BY <1>1, <1>4, <1>5, <2>1, <3>1, <3>2 DEF NextOf, k
    <3>4. NextOf(t, m) = (IF m = n - 1 THEN i ELSE s[m + 1])
      BY <1>2, <1>4, <2>1, <3>1 DEF NextOf
    <3>5. (n # k + 1 => n \in 1 .. k /\ s[m] # s[n]) /\ 1 \in 1 .. k /\ (s[m] = s[1] <=> m = 1)
      BY <1>1, <1>4, <2>1, <3>1
    <3>6. g[s[m]].prev = IF m = 1 THEN (IF n = k + 1 THEN i ELSE s[k]) ELSE s[m - 1]
      BY <1>1, <1>4, <1>5, <2>1, <3>1, <3>2, <3>5, SMTT(30) DEF PrevOf, k
    <3>7. PrevOf(t, m) = IF m = 1 THEN (IF n = k + 1 THEN i ELSE s[k]) ELSE s[m - 1]
      BY <1>2, <1>4, <2>1, <3>1 DEF PrevOf
    <3> QED
      BY <3>1, <3>3, <3>4, <3>6, <3>7
  <2>2. CASE m = n
    <3>1. t[m] = i /\ g[i].next = (IF n = k + 1 THEN Nil ELSE s[n])
      BY <1>2, <1>3, <1>5, <2>2
    <3>2. g[i].prev = (IF k = 0 THEN i ELSE IF n = 1 THEN s[k] ELSE s[n - 1])
      BY <1>3, <1>5
    <3>3. NextOf(t, m) = (IF n = k + 1 THEN Nil ELSE s[n])
      BY <1>2, <1>4, <2>2 DEF NextOf
    <3>4. PrevOf(t, m) = (IF k = 0 THEN i ELSE IF n = 1 THEN s[k] ELSE s[n - 1])
      BY <1>2, <1>4, <2>2 DEF PrevOf
    <3> QED
      BY <3>1, <3>2, <3>3, <3>4
  <2>3. CASE m > n
    <3>1. m - 1 \in 1 .. k /\ t[m] = s[m - 1] /\ s[m - 1] # i /\ s[m - 1] \in DOMAIN K
      BY <1>1, <1>2, <1>3, <1>4, <2>3
    <3>2. n # 1 => n - 1 \in 1 .. k /\ s[m - 1] # s[n - 1]
      BY <1>1, <1>4, <2>3, <3>1
    <3>3. g[s[m - 1]].next = NextOf(s, m - 1)
      BY <1>1, <1>5, <3>1, <3>2 DEF k
    <3>4. NextOf(t, m) = NextOf(s, m - 1)
      BY <1>2, <1>4, <2>3, <3>1 DEF NextOf, k
    <3>5. n \in 1 .. k /\ n # k + 1 /\ (s[m - 1] = s[n] <=> m - 1 = n)
      BY <1>1, <1>4, <2>3, <3>1
    <3>6. g[s[m - 1]].prev = IF m - 1 = n THEN i ELSE s[m - 2]
      BY <1>1, <1>4, <1>5, <2>3, <3>1, <3>5 DEF PrevOf, k
    <3>7. PrevOf(t, m) = IF m - 1 = n THEN i ELSE s[m - 2]
      BY <1>2, <1>4, <2>3, <3>1 DEF PrevOf
    <3> QED
      BY <3>1, <3>3, <3>4, <3>6, <3>7
  <2> QED
    BY <1>4, <2>1, <2>2, <2>3
<1>8. ASSUME NEW j \in DOMAIN K, \A m \in 1 .. Len(t) : t[m] # j
      PROVE  j \notin Kin(K)[p] /\ g[j].next = h[j].next /\ g[j].prev = h[j].prev
  <2>1. \A m \in 1 .. k : s[m] # j
    <3> SUFFICES ASSUME NEW m \in 1 .. k PROVE s[m] # j
      OBVIOUS
    <3>1. CASE m < n
      BY <1>2, <1>4, <1>8, <3>1
    <3>2. CASE m >= n
      <4>1. m + 1 \in 1 .. k + 1 /\ t[m + 1] = s[m]
        BY <1>2, <1>4, <3>2
      <4> QED
        BY <1>2, <1>8, <4>1
    <3> QED
      BY <1>4, <3>1, <3>2
  <2>2. j # i /\ (n # 1 => j # s[n - 1]) /\ (n # k + 1 => j # s[n]) /\ (k # 0 => j # s[1])
    <3>1. t[n] = i
      BY <1>2, <1>4
    <3> QED
      BY <1>2, <1>4, <1>8, <2>1, <3>1
  <2> QED
    BY <1>1, <1>4, <1>5, <2>1, <2>2 DEF k
<1>9. \A m, r \in 1 .. k + 1 : t[m] = t[r] => m = r
  <2> SUFFICES ASSUME NEW m \in 1 .. k + 1, NEW r \in 1 .. k + 1, t[m] = t[r], m < r PROVE FALSE
    BY <1>4
  <2>1. CASE r < n
    BY <1>1, <1>2, <1>4, <2>1
  <2>2. CASE r = n
    BY <1>2, <1>3, <1>4, <2>2
  <2>3. CASE r > n
    BY <1>1, <1>2, <1>3, <1>4, <2>3
  <2> QED
    BY <1>4, <2>1, <2>2, <2>3
<1>10. \A m \in 1 .. k + 1 : t[m] \in Kin(K)[p] \cup {i}
  BY <1>1, <1>2, <1>4
<1> DEFINE L == WithList(K, p, t)
<1>11. /\ Rep(g, L) /\ DOMAIN Kin(L) = DOMAIN K
       /\ Kin(L)[p] = {t[m] : m \in 1 .. k + 1}
       /\ \A q \in DOMAIN K \ {p} : Kin(L)[q] = Kin(K)[q]
  <2>1. \A m \in 1 .. k + 1 : \A q \in DOMAIN K \ {p} : t[m] \notin Kin(K)[q]
    BY <1>1, <1>3, <1>10 DEF k
  <2>2. Fits(K, p, t)
    BY <1>2, <1>9, <2>1 DEF Fits
  <2>3. Relinks(g, h, K, p, t)
    BY <1>2, <1>5, <1>6, <1>7, <1>8 DEF Relinks
  <2> QED
    BY <1>0, <1>2, <2>2, <2>3, Relinked
<1> HIDE DEF L
<1>12. Kin(L)[p] \subseteq Kin(K)[p] \cup {i}
  BY <1>10, <1>11
<1>13. Founded(Kin(L)) /\ Rooted(Kin(L))
  <2>1. \A q \in DOMAIN K \ {p} : Kin(L)[q] \subseteq Kin(K)[q]
    BY <1>11
  <2> QED
    BY <1>1, <1>3, <1>11, <1>12, <2>1, OneMoreEdge DEF InOrder, MayHold
<1> QED
  BY <1>11, <1>13 DEF InOrder, t, L

(* add_item_to_array appends.                                              *)
LEMMA AddFields ==
    ASSUME NEW h, NEW K, Rep(h, K), NEW p \in DOMAIN K, NEW s, s = K[p],
           NEW i \in DOMAIN K, ~Placed(K, i)
    PROVE  Inserts(AddToArray(h, p, i), h, p, s, Len(s) + 1, i)
<1> DEFINE k == Len(s)
           g == AddToArray(h, p, i)
<1>1. /\ k \in Nat /\ \A m \in 1 .. k : s[m] \in DOMAIN K /\ s[m] # i
      /\ h[p].child = FirstOf(s)
      /\ \A m \in 1 .. k : h[s[m]].next = NextOf(s, m) /\ h[s[m]].prev = PrevOf(s, m)
      /\ \A m, r \in 1 .. k : s[m] = s[r] => m = r
      /\ Heap(h) /\ DOMAIN h = DOMAIN K /\ Nil \notin DOMAIN K
      /\ h[i].next = Nil
  <2>1. ListOf(h, K, p, s)
    BY TheList
  <2>2. \A m \in 1 .. k : s[m] # i
    BY DEF Placed
  <2> QED
    BY <2>1, <2>2 DEF ListOf, Rep, Linked
<1> HIDE DEF k
<1>2. CASE k = 0
  <2> DEFINE e == [[h EXCEPT ![p].child = i] EXCEPT ![i].prev = i]
  <2>1. g = [e EXCEPT ![i].next = Nil]
    BY <1>1, <1>2 DEF AddToArray, FirstOf, k
  <2>2. /\ Alike(e, h) /\ SameNext(e, h, DOMAIN K) /\ SamePrev(e, h, DOMAIN K \ {i}) /\ e[i].prev = i
        /\ e[p].child = i /\ SameChild(e, h, DOMAIN K \ {p})
    <3> DEFINE d == [h EXCEPT ![p].child = i]
    <3>1. ChildSet(d, h, p, i)
      BY <1>1, SetChild
    <3>2. Heap(d) /\ DOMAIN d = DOMAIN K
      BY <1>1, <3>1 DEF ChildSet, Alike
    <3> HIDE DEF d
    <3>3. PrevSet([d EXCEPT ![i].prev = i], d, i, i)
      BY <3>2, SetPrev
    <3> QED
      BY <1>1, <3>1, <3>2, <3>3 DEF ChildSet, PrevSet, Alike, SameNext, SamePrev, SameChild, d
  <2> HIDE DEF e, g
  <2>3. NextSet(g, e, i, Nil)
    BY <1>1, <2>1, <2>2, SetNext DEF Alike
  <2>4. g[p].child = i /\ SameChild(g, h, DOMAIN h \ {p}) /\ Alike(g, h)
    BY <1>1, <2>2, <2>3 DEF NextSet, Alike, SameChild
  <2>5. \A j \in DOMAIN h : /\ g[j].next = IF j = i THEN Nil ELSE h[j].next
                            /\ g[j].prev = IF j = i THEN i ELSE h[j].prev
    BY <1>1, <2>2, <2>3 DEF NextSet, Alike, SameNext, SamePrev
  <2> QED
    BY <1>2, <2>4, <2>5 DEF Inserts, g, k
<1>3. CASE k # 0
  <2>1. /\ 1 \in 1 .. k /\ k \in 1 .. k /\ s[1] \in DOMAIN K /\ s[k] \in DOMAIN K
        /\ h[p].child = s[1] /\ h[s[1]].prev = s[k] /\ s[1] # i /\ s[k] # i
    BY <1>1, <1>3 DEF FirstOf, PrevOf, k
  <2> DEFINE d == [h EXCEPT ![s[k]].next = i]
             e == [d EXCEPT ![i].prev = s[k]]
  <2>2. g = [e EXCEPT ![s[1]].prev = i]
    BY <1>1, <2>1 DEF AddToArray
  <2>3. NextSet(d, h, s[k], i)
    BY <1>1, <2>1, SetNext
  <2>4. Heap(d) /\ DOMAIN d = DOMAIN K
    BY <1>1, <2>3 DEF NextSet, Alike
  <2> HIDE DEF d
  <2>5. PrevSet(e, d, i, s[k])
    BY <2>1, <2>4, SetPrev
  <2>6. Heap(e) /\ DOMAIN e = DOMAIN K
    BY <2>4, <2>5 DEF PrevSet, Alike
  <2> HIDE DEF e, g
  <2>7. PrevSet(g, e, s[1], i)
    BY <2>1, <2>2, <2>6, SetPrev
  <2>8. g[p].child = s[1] /\ SameChild(g, h, DOMAIN h \ {p}) /\ Alike(g, h)
    BY <1>1, <2>1, <2>3, <2>4, <2>5, <2>6, <2>7 DEF NextSet, PrevSet, Alike, SameChild
  <2>9. \A j \in DOMAIN h : /\ g[j].next = IF j = i THEN Nil ELSE IF j = s[k] THEN i ELSE h[j].next
                            /\ g[j].prev = IF j = i THEN s[k] ELSE IF j = s[1] THEN i ELSE h[j].prev
    BY <1>1, <2>1, <2>3, <2>4, <2>5, <2>6, <2>7 DEF NextSet, PrevSet, Alike, SameNext, SamePrev
  <2>10. k + 1 # 1 /\ k + 1 - 1 = k
    BY <1>1, <1>3
  <2> QED
    BY <1>3, <2>8, <2>9, <2>10 DEF Inserts, g, k
<1> QED
  BY <1>2, <1>3

LEMMA AddTree ==
    ASSUME NEW h, NEW K, InOrder(h, K), NEW p \in DOMAIN K, NEW s, s = K[p], NEW i, MayHold(K, p, i)
    PROVE  InOrder(AddToArray(h, p, i), WithList(K, p, InsertAt(s, Len(s) + 1, i)))
<1>1. Inserts(AddToArray(h, p, i), h, p, s, Len(s) + 1, i)
  BY AddFields DEF InOrder, MayHold
<1>2. Len(s) + 1 \in 1 .. Len(s) + 1
  BY RepPlace DEF InOrder
<1> QED
  BY <1>1, <1>2, InsertTree

(* cJSON_InsertItemInArray inserts before the element, or appends.         *)
LEMMA InsertCall ==
    ASSUME NEW h, NEW K, InOrder(h, K), NEW p \in DOMAIN K, NEW s, s = K[p], NEW i, MayHold(K, p, i),
           NEW n \in 0 .. Len(s)
    PROVE  InOrder(Insert(h, p, n, i), WithList(K, p, InsertAt(s, n + 1, i)))
<1>0. /\ ListOf(h, K, p, s) /\ Children(h, p) = s /\ DOMAIN s = 1 .. Len(s)
      /\ i \in DOMAIN K /\ ~Placed(K, i)
  BY TheList, ChildrenSeq, RepPlace DEF InOrder, MayHold
<1>1. CASE n = Len(s)
  <2>1. Insert(h, p, n, i) = AddToArray(h, p, i)
    <3>1. n + 1 \notin DOMAIN s
      BY <1>0, <1>1 DEF ListOf
    <3>2. ArrayItem(h, p, n) = Nil
      BY <1>0, <3>1 DEF ArrayItem
    <3> QED
      BY <3>2 DEF Insert
  <2> QED
    BY <1>1, <2>1, AddTree
<1>2. CASE n # Len(s)
  <2> DEFINE k == Len(s)
             at == s[n + 1]
             pv == h[at].prev
             g == Insert(h, p, n, i)
             d == [h EXCEPT ![i].next = at]
             e == [d EXCEPT ![i].prev = pv]
             linked == [e EXCEPT ![at].prev = i]
  <2>1. /\ n + 1 \in 1 .. k /\ k \in Nat /\ at \in DOMAIN K /\ at # Nil
        /\ h[p].child = s[1] /\ Heap(h) /\ DOMAIN h = DOMAIN K /\ Nil \notin DOMAIN K
        /\ (at = s[1] <=> n = 0) /\ pv = (IF n = 0 THEN s[k] ELSE s[n]) /\ pv \in DOMAIN K
        /\ \A m \in 1 .. k : s[m] \in DOMAIN K /\ s[m] # i
    <3>1. /\ n + 1 \in 1 .. k /\ 1 \in 1 .. k /\ k \in 1 .. k /\ k \in Nat
          /\ (n # 0 => n \in 1 .. k)
      <4>1. Len(s) \in Nat
        BY <1>0 DEF ListOf
      <4> QED
        BY <1>2, <4>1
    <3>2. /\ \A m \in 1 .. k : s[m] \in DOMAIN K /\ s[m] # i
          /\ Heap(h) /\ DOMAIN h = DOMAIN K /\ Nil \notin DOMAIN K
      BY <1>0 DEF ListOf, Placed
    <3>3. pv = PrevOf(s, n + 1) /\ h[p].child = s[1]
      BY <1>0, <3>1 DEF ListOf, FirstOf
    <3>4. at = s[1] <=> n = 0
      BY <1>0, <3>1 DEF ListOf
    <3> QED
      BY <3>1, <3>2, <3>3, <3>4 DEF PrevOf
  <2>2. /\ ArrayItem(h, p, n) = at
        /\ g = IF n = 0 THEN [linked EXCEPT ![p].child = i] ELSE [linked EXCEPT ![pv].next = i]
    <3>1. ArrayItem(h, p, n) = at
      BY <1>0, <2>1 DEF ArrayItem
    <3> QED
      BY <2>1, <3>1, ZenonT(30) DEF Insert
  <2> HIDE DEF at, pv, k, g
  <2>3. NextSet(d, h, i, at)
    BY <1>0, <2>1, SetNext
  <2>4. Heap(d) /\ DOMAIN d = DOMAIN K
    BY <2>1, <2>3 DEF NextSet, Alike
  <2> HIDE DEF d
  <2>5. PrevSet(e, d, i, pv)
    BY <1>0, <2>1, <2>4, SetPrev
  <2>6. Heap(e) /\ DOMAIN e = DOMAIN K
    BY <2>4, <2>5 DEF PrevSet, Alike
  <2> HIDE DEF e
  <2>7. PrevSet(linked, e, at, i)
    BY <1>0, <2>1, <2>6, SetPrev
  <2>8. Heap(linked) /\ DOMAIN linked = DOMAIN K
    BY <2>6, <2>7 DEF PrevSet, Alike
  <2> HIDE DEF linked
  <2>9. /\ SameChild(linked, h, DOMAIN K)
        /\ \A j \in DOMAIN K : /\ linked[j].next = IF j = i THEN at ELSE h[j].next
                               /\ linked[j].prev = IF j = at THEN i ELSE IF j = i THEN pv ELSE h[j].prev
    BY <2>1, <2>3, <2>4, <2>5, <2>6, <2>7 DEF NextSet, PrevSet, Alike, SameNext, SamePrev, SameChild
  <2>10. /\ Alike(g, h) /\ SameChild(g, h, DOMAIN K \ {p}) /\ g[p].child = IF n = 0 THEN i ELSE s[1]
         /\ \A j \in DOMAIN K : /\ g[j].next = IF n # 0 /\ j = pv THEN i ELSE linked[j].next
                                /\ g[j].prev = linked[j].prev
    <3>1. CASE n = 0
      <4>1. ChildSet(g, linked, p, i)
        BY <1>0, <2>1, <2>2, <2>8, <3>1, SetChild
      <4> QED
        BY <2>1, <2>8, <2>9, <3>1, <4>1 DEF ChildSet, Alike, SameNext, SamePrev, SameChild
    <3>2. CASE n # 0
      <4>1. NextSet(g, linked, pv, i)
        BY <1>0, <2>1, <2>2, <2>8, <3>2, SetNext
      <4> QED
        BY <2>1, <2>8, <2>9, <3>2, <4>1 DEF NextSet, Alike, SameNext, SamePrev, SameChild
    <3> QED
      BY <3>1, <3>2
  <2>11. n + 1 # Len(s) + 1 /\ n + 1 - 1 = n /\ Len(s) # 0 /\ (n + 1 = 1 <=> n = 0) /\ n + 1 \in 1 .. Len(s) + 1
    BY <1>2, <2>1 DEF k
  <2>12. at # i /\ pv # i
    <3>1. pv = s[IF n = 0 THEN k ELSE n] /\ (IF n = 0 THEN k ELSE n) \in 1 .. k
      BY <2>1
    <3> QED
      BY <2>1, <3>1 DEF at
  <2>13. Inserts(g, h, p, s, n + 1, i)
    BY <2>1, <2>9, <2>10, <2>11, <2>12 DEF Inserts, at, k
  <2> QED
    BY <2>11, <2>13, InsertTree DEF g
<1> QED
  BY <1>1, <1>2

(* Without a set of items that leads nowhere else and that nothing else    *)
(* leads to, what is left are the other trees.                             *)
LEMMA PartTree ==
    ASSUME NEW h, NEW K, InOrder(h, K), NEW D \in SUBSET DOMAIN K, Shut(Kin(K), D),
           \A p \in DOMAIN K \ D : Kin(K)[p] \cap D = {}
    PROVE  InOrder(Restrict(h, DOMAIN K \ D), Restrict(K, DOMAIN K \ D))
<1> DEFINE E == DOMAIN K \ D
           g == Restrict(h, E)
           L == Restrict(K, E)
<1>0. Rep(h, K) /\ DOMAIN h = DOMAIN K
  BY DEF InOrder, Rep
<1>1. g = Restrict(h, E)
  OBVIOUS
<1>2. /\ Graph(Kin(K)) /\ DOMAIN Kin(K) = DOMAIN K /\ OneParent(Kin(K))
      /\ \A p \in DOMAIN K : Kin(K)[p] = {K[p][n] : n \in 1 .. Len(K[p])}
      /\ \A j : Placed(K, j) <=> \E p \in DOMAIN K : j \in Kin(K)[p]
  BY <1>0, KinGraph
<1>3. Shut(Kin(K), D)
  OBVIOUS
<1>4. \A p \in E : Kin(K)[p] \cap D = {}
  OBVIOUS
<1>5. /\ DOMAIN L = E /\ DOMAIN g = E /\ \A p \in E : L[p] = K[p] /\ g[p] = h[p]
  BY <1>1 DEF Restrict
<1>6. ASSUME NEW p \in E
      PROVE  /\ K[p] \in Seq(E) /\ Len(K[p]) \in Nat /\ \A n \in 1 .. Len(K[p]) : K[p][n] \in E
             /\ Kin(L)[p] = Kin(K)[p]
  <2>1. /\ K[p] \in Seq(DOMAIN K) /\ Len(K[p]) \in Nat /\ DOMAIN K[p] = 1 .. Len(K[p])
        /\ \A n \in 1 .. Len(K[p]) : K[p][n] \in DOMAIN K
    BY <1>0, RepPlace
  <2>2. \A n \in 1 .. Len(K[p]) : K[p][n] \in E
    BY <1>2, <1>4, <2>1
  <2>3. K[p] \in [1 .. Len(K[p]) -> E]
    BY <2>1, <2>2, LenProperties
  <2>4. K[p] \in Seq(E)
    BY <2>1, <2>3, SeqDef
  <2> QED
    BY <1>5, <2>1, <2>2, <2>4 DEF Kin
<1> HIDE DEF E, L, g
<1>7. \A j \in E : Placed(L, j) <=> Placed(K, j)
  <2> SUFFICES ASSUME NEW j \in E PROVE Placed(L, j) <=> Placed(K, j)
    OBVIOUS
  <2>1. Placed(L, j) => Placed(K, j)
    BY <1>5 DEF Placed, E
  <2>2. ASSUME Placed(K, j) PROVE Placed(L, j)
    <3>1. PICK p \in DOMAIN K : \E n \in 1 .. Len(K[p]) : K[p][n] = j
      BY <2>2 DEF Placed
    <3>2. j \in Kin(K)[p]
      BY <1>2, <3>1
    <3>3. p \in E
      BY <1>3, <3>2 DEF E, Shut
    <3> QED
      BY <1>5, <3>1, <3>3 DEF Placed
  <2> QED
    BY <2>1, <2>2
<1>8. Linked(g, L)
  <2>1. ASSUME NEW p \in E
        PROVE  /\ g[p].child = FirstOf(L[p])
               /\ \A n \in 1 .. Len(L[p]) : g[L[p][n]].next = NextOf(L[p], n) /\ g[L[p][n]].prev = PrevOf(L[p], n)
    BY <1>0, <1>5, <1>6 DEF Rep, Linked, E
  <2>2. \A j \in E : ~Placed(L, j) => g[j].next = Nil /\ g[j].prev = Nil
    BY <1>0, <1>5, <1>7 DEF Rep, Linked, E
  <2> QED
    BY <1>5, <2>1, <2>2 DEF Linked
<1>9. \A j \in E : {g[j].next, g[j].prev, g[j].child} \subseteq E \cup {Nil}
  <2> SUFFICES ASSUME NEW j \in E PROVE {g[j].next, g[j].prev, g[j].child} \subseteq E \cup {Nil}
    OBVIOUS
  <2>1. g[j].child \in E \cup {Nil}
    BY <1>5, <1>6, <1>8 DEF Linked, FirstOf
  <2>2. CASE ~Placed(L, j)
    BY <1>5, <1>8, <2>1, <2>2 DEF Linked
  <2>3. CASE Placed(L, j)
    <3>1. PICK p \in E : \E n \in 1 .. Len(L[p]) : L[p][n] = j
      BY <1>5, <2>3 DEF Placed
    <3>2. PICK n \in 1 .. Len(L[p]) : L[p][n] = j
      BY <3>1
    <3>3. g[j].next = NextOf(L[p], n) /\ g[j].prev = PrevOf(L[p], n)
      BY <1>5, <1>8, <3>2 DEF Linked
    <3>4. /\ Len(L[p]) \in Nat /\ \A m \in 1 .. Len(L[p]) : L[p][m] \in E
      BY <1>5, <1>6
    <3>5. NextOf(L[p], n) \in E \cup {Nil} /\ PrevOf(L[p], n) \in E
      BY <3>4 DEF NextOf, PrevOf
    <3> QED
      BY <2>1, <3>3, <3>5
  <2> QED
    BY <2>2, <2>3
<1>10. Heap(g)
  <2>1. E \in SUBSET Item /\ E \subseteq DOMAIN h
    BY <1>0 DEF Rep, Heap, E
  <2>2. g = [j \in E |-> h[j]]
    BY <1>1 DEF Restrict, E, g
  <2>3. \A j \in E : h[j] = [type |-> h[j].type, name |-> h[j].name, str |-> h[j].str,
                             next |-> h[j].next, prev |-> h[j].prev, child |-> h[j].child]
    BY <1>0, <2>1 DEF Rep, Heap
  <2> QED
    BY <1>5, <1>9, <2>1, <2>2, <2>3 DEF Heap
<1>11. L \in [E -> Seq(E)]
  BY <1>6 DEF L, Restrict
<1>12. Apart(L)
  BY <1>0, <1>5 DEF Rep, Apart, E
<1>13. Rep(g, L)
  BY <1>5, <1>8, <1>10, <1>11, <1>12 DEF Rep
<1>14. Founded(Kin(L)) /\ Rooted(Kin(L))
  <2>1. DOMAIN Kin(L) = E /\ E \subseteq DOMAIN Kin(K)
    BY <1>2, <1>5 DEF Kin, E
  <2>2. \A p \in E : Kin(L)[p] \subseteq Kin(K)[p]
    BY <1>6
  <2> QED
    BY <2>1, <2>2, FewerEdges DEF InOrder
<1> QED
  BY <1>13, <1>14 DEF InOrder, E, g, L

(* cJSON_Delete of a loose item: what is left are the other trees.         *)
LEMMA DeleteTree ==
    ASSUME NEW h, NEW K, InOrder(h, K), NEW i \in DOMAIN K, ~Placed(K, i)
    PROVE  LET D == Under(Kin(K), i) IN
           /\ Delete(h, i) = Restrict(h, DOMAIN h \ D)
           /\ InOrder(Delete(h, i), Restrict(K, DOMAIN K \ D))
<1> DEFINE D == Under(Kin(K), i)
           g == Delete(h, i)
           E == DOMAIN K \ D
           L == Restrict(K, E)
<1>0. Rep(h, K) /\ DOMAIN h = DOMAIN K
  BY DEF InOrder, Rep
<1>1. g = Restrict(h, E)
  BY <1>0, FreedLoose DEF Delete, InOrder
<1>2. /\ Graph(Kin(K)) /\ DOMAIN Kin(K) = DOMAIN K /\ OneParent(Kin(K))
      /\ \A p \in DOMAIN K : Kin(K)[p] = {K[p][n] : n \in 1 .. Len(K[p])}
      /\ \A j : Placed(K, j) <=> \E p \in DOMAIN K : j \in Kin(K)[p]
  BY <1>0, KinGraph
<1>3. D \in SUBSET DOMAIN K /\ i \in D /\ Shut(Kin(K), D)
  BY <1>2, UnderSet
<1> HIDE DEF D
<1>4. \A p \in E : Kin(K)[p] \cap D = {}
  <2> SUFFICES ASSUME NEW p \in E, NEW x \in Kin(K)[p], x \in D PROVE FALSE
    OBVIOUS
  <2>1. x # i
    BY <1>2
  <2>2. PICK q \in D : x \in Kin(K)[q]
    BY <1>2, <2>1, UnderParent DEF D
  <2> QED
    BY <1>2, <1>3, <2>2 DEF OneParent
<1> QED
  BY <1>0, <1>1, <1>3, <1>4, PartTree DEF D

(* cJSON_New_Item: an item without children in no list.                    *)
LEMMA FreshItem == ASSUME NEW h, Heap(h), ~Full(h)
                   PROVE  Fresh(h) \in Item \ DOMAIN h
<1>1. Item \ DOMAIN h # {} /\ Item \ DOMAIN h \subseteq Nat
  <2>1. DOMAIN h \subseteq Item /\ DOMAIN h # Item
    BY DEF Heap, Full
  <2>2. Item \subseteq Nat
    BY CJsonAssumption DEF Item
  <2> QED
    BY <2>1, <2>2
<1>2. \E i \in Item \ DOMAIN h : \A j \in Item \ DOMAIN h : i <= j
  BY <1>1, LeastNat
<1> QED
  BY <1>2 DEF Fresh

WithLeaf(K, f) == [j \in DOMAIN K \cup {f} |-> IF j = f THEN <<>> ELSE K[j]]

LEMMA NewTree ==
    ASSUME NEW h, NEW K, InOrder(h, K), ~Full(h), NEW type
    PROVE  LET f == Fresh(h) IN
           /\ f \in Item \ DOMAIN K
           /\ InOrder(WithItem(h, type), WithLeaf(K, f)) /\ ~Placed(WithLeaf(K, f), f)
<1> DEFINE f == Fresh(h)
           g == WithItem(h, type)
           L == WithLeaf(K, f)
           E == DOMAIN K \cup {f}
<1>1. f \in Item \ DOMAIN K /\ Heap(h) /\ DOMAIN h = DOMAIN K /\ Nil \notin Item
  BY FreshItem DEF InOrder, Rep, Nil, Item
<1>2. /\ \A p \in DOMAIN K : K[p] \in Seq(DOMAIN K) /\ \A n \in 1 .. Len(K[p]) : K[p][n] \in DOMAIN K
      /\ \A p \in DOMAIN K : Kin(K)[p] \subseteq DOMAIN K
  BY RepPlace, KinGraph DEF InOrder, Graph
<1>3. /\ DOMAIN L = E /\ L[f] = <<>> /\ \A p \in DOMAIN K : L[p] = K[p]
  BY <1>1 DEF WithLeaf
<1>4. g = [j \in E |-> IF j = f THEN [Fields EXCEPT !.type = type] ELSE h[j]]
  BY <1>1 DEF WithItem
<1>5. /\ DOMAIN g = E /\ \A j \in DOMAIN K : g[j] = h[j]
      /\ g[f] = [type |-> type, name |-> NoStr, str |-> NoStr, next |-> Nil, prev |-> Nil, child |-> Nil]
  BY <1>1, <1>4 DEF Fields
<1> HIDE DEF f, g, L
<1>6. Heap(g)
  <2>1. g = [j \in E |-> [type |-> g[j].type, name |-> g[j].name, str |-> g[j].str,
                          next |-> g[j].next, prev |-> g[j].prev, child |-> g[j].child]]
    BY <1>1, <1>4, <1>5 DEF Heap
  <2> QED
    BY <1>1, <1>5, <2>1 DEF Heap
<1>7. L \in [E -> Seq(E)]
  <2>1. \A p \in DOMAIN K : K[p] \in Seq(E)
    BY <1>2, SeqMonotonic
  <2>2. L = [j \in E |-> IF j = f THEN <<>> ELSE K[j]]
    BY DEF L, WithLeaf
  <2>3. <<>> \in Seq(E)
    OBVIOUS
  <2> QED
    BY <2>1, <2>2, <2>3
<1>8. \A i : Placed(L, i) <=> Placed(K, i)
  BY <1>1, <1>3 DEF Placed
<1>9. Apart(L)
  BY <1>1, <1>3 DEF Apart, InOrder, Rep
<1>10. ~Placed(K, f)
  BY <1>1, <1>2 DEF Placed
<1>11. Linked(g, L)
  <2>1. \A p \in DOMAIN K : /\ g[p].child = FirstOf(L[p])
                            /\ \A n \in 1 .. Len(L[p]) : g[L[p][n]].next = NextOf(L[p], n) /\ g[L[p][n]].prev = PrevOf(L[p], n)
    BY <1>2, <1>3, <1>5 DEF InOrder, Rep, Linked
  <2>2. g[f].child = FirstOf(L[f]) /\ \A n \in 1 .. Len(L[f]) : FALSE
    BY <1>3, <1>5 DEF FirstOf
  <2>3. \A i \in E : ~Placed(L, i) => g[i].next = Nil /\ g[i].prev = Nil
    BY <1>5, <1>8 DEF InOrder, Rep, Linked
  <2> QED
    BY <1>3, <2>1, <2>2, <2>3 DEF Linked
<1>12. Rep(g, L)
  BY <1>3, <1>5, <1>6, <1>7, <1>9, <1>11 DEF Rep
<1>13. /\ DOMAIN Kin(L) = E /\ DOMAIN Kin(K) = DOMAIN K /\ Kin(L)[f] = {} /\ \A p \in DOMAIN K : Kin(L)[p] = Kin(K)[p]
  BY <1>1, <1>3 DEF Kin, ToSet
<1>14. ASSUME NEW C \in SUBSET E, C # {}
       PROVE  (\E x \in C : Kin(L)[x] \cap C = {}) /\ (\E x \in C : \A y \in C : x \notin Kin(L)[y])
  <2>1. CASE C \cap DOMAIN K = {}
    <3>1. C = {f}
      BY <1>14, <2>1
    <3> QED
      BY <1>13, <3>1
  <2>2. CASE C \cap DOMAIN K # {}
    <3>1. PICK x \in C \cap DOMAIN K : Kin(K)[x] \cap (C \cap DOMAIN K) = {}
      BY <1>13, <2>2 DEF InOrder, Founded
    <3>2. PICK z \in C \cap DOMAIN K : \A y \in C \cap DOMAIN K : z \notin Kin(K)[y]
      BY <1>13, <2>2 DEF InOrder, Rooted
    <3>3. Kin(L)[x] \cap C = {}
      BY <1>2, <1>13, <3>1
    <3>4. \A y \in C : z \notin Kin(L)[y]
      BY <1>13, <3>2
    <3> QED
      BY <3>3, <3>4
  <2> QED
    BY <2>1, <2>2
<1>15. Founded(Kin(L)) /\ Rooted(Kin(L))
  BY <1>13, <1>14 DEF Founded, Rooted
<1> QED
  BY <1>1, <1>8, <1>10, <1>12, <1>15 DEF InOrder, f, g, L

(* A change of p's list leaves what is below an item that p is not below.  *)
LEMMA BelowKept ==
    ASSUME NEW h, NEW K, InOrder(h, K), NEW p \in DOMAIN K, NEW t, NEW g, InOrder(g, WithList(K, p, t)),
           NEW i \in DOMAIN K, p \notin Under(Kin(K), i)
    PROVE  Under(Kin(WithList(K, p, t)), i) = Under(Kin(K), i)
<1> DEFINE L == WithList(K, p, t)
<1>1. Graph(Kin(K)) /\ DOMAIN Kin(K) = DOMAIN K /\ Graph(Kin(L)) /\ DOMAIN Kin(L) = DOMAIN L
  BY KinGraph DEF InOrder
<1>2. DOMAIN L = DOMAIN K /\ \A q \in DOMAIN K \ {p} : L[q] = K[q]
  BY DEF WithList
<1>3. Under(Kin(K), i) \subseteq DOMAIN K
  BY <1>1, UnderSet
<1> HIDE DEF L
<1>4. \A j \in Under(Kin(K), i) : Kin(L)[j] = Kin(K)[j]
  BY <1>2, <1>3 DEF Kin
<1> QED
  BY <1>1, <1>2, <1>3, <1>4, UnderSame DEF L

(* An item is not below its own children.                                  *)
LEMMA ParentAbove ==
    ASSUME NEW h, NEW K, InOrder(h, K), NEW p \in DOMAIN K, NEW n \in 1 .. Len(K[p])
    PROVE  K[p][n] \in DOMAIN K /\ Placed(K, K[p][n]) /\ p \notin Under(Kin(K), K[p][n])
<1>1. Rep(h, K) /\ Rooted(Kin(K))
  BY DEF InOrder
<1>2. K[p][n] \in DOMAIN K /\ Placed(K, K[p][n])
  BY <1>1, RepPlace DEF Placed
<1>3. K[p][n] \in Kin(K)[p] /\ Graph(Kin(K)) /\ DOMAIN Kin(K) = DOMAIN K
  BY <1>1, KinGraph
<1> QED
  BY <1>1, <1>2, <1>3, NoReturn

(* cJSON_ReplaceItemViaPointer puts r in the place of i and deletes i.     *)
Swapped(h, p, i, r) ==
    LET first == h[p].child
        nx == h[i].next
        alone == i = first /\ h[first].prev = first
        copied == [h EXCEPT ![r].next = nx, ![r].prev = IF alone THEN r ELSE h[i].prev]
        after == IF nx # Nil THEN [copied EXCEPT ![nx].prev = r] ELSE copied
        before == IF i = first THEN [after EXCEPT ![p].child = r]
                  ELSE [after EXCEPT ![h[i].prev].next = r]
        ends == IF i # first /\ nx = Nil THEN [before EXCEPT ![first].prev = r] ELSE before
    IN [ends EXCEPT ![i].next = Nil, ![i].prev = Nil]

Exchanged(g, h, p, i, r, first, nx, pv, rv) ==
    /\ Alike(g, h)
    /\ g[p].child = (IF i = first THEN r ELSE first)
    /\ SameChild(g, h, DOMAIN h \ {p})
    /\ \A j \in DOMAIN h :
         /\ g[j].next = IF j = i THEN Nil ELSE IF i # first /\ j = pv THEN r
                        ELSE IF j = r THEN nx ELSE h[j].next
         /\ g[j].prev = IF j = i THEN Nil ELSE IF i # first /\ nx = Nil /\ j = first THEN r
                        ELSE IF j = nx THEN r ELSE IF j = r THEN rv ELSE h[j].prev

LEMMA SwapFields ==
    ASSUME NEW h, Heap(h), Nil \notin DOMAIN h, NEW p \in DOMAIN h, NEW i \in DOMAIN h,
           NEW r \in DOMAIN h, NEW first \in DOMAIN h, NEW nx \in DOMAIN h \cup {Nil},
           NEW pv \in DOMAIN h, NEW rv \in DOMAIN h,
           h[p].child = first, h[i].next = nx, h[i].prev = pv, r # i, r # first, r # nx, r # pv,
           rv = IF i = first /\ h[first].prev = first THEN r ELSE pv
    PROVE  Exchanged(Swapped(h, p, i, r), h, p, i, r, first, nx, pv, rv)
<1> DEFINE D == DOMAIN h
           c == [h EXCEPT ![r].next = nx]
           copied == [c EXCEPT ![r].prev = rv]
           after == IF nx # Nil THEN [copied EXCEPT ![nx].prev = r] ELSE copied
           before == IF i = first THEN [after EXCEPT ![p].child = r] ELSE [after EXCEPT ![pv].next = r]
           ends == IF i # first /\ nx = Nil THEN [before EXCEPT ![first].prev = r] ELSE before
           e == [ends EXCEPT ![i].next = Nil]
           g == [e EXCEPT ![i].prev = Nil]
<1>0. Swapped(h, p, i, r) = g
  BY DEF Swapped
<1>1. NextSet(c, h, r, nx) /\ Heap(c) /\ DOMAIN c = D
  BY SetNext DEF NextSet, Alike
<1> HIDE DEF c
<1>2. PrevSet(copied, c, r, rv) /\ Heap(copied) /\ DOMAIN copied = D
  <2>1. PrevSet(copied, c, r, rv)
    <3>1. Heap(c) /\ r \in DOMAIN c /\ rv \in DOMAIN c \cup {Nil}
      BY <1>1
    <3> QED
      BY ONLY <3>1, SetPrev
  <2> QED
    BY <1>1, <2>1 DEF PrevSet, Alike
<1> HIDE DEF copied
<1>3. /\ Heap(after) /\ DOMAIN after = D /\ SameNext(after, copied, D) /\ SameChild(after, copied, D)
      /\ \A j \in D : after[j].prev = IF j = nx THEN r ELSE copied[j].prev
  <2>1. CASE nx # Nil
    <3>1. after = [copied EXCEPT ![nx].prev = r]
      BY <2>1
    <3> HIDE DEF after
    <3>2. PrevSet(after, copied, nx, r)
      BY <1>2, <2>1, <3>1, SetPrev
    <3> QED
      BY <1>2, <2>1, <3>2 DEF PrevSet, Alike, SamePrev
  <2>2. CASE nx = Nil
    BY <1>2, <2>2 DEF SameNext, SameChild
  <2> QED
    BY <2>1, <2>2
<1> HIDE DEF after
<1>4. /\ Heap(before) /\ DOMAIN before = D /\ SamePrev(before, after, D) /\ SameChild(before, after, D \ {p})
      /\ before[p].child = IF i = first THEN r ELSE after[p].child
      /\ \A j \in D : before[j].next = IF i # first /\ j = pv THEN r ELSE after[j].next
  <2>1. CASE i = first
    <3>1. before = [after EXCEPT ![p].child = r]
      BY <2>1
    <3> HIDE DEF before
    <3>2. ChildSet(before, after, p, r)
      BY <1>3, <3>1, SetChild
    <3> QED
      BY <1>3, <2>1, <3>2 DEF ChildSet, Alike, SameNext
  <2>2. CASE i # first
    <3>1. before = [after EXCEPT ![pv].next = r]
      BY <2>2
    <3> HIDE DEF before
    <3>2. NextSet(before, after, pv, r)
      BY <1>3, <3>1, SetNext
    <3> QED
      BY <1>3, <2>2, <3>2 DEF NextSet, Alike, SameNext, SameChild
  <2> QED
    BY <2>1, <2>2
<1> HIDE DEF before
<1>5. /\ Heap(ends) /\ DOMAIN ends = D /\ SameNext(ends, before, D) /\ SameChild(ends, before, D)
      /\ \A j \in D : ends[j].prev = IF i # first /\ nx = Nil /\ j = first THEN r ELSE before[j].prev
  <2>1. CASE i # first /\ nx = Nil
    <3>1. ends = [before EXCEPT ![first].prev = r]
      BY <2>1
    <3> HIDE DEF ends
    <3>2. PrevSet(ends, before, first, r)
      BY <1>4, <3>1, SetPrev
    <3> QED
      BY <1>4, <2>1, <3>2 DEF PrevSet, Alike, SamePrev
  <2>2. CASE ~(i # first /\ nx = Nil)
    <3>1. ends = before
      BY <2>2
    <3> QED
      BY <1>4, <2>2, <3>1 DEF SameNext, SameChild
  <2> QED
    BY <2>1, <2>2
<1> HIDE DEF ends
<1>6. NextSet(e, ends, i, Nil) /\ Heap(e) /\ DOMAIN e = D
  BY <1>5, SetNext DEF NextSet, Alike
<1> HIDE DEF e
<1>7. PrevSet(g, e, i, Nil) /\ Heap(g) /\ DOMAIN g = D
  BY <1>6, SetPrev DEF PrevSet, Alike
<1> HIDE DEF g
<1>8. \A j \in D : g[j].next = IF j = i THEN Nil ELSE IF i # first /\ j = pv THEN r
                               ELSE IF j = r THEN nx ELSE h[j].next
  <2>1. \A j \in D : c[j].next = IF j = r THEN nx ELSE h[j].next
    BY <1>1 DEF NextSet, SameNext
  <2>2. \A j \in D : after[j].next = c[j].next
    BY <1>1, <1>2, <1>3 DEF PrevSet, SameNext
  <2>3. \A j \in D : g[j].next = IF j = i THEN Nil ELSE before[j].next
    BY <1>5, <1>6, <1>7 DEF PrevSet, NextSet, SameNext
  <2> QED
    BY <1>4, <2>1, <2>2, <2>3
<1>9. \A j \in D : g[j].prev = IF j = i THEN Nil ELSE IF i # first /\ nx = Nil /\ j = first THEN r
                               ELSE IF j = nx THEN r ELSE IF j = r THEN rv ELSE h[j].prev
  <2>1. \A j \in D : copied[j].prev = IF j = r THEN rv ELSE h[j].prev
    BY <1>1, <1>2 DEF NextSet, PrevSet, SamePrev
  <2>2. \A j \in D : before[j].prev = IF j = nx THEN r ELSE copied[j].prev
    BY <1>3, <1>4 DEF SamePrev
  <2>3. \A j \in D : g[j].prev = IF j = i THEN Nil ELSE ends[j].prev
    BY <1>5, <1>6, <1>7 DEF PrevSet, NextSet, SamePrev
  <2> QED
    BY <1>5, <2>1, <2>2, <2>3
<1>10. \A j \in D : g[j].child = IF j = p /\ i = first THEN r ELSE h[j].child
  <2>1. \A j \in D : after[j].child = h[j].child
    BY <1>1, <1>2, <1>3 DEF NextSet, PrevSet, SameChild
  <2>2. \A j \in D : g[j].child = before[j].child
    BY <1>5, <1>6, <1>7 DEF NextSet, PrevSet, SameChild
  <2> QED
    BY <1>4, <2>1, <2>2 DEF SameChild
<1> QED
  BY <1>0, <1>7, <1>8, <1>9, <1>10 DEF Exchanged, Alike, SameChild

LEMMA SwapTree ==
    ASSUME NEW h, NEW K, InOrder(h, K), NEW p \in DOMAIN K, NEW s, s = K[p],
           NEW n \in 1 .. Len(s), NEW i, i = s[n], NEW r, MayHold(K, p, r)
    PROVE  LET L == WithList(K, p, [s EXCEPT ![n] = r]) IN
           InOrder(Swapped(h, p, i, r), L) /\ ~Placed(L, i)
<1> DEFINE k == Len(s)
           t == [s EXCEPT ![n] = r]
           g == Swapped(h, p, i, r)
           nx == NextOf(s, n)
           pv == PrevOf(s, n)
           rv == IF k = 1 THEN r ELSE pv
<1>0. Rep(h, K)
  BY DEF InOrder
<1>1. /\ s \in Seq(DOMAIN K) /\ k \in Nat
      /\ \A m \in 1 .. k : s[m] \in DOMAIN K
      /\ Kin(K)[p] = {s[m] : m \in 1 .. k}
      /\ \A m, q \in 1 .. k : s[m] = s[q] => m = q
      /\ \A m \in 1 .. k : \A q \in DOMAIN K \ {p} : s[m] \notin Kin(K)[q]
      /\ h[p].child = FirstOf(s)
      /\ \A m \in 1 .. k : h[s[m]].next = NextOf(s, m) /\ h[s[m]].prev = PrevOf(s, m)
      /\ Heap(h) /\ DOMAIN h = DOMAIN K /\ Nil \notin DOMAIN K
      /\ Graph(Kin(K)) /\ DOMAIN Kin(K) = DOMAIN K
  <2>1. ListOf(h, K, p, s)
    BY <1>0, TheList
  <2> QED
    BY <2>1 DEF ListOf
<1>2. /\ r \in DOMAIN K /\ \A q \in DOMAIN K : r \notin Kin(K)[q]
      /\ \A m \in 1 .. k : s[m] # r
  <2>1. \A q \in DOMAIN K : r \notin Kin(K)[q]
    BY <1>0, KinGraph DEF MayHold
  <2> QED
    BY <1>1, <2>1 DEF MayHold
<1>3. /\ t \in Seq(DOMAIN K) /\ Len(t) = k
      /\ \A m \in 1 .. k : t[m] = IF m = n THEN r ELSE s[m]
  <2>1. s \in Seq(DOMAIN K) /\ r \in DOMAIN K
    BY <1>1, <1>2
  <2> QED
    BY ONLY <2>1, ExceptSeq, n \in 1 .. Len(s)
<1>4. /\ k # 0 /\ 1 \in 1 .. k /\ k \in 1 .. k /\ i \in DOMAIN K
      /\ h[p].child = s[1] /\ s[1] \in DOMAIN K /\ s[k] \in DOMAIN K
      /\ (i = s[1] <=> n = 1) /\ h[s[1]].prev = s[k] /\ (s[k] = s[1] <=> k = 1)
      /\ (n # 1 => n - 1 \in 1 .. k) /\ (n # k => n + 1 \in 1 .. k) /\ n \in 1 .. k
  <2>1. /\ 1 \in 1 .. k /\ k \in 1 .. k /\ k # 0 /\ n \in 1 .. k
        /\ (n # 1 => n - 1 \in 1 .. k) /\ (n # k => n + 1 \in 1 .. k)
    BY <1>1
  <2>2. h[p].child = s[1] /\ h[s[1]].prev = s[k]
    BY <1>1, <2>1 DEF FirstOf, PrevOf
  <2>3. (i = s[1] <=> n = 1) /\ (s[k] = s[1] <=> k = 1)
    BY <1>1, <2>1
  <2> QED
    BY <1>1, <2>1, <2>2, <2>3
<1>5. /\ nx = (IF n = k THEN Nil ELSE s[n + 1]) /\ pv = (IF n = 1 THEN s[k] ELSE s[n - 1])
      /\ nx \in DOMAIN K \cup {Nil} /\ pv \in DOMAIN K
      /\ h[i].next = nx /\ h[i].prev = pv
      /\ r # i /\ r # s[1] /\ r # nx /\ r # pv /\ rv \in DOMAIN K
  BY <1>1, <1>2, <1>4, ZenonT(30) DEF NextOf, PrevOf
<1> HIDE DEF nx, pv, t, k
<1>6. rv = IF i = s[1] /\ h[s[1]].prev = s[1] THEN r ELSE pv
  BY <1>4
<1> HIDE DEF rv
<1>7. /\ Alike(g, h)
      /\ g[p].child = (IF n = 1 THEN r ELSE s[1])
      /\ SameChild(g, h, DOMAIN K \ {p})
      /\ \A j \in DOMAIN K :
           /\ g[j].next = IF j = i THEN Nil ELSE IF n # 1 /\ j = pv THEN r
                          ELSE IF j = r THEN nx ELSE h[j].next
           /\ g[j].prev = IF j = i THEN Nil ELSE IF n # 1 /\ nx = Nil /\ j = s[1] THEN r
                          ELSE IF j = nx THEN r ELSE IF j = r THEN rv ELSE h[j].prev
  <2>1. Exchanged(g, h, p, i, r, s[1], nx, pv, rv)
    BY <1>1, <1>2, <1>4, <1>5, <1>6, SwapFields
  <2> HIDE DEF g
  <2> QED
    BY <1>1, <1>4, <2>1 DEF Exchanged
<1> HIDE DEF g
<1>8. g[p].child = FirstOf(t)
  BY <1>1, <1>3, <1>4, <1>7 DEF FirstOf
<1>9. ASSUME NEW m \in 1 .. k
      PROVE  g[t[m]].next = NextOf(t, m) /\ g[t[m]].prev = PrevOf(t, m)
  <2>0. k \in Nat
    BY <1>1 DEF k
  <2>1. CASE m = n
    <3>1. t[m] = r /\ g[r].next = nx /\ g[r].prev = rv
      BY <1>2, <1>3, <1>5, <1>7, <2>1
    <3>2. NextOf(t, m) = nx
      BY <1>3, <1>4, <1>5, <2>1 DEF NextOf
    <3>3. PrevOf(t, m) = rv
      BY <1>3, <1>4, <1>5, <2>0, <2>1 DEF PrevOf, rv
    <3> QED
      BY <3>1, <3>2, <3>3
  <2>2. CASE m # n
    <3>1. t[m] = s[m] /\ s[m] # i /\ s[m] # r /\ s[m] \in DOMAIN K
      BY <1>1, <1>2, <1>3, <1>4, <2>2 DEF k
    <3>2. n # 1 => (s[m] = pv <=> m = n - 1)
      BY <1>1, <1>4, <1>5, <2>2 DEF k
    <3>3. g[s[m]].next = IF m = n - 1 THEN r ELSE NextOf(s, m)
      BY <1>1, <1>4, <1>7, <3>1, <3>2 DEF k
    <3>4. NextOf(t, m) = IF m = n - 1 THEN r ELSE NextOf(s, m)
      BY <1>3, <1>4, <2>0, SMTT(30) DEF NextOf, k
    <3>5. (s[m] = nx <=> m = n + 1) /\ (s[m] = s[1] <=> m = 1) /\ (nx = Nil <=> n = k)
      BY <1>1, <1>4, <1>5, <2>0, <2>2 DEF k
    <3>6. g[s[m]].prev = IF m = 1 /\ n = k THEN r ELSE IF m = n + 1 THEN r ELSE PrevOf(s, m)
      BY <1>1, <1>4, <1>7, <2>2, <3>1, <3>5 DEF k
    <3>7. PrevOf(t, m) = IF m = 1 /\ n = k THEN r ELSE IF m = n + 1 THEN r ELSE PrevOf(s, m)
      BY <1>3, <1>4, <2>0, <2>2 DEF PrevOf, k
    <3> QED
      BY <3>1, <3>3, <3>4, <3>6, <3>7
  <2> QED
    BY <2>1, <2>2
<1>10. ASSUME NEW j \in DOMAIN K, \A m \in 1 .. Len(t) : t[m] # j
       PROVE  IF j \in Kin(K)[p] THEN g[j].next = Nil /\ g[j].prev = Nil
              ELSE g[j].next = h[j].next /\ g[j].prev = h[j].prev
  <2>1. j # r
    BY <1>3, <1>4, <1>10
  <2>2. CASE j \in Kin(K)[p]
    <3>1. PICK m \in 1 .. k : j = s[m]
      BY <1>1, <2>2 DEF k
    <3>2. m = n
      BY <1>3, <1>10, <3>1
    <3> QED
      BY <1>7, <2>2, <3>1, <3>2
  <2>3. CASE j \notin Kin(K)[p]
    <3>1. j # i /\ j # pv /\ j # nx /\ j # s[1]
      BY <1>1, <1>4, <1>5, <2>3 DEF k
    <3> QED
      BY <1>7, <2>1, <2>3, <3>1
  <2> QED
    BY <2>2, <2>3
<1>11. \A m, q \in 1 .. k : t[m] = t[q] => m = q
  BY <1>1, <1>2, <1>3 DEF k
<1>12. \A m \in 1 .. k : t[m] \in Kin(K)[p] \cup {r} /\ t[m] # i
  BY <1>1, <1>3, <1>4, <1>5 DEF k
<1> DEFINE L == WithList(K, p, t)
<1>13. /\ Rep(g, L) /\ DOMAIN Kin(L) = DOMAIN K
       /\ Kin(L)[p] = {t[m] : m \in 1 .. k}
       /\ \A q \in DOMAIN K \ {p} : Kin(L)[q] = Kin(K)[q]
  <2>1. \A m \in 1 .. Len(t) : \A q \in DOMAIN K \ {p} : t[m] \notin Kin(K)[q]
    BY <1>1, <1>2, <1>3 DEF k
  <2>2. Fits(K, p, t)
    BY <1>3, <1>11, <2>1 DEF Fits
  <2>3. Relinks(g, h, K, p, t)
    BY <1>3, <1>7, <1>8, <1>9, <1>10 DEF Relinks
  <2> QED
    BY <1>0, <1>3, <2>2, <2>3, Relinked
<1> HIDE DEF L
<1>14. Founded(Kin(L)) /\ Rooted(Kin(L))
  <2>1. Kin(L)[p] \subseteq Kin(K)[p] \cup {r}
    BY <1>12, <1>13
  <2>2. \A q \in DOMAIN K \ {p} : Kin(L)[q] \subseteq Kin(K)[q]
    BY <1>13
  <2> QED
    BY <1>1, <1>2, <1>13, <2>1, <2>2, OneMoreEdge DEF InOrder, MayHold
<1>15. ~Placed(L, i)
  <2>1. \A q \in DOMAIN K : i \notin Kin(L)[q]
    BY <1>1, <1>4, <1>12, <1>13 DEF k
  <2>2. DOMAIN L = DOMAIN K
    BY DEF L, WithList
  <2> QED
    BY <1>13, <2>1, <2>2, KinGraph
<1> QED
  BY <1>13, <1>14, <1>15 DEF InOrder, t, g, L

(* cJSON_Duplicate copies the items at and below i into free ones.         *)
Twin(old, new, k) == CHOOSE j \in old : new[j] = k

WithCopy(K, old, new) ==
    [k \in DOMAIN K \cup Range(new) |->
       IF k \in DOMAIN K THEN K[k]
       ELSE LET o == Twin(old, new, k) IN [n \in DOMAIN K[o] |-> new[K[o][n]]]]

Before(h, old, j) == IF \E k \in old : h[k].next = j THEN CHOOSE k \in old : h[k].next = j
                     ELSE Last(List(h, j))

CopyOf(h, i, old, new, j) ==
    [h[j] EXCEPT !.child = IF @ = Nil THEN Nil ELSE new[@],
                 !.next = IF j = i THEN Nil ELSE IF @ = Nil THEN Nil ELSE new[@],
                 !.prev = IF j = i THEN Nil ELSE new[Before(h, old, j)]]

WithCopies(h, i, old, new) ==
    [k \in DOMAIN h \cup Range(new) |->
       IF k \in DOMAIN h THEN h[k] ELSE CopyOf(h, i, old, new, Twin(old, new, k))]

(* The element before j in its list, found without j's prev.               *)
LEMMA BeforePlace ==
    ASSUME NEW h, NEW K, InOrder(h, K), NEW i \in DOMAIN K, NEW p \in Under(Kin(K), i),
           NEW n \in 1 .. Len(K[p])
    PROVE  Before(h, Under(Kin(K), i), K[p][n]) = PrevOf(K[p], n)
<1> DEFINE old == Under(Kin(K), i)
           s == K[p]
           j == s[n]
<1>0. Rep(h, K) /\ Graph(Kin(K)) /\ DOMAIN Kin(K) = DOMAIN K
  BY KinGraph DEF InOrder
<1>1. old \in SUBSET DOMAIN K /\ Shut(Kin(K), old) /\ p \in DOMAIN K
  BY <1>0, UnderSet
<1>2. ListOf(h, K, p, s) /\ DOMAIN h = DOMAIN K
  BY <1>0, <1>1, TheList DEF ListOf
<1>3. ASSUME NEW k \in old, h[k].next = j
      PROVE  n # 1 /\ k = s[n - 1]
  <2>1. h[k].next # Nil
    BY <1>2, <1>3 DEF ListOf
  <2>2. Placed(K, k)
    BY <1>0, <1>1, <2>1 DEF Rep, Linked
  <2>3. PICK q \in DOMAIN K : \E m \in 1 .. Len(K[q]) : K[q][m] = k
    BY <2>2 DEF Placed
  <2>4. PICK m \in 1 .. Len(K[q]) : K[q][m] = k
    BY <2>3
  <2>5. h[k].next = NextOf(K[q], m) /\ Len(K[q]) \in Nat
    BY <1>0, <2>4, RepPlace DEF Rep, Linked
  <2>6. m + 1 \in 1 .. Len(K[q]) /\ K[q][m + 1] = j
    BY <1>3, <2>1, <2>5 DEF NextOf
  <2>7. q = p /\ m + 1 = n
    BY <1>0, <1>1, <2>6 DEF Rep, Apart
  <2> QED
    BY <2>4, <2>7
<1>4. CASE n = 1
  <2>1. Before(h, old, j) = Last(List(h, j))
    BY <1>3, <1>4 DEF Before
  <2>2. List(h, j) = SubSeq(s, 1, Len(s))
    BY <1>0, <1>1, <1>4, ListTails DEF InOrder
  <2>3. SubSeq(s, 1, Len(s)) = s
    BY <1>2, SubSeqFull DEF ListOf
  <2> QED
    BY <1>4, <2>1, <2>2, <2>3 DEF Last, PrevOf
<1>5. CASE n # 1
  <2>1. n - 1 \in 1 .. Len(s) /\ n - 1 # Len(s) /\ n - 1 + 1 = n
    BY <1>2, <1>5 DEF ListOf
  <2>2. h[s[n - 1]].next = j
    BY <1>2, <2>1 DEF ListOf, NextOf
  <2>3. s[n - 1] \in old
    BY <1>1, <1>2, <2>1 DEF ListOf, Shut
  <2>4. Before(h, old, j) = s[n - 1]
    BY <1>3, <2>2, <2>3 DEF Before
  <2> QED
    BY <1>5, <2>4 DEF PrevOf
<1> QED
  BY <1>4, <1>5

LEMMA CopyTree ==
    ASSUME NEW h, NEW K, InOrder(h, K), NEW i \in DOMAIN K, NEW old, old = Under(Kin(K), i),
           NEW new \in Injection(old, Item \ DOMAIN K)
    PROVE  InOrder(WithCopies(h, i, old, new), WithCopy(K, old, new))
<1> DEFINE g == WithCopies(h, i, old, new)
           L == WithCopy(K, old, new)
           R == {new[o] : o \in old}
           E == DOMAIN K \cup R
<1>0. /\ Rep(h, K) /\ Heap(h) /\ DOMAIN h = DOMAIN K /\ Nil \notin Item /\ DOMAIN K \subseteq Item
      /\ Graph(Kin(K)) /\ DOMAIN Kin(K) = DOMAIN K
      /\ \A p \in DOMAIN K : Kin(K)[p] = {K[p][n] : n \in 1 .. Len(K[p])}
  <2>1. Rep(h, K) /\ Heap(h) /\ DOMAIN h = DOMAIN K /\ DOMAIN K \subseteq Item
    BY DEF InOrder, Rep, Heap
  <2> QED
    BY <2>1, KinGraph DEF Nil, Item
<1>1. old \in SUBSET DOMAIN K /\ Shut(Kin(K), old) /\ i \in old
  BY <1>0, UnderSet
<1>2. /\ new \in [old -> Item \ DOMAIN K] /\ Range(new) = R /\ R \subseteq Item /\ R \cap DOMAIN K = {}
      /\ \A a, b \in old : new[a] = new[b] => a = b
  BY DEF Injection, IsInjective, Range
<1>3. \A o \in old : Twin(old, new, new[o]) = o
  BY <1>2 DEF Twin
<1>4. \A p \in DOMAIN K : /\ K[p] \in Seq(DOMAIN K) /\ Len(K[p]) \in Nat /\ DOMAIN K[p] = 1 .. Len(K[p])
                          /\ \A n \in 1 .. Len(K[p]) : K[p][n] \in DOMAIN K
  BY <1>0, RepPlace
<1>5. \A o \in old : \A n \in 1 .. Len(K[o]) : K[o][n] \in old \ {i}
  <2> SUFFICES ASSUME NEW o \in old, NEW n \in 1 .. Len(K[o]) PROVE K[o][n] \in old \ {i}
    OBVIOUS
  <2>1. K[o][n] \in Kin(K)[o]
    BY <1>0, <1>1
  <2>2. i \notin Kin(K)[o]
    BY <1>0, NoReturn DEF InOrder
  <2> QED
    BY <1>1, <2>1, <2>2 DEF Shut
<1>6. \A o \in old \ {i} : \E p \in old : \E n \in 1 .. Len(K[p]) : o = K[p][n]
  <2> SUFFICES ASSUME NEW o \in old \ {i} PROVE \E p \in old : \E n \in 1 .. Len(K[p]) : o = K[p][n]
    OBVIOUS
  <2>1. PICK p \in old : o \in Kin(K)[p]
    BY <1>0, UnderParent
  <2> QED
    BY <1>0, <1>1, <2>1
(* The children of the copies. *)
<1>7. /\ DOMAIN L = E /\ \A p \in DOMAIN K : L[p] = K[p]
      /\ \A o \in old : L[new[o]] = [n \in 1 .. Len(K[o]) |-> new[K[o][n]]]
  <2>1. DOMAIN L = E /\ \A p \in DOMAIN K : L[p] = K[p]
    BY <1>2 DEF WithCopy
  <2> SUFFICES ASSUME NEW o \in old PROVE L[new[o]] = [n \in 1 .. Len(K[o]) |-> new[K[o][n]]]
    BY <2>1
  <2>2. new[o] \notin DOMAIN K /\ new[o] \in R
    BY <1>2
  <2>3. L[new[o]] = [n \in DOMAIN K[Twin(old, new, new[o])] |-> new[K[Twin(old, new, new[o])][n]]]
    BY <1>2, <2>2 DEF WithCopy
  <2>4. DOMAIN K[o] = 1 .. Len(K[o])
    BY <1>1, <1>4
  <2> QED
    BY <1>3, <2>3, <2>4
<1>8. ASSUME NEW o \in old
      PROVE  /\ L[new[o]] \in Seq(R) /\ Len(L[new[o]]) = Len(K[o])
             /\ \A n \in 1 .. Len(K[o]) : L[new[o]][n] = new[K[o][n]]
  <2>1. Len(K[o]) \in Nat /\ \A n \in 1 .. Len(K[o]) : new[K[o][n]] \in R
    BY <1>1, <1>4, <1>5
  <2>2. L[new[o]] = [n \in 1 .. Len(K[o]) |-> new[K[o][n]]]
    BY <1>7
  <2>3. L[new[o]] \in [1 .. Len(K[o]) -> R]
    BY <2>1, <2>2
  <2>4. L[new[o]] \in Seq(R)
    BY <2>1, <2>3, SeqDef
  <2>5. Len(L[new[o]]) = Len(K[o])
    BY <2>1, <2>3, <2>4, LenProperties
  <2> QED
    BY <2>2, <2>4, <2>5
<1> HIDE DEF L
<1>9. L \in [E -> Seq(E)]
  <2>1. \A p \in DOMAIN K : L[p] \in Seq(E)
    BY <1>4, <1>7, SeqMonotonic
  <2>2. \A o \in old : L[new[o]] \in Seq(E)
    BY <1>8, SeqMonotonic
  <2>3. \A k \in E : L[k] \in Seq(E)
    BY <2>1, <2>2
  <2>4. L = [k \in E |-> L[k]]
    BY <1>2 DEF L, WithCopy
  <2> QED
    BY <2>3, <2>4
<1>10. Apart(L)
  <2> SUFFICES ASSUME NEW q \in E, NEW r \in E, NEW m \in 1 .. Len(L[q]), NEW n \in 1 .. Len(L[r]),
                      L[q][m] = L[r][n]
               PROVE  q = r /\ m = n
    BY <1>7 DEF Apart
  <2>1. CASE q \in DOMAIN K /\ r \in DOMAIN K
    BY <1>0, <1>7, <2>1 DEF Rep, Apart
  <2>2. \A k \in DOMAIN K : \A l \in 1 .. Len(L[k]) : L[k][l] \in DOMAIN K
    BY <1>4, <1>7
  <2>3. \A o \in old : \A l \in 1 .. Len(L[new[o]]) : L[new[o]][l] \in R
    <3> SUFFICES ASSUME NEW o \in old, NEW l \in 1 .. Len(L[new[o]]) PROVE L[new[o]][l] \in R
      OBVIOUS
    <3>1. l \in 1 .. Len(K[o]) /\ L[new[o]][l] = new[K[o][l]]
      BY <1>8
    <3> QED
      BY <1>5, <3>1
  <2>4. CASE q \notin DOMAIN K /\ r \notin DOMAIN K
    <3>1. PICK a \in old, b \in old : q = new[a] /\ r = new[b]
      BY <2>4
    <3>2. m \in 1 .. Len(K[a]) /\ n \in 1 .. Len(K[b]) /\ new[K[a][m]] = new[K[b][n]]
      BY <1>8, <3>1
    <3>3. K[a][m] = K[b][n]
      BY <1>2, <1>5, <3>2
    <3> QED
      BY <1>0, <1>1, <3>1, <3>2, <3>3, SMTT(30) DEF Rep, Apart
  <2> QED
    BY <1>2, <2>1, <2>2, <2>3, <2>4
(* The fields of the copies. *)
<1>11. /\ DOMAIN g = E /\ \A k \in DOMAIN K : g[k] = h[k]
       /\ \A o \in old : g[new[o]] = CopyOf(h, i, old, new, o)
  <2>1. DOMAIN g = E /\ \A k \in DOMAIN K : g[k] = h[k]
    BY <1>0, <1>2 DEF WithCopies
  <2> SUFFICES ASSUME NEW o \in old PROVE g[new[o]] = CopyOf(h, i, old, new, o)
    BY <2>1
  <2>2. new[o] \notin DOMAIN K /\ new[o] \in R
    BY <1>2
  <2>3. g[new[o]] = CopyOf(h, i, old, new, Twin(old, new, new[o]))
    BY <1>0, <1>2, <2>2 DEF WithCopies
  <2> QED
    BY <1>3, <2>3
<1>12. ASSUME NEW o \in old
       PROVE  /\ g[new[o]].next = (IF o = i THEN Nil ELSE IF h[o].next = Nil THEN Nil ELSE new[h[o].next])
              /\ g[new[o]].prev = (IF o = i THEN Nil ELSE new[Before(h, old, o)])
              /\ g[new[o]].child = (IF h[o].child = Nil THEN Nil ELSE new[h[o].child])
              /\ g[new[o]] = [type |-> g[new[o]].type, name |-> g[new[o]].name, str |-> g[new[o]].str,
                              next |-> g[new[o]].next, prev |-> g[new[o]].prev, child |-> g[new[o]].child]
  <2>1. h[o] = [type |-> h[o].type, name |-> h[o].name, str |-> h[o].str,
                next |-> h[o].next, prev |-> h[o].prev, child |-> h[o].child]
    BY <1>0, <1>1 DEF Heap
  <2>2. g[new[o]] = CopyOf(h, i, old, new, o)
    BY <1>11
  <2> HIDE DEF g
  <2> QED
    BY <2>1, <2>2 DEF CopyOf
<1>13. g = [k \in E |-> g[k]]
  BY <1>0, <1>2 DEF WithCopies
<1> HIDE DEF g, R, E
<1>a. \A o \in old : /\ Len(L[new[o]]) = Len(K[o]) /\ Len(K[o]) \in Nat
                       /\ \A n \in 1 .. Len(K[o]) : L[new[o]][n] \in E
  <2> SUFFICES ASSUME NEW o \in old
               PROVE  /\ Len(L[new[o]]) = Len(K[o]) /\ Len(K[o]) \in Nat
                      /\ \A n \in 1 .. Len(K[o]) : L[new[o]][n] \in E
    OBVIOUS
  <2>1. \A n \in 1 .. Len(K[o]) : L[new[o]][n] = new[K[o][n]] /\ K[o][n] \in old
    BY <1>5, <1>8
  <2>2. \A x \in old : new[x] \in E
    BY DEF E, R
  <2> QED
    BY <1>1, <1>4, <1>8, <2>1, <2>2
<1>14. ASSUME NEW o \in old
       PROVE  g[new[o]].child = FirstOf(L[new[o]])
  <2>1. h[o].child = FirstOf(K[o]) /\ Len(K[o]) \in Nat
    BY <1>0, <1>1, <1>4 DEF Rep, Linked
  <2>2. CASE Len(K[o]) = 0
    BY <1>8, <1>12, <2>1, <2>2 DEF FirstOf
  <2>3. CASE Len(K[o]) # 0
    <3>1. 1 \in 1 .. Len(K[o]) /\ h[o].child = K[o][1] /\ K[o][1] # Nil
      BY <1>0, <1>1, <1>4, <2>1, <2>3 DEF FirstOf
    <3>2. g[new[o]].child = new[K[o][1]]
      <4>1. g[new[o]].child = (IF h[o].child = Nil THEN Nil ELSE new[h[o].child])
        BY <1>12
      <4>2. h[o].child = K[o][1] /\ h[o].child # Nil
        BY <3>1
      <4> QED
        BY <4>1, <4>2
    <3>3. Len(L[new[o]]) = Len(K[o]) /\ L[new[o]][1] = new[K[o][1]]
      BY <1>8, <3>1
    <3> QED
      BY <2>3, <3>2, <3>3 DEF FirstOf
  <2> QED
    BY <2>2, <2>3
<1>15. ASSUME NEW o \in old, NEW n \in 1 .. Len(K[o])
       PROVE  /\ g[new[K[o][n]]].next = NextOf(L[new[o]], n)
              /\ g[new[K[o][n]]].prev = PrevOf(L[new[o]], n)
  <2> DEFINE j == K[o][n]
  <2>1. j \in old /\ j # i /\ Len(K[o]) \in Nat
    BY <1>1, <1>4, <1>5
  <2>2. h[j].next = NextOf(K[o], n) /\ Before(h, old, j) = PrevOf(K[o], n)
    BY <1>0, <1>1, BeforePlace DEF Rep, Linked
  <2> HIDE DEF j
  <2>3. g[new[j]].next = IF h[j].next = Nil THEN Nil ELSE new[h[j].next]
    BY <1>12, <2>1
  <2>4. g[new[j]].prev = new[Before(h, old, j)]
    BY <1>12, <2>1
  <2>5. ASSUME n = Len(K[o]) PROVE g[new[j]].next = NextOf(L[new[o]], n)
    <3>1. Len(L[new[o]]) = Len(K[o])
      BY <1>8
    <3> QED
      BY <2>2, <2>3, <2>5, <3>1 DEF NextOf
  <2>6. ASSUME n # Len(K[o]) PROVE g[new[j]].next = NextOf(L[new[o]], n)
    <3>1. n + 1 \in 1 .. Len(K[o]) /\ h[j].next = K[o][n + 1] /\ K[o][n + 1] # Nil
      BY <1>0, <1>1, <1>4, <2>1, <2>2, <2>6 DEF NextOf
    <3>2. Len(L[new[o]]) = Len(K[o]) /\ L[new[o]][n + 1] = new[K[o][n + 1]]
      BY <1>8, <3>1
    <3> QED
      BY <2>3, <2>6, <3>1, <3>2 DEF NextOf
  <2>7. PrevOf(L[new[o]], n) = new[PrevOf(K[o], n)]
    <3>1. (n = 1 => Len(K[o]) \in 1 .. Len(K[o])) /\ (n # 1 => n - 1 \in 1 .. Len(K[o]))
      BY <2>1
    <3> QED
      BY <1>8, <3>1 DEF PrevOf
  <2> QED
    BY <2>2, <2>4, <2>5, <2>6, <2>7 DEF j
<1>16. Linked(g, L)
  <2>1. ASSUME NEW p \in E
        PROVE  /\ g[p].child = FirstOf(L[p])
               /\ \A n \in 1 .. Len(L[p]) : g[L[p][n]].next = NextOf(L[p], n) /\ g[L[p][n]].prev = PrevOf(L[p], n)
    <3>1. CASE p \in DOMAIN K
      BY <1>0, <1>4, <1>7, <1>11, <3>1 DEF Rep, Linked
    <3>2. CASE p \notin DOMAIN K
      <4>1. PICK o \in old : p = new[o]
        BY <3>2 DEF E, R
      <4> QED
        BY <1>8, <1>14, <1>15, <4>1
    <3> QED
      BY <3>1, <3>2
  <2>2. ASSUME NEW k \in E, ~Placed(L, k) PROVE g[k].next = Nil /\ g[k].prev = Nil
    <3>1. CASE k \in DOMAIN K
      <4>1. ~Placed(K, k)
        <5> SUFFICES ASSUME NEW p \in DOMAIN K, NEW n \in 1 .. Len(K[p]), K[p][n] = k PROVE FALSE
          BY DEF Placed
        <5>1. p \in DOMAIN L /\ L[p] = K[p]
          BY <1>7 DEF E
        <5> QED
          BY <2>2, <5>1 DEF Placed
      <4> QED
        BY <1>0, <1>11, <3>1, <4>1 DEF Rep, Linked
    <3>2. CASE k \notin DOMAIN K
      <4>1. PICK o \in old : k = new[o]
        BY <3>2 DEF E, R
      <4>2. o = i
        <5> SUFFICES ASSUME o # i PROVE FALSE
          OBVIOUS
        <5>1. PICK p \in old : \E n \in 1 .. Len(K[p]) : o = K[p][n]
          BY <1>6
        <5>2. PICK n \in 1 .. Len(K[p]) : o = K[p][n]
          BY <5>1
        <5>3. new[p] \in DOMAIN L /\ n \in 1 .. Len(L[new[p]]) /\ L[new[p]][n] = k
          BY <1>7, <1>8, <4>1, <5>2 DEF E, R
        <5> QED
          BY <2>2, <5>3 DEF Placed
      <4> QED
        BY <1>12, <4>1, <4>2
    <3> QED
      BY <3>1, <3>2
  <2> QED
    BY <1>7, <2>1, <2>2 DEF Linked
<1>17. Heap(g)
  <2>1. E \subseteq Item
    BY <1>0, <1>2 DEF E
  <2>2. \A k \in E : g[k] = [type |-> g[k].type, name |-> g[k].name, str |-> g[k].str,
                             next |-> g[k].next, prev |-> g[k].prev, child |-> g[k].child]
    <3>1. \A k \in DOMAIN K : g[k] = [type |-> g[k].type, name |-> g[k].name, str |-> g[k].str,
                                      next |-> g[k].next, prev |-> g[k].prev, child |-> g[k].child]
      BY <1>0, <1>11 DEF Heap
    <3>2. \A o \in old : g[new[o]] =
              [type |-> g[new[o]].type, name |-> g[new[o]].name, str |-> g[new[o]].str,
               next |-> g[new[o]].next, prev |-> g[new[o]].prev, child |-> g[new[o]].child]
      BY <1>12
    <3> QED
      BY <3>1, <3>2 DEF E, R
  <2>3. \A k \in E : {g[k].next, g[k].prev, g[k].child} \subseteq E \cup {Nil}
    <3>1. \A k \in DOMAIN K : {g[k].next, g[k].prev, g[k].child} \subseteq E \cup {Nil}
      BY <1>0, <1>11 DEF Heap, E
    <3>2. ASSUME NEW o \in old
          PROVE  {g[new[o]].next, g[new[o]].prev, g[new[o]].child} \subseteq E \cup {Nil}
      <4>1. ASSUME NEW q \in old
            PROVE  FirstOf(L[new[q]]) \in E \cup {Nil}
        <5>1. Len(K[q]) \in Nat /\ \A n \in 1 .. Len(K[q]) : L[new[q]][n] \in E
          BY <1>a
        <5> QED
          BY <1>a, <5>1 DEF FirstOf
      <4>2. CASE o = i
        <5>1. g[new[o]].next = Nil /\ g[new[o]].prev = Nil
          BY <1>12, <4>2
        <5> QED
          BY <1>14, <4>1, <5>1
      <4>3. CASE o # i
        <5>1. PICK p \in old : \E n \in 1 .. Len(K[p]) : o = K[p][n]
          BY <1>6, <4>3
        <5>2. PICK n \in 1 .. Len(K[p]) : o = K[p][n]
          BY <5>1
        <5>3. g[new[o]].next = NextOf(L[new[p]], n) /\ g[new[o]].prev = PrevOf(L[new[p]], n)
          BY <1>15, <5>2
        <5>4. Len(L[new[p]]) = Len(K[p]) /\ Len(K[p]) \in Nat /\ \A m \in 1 .. Len(K[p]) : L[new[p]][m] \in E
          BY <1>a
        <5>5. NextOf(L[new[p]], n) \in E \cup {Nil} /\ PrevOf(L[new[p]], n) \in E
          BY <5>4 DEF NextOf, PrevOf
        <5> QED
          BY <1>14, <4>1, <5>3, <5>5
      <4> QED
        BY <4>2, <4>3
    <3> QED
      BY <3>1, <3>2 DEF E, R
  <2> QED
    BY <1>11, <1>13, <2>1, <2>2, <2>3 DEF Heap
<1>18. Rep(g, L)
  BY <1>7, <1>9, <1>10, <1>11, <1>16, <1>17 DEF Rep
<1>19. /\ DOMAIN Kin(L) = E /\ \A p \in DOMAIN K : Kin(L)[p] = Kin(K)[p]
       /\ \A o \in old : Kin(L)[new[o]] = {new[x] : x \in Kin(K)[o]}
  <2>1. DOMAIN Kin(L) = E
    BY <1>7 DEF Kin
  <2>2. \A p \in E : Kin(L)[p] = {L[p][n] : n \in 1 .. Len(L[p])}
    BY <1>7, <1>18, KinGraph
  <2>3. \A p \in DOMAIN K : Kin(L)[p] = Kin(K)[p]
    <3> SUFFICES ASSUME NEW p \in DOMAIN K PROVE Kin(L)[p] = Kin(K)[p]
      OBVIOUS
    <3>1. Kin(L)[p] = {L[p][n] : n \in 1 .. Len(L[p])} /\ L[p] = K[p]
      BY <1>7, <2>2 DEF E
    <3> QED
      BY <1>0, <3>1
  <2>4. ASSUME NEW o \in old PROVE Kin(L)[new[o]] = {new[x] : x \in Kin(K)[o]}
    <3>1. Kin(L)[new[o]] = {L[new[o]][n] : n \in 1 .. Len(K[o])}
      BY <1>8, <2>2 DEF E, R
    <3>2. Kin(K)[o] = {K[o][n] : n \in 1 .. Len(K[o])}
      BY <1>0, <1>1
    <3> QED
      BY <1>8, <3>1, <3>2
  <2> QED
    BY <2>1, <2>3, <2>4
<1>20. ASSUME NEW C \in SUBSET E, C # {}
       PROVE  (\E x \in C : Kin(L)[x] \cap C = {}) /\ (\E x \in C : \A y \in C : x \notin Kin(L)[y])
  <2>1. CASE C \cap DOMAIN K # {}
    <3> DEFINE B == C \cap DOMAIN K
    <3>0. B \in SUBSET DOMAIN Kin(K) /\ B # {}
      BY <1>0, <2>1
    <3>1. PICK x \in B : Kin(K)[x] \cap B = {}
      BY <3>0 DEF InOrder, Founded
    <3>2. PICK z \in B : \A y \in B : z \notin Kin(K)[y]
      BY <3>0 DEF InOrder, Rooted
    <3>3. Kin(L)[x] \cap C = {}
      BY <1>0, <1>19, <3>1 DEF Graph
    <3>4. ASSUME NEW y \in C PROVE z \notin Kin(L)[y]
      <4>1. CASE y \in DOMAIN K
        BY <1>19, <3>2, <4>1
      <4>2. CASE y \notin DOMAIN K
        <5>1. PICK o \in old : y = new[o]
          BY <4>2 DEF E, R
        <5>2. Kin(L)[y] \subseteq R
          BY <1>0, <1>1, <1>19, <5>1 DEF R, Shut
        <5> QED
          BY <1>2, <5>2
      <4> QED
        BY <4>1, <4>2
    <3> QED
      BY <3>3, <3>4
  <2>2. CASE C \cap DOMAIN K = {}
    <3> DEFINE B == {o \in old : new[o] \in C}
    <3>0. B \in SUBSET DOMAIN Kin(K) /\ B # {} /\ \A y \in C : \E o \in B : y = new[o]
      BY <1>0, <1>1, <1>20, <2>2 DEF E, R
    <3>1. PICK x \in B : Kin(K)[x] \cap B = {}
      BY <3>0 DEF InOrder, Founded
    <3>2. PICK z \in B : \A y \in B : z \notin Kin(K)[y]
      BY <3>0 DEF InOrder, Rooted
    <3>3. \A o \in B : Kin(L)[new[o]] = {new[y] : y \in Kin(K)[o]} /\ Kin(K)[o] \subseteq old
      BY <1>0, <1>1, <1>19 DEF Shut
    <3>4. Kin(L)[new[x]] \cap C = {}
      BY <1>2, <3>1, <3>3
    <3>5. \A o \in B : new[z] \notin Kin(L)[new[o]]
      BY <1>2, <3>2, <3>3
    <3> QED
      BY <3>0, <3>4, <3>5
  <2> QED
    BY <2>1, <2>2
<1>21. Founded(Kin(L)) /\ Rooted(Kin(L))
  BY <1>19, <1>20 DEF Founded, Rooted
<1> QED
  BY <1>18, <1>21 DEF InOrder, g, L

(* What does not fit in the free items is not copied.                      *)
LEMMA RoomToCopy == ASSUME NEW S, NEW T, IsFiniteSet(S), IsFiniteSet(T), ~(Cardinality(S) > Cardinality(T))
                    PROVE  Injection(S, T) # {}
<1>1. /\ Cardinality(S) \in Nat /\ ExistsBijection(1 .. Cardinality(S), S)
      /\ Cardinality(T) \in Nat /\ ExistsBijection(1 .. Cardinality(T), T)
  BY FS_CardinalityType
<1>2. ExistsBijection(S, 1 .. Cardinality(S))
  BY <1>1, Fun_ExistsBijSymmetric
<1>3. PICK f \in Bijection(S, 1 .. Cardinality(S)) : TRUE
  BY <1>2 DEF ExistsBijection
<1>4. PICK e \in Bijection(1 .. Cardinality(T), T) : TRUE
  BY <1>1 DEF ExistsBijection
<1>5. \A n \in 1 .. Cardinality(S) : n \in 1 .. Cardinality(T)
  BY <1>1
<1>6. f \in [S -> 1 .. Cardinality(S)] /\ \A a, b \in S : f[a] = f[b] => a = b
  BY <1>3 DEF Bijection, Injection, IsInjective
<1>7. e \in [1 .. Cardinality(T) -> T] /\ \A a, b \in 1 .. Cardinality(T) : e[a] = e[b] => a = b
  BY <1>4 DEF Bijection, Injection, IsInjective
<1>8. [x \in S |-> e[f[x]]] \in Injection(S, T)
  BY <1>5, <1>6, <1>7 DEF Injection, IsInjective
<1> QED
  BY <1>8

Duplicated(h, i, old) ==
    LET new == CHOOSE f \in Injection(old, Item \ DOMAIN h) : TRUE
    IN IF Cardinality(old) > Cardinality(Item \ DOMAIN h) THEN h ELSE WithCopies(h, i, old, new)

LEMMA DuplicateCall ==
    ASSUME NEW h, NEW K, InOrder(h, K), NEW i \in DOMAIN K, NEW old, old = Under(Kin(K), i)
    PROVE  \/ Duplicate(h, i) = h
           \/ \E new \in Injection(old, Item \ DOMAIN K) : Duplicate(h, i) = WithCopies(h, i, old, new)
<1>1. Freed([h EXCEPT ![i].next = Nil], i) = old /\ DOMAIN h = DOMAIN K
  BY FreedTree DEF InOrder, Rep
<1>2. IsFiniteSet(old) /\ IsFiniteSet(Item \ DOMAIN K)
  <2>1. IsFiniteSet(Item)
    BY CJsonAssumption, FS_Interval DEF Item
  <2>2. old \subseteq Item
    BY KinGraph, UnderSet DEF InOrder, Rep, Heap
  <2> QED
    BY <2>1, <2>2, FS_Subset
<1> DEFINE new == CHOOSE f \in Injection(old, Item \ DOMAIN h) : TRUE
<1>3. Duplicate(h, i) = Duplicated(h, i, Freed([h EXCEPT ![i].next = Nil], i))
  BY DEF Duplicate, Duplicated, WithCopies, CopyOf, Before, Twin
<1>4. Duplicate(h, i) = Duplicated(h, i, old)
  BY <1>1, <1>3
<1>5. ASSUME ~(Cardinality(old) > Cardinality(Item \ DOMAIN h))
      PROVE  new \in Injection(old, Item \ DOMAIN h) /\ Duplicate(h, i) = WithCopies(h, i, old, new)
  <2>1. new \in Injection(old, Item \ DOMAIN h)
    BY <1>1, <1>2, <1>5, RoomToCopy
  <2>2. Duplicate(h, i) = WithCopies(h, i, old, new)
    BY <1>4, <1>5 DEF Duplicated
  <2> QED
    BY <2>1, <2>2
<1>6. ASSUME Cardinality(old) > Cardinality(Item \ DOMAIN h)
      PROVE  Duplicate(h, i) = h
  BY <1>4, <1>6 DEF Duplicated
<1> HIDE DEF new
<1> QED
  BY <1>1, <1>5, <1>6

-----------------------------------------------------------------------------
(* The sequences of children are those the lists give.                     *)
KidsOf(h) == [i \in DOMAIN h |-> Children(h, i)]

LEMMA KidsAre == ASSUME NEW h, NEW K, InOrder(h, K) PROVE KidsOf(h) = K
<1>1. \A p \in DOMAIN K : Children(h, p) = K[p]
  BY ChildrenSeq DEF InOrder
<1>2. DOMAIN h = DOMAIN K /\ K = [p \in DOMAIN K |-> K[p]]
  BY DEF InOrder, Rep
<1> QED
  BY <1>1, <1>2 DEF KidsOf

LEMMA LooseItems == ASSUME NEW h, NEW K, InOrder(h, K)
                    PROVE  Loose(h) = {i \in DOMAIN K : ~Placed(K, i)}
<1>1. \A p \in DOMAIN K : Children(h, p) = K[p]
  BY ChildrenSeq DEF InOrder
<1>2. DOMAIN h = DOMAIN K /\ \A p \in DOMAIN K : ToSet(K[p]) = {K[p][n] : n \in 1 .. Len(K[p])}
  BY RepPlace DEF InOrder, Rep
<1> QED
  BY <1>1, <1>2 DEF Loose, Placed

-----------------------------------------------------------------------------
(* Who owns the items: R are the items that are in no list, and all the    *)
(* others are below one of them.                                           *)
Roots(K) == {i \in DOMAIN K : ~Placed(K, i)}
Owns(h, R) == InOrder(h, KidsOf(h)) /\ Loose(h) = R

LEMMA Owner == ASSUME NEW h, NEW K, InOrder(h, K) PROVE Owns(h, Roots(K)) /\ K = KidsOf(h)
  BY KidsAre, LooseItems DEF Owns, Roots

LEMMA Owned == ASSUME NEW h, NEW R, Owns(h, R)
               PROVE  /\ InOrder(h, KidsOf(h)) /\ R = Roots(KidsOf(h))
                      /\ DOMAIN KidsOf(h) = DOMAIN h /\ R \subseteq DOMAIN h
                      /\ Heap(h) /\ Nil \notin DOMAIN h
  BY LooseItems DEF Owns, Roots, KidsOf, InOrder, Rep, Heap, Item, Nil

(* The same links, whatever the items are called.                          *)
LEMMA SameLinks ==
    ASSUME NEW g, NEW K, InOrder(g, K), NEW h, Alike(h, g), SameNext(h, g, DOMAIN g),
           SamePrev(h, g, DOMAIN g), SameChild(h, g, DOMAIN g)
    PROVE  InOrder(h, K)
<1>1. /\ Heap(h) /\ DOMAIN h = DOMAIN K /\ DOMAIN g = DOMAIN K /\ Linked(g, K)
      /\ \A j \in DOMAIN K : h[j].next = g[j].next /\ h[j].prev = g[j].prev /\ h[j].child = g[j].child
  BY DEF Alike, SameNext, SamePrev, SameChild, InOrder, Rep
<1>2. \A p \in DOMAIN K : \A n \in 1 .. Len(K[p]) : K[p][n] \in DOMAIN K
  BY RepPlace DEF InOrder
<1>3. Linked(h, K)
  BY <1>1, <1>2 DEF Linked
<1> QED
  BY <1>1, <1>3 DEF InOrder, Rep

LEMMA NoneOwned == ASSUME NEW h, Owns(h, {}) PROVE h = <<>>
<1> DEFINE K == KidsOf(h)
<1>1. InOrder(h, K) /\ Roots(K) = {} /\ DOMAIN K = DOMAIN h
  BY Owned
<1>2. /\ DOMAIN Kin(K) = DOMAIN K
      /\ \A i : Placed(K, i) <=> \E p \in DOMAIN K : i \in Kin(K)[p]
  BY <1>1, KinGraph DEF InOrder
<1>3. Rooted(Kin(K))
  BY <1>1 DEF InOrder
<1> HIDE DEF K
<1>4. DOMAIN h = {}
  <2> SUFFICES ASSUME DOMAIN K # {} PROVE FALSE
    BY <1>1
  <2>1. PICK x \in DOMAIN K : \A y \in DOMAIN K : x \notin Kin(K)[y]
    BY <1>2, <1>3 DEF Rooted
  <2> QED
    BY <1>1, <1>2, <2>1 DEF Roots
<1>5. Heap(h)
  BY Owned
<1> QED
  BY <1>4, <1>5 DEF Heap

LEMMA NothingOwned == Owns(<<>>, {})
<1> DEFINE K == [i \in {} |-> <<>>]
           h == <<>>
<1>1. DOMAIN K = {} /\ DOMAIN h = {}
  OBVIOUS
<1>2. Heap(h)
  BY DEF Heap
<1>3. K \in [DOMAIN K -> Seq(DOMAIN K)]
  OBVIOUS
<1> HIDE DEF K
<1>4. Rep(h, K)
  BY <1>1, <1>2, <1>3 DEF Rep, Apart, Linked, Placed
<1>5. Founded(Kin(K)) /\ Rooted(Kin(K))
  BY <1>1 DEF Founded, Rooted, Kin
<1>6. Roots(K) = {}
  BY <1>1 DEF Roots
<1>7. InOrder(h, K)
  BY <1>4, <1>5 DEF InOrder
<1> QED
  BY <1>6, <1>7, Owner

LEMMA OwnNew == ASSUME NEW h, NEW R, Owns(h, R), ~Full(h), NEW type
                PROVE  /\ Owns(WithItem(h, type), R \cup {Fresh(h)}) /\ Fresh(h) \notin DOMAIN h
                       /\ Fresh(h) # Nil /\ DOMAIN WithItem(h, type) = DOMAIN h \cup {Fresh(h)}
<1> DEFINE K == KidsOf(h)
           f == Fresh(h)
           L == WithLeaf(K, f)
<1>1. InOrder(h, K) /\ R = Roots(K) /\ DOMAIN K = DOMAIN h
  BY Owned
<1>2. f \in Item \ DOMAIN K /\ InOrder(WithItem(h, type), L) /\ ~Placed(L, f)
  BY <1>1, NewTree
<1> HIDE DEF K, f
<1>3. DOMAIN L = DOMAIN K \cup {f} /\ \A i : Placed(L, i) <=> Placed(K, i)
  BY <1>2 DEF Placed, WithLeaf
<1>4. Roots(L) = R \cup {f}
  BY <1>1, <1>2, <1>3 DEF Roots
<1> QED
  BY <1>1, <1>2, <1>4, Owner DEF WithItem, f, Item, Nil

(* A root is below no other item.                                          *)
LEMMA RootsApart == ASSUME NEW h, NEW K, InOrder(h, K), NEW a \in Roots(K), NEW i \in DOMAIN K, a # i
                    PROVE  a \notin Under(Kin(K), i)
<1>1. /\ Graph(Kin(K)) /\ DOMAIN Kin(K) = DOMAIN K
      /\ \A j : Placed(K, j) <=> \E p \in DOMAIN K : j \in Kin(K)[p]
  BY KinGraph DEF InOrder
<1> QED
  BY <1>1, UnderParent, UnderSet DEF Roots

LEMMA OwnAdd == ASSUME NEW h, NEW R, Owns(h, R), NEW a \in R, NEW i \in R, a # i
                PROVE  Owns(AddToArray(h, a, i), R \ {i})
<1> DEFINE K == KidsOf(h)
           s == K[a]
           n == Len(s) + 1
           t == InsertAt(s, n, i)
           L == WithList(K, a, t)
<1>1. InOrder(h, K) /\ R = Roots(K) /\ DOMAIN K = DOMAIN h
  BY Owned
<1> HIDE DEF K
<1>2. MayHold(K, a, i) /\ a \in DOMAIN K /\ i \in DOMAIN K /\ ~Placed(K, i)
  BY <1>1, RootsApart DEF MayHold, Roots
<1>3. InOrder(AddToArray(h, a, i), L)
  BY <1>1, <1>2, AddTree
<1>4. s \in Seq(DOMAIN K) /\ Len(s) \in Nat
  BY <1>1, <1>2, RepPlace DEF InOrder
<1>5. /\ Len(t) = n /\ t[n] = i /\ \A m \in 1 .. Len(s) : t[m] = s[m]
  <2>1. s \in Seq(DOMAIN K) /\ n \in 1 .. Len(s) + 1 /\ i \in DOMAIN K /\ Len(s) \in Nat /\ n = Len(s) + 1
    BY <1>2, <1>4
  <2> HIDE DEF n, s
  <2>2. Longer(t, s, n, i)
    BY <2>1, Inserted
  <2> HIDE DEF t
  <2> QED
    BY <2>1, <2>2 DEF Longer
<1> HIDE DEF t
<1>6. DOMAIN L = DOMAIN K /\ L[a] = t /\ \A p \in DOMAIN K \ {a} : L[p] = K[p]
  BY <1>2 DEF WithList
<1>7. ASSUME NEW j \in DOMAIN K PROVE Placed(L, j) <=> Placed(K, j) \/ j = i
  <2>1. Placed(K, j) => Placed(L, j)
    <3> SUFFICES ASSUME NEW p \in DOMAIN K, NEW m \in 1 .. Len(K[p]), K[p][m] = j PROVE Placed(L, j)
      BY DEF Placed
    <3>1. CASE p = a
      BY <1>4, <1>5, <1>6, <3>1 DEF Placed
    <3>2. CASE p # a
      BY <1>6, <3>2 DEF Placed
    <3> QED
      BY <3>1, <3>2
  <2>2. j = i => Placed(L, j)
    BY <1>2, <1>4, <1>5, <1>6 DEF Placed
  <2>3. ASSUME NEW p \in DOMAIN L, NEW m \in 1 .. Len(L[p]), L[p][m] = j, j # i PROVE Placed(K, j)
    <3>1. CASE p = a
      <4>1. m \in 1 .. Len(s)
        BY <1>4, <1>5, <1>6, <2>3, <3>1
      <4> QED
        BY <1>2, <1>5, <1>6, <2>3, <3>1, <4>1 DEF Placed
    <3>2. CASE p # a
      BY <1>6, <2>3, <3>2 DEF Placed
    <3> QED
      BY <3>1, <3>2
  <2> QED
    BY <2>1, <2>2, <2>3 DEF Placed
<1> HIDE DEF L
<1>8. Roots(L) = R \ {i}
  BY <1>1, <1>6, <1>7 DEF Roots
<1> QED
  BY <1>3, <1>8, Owner

LEMMA OwnDelete == ASSUME NEW h, NEW R, Owns(h, R), NEW i \in R
                   PROVE  /\ Owns(Delete(h, i), R \ {i})
                          /\ DOMAIN Delete(h, i) \subseteq DOMAIN h
<1> DEFINE K == KidsOf(h)
           D == Under(Kin(K), i)
           L == Restrict(K, DOMAIN K \ D)
<1>1. InOrder(h, K) /\ R = Roots(K) /\ DOMAIN K = DOMAIN h
  BY Owned
<1> HIDE DEF K
<1>2. i \in DOMAIN K /\ ~Placed(K, i)
  BY <1>1 DEF Roots
<1>3. Delete(h, i) = Restrict(h, DOMAIN h \ D) /\ InOrder(Delete(h, i), L)
  BY <1>1, <1>2, DeleteTree
<1>4. /\ Graph(Kin(K)) /\ DOMAIN Kin(K) = DOMAIN K
      /\ \A j : Placed(K, j) <=> \E p \in DOMAIN K : j \in Kin(K)[p]
      /\ \A p \in DOMAIN K : Kin(K)[p] = {K[p][n] : n \in 1 .. Len(K[p])}
  BY <1>1, KinGraph DEF InOrder
<1>5. D \in SUBSET DOMAIN K /\ i \in D /\ Shut(Kin(K), D)
  BY <1>2, <1>4, UnderSet
<1>6. \A a \in R \ {i} : a \notin D
  BY <1>1, <1>2, RootsApart
<1> HIDE DEF D
<1>7. DOMAIN L = DOMAIN K \ D /\ \A p \in DOMAIN K \ D : L[p] = K[p]
  BY DEF Restrict
<1> HIDE DEF L
<1>8. ASSUME NEW j \in DOMAIN K \ D PROVE Placed(L, j) <=> Placed(K, j)
  <2>1. ASSUME Placed(K, j) PROVE Placed(L, j)
    <3>1. PICK p \in DOMAIN K : \E n \in 1 .. Len(K[p]) : K[p][n] = j
      BY <2>1 DEF Placed
    <3>2. p \notin D
      BY <1>4, <1>5, <3>1 DEF Shut
    <3> QED
      BY <1>7, <3>1, <3>2 DEF Placed
  <2> QED
    BY <1>7, <2>1 DEF Placed
<1>9. Roots(L) = R \ {i}
  BY <1>1, <1>5, <1>6, <1>7, <1>8 DEF Roots
<1> QED
  BY <1>1, <1>3, <1>9, Owner DEF Restrict

LEMMA OwnNil == ASSUME NEW h, NEW R, Owns(h, R) PROVE Delete(h, Nil) = h
<1> DEFINE K == KidsOf(h)
<1>1. InOrder(h, K) /\ Heap(h)
  BY Owned
<1>2. Freed(h, Nil) = {}
  BY <1>1, LinksFounded, FreedUnder DEF InOrder
<1> QED
  BY <1>1, <1>2 DEF Delete, Restrict, Heap

LEMMA OwnDetach == ASSUME NEW h, NEW R, Owns(h, R), NEW p \in DOMAIN h, NEW i \in ToSet(Children(h, p))
                   PROVE  Owns(Detach(h, p, i), R \cup {i}) /\ i \notin R /\ DOMAIN Detach(h, p, i) = DOMAIN h
<1> DEFINE K == KidsOf(h)
           s == K[p]
<1>1. InOrder(h, K) /\ R = Roots(K) /\ DOMAIN K = DOMAIN h /\ s = Children(h, p)
  BY Owned DEF KidsOf
<1> HIDE DEF K
<1>2. s \in Seq(DOMAIN K) /\ Len(s) \in Nat /\ ToSet(s) = {s[m] : m \in 1 .. Len(s)}
  BY <1>1, RepPlace DEF InOrder
<1>3. PICK n \in 1 .. Len(s) : i = s[n]
  BY <1>1, <1>2
<1> DEFINE t == RemoveAt(s, n)
           L == WithList(K, p, t)
<1>4. InOrder(Detach(h, p, i), L) /\ ~Placed(L, i)
  BY <1>1, <1>3, DetachTree
<1>5. Len(t) = Len(s) - 1 /\ \A m \in 1 .. Len(s) - 1 : t[m] = IF m < n THEN s[m] ELSE s[m + 1]
  BY <1>2, Removed DEF Shorter
<1> HIDE DEF t
<1>6. DOMAIN L = DOMAIN K /\ L[p] = t /\ \A q \in DOMAIN K \ {p} : L[q] = K[q]
  BY <1>1 DEF WithList
<1> HIDE DEF L
<1>7. ASSUME NEW j \in DOMAIN K, j # i PROVE Placed(L, j) <=> Placed(K, j)
  <2>1. ASSUME NEW q \in DOMAIN K, NEW m \in 1 .. Len(K[q]), K[q][m] = j PROVE Placed(L, j)
    <3>1. CASE q # p
      BY <1>6, <2>1, <3>1 DEF Placed
    <3>2. CASE q = p /\ m < n
      <4>1. m \in 1 .. Len(t) /\ t[m] = j
        BY <1>2, <1>5, <2>1, <3>2
      <4> QED
        BY <1>6, <2>1, <3>2, <4>1 DEF Placed
    <3>3. CASE q = p /\ m > n
      <4>1. m - 1 \in 1 .. Len(t) /\ t[m - 1] = j
        BY <1>2, <1>5, <2>1, <3>3
      <4> QED
        BY <1>6, <2>1, <3>3, <4>1 DEF Placed
    <3> QED
      BY <1>2, <1>3, <1>7, <2>1, <3>1, <3>2, <3>3
  <2>2. ASSUME NEW q \in DOMAIN L, NEW m \in 1 .. Len(L[q]), L[q][m] = j PROVE Placed(K, j)
    <3>1. CASE q # p
      BY <1>6, <2>2, <3>1 DEF Placed
    <3>2. CASE q = p
      <4>1. m \in 1 .. Len(s) - 1 /\ t[m] = j
        BY <1>5, <1>6, <2>2, <3>2
      <4>2. m \in 1 .. Len(s) /\ m + 1 \in 1 .. Len(s) /\ (s[m] = j \/ s[m + 1] = j)
        BY <1>2, <1>5, <4>1
      <4> QED
        BY <1>1, <4>2 DEF Placed
    <3> QED
      BY <3>1, <3>2
  <2> QED
    BY <2>1, <2>2 DEF Placed
<1>8. i \in DOMAIN K /\ Placed(K, i)
  BY <1>1, <1>3, RepPlace DEF Placed, InOrder
<1>9. Roots(L) = R \cup {i} /\ i \notin R
  BY <1>1, <1>4, <1>6, <1>7, <1>8 DEF Roots
<1>10. DOMAIN L = DOMAIN Detach(h, p, i)
  BY <1>4 DEF InOrder, Rep
<1> QED
  BY <1>1, <1>4, <1>6, <1>9, <1>10, Owner

(* What get_object_item finds is an element of the object.                 *)
LEMMA ItemFound == ASSUME NEW h, NEW R, Owns(h, R), NEW p \in DOMAIN h, NEW name
                   PROVE  ObjectItem(h, p, name) \in ToSet(Children(h, p)) \cup {Nil}
<1> DEFINE s == Children(h, p)
           stop == {n \in DOMAIN s : h[s[n]].name \in {NoStr, name}}
           at == CHOOSE n \in stop : \A m \in stop : n <= m
<1>1. DOMAIN s \subseteq Nat
  <2>1. InOrder(h, KidsOf(h)) /\ p \in DOMAIN KidsOf(h) /\ KidsOf(h)[p] = s
    BY Owned DEF KidsOf
  <2>2. DOMAIN s = 1 .. Len(s)
    BY <2>1, RepPlace DEF InOrder
  <2> QED
    BY <2>2
<1>2. ObjectItem(h, p, name) = IF stop = {} \/ h[s[at]].name = NoStr THEN Nil ELSE s[at]
  BY DEF ObjectItem
<1>3. CASE stop # {}
  <2>1. \E n \in stop : \A m \in stop : n <= m
    BY <1>1, <1>3, LeastNat
  <2>2. at \in stop
    BY <2>1
  <2> HIDE DEF at
  <2>3. s[at] \in ToSet(s)
    BY <2>2 DEF ToSet
  <2> QED
    BY <1>2, <2>3
<1> QED
  BY <1>2, <1>3

(* Links stay the links of an owner when only names and strings change.    *)
LEMMA OwnSame ==
    ASSUME NEW g, NEW R, Owns(g, R), NEW h, Alike(h, g), SameNext(h, g, DOMAIN g),
           SamePrev(h, g, DOMAIN g), SameChild(h, g, DOMAIN g)
    PROVE  Owns(h, R)
<1>1. InOrder(g, KidsOf(g)) /\ R = Roots(KidsOf(g))
  BY Owned
<1>2. InOrder(h, KidsOf(g))
  BY <1>1, SameLinks
<1> QED
  BY <1>1, <1>2, Owner

LEMMA OwnField == ASSUME NEW h, NEW R, Owns(h, R), NEW i \in DOMAIN h, NEW v
                  PROVE  /\ Owns([h EXCEPT ![i].name = v], R) /\ Owns([h EXCEPT ![i].str = v], R)
                         /\ Owns([h EXCEPT ![i].type = v], R)
<1>1. Heap(h)
  BY Owned
<1>2. /\ Alike([h EXCEPT ![i].name = v], h) /\ SameNext([h EXCEPT ![i].name = v], h, DOMAIN h)
      /\ SamePrev([h EXCEPT ![i].name = v], h, DOMAIN h) /\ SameChild([h EXCEPT ![i].name = v], h, DOMAIN h)
  BY <1>1 DEF Heap, Alike, SameNext, SamePrev, SameChild
<1>3. /\ Alike([h EXCEPT ![i].str = v], h) /\ SameNext([h EXCEPT ![i].str = v], h, DOMAIN h)
      /\ SamePrev([h EXCEPT ![i].str = v], h, DOMAIN h) /\ SameChild([h EXCEPT ![i].str = v], h, DOMAIN h)
  BY <1>1 DEF Heap, Alike, SameNext, SamePrev, SameChild
<1>4. /\ Alike([h EXCEPT ![i].type = v], h) /\ SameNext([h EXCEPT ![i].type = v], h, DOMAIN h)
      /\ SamePrev([h EXCEPT ![i].type = v], h, DOMAIN h) /\ SameChild([h EXCEPT ![i].type = v], h, DOMAIN h)
  BY <1>1 DEF Heap, Alike, SameNext, SamePrev, SameChild
<1>5. Owns([h EXCEPT ![i].name = v], R)
  BY <1>2, OwnSame
<1>6. Owns([h EXCEPT ![i].str = v], R)
  BY <1>3, OwnSame
<1>7. Owns([h EXCEPT ![i].type = v], R)
  BY <1>4, OwnSame
<1> QED
  BY <1>5, <1>6, <1>7

-----------------------------------------------------------------------------
(* Lists that are not closed yet.                                          *)

LEMMA NoLoop == ASSUME NEW G, Graph(G), Rooted(G), NEW x \in DOMAIN G, NEW y \in Under(G, x), x \in Under(G, y)
                PROVE  x = y
<1> SUFFICES ASSUME x # y PROVE FALSE
  OBVIOUS
<1>0. y \in DOMAIN G
  BY UnderSet
<1>1. PICK q \in Under(G, x) : y \in G[q]
  BY UnderParent
<1>2. q \in Under(G, y)
  BY <1>0, <1>1, UnderMore
<1> QED
  BY <1>0, <1>1, <1>2, NoReturn

(* What is below p without p itself: shut, and entered from p alone.       *)
LEMMA BelowOnly == ASSUME NEW h, NEW K, InOrder(h, K), NEW p \in DOMAIN K
                   PROVE  LET D == Under(Kin(K), p) \ {p} IN
                          /\ D \in SUBSET DOMAIN K /\ Shut(Kin(K), D) /\ Kin(K)[p] \subseteq D
                          /\ \A q \in DOMAIN K \ (D \cup {p}) : Kin(K)[q] \cap D = {}
                          /\ \A q \in D \cup {p} : p \notin Kin(K)[q]
<1> DEFINE U == Under(Kin(K), p)
           D == U \ {p}
<1>1. /\ Graph(Kin(K)) /\ DOMAIN Kin(K) = DOMAIN K /\ OneParent(Kin(K)) /\ Rooted(Kin(K))
  BY KinGraph DEF InOrder
<1>2. U \in SUBSET DOMAIN K /\ p \in U /\ Shut(Kin(K), U)
  BY <1>1, UnderSet
<1>3. \A q \in U : p \notin Kin(K)[q]
  BY <1>1, NoReturn
<1>4. ASSUME NEW q \in DOMAIN K \ (D \cup {p}) PROVE Kin(K)[q] \cap D = {}
  <2> SUFFICES ASSUME NEW x \in Kin(K)[q], x \in D PROVE FALSE
    OBVIOUS
  <2>1. PICK r \in U : x \in Kin(K)[r]
    BY <1>1, UnderParent
  <2> QED
    BY <1>1, <1>2, <2>1 DEF OneParent
<1> HIDE DEF U
<1>5. Shut(Kin(K), D) /\ Kin(K)[p] \subseteq D
  BY <1>2, <1>3 DEF Shut
<1> QED
  BY <1>2, <1>3, <1>4, <1>5 DEF U

(* What cJSON_Delete frees when it is given the first child of p.          *)
LEMMA FreedList ==
    ASSUME NEW g, NEW K, InOrder(g, K), NEW p \in DOMAIN K, Len(K[p]) # 0,
           NEW h, Alike(h, g), SameNext(h, g, DOMAIN g),
           \A j \in DOMAIN g : h[j].child \in {g[j].child, Nil},
           \A j \in Under(Kin(K), p) \ {p} : h[j].child = g[j].child
    PROVE  Freed(h, K[p][1]) = Under(Kin(K), p) \ {p}
<1> DEFINE U == Under(Kin(K), p)
           D == U \ {p}
           f == K[p][1]
           c == [g EXCEPT ![p].next = Nil]
           F == Under(Links(c), f)
<1>0. /\ Heap(g) /\ DOMAIN g = DOMAIN K /\ Heap(h) /\ DOMAIN h = DOMAIN K /\ Nil \notin DOMAIN K
      /\ Rep(g, K) /\ Founded(Kin(K)) /\ Rooted(Kin(K))
  BY DEF InOrder, Rep, Alike, Heap, Nil, Item
<1>1. /\ Graph(Kin(K)) /\ DOMAIN Kin(K) = DOMAIN K
      /\ \A q \in DOMAIN K : Kin(K)[q] = {K[q][n] : n \in 1 .. Len(K[q])}
      /\ \A j : Placed(K, j) <=> \E q \in DOMAIN K : j \in Kin(K)[q]
  BY <1>0, KinGraph
<1>2. /\ D \in SUBSET DOMAIN K /\ Shut(Kin(K), D) /\ Kin(K)[p] \subseteq D
      /\ \A q \in DOMAIN K \ U : Kin(K)[q] \cap D = {}
      /\ \A q \in U : p \notin Kin(K)[q]
      /\ U \in SUBSET DOMAIN K /\ p \in U
  <2>1. U \in SUBSET DOMAIN K /\ p \in U
    BY <1>1, UnderSet
  <2> QED
    BY <2>1, BelowOnly
<1>3. f \in D /\ f \in Kin(K)[p] /\ g[p].child = f
  <2>1. Len(K[p]) \in Nat
    BY <1>0, RepPlace
  <2>2. 1 \in 1 .. Len(K[p])
    BY <2>1
  <2> QED
    BY <1>0, <1>1, <1>2, <2>2 DEF Rep, Linked, FirstOf
<1>4. /\ Heap(c) /\ DOMAIN c = DOMAIN K /\ c[p].next = Nil
      /\ \A j \in DOMAIN K : (j # p => c[j].next = g[j].next) /\ c[j].child = g[j].child
  <2>1. NextSet(c, g, p, Nil)
    BY <1>0, SetNext
  <2> HIDE DEF c
  <2> QED
    BY <1>0, <2>1 DEF NextSet, Alike, SameNext, SameChild
<1>5. Freed(c, p) = U
  BY <1>0, FreedTree
<1> HIDE DEF U, c
<1>6. /\ Graph(Links(c)) /\ DOMAIN Links(c) = DOMAIN K /\ Graph(Links(h)) /\ DOMAIN Links(h) = DOMAIN K
      /\ \A j \in DOMAIN K : Links(c)[j] = {c[j].child, c[j].next} \ {Nil}
      /\ \A j \in DOMAIN K : Links(h)[j] = {h[j].child, h[j].next} \ {Nil}
      /\ \A j \in DOMAIN K : Links(g)[j] = {g[j].child, g[j].next} \ {Nil}
      /\ DOMAIN Links(g) = DOMAIN K
  BY <1>0, <1>4, LinksGraph DEF Links
<1>7. Founded(Links(c)) /\ Founded(Links(h))
  <2>1. Founded(Links(g))
    BY <1>0, LinksFounded
  <2>2. \A j \in DOMAIN K : Links(c)[j] \subseteq Links(g)[j]
    BY <1>4, <1>6
  <2>3. \A j \in DOMAIN K : Links(h)[j] \subseteq Links(g)[j]
    BY <1>0, <1>6 DEF SameNext
  <2> QED
    BY <1>6, <2>1, <2>2, <2>3 DEF Founded
<1>8. U = {p} \cup F
  <2>1. Freed(c, p) = Under(Links(c), p)
    BY <1>0, <1>4, <1>7, FreedUnder
  <2>2. Links(c)[p] = {f}
    BY <1>0, <1>2, <1>3, <1>4, <1>6
  <2>3. Under(Links(c), p) = {p} \cup UNION {Under(Links(c), j) : j \in Links(c)[p]}
    BY <1>6, UnderStep
  <2> QED
    BY <1>5, <2>1, <2>2, <2>3
<1>9. \A j \in D : Links(c)[j] \subseteq D
  <2> SUFFICES ASSUME NEW j \in D, NEW x \in Links(c)[j] PROVE x \in D
    OBVIOUS
  <2>1. x \in U
    <3>1. F \in SUBSET DOMAIN K /\ Shut(Links(c), F)
      BY <1>2, <1>3, <1>6, UnderSet
    <3> QED
      BY <1>8, <3>1 DEF Shut
  <2>2. CASE x = p
    <3>1. PICK q \in U : j \in Kin(K)[q]
      BY <1>1, UnderParent DEF U
    <3>2. PICK n \in 1 .. Len(K[q]) : j = K[q][n]
      BY <1>1, <1>2, <3>1
    <3>3. Len(K[q]) \in Nat /\ Len(K[j]) \in Nat /\ j \in DOMAIN K /\ q \in DOMAIN K
      BY <1>0, <1>2, RepPlace
    <3>4. g[j].next = NextOf(K[q], n) /\ g[j].child = FirstOf(K[j])
      BY <1>0, <3>2, <3>3 DEF Rep, Linked
    <3>5. x = g[j].child \/ x = g[j].next
      BY <1>4, <1>6, <3>3
    <3>6. CASE x = g[j].child
      <4>1. 1 \in 1 .. Len(K[j]) /\ x = K[j][1]
        BY <1>0, <1>6, <2>2, <3>3, <3>4, <3>6 DEF FirstOf
      <4> QED
        BY <1>1, <1>2, <2>2, <3>3, <4>1
    <3>7. CASE x = g[j].next
      <4>1. n + 1 \in 1 .. Len(K[q]) /\ x = K[q][n + 1]
        BY <1>0, <1>6, <2>2, <3>3, <3>4, <3>7 DEF NextOf
      <4> QED
        BY <1>1, <1>2, <2>2, <3>3, <4>1
    <3> QED
      BY <3>5, <3>6, <3>7
  <2> QED
    BY <2>1, <2>2
<1>10. F = D
  <2>1. F \subseteq D
    <3>1. Shut(Links(c), D) /\ D \in SUBSET DOMAIN Links(c) /\ f \in D
      BY <1>2, <1>3, <1>6, <1>9 DEF Shut
    <3> HIDE DEF D
    <3> QED
      BY ONLY <3>1, UnderLeast
  <2> QED
    BY <1>8, <2>1
<1>11. \A j \in D : Links(h)[j] = Links(c)[j]
  <2> SUFFICES ASSUME NEW j \in D PROVE Links(h)[j] = Links(c)[j]
    OBVIOUS
  <2>1. h[j].child = g[j].child
    BY DEF U
  <2>2. j \in DOMAIN K /\ j # p
    BY <1>2
  <2>3. h[j].next = g[j].next
    BY <1>0, <2>2 DEF SameNext
  <2> QED
    <3>1. c[j].child = h[j].child /\ c[j].next = h[j].next
      BY <1>4, <2>1, <2>2, <2>3
    <3>2. Links(c)[j] = {c[j].child, c[j].next} \ {Nil} /\ Links(h)[j] = {h[j].child, h[j].next} \ {Nil}
      BY <1>6, <2>2
    <3> QED
      BY ONLY <3>1, <3>2
<1>12. Under(Links(h), f) = F
  BY <1>2, <1>3, <1>6, <1>10, <1>11, UnderSame
<1>13. Freed(h, f) = Under(Links(h), f)
  BY <1>0, <1>2, <1>3, <1>7, FreedUnder
<1> QED
  BY <1>10, <1>12, <1>13 DEF U

(* When p's children are deleted, with all that is below them.             *)
LEMMA CutList ==
    ASSUME NEW g, NEW K, InOrder(g, K), NEW p \in DOMAIN K,
           NEW E, E = DOMAIN K \ (Under(Kin(K), p) \ {p})
    PROVE  InOrder(Restrict([g EXCEPT ![p].child = Nil], E), Restrict(WithList(K, p, <<>>), E))
<1> DEFINE U == Under(Kin(K), p)
           D == U \ {p}
           c == [g EXCEPT ![p].child = Nil]
           e == [j \in DOMAIN g |-> IF j \in Kin(K)[p]
                   THEN [type |-> g[j].type, name |-> g[j].name, str |-> g[j].str,
                         next |-> Nil, prev |-> Nil, child |-> g[j].child]
                   ELSE c[j]]
           L == WithList(K, p, <<>>)
<1>0. /\ Heap(g) /\ DOMAIN g = DOMAIN K /\ Rep(g, K) /\ Founded(Kin(K)) /\ Rooted(Kin(K))
      /\ DOMAIN Kin(K) = DOMAIN K /\ Graph(Kin(K))
  BY KinGraph DEF InOrder, Rep
<1>1. /\ D \in SUBSET DOMAIN K /\ Shut(Kin(K), D) /\ Kin(K)[p] \subseteq D
      /\ \A q \in DOMAIN K \ (D \cup {p}) : Kin(K)[q] \cap D = {}
      /\ p \notin Kin(K)[p]
  BY BelowOnly
<1> HIDE DEF U, D
<1>2. /\ Heap(c) /\ DOMAIN c = DOMAIN K /\ c[p].child = Nil
      /\ \A j \in DOMAIN K : /\ j # p => c[j].child = g[j].child
                             /\ c[j].next = g[j].next /\ c[j].prev = g[j].prev
  <2>1. ChildSet(c, g, p, Nil)
    BY <1>0, SetChild
  <2> HIDE DEF c
  <2> QED
    BY <1>0, <2>1 DEF ChildSet, Alike, SameNext, SamePrev, SameChild
<1> HIDE DEF c
<1>3. /\ DOMAIN e = DOMAIN K
      /\ \A j \in DOMAIN K : j \notin Kin(K)[p] => e[j] = c[j]
      /\ \A j \in Kin(K)[p] : j \in DOMAIN K => e[j].next = Nil /\ e[j].prev = Nil /\ e[j].child = g[j].child
  BY <1>0
<1>4. Heap(e)
  <2>1. \A j \in DOMAIN K : e[j] = [type |-> e[j].type, name |-> e[j].name, str |-> e[j].str,
                                    next |-> e[j].next, prev |-> e[j].prev, child |-> e[j].child]
    BY <1>0, <1>2 DEF Heap
  <2>2. e = [j \in DOMAIN K |-> e[j]]
    BY <1>0
  <2> HIDE DEF e
  <2>3. \A j \in DOMAIN K : {e[j].next, e[j].prev, e[j].child} \subseteq DOMAIN K \cup {Nil}
    <3> SUFFICES ASSUME NEW j \in DOMAIN K PROVE {e[j].next, e[j].prev, e[j].child} \subseteq DOMAIN K \cup {Nil}
      OBVIOUS
    <3>1. {c[j].next, c[j].prev, c[j].child} \subseteq DOMAIN K \cup {Nil} /\ g[j].child \in DOMAIN K \cup {Nil}
      BY <1>0, <1>2 DEF Heap
    <3> QED
      BY <1>3, <3>1
  <2> QED
    BY <1>0, <1>3, <2>1, <2>2, <2>3 DEF Heap
<1> HIDE DEF e
<1>5. Len(<<>>) = 0 /\ <<>> \in Seq(DOMAIN K)
  OBVIOUS
<1>6. Relinks(e, g, K, p, <<>>)
  <2>1. Alike(e, g)
    BY <1>0, <1>3, <1>4 DEF Alike
  <2>2. e[p].child = FirstOf(<<>>) /\ SameChild(e, g, DOMAIN K \ {p})
    BY <1>1, <1>2, <1>3 DEF FirstOf, SameChild
  <2>3. \A j \in DOMAIN K : IF j \in Kin(K)[p] THEN e[j].next = Nil /\ e[j].prev = Nil
                            ELSE e[j].next = g[j].next /\ e[j].prev = g[j].prev
    BY <1>2, <1>3
  <2> QED
    BY <1>5, <2>1, <2>2, <2>3 DEF Relinks
<1>7. Fits(K, p, <<>>)
  BY <1>5 DEF Fits
<1>8. /\ Rep(e, L) /\ DOMAIN Kin(L) = DOMAIN K
      /\ Kin(L)[p] = {<<>>[n] : n \in 1 .. Len(<<>>)}
      /\ \A q \in DOMAIN K \ {p} : Kin(L)[q] = Kin(K)[q]
  BY <1>0, <1>6, <1>7, Relinked
<1>9. Kin(L)[p] = {}
  BY <1>5, <1>8
<1>10. InOrder(e, L)
  <2>1. \A q \in DOMAIN K : Kin(L)[q] \subseteq Kin(K)[q]
    BY <1>8, <1>9
  <2>2. Founded(Kin(L)) /\ Rooted(Kin(L))
    BY <1>0, <1>8, <2>1, FewerEdges
  <2> QED
    BY <1>8, <2>2 DEF InOrder
<1>11. DOMAIN L = DOMAIN K
  BY DEF WithList
<1> HIDE DEF L
<1>12. Shut(Kin(L), D)
  BY <1>1, <1>8, <1>9 DEF Shut
<1>13. \A q \in DOMAIN L \ D : Kin(L)[q] \cap D = {}
  BY <1>1, <1>8, <1>9, <1>11
<1>14. InOrder(Restrict(e, DOMAIN L \ D), Restrict(L, DOMAIN L \ D))
  BY <1>1, <1>10, <1>11, <1>12, <1>13, PartTree
<1>15. E = DOMAIN L \ D
  BY <1>11 DEF D, U
<1>16. Restrict(e, E) = Restrict(c, E)
  BY <1>1, <1>3, <1>11, <1>15 DEF Restrict
<1> QED
  BY <1>14, <1>15, <1>16 DEF c, L

-----------------------------------------------------------------------------
(* A tree that is being parsed.  The heap h is that of g, where all lists  *)
(* are closed, but for the lists st names: their first element does not    *)
(* know the last, and their item does not know them.                       *)

Opening == {"[", "{"}
Frame == [item: Item, open: Opening, head: Link, cur: Link]

LastOf(s) == IF Len(s) = 0 THEN Nil ELSE s[Len(s)]

Framed(K, st, r) ==
    /\ st \in Seq(Frame) /\ r \in DOMAIN K
    /\ \A k \in 1 .. Len(st) :
          /\ st[k].item \in DOMAIN K
          /\ st[k].head = FirstOf(K[st[k].item]) /\ st[k].cur = LastOf(K[st[k].item])
          /\ st[k].item = IF k = 1 THEN r ELSE st[k - 1].cur

Unclosed(h, g, st) ==
    /\ Alike(h, g) /\ SameNext(h, g, DOMAIN g)
    /\ \A j \in DOMAIN g :
          /\ h[j].child = IF \E k \in 1 .. Len(st) : st[k].item = j THEN Nil ELSE g[j].child
          /\ h[j].prev = IF \E k \in 1 .. Len(st) : st[k].head = j THEN Nil ELSE g[j].prev

Pending(h, g, K, st, r) == InOrder(g, K) /\ Roots(K) = {r} /\ Framed(K, st, r) /\ Unclosed(h, g, st)

(* Each list that is being parsed is below the ones before it.             *)
LEMMA Nested ==
    ASSUME NEW g, NEW K, InOrder(g, K), NEW st, NEW r, Framed(K, st, r), NEW j \in 1 .. Len(st)
    PROVE  \A k \in j .. Len(st) : st[k].item \in Under(Kin(K), st[j].item)
<1> DEFINE U == Under(Kin(K), st[j].item)
           T == {k \in j .. Len(st) : st[k].item \notin U}
<1>0. Len(st) \in Nat /\ st[j].item \in DOMAIN K
  BY LenProperties DEF Framed
<1>1. /\ Graph(Kin(K)) /\ DOMAIN Kin(K) = DOMAIN K
      /\ \A p \in DOMAIN K : Kin(K)[p] = {K[p][n] : n \in 1 .. Len(K[p])}
  BY KinGraph DEF InOrder
<1>2. st[j].item \in U /\ Shut(Kin(K), U) /\ U \in SUBSET DOMAIN K
  BY <1>0, <1>1, UnderSet
<1> SUFFICES ASSUME T # {} PROVE FALSE
  OBVIOUS
<1> HIDE DEF U
<1>3. T \subseteq Nat
  BY <1>0
<1>4. PICK k \in T : \A m \in T : k <= m
  BY <1>3, LeastNat
<1>5. k # j /\ k \in 2 .. Len(st) /\ k - 1 \in j .. Len(st) /\ k - 1 \in 1 .. Len(st)
  BY <1>0, <1>2, <1>4
<1>6. st[k - 1].item \in U
  BY <1>0, <1>4, <1>5
<1> DEFINE p == st[k - 1].item
<1>7. p \in DOMAIN K /\ st[k].item = LastOf(K[p]) /\ st[k].item \in DOMAIN K
  <2>1. k # 1 /\ k \in 1 .. Len(st)
    BY <1>0, <1>5
  <2> QED
    BY <1>5, <2>1 DEF Framed
<1>8. Nil \notin DOMAIN K
  BY DEF InOrder, Rep, Heap, Item, Nil
<1>9. Len(K[p]) \in Nat
  BY <1>7, RepPlace DEF InOrder
<1>10. st[k].item \in Kin(K)[p]
  BY <1>1, <1>7, <1>8, <1>9 DEF LastOf
<1> QED
  BY <1>2, <1>4, <1>6, <1>10 DEF Shut

LEMMA FramesApart ==
    ASSUME NEW g, NEW K, InOrder(g, K), NEW st, NEW r, Framed(K, st, r),
           NEW j \in 1 .. Len(st), NEW k \in 1 .. Len(st), j < k
    PROVE  /\ st[j].item \notin Under(Kin(K), st[k].item) /\ st[k].item # st[j].item
           /\ st[j].head # st[k].head
<1>0. Len(st) \in Nat /\ st[j].item \in DOMAIN K /\ st[k].item \in DOMAIN K
  BY LenProperties DEF Framed
<1>1. /\ Graph(Kin(K)) /\ DOMAIN Kin(K) = DOMAIN K /\ Rooted(Kin(K))
      /\ \A p \in DOMAIN K : Kin(K)[p] = {K[p][n] : n \in 1 .. Len(K[p])}
  BY KinGraph DEF InOrder
<1>2. st[k].item \in Under(Kin(K), st[j].item)
  BY <1>0, Nested
<1>3. /\ k - 1 \in 1 .. Len(st) /\ k - 1 \in j .. Len(st) /\ k # 1
      /\ j + 1 \in 1 .. Len(st) /\ j + 1 # 1 /\ (j + 1) - 1 = j
  BY <1>0
<1> DEFINE p == st[k - 1].item
<1>4. p \in DOMAIN K /\ st[k].item = LastOf(K[p]) /\ p \in Under(Kin(K), st[j].item)
  BY <1>3, Nested DEF Framed
<1>5. Nil \notin DOMAIN K
  BY DEF InOrder, Rep, Heap, Item, Nil
<1>6. Len(K[p]) \in Nat
  BY <1>4, RepPlace DEF InOrder
<1>7. st[k].item \in Kin(K)[p]
  BY <1>0, <1>1, <1>4, <1>5, <1>6 DEF LastOf
<1>8. st[k].item # st[j].item
  BY <1>0, <1>1, <1>4, <1>7, NoReturn
<1>9. st[j].item \notin Under(Kin(K), st[k].item)
  BY <1>0, <1>1, <1>2, <1>8, NoLoop
<1>10. st[j].head # st[k].head
  <2> DEFINE a == st[j].item
             b == st[k].item
  <2>1. st[j].head = FirstOf(K[a]) /\ st[k].head = FirstOf(K[b])
    BY DEF Framed
  <2>2. st[j + 1].item = st[j].cur /\ st[j + 1].item \in DOMAIN K /\ st[j].cur = LastOf(K[a])
    BY <1>3 DEF Framed
  <2>3. Len(K[a]) \in Nat /\ Len(K[b]) \in Nat
    BY <1>0, RepPlace DEF InOrder
  <2>4. Len(K[a]) # 0
    BY <1>5, <2>2 DEF LastOf
  <2>5. 1 \in 1 .. Len(K[a]) /\ st[j].head = K[a][1] /\ st[j].head \in DOMAIN K
    <3>1. 1 \in 1 .. Len(K[a]) /\ st[j].head = K[a][1]
      BY <2>1, <2>3, <2>4 DEF FirstOf
    <3> QED
      BY <1>0, <3>1, RepPlace DEF InOrder
  <2> SUFFICES ASSUME st[j].head = st[k].head PROVE FALSE
    OBVIOUS
  <2>6. Len(K[b]) # 0
    <3>1. FirstOf(K[b]) # Nil
      BY <1>5, <2>1, <2>5
    <3> QED
      BY <3>1 DEF FirstOf
  <2> HIDE DEF a, b
  <2>8. 1 \in 1 .. Len(K[b]) /\ st[k].head = K[b][1]
    <3>1. 1 \in 1 .. Len(K[b])
      BY ONLY <2>3, <2>6
    <3>2. st[k].head = K[b][1]
      BY ONLY <2>1, <2>6 DEF FirstOf
    <3> QED
      BY <3>1, <3>2
  <2>7. a = b
    <3>1. a \in DOMAIN K /\ b \in DOMAIN K /\ K[a][1] = K[b][1]
      BY <1>0, <2>5, <2>8 DEF a, b
    <3> QED
      BY <2>5, <2>8, <3>1 DEF InOrder, Rep, Apart
  <2> QED
    BY <1>8, <2>7 DEF a, b
<1> QED
  BY <1>8, <1>9, <1>10

LEMMA Ends == ASSUME NEW g, NEW K, InOrder(g, K), NEW p \in DOMAIN K
              PROVE  /\ Nil \notin DOMAIN K /\ Len(K[p]) \in Nat /\ g[p].child = FirstOf(K[p])
                     /\ Len(K[p]) = 0 => FirstOf(K[p]) = Nil /\ LastOf(K[p]) = Nil
                     /\ Len(K[p]) # 0 => /\ 1 \in 1 .. Len(K[p]) /\ Len(K[p]) \in 1 .. Len(K[p])
                                         /\ FirstOf(K[p]) = K[p][1] /\ LastOf(K[p]) = K[p][Len(K[p])]
                                         /\ FirstOf(K[p]) \in DOMAIN K /\ LastOf(K[p]) \in DOMAIN K
                                         /\ g[FirstOf(K[p])].prev = LastOf(K[p])
<1>1. Rep(g, K) /\ Nil \notin DOMAIN K
  BY DEF InOrder, Rep, Heap, Item, Nil
<1>2. Len(K[p]) \in Nat /\ \A n \in 1 .. Len(K[p]) : K[p][n] \in DOMAIN K
  BY <1>1, RepPlace
<1>3. g[p].child = FirstOf(K[p])
  BY <1>1 DEF Rep, Linked
<1>4. Len(K[p]) = 0 => FirstOf(K[p]) = Nil /\ LastOf(K[p]) = Nil
  BY DEF FirstOf, LastOf
<1>5. ASSUME Len(K[p]) # 0
      PROVE  /\ 1 \in 1 .. Len(K[p]) /\ Len(K[p]) \in 1 .. Len(K[p])
             /\ FirstOf(K[p]) = K[p][1] /\ LastOf(K[p]) = K[p][Len(K[p])]
             /\ g[K[p][1]].prev = K[p][Len(K[p])]
  <2>1. 1 \in 1 .. Len(K[p]) /\ Len(K[p]) \in 1 .. Len(K[p])
    BY <1>2, <1>5
  <2>2. FirstOf(K[p]) = K[p][1] /\ LastOf(K[p]) = K[p][Len(K[p])]
    BY <1>5 DEF FirstOf, LastOf
  <2>3. g[K[p][1]].prev = PrevOf(K[p], 1)
    BY <1>1, <2>1 DEF Rep, Linked
  <2> QED
    BY <2>1, <2>2, <2>3 DEF PrevOf
<1> QED
  BY <1>1, <1>2, <1>3, <1>4, <1>5

(* The names and values of items change nothing else.                      *)
LEMMA PendSame ==
    ASSUME NEW h, NEW g, NEW K, NEW st, NEW r, Pending(h, g, K, st, r),
           NEW e, Alike(e, h), SameNext(e, h, DOMAIN h), SamePrev(e, h, DOMAIN h), SameChild(e, h, DOMAIN h)
    PROVE  Pending(e, g, K, st, r)
<1>1. DOMAIN h = DOMAIN g /\ DOMAIN e = DOMAIN g /\ Heap(e)
  BY DEF Pending, Unclosed, Alike
<1>2. \A j \in DOMAIN g : e[j].next = h[j].next /\ e[j].prev = h[j].prev /\ e[j].child = h[j].child
  BY <1>1 DEF SameNext, SamePrev, SameChild
<1> QED
  BY <1>1, <1>2 DEF Pending, Unclosed, Alike, SameNext

(* The item a value is parsed for.                                         *)
Awaits(st, r) == IF Len(st) = 0 THEN r ELSE st[Len(st)].cur

LEMMA PendOpen ==
    ASSUME NEW h, NEW g, NEW K, NEW st, NEW r, Pending(h, g, K, st, r),
           NEW t \in DOMAIN K, t = Awaits(st, r), K[t] = <<>>, NEW o \in Opening,
           NEW f, f = [item |-> t, open |-> o, head |-> Nil, cur |-> Nil]
    PROVE  Pending(h, g, K, Append(st, f), r)
<1> DEFINE s2 == Append(st, f)
<1>1. InOrder(g, K) /\ Framed(K, st, r) /\ Unclosed(h, g, st) /\ DOMAIN g = DOMAIN K
  BY DEF Pending, InOrder, Rep
<1>2. f \in Frame
  <2>1. t \in Item
    BY <1>1 DEF InOrder, Rep, Heap
  <2>2. Nil \in Link
    BY DEF Link
  <2> QED
    BY <2>1, <2>2 DEF Frame
<1>3. st \in Seq(Frame) /\ Len(st) \in Nat
  BY <1>1, LenProperties DEF Framed
<1>4. /\ s2 \in Seq(Frame) /\ Len(s2) = Len(st) + 1
      /\ \A k \in 1 .. Len(st) : s2[k] = st[k]
      /\ s2[Len(st) + 1] = f
  <2> HIDE DEF s2
  <2>1. /\ s2 \in Seq(Frame) /\ Len(s2) = Len(st) + 1
        /\ \A k \in 1 .. Len(st) : s2[k] = st[k]
    BY <1>2, <1>3, AppendProperties DEF s2
  <2>2. s2[Len(st) + 1] = f
    BY <1>2, <1>3, AppendProperties DEF s2
  <2> QED
    BY <2>1, <2>2
<1> HIDE DEF s2
<1>a. \A k \in 1 .. Len(s2) : k \in 1 .. Len(st) \/ k = Len(st) + 1
  BY ONLY <1>3, <1>4
<1>b. 1 .. Len(st) \subseteq 1 .. Len(s2) /\ Len(st) + 1 \in 1 .. Len(s2)
  BY ONLY <1>3, <1>4
<1>c. \A k \in 1 .. Len(st) : k # 1 => k - 1 \in 1 .. Len(st)
  BY ONLY <1>3
<1>d. Len(st) + 1 # 1 => Len(st) # 0 /\ Len(st) \in 1 .. Len(st) /\ (Len(st) + 1) - 1 = Len(st)
  BY ONLY <1>3
<1>e. Len(st) + 1 = 1 => Len(st) = 0
  BY ONLY <1>3
<1>g. f.item = t /\ f.head = Nil /\ f.cur = Nil
  OBVIOUS
<1>5. Nil \notin DOMAIN K /\ FirstOf(K[t]) = Nil /\ LastOf(K[t]) = Nil /\ g[t].child = Nil
  <2>1. Len(K[t]) = 0
    BY ONLY K[t] = <<>>
  <2>2. FirstOf(K[t]) = Nil /\ LastOf(K[t]) = Nil
    BY <2>1 DEF FirstOf, LastOf
  <2>3. Nil \notin DOMAIN K /\ g[t].child = FirstOf(K[t])
    BY <1>1, Ends
  <2> QED
    BY <2>2, <2>3
<1>6. Framed(K, s2, r)
  <2> SUFFICES ASSUME NEW k \in 1 .. Len(s2)
               PROVE  /\ s2[k].item \in DOMAIN K
                      /\ s2[k].head = FirstOf(K[s2[k].item]) /\ s2[k].cur = LastOf(K[s2[k].item])
                      /\ s2[k].item = IF k = 1 THEN r ELSE s2[k - 1].cur
    BY <1>1, <1>4 DEF Framed
  <2>1. CASE k \in 1 .. Len(st)
    <3>1. s2[k] = st[k] /\ (k # 1 => s2[k - 1] = st[k - 1])
      BY <1>4, <1>c, <2>1
    <3> QED
      BY <1>1, <2>1, <3>1 DEF Framed
  <2>2. CASE k = Len(st) + 1
    <3>1. s2[k] = f
      BY <1>4, <2>2
    <3>2. k # 1 => s2[k - 1] = st[Len(st)] /\ Len(st) # 0
      BY <1>4, <1>d, <2>2
    <3>3. k = 1 => Len(st) = 0
      BY <1>e, <2>2
    <3>4. t = IF k = 1 THEN r ELSE s2[k - 1].cur
      BY <3>2, <3>3 DEF Awaits
    <3> QED
      BY <1>5, <1>g, <3>1, <3>4
  <2> QED
    BY <1>a, <2>1, <2>2
<1>7. Unclosed(h, g, s2)
  <2> SUFFICES ASSUME NEW j \in DOMAIN g
               PROVE  /\ h[j].child = IF \E k \in 1 .. Len(s2) : s2[k].item = j THEN Nil ELSE g[j].child
                      /\ h[j].prev = IF \E k \in 1 .. Len(s2) : s2[k].head = j THEN Nil ELSE g[j].prev
    BY <1>1 DEF Unclosed
  <2>1. (\E k \in 1 .. Len(s2) : s2[k].item = j) <=> (\E k \in 1 .. Len(st) : st[k].item = j) \/ j = t
    BY <1>4, <1>a, <1>b, <1>g
  <2>2. (\E k \in 1 .. Len(s2) : s2[k].head = j) <=> (\E k \in 1 .. Len(st) : st[k].head = j)
    <3>1. f.head # j
      BY <1>1, <1>5, <1>g
    <3> QED
      BY <1>4, <1>a, <1>b, <3>1
  <2> QED
    BY <1>1, <1>5, <2>1, <2>2 DEF Unclosed
<1> QED
  BY <1>6, <1>7 DEF Pending, s2

Popped(t, st) == t \in Seq(Frame) /\ Len(t) = Len(st) - 1 /\ \A k \in 1 .. Len(st) - 1 : t[k] = st[k]

LEMMA FramedFront ==
    ASSUME NEW K, NEW st, NEW r, Framed(K, st, r), Len(st) # 0, NEW t, Popped(t, st)
    PROVE  Framed(K, t, r)
<1>1. Len(st) \in Nat /\ Len(t) = Len(st) - 1 /\ Len(t) \in Nat
  BY LenProperties DEF Framed, Popped
<1>2. \A k \in 1 .. Len(t) : k \in 1 .. Len(st) /\ t[k] = st[k] /\ (k # 1 => t[k - 1] = st[k - 1])
  BY <1>1 DEF Popped
<1> QED
  BY <1>2 DEF Framed, Popped

LEMMA PendClose ==
    ASSUME NEW h, NEW g, NEW K, NEW st, NEW r, Pending(h, g, K, st, r), Len(st) # 0,
           NEW t, Popped(t, st), NEW f, f = st[Len(st)],
           NEW e, Alike(e, h), SameNext(e, h, DOMAIN h),
           e[f.item].child = f.head, SameChild(e, h, DOMAIN h \ {f.item}),
           f.head # Nil => e[f.head].prev = f.cur, SamePrev(e, h, DOMAIN h \ {f.head})
    PROVE  Pending(e, g, K, t, r)
<1>1. InOrder(g, K) /\ Framed(K, st, r) /\ Unclosed(h, g, st) /\ DOMAIN g = DOMAIN K
  BY DEF Pending, InOrder, Rep
<1>2. Len(st) \in Nat /\ Len(t) = Len(st) - 1 /\ Len(t) \in Nat /\ Len(st) \in 1 .. Len(st)
      /\ \A k \in 1 .. Len(t) : k \in 1 .. Len(st) /\ k < Len(st) /\ t[k] = st[k]
  <2>1. Len(st) \in Nat
    BY <1>1, LenProperties DEF Framed
  <2> QED
    BY <2>1 DEF Popped
<1>3. f.item \in DOMAIN K /\ f.head = FirstOf(K[f.item]) /\ f.cur = LastOf(K[f.item])
  BY <1>1, <1>2 DEF Framed
<1>4. ASSUME NEW k \in 1 .. Len(t) PROVE t[k].item # f.item /\ t[k].head # f.head
  <2>1. k \in 1 .. Len(st) /\ Len(st) \in 1 .. Len(st) /\ k < Len(st) /\ t[k] = st[k]
    BY <1>2
  <2>2. st[Len(st)].item # st[k].item /\ st[k].head # st[Len(st)].head
    BY <1>1, <2>1, FramesApart
  <2> QED
    BY <2>1, <2>2
<1>5. \A k \in 1 .. Len(st) : k \in 1 .. Len(t) \/ k = Len(st)
  BY <1>2
<1>6. DOMAIN h = DOMAIN g /\ DOMAIN e = DOMAIN g /\ Heap(e) /\ SameNext(e, g, DOMAIN g)
  BY <1>1 DEF Unclosed, Alike, SameNext
<1>7. ASSUME NEW j \in DOMAIN g
      PROVE  /\ e[j].child = IF \E k \in 1 .. Len(t) : t[k].item = j THEN Nil ELSE g[j].child
             /\ e[j].prev = IF \E k \in 1 .. Len(t) : t[k].head = j THEN Nil ELSE g[j].prev
  <2>a. e[j].child = IF \E k \in 1 .. Len(t) : t[k].item = j THEN Nil ELSE g[j].child
    <3>1. CASE j = f.item
      <4>1. e[j].child = g[j].child
        BY <1>1, <1>3, <3>1, Ends
      <4> QED
        BY <1>4, <3>1, <4>1
    <3>2. CASE j # f.item
      <4>1. e[j].child = h[j].child
        BY <1>6, <3>2 DEF SameChild
      <4>2. (\E k \in 1 .. Len(st) : st[k].item = j) <=> \E k \in 1 .. Len(t) : t[k].item = j
        BY <1>2, <1>5, <3>2
      <4> QED
        BY <1>1, <4>1, <4>2 DEF Unclosed
    <3> QED
      BY <3>1, <3>2
  <2>b. e[j].prev = IF \E k \in 1 .. Len(t) : t[k].head = j THEN Nil ELSE g[j].prev
    <3>1. CASE j = f.head
      <4>1. f.head # Nil
        BY <1>1, <1>3, <3>1, Ends
      <4>2. Len(K[f.item]) # 0
        BY <1>1, <1>3, <4>1, Ends
      <4>3. e[j].prev = g[j].prev
        BY <1>1, <1>3, <3>1, <4>1, <4>2, Ends
      <4> QED
        BY <1>4, <3>1, <4>3
    <3>2. CASE j # f.head
      <4>1. e[j].prev = h[j].prev
        BY <1>6, <3>2 DEF SamePrev
      <4>2. (\E k \in 1 .. Len(st) : st[k].head = j) <=> \E k \in 1 .. Len(t) : t[k].head = j
        BY <1>2, <1>5, <3>2
      <4> QED
        BY <1>1, <4>1, <4>2 DEF Unclosed
    <3> QED
      BY <3>1, <3>2
  <2> QED
    BY <2>a, <2>b
<1>8. Unclosed(e, g, t)
  BY <1>6, <1>7 DEF Unclosed, Alike
<1>9. Framed(K, t, r)
  BY <1>1, FramedFront
<1> QED
  BY <1>8, <1>9 DEF Pending

(* One more element f of the last list of st, before its value is known.   *)
Extended(h, st, t, f) ==
    /\ t \in Seq(Frame) /\ Len(t) = Len(st)
    /\ \A k \in 1 .. Len(st) - 1 : t[k] = st[k]
    /\ t[Len(st)].item = st[Len(st)].item /\ t[Len(st)].open = st[Len(st)].open /\ t[Len(st)].cur = f
    /\ t[Len(st)].head = IF st[Len(st)].head = Nil THEN f ELSE st[Len(st)].head

(* What parse_array and parse_object do to the new element's links.        *)
Chained(e, h, last, f) ==
    /\ Alike(e, h) /\ SameChild(e, h, DOMAIN h)
    /\ \A j \in DOMAIN h : /\ e[j].next = IF j = last THEN f ELSE h[j].next
                           /\ e[j].prev = IF j = f THEN last ELSE h[j].prev

(* The tree with the new element in it.                                    *)
Grows(g, K, p, type, f, s, n) ==
    LET c == WithItem(g, type)
        x == AddToArray(c, p, f)
        L == WithList(WithLeaf(K, f), p, InsertAt(s, n, f))
    IN /\ InOrder(x, L) /\ Inserts(x, c, p, s, n, f)
       /\ f \in Item \ DOMAIN K /\ DOMAIN L = DOMAIN K \cup {f} /\ L[f] = <<>>
       /\ Longer(L[p], s, n, f) /\ \A q \in DOMAIN K \ {p} : L[q] = K[q]

LEMMA Grown ==
    ASSUME NEW g, NEW K, InOrder(g, K), NEW p \in DOMAIN K, ~Full(g), NEW type,
           NEW f, f = Fresh(g), NEW s, s = K[p], NEW n, n = Len(s) + 1
    PROVE  Grows(g, K, p, type, f, s, n)
<1> DEFINE c == WithItem(g, type)
           M == WithLeaf(K, f)
           t == InsertAt(s, n, f)
           L == WithList(M, p, t)
<1>1. f \in Item \ DOMAIN K /\ InOrder(c, M) /\ ~Placed(M, f)
  BY NewTree
<1>2. DOMAIN M = DOMAIN K \cup {f} /\ M[f] = <<>> /\ \A q \in DOMAIN K : M[q] = K[q]
  BY <1>1 DEF WithLeaf
<1> HIDE DEF M, c
<1>3. p \in DOMAIN M /\ s = M[p] /\ f \in DOMAIN M /\ p # f
  BY <1>1, <1>2
<1>4. p \notin Under(Kin(M), f)
  <2>1. Graph(Kin(M)) /\ DOMAIN Kin(M) = DOMAIN M
    BY <1>1, KinGraph DEF InOrder
  <2>2. Kin(M)[f] = {}
    <3>1. Kin(M)[f] = {M[f][m] : m \in 1 .. Len(M[f])}
      BY <1>1, <1>3, KinGraph DEF InOrder
    <3>2. Len(M[f]) = 0
      BY <1>2
    <3> QED
      BY <3>1, <3>2
  <2>3. Shut(Kin(M), {f}) /\ {f} \in SUBSET DOMAIN Kin(M)
    BY <1>3, <2>1, <2>2 DEF Shut
  <2>4. Under(Kin(M), f) \subseteq {f}
    BY <2>3, UnderLeast
  <2> QED
    BY <1>3, <2>4
<1>5. InOrder(AddToArray(c, p, f), L)
  BY <1>1, <1>3, <1>4, AddTree DEF MayHold
<1>6. Inserts(AddToArray(c, p, f), c, p, s, n, f)
  BY <1>1, <1>3, AddFields DEF InOrder
<1>7. s \in Seq(DOMAIN M) /\ Len(s) \in Nat
  BY <1>1, <1>3, RepPlace DEF InOrder
<1>8. Longer(t, s, n, f)
  <2>1. n \in 1 .. Len(s) + 1
    BY <1>7
  <2> QED
    BY <1>3, <1>7, <2>1, Inserted
<1> HIDE DEF t
<1>9. DOMAIN L = DOMAIN K \cup {f} /\ L[p] = t /\ \A q \in DOMAIN M \ {p} : L[q] = M[q]
  BY <1>2, <1>3 DEF WithList
<1> HIDE DEF L
<1> QED
  BY <1>1, <1>2, <1>3, <1>5, <1>6, <1>8, <1>9 DEF L, M, t, c, Grows

LinksNew(e, h, type, top, f) ==
    IF top.head = Nil THEN e = WithItem(h, type) ELSE Chained(e, WithItem(h, type), top.cur, f)

(* The children with f as the last one of p.                               *)
Grew(K, L, p, f) == /\ DOMAIN L = DOMAIN K \cup {f} /\ f \notin DOMAIN K /\ L[f] = <<>>
                    /\ Longer(L[p], K[p], Len(K[p]) + 1, f) /\ \A q \in DOMAIN K \ {p} : L[q] = K[q]

AwaitsBare(e, t, r, f, K, p) == \E x, L : Pending(e, x, L, t, r) /\ Grew(K, L, p, f)

LEMMA PendElement ==
    ASSUME NEW h, NEW g, NEW K, NEW st, NEW r, Pending(h, g, K, st, r), Len(st) # 0, ~Full(h), NEW type,
           NEW f, f = Fresh(h), NEW top, top = st[Len(st)],
           NEW t, Extended(h, st, t, f),
           NEW e, LinksNew(e, h, type, top, f)
    PROVE  AwaitsBare(e, t, r, f, K, top.item)
<1> DEFINE p == top.item
           s == K[p]
           n == Len(s) + 1
           b == WithItem(h, type)
           c == WithItem(g, type)
           x == AddToArray(c, p, f)
           L == WithList(WithLeaf(K, f), p, InsertAt(s, n, f))
<1>1. InOrder(g, K) /\ Framed(K, st, r) /\ Unclosed(h, g, st) /\ DOMAIN g = DOMAIN K
      /\ Heap(h) /\ Heap(g) /\ DOMAIN h = DOMAIN K /\ Roots(K) = {r}
  BY DEF Pending, InOrder, Rep, Unclosed, Alike
<1>2. Len(st) \in Nat /\ Len(t) = Len(st) /\ Len(st) \in 1 .. Len(st) /\ st \in Seq(Frame)
      /\ \A k \in 1 .. Len(st) : k = Len(st) \/ (k \in 1 .. Len(st) - 1 /\ k < Len(st))
  <2>1. Len(st) \in Nat /\ st \in Seq(Frame)
    BY <1>1, LenProperties DEF Framed
  <2> QED
    BY <2>1 DEF Extended
<1>3. p \in DOMAIN K /\ top.head = FirstOf(s) /\ top.cur = LastOf(s)
  BY <1>1, <1>2 DEF Framed
<1>4. f = Fresh(g) /\ ~Full(g)
  BY <1>1 DEF Fresh, Full
<1>5. /\ InOrder(x, L) /\ Inserts(x, c, p, s, n, f)
      /\ f \in Item \ DOMAIN K /\ DOMAIN L = DOMAIN K \cup {f} /\ L[f] = <<>>
      /\ Longer(L[p], s, n, f) /\ \A q \in DOMAIN K \ {p} : L[q] = K[q]
  <2>1. s = K[p] /\ n = Len(s) + 1 /\ InOrder(g, K) /\ p \in DOMAIN K /\ ~Full(g) /\ f = Fresh(g)
    BY <1>1, <1>3, <1>4
  <2> HIDE DEF s, n, p
  <2> QED
    <3>1. Grows(g, K, p, type, f, s, n)
      BY ONLY <2>1, Grown
    <3> QED
      BY <3>1 DEF Grows, x, L, c
<1> HIDE DEF x, L
<1>6. Nil \notin DOMAIN K /\ f # Nil /\ Len(s) \in Nat
      /\ (Len(s) = 0 => top.head = Nil /\ top.cur = Nil)
      /\ (Len(s) # 0 => /\ 1 \in 1 .. Len(s) /\ Len(s) \in 1 .. Len(s)
                        /\ top.head = s[1] /\ top.cur = s[Len(s)] /\ s[1] \in DOMAIN K /\ s[Len(s)] \in DOMAIN K
                        /\ g[s[1]].prev = s[Len(s)] /\ top.head # Nil)
  <2>1. f # Nil
    BY <1>5 DEF Item, Nil
  <2> QED
    BY <1>1, <1>3, <2>1, Ends
<1>7. /\ DOMAIN b = DOMAIN K \cup {f} /\ \A j \in DOMAIN K : b[j] = h[j]
      /\ b[f] = [type |-> type, name |-> NoStr, str |-> NoStr, next |-> Nil, prev |-> Nil, child |-> Nil]
  BY <1>1, <1>5 DEF WithItem, Fields
<1>8. /\ DOMAIN c = DOMAIN K \cup {f} /\ \A j \in DOMAIN K : c[j] = g[j]
      /\ c[f] = [type |-> type, name |-> NoStr, str |-> NoStr, next |-> Nil, prev |-> Nil, child |-> Nil]
  BY <1>1, <1>4, <1>5 DEF WithItem, Fields
<1> HIDE DEF b, c
<1>9. /\ DOMAIN x = DOMAIN K \cup {f} /\ Heap(x)
      /\ x[p].child = IF Len(s) = 0 THEN f ELSE s[1]
      /\ \A j \in DOMAIN K \ {p} : x[j].child = g[j].child
      /\ x[f].child = Nil
      /\ \A j \in DOMAIN K : /\ x[j].next = IF Len(s) # 0 /\ j = s[Len(s)] THEN f ELSE g[j].next
                             /\ x[j].prev = IF Len(s) # 0 /\ j = s[1] THEN f ELSE g[j].prev
      /\ x[f].next = Nil /\ x[f].prev = IF Len(s) = 0 THEN f ELSE s[Len(s)]
  <2>1. n \in Nat /\ n = Len(s) + 1 /\ n - 1 = Len(s) /\ (n = 1 <=> Len(s) = 0)
    BY <1>6
  <2>2. p # f /\ f \notin DOMAIN K /\ p \in DOMAIN c /\ f \in DOMAIN c
    BY <1>3, <1>5, <1>8
  <2> HIDE DEF n, p, s
  <2>3. Alike(x, c) /\ SameChild(x, c, DOMAIN c \ {p}) /\ x[p].child = IF n = 1 THEN f ELSE s[1]
    BY <1>5 DEF Inserts
  <2>4. \A j \in DOMAIN c :
         /\ x[j].next = IF j = f THEN Nil
                        ELSE IF n # 1 /\ j = s[n - 1] THEN f ELSE c[j].next
         /\ x[j].prev = IF j = f THEN (IF Len(s) = 0 THEN f ELSE IF n = 1 THEN s[Len(s)] ELSE s[n - 1])
                        ELSE IF n # 1 /\ j = s[1] THEN f ELSE c[j].prev
    BY <1>5, <2>1 DEF Inserts
  <2>5. x[f].child = c[f].child /\ \A j \in DOMAIN K \ {p} : x[j].child = c[j].child
    BY <1>8, <2>2, <2>3 DEF SameChild
  <2>6. DOMAIN x = DOMAIN K \cup {f} /\ Heap(x)
    BY <1>8, <2>3 DEF Alike
  <2>7. x[f].child = Nil /\ \A j \in DOMAIN K \ {p} : x[j].child = g[j].child
    BY <1>8, <2>5
  <2>8. x[f].next = Nil /\ x[f].prev = IF Len(s) = 0 THEN f ELSE s[Len(s)]
    BY <2>1, <2>2, <2>4
  <2>9. \A j \in DOMAIN K : /\ x[j].next = IF Len(s) # 0 /\ j = s[Len(s)] THEN f ELSE g[j].next
                            /\ x[j].prev = IF Len(s) # 0 /\ j = s[1] THEN f ELSE g[j].prev
    BY <1>8, <2>1, <2>2, <2>4
  <2> QED
    BY <2>1, <2>3, <2>6, <2>7, <2>8, <2>9
<1>10. /\ \A j \in DOMAIN K : /\ h[j].next = g[j].next
                              /\ h[j].child = IF \E k \in 1 .. Len(st) : st[k].item = j THEN Nil ELSE g[j].child
                              /\ h[j].prev = IF \E k \in 1 .. Len(st) : st[k].head = j THEN Nil ELSE g[j].prev
  BY <1>1 DEF Unclosed, SameNext
<1>11. /\ Heap(e) /\ DOMAIN e = DOMAIN K \cup {f}
       /\ \A j \in DOMAIN K : /\ e[j].child = h[j].child
                              /\ e[j].next = IF Len(s) # 0 /\ j = s[Len(s)] THEN f ELSE h[j].next
                              /\ e[j].prev = h[j].prev
       /\ e[f].child = Nil /\ e[f].next = Nil /\ e[f].prev = IF Len(s) = 0 THEN Nil ELSE s[Len(s)]
  <2>1. CASE top.head = Nil
    <3>1. Len(s) = 0 /\ e = b
      BY <1>6, <2>1 DEF b, LinksNew
    <3>2. Heap(b)
      <4>1. b = [j \in DOMAIN K \cup {f} |-> [type |-> b[j].type, name |-> b[j].name, str |-> b[j].str,
                            next |-> b[j].next, prev |-> b[j].prev, child |-> b[j].child]]
        <5>1. b = [j \in DOMAIN K \cup {f} |-> b[j]]
          BY <1>1, <1>5 DEF b, WithItem
        <5>2. \A j \in DOMAIN K \cup {f} : b[j] = [type |-> b[j].type, name |-> b[j].name, str |-> b[j].str,
                            next |-> b[j].next, prev |-> b[j].prev, child |-> b[j].child]
          BY <1>1, <1>7 DEF Heap
        <5> QED
          BY <5>1, <5>2
      <4>2. DOMAIN b = DOMAIN K \cup {f} /\ DOMAIN b \in SUBSET Item
        BY <1>1, <1>5, <1>7 DEF Heap
      <4>3. \A i \in DOMAIN b : {b[i].next, b[i].prev, b[i].child} \subseteq DOMAIN b \cup {Nil}
        BY <1>1, <1>5, <1>7, <4>2 DEF Heap
      <4>4. b = [j \in DOMAIN b |-> [type |-> b[j].type, name |-> b[j].name, str |-> b[j].str,
                            next |-> b[j].next, prev |-> b[j].prev, child |-> b[j].child]]
        BY <4>1, <4>2
      <4> HIDE DEF b
      <4> QED
        BY <4>2, <4>3, <4>4 DEF Heap
    <3> QED
      BY <1>5, <1>7, <3>1, <3>2
  <2>2. CASE top.head # Nil
    <3>1. Len(s) # 0 /\ Chained(e, b, s[Len(s)], f)
      BY <1>6, <2>2 DEF b, LinksNew
    <3>2. Heap(e) /\ DOMAIN e = DOMAIN b /\ \A j \in DOMAIN b : e[j].child = b[j].child
      BY <3>1 DEF Chained, Alike, SameChild
    <3>3. \A j \in DOMAIN b : /\ e[j].next = IF j = s[Len(s)] THEN f ELSE b[j].next
                              /\ e[j].prev = IF j = f THEN s[Len(s)] ELSE b[j].prev
      BY <3>1 DEF Chained
    <3>4. f # s[Len(s)] /\ f \notin DOMAIN K
      BY <1>5, <1>6, <3>1
    <3> QED
      BY <1>7, <3>1, <3>2, <3>3, <3>4
  <2> QED
    BY <2>1, <2>2
<1>12. /\ \A k \in 1 .. Len(st) : k = Len(st) \/ (k < Len(st) /\ t[k] = st[k])
       /\ t[Len(st)].item = p /\ t[Len(st)].cur = f /\ t \in Seq(Frame)
       /\ t[Len(st)].head = IF Len(s) = 0 THEN f ELSE s[1]
  BY <1>2, <1>6 DEF Extended
<1>13. \A k \in 1 .. Len(st) : t[k].item = st[k].item
  BY <1>12
<1>14. \A k \in 1 .. Len(st) : k < Len(st) => st[k].item # p /\ st[k].head # top.head
  BY <1>1, <1>2, FramesApart
<1>15. /\ L[p] = L[p] /\ Len(L[p]) = Len(s) + 1 /\ L[p][1] = (IF Len(s) = 0 THEN f ELSE s[1])
       /\ L[p][Len(s) + 1] = f
  <2>1. Len(L[p]) = Len(s) + 1
    BY <1>5 DEF Longer
  <2>2. \A m \in 1 .. Len(s) + 1 : L[p][m] = IF m < n THEN s[m] ELSE IF m = n THEN f ELSE s[m - 1]
    BY <1>5 DEF Longer
  <2>3. 1 \in 1 .. Len(s) + 1 /\ Len(s) + 1 \in 1 .. Len(s) + 1 /\ n = Len(s) + 1
        /\ (Len(s) = 0 => 1 = n) /\ (Len(s) # 0 => 1 < n) /\ ~(n < n)
    BY <1>6
  <2> HIDE DEF n, s, p
  <2> QED
    BY <2>1, <2>2, <2>3
<1>16. FirstOf(L[p]) = (IF Len(s) = 0 THEN f ELSE s[1]) /\ LastOf(L[p]) = f
  <2>1. Len(L[p]) # 0
    BY <1>6, <1>15
  <2> QED
    BY <1>15, <2>1 DEF FirstOf, LastOf
<1>17. Framed(L, t, r)
  <2>1. r \in DOMAIN L
    BY <1>1, <1>5 DEF Framed
  <2>2. ASSUME NEW k \in 1 .. Len(t)
        PROVE  /\ t[k].item \in DOMAIN L
               /\ t[k].head = FirstOf(L[t[k].item]) /\ t[k].cur = LastOf(L[t[k].item])
               /\ t[k].item = IF k = 1 THEN r ELSE t[k - 1].cur
    <3>1. k \in 1 .. Len(st) /\ t[k].item = st[k].item /\ st[k].item \in DOMAIN K
      BY <1>1, <1>2, <1>13 DEF Framed
    <3>2. t[k].item = IF k = 1 THEN r ELSE t[k - 1].cur
      <4>1. st[k].item = IF k = 1 THEN r ELSE st[k - 1].cur
        BY <1>1, <3>1 DEF Framed
      <4>2. k # 1 => k - 1 \in 1 .. Len(st) /\ k - 1 < Len(st)
        BY <1>2, <3>1
      <4>3. k # 1 => t[k - 1] = st[k - 1]
        BY <1>12, <4>2
      <4> QED
        BY <3>1, <4>1, <4>3
    <3>3. CASE k = Len(st)
      BY <1>3, <1>5, <1>12, <1>16, <3>1, <3>2, <3>3
    <3>4. CASE k < Len(st)
      <4>1. t[k] = st[k] /\ st[k].item # p /\ k # Len(st)
        BY <1>2, <1>12, <1>14, <3>1, <3>4
      <4>2. L[st[k].item] = K[st[k].item]
        BY <1>5, <3>1, <4>1
      <4>3. st[k].head = FirstOf(K[st[k].item]) /\ st[k].cur = LastOf(K[st[k].item])
        BY <1>1, <3>1 DEF Framed
      <4> QED
        BY <1>5, <3>1, <3>2, <4>1, <4>2, <4>3
    <3> QED
      BY <1>12, <3>1, <3>3, <3>4
  <2> QED
    BY <1>12, <2>1, <2>2 DEF Framed
<1>18. Unclosed(e, x, t)
  <2>1. Alike(e, x) /\ SameNext(e, x, DOMAIN x)
    <3>1. \A j \in DOMAIN x : e[j].next = x[j].next
      BY <1>9, <1>10, <1>11
    <3> QED
      BY <1>9, <1>11, <3>1 DEF Alike, SameNext
  <2>2. ASSUME NEW j \in DOMAIN x
        PROVE  e[j].child = IF \E k \in 1 .. Len(t) : t[k].item = j THEN Nil ELSE x[j].child
    <3>1. (\E k \in 1 .. Len(t) : t[k].item = j) <=> \E k \in 1 .. Len(st) : st[k].item = j
      BY <1>2, <1>13
    <3>2. CASE j = f
      BY <1>9, <1>11, <3>2
    <3>3. CASE j = p
      <4>1. st[Len(st)].item = j
        BY <3>3
      <4>2. \E k \in 1 .. Len(st) : st[k].item = j
        BY <1>2, <4>1
      <4>3. e[j].child = h[j].child /\ h[j].child = Nil
        BY <1>3, <1>10, <1>11, <3>3, <4>2
      <4> QED
        BY <3>1, <4>2, <4>3
    <3>4. CASE j \in DOMAIN K \ {p}
      <4>1. e[j].child = h[j].child /\ x[j].child = g[j].child
        BY <1>9, <1>11, <3>4
      <4> QED
        BY <1>10, <3>1, <3>4, <4>1
    <3> QED
      BY <1>9, <3>2, <3>3, <3>4
  <2>3. ASSUME NEW j \in DOMAIN x
        PROVE  e[j].prev = IF \E k \in 1 .. Len(t) : t[k].head = j THEN Nil ELSE x[j].prev
    <3>1. \A k \in 1 .. Len(st) : k < Len(st) => t[k].head = st[k].head
      BY <1>2, <1>12
    <3>2. CASE j = f
      <4>1. \A k \in 1 .. Len(st) : k < Len(st) => t[k].head # f
        <5> SUFFICES ASSUME NEW k \in 1 .. Len(st), k < Len(st) PROVE t[k].head # f
          OBVIOUS
        <5>1. st[k].item \in DOMAIN K /\ st[k].head = FirstOf(K[st[k].item])
          BY <1>1 DEF Framed
        <5>2. st[k].head \in DOMAIN K \cup {Nil}
          BY <1>1, <5>1, Ends
        <5> QED
          BY <1>5, <1>6, <3>1, <5>2
      <4>2. Len(s) # 0 => s[1] # f
        BY <1>5, <1>6
      <4>3. (\E k \in 1 .. Len(t) : t[k].head = j) <=> Len(s) = 0
        BY <1>2, <1>12, <3>2, <4>1, <4>2
      <4> QED
        BY <1>9, <1>11, <3>2, <4>3
    <3>3. CASE j \in DOMAIN K
      <4>1. e[j].prev = h[j].prev
        BY <1>11, <3>3
      <4>2. CASE Len(s) # 0
        <5>1. t[Len(st)].head = top.head /\ top.head = s[1]
          BY <1>6, <1>12, <4>2
        <5>2. \A k \in 1 .. Len(st) : t[k].head = st[k].head
          BY <1>2, <1>12, <5>1
        <5>3. (\E k \in 1 .. Len(t) : t[k].head = j) <=> \E k \in 1 .. Len(st) : st[k].head = j
          BY <1>2, <5>2
        <5>4. j = s[1] => \E k \in 1 .. Len(st) : st[k].head = j
          BY <1>2, <5>1
        <5>5. j # s[1] => x[j].prev = g[j].prev
          BY <1>9, <3>3
        <5> QED
          BY <1>10, <3>3, <4>1, <5>3, <5>4, <5>5
      <4>3. CASE Len(s) = 0
        <5>1. j # f /\ j # Nil
          BY <1>5, <1>6, <3>3
        <5>2. t[Len(st)].head = f /\ st[Len(st)].head = Nil
          BY <1>6, <1>12, <4>3
        <5>3. (\E k \in 1 .. Len(t) : t[k].head = j) <=> \E k \in 1 .. Len(st) : st[k].head = j
          BY <1>2, <1>12, <3>1, <5>1, <5>2
        <5>4. x[j].prev = g[j].prev
          BY <1>9, <3>3, <4>3
        <5> QED
          BY <1>10, <3>3, <4>1, <5>3, <5>4
      <4> QED
        BY <4>2, <4>3
    <3> QED
      BY <1>9, <3>2, <3>3
  <2> QED
    BY <2>1, <2>2, <2>3 DEF Unclosed
<1>19. Roots(L) = {r}
  <2>1. Placed(L, f)
    <3>1. Len(s) + 1 \in 1 .. Len(L[p])
      BY <1>6, <1>15
    <3> QED
      BY <1>3, <1>5, <1>15, <3>1 DEF Placed
  <2>2. ASSUME NEW j \in DOMAIN K PROVE Placed(L, j) <=> Placed(K, j)
    <3>1. \A m \in 1 .. Len(s) : m \in 1 .. Len(L[p]) /\ L[p][m] = s[m]
      <4> SUFFICES ASSUME NEW m \in 1 .. Len(s) PROVE m \in 1 .. Len(L[p]) /\ L[p][m] = s[m]
        OBVIOUS
      <4>1. m \in 1 .. Len(s) + 1 /\ m < n /\ m \in 1 .. Len(L[p])
        BY <1>6, <1>15
      <4> QED
        BY <1>5, <4>1 DEF Longer
    <3>2. \A m \in 1 .. Len(L[p]) : m \in 1 .. Len(s) \/ m = Len(s) + 1
      BY <1>6, <1>15
    <3>3. ASSUME NEW q \in DOMAIN K, NEW m \in 1 .. Len(K[q]), K[q][m] = j PROVE Placed(L, j)
      <4>1. CASE q = p
        BY <1>3, <1>5, <3>1, <3>3, <4>1 DEF Placed
      <4>2. CASE q # p
        BY <1>5, <3>3, <4>2 DEF Placed
      <4> QED
        BY <4>1, <4>2
    <3>4. ASSUME NEW q \in DOMAIN L, NEW m \in 1 .. Len(L[q]), L[q][m] = j PROVE Placed(K, j)
      <4>1. CASE q = p
        <5>1. j # f
          BY <1>5
        <5>2. m \in 1 .. Len(s) /\ s[m] = j
          BY <1>15, <3>1, <3>2, <3>4, <4>1, <5>1
        <5> QED
          BY <1>3, <5>2 DEF Placed
      <4>2. CASE q = f
        <5>1. Len(L[q]) = 0
          BY <1>5, <4>2
        <5> QED
          BY <3>4, <5>1
      <4>3. CASE q \in DOMAIN K \ {p}
        BY <1>5, <3>4, <4>3 DEF Placed
      <4> QED
        BY <1>5, <4>1, <4>2, <4>3
    <3> QED
      BY <3>3, <3>4 DEF Placed
  <2> QED
    BY <1>1, <1>5, <2>1, <2>2 DEF Roots
<1> QED
  <2>1. Pending(e, x, L, t, r)
    BY <1>5, <1>17, <1>18, <1>19 DEF Pending
  <2>2. Grew(K, L, p, f)
    BY <1>5 DEF Grew
  <2> QED
    BY <2>1, <2>2 DEF AwaitsBare

(* A tree with no unfinished list is a tree.                               *)
LEMMA PendDone == ASSUME NEW h, NEW g, NEW K, NEW st, NEW r, Pending(h, g, K, st, r), Len(st) = 0
                  PROVE  Owns(h, {r}) /\ r \in DOMAIN h
<1>1. InOrder(g, K) /\ DOMAIN g = DOMAIN K /\ Roots(K) = {r} /\ Framed(K, st, r) /\ Unclosed(h, g, st)
  BY DEF Pending, InOrder, Rep
<1>2. ~\E k \in 1 .. Len(st) : TRUE
  OBVIOUS
<1>3. Alike(h, g) /\ SameNext(h, g, DOMAIN g) /\ SamePrev(h, g, DOMAIN g) /\ SameChild(h, g, DOMAIN g)
  BY <1>1, <1>2 DEF Unclosed, SamePrev, SameChild
<1>4. InOrder(h, K)
  BY <1>1, <1>3, SameLinks
<1> QED
  BY <1>1, <1>3, <1>4, Owner DEF Framed, Alike

LEMMA PendStart == ASSUME ~Full(<<>>), NEW type
                   PROVE  LET h == WithItem(<<>>, type) IN
                          \E g, K : /\ Pending(h, g, K, <<>>, Fresh(<<>>))
                                    /\ Fresh(<<>>) \in DOMAIN K /\ K[Fresh(<<>>)] = <<>>
<1> DEFINE h == WithItem(<<>>, type)
           r == Fresh(<<>>)
           e == <<>>
           K == KidsOf(h)
<1>1. Owns(h, {r}) /\ r \notin DOMAIN e /\ DOMAIN h = DOMAIN e \cup {r}
  <2>1. Owns(e, {}) /\ ~Full(e)
    BY NothingOwned
  <2> HIDE DEF e
  <2>2. /\ Owns(WithItem(e, type), {} \cup {Fresh(e)}) /\ Fresh(e) \notin DOMAIN e
        /\ DOMAIN WithItem(e, type) = DOMAIN e \cup {Fresh(e)}
    BY <2>1, OwnNew
  <2> QED
    BY <2>2 DEF e
<1>2. DOMAIN h = {r}
  <2>1. DOMAIN e = {}
    OBVIOUS
  <2> QED
    BY <1>1, <2>1
<1> HIDE DEF h, r
<1>3. InOrder(h, K) /\ {r} = Roots(K) /\ DOMAIN K = {r} /\ Heap(h)
  BY <1>1, <1>2, Owned
<1> HIDE DEF K
<1>4. K[r] = <<>>
  <2>1. K[r] \in Seq(DOMAIN K) /\ Len(K[r]) \in Nat /\ \A n \in 1 .. Len(K[r]) : K[r][n] \in DOMAIN K
    BY <1>3, RepPlace DEF InOrder
  <2>2. Len(K[r]) = 0
    <3> SUFFICES ASSUME Len(K[r]) # 0 PROVE FALSE
      OBVIOUS
    <3>1. 1 \in 1 .. Len(K[r]) /\ K[r][1] = r
      BY <1>3, <2>1
    <3>2. Placed(K, r)
      BY <1>3, <3>1 DEF Placed
    <3> QED
      BY <1>3, <3>2 DEF Roots
  <2> QED
    BY <2>1, <2>2, EmptySeq
<1>5. e \in Seq(Frame) /\ Len(e) = 0
  OBVIOUS
<1>6. ~\E k \in 1 .. Len(e) : TRUE
  BY <1>5
<1> HIDE DEF e
<1>7. Framed(K, e, r)
  BY <1>3, <1>5, <1>6 DEF Framed
<1>8. Unclosed(h, h, e)
  BY <1>3, <1>6 DEF Unclosed, Alike, SameNext
<1> QED
  BY <1>3, <1>4, <1>7, <1>8 DEF Pending, h, r, e

(* A list with nothing in it needs no deletion.                            *)
LEMMA PendSkip ==
    ASSUME NEW h, NEW g, NEW K, NEW st, NEW r, Pending(h, g, K, st, r), Len(st) # 0,
           st[Len(st)].head = Nil, NEW t, Popped(t, st)
    PROVE  Pending(h, g, K, t, r)
<1> DEFINE f == st[Len(st)]
<1>1. InOrder(g, K) /\ Framed(K, st, r) /\ Unclosed(h, g, st) /\ DOMAIN g = DOMAIN K
  BY DEF Pending, InOrder, Rep
<1>2. Len(st) \in Nat /\ Len(st) \in 1 .. Len(st)
  <2>1. Len(st) \in Nat
    BY <1>1, LenProperties DEF Framed
  <2> QED
    BY <2>1
<1>3. f.item \in DOMAIN K /\ FirstOf(K[f.item]) = Nil
  BY <1>1, <1>2 DEF Framed
<1>4. g[f.item].child = Nil
  BY <1>1, <1>3, Ends
<1>5. h[f.item].child = Nil
  BY <1>1, <1>2, <1>3 DEF Unclosed
<1>6. Alike(h, h) /\ SameNext(h, h, DOMAIN h) /\ SameChild(h, h, DOMAIN h \ {f.item})
      /\ SamePrev(h, h, DOMAIN h \ {f.head})
  BY <1>1 DEF Unclosed, Alike, SameNext, SameChild, SamePrev
<1> QED
  BY <1>5, <1>6, PendClose

(* What is parsed of the last list is deleted, with all that is below it.  *)
LEMMA PendDrop ==
    ASSUME NEW h, NEW g, NEW K, NEW st, NEW r, Pending(h, g, K, st, r), Len(st) # 0,
           st[Len(st)].head # Nil, NEW t, Popped(t, st)
    PROVE  \E x, L : Pending(Delete(h, st[Len(st)].head), x, L, t, r)
<1> DEFINE f == st[Len(st)]
           p == f.item
           D == Under(Kin(K), p) \ {p}
           E == DOMAIN K \ D
           cut == [g EXCEPT ![p].child = Nil]
           x == Restrict(cut, E)
           L == Restrict(WithList(K, p, <<>>), E)
           e == Delete(h, f.head)
<1>1. /\ InOrder(g, K) /\ Framed(K, st, r) /\ Unclosed(h, g, st) /\ DOMAIN g = DOMAIN K /\ Roots(K) = {r}
      /\ Heap(g) /\ Heap(h) /\ DOMAIN h = DOMAIN K
  BY DEF Pending, InOrder, Rep, Unclosed, Alike
<1>2. /\ Len(st) \in Nat /\ Len(st) \in 1 .. Len(st) /\ Len(t) = Len(st) - 1 /\ Len(t) \in Nat
      /\ \A k \in 1 .. Len(t) : k \in 1 .. Len(st) /\ k < Len(st) /\ t[k] = st[k]
      /\ \A k \in 1 .. Len(st) : k \in 1 .. Len(t) \/ k = Len(st)
  <2>1. Len(st) \in Nat
    BY <1>1, LenProperties DEF Framed
  <2>2. Len(t) = Len(st) - 1 /\ \A k \in 1 .. Len(st) - 1 : t[k] = st[k]
    BY DEF Popped
  <2>3. Len(t) \in Nat /\ Len(st) \in 1 .. Len(st)
    BY <2>1, <2>2
  <2>4. \A k \in 1 .. Len(t) : k \in 1 .. Len(st) /\ k < Len(st) /\ k \in 1 .. Len(st) - 1
    BY ONLY <2>1, <2>2, <2>3
  <2>5. \A k \in 1 .. Len(st) : k \in 1 .. Len(t) \/ k = Len(st)
    BY ONLY <2>1, <2>2, <2>3
  <2> QED
    BY <2>1, <2>2, <2>3, <2>4, <2>5
<1>3. p \in DOMAIN K /\ f.head = FirstOf(K[p]) /\ f.head # Nil
  BY <1>1, <1>2 DEF Framed
<1>4. Nil \notin DOMAIN K /\ Len(K[p]) # 0 /\ FirstOf(K[p]) = K[p][1]
  BY <1>1, <1>3, Ends
<1>5. D \in SUBSET DOMAIN K /\ Shut(Kin(K), D) /\ Kin(K)[p] \subseteq D /\ p \notin D
      /\ \A q \in DOMAIN K \ (D \cup {p}) : Kin(K)[q] \cap D = {}
  <2>1. InOrder(g, K) /\ p \in DOMAIN K
    BY <1>1, <1>3
  <2> HIDE DEF p
  <2> QED
    BY <2>1, BelowOnly
<1>6. \A k \in 1 .. Len(st) : st[k].item \in DOMAIN K /\ st[k].item \notin D
  <2> SUFFICES ASSUME NEW k \in 1 .. Len(st) PROVE st[k].item \in DOMAIN K /\ st[k].item \notin D
    OBVIOUS
  <2>1. st[k].item \in DOMAIN K
    BY <1>1 DEF Framed
  <2>2. CASE k = Len(st)
    BY <2>1, <2>2
  <2>3. CASE k # Len(st)
    <3>1. k < Len(st)
      BY <1>2, <2>3
    <3>2. st[k].item \notin Under(Kin(K), p)
      BY <1>1, <1>2, <3>1, FramesApart
    <3> QED
      BY <2>1, <3>2
  <2> QED
    BY <2>2, <2>3
<1>7. \A k \in 1 .. Len(t) : t[k].item # p /\ t[k].head # f.head
  <2> SUFFICES ASSUME NEW k \in 1 .. Len(t) PROVE t[k].item # p /\ t[k].head # f.head
    OBVIOUS
  <2>1. k \in 1 .. Len(st) /\ k < Len(st) /\ Len(st) \in 1 .. Len(st) /\ t[k] = st[k]
    BY <1>2
  <2>2. st[Len(st)].item # st[k].item /\ st[k].head # st[Len(st)].head
    BY <1>1, <2>1, FramesApart
  <2> QED
    BY <2>1, <2>2
<1>8. Freed(h, f.head) = D
  <2>1. \A j \in DOMAIN g : h[j].child \in {g[j].child, Nil}
    BY <1>1 DEF Unclosed
  <2>2. \A j \in Under(Kin(K), p) \ {p} : h[j].child = g[j].child
    BY <1>1, <1>5, <1>6 DEF Unclosed
  <2>3. Alike(h, g) /\ SameNext(h, g, DOMAIN g)
    BY <1>1 DEF Unclosed
  <2> QED
    BY <1>1, <1>3, <1>4, <2>1, <2>2, <2>3, FreedList
<1>9. InOrder(x, L)
  BY <1>1, <1>3, CutList
<1> HIDE DEF D
<1>10. DOMAIN e = E /\ \A j \in E : e[j] = h[j]
  BY <1>1, <1>8 DEF Delete, Restrict
<1>11. /\ Heap(cut) /\ DOMAIN cut = DOMAIN K /\ cut[p].child = Nil
       /\ \A j \in DOMAIN K : /\ j # p => cut[j].child = g[j].child
                              /\ cut[j].next = g[j].next /\ cut[j].prev = g[j].prev
  <2>1. ChildSet(cut, g, p, Nil)
    BY <1>1, <1>3, SetChild
  <2> HIDE DEF cut
  <2> QED
    BY <1>1, <2>1 DEF ChildSet, Alike, SameNext, SamePrev, SameChild
<1> HIDE DEF cut
<1>12. DOMAIN x = E /\ \A j \in E : x[j] = cut[j]
  BY DEF Restrict
<1>13. DOMAIN L = E /\ p \in E /\ L[p] = <<>> /\ \A q \in E \ {p} : L[q] = K[q]
  BY <1>3, <1>5 DEF Restrict, WithList
<1>e. e = [j \in E |-> h[j]]
  BY <1>1, <1>8 DEF Delete, Restrict
<1> HIDE DEF x, L, e, E
<1>14. E \subseteq DOMAIN K
  BY DEF E
<1>15. Framed(L, t, r)
  <2>1. Framed(K, t, r)
    BY <1>1, FramedFront
  <2>2. \A k \in 1 .. Len(t) : t[k].item \in E \ {p} /\ L[t[k].item] = K[t[k].item]
    BY <1>2, <1>6, <1>7, <1>13 DEF E
  <2>3. r \in E
    <3>1. 1 \in 1 .. Len(st)
      BY <1>2
    <3>2. st[1].item = r
      BY <1>1, <3>1 DEF Framed
    <3> QED
      BY <1>6, <3>1, <3>2 DEF E
  <2> QED
    BY <1>13, <2>1, <2>2, <2>3 DEF Framed
<1>16. \A j \in E : /\ h[j].next = g[j].next
                    /\ h[j].child = IF \E k \in 1 .. Len(st) : st[k].item = j THEN Nil ELSE g[j].child
                    /\ h[j].prev = IF \E k \in 1 .. Len(st) : st[k].head = j THEN Nil ELSE g[j].prev
  BY <1>1, <1>14 DEF Unclosed, SameNext
<1>17. \A j \in E : /\ e[j].next = x[j].next
                    /\ e[j].child = IF \E k \in 1 .. Len(t) : t[k].item = j THEN Nil ELSE x[j].child
                    /\ e[j].prev = IF \E k \in 1 .. Len(t) : t[k].head = j THEN Nil ELSE x[j].prev
  <2> SUFFICES ASSUME NEW j \in E
               PROVE  /\ e[j].next = x[j].next
                      /\ e[j].child = IF \E k \in 1 .. Len(t) : t[k].item = j THEN Nil ELSE x[j].child
                      /\ e[j].prev = IF \E k \in 1 .. Len(t) : t[k].head = j THEN Nil ELSE x[j].prev
    OBVIOUS
  <2>1. j \in DOMAIN K /\ e[j] = h[j] /\ x[j] = cut[j]
    BY <1>10, <1>12, <1>14
  <2>2. f.head \notin E
    <3>1. f.head \in Kin(K)[p]
      BY <1>1, <1>3, <1>4, Ends, KinGraph DEF InOrder
    <3> QED
      BY <1>5, <3>1 DEF E
  <2>3. (\E k \in 1 .. Len(st) : st[k].head = j) <=> \E k \in 1 .. Len(t) : t[k].head = j
    BY <1>2, <2>2
  <2>4. e[j].child = IF \E k \in 1 .. Len(t) : t[k].item = j THEN Nil ELSE x[j].child
    <3>1. CASE j = p
      <4>1. \E k \in 1 .. Len(st) : st[k].item = j
        BY <1>2, <3>1
      <4>2. h[j].child = Nil /\ cut[j].child = Nil
        BY <1>11, <1>16, <3>1, <4>1
      <4> QED
        BY <2>1, <4>2
    <3>2. CASE j # p
      <4>1. (\E k \in 1 .. Len(st) : st[k].item = j) <=> \E k \in 1 .. Len(t) : t[k].item = j
        BY <1>2, <3>2
      <4>2. cut[j].child = g[j].child
        BY <1>11, <2>1, <3>2
      <4> QED
        BY <1>16, <2>1, <4>1, <4>2
    <3> QED
      BY <3>1, <3>2
  <2>5. e[j].next = x[j].next
    BY <1>11, <1>16, <2>1
  <2>6. e[j].prev = IF \E k \in 1 .. Len(t) : t[k].head = j THEN Nil ELSE x[j].prev
    BY <1>11, <1>16, <2>1, <2>3
  <2> QED
    BY <2>4, <2>5, <2>6
<1>18. Heap(e)
  <2>1. Heap(x)
    BY <1>9 DEF InOrder, Rep
  <2>2. \A j \in E : {x[j].next, x[j].prev, x[j].child} \subseteq E \cup {Nil}
    BY <1>12, <2>1 DEF Heap
  <2>3. \A j \in E : {e[j].next, e[j].prev, e[j].child} \subseteq E \cup {Nil}
    BY <1>17, <2>2
  <2>4. e = [j \in E |-> [type |-> e[j].type, name |-> e[j].name, str |-> e[j].str,
                          next |-> e[j].next, prev |-> e[j].prev, child |-> e[j].child]]
    BY <1>1, <1>10, <1>14, <1>e DEF Heap
  <2> QED
    BY <1>1, <1>10, <1>14, <2>3, <2>4 DEF Heap
<1>19. Unclosed(e, x, t)
  BY <1>10, <1>12, <1>17, <1>18 DEF Unclosed, Alike, SameNext
<1>20. Roots(L) = {r}
  <2>1. /\ \A j : Placed(K, j) <=> \E q \in DOMAIN K : j \in Kin(K)[q]
        /\ \A q \in DOMAIN K : Kin(K)[q] = {K[q][n] : n \in 1 .. Len(K[q])}
    BY <1>1, KinGraph DEF InOrder
  <2>2. ASSUME NEW j \in E, Placed(K, j) PROVE Placed(L, j)
    <3>1. PICK q \in DOMAIN K : j \in Kin(K)[q]
      BY <2>1, <2>2
    <3>2. q \notin D /\ q # p
      BY <1>5, <3>1 DEF Shut, E
    <3>3. q \in E \ {p}
      BY <3>2 DEF E
    <3>4. PICK n \in 1 .. Len(K[q]) : j = K[q][n]
      BY <2>1, <3>1
    <3> QED
      BY <1>13, <3>3, <3>4 DEF Placed
  <2>3. ASSUME NEW j \in E, Placed(L, j) PROVE Placed(K, j)
    <3>1. PICK q \in E : \E n \in 1 .. Len(L[q]) : L[q][n] = j
      BY <1>13, <2>3 DEF Placed
    <3>2. q # p
      <4>1. Len(L[p]) = 0
        BY <1>13
      <4> QED
        BY <3>1, <4>1
    <3> QED
      BY <1>13, <1>14, <3>1, <3>2 DEF Placed
  <2>4. r \in E
    BY <1>13, <1>15 DEF Framed
  <2> QED
    BY <1>1, <1>13, <1>14, <2>2, <2>3, <2>4 DEF Roots
<1> QED
  BY <1>9, <1>15, <1>19, <1>20 DEF Pending, e

-----------------------------------------------------------------------------
(* Parts of sequences.                                                     *)
LEMMA FunctionOfSeq == ASSUME NEW S, NEW s \in Seq(S)
                       PROVE  s = [m \in 1 .. Len(s) |-> s[m]]
BY SeqDef, LenProperties, Zenon

LEMMA PrefixOf == ASSUME NEW S, NEW t \in Seq(S), NEW u \in Nat, u <= Len(t)
                  PROVE  /\ SubSeq(t, 1, u) \in Seq(S) /\ Len(SubSeq(t, 1, u)) = u
                         /\ \A i \in 1 .. u : SubSeq(t, 1, u)[i] = t[i]
<1>1. \A i \in 1 .. u : i \in 1 .. Len(t) /\ 1 + i - 1 = i
  OBVIOUS
<1>2. \A i \in 1 .. u : t[i] \in S
  BY <1>1, ElementOfSeq
<1>3. /\ SubSeq(t, 1, u) \in Seq(S)
      /\ Len(SubSeq(t, 1, u)) = IF 1 <= u THEN u - 1 + 1 ELSE 0
      /\ \A i \in 1 .. u - 1 + 1 : SubSeq(t, 1, u)[i] = t[1 + i - 1]
  <2>1. 1 \in Int /\ u \in Int
    OBVIOUS
  <2> QED
    BY <1>2, <2>1, SubSeqProperties
<1>4. u - 1 + 1 = u
  OBVIOUS
<1> QED
  BY <1>1, <1>3, <1>4

LEMMA ConcatAt ==
    ASSUME NEW S, NEW s \in Seq(S), NEW t \in Seq(S)
    PROVE  /\ s \o t \in Seq(S) /\ Len(s \o t) = Len(s) + Len(t)
           /\ \A i \in 1 .. Len(s) : (s \o t)[i] = s[i]
           /\ \A i \in 1 .. Len(t) : (s \o t)[Len(s) + i] = t[i]
<1>1. Len(s) \in Nat /\ Len(t) \in Nat
  OBVIOUS
<1>2. /\ s \o t \in Seq(S) /\ Len(s \o t) = Len(s) + Len(t)
      /\ \A i \in 1 .. Len(s) + Len(t) : (s \o t)[i] = IF i <= Len(s) THEN s[i] ELSE t[i - Len(s)]
  BY ConcatProperties
<1>3. \A i \in 1 .. Len(s) : i \in 1 .. Len(s) + Len(t) /\ i <= Len(s)
  BY <1>1
<1>4. \A i \in 1 .. Len(t) : /\ Len(s) + i \in 1 .. Len(s) + Len(t)
                             /\ ~(Len(s) + i <= Len(s)) /\ (Len(s) + i) - Len(s) = i
  BY <1>1
<1> QED
  BY <1>2, <1>3, <1>4, Zenon

LEMMA Segment ==
    ASSUME NEW S, NEW s \in Seq(S), NEW p \in Seq(S), NEW a \in Nat, NEW b \in Int,
           b = a + Len(p), b <= Len(s), \A i \in 1 .. Len(p) : s[a + i] = p[i]
    PROVE  SubSeq(s, a + 1, b) = p
<1> DEFINE n == Len(p)
           x == SubSeq(s, a + 1, b)
<1>1. n \in Nat /\ b = a + n /\ a + 1 \in Int
  OBVIOUS
<1>2. \A i \in a + 1 .. b : s[i] \in S
  <2>1. \A i \in a + 1 .. b : i \in 1 .. Len(s)
    BY <1>1
  <2> QED
    BY <2>1, ElementOfSeq
<1>3. /\ x \in Seq(S) /\ Len(x) = IF a + 1 <= b THEN b - (a + 1) + 1 ELSE 0
      /\ \A i \in 1 .. b - (a + 1) + 1 : x[i] = s[(a + 1) + i - 1]
  BY <1>1, <1>2, SubSeqProperties
<1>a. \A i \in 1 .. n : s[a + i] = p[i]
  OBVIOUS
<1> HIDE DEF x, n
<1>4. Len(x) = n /\ b - (a + 1) + 1 = n
  BY <1>1, <1>3
<1>5. \A i \in 1 .. n : (a + 1) + i - 1 = a + i
  BY <1>1
<1>6. \A i \in 1 .. n : x[i] = p[i]
  BY <1>3, <1>4, <1>5, <1>a
<1> QED
  <2>1. Len(x) = Len(p)
    BY <1>4 DEF n
  <2>2. \A i \in 1 .. Len(x) : x[i] = p[i]
    BY <1>4, <1>6
  <2>3. x = p
    BY <1>3, <2>1, <2>2, SeqEqual
  <2> QED
    BY <2>3 DEF x

-----------------------------------------------------------------------------
(* A function on D that is defined by recursion exists when the value at   *)
(* each point depends only on the points that rank below it.               *)
Recursive(D, X, H, g) == g \in [D -> X] /\ \A p \in D : g[p] = H[<<p, g>>]

LEMMA Recursion ==
    ASSUME NEW D, NEW X, X # {}, NEW N \in Nat, NEW rank \in [D -> 0 .. N], NEW H \in [D \X [D -> X] -> X],
           \A p \in D : \A g1, g2 \in [D -> X] :
              (\A q \in D : rank[q] < rank[p] => g1[q] = g2[q]) => H[<<p, g1>>] = H[<<p, g2>>]
    PROVE  \E g : Recursive(D, X, H, g)
<1> DEFINE Good(k) == \E g \in [D -> X] : \A p \in D : rank[p] < k => g[p] = H[<<p, g>>]
           T == {k \in 0 .. N + 1 : ~Good(k)}
<1>1. Good(0)
  <2>1. PICK x \in X : TRUE
    OBVIOUS
  <2>2. [p \in D |-> x] \in [D -> X]
    OBVIOUS
  <2>3. \A p \in D : ~(rank[p] < 0)
    OBVIOUS
  <2> QED
    BY <2>2, <2>3
<1>2. ASSUME NEW k \in 0 .. N, Good(k) PROVE Good(k + 1)
  <2>1. PICK g \in [D -> X] : \A p \in D : rank[p] < k => g[p] = H[<<p, g>>]
    BY <1>2
  <2> DEFINE h == [p \in D |-> IF rank[p] < k THEN g[p] ELSE H[<<p, g>>]]
  <2>2. h \in [D -> X]
    <3>1. \A p \in D : <<p, g>> \in D \X [D -> X]
      BY <2>1
    <3>2. \A p \in D : H[<<p, g>>] \in X /\ g[p] \in X
      BY <2>1, <3>1
    <3> QED
      BY <3>2
  <2>3. ASSUME NEW p \in D, rank[p] < k + 1 PROVE h[p] = H[<<p, h>>]
    <3>1. \A q \in D : rank[q] < rank[p] => g[q] = h[q]
      <4>1. \A q \in D : rank[q] < rank[p] => rank[q] < k
        <5>1. \A q \in D : rank[q] \in 0 .. N
          OBVIOUS
        <5> QED
          BY <2>3, <5>1
      <4> QED
        BY <4>1
    <3> HIDE DEF h
    <3>2. H[<<p, g>>] = H[<<p, h>>]
      BY <2>1, <2>2, <3>1
    <3>3. h[p] = H[<<p, g>>]
      BY <2>1 DEF h
    <3> QED
      BY <3>2, <3>3
  <2> HIDE DEF h
  <2> QED
    BY <2>2, <2>3
<1> HIDE DEF Good
<1>3. T = {}
  <2> SUFFICES ASSUME T # {} PROVE FALSE
    OBVIOUS
  <2>1. PICK k \in T : \A j \in T : k <= j
    <3>1. T \subseteq Nat
      OBVIOUS
    <3> HIDE DEF T
    <3> QED
      BY <3>1, LeastNat
  <2>2. k \in 0 .. N + 1 /\ ~Good(k)
    BY <2>1
  <2>3. k # 0
    BY <1>1, <2>2
  <2>4. k - 1 \in 0 .. N /\ k - 1 \in 0 .. N + 1 /\ ~(k <= k - 1) /\ (k - 1) + 1 = k
    BY <2>2, <2>3
  <2>5. k - 1 \notin T
    <3> HIDE DEF T
    <3> QED
      BY <2>1, <2>4
  <2>6. Good(k - 1)
    BY <2>4, <2>5
  <2>7. Good((k - 1) + 1)
    BY <1>2, <2>4, <2>6
  <2> QED
    BY <2>2, <2>4, <2>7
<1>4. Good(N + 1)
  <2>1. N + 1 \in 0 .. N + 1
    OBVIOUS
  <2> QED
    BY <1>3, <2>1
<1>5. PICK g \in [D -> X] : \A p \in D : rank[p] < N + 1 => g[p] = H[<<p, g>>]
  BY <1>4 DEF Good
<1>6. \A p \in D : rank[p] < N + 1
  <2>1. \A p \in D : rank[p] \in 0 .. N
    OBVIOUS
  <2> QED
    BY <2>1
<1> QED
  BY <1>5, <1>6 DEF Recursive

(* Induction on the rank.                                                  *)
LEMMA RankInduction ==
    ASSUME NEW D, NEW N \in Nat, NEW rank \in [D -> 0 .. N], NEW S,
           \A p \in D : (\A q \in D : rank[q] < rank[p] => q \in S) => p \in S
    PROVE  \A p \in D : p \in S
<1> DEFINE T == {rank[p] : p \in D \ S}
<1> SUFFICES ASSUME NEW p \in D, p \notin S PROVE FALSE
  OBVIOUS
<1>1. T \subseteq Nat /\ T # {}
  OBVIOUS
<1>2. PICK n \in T : \A m \in T : n <= m
  <2> HIDE DEF T
  <2> QED
    BY <1>1, LeastNat
<1>3. PICK q \in D : q \notin S /\ rank[q] = n
  OBVIOUS
<1>4. ASSUME NEW x \in D, rank[x] < rank[q] PROVE x \in S
  <2> SUFFICES ASSUME x \notin S PROVE FALSE
    OBVIOUS
  <2>1. rank[x] \in T
    OBVIOUS
  <2>2. n <= rank[x] /\ rank[x] \in Nat /\ n \in Nat
    <3> HIDE DEF T
    <3> QED
      BY <1>1, <1>2, <2>1
  <2> QED
    BY <1>3, <1>4, <2>2
<1> QED
  BY <1>3, <1>4

-----------------------------------------------------------------------------
(* Concatenations: piece k is put after the offset of those before it.     *)
Offsets(ss, u) == /\ u \in [0 .. Len(ss) -> Nat] /\ u[0] = 0
                  /\ \A k \in 1 .. Len(ss) : u[k] = u[k - 1] + Len(ss[k])

Pieced(ss, u, t, k) == /\ Len(t) = u[k]
                       /\ \A j \in 1 .. k : /\ u[j] <= u[k]
                                            /\ \A i \in 1 .. Len(ss[j]) : t[u[j - 1] + i] = ss[j][i]

FlatStep(ss, f, i) == IF i = 1 THEN ss[i] ELSE f[i - 1] \o ss[i]

LEMMA FlattenIs ==
    ASSUME NEW S, NEW ss \in Seq(Seq(S)), Len(ss) # 0
    PROVE  \E f \in [1 .. Len(ss) -> Seq(S)] :
              /\ \A i \in 1 .. Len(ss) : f[i] = FlatStep(ss, f, i)
              /\ FlattenSeq(ss) = f[Len(ss)]
<1> DEFINE n == Len(ss)
           D == 1 .. n
           H == [x \in D \X [D -> Seq(S)] |-> FlatStep(ss, x[2], x[1])]
           rank == [i \in D |-> i]
           f == CHOOSE f : f = [i \in D |-> FlatStep(ss, f, i)]
<1>1. n \in Nat /\ n >= 1
  OBVIOUS
<1>e. \A i \in D : ss[i] \in Seq(S)
  BY ElementOfSeq
<1>b. ASSUME NEW i \in D, i # 1 PROVE i - 1 \in D /\ rank[i - 1] < rank[i]
  BY <1>1, <1>b
<1>2. ASSUME NEW i \in D, NEW g \in [D -> Seq(S)] PROVE FlatStep(ss, g, i) \in Seq(S)
  <2>1. CASE i = 1
    <3>1. FlatStep(ss, g, i) = ss[i]
      BY <2>1 DEF FlatStep
    <3> QED
      BY <1>e, <3>1
  <2>2. CASE i # 1
    <3>1. FlatStep(ss, g, i) = g[i - 1] \o ss[i]
      BY <2>2 DEF FlatStep
    <3>2. g[i - 1] \in Seq(S) /\ ss[i] \in Seq(S)
      <4>1. i - 1 \in D
        BY <1>b, <2>2
      <4> HIDE DEF D
      <4> QED
        BY <1>e, <4>1
    <3>3. g[i - 1] \o ss[i] \in Seq(S)
      BY <3>2
    <3> QED
      BY <3>1, <3>3
  <2> QED
    BY <2>1, <2>2
<1>3. H \in [D \X [D -> Seq(S)] -> Seq(S)]
  <2> HIDE DEF D
  <2>1. \A x \in D \X [D -> Seq(S)] : FlatStep(ss, x[2], x[1]) \in Seq(S)
    BY <1>2
  <2> QED
    BY <2>1
<1>s. ASSUME NEW i \in D, NEW g1, NEW g2, \A q \in D : rank[q] < rank[i] => g1[q] = g2[q]
      PROVE  FlatStep(ss, g1, i) = FlatStep(ss, g2, i)
  <2>1. i # 1 => g1[i - 1] = g2[i - 1]
    <3> HIDE DEF D, rank
    <3> QED
      BY <1>s, <1>b
  <2> QED
    BY <2>1, Zenon DEF FlatStep
<1>4. \A p \in D : \A g1, g2 \in [D -> Seq(S)] :
         (\A q \in D : rank[q] < rank[p] => g1[q] = g2[q]) => H[<<p, g1>>] = H[<<p, g2>>]
  <2> SUFFICES ASSUME NEW p \in D, NEW g1 \in [D -> Seq(S)], NEW g2 \in [D -> Seq(S)],
                      \A q \in D : rank[q] < rank[p] => g1[q] = g2[q]
               PROVE  H[<<p, g1>>] = H[<<p, g2>>]
    OBVIOUS
  <2>1. H[<<p, g1>>] = FlatStep(ss, g1, p) /\ H[<<p, g2>>] = FlatStep(ss, g2, p)
    <3> HIDE DEF D
    <3> QED
      OBVIOUS
  <2>2. FlatStep(ss, g1, p) = FlatStep(ss, g2, p)
    <3> HIDE DEF D, rank
    <3> QED
      BY <1>s, Zenon
  <2> QED
    BY <2>1, <2>2
<1>5. rank \in [D -> 0 .. n]
  BY <1>1
<1>6. Seq(S) # {}
  <2>1. <<>> \in Seq(S)
    OBVIOUS
  <2> QED
    BY <2>1
<1>7. PICK g : Recursive(D, Seq(S), H, g)
  <2> HIDE DEF D, H, rank, n
  <2> QED
    BY <1>1, <1>3, <1>4, <1>5, <1>6, Recursion
<1>8. g \in [D -> Seq(S)] /\ \A p \in D : g[p] = FlatStep(ss, g, p)
  <2> HIDE DEF D
  <2> QED
    BY <1>7 DEF Recursive
<1>9. f = [p \in D |-> FlatStep(ss, f, p)]
  <2>1. g = [p \in D |-> FlatStep(ss, g, p)]
    <3> HIDE DEF D
    <3> QED
      BY <1>8
  <2>2. \E x : x = [p \in D |-> FlatStep(ss, x, p)]
    BY <2>1
  <2> QED
    BY <2>2
<1>10. FlattenSeq(ss) = f[n]
  BY Zenon DEF FlattenSeq, FlatStep
<1>11. \A p \in D : f[p] = g[p]
  <2> DEFINE S2 == {p \in D : f[p] = g[p]}
  <2>1. ASSUME NEW p \in D, \A q \in D : rank[q] < rank[p] => q \in S2 PROVE p \in S2
    <3> HIDE DEF D, rank, f
    <3>1. f[p] = FlatStep(ss, f, p) /\ g[p] = FlatStep(ss, g, p)
      BY <1>8, <1>9
    <3>2. \A q \in D : rank[q] < rank[p] => f[q] = g[q]
      BY <2>1
    <3>3. FlatStep(ss, f, p) = FlatStep(ss, g, p)
      BY <1>s, <3>2, Zenon
    <3> QED
      BY <3>1, <3>3
  <2>2. \A p \in D : p \in S2
    <3> HIDE DEF D, rank, S2, n
    <3> QED
      BY <1>1, <1>5, <2>1, RankInduction, SMTT(30)
  <2> QED
    BY <2>2
<1>12. n \in D /\ f[n] = g[n]
  <2>1. n \in D
    BY <1>1
  <2> HIDE DEF D, f
  <2> QED
    BY <1>11, <2>1
<1> QED
  <2> HIDE DEF D, f
  <2>1. g \in [D -> Seq(S)] /\ (\A p \in D : g[p] = FlatStep(ss, g, p)) /\ FlattenSeq(ss) = g[n]
    BY <1>8, <1>10, <1>12
  <2> QED
    BY <2>1 DEF D

LEMMA FlattenPieced ==
    ASSUME NEW S, NEW ss \in Seq(Seq(S)), NEW u, Offsets(ss, u)
    PROVE  FlattenSeq(ss) \in Seq(S) /\ Pieced(ss, u, FlattenSeq(ss), Len(ss))
<1>0. CASE Len(ss) = 0
  <2>1. ss = <<>> /\ FlattenSeq(ss) = <<>>
    <3>1. ss = <<>>
      BY <1>0, EmptySeq
    <3> QED
      BY <1>0, <3>1, Zenon DEF FlattenSeq
  <2>2. <<>> \in Seq(S) /\ Len(<<>>) = 0 /\ \A j \in 1 .. 0 : FALSE
    OBVIOUS
  <2>3. u[0] = 0
    BY DEF Offsets
  <2> QED
    BY <1>0, <2>1, <2>2, <2>3, Zenon DEF Pieced
<1>1. CASE Len(ss) # 0
  <2> DEFINE n == Len(ss)
             D == 1 .. n
             rank == [i \in D |-> i]
  <2>1. PICK f \in [D -> Seq(S)] : (\A i \in D : f[i] = FlatStep(ss, f, i)) /\ FlattenSeq(ss) = f[n]
    BY <1>1, FlattenIs
  <2>2. n \in Nat /\ n >= 1
    BY <1>1
  <2>e. \A i \in D : ss[i] \in Seq(S)
    BY ElementOfSeq
  <2>u. /\ \A i \in 0 .. n : u[i] \in Nat
        /\ u[0] = 0 /\ \A k \in D : u[k] = u[k - 1] + Len(ss[k])
    BY DEF Offsets
  <2> DEFINE T == {i \in D : Pieced(ss, u, f[i], i)}
  <2>3. rank \in [D -> 0 .. n]
    BY <2>2
  <2>4. ASSUME NEW k \in D, \A q \in D : rank[q] < rank[k] => q \in T PROVE k \in T
    <3>0. k \in Nat /\ k >= 1 /\ k <= n /\ k \in 0 .. n /\ k - 1 \in 0 .. n /\ k - 1 \in Nat
      BY <2>2
    <3>u. u[k] \in Nat /\ u[k - 1] \in Nat /\ u[k] = u[k - 1] + Len(ss[k]) /\ Len(ss[k]) \in Nat
      BY <2>u, <2>e, <3>0
    <3>1. CASE k = 1
      <4>1. f[k] = ss[1]
        BY <2>1, <3>1 DEF FlatStep
      <4>2. u[1] = Len(ss[1]) /\ u[1 - 1] = 0
        BY <2>u, <3>u, <3>1
      <4>3. \A j \in 1 .. 1 : j = 1
        OBVIOUS
      <4>4. \A i \in 1 .. Len(ss[1]) : u[1 - 1] + i = i
        BY <4>2
      <4>5. Pieced(ss, u, ss[1], 1)
        <5>1. u[1] <= u[1]
          BY <3>u, <3>1
        <5> QED
          BY <4>2, <4>3, <4>4, <5>1, Zenon DEF Pieced
      <4> QED
        BY <3>1, <4>1, <4>5
    <3>2. CASE k # 1
      <4>1. k - 1 \in D /\ rank[k - 1] < rank[k]
        BY <3>0, <3>2
      <4>2. Pieced(ss, u, f[k - 1], k - 1)
        <5>1. k - 1 \in T
          <6> HIDE DEF D, rank, T
          <6> QED
            BY <2>4, <4>1
        <5> QED
          BY <5>1
      <4> HIDE DEF D, rank, T, n
      <4> DEFINE x == f[k - 1]
                 y == ss[k]
      <4>3. x \in Seq(S) /\ y \in Seq(S)
        BY <2>1, <2>e, <4>1
      <4>4. f[k] = x \o y
        BY <2>1, <3>2 DEF FlatStep
      <4> HIDE DEF x, y
      <4>5. /\ x \o y \in Seq(S) /\ Len(x \o y) = Len(x) + Len(y)
            /\ \A i \in 1 .. Len(x) : (x \o y)[i] = x[i]
            /\ \A i \in 1 .. Len(y) : (x \o y)[Len(x) + i] = y[i]
        BY <4>3, ConcatAt
      <4>6. Len(x) = u[k - 1]
        BY <4>2 DEF Pieced, x
      <4>7. Len(x \o y) = u[k] /\ u[k - 1] <= u[k]
        BY <3>u, <4>5, <4>6 DEF y
      <4>8. ASSUME NEW j \in 1 .. k
            PROVE  u[j] <= u[k] /\ \A i \in 1 .. Len(ss[j]) : (x \o y)[u[j - 1] + i] = ss[j][i]
        <5>1. CASE j = k
          <6>1. \A i \in 1 .. Len(y) : (x \o y)[u[k - 1] + i] = y[i]
            BY <4>5, <4>6, Zenon
          <6>2. u[k] <= u[k]
            BY <3>u
          <6> QED
            BY <5>1, <6>1, <6>2 DEF y
        <5>2. CASE j # k
          <6>1. j \in 1 .. k - 1 /\ j \in 0 .. n /\ j - 1 \in 0 .. n /\ j \in D
            BY <2>2, <3>0, <5>2 DEF n, D
          <6>2. u[j] \in Nat /\ u[j - 1] \in Nat /\ u[j] = u[j - 1] + Len(ss[j]) /\ Len(ss[j]) \in Nat
            BY <2>u, <2>e, <6>1
          <6>3. u[j] <= u[k - 1] /\ \A i \in 1 .. Len(ss[j]) : x[u[j - 1] + i] = ss[j][i]
            BY <4>2, <6>1 DEF Pieced, x
          <6>4. \A i \in 1 .. Len(ss[j]) : u[j - 1] + i \in 1 .. Len(x)
            <7> SUFFICES ASSUME NEW i \in 1 .. Len(ss[j]) PROVE u[j - 1] + i \in 1 .. u[k - 1]
              BY <4>6
            <7>1. i \in Nat /\ 1 <= i /\ i <= Len(ss[j])
              BY <6>2
            <7>2. u[j - 1] + i <= u[k - 1]
              BY <3>u, <6>2, <6>3, <7>1, SMTT(30)
            <7> QED
              BY <3>u, <6>2, <7>1, <7>2, SMTT(30)
          <6>5. u[j] <= u[k]
            BY <3>u, <4>7, <6>2, <6>3, SMTT(30)
          <6> QED
            BY <4>5, <6>3, <6>4, <6>5, Zenon
        <5> QED
          BY <5>1, <5>2
      <4>9. Pieced(ss, u, x \o y, k)
        BY <4>7, <4>8, Zenon DEF Pieced
      <4> QED
        BY <4>4, <4>9 DEF T
    <3> QED
      BY <3>1, <3>2
  <2>5. \A k \in D : k \in T
    <3> HIDE DEF D, rank, T
    <3>1. n \in Nat
      BY <2>2
    <3> HIDE DEF n
    <3>2. \A k \in D : (\A q \in D : rank[q] < rank[k] => q \in T) => k \in T
      BY <2>4
    <3> QED
      BY ONLY <2>3, <3>1, <3>2, RankInduction, SMTT(30)
  <2>6. n \in D
    BY <2>2
  <2>7. f[n] \in Seq(S) /\ Pieced(ss, u, f[n], n)
    <3>1. n \in T
      BY <2>5, <2>6
    <3> HIDE DEF D, n
    <3> QED
      BY <2>1, <2>6, <3>1
  <2> QED
    BY <2>1, <2>7
<1> QED
  BY <1>0, <1>1
=============================================================================
