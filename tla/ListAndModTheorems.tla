------------------------- MODULE ListAndModTheorems -------------------------
(***************************************************************************)
(* The lemmas that several proofs need: what the list operations of util.c *)
(* do to the nodes of a list of any length, and when indices and counters  *)
(* that wrap are equal, for any modulus.                                   *)
(***************************************************************************)
EXTENDS LinkedList, Integers, FiniteSetTheorems, TLAPS

NodesOf(list) == {list[k] : k \in DOMAIN list}

(* No two nodes have the same index.                                       *)
IndexedOnce(list) ==
    \A j, k \in DOMAIN list : list[j].index = list[k].index => j = k

(* A set of natural numbers that is not empty has a smallest element.      *)
LEMMA SmallestOf ==
    ASSUME NEW S, S \subseteq Nat, S # {}
    PROVE  \E n \in S : \A m \in S : n <= m
<1> DEFINE O == StrictSubsetOrdering(Nat)
           F == FiniteSubsetsOf(Nat)
           T == {0 .. n : n \in S}
<1>1. IsWellFoundedOn(O, F)
  BY FS_StrictSubsetOrderingWellFounded, Zenon
<1>2. \A n \in Nat : 0 .. n \in F
  <2> TAKE n \in Nat
  <2>1. IsFiniteSet(0 .. n)
    BY FS_Interval, 0 \in Int, n \in Int, Zenon
  <2>2. 0 .. n \in SUBSET Nat
    OBVIOUS
  <2> QED
    BY <2>1, <2>2 DEF FiniteSubsetsOf
<1>3. T \subseteq F /\ T # {}
  BY <1>2
<1> HIDE DEF O, F
<1>4. PICK x \in T : \A y \in T : ~(<<y, x>> \in O)
  <2> HIDE DEF T
  <2> QED
    BY <1>1, <1>3, WFMin, Zenon
<1>5. PICK n \in S : x = 0 .. n
  BY <1>4
<1>6. ASSUME NEW m \in S PROVE n <= m
  <2>1. ~(<<0 .. m, 0 .. n>> \in O)
    BY <1>4, <1>5
  <2>2. SUFFICES ASSUME m < n PROVE FALSE
    BY m \in Nat, n \in Nat
  <2>3. 0 .. m \subseteq 0 .. n /\ n \in 0 .. n /\ n \notin 0 .. m
    BY <2>2
  <2>4. 0 .. m \in SUBSET Nat /\ 0 .. n \in SUBSET Nat /\ 0 .. m # 0 .. n
    BY <2>3
  <2> QED
    BY <2>1, <2>3, <2>4 DEF O, StrictSubsetOrdering
<1> QED
  BY <1>6

(* The nodes of a typed list have the type of its elements.                *)
LEMMA NodesTyped ==
    ASSUME NEW T, NEW list \in Seq(T)
    PROVE  NodesOf(list) \subseteq T
BY DEF NodesOf

(* list_add (util.c:295) yields a list whose head is the new node.         *)
LEMMA AddNodes ==
    ASSUME NEW T, NEW list \in Seq(T), NEW i, NEW d, Node(i, d) \in T
    PROVE  /\ list_add(list, i, d) \in Seq(T)
           /\ NodesOf(list_add(list, i, d)) = NodesOf(list) \cup {Node(i, d)}
           /\ DataOf(list_add(list, i, d)) = DataOf(list) \cup {d}
<1> DEFINE l == list_add(list, i, d)
<1>1. /\ l \in Seq(T)
      /\ Len(l) = Len(list) + 1
      /\ l[1] = Node(i, d)
      /\ \A k \in 1 .. Len(list) : l[k + 1] = list[k]
  BY DEF list_add
<1>2. DOMAIN l = 1 .. (Len(list) + 1) /\ DOMAIN list = 1 .. Len(list) /\ Len(list) \in Nat
  BY <1>1
<1> HIDE DEF l
<1>3. \A k \in DOMAIN l : k = 1 \/ (k - 1 \in DOMAIN list /\ l[k] = list[k - 1])
  <2> TAKE k \in DOMAIN l
  <2> SUFFICES ASSUME k # 1
               PROVE  k - 1 \in DOMAIN list /\ l[k] = list[k - 1]
    OBVIOUS
  <2>1. k - 1 \in 1 .. Len(list)
    BY <1>2
  <2>2. l[(k - 1) + 1] = list[k - 1]
    BY <2>1, <1>1
  <2> QED
    BY <2>1, <2>2, <1>2
<1>4. \A k \in DOMAIN list : k + 1 \in DOMAIN l /\ l[k + 1] = list[k]
  BY <1>1, <1>2
<1>5. 1 \in DOMAIN l
  BY <1>2
<1>6. NodesOf(l) = NodesOf(list) \cup {Node(i, d)}
  <2>1. ASSUME NEW n \in NodesOf(l)
        PROVE  n \in NodesOf(list) \cup {Node(i, d)}
    <3>1. PICK k \in DOMAIN l : n = l[k]
      BY DEF NodesOf
    <3> QED
      BY <3>1, <1>1, <1>3 DEF NodesOf
  <2>2. NodesOf(list) \subseteq NodesOf(l)
    BY <1>4 DEF NodesOf
  <2>3. Node(i, d) \in NodesOf(l)
    BY <1>1, <1>5 DEF NodesOf
  <2> QED
    BY <2>1, <2>2, <2>3
<1>7. DataOf(l) = DataOf(list) \cup {d}
  <2>1. Node(i, d).data = d
    BY DEF Node
  <2>2. DataOf(l) \subseteq DataOf(list) \cup {d}
    BY <1>1, <1>3, <2>1 DEF DataOf
  <2>3. DataOf(list) \subseteq DataOf(l)
    BY <1>4 DEF DataOf
  <2>4. d \in DataOf(l)
    BY <1>1, <1>5, <2>1 DEF DataOf
  <2> QED
    BY <2>2, <2>3, <2>4
<1> QED
  BY <1>1, <1>6, <1>7 DEF l

(* A new index keeps the indices of the list distinct.                     *)
LEMMA AddIndexedOnce ==
    ASSUME NEW T, NEW list \in Seq(T), NEW i, NEW d, Node(i, d) \in T,
           IndexedOnce(list), \A n \in NodesOf(list) : n.index # i
    PROVE  IndexedOnce(list_add(list, i, d))
<1> DEFINE l == list_add(list, i, d)
<1>1. /\ l \in Seq(T)
      /\ Len(l) = Len(list) + 1
      /\ l[1] = Node(i, d)
      /\ \A k \in 1 .. Len(list) : l[k + 1] = list[k]
  BY DEF list_add
<1>2. DOMAIN l = 1 .. (Len(list) + 1) /\ DOMAIN list = 1 .. Len(list) /\ Len(list) \in Nat
  BY <1>1
<1> HIDE DEF l
<1>3. \A k \in DOMAIN l : k # 1 => k - 1 \in DOMAIN list /\ l[k] = list[k - 1]
  <2> TAKE k \in DOMAIN l
  <2> HAVE k # 1
  <2>1. k - 1 \in 1 .. Len(list)
    BY <1>2
  <2>2. l[(k - 1) + 1] = list[k - 1]
    BY <2>1, <1>1
  <2> QED
    BY <2>1, <2>2, <1>2
<1>4. l[1].index = i
  BY <1>1 DEF Node
<1>5. \A k \in DOMAIN list : list[k].index # i
  BY DEF NodesOf
<1>6. ASSUME NEW j \in DOMAIN l, NEW k \in DOMAIN l, l[j].index = l[k].index
      PROVE  j = k
  <2>1. CASE j = 1 \/ k = 1
    BY <2>1, <1>3, <1>4, <1>5, <1>6
  <2>2. CASE j # 1 /\ k # 1
    <3>1. j - 1 = k - 1
      BY <2>2, <1>3, <1>6 DEF IndexedOnce
    <3> QED
      BY <3>1, <1>2
  <2> QED
    BY <2>1, <2>2
<1> QED
  BY <1>6 DEF IndexedOnce, l

(* list_remove (util.c:305) invents no node.                               *)
LEMMA RemoveSubset ==
    ASSUME NEW T, NEW list \in Seq(T), NEW i
    PROVE  /\ list_remove(list, i) \in Seq(T)
           /\ NodesOf(list_remove(list, i)) \subseteq NodesOf(list)
           /\ DataOf(list_remove(list, i)) \subseteq DataOf(list)
<1> DEFINE F == FirstAt(list, i)
           l == [j \in 1 .. (Len(list) - 1) |-> IF j < F THEN list[j] ELSE list[j + 1]]
<1>1. DOMAIN list = 1 .. Len(list) /\ Len(list) \in Nat
  OBVIOUS
<1>2. CASE \E k \in DOMAIN list : list[k].index = i
  <2>1. Len(list) - 1 \in Nat
    BY <1>1, <1>2
  <2>2. \A j \in 1 .. (Len(list) - 1) : j \in DOMAIN list /\ j + 1 \in DOMAIN list
    BY <1>1
  <2>3. \A j \in 1 .. (Len(list) - 1) : l[j] = list[j] \/ l[j] = list[j + 1]
    OBVIOUS
  <2>4. DOMAIN l = 1 .. (Len(list) - 1)
    OBVIOUS
  <2> HIDE DEF F
  <2>5. \A j \in 1 .. (Len(list) - 1) : (IF j < F THEN list[j] ELSE list[j + 1]) \in T
    BY <2>2
  <2>6. l \in Seq(T)
    BY <2>1, <2>5
  <2> HIDE DEF l
  <2>7. NodesOf(l) \subseteq NodesOf(list) /\ DataOf(l) \subseteq DataOf(list)
    BY <2>2, <2>3, <2>4 DEF NodesOf, DataOf
  <2> QED
    BY <1>2, <2>6, <2>7 DEF list_remove, l, F
<1>3. CASE ~ \E k \in DOMAIN list : list[k].index = i
  BY <1>3 DEF list_remove
<1> QED
  BY <1>2, <1>3

(* Where indices are distinct, list_remove unlinks exactly the nodes with  *)
(* this index, and the indices stay distinct.                              *)
LEMMA RemoveOnce ==
    ASSUME NEW T, NEW list \in Seq(T), NEW i, IndexedOnce(list)
    PROVE  /\ IndexedOnce(list_remove(list, i))
           /\ NodesOf(list_remove(list, i)) = {n \in NodesOf(list) : n.index # i}
<1> DEFINE F == FirstAt(list, i)
           l == [j \in 1 .. (Len(list) - 1) |-> IF j < F THEN list[j] ELSE list[j + 1]]
<1>1. DOMAIN list = 1 .. Len(list) /\ Len(list) \in Nat
  OBVIOUS
<1>2. CASE \E k \in DOMAIN list : list[k].index = i
  <2>1. F \in DOMAIN list /\ list[F].index = i
    <3>1. PICK k \in DOMAIN list : list[k].index = i
      BY <1>2
    <3>2. \A j \in DOMAIN list : list[j].index = i => j = k
      BY <3>1 DEF IndexedOnce
    <3>3. \A j \in DOMAIN list : list[j].index = i => k <= j
      BY <3>2, <1>1
    <3> QED
      BY <3>1, <3>3 DEF FirstAt
  <2> HIDE DEF F
  <2>2. DOMAIN l = 1 .. (Len(list) - 1) /\ F \in Nat
    BY <2>1, <1>1
  <2>3. \A j \in DOMAIN l : /\ j < F => l[j] = list[j] /\ j \in DOMAIN list /\ j # F
                            /\ ~(j < F) => l[j] = list[j + 1] /\ j + 1 \in DOMAIN list /\ j + 1 # F
    BY <2>1, <2>2, <1>1
  <2>4. \A k \in DOMAIN list : k # F =>
            \E j \in DOMAIN l : l[j] = list[k]
    <3> SUFFICES ASSUME NEW k \in DOMAIN list, k # F
                 PROVE  \E j \in DOMAIN l : l[j] = list[k]
      OBVIOUS
    <3>1. CASE k < F
      <4>1. k \in DOMAIN l
        BY <2>1, <2>2, <3>1, <1>1
      <4> QED
        BY <4>1, <2>3, <3>1
    <3>2. CASE ~(k < F)
      <4>1. k - 1 \in DOMAIN l /\ ~(k - 1 < F)
        BY <2>1, <2>2, <3>2, <1>1
      <4>2. l[k - 1] = list[(k - 1) + 1]
        BY <4>1, <2>3
      <4>3. (k - 1) + 1 = k
        BY <1>1
      <4> QED
        BY <4>1, <4>2, <4>3
    <3> QED
      BY <3>1, <3>2
  <2>5. \A k \in DOMAIN list : k # F => list[k].index # i
    BY <2>1 DEF IndexedOnce
  <2> HIDE DEF l
  <2>6. NodesOf(l) = {n \in NodesOf(list) : n.index # i}
    <3>1. ASSUME NEW n \in NodesOf(l)
          PROVE  n \in NodesOf(list) /\ n.index # i
      BY <2>3, <2>5, <3>1 DEF NodesOf
    <3>2. ASSUME NEW n \in NodesOf(list), n.index # i
          PROVE  n \in NodesOf(l)
      BY <2>1, <2>4, <3>2 DEF NodesOf
    <3> QED
      BY <3>1, <3>2
  <2>7. IndexedOnce(l)
    <3> SUFFICES ASSUME NEW j \in DOMAIN l, NEW k \in DOMAIN l, l[j].index = l[k].index
                 PROVE  j = k
      BY DEF IndexedOnce
    <3> DEFINE at(m) == IF m < F THEN m ELSE m + 1
    <3>1. l[j] = list[at(j)] /\ l[k] = list[at(k)] /\ at(j) \in DOMAIN list /\ at(k) \in DOMAIN list
      BY <2>3
    <3>2. at(j) = at(k)
      BY <3>1 DEF IndexedOnce
    <3> QED
      BY <3>2, <2>2
  <2> QED
    BY <1>2, <2>6, <2>7 DEF list_remove, l, F
<1>3. CASE ~ \E k \in DOMAIN list : list[k].index = i
  BY <1>3 DEF list_remove, NodesOf
<1> QED
  BY <1>2, <1>3

(* list_remove (util.c:305) unlinks one node: those with another index     *)
(* stay, even where indices repeat, and so does all but the head where the *)
(* head has the index.                                                     *)
LEMMA RemoveKeeps ==
    ASSUME NEW T, NEW list \in Seq(T), NEW i
    PROVE  /\ \A n \in NodesOf(list) : n.index # i => n \in NodesOf(list_remove(list, i))
           /\ list # <<>> /\ Head(list).index = i =>
                NodesOf(list) \ {Head(list)} \subseteq NodesOf(list_remove(list, i))
<1> DEFINE F == FirstAt(list, i)
           l == [j \in 1 .. (Len(list) - 1) |-> IF j < F THEN list[j] ELSE list[j + 1]]
<1>1. DOMAIN list = 1 .. Len(list) /\ Len(list) \in Nat
  OBVIOUS
<1>2. CASE \E k \in DOMAIN list : list[k].index = i
  <2>1. /\ F \in DOMAIN list /\ list[F].index = i
        /\ \A j \in DOMAIN list : list[j].index = i => F <= j
    <3> DEFINE S == {k \in DOMAIN list : list[k].index = i}
    <3>1. S \subseteq Nat /\ S # {}
      BY <1>1, <1>2
    <3>2. \E k \in S : \A j \in S : k <= j
      BY <3>1, SmallestOf, Zenon
    <3>3. \E k \in DOMAIN list :
             /\ list[k].index = i
             /\ \A j \in DOMAIN list : list[j].index = i => k <= j
      BY <3>2
    <3> QED
      BY <3>3 DEF FirstAt
  <2> HIDE DEF F
  <2>2. DOMAIN l = 1 .. (Len(list) - 1) /\ F \in Nat
    BY <2>1, <1>1
  <2>3. \A j \in DOMAIN l : l[j] = IF j < F THEN list[j] ELSE list[j + 1]
    OBVIOUS
  <2> HIDE DEF l
  <2>4. \A k \in DOMAIN list : k # F => list[k] \in NodesOf(l)
    <3> SUFFICES ASSUME NEW k \in DOMAIN list, k # F
                 PROVE  \E j \in DOMAIN l : l[j] = list[k]
      BY DEF NodesOf
    <3>1. CASE k < F
      <4>1. k \in DOMAIN l
        BY <2>1, <2>2, <3>1, <1>1
      <4> QED
        BY <4>1, <2>3, <3>1
    <3>2. CASE ~(k < F)
      <4>1. k - 1 \in DOMAIN l /\ ~(k - 1 < F)
        BY <2>1, <2>2, <3>2, <1>1
      <4>2. l[k - 1] = list[(k - 1) + 1]
        BY <4>1, <2>3
      <4>3. (k - 1) + 1 = k
        BY <1>1
      <4> QED
        BY <4>1, <4>2, <4>3
    <3> QED
      BY <3>1, <3>2
  <2>5. list_remove(list, i) = l
    BY <1>2 DEF list_remove, l, F
  <2>6. \A n \in NodesOf(list) : n.index # i => n \in NodesOf(l)
    BY <2>1, <2>4 DEF NodesOf
  <2>7. list # <<>> /\ Head(list).index = i => F = 1 /\ Head(list) = list[1]
    BY <2>1, <2>2, <1>1
  <2>8. list # <<>> /\ Head(list).index = i => NodesOf(list) \ {Head(list)} \subseteq NodesOf(l)
    BY <2>4, <2>7 DEF NodesOf
  <2> QED
    BY <2>5, <2>6, <2>8
<1>3. CASE ~ \E k \in DOMAIN list : list[k].index = i
  BY <1>3 DEF list_remove
<1> QED
  BY <1>2, <1>3

(* The head of a list, and the successor of a node that is linked once,    *)
(* are in the list or NULL.                                                *)
LEMMA PointersInList ==
    ASSUME NEW T, NEW list \in Seq(T), NEW d, NEW none,
           \A j, k \in DOMAIN list : list[j].data = d /\ list[k].data = d => j = k
    PROVE  /\ HeadData(list, none) \in DataOf(list) \cup {none}
           /\ NextData(list, d, none) \in DataOf(list) \cup {none}
<1>1. DOMAIN list = 1 .. Len(list) /\ Len(list) \in Nat
  OBVIOUS
<1>2. HeadData(list, none) \in DataOf(list) \cup {none}
  <2>1. list # <<>> => 1 \in DOMAIN list
    OBVIOUS
  <2> QED
    BY <2>1 DEF HeadData, DataOf
<1>3. CASE \E k \in 1 .. (Len(list) - 1) : list[k].data = d
  <2> DEFINE Q(k) == /\ list[k].data = d
                     /\ \A j \in 1 .. (Len(list) - 1) : list[j].data = d => k <= j
             K == CHOOSE k \in 1 .. (Len(list) - 1) : Q(k)
  <2>1. PICK k \in 1 .. (Len(list) - 1) : list[k].data = d
    BY <1>3
  <2>2. \A j \in 1 .. (Len(list) - 1) : list[j].data = d => k <= j
    BY <2>1, <1>1
  <2>3. K \in 1 .. (Len(list) - 1)
    BY <2>1, <2>2
  <2> HIDE DEF K
  <2>4. 1 + K \in DOMAIN list
    BY <2>3, <1>1
  <2>5. NextData(list, d, none) = list[1 + K].data
    BY <1>3 DEF NextData, K
  <2> QED
    BY <1>2, <2>4, <2>5 DEF DataOf
<1>4. CASE ~ \E k \in 1 .. (Len(list) - 1) : list[k].data = d
  BY <1>2, <1>4 DEF NextData
<1> QED
  BY <1>3, <1>4

(* Where every pointer is linked once, a node is not its own successor.    *)
LEMMA NextDiffers ==
    ASSUME NEW T, NEW list \in Seq(T), NEW d, NEW none, d # none,
           \A j, k \in DOMAIN list : list[j].data = list[k].data => j = k
    PROVE  NextData(list, d, none) # d
<1>1. DOMAIN list = 1 .. Len(list) /\ Len(list) \in Nat
  OBVIOUS
<1>2. CASE \E k \in 1 .. (Len(list) - 1) : list[k].data = d
  <2> DEFINE Q(k) == /\ list[k].data = d
                     /\ \A j \in 1 .. (Len(list) - 1) : list[j].data = d => k <= j
             K == CHOOSE k \in 1 .. (Len(list) - 1) : Q(k)
  <2>1. PICK k \in 1 .. (Len(list) - 1) : list[k].data = d
    BY <1>2
  <2>2. \A j \in 1 .. (Len(list) - 1) : list[j].data = d => k <= j
    BY <2>1, <1>1
  <2>3. K \in 1 .. (Len(list) - 1) /\ list[K].data = d
    BY <2>1, <2>2
  <2> HIDE DEF K
  <2>4. 1 + K \in DOMAIN list /\ K \in DOMAIN list /\ 1 + K # K
    BY <2>3, <1>1
  <2>5. NextData(list, d, none) = list[1 + K].data
    BY <1>2 DEF NextData, K
  <2> QED
    BY <2>3, <2>4, <2>5
<1>3. CASE ~ \E k \in 1 .. (Len(list) - 1) : list[k].data = d
  BY <1>3 DEF NextData
<1> QED
  BY <1>2, <1>3

-----------------------------------------------------------------------------
(* Division with remainder.                                                *)
LEMMA ModDef ==
    ASSUME NEW a \in Int, NEW N \in Nat \ {0}
    PROVE  /\ a = N * (a \div N) + (a % N)
           /\ a % N \in 0 .. (N - 1)
           /\ a \div N \in Int
  OBVIOUS

(* Two positions less than the size apart are in different cells.          *)
LEMMA ModSame ==
    ASSUME NEW a \in Int, NEW b \in Int, NEW N \in Nat \ {0},
           a % N = b % N, a - b < N, b - a < N
    PROVE  a = b
<1> DEFINE p == a \div N
           q == b \div N
<1>1. /\ p \in Int /\ q \in Int /\ a % N \in Int /\ b % N \in Int
      /\ a = N * p + (a % N) /\ b = N * q + (b % N)
  BY ModDef
<1> HIDE DEF p, q
<1>2. a - b = N * (p - q) /\ b - a = N * (q - p)
  BY <1>1
<1>3. p - q < 1
  <2>1. SUFFICES ASSUME p - q >= 1 PROVE FALSE
    BY <1>1
  <2>2. N * (p - q) >= N * 1
    BY <1>1, <2>1
  <2> QED
    BY <2>2, <1>2
<1>4. q - p < 1
  <2>1. SUFFICES ASSUME q - p >= 1 PROVE FALSE
    BY <1>1
  <2>2. N * (q - p) >= N * 1
    BY <1>1, <2>1
  <2> QED
    BY <2>2, <1>2
<1> QED
  BY <1>1, <1>2, <1>3, <1>4

(* An index that was wrapped before an offset is added names the same cell.*)
LEMMA ModAdd ==
    ASSUME NEW a \in Int, NEW k \in Int, NEW N \in Nat \ {0}
    PROVE  ((a % N) + k) % N = (a + k) % N
<1> DEFINE z == (a % N) + k
           p == a \div N
           q == z \div N
           s == (a + k) \div N
           x == z % N
           y == (a + k) % N
<1>1. p \in Int /\ a = N * p + (a % N) /\ a % N \in Int
  BY ModDef
<1>2. z \in Int
  BY <1>1
<1>3. s \in Int /\ a + k = N * s + y /\ y \in 0 .. (N - 1)
  BY ModDef
<1>4. z = (a % N) + k
  OBVIOUS
<1> HIDE DEF z
<1>5. q \in Int /\ z = N * q + x /\ x \in 0 .. (N - 1)
  BY ModDef, <1>2
<1> HIDE DEF p, q, s, x, y
<1>6. x - y = N * (s - p - q) /\ y - x = N * (p + q - s)
  BY <1>1, <1>3, <1>4, <1>5
<1>7. s - p - q < 1
  <2>1. SUFFICES ASSUME s - p - q >= 1 PROVE FALSE
    BY <1>1, <1>3, <1>5
  <2>2. N * (s - p - q) >= N
    BY <1>1, <1>3, <1>5, <2>1
  <2> QED
    BY <2>2, <1>6, <1>3, <1>5
<1>8. s - p - q > -1
  <2>1. SUFFICES ASSUME s - p - q <= -1 PROVE FALSE
    BY <1>1, <1>3, <1>5
  <2>2. N * (p + q - s) >= N
    BY <1>1, <1>3, <1>5, <2>1
  <2> QED
    BY <2>2, <1>6, <1>3, <1>5
<1>9. x = y
  <2>1. s - p - q = 0
    BY <1>1, <1>3, <1>5, <1>7, <1>8
  <2> QED
    BY <2>1, <1>6, <1>3, <1>5
<1> QED
  BY <1>9, <1>4 DEF x, y, z
=============================================================================
