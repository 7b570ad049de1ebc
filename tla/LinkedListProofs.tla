-------------------------- MODULE LinkedListProofs --------------------------
(***************************************************************************)
(* The rings of module LinkedList are intact and implement the sequences   *)
(* of module AbstractLists, for any number of items, lists and values.     *)
(*                                                                         *)
(* The invariant names the sequence of items each ring holds.  An          *)
(* insertion splices its item in between two neighbours of the ring, which *)
(* inserts it in the sequence, and a removal closes the gap.  The scans    *)
(* follow the links from the sentinel, and so pass the sequence in order.  *)
(***************************************************************************)
EXTENDS LinkedList, SequenceTheorems, FiniteSetTheorems, TLAPS

L == INSTANCE ListsProofs

HeapType ==
    [next : [Nodes -> Nodes \cup {NULL}],
     prev : [Nodes -> Nodes \cup {NULL}],
     container : [Nodes -> ListIds \cup {NULL}],
     value : [Nodes -> Nat],
     count : [ListIds -> Nat],
     failed : BOOLEAN]

(* The nodes of the ring of l by their place: the items s between the two  *)
(* places of the sentinel, 0 and Len(s) + 1.                               *)
Place(s, l, j) == IF j \in 1 .. Len(s) THEN s[j] ELSE l

IsRing(h, l, s) ==
    /\ s \in Seq(Items) /\ L!NoDuplicates(s)
    /\ \A i \in Items : h.container[i] = l <=> L!In(s, i)
    /\ h.count[l] = Len(s)
    /\ \A j \in 0 .. Len(s) :
          /\ h.next[Place(s, l, j)] = Place(s, l, j + 1)
          /\ h.prev[Place(s, l, j + 1)] = Place(s, l, j)

HeapInv(h) ==
    /\ h \in HeapType
    /\ ~h.failed
    /\ \A l \in ListIds : h.container[l] = l
    /\ \A i \in Items : h.container[i] = NULL => h.next[i] = NULL /\ h.prev[i] = NULL
    /\ \A l \in ListIds : \E s : IsRing(h, l, s)

-----------------------------------------------------------------------------
(* The places of a ring. *)
LEMMA PlaceFacts ==
    ASSUME NEW l \in ListIds, NEW s \in Seq(Items), L!NoDuplicates(s)
    PROVE  /\ Len(s) \in Nat
           /\ \A j \in 1 .. Len(s) : s[j] \in Items /\ Place(s, l, j) = s[j]
           /\ Place(s, l, 0) = l /\ Place(s, l, Len(s) + 1) = l
           /\ \A j \in 0 .. Len(s) + 1 : Place(s, l, j) \in Nodes
           /\ \A j, k \in 0 .. Len(s) : Place(s, l, j) = Place(s, l, k) => j = k
           /\ \A j, k \in 1 .. Len(s) + 1 : Place(s, l, j) = Place(s, l, k) => j = k
           /\ \A i \in Items : L!In(s, i) <=> \E j \in 1 .. Len(s) : s[j] = i
<1>1. /\ Len(s) \in Nat /\ DOMAIN s = 1 .. Len(s)
      /\ \A j \in 1 .. Len(s) : s[j] \in Items
  BY LenProperties, ElementOfSeq
<1>2. \A j \in Int : Place(s, l, j) = IF 1 <= j /\ j <= Len(s) THEN s[j] ELSE l
  BY <1>1 DEF Place
<1>3. \A j, k \in 1 .. Len(s) : s[j] = s[k] => j = k
  BY <1>1 DEF L!NoDuplicates
<1>4. l \notin Items /\ l \in Nodes /\ Items \subseteq Nodes
  BY LinkedListAssumption DEF Nodes
<1>5. \A i \in Items : L!In(s, i) <=> \E j \in 1 .. Len(s) : s[j] = i
  BY <1>1 DEF L!In
<1>6. /\ Place(s, l, 0) = l /\ Place(s, l, Len(s) + 1) = l
      /\ \A j \in 1 .. Len(s) : s[j] \in Items /\ Place(s, l, j) = s[j]
  BY <1>1, <1>2
<1>7. \A j \in 0 .. Len(s) + 1 : Place(s, l, j) \in Nodes
  BY <1>1, <1>2, <1>4
<1>8. ASSUME NEW j \in 0 .. Len(s), NEW k \in 0 .. Len(s), Place(s, l, j) = Place(s, l, k)
      PROVE  j = k
  <2>1. j # 0 => j \in 1 .. Len(s)
    BY <1>1
  <2>2. k # 0 => k \in 1 .. Len(s)
    BY <1>1
  <2> QED
    BY <2>1, <2>2, <1>3, <1>4, <1>6, <1>8
<1>9. ASSUME NEW j \in 1 .. Len(s) + 1, NEW k \in 1 .. Len(s) + 1,
             Place(s, l, j) = Place(s, l, k)
      PROVE  j = k
  <2>1. j # Len(s) + 1 => j \in 1 .. Len(s)
    BY <1>1
  <2>2. k # Len(s) + 1 => k \in 1 .. Len(s)
    BY <1>1
  <2> QED
    BY <2>1, <2>2, <1>3, <1>4, <1>6, <1>9
<1> QED
  BY <1>1, <1>5, <1>6, <1>7, <1>8, <1>9

(* A ring has as many items as its sequence is long, and a scan of all     *)
(* nodes is long enough to pass it.                                        *)
LEMMA RingLength ==
    ASSUME NEW l \in ListIds, NEW s \in Seq(Items), L!NoDuplicates(s),
           NEW M, M = {i \in Items : L!In(s, i)}
    PROVE  /\ Cardinality(M) = Len(s)
           /\ Cardinality(Nodes) \in Nat /\ Len(s) + 1 <= Cardinality(Nodes)
<1>1. /\ Len(s) \in Nat
      /\ \A j \in 1 .. Len(s) : s[j] \in Items
      /\ \A i \in Items : L!In(s, i) <=> \E j \in 1 .. Len(s) : s[j] = i
  BY PlaceFacts
<1>2. \A j, k \in 1 .. Len(s) : s[j] = s[k] => j = k
  BY LenProperties DEF L!NoDuplicates
<1> DEFINE f == [j \in 1 .. Len(s) |-> s[j]]
<1>3. f \in Bijection(1 .. Len(s), M)
  <2>1. f \in [1 .. Len(s) -> M]
    BY <1>1
  <2>2. \A j, k \in 1 .. Len(s) : f[j] = f[k] => j = k
    BY <1>2
  <2>3. \A i \in M : \E j \in 1 .. Len(s) : f[j] = i
    BY <1>1
  <2> HIDE DEF f
  <2> QED
    BY <2>1, <2>2, <2>3 DEF Bijection, Injection, Surjection, IsInjective
<1>4. IsFiniteSet(M) /\ Cardinality(M) = Len(s)
  <2>1. IsFiniteSet(1 .. Len(s)) /\ Cardinality(1 .. Len(s)) = Len(s)
    <3>1. PICK n \in Nat : n = Len(s)
      BY <1>1
    <3>2. IsFiniteSet(1 .. n) /\ Cardinality(1 .. n) = n
      BY FS_Interval
    <3> QED
      BY <3>1, <3>2
  <2>2. ExistsBijection(1 .. Len(s), M)
    BY <1>3 DEF ExistsBijection
  <2> HIDE DEF f
  <2> QED
    BY <2>1, <2>2, FS_Bijection
<1>5. IsFiniteSet(Nodes) /\ Cardinality(Nodes) \in Nat
  BY LinkedListAssumption, FS_Union, FS_CardinalityType DEF Nodes
<1>6. IsFiniteSet(M \cup {l}) /\ Cardinality(M \cup {l}) = Len(s) + 1
  <2>1. l \notin M
    BY LinkedListAssumption
  <2> QED
    BY <2>1, <1>4, FS_AddElement
<1>7. Cardinality(M \cup {l}) <= Cardinality(Nodes)
  <2>1. M \cup {l} \in SUBSET Nodes
    BY DEF Nodes
  <2> QED
    BY <2>1, <1>5, FS_Subset
<1> QED
  BY <1>4, <1>5, <1>6, <1>7

(* The node at a place belongs to the list of the ring, so that no node is *)
(* in two rings.                                                           *)
LEMMA PlaceContainer ==
    ASSUME NEW h, HeapInv(h), NEW l \in ListIds, NEW s, IsRing(h, l, s),
           NEW j \in 0 .. Len(s) + 1
    PROVE  Place(s, l, j) \in Nodes /\ h.container[Place(s, l, j)] = l
<1>1. s \in Seq(Items) /\ L!NoDuplicates(s) /\ \A i \in Items : h.container[i] = l <=> L!In(s, i)
  BY DEF IsRing
<1>2. /\ Len(s) \in Nat /\ Place(s, l, j) \in Nodes
      /\ \A k \in 1 .. Len(s) : s[k] \in Items /\ Place(s, l, k) = s[k]
      /\ Place(s, l, 0) = l /\ Place(s, l, Len(s) + 1) = l
      /\ \A i \in Items : L!In(s, i) <=> \E k \in 1 .. Len(s) : s[k] = i
  BY <1>1, PlaceFacts
<1>3. h.container[l] = l
  BY DEF HeapInv
<1>4. CASE j \in 1 .. Len(s)
  BY <1>1, <1>2, <1>4
<1>5. CASE j \notin 1 .. Len(s)
  <2>1. j = 0 \/ j = Len(s) + 1
    BY <1>2, <1>5
  <2> QED
    BY <2>1, <1>2, <1>3
<1> QED
  BY <1>2, <1>4, <1>5

-----------------------------------------------------------------------------
(* Item i goes between a and b, which are neighbours in the ring of l. *)
Spliced(r, h, l, i, a, b) ==
    /\ r \in HeapType /\ ~r.failed /\ r.value = h.value
    /\ r.container = [h.container EXCEPT ![i] = l]
    /\ r.count = [h.count EXCEPT ![l] = @ + 1]
    /\ r.next[a] = i /\ r.next[i] = b
    /\ r.prev[b] = i /\ r.prev[i] = a
    /\ \A n \in Nodes : /\ n \notin {a, i} => r.next[n] = h.next[n]
                        /\ n \notin {b, i} => r.prev[n] = h.prev[n]

(* The other rings do not notice. *)
LEMMA OtherRing ==
    ASSUME NEW h, HeapInv(h), NEW l \in ListIds, NEW m \in ListIds, m # l, NEW s, IsRing(h, m, s),
           NEW r, NEW i \in Items, h.container[i] \in {l, NULL}, r.container[i] \in {l, NULL},
           r.count[m] = h.count[m],
           \A n \in Nodes : n # i => r.container[n] = h.container[n],
           \A n \in Nodes : h.container[n] = m => r.next[n] = h.next[n] /\ r.prev[n] = h.prev[n]
    PROVE  IsRing(r, m, s)
<1>1. m # NULL /\ Items \subseteq Nodes
  BY LinkedListAssumption DEF Nodes
<1>2. \A j \in Items : r.container[j] = m <=> h.container[j] = m
  BY <1>1
<1>3. s \in Seq(Items) /\ Len(s) \in Nat
  BY LenProperties DEF IsRing
<1>4. \A j \in 0 .. Len(s) :
         /\ r.next[Place(s, m, j)] = h.next[Place(s, m, j)]
         /\ r.prev[Place(s, m, j + 1)] = h.prev[Place(s, m, j + 1)]
  <2> SUFFICES ASSUME NEW j \in 0 .. Len(s)
               PROVE  /\ r.next[Place(s, m, j)] = h.next[Place(s, m, j)]
                      /\ r.prev[Place(s, m, j + 1)] = h.prev[Place(s, m, j + 1)]
    OBVIOUS
  <2>1. j \in 0 .. Len(s) + 1 /\ j + 1 \in 0 .. Len(s) + 1
    BY <1>3
  <2> QED
    BY <2>1, PlaceContainer
<1> QED
  BY <1>2, <1>4 DEF IsRing

(* The splice inserts i in the sequence of l. *)
LEMMA SpliceEffect ==
    ASSUME NEW h, HeapInv(h), NEW l \in ListIds, NEW s, IsRing(h, l, s),
           NEW i \in Items, h.container[i] = NULL, NEW p \in 1 .. Len(s) + 1,
           NEW r, Spliced(r, h, l, i, Place(s, l, p - 1), Place(s, l, p))
    PROVE  /\ HeapInv(r)
           /\ IsRing(r, l, L!InsertAt(s, p, i))
           /\ \A m \in ListIds : \A q : m # l /\ IsRing(h, m, q) => IsRing(r, m, q)
<1> DEFINE a == Place(s, l, p - 1)
           b == Place(s, l, p)
           z == L!InsertAt(s, p, i)
<1>1. /\ s \in Seq(Items) /\ L!NoDuplicates(s) /\ h.count[l] = Len(s)
      /\ \A j \in Items : h.container[j] = l <=> L!In(s, j)
      /\ \A j \in 0 .. Len(s) : /\ h.next[Place(s, l, j)] = Place(s, l, j + 1)
                                /\ h.prev[Place(s, l, j + 1)] = Place(s, l, j)
  BY DEF IsRing
<1>2. /\ Len(s) \in Nat
      /\ \A j \in 1 .. Len(s) : s[j] \in Items /\ Place(s, l, j) = s[j]
      /\ Place(s, l, 0) = l /\ Place(s, l, Len(s) + 1) = l
      /\ \A j \in 0 .. Len(s) + 1 : Place(s, l, j) \in Nodes
      /\ \A j, k \in 0 .. Len(s) : Place(s, l, j) = Place(s, l, k) => j = k
      /\ \A j, k \in 1 .. Len(s) + 1 : Place(s, l, j) = Place(s, l, k) => j = k
      /\ \A j \in Items : L!In(s, j) <=> \E k \in 1 .. Len(s) : s[k] = j
  BY <1>1, PlaceFacts
<1>3. /\ l # NULL /\ l \notin Items /\ Items \subseteq Nodes /\ ListIds \subseteq Nodes
      /\ NULL \notin Nodes
  BY LinkedListAssumption DEF Nodes
<1>4. /\ h \in HeapType /\ r \in HeapType
      /\ \A j \in 0 .. Len(s) + 1 : h.container[Place(s, l, j)] = l
  <2>1. h \in HeapType
    BY DEF HeapInv
  <2>2. r \in HeapType
    BY DEF Spliced
  <2>3. \A j \in 0 .. Len(s) + 1 : h.container[Place(s, l, j)] = l
    BY PlaceContainer
  <2> QED
    BY <2>1, <2>2, <2>3
<1>5. \A j \in 0 .. Len(s) + 1 : Place(s, l, j) # i
  BY <1>3, <1>4
<1>6. /\ z \in Seq(Items) /\ Len(z) = Len(s) + 1
      /\ \A j \in 1 .. Len(s) + 1 :
            z[j] = IF j < p THEN s[j] ELSE IF j = p THEN i ELSE s[j - 1]
  BY <1>1, L!InsertAtProperties
<1> HIDE DEF z
<1>7. p - 1 \in 0 .. Len(s) /\ p \in Int /\ p >= 1 /\ p <= Len(s) + 1
  BY <1>2
<1>8. \A j \in 0 .. Len(s) + 2 :
         Place(z, l, j) = IF j < p THEN Place(s, l, j) ELSE IF j = p THEN i ELSE Place(s, l, j - 1)
  <2> SUFFICES ASSUME NEW j \in 0 .. Len(s) + 2
               PROVE  Place(z, l, j) = IF j < p THEN Place(s, l, j)
                                       ELSE IF j = p THEN i ELSE Place(s, l, j - 1)
    OBVIOUS
  <2>1. CASE j = 0 \/ j = Len(s) + 2
    <3>1. Place(z, l, j) = l
      BY <2>1, <1>2, <1>6 DEF Place
    <3>2. j = Len(s) + 2 => j - 1 = Len(s) + 1 /\ ~(j < p) /\ j # p
      BY <1>2, <1>7
    <3> QED
      BY <2>1, <3>1, <3>2, <1>2, <1>7
  <2>2. CASE j \in 1 .. Len(s) + 1
    <3>1. Place(z, l, j) = z[j]
      BY <2>2, <1>6 DEF Place
    <3>2. j < p => j \in 1 .. Len(s)
      BY <2>2, <1>2, <1>7
    <3>3. ~(j < p) /\ j # p => j - 1 \in 1 .. Len(s)
      BY <2>2, <1>2, <1>7
    <3> QED
      BY <2>2, <3>1, <3>2, <3>3, <1>2, <1>6
  <2> QED
    BY <2>1, <2>2, <1>2
<1>9. a \in Nodes /\ b \in Nodes /\ i \in Nodes /\ a # i /\ b # i
  BY <1>2, <1>3, <1>5, <1>7
<1> HIDE DEF a, b
<1>10. /\ r.container = [h.container EXCEPT ![i] = l] /\ r.count = [h.count EXCEPT ![l] = @ + 1]
       /\ r.next[a] = i /\ r.next[i] = b /\ r.prev[b] = i /\ r.prev[i] = a
       /\ \A n \in Nodes : /\ n \notin {a, i} => r.next[n] = h.next[n]
                           /\ n \notin {b, i} => r.prev[n] = h.prev[n]
       /\ ~r.failed
  BY DEF Spliced, a, b
<1>11. /\ \A n \in Nodes : r.container[n] = IF n = i THEN l ELSE h.container[n]
       /\ r.count[l] = Len(s) + 1
       /\ \A m \in ListIds : m # l => r.count[m] = h.count[m]
  <2>1. h.container \in [Nodes -> ListIds \cup {NULL}] /\ h.count \in [ListIds -> Nat]
    BY <1>4 DEF HeapType
  <2> QED
    BY <2>1, <1>1, <1>10
<1>12. ASSUME NEW j \in 0 .. Len(s) + 1
       PROVE  /\ r.next[Place(z, l, j)] = Place(z, l, j + 1)
              /\ r.prev[Place(z, l, j + 1)] = Place(z, l, j)
  <2>1. /\ j \in 0 .. Len(s) + 2 /\ j + 1 \in 0 .. Len(s) + 2 /\ j \in Int
    BY <1>2
  <2>2. CASE j < p - 1
    <3>1. /\ j \in 0 .. Len(s) /\ j + 1 \in 1 .. Len(s) + 1 /\ j < p /\ j + 1 < p
          /\ j \in 0 .. Len(s) + 1 /\ j + 1 \in 0 .. Len(s) + 1 /\ j # p - 1 /\ j + 1 # p
      BY <2>1, <2>2, <1>2, <1>7
    <3>2. Place(s, l, j) \notin {a, i} /\ Place(s, l, j + 1) \notin {b, i}
      BY <3>1, <1>2, <1>5, <1>7 DEF a, b
    <3>3. Place(z, l, j) = Place(s, l, j) /\ Place(z, l, j + 1) = Place(s, l, j + 1)
      BY <2>1, <3>1, <1>8
    <3>4. /\ r.next[Place(s, l, j)] = h.next[Place(s, l, j)]
          /\ r.prev[Place(s, l, j + 1)] = h.prev[Place(s, l, j + 1)]
      BY <3>1, <3>2, <1>2, <1>10
    <3> QED
      BY <3>1, <3>3, <3>4, <1>1
  <2>3. CASE j = p - 1
    <3>1. j < p /\ j + 1 = p /\ ~(j + 1 < p)
      BY <2>3, <1>7
    <3>2. Place(z, l, j) = a /\ Place(z, l, j + 1) = i
      BY <2>1, <2>3, <3>1, <1>8 DEF a
    <3> QED
      BY <3>2, <1>10
  <2>4. CASE j = p
    <3>1. ~(j < p) /\ ~(j + 1 < p) /\ j + 1 # p /\ (j + 1) - 1 = p
      BY <2>4, <1>7
    <3>2. Place(z, l, j) = i /\ Place(z, l, j + 1) = b
      BY <2>1, <2>4, <3>1, <1>8 DEF b
    <3> QED
      BY <3>2, <1>10
  <2>5. CASE j > p
    <3>1. /\ j - 1 \in 0 .. Len(s) /\ j \in 1 .. Len(s) + 1 /\ j \in 0 .. Len(s) + 1
          /\ j - 1 \in 0 .. Len(s) + 1 /\ (j - 1) + 1 = j /\ (j + 1) - 1 = j
          /\ ~(j < p) /\ j # p /\ ~(j + 1 < p) /\ j + 1 # p /\ j - 1 # p - 1
      BY <2>1, <2>5, <1>2, <1>7
    <3>2. Place(s, l, j - 1) \notin {a, i} /\ Place(s, l, j) \notin {b, i}
      BY <3>1, <1>2, <1>5, <1>7 DEF a, b
    <3>3. Place(z, l, j) = Place(s, l, j - 1) /\ Place(z, l, j + 1) = Place(s, l, j)
      BY <2>1, <3>1, <1>8
    <3>4. /\ h.next[Place(s, l, j - 1)] = Place(s, l, j)
          /\ h.prev[Place(s, l, j)] = Place(s, l, j - 1)
      <4>1. /\ h.next[Place(s, l, j - 1)] = Place(s, l, (j - 1) + 1)
            /\ h.prev[Place(s, l, (j - 1) + 1)] = Place(s, l, j - 1)
        BY <3>1, <1>1
      <4> QED
        BY <4>1, <3>1
    <3> QED
      BY <3>1, <3>2, <3>3, <3>4, <1>2, <1>10
  <2> QED
    BY <2>1, <2>2, <2>3, <2>4, <2>5, <1>7
<1>13. IsRing(r, l, z)
  <2>1. DOMAIN z = 1 .. Len(s) + 1
    BY <1>6, LenProperties
  <2>2. L!NoDuplicates(z)
    <3> SUFFICES ASSUME NEW j \in 1 .. Len(s) + 1, NEW k \in 1 .. Len(s) + 1, z[j] = z[k]
                 PROVE  j = k
      BY <2>1 DEF L!NoDuplicates
    <3>1. Place(z, l, j) = Place(z, l, k) /\ j \in 0 .. Len(s) + 2 /\ k \in 0 .. Len(s) + 2
      BY <1>2, <1>6 DEF Place
    <3> DEFINE u == IF j < p THEN j ELSE j - 1
               v == IF k < p THEN k ELSE k - 1
    <3>2. /\ u \in 0 .. Len(s) + 1 /\ v \in 0 .. Len(s) + 1
          /\ j # p => u \in 1 .. Len(s)
          /\ k # p => v \in 1 .. Len(s)
          /\ j # p /\ k # p /\ u = v => j = k
      BY <1>2, <1>7
    <3>3. j # p => Place(z, l, j) = Place(s, l, u)
      BY <3>1, <1>8
    <3>4. k # p => Place(z, l, k) = Place(s, l, v)
      BY <3>1, <1>8
    <3>5. /\ j = p => Place(z, l, j) = i
          /\ k = p => Place(z, l, k) = i
      BY <3>1, <1>7, <1>8
    <3> HIDE DEF u, v
    <3>6. j = p <=> k = p
      BY <3>1, <3>2, <3>3, <3>4, <3>5, <1>5
    <3>7. j # p => u = v
      BY <3>1, <3>2, <3>3, <3>4, <3>6, <1>2
    <3> QED
      BY <3>2, <3>6, <3>7
  <2>3. \A n \in Items : L!In(z, n) <=> L!In(s, n) \/ n = i
    <3> SUFFICES ASSUME NEW n \in Items
                 PROVE  (\E j \in 1 .. Len(s) + 1 : z[j] = n) <=> L!In(s, n) \/ n = i
      BY <2>1 DEF L!In
    <3>1. ASSUME NEW j \in 1 .. Len(s) + 1, z[j] = n PROVE L!In(s, n) \/ n = i
      <4>1. j < p => j \in 1 .. Len(s)
        BY <1>2, <1>7
      <4>2. ~(j < p) /\ j # p => j - 1 \in 1 .. Len(s)
        BY <1>2, <1>7
      <4> QED
        BY <3>1, <4>1, <4>2, <1>2, <1>6
    <3>2. ASSUME L!In(s, n) PROVE \E j \in 1 .. Len(s) + 1 : z[j] = n
      <4>1. PICK k \in 1 .. Len(s) : s[k] = n
        BY <3>2, <1>2
      <4>2. CASE k < p
        <5>1. k \in 1 .. Len(s) + 1 /\ z[k] = n
          BY <4>1, <4>2, <1>2, <1>6
        <5> QED
          BY <5>1
      <4>3. CASE ~(k < p)
        <5>1. k + 1 \in 1 .. Len(s) + 1 /\ ~(k + 1 < p) /\ k + 1 # p /\ (k + 1) - 1 = k
          BY <4>3, <1>2, <1>7
        <5>2. z[k + 1] = n
          BY <4>1, <5>1, <1>6
        <5> QED
          BY <5>1, <5>2
      <4> QED
        BY <4>2, <4>3
    <3>3. n = i => \E j \in 1 .. Len(s) + 1 : z[j] = n
      <4>1. z[p] = i
        BY <1>6, <1>7
      <4> QED
        BY <4>1
    <3> QED
      BY <3>1, <3>2, <3>3
  <2>4. \A n \in Items : r.container[n] = l <=> L!In(z, n)
    BY <2>3, <1>1, <1>3, <1>11
  <2> QED
    BY <2>2, <2>4, <1>2, <1>6, <1>11, <1>12 DEF IsRing
<1>14. ASSUME NEW m \in ListIds, NEW q, m # l, IsRing(h, m, q) PROVE IsRing(r, m, q)
  <2>1. h.container[a] = l /\ h.container[b] = l
    <3>1. p - 1 \in 0 .. Len(s) + 1 /\ p \in 0 .. Len(s) + 1
      BY <1>2, <1>7
    <3> QED
      BY <3>1, <1>4 DEF a, b
  <2>2. \A n \in Nodes : h.container[n] = m => r.next[n] = h.next[n] /\ r.prev[n] = h.prev[n]
    BY <2>1, <1>14, <1>3, <1>10, LinkedListAssumption
  <2> QED
    BY <2>2, <1>3, <1>9, <1>11, <1>14, OtherRing
<1>15. HeapInv(r)
  <2>1. \A m \in ListIds : \E q : IsRing(r, m, q)
    BY <1>13, <1>14 DEF HeapInv
  <2>2. \A n \in Items : r.container[n] = NULL => r.next[n] = NULL /\ r.prev[n] = NULL
    <3> SUFFICES ASSUME NEW n \in Items, r.container[n] = NULL
                 PROVE  r.next[n] = NULL /\ r.prev[n] = NULL
      OBVIOUS
    <3>1. n # i /\ h.container[n] = NULL
      BY <1>3, <1>11
    <3>2. h.container[a] = l /\ h.container[b] = l
      <4>1. p - 1 \in 0 .. Len(s) + 1 /\ p \in 0 .. Len(s) + 1
        BY <1>2, <1>7
      <4> QED
        BY <4>1, <1>4 DEF a, b
    <3> QED
      BY <3>1, <3>2, <1>3, <1>10 DEF HeapInv
  <2>3. \A m \in ListIds : r.container[m] = m
    <3>1. \A m \in ListIds : m # i /\ h.container[m] = m
      BY LinkedListAssumption DEF HeapInv
    <3> QED
      BY <3>1, <1>3, <1>11
  <2> QED
    BY <2>1, <2>2, <2>3, <1>4, <1>10 DEF HeapInv
<1> QED
  BY <1>13, <1>14, <1>15 DEF z

LEMMA HeapFields ==
    ASSUME NEW h, HeapInv(h)
    PROVE  /\ h.next \in [Nodes -> Nodes \cup {NULL}]
           /\ h.prev \in [Nodes -> Nodes \cup {NULL}]
           /\ h.container \in [Nodes -> ListIds \cup {NULL}]
           /\ h.value \in [Nodes -> Nat] /\ h.count \in [ListIds -> Nat]
           /\ h \in HeapType
BY DEF HeapInv, HeapType

LEMMA Neighbours ==
    ASSUME NEW h, HeapInv(h), NEW l \in ListIds, NEW s, IsRing(h, l, s),
           NEW i \in Items, h.container[i] = NULL, NEW p \in 1 .. Len(s) + 1,
           NEW a, NEW b, a = Place(s, l, p - 1), b = Place(s, l, p)
    PROVE  /\ a \in Nodes /\ b \in Nodes /\ i \in Nodes /\ a # i /\ b # i
           /\ h.container[a] = l /\ h.container[b] = l
           /\ h.next[a] = b /\ h.prev[b] = a
           /\ l # NULL /\ NULL \notin Nodes
<1>1. Len(s) \in Nat
  BY LenProperties DEF IsRing
<1>2. p - 1 \in 0 .. Len(s) /\ p - 1 \in 0 .. Len(s) + 1 /\ p \in 0 .. Len(s) + 1 /\ (p - 1) + 1 = p
  BY <1>1
<1>3. a \in Nodes /\ b \in Nodes /\ h.container[a] = l /\ h.container[b] = l
  BY <1>2, PlaceContainer
<1>4. /\ h.next[Place(s, l, p - 1)] = Place(s, l, (p - 1) + 1)
      /\ h.prev[Place(s, l, (p - 1) + 1)] = Place(s, l, p - 1)
  BY <1>2 DEF IsRing
<1>5. l # NULL /\ NULL \notin Nodes /\ i \in Nodes
  BY LinkedListAssumption DEF Nodes
<1> QED
  BY <1>2, <1>3, <1>4, <1>5

(* rtos_list_prepend before place p, and rtos_list_append after place      *)
(* p - 1, do the same splice, and their assertions hold.                   *)
LEMMA PrependSplices ==
    ASSUME NEW h, HeapInv(h), NEW l \in ListIds, NEW s, IsRing(h, l, s),
           NEW i \in Items, h.container[i] = NULL, NEW p \in 1 .. Len(s) + 1,
           NEW r, r = rtos_list_prepend(h, Place(s, l, p), i)
    PROVE  Spliced(r, h, l, i, Place(s, l, p - 1), Place(s, l, p))
<1>1. PICK a, b : a = Place(s, l, p - 1) /\ b = Place(s, l, p)
  OBVIOUS
<1>2. /\ a \in Nodes /\ b \in Nodes /\ i \in Nodes /\ a # i /\ b # i
      /\ h.container[a] = l /\ h.container[b] = l
      /\ h.next[a] = b /\ h.prev[b] = a
      /\ l # NULL /\ NULL \notin Nodes
  BY <1>1, Neighbours
<1>3. r = [h EXCEPT !.prev = [@ EXCEPT ![b] = i, ![i] = a],
                    !.next = [@ EXCEPT ![i] = b, ![a] = i],
                    !.container[i] = l,
                    !.count[l] = @ + 1]
  <2>1. a # NULL
    BY <1>2
  <2> QED
    BY <2>1, <1>1, <1>2 DEF rtos_list_prepend, Checked
<1>4. /\ h.next \in [Nodes -> Nodes \cup {NULL}] /\ h.prev \in [Nodes -> Nodes \cup {NULL}]
      /\ h.container \in [Nodes -> ListIds \cup {NULL}] /\ h.count \in [ListIds -> Nat]
      /\ h \in HeapType /\ ~h.failed
  BY HeapFields DEF HeapInv
<1>5. /\ r.prev = [h.prev EXCEPT ![b] = i, ![i] = a]
      /\ r.next = [h.next EXCEPT ![i] = b, ![a] = i]
      /\ r.container = [h.container EXCEPT ![i] = l]
      /\ r.count = [h.count EXCEPT ![l] = @ + 1]
      /\ r.value = h.value /\ r.failed = h.failed
  BY <1>3, <1>4 DEF HeapType
<1>6. r \in HeapType
  <2>1. /\ [h.prev EXCEPT ![b] = i, ![i] = a] \in [Nodes -> Nodes \cup {NULL}]
        /\ [h.next EXCEPT ![i] = b, ![a] = i] \in [Nodes -> Nodes \cup {NULL}]
        /\ [h.container EXCEPT ![i] = l] \in [Nodes -> ListIds \cup {NULL}]
        /\ [h.count EXCEPT ![l] = @ + 1] \in [ListIds -> Nat]
    BY <1>2, <1>4
  <2> QED
    BY <2>1, <1>3, <1>4 DEF HeapType
<1> QED
  BY <1>1, <1>2, <1>4, <1>5, <1>6 DEF Spliced

LEMMA AppendSplices ==
    ASSUME NEW h, HeapInv(h), NEW l \in ListIds, NEW s, IsRing(h, l, s),
           NEW i \in Items, h.container[i] = NULL, NEW p \in 1 .. Len(s) + 1,
           NEW r, r = rtos_list_append(h, Place(s, l, p - 1), i)
    PROVE  Spliced(r, h, l, i, Place(s, l, p - 1), Place(s, l, p))
<1>1. PICK a, b : a = Place(s, l, p - 1) /\ b = Place(s, l, p)
  OBVIOUS
<1>2. /\ a \in Nodes /\ b \in Nodes /\ i \in Nodes /\ a # i /\ b # i
      /\ h.container[a] = l /\ h.container[b] = l
      /\ h.next[a] = b /\ h.prev[b] = a
      /\ l # NULL /\ NULL \notin Nodes
  BY <1>1, Neighbours
<1>3. r = [h EXCEPT !.next = [@ EXCEPT ![a] = i, ![i] = b],
                    !.prev = [@ EXCEPT ![i] = a, ![b] = i],
                    !.container[i] = l,
                    !.count[l] = @ + 1]
  <2>1. b # NULL
    BY <1>2
  <2> QED
    BY <2>1, <1>1, <1>2 DEF rtos_list_append, Checked
<1>4. /\ h.next \in [Nodes -> Nodes \cup {NULL}] /\ h.prev \in [Nodes -> Nodes \cup {NULL}]
      /\ h.container \in [Nodes -> ListIds \cup {NULL}] /\ h.count \in [ListIds -> Nat]
      /\ h \in HeapType /\ ~h.failed
  BY HeapFields DEF HeapInv
<1>5. /\ r.prev = [h.prev EXCEPT ![i] = a, ![b] = i]
      /\ r.next = [h.next EXCEPT ![a] = i, ![i] = b]
      /\ r.container = [h.container EXCEPT ![i] = l]
      /\ r.count = [h.count EXCEPT ![l] = @ + 1]
      /\ r.value = h.value /\ r.failed = h.failed
  BY <1>3, <1>4 DEF HeapType
<1>6. r \in HeapType
  <2>1. /\ [h.prev EXCEPT ![i] = a, ![b] = i] \in [Nodes -> Nodes \cup {NULL}]
        /\ [h.next EXCEPT ![a] = i, ![i] = b] \in [Nodes -> Nodes \cup {NULL}]
        /\ [h.container EXCEPT ![i] = l] \in [Nodes -> ListIds \cup {NULL}]
        /\ [h.count EXCEPT ![l] = @ + 1] \in [ListIds -> Nat]
    BY <1>2, <1>4
  <2> QED
    BY <2>1, <1>3, <1>4 DEF HeapType
<1> QED
  BY <1>1, <1>2, <1>4, <1>5, <1>6 DEF Spliced

-----------------------------------------------------------------------------
(* rtos_list_remove drops its item from the sequence of its list, and its  *)
(* assertions hold.                                                        *)
LEMMA RemoveEffect ==
    ASSUME NEW h, HeapInv(h), NEW l \in ListIds, NEW s, IsRing(h, l, s),
           NEW p \in 1 .. Len(s), NEW i, i = s[p],
           NEW r, r = rtos_list_remove(h, i)
    PROVE  /\ HeapInv(r) /\ r.value = h.value
           /\ IsRing(r, l, L!RemoveAt(s, p))
           /\ \A m \in ListIds : \A q : m # l /\ IsRing(h, m, q) => IsRing(r, m, q)
<1> DEFINE a == Place(s, l, p - 1)
           b == Place(s, l, p + 1)
           z == L!RemoveAt(s, p)
<1>1. /\ s \in Seq(Items) /\ L!NoDuplicates(s) /\ h.count[l] = Len(s)
      /\ \A j \in Items : h.container[j] = l <=> L!In(s, j)
      /\ \A j \in 0 .. Len(s) : /\ h.next[Place(s, l, j)] = Place(s, l, j + 1)
                                /\ h.prev[Place(s, l, j + 1)] = Place(s, l, j)
  BY DEF IsRing
<1>2. /\ Len(s) \in Nat
      /\ \A j \in 1 .. Len(s) : s[j] \in Items /\ Place(s, l, j) = s[j]
      /\ Place(s, l, 0) = l /\ Place(s, l, Len(s) + 1) = l
      /\ \A j \in 0 .. Len(s) + 1 : Place(s, l, j) \in Nodes
      /\ \A j, k \in 0 .. Len(s) : Place(s, l, j) = Place(s, l, k) => j = k
      /\ \A j, k \in 1 .. Len(s) + 1 : Place(s, l, j) = Place(s, l, k) => j = k
      /\ \A j \in Items : L!In(s, j) <=> \E k \in 1 .. Len(s) : s[k] = j
  BY <1>1, PlaceFacts
<1>3. /\ l # NULL /\ l \notin Items /\ Items \subseteq Nodes /\ ListIds \subseteq Nodes
      /\ NULL \notin Nodes
  BY LinkedListAssumption DEF Nodes
<1>4. \A j \in 0 .. Len(s) + 1 : h.container[Place(s, l, j)] = l
  BY PlaceContainer
<1>5. /\ i \in Items /\ i \in Nodes /\ i \notin ListIds /\ i = Place(s, l, p)
      /\ p \in 0 .. Len(s) + 1 /\ p - 1 \in 0 .. Len(s) /\ p - 1 \in 0 .. Len(s) + 1
      /\ p + 1 \in 1 .. Len(s) + 1 /\ p + 1 \in 0 .. Len(s) + 1 /\ p \in 0 .. Len(s)
      /\ p \in 1 .. Len(s) + 1
      /\ p # p - 1 /\ p # p + 1 /\ (p - 1) + 1 = p /\ Len(s) > 0
  BY <1>2, LinkedListAssumption DEF Nodes
<1>6. /\ a \in Nodes /\ b \in Nodes /\ a # i /\ b # i
      /\ h.container[a] = l /\ h.container[b] = l /\ h.container[i] = l
      /\ h.next[a] = i /\ h.prev[i] = a /\ h.next[i] = b /\ h.prev[b] = i
  <2>1. a \in Nodes /\ b \in Nodes /\ a # i /\ b # i
    BY <1>2, <1>5
  <2>2. h.container[a] = l /\ h.container[b] = l /\ h.container[i] = l
    BY <1>4, <1>5
  <2>3. h.next[i] = b /\ h.prev[b] = i
    BY <1>1, <1>5
  <2>4. /\ h.next[Place(s, l, p - 1)] = Place(s, l, (p - 1) + 1)
        /\ h.prev[Place(s, l, (p - 1) + 1)] = Place(s, l, p - 1)
    BY <1>1, <1>5
  <2> QED
    BY <2>1, <2>2, <2>3, <2>4, <1>5
<1>7. /\ z \in Seq(Items) /\ Len(z) = Len(s) - 1
      /\ \A j \in 1 .. Len(s) - 1 : z[j] = IF j < p THEN s[j] ELSE s[j + 1]
  BY <1>1, L!RemoveAtProperties
<1> HIDE DEF z
<1>8. \A j \in 0 .. Len(s) :
         Place(z, l, j) = IF j < p THEN Place(s, l, j) ELSE Place(s, l, j + 1)
  <2> SUFFICES ASSUME NEW j \in 0 .. Len(s)
               PROVE  Place(z, l, j) = IF j < p THEN Place(s, l, j) ELSE Place(s, l, j + 1)
    OBVIOUS
  <2>1. CASE j = 0 \/ j = Len(s)
    <3>1. Place(z, l, j) = l
      BY <2>1, <1>2, <1>7 DEF Place
    <3>2. j = Len(s) => ~(j < p)
      BY <1>2
    <3>3. j = 0 => j < p
      BY <1>2
    <3> QED
      BY <2>1, <3>1, <3>2, <3>3, <1>2
  <2>2. CASE j \in 1 .. Len(s) - 1
    <3>1. Place(z, l, j) = z[j] /\ j \in 1 .. Len(s) /\ j + 1 \in 1 .. Len(s)
      BY <2>2, <1>2, <1>7 DEF Place
    <3> QED
      BY <2>2, <3>1, <1>2, <1>7
  <2> QED
    BY <2>1, <2>2, <1>2
<1> HIDE DEF a, b
<1>9. r = [h EXCEPT !.next = [@ EXCEPT ![a] = b, ![i] = NULL],
                    !.prev = [@ EXCEPT ![b] = a, ![i] = NULL],
                    !.count[l] = @ - 1,
                    !.container[i] = NULL]
  <2>1. /\ h.container[i] # NULL /\ h.next[i] # NULL /\ h.prev[i] # NULL
        /\ h.prev[h.next[i]] = i /\ h.next[h.prev[i]] = i
        /\ h.count[h.container[i]] > 0 /\ i \notin ListIds
    BY <1>1, <1>2, <1>3, <1>5, <1>6
  <2> QED
    BY <2>1, <1>6 DEF rtos_list_remove, Checked
<1>10. /\ h.next \in [Nodes -> Nodes \cup {NULL}] /\ h.prev \in [Nodes -> Nodes \cup {NULL}]
       /\ h.container \in [Nodes -> ListIds \cup {NULL}] /\ h.count \in [ListIds -> Nat]
       /\ h \in HeapType /\ ~h.failed
  BY HeapFields DEF HeapInv
<1>11. /\ r.next = [h.next EXCEPT ![a] = b, ![i] = NULL]
       /\ r.prev = [h.prev EXCEPT ![b] = a, ![i] = NULL]
       /\ r.count = [h.count EXCEPT ![l] = @ - 1]
       /\ r.container = [h.container EXCEPT ![i] = NULL]
       /\ r.value = h.value /\ r.failed = h.failed
  BY <1>9, <1>10 DEF HeapType
<1>12. r \in HeapType
  <2>1. h.count[l] - 1 \in Nat
    BY <1>1, <1>2, <1>5
  <2>2. /\ [h.next EXCEPT ![a] = b, ![i] = NULL] \in [Nodes -> Nodes \cup {NULL}]
        /\ [h.prev EXCEPT ![b] = a, ![i] = NULL] \in [Nodes -> Nodes \cup {NULL}]
        /\ [h.container EXCEPT ![i] = NULL] \in [Nodes -> ListIds \cup {NULL}]
        /\ [h.count EXCEPT ![l] = @ - 1] \in [ListIds -> Nat]
    BY <2>1, <1>6, <1>10
  <2> QED
    BY <2>2, <1>9, <1>10 DEF HeapType
<1>13. /\ r.next[a] = b /\ r.prev[b] = a /\ r.next[i] = NULL /\ r.prev[i] = NULL
       /\ \A n \in Nodes : /\ n \notin {a, i} => r.next[n] = h.next[n]
                           /\ n \notin {b, i} => r.prev[n] = h.prev[n]
                           /\ r.container[n] = IF n = i THEN NULL ELSE h.container[n]
       /\ r.count[l] = Len(s) - 1
       /\ \A m \in ListIds : m # l => r.count[m] = h.count[m]
  BY <1>1, <1>5, <1>6, <1>10, <1>11
<1>14. ASSUME NEW j \in 0 .. Len(s) - 1
       PROVE  /\ r.next[Place(z, l, j)] = Place(z, l, j + 1)
              /\ r.prev[Place(z, l, j + 1)] = Place(z, l, j)
  <2>1. j \in 0 .. Len(s) /\ j + 1 \in 0 .. Len(s) /\ j \in Int
    BY <1>2
  <2>2. CASE j < p - 1
    <3>1. /\ j < p /\ j + 1 < p /\ j \in 0 .. Len(s) /\ j + 1 \in 1 .. Len(s) + 1
          /\ j \in 0 .. Len(s) + 1 /\ j + 1 \in 0 .. Len(s) + 1
          /\ j # p - 1 /\ j # p /\ j + 1 # p /\ j + 1 # p + 1
      BY <2>1, <2>2, <1>2
    <3>2. Place(s, l, j) \notin {a, i} /\ Place(s, l, j + 1) \notin {b, i}
      BY <3>1, <1>2, <1>5 DEF a, b
    <3>3. Place(z, l, j) = Place(s, l, j) /\ Place(z, l, j + 1) = Place(s, l, j + 1)
      BY <2>1, <3>1, <1>8
    <3>4. /\ r.next[Place(s, l, j)] = h.next[Place(s, l, j)]
          /\ r.prev[Place(s, l, j + 1)] = h.prev[Place(s, l, j + 1)]
      BY <3>1, <3>2, <1>2, <1>13
    <3> QED
      BY <3>1, <3>3, <3>4, <1>1
  <2>3. CASE j = p - 1
    <3>1. j < p /\ ~(j + 1 < p) /\ (j + 1) + 1 = p + 1
      BY <2>3, <1>2
    <3>2. Place(z, l, j) = a /\ Place(z, l, j + 1) = b
      BY <2>1, <2>3, <3>1, <1>8 DEF a, b
    <3> QED
      BY <3>2, <1>13
  <2>4. CASE j > p - 1
    <3>1. /\ ~(j < p) /\ ~(j + 1 < p) /\ j + 1 \in 0 .. Len(s) /\ (j + 1) + 1 \in 1 .. Len(s) + 1
          /\ j + 1 \in 0 .. Len(s) + 1 /\ (j + 1) + 1 \in 0 .. Len(s) + 1
          /\ j + 1 # p - 1 /\ j + 1 # p /\ (j + 1) + 1 # p /\ (j + 1) + 1 # p + 1
      BY <2>1, <2>4, <1>2
    <3>2. Place(s, l, j + 1) \notin {a, i} /\ Place(s, l, (j + 1) + 1) \notin {b, i}
      BY <3>1, <1>2, <1>5 DEF a, b
    <3>3. Place(z, l, j) = Place(s, l, j + 1) /\ Place(z, l, j + 1) = Place(s, l, (j + 1) + 1)
      BY <2>1, <3>1, <1>8
    <3>4. /\ r.next[Place(s, l, j + 1)] = h.next[Place(s, l, j + 1)]
          /\ r.prev[Place(s, l, (j + 1) + 1)] = h.prev[Place(s, l, (j + 1) + 1)]
      BY <3>1, <3>2, <1>2, <1>13
    <3> QED
      BY <3>1, <3>3, <3>4, <1>1
  <2> QED
    BY <2>1, <2>2, <2>3, <2>4, <1>5
<1>15. IsRing(r, l, z)
  <2>1. DOMAIN z = 1 .. Len(s) - 1
    BY <1>7, LenProperties
  <2>2. ASSUME NEW j \in 1 .. Len(s) - 1
        PROVE  \E k \in 1 .. Len(s) : k = (IF j < p THEN j ELSE j + 1) /\ k # p /\ z[j] = s[k]
    BY <1>2, <1>7
  <2>3. L!NoDuplicates(z)
    <3> SUFFICES ASSUME NEW j \in 1 .. Len(s) - 1, NEW k \in 1 .. Len(s) - 1, z[j] = z[k]
                 PROVE  j = k
      BY <2>1 DEF L!NoDuplicates
    <3>1. PICK u \in 1 .. Len(s) : u = (IF j < p THEN j ELSE j + 1) /\ z[j] = s[u]
      BY <2>2
    <3>2. PICK v \in 1 .. Len(s) : v = (IF k < p THEN k ELSE k + 1) /\ z[k] = s[v]
      BY <2>2
    <3>3. u \in 0 .. Len(s) /\ v \in 0 .. Len(s) /\ Place(s, l, u) = Place(s, l, v)
      <4>1. s[u] = s[v]
        BY <3>1, <3>2
      <4> QED
        BY <4>1, <1>2
    <3>4. u = v
      BY <3>3, <1>2
    <3> QED
      BY <3>1, <3>2, <3>4, <1>2
  <2>4. \A n \in Items : L!In(z, n) <=> L!In(s, n) /\ n # i
    <3> SUFFICES ASSUME NEW n \in Items
                 PROVE  (\E j \in 1 .. Len(s) - 1 : z[j] = n) <=> L!In(s, n) /\ n # i
      BY <2>1 DEF L!In
    <3>1. ASSUME NEW j \in 1 .. Len(s) - 1, z[j] = n PROVE L!In(s, n) /\ n # i
      <4>1. PICK k \in 1 .. Len(s) : k # p /\ s[k] = n
        BY <3>1, <2>2
      <4>2. Place(s, l, k) = n /\ k \in 0 .. Len(s)
        BY <4>1, <1>2
      <4> QED
        BY <4>1, <4>2, <1>2, <1>5
    <3>2. ASSUME L!In(s, n), n # i PROVE \E j \in 1 .. Len(s) - 1 : z[j] = n
      <4>1. PICK k \in 1 .. Len(s) : s[k] = n
        BY <3>2, <1>2
      <4>2. k # p
        BY <4>1, <3>2
      <4>3. CASE k < p
        <5>1. k \in 1 .. Len(s) - 1 /\ z[k] = n
          BY <4>1, <4>3, <1>2, <1>7
        <5> QED
          BY <5>1
      <4>4. CASE k > p
        <5>1. k - 1 \in 1 .. Len(s) - 1 /\ ~(k - 1 < p) /\ (k - 1) + 1 = k
          BY <4>4, <1>2
        <5>2. z[k - 1] = n
          BY <4>1, <5>1, <1>7
        <5> QED
          BY <5>1, <5>2
      <4> QED
        BY <4>2, <4>3, <4>4
    <3> QED
      BY <3>1, <3>2
  <2>5. \A n \in Items : r.container[n] = l <=> L!In(z, n)
    BY <2>4, <1>1, <1>3, <1>13
  <2> QED
    BY <2>3, <2>5, <1>7, <1>13, <1>14 DEF IsRing
<1>16. ASSUME NEW m \in ListIds, NEW q, m # l, IsRing(h, m, q) PROVE IsRing(r, m, q)
  <2>1. \A n \in Nodes : h.container[n] = m => r.next[n] = h.next[n] /\ r.prev[n] = h.prev[n]
    BY <1>6, <1>13, <1>16
  <2> QED
    BY <2>1, <1>5, <1>6, <1>13, <1>16, OtherRing
<1>17. HeapInv(r)
  <2>1. \A m \in ListIds : \E q : IsRing(r, m, q)
    BY <1>15, <1>16 DEF HeapInv
  <2>2. \A n \in Items : r.container[n] = NULL => r.next[n] = NULL /\ r.prev[n] = NULL
    <3> SUFFICES ASSUME NEW n \in Items, r.container[n] = NULL
                 PROVE  r.next[n] = NULL /\ r.prev[n] = NULL
      OBVIOUS
    <3>1. n # i => h.container[n] = NULL /\ h.next[n] = NULL /\ h.prev[n] = NULL
      BY <1>3, <1>13 DEF HeapInv
    <3>2. n # i => n \notin {a, b}
      BY <3>1, <1>3, <1>6
    <3> QED
      BY <3>1, <3>2, <1>3, <1>13
  <2>3. \A m \in ListIds : r.container[m] = m
    <3>1. \A m \in ListIds : m # i /\ h.container[m] = m
      BY <1>5 DEF HeapInv
    <3> QED
      BY <3>1, <1>3, <1>13
  <2> QED
    BY <2>1, <2>2, <2>3, <1>10, <1>11, <1>12 DEF HeapInv
<1> QED
  BY <1>11, <1>15, <1>16, <1>17 DEF z

-----------------------------------------------------------------------------
(* Walk is well defined and follows the links. *)
LEMMA WalkLinks ==
    ASSUME NEW link, NEW l, Cardinality(Nodes) \in Nat
    PROVE  /\ Walk(link, l)[0] = l
           /\ \A j \in 1 .. Cardinality(Nodes) :
                 Walk(link, l)[j] = IF Walk(link, l)[j - 1] = NULL THEN NULL
                                    ELSE link[Walk(link, l)[j - 1]]
<1> DEFINE N == Cardinality(Nodes)
           Step(f, n) == IF n = 0 THEN l ELSE IF f[n - 1] = NULL THEN NULL ELSE link[f[n - 1]]
           Upto(f, m) == f = [n \in 0 .. m |-> Step(f, n)]
<1>1. \A m \in 0 .. N : \E f : Upto(f, m)
  <2> DEFINE Bad == {m \in 0 .. N : ~ \E f : Upto(f, m)}
  <2> SUFFICES ASSUME Bad # {} PROVE FALSE
    OBVIOUS
  <2>1. PICK m \in Bad : \A x \in Bad : m <= x
    <3>1. Bad \in SUBSET Nat
      OBVIOUS
    <3> HIDE DEF Bad
    <3> QED
      BY <3>1, L!LeastElement
  <2>2. m # 0
    <3> DEFINE f == [n \in 0 .. 0 |-> l]
    <3>1. Upto(f, 0)
      OBVIOUS
    <3> QED
      BY <3>1
  <2>3. m \in 0 .. N /\ m - 1 \in 0 .. N /\ m - 1 \notin Bad
    <3>1. m \in 0 .. N
      OBVIOUS
    <3> HIDE DEF Bad
    <3> QED
      BY <3>1, <2>1, <2>2
  <2>4. PICK f : Upto(f, m - 1)
    BY <2>3
  <2> DEFINE g == [n \in 0 .. m |-> IF n = m THEN Step(f, m) ELSE f[n]]
  <2>5. \A n \in 0 .. m - 1 : f[n] = Step(f, n)
    BY <2>4
  <2>6. \A n \in 0 .. m : g[n] = IF n = m THEN Step(f, m) ELSE f[n]
    OBVIOUS
  <2>7. ASSUME NEW n \in 0 .. m PROVE g[n] = Step(g, n)
    <3>1. CASE n = 0
      BY <3>1, <2>2, <2>3, <2>5, <2>6
    <3>2. CASE n # 0
      <4>1. n - 1 \in 0 .. m - 1 /\ n - 1 \in 0 .. m /\ n - 1 # m
        BY <3>2, <2>3
      <4>2. g[n - 1] = f[n - 1]
        BY <4>1, <2>6
      <4>3. CASE n = m
        BY <4>2, <4>3, <3>2, <2>6
      <4>4. CASE n # m
        <5>1. n \in 0 .. m - 1
          BY <4>4, <2>3
        <5> QED
          BY <5>1, <4>2, <4>4, <3>2, <2>5, <2>6
      <4> QED
        BY <4>3, <4>4
    <3> QED
      BY <3>1, <3>2
  <2>8. g = [n \in 0 .. m |-> g[n]]
    OBVIOUS
  <2> HIDE DEF g
  <2>9. Upto(g, m)
    BY <2>7, <2>8
  <2> QED
    BY <2>1, <2>9
<1>2. PICK f : Upto(f, N) /\ Walk(link, l) = f
  <2>1. \E f : f = [i \in 0 .. Cardinality(Nodes) |->
                       IF i = 0 THEN l ELSE IF f[i - 1] = NULL THEN NULL ELSE link[f[i - 1]]]
    BY <1>1
  <2>2. \E f : /\ f = [i \in 0 .. Cardinality(Nodes) |->
                          IF i = 0 THEN l ELSE IF f[i - 1] = NULL THEN NULL ELSE link[f[i - 1]]]
               /\ Walk(link, l) = f
    BY <2>1 DEF Walk
  <2> QED
    BY <2>2
<1>3. \A n \in 0 .. N : f[n] = Step(f, n)
  BY <1>2
<1>4. 0 \in 0 .. N /\ \A j \in 1 .. N : j \in 0 .. N /\ j # 0
  OBVIOUS
<1> QED
  BY <1>2, <1>3, <1>4

(* A walk that agrees with g at the start and step by step agrees with it. *)
LEMMA WalkFollows ==
    ASSUME NEW link, NEW l, Cardinality(Nodes) \in Nat, NEW n \in 0 .. Cardinality(Nodes),
           NEW g, g[0] = l,
           \A j \in 1 .. n : g[j - 1] # NULL /\ g[j] = link[g[j - 1]]
    PROVE  \A j \in 0 .. n : Walk(link, l)[j] = g[j]
<1> DEFINE W == Walk(link, l)
           Bad == {j \in 0 .. n : W[j] # g[j]}
<1>1. /\ W[0] = l
      /\ \A j \in 1 .. Cardinality(Nodes) :
            W[j] = IF W[j - 1] = NULL THEN NULL ELSE link[W[j - 1]]
  BY WalkLinks
<1> HIDE DEF W
<1> SUFFICES ASSUME Bad # {} PROVE FALSE
  BY DEF W
<1>2. PICK m \in Bad : \A x \in Bad : m <= x
  <2>1. Bad \in SUBSET Nat
    OBVIOUS
  <2> HIDE DEF Bad
  <2> QED
    BY <2>1, L!LeastElement
<1>3. m \in 1 .. n /\ m \in 1 .. Cardinality(Nodes) /\ m - 1 \in 0 .. n /\ ~(m <= m - 1)
  <2>1. m \in 0 .. n /\ m # 0
    BY <1>1
  <2> HIDE DEF Bad
  <2> QED
    BY <2>1
<1>4. W[m - 1] = g[m - 1]
  BY <1>2, <1>3
<1> QED
  BY <1>1, <1>3, <1>4

(* A scan stops at the first place where it may. *)
LEMMA ScanAt ==
    ASSUME NEW link, NEW l, NEW passed, Cardinality(Nodes) \in Nat,
           NEW q \in 1 .. Cardinality(Nodes),
           Walk(link, l)[q] = l \/ Walk(link, l)[q] \notin passed,
           \A j \in 1 .. q - 1 : Walk(link, l)[j] # l /\ Walk(link, l)[j] \in passed
    PROVE  ScanStop(link, l, passed) = Walk(link, l)[q]
<1> DEFINE stops(i) == Walk(link, l)[i] = l \/ Walk(link, l)[i] \notin passed
           first(i) == stops(i) /\ \A j \in 1 .. i - 1 : ~stops(j)
<1>1. first(q)
  OBVIOUS
<1>2. ASSUME NEW i \in 1 .. Cardinality(Nodes), first(i) PROVE i = q
  <2>1. stops(i) /\ stops(q) /\ \A j \in 1 .. i - 1 : ~stops(j)
    BY <1>1, <1>2
  <2>2. \A j \in 1 .. q - 1 : ~stops(j)
    BY <1>1
  <2> HIDE DEF stops
  <2>3. i \notin 1 .. q - 1 /\ q \notin 1 .. i - 1
    BY <2>1, <2>2
  <2> QED
    BY <2>3
<1>3. (CHOOSE i \in 1 .. Cardinality(Nodes) : first(i)) = q
  <2> HIDE DEF first
  <2> QED
    BY <1>1, <1>2
<1> QED
  BY <1>3 DEF ScanStop

-----------------------------------------------------------------------------
(* Both directions visit the places of a ring in order. *)
LEMMA WalkRing ==
    ASSUME NEW h, HeapInv(h), NEW l \in ListIds, NEW s, IsRing(h, l, s)
    PROVE  /\ Len(s) + 1 \in 0 .. Cardinality(Nodes) /\ Cardinality(Nodes) \in Nat
           /\ \A j \in 0 .. Len(s) + 1 :
                 /\ Walk(h.next, l)[j] = Place(s, l, j)
                 /\ Walk(h.prev, l)[j] = Place(s, l, Len(s) + 1 - j)
<1>1. /\ s \in Seq(Items) /\ L!NoDuplicates(s)
      /\ \A j \in 0 .. Len(s) : /\ h.next[Place(s, l, j)] = Place(s, l, j + 1)
                                /\ h.prev[Place(s, l, j + 1)] = Place(s, l, j)
  BY DEF IsRing
<1>2. /\ Len(s) \in Nat /\ Place(s, l, 0) = l /\ Place(s, l, Len(s) + 1) = l
      /\ \A j \in 0 .. Len(s) + 1 : Place(s, l, j) \in Nodes
  BY <1>1, PlaceFacts
<1>3. Cardinality(Nodes) \in Nat /\ Len(s) + 1 \in 0 .. Cardinality(Nodes)
  <2>1. Cardinality(Nodes) \in Nat /\ Len(s) + 1 <= Cardinality(Nodes)
    BY <1>1, RingLength
  <2> QED
    BY <2>1, <1>2
<1>4. NULL \notin Nodes
  BY LinkedListAssumption DEF Nodes
<1>5. \A j \in 0 .. Len(s) + 1 : Walk(h.next, l)[j] = Place(s, l, j)
  <2> DEFINE g == [j \in 0 .. Len(s) + 1 |-> Place(s, l, j)]
  <2>1. \A j \in 0 .. Len(s) + 1 : g[j] = Place(s, l, j)
    OBVIOUS
  <2> HIDE DEF g
  <2>2. g[0] = l
    BY <2>1, <1>2
  <2>3. ASSUME NEW j \in 1 .. Len(s) + 1 PROVE g[j - 1] # NULL /\ g[j] = h.next[g[j - 1]]
    <3>1. /\ j - 1 \in 0 .. Len(s) /\ j - 1 \in 0 .. Len(s) + 1 /\ j \in 0 .. Len(s) + 1
          /\ (j - 1) + 1 = j
      BY <1>2
    <3>2. h.next[Place(s, l, j - 1)] = Place(s, l, (j - 1) + 1)
      BY <3>1, <1>1
    <3> QED
      BY <3>1, <3>2, <2>1, <1>2, <1>4
  <2>4. \A j \in 0 .. Len(s) + 1 : Walk(h.next, l)[j] = g[j]
    BY <2>2, <2>3, <1>3, WalkFollows, SMTT(40)
  <2> QED
    BY <2>1, <2>4
<1>6. \A j \in 0 .. Len(s) + 1 : Walk(h.prev, l)[j] = Place(s, l, Len(s) + 1 - j)
  <2> DEFINE g == [j \in 0 .. Len(s) + 1 |-> Place(s, l, Len(s) + 1 - j)]
  <2>1. \A j \in 0 .. Len(s) + 1 : g[j] = Place(s, l, Len(s) + 1 - j)
    OBVIOUS
  <2> HIDE DEF g
  <2>2. g[0] = l
    <3>1. 0 \in 0 .. Len(s) + 1 /\ Len(s) + 1 - 0 = Len(s) + 1
      BY <1>2
    <3> QED
      BY <3>1, <2>1, <1>2
  <2>3. ASSUME NEW j \in 1 .. Len(s) + 1 PROVE g[j - 1] # NULL /\ g[j] = h.prev[g[j - 1]]
    <3>1. /\ j - 1 \in 0 .. Len(s) + 1 /\ j \in 0 .. Len(s) + 1
          /\ Len(s) + 1 - j \in 0 .. Len(s) /\ Len(s) + 1 - (j - 1) \in 0 .. Len(s) + 1
          /\ (Len(s) + 1 - j) + 1 = Len(s) + 1 - (j - 1)
      BY <1>2
    <3>2. h.prev[Place(s, l, (Len(s) + 1 - j) + 1)] = Place(s, l, Len(s) + 1 - j)
      BY <3>1, <1>1
    <3>3. g[j - 1] = Place(s, l, Len(s) + 1 - (j - 1)) /\ g[j] = Place(s, l, Len(s) + 1 - j)
      BY <3>1, <2>1
    <3> QED
      BY <3>1, <3>2, <3>3, <1>2, <1>4
  <2>4. \A j \in 0 .. Len(s) + 1 : Walk(h.prev, l)[j] = g[j]
    BY <2>2, <2>3, <1>3, WalkFollows, SMTT(40)
  <2> QED
    BY <2>1, <2>4
<1> QED
  BY <1>3, <1>5, <1>6

(* Where the scans of the sorted insertions stop in the sequence. *)
LEMMA ForwardScan ==
    ASSUME NEW h, HeapInv(h), NEW l \in ListIds, NEW s, IsRing(h, l, s), NEW passed,
           NEW p \in 1 .. Len(s) + 1,
           \A j \in 1 .. Len(s) : j < p => s[j] \in passed, p = Len(s) + 1 \/ s[p] \notin passed
    PROVE  ScanStop(h.next, l, passed) = Place(s, l, p)
<1>1. s \in Seq(Items) /\ L!NoDuplicates(s)
  BY DEF IsRing
<1>2. /\ Len(s) \in Nat /\ Place(s, l, Len(s) + 1) = l
      /\ \A j \in 1 .. Len(s) : s[j] \in Items /\ Place(s, l, j) = s[j]
  BY <1>1, PlaceFacts
<1>3. /\ Len(s) + 1 \in 0 .. Cardinality(Nodes) /\ Cardinality(Nodes) \in Nat
      /\ \A j \in 0 .. Len(s) + 1 : Walk(h.next, l)[j] = Place(s, l, j)
  BY WalkRing
<1>4. p \in 1 .. Cardinality(Nodes) /\ p \in 0 .. Len(s) + 1
  BY <1>2, <1>3
<1>5. Walk(h.next, l)[p] = l \/ Walk(h.next, l)[p] \notin passed
  <2>1. p = Len(s) + 1 \/ (p \in 1 .. Len(s) /\ p <= Len(s))
    BY <1>2
  <2> QED
    BY <2>1, <1>2, <1>3, <1>4
<1>6. ASSUME NEW j \in 1 .. p - 1 PROVE Walk(h.next, l)[j] # l /\ Walk(h.next, l)[j] \in passed
  <2>1. j \in 1 .. Len(s) /\ j \in 0 .. Len(s) + 1
    BY <1>2
  <2> QED
    BY <2>1, <1>2, <1>3, LinkedListAssumption
<1> QED
  BY <1>3, <1>4, <1>5, <1>6, ScanAt

LEMMA BackwardScan ==
    ASSUME NEW h, HeapInv(h), NEW l \in ListIds, NEW s, IsRing(h, l, s), NEW passed,
           NEW p \in 0 .. Len(s),
           \A j \in p + 1 .. Len(s) : s[j] \in passed, p > 0 => s[p] \notin passed
    PROVE  ScanStop(h.prev, l, passed) = Place(s, l, p)
<1>1. s \in Seq(Items) /\ L!NoDuplicates(s)
  BY DEF IsRing
<1>2. /\ Len(s) \in Nat /\ Place(s, l, 0) = l
      /\ \A j \in 1 .. Len(s) : s[j] \in Items /\ Place(s, l, j) = s[j]
  BY <1>1, PlaceFacts
<1>3. /\ Len(s) + 1 \in 0 .. Cardinality(Nodes) /\ Cardinality(Nodes) \in Nat
      /\ \A j \in 0 .. Len(s) + 1 : Walk(h.prev, l)[j] = Place(s, l, Len(s) + 1 - j)
  BY WalkRing
<1>4. PICK q : q = Len(s) + 1 - p
  OBVIOUS
<1>5. q \in 1 .. Cardinality(Nodes) /\ q \in 0 .. Len(s) + 1 /\ Len(s) + 1 - q = p
  BY <1>2, <1>3, <1>4
<1>6. Walk(h.prev, l)[q] = Place(s, l, p)
  BY <1>3, <1>5
<1>7. Walk(h.prev, l)[q] = l \/ Walk(h.prev, l)[q] \notin passed
  <2>1. p = 0 \/ (p \in 1 .. Len(s) /\ p > 0)
    BY <1>2
  <2> QED
    BY <2>1, <1>2, <1>6
<1>8. ASSUME NEW j \in 1 .. q - 1 PROVE Walk(h.prev, l)[j] # l /\ Walk(h.prev, l)[j] \in passed
  <2>1. /\ j \in 0 .. Len(s) + 1 /\ Len(s) + 1 - j \in 1 .. Len(s)
        /\ Len(s) + 1 - j \in p + 1 .. Len(s)
    BY <1>2, <1>4
  <2>2. Walk(h.prev, l)[j] = s[Len(s) + 1 - j] /\ s[Len(s) + 1 - j] \in Items
    BY <2>1, <1>2, <1>3
  <2> QED
    BY <2>1, <2>2, LinkedListAssumption
<1> QED
  BY <1>3, <1>5, <1>6, <1>7, <1>8, ScanAt

(* The sequence of a ring is what Forward reads from it. *)
LEMMA ReadRing ==
    ASSUME NEW h, HeapInv(h), NEW l \in ListIds, NEW s, IsRing(h, l, s)
    PROVE  [j \in 1 .. h.count[l] |-> Walk(h.next, l)[j]] = s
<1>1. s \in Seq(Items) /\ L!NoDuplicates(s) /\ h.count[l] = Len(s)
  BY DEF IsRing
<1>2. Len(s) \in Nat /\ \A j \in 1 .. Len(s) : Place(s, l, j) = s[j]
  BY <1>1, PlaceFacts
<1>3. \A j \in 1 .. Len(s) : Walk(h.next, l)[j] = s[j]
  <2>1. \A j \in 1 .. Len(s) : j \in 0 .. Len(s) + 1
    BY <1>2
  <2> QED
    BY <2>1, <1>2, WalkRing
<1>4. s = [j \in 1 .. Len(s) |-> s[j]]
  BY <1>1, LenProperties
<1> QED
  BY <1>1, <1>3, <1>4

-----------------------------------------------------------------------------
(* A function of list.c that changes the list l, to hold z. *)
Changed(r, h, l, z) ==
    /\ HeapInv(r) /\ r.value = h.value
    /\ IsRing(r, l, z)
    /\ \A m \in ListIds : \A q : m # l /\ IsRing(h, m, q) => IsRing(r, m, q)

ValueOf(h) == [i \in Items |-> h.value[i]]

LEMMA InsertEndEffect ==
    ASSUME NEW h, HeapInv(h), NEW l \in ListIds, NEW s, IsRing(h, l, s),
           NEW i \in Items, h.container[i] = NULL
    PROVE  Changed(rtos_list_insert_end(h, l, i), h, l, L!rtos_list_insert_end(s, i))
<1>1. s \in Seq(Items) /\ L!NoDuplicates(s)
  BY DEF IsRing
<1>2. Len(s) \in Nat /\ Place(s, l, Len(s) + 1) = l
  BY <1>1, PlaceFacts
<1>3. PICK p : p = Len(s) + 1
  OBVIOUS
<1>4. p \in 1 .. Len(s) + 1 /\ Place(s, l, p) = l
  BY <1>2, <1>3
<1>5. L!rtos_list_insert_end(s, i) = L!InsertAt(s, p, i)
  BY <1>1, <1>3, L!InsertEndIsInsertAt
<1>6. PICK r : r = rtos_list_prepend(h, Place(s, l, p), i)
  OBVIOUS
<1>7. rtos_list_insert_end(h, l, i) = r
  BY <1>4, <1>6 DEF rtos_list_insert_end
<1>8. Spliced(r, h, l, i, Place(s, l, p - 1), Place(s, l, p))
  BY <1>4, <1>6, PrependSplices
<1>9. Changed(r, h, l, L!InsertAt(s, p, i))
  <2>1. r.value = h.value
    BY <1>8 DEF Spliced
  <2> QED
    BY <2>1, <1>4, <1>8, SpliceEffect DEF Changed
<1> QED
  BY <1>5, <1>7, <1>9

LEMMA InsertSortedEffect ==
    ASSUME NEW h, HeapInv(h), NEW l \in ListIds, NEW s, IsRing(h, l, s),
           NEW i \in Items, h.container[i] = NULL
    PROVE  Changed(rtos_list_insert_sorted(h, l, i), h, l,
                   L!rtos_list_insert_sorted(s, i, ValueOf(h)))
<1>1. s \in Seq(Items) /\ L!NoDuplicates(s)
  BY DEF IsRing
<1>2. Len(s) \in Nat /\ \A j \in 1 .. Len(s) : s[j] \in Items
  BY <1>1, PlaceFacts
<1>3. PICK val : val = ValueOf(h)
  OBVIOUS
<1>4. val \in [Items -> Nat] /\ \A n \in Items : val[n] = h.value[n] /\ val[n] \in Nat
  BY <1>3, HeapFields DEF ValueOf, Nodes
<1>5. PICK p : p = L!SortedStop(s, val, val[i])
  OBVIOUS
<1>6. /\ p \in 1 .. Len(s) + 1
      /\ \A j \in 1 .. p - 1 : val[s[j]] <= val[i]
      /\ p <= Len(s) => val[s[p]] > val[i]
  BY <1>1, <1>4, <1>5, L!SortedStopProperties
<1>7. PICK passed : passed = {n \in Items : h.value[n] <= h.value[i]}
  OBVIOUS
<1>8. /\ \A j \in 1 .. Len(s) : j < p => s[j] \in passed
      /\ p = Len(s) + 1 \/ s[p] \notin passed
  <2>1. \A j \in 1 .. Len(s) : j < p => j \in 1 .. p - 1
    BY <1>2, <1>6
  <2>2. p <= Len(s) => p \in 1 .. Len(s)
    BY <1>2, <1>6
  <2>3. p <= Len(s) => ~(val[s[p]] <= val[i])
    BY <2>2, <1>2, <1>4, <1>6
  <2>4. p = Len(s) + 1 \/ p <= Len(s)
    BY <1>2, <1>6
  <2> QED
    BY <2>1, <2>2, <2>3, <2>4, <1>2, <1>4, <1>6, <1>7
<1>9. ScanStop(h.next, l, passed) = Place(s, l, p)
  <2>1. p \in 1 .. Len(s) + 1
    BY <1>6
  <2>2. \A j \in 1 .. Len(s) : j < p => s[j] \in passed
    BY <1>8
  <2>3. p = Len(s) + 1 \/ s[p] \notin passed
    BY <1>8
  <2> QED
    BY ONLY HeapInv(h), l \in ListIds, IsRing(h, l, s), <2>1, <2>2, <2>3, ForwardScan
<1>10. PICK r : r = rtos_list_prepend(h, Place(s, l, p), i)
  OBVIOUS
<1>11. rtos_list_insert_sorted(h, l, i) = r
  BY <1>7, <1>9, <1>10 DEF rtos_list_insert_sorted
<1>12. Spliced(r, h, l, i, Place(s, l, p - 1), Place(s, l, p))
  BY <1>6, <1>10, PrependSplices
<1>13. Changed(r, h, l, L!InsertAt(s, p, i))
  <2>1. r.value = h.value
    BY <1>12 DEF Spliced
  <2> QED
    BY <2>1, <1>6, <1>12, SpliceEffect DEF Changed
<1> QED
  BY <1>3, <1>5, <1>11, <1>13 DEF L!rtos_list_insert_sorted

LEMMA InsertReversedEffect ==
    ASSUME NEW h, HeapInv(h), NEW l \in ListIds, NEW s, IsRing(h, l, s),
           NEW i \in Items, h.container[i] = NULL
    PROVE  Changed(rtos_list_insert_reversed_sorted(h, l, i), h, l,
                   L!rtos_list_insert_reversed_sorted(s, i, ValueOf(h)))
<1>1. s \in Seq(Items) /\ L!NoDuplicates(s)
  BY DEF IsRing
<1>2. Len(s) \in Nat /\ \A j \in 1 .. Len(s) : s[j] \in Items
  BY <1>1, PlaceFacts
<1>3. PICK val : val = ValueOf(h)
  OBVIOUS
<1>4. val \in [Items -> Nat] /\ \A n \in Items : val[n] = h.value[n] /\ val[n] \in Nat
  BY <1>3, HeapFields DEF ValueOf, Nodes
<1>5. PICK p : p = L!ReversedStop(s, val, val[i])
  OBVIOUS
<1>6. /\ p \in 0 .. Len(s)
      /\ \A j \in p + 1 .. Len(s) : val[i] > val[s[j]]
      /\ p > 0 => val[s[p]] >= val[i]
  BY <1>1, <1>4, <1>5, L!ReversedStopProperties
<1>7. PICK passed : passed = {n \in Items : h.value[i] > h.value[n]}
  OBVIOUS
<1>8. /\ \A j \in p + 1 .. Len(s) : s[j] \in passed
      /\ p > 0 => s[p] \notin passed
  <2>1. \A j \in p + 1 .. Len(s) : j \in 1 .. Len(s)
    BY <1>2, <1>6
  <2>2. p > 0 => p \in 1 .. Len(s)
    BY <1>2, <1>6
  <2>3. p > 0 => ~(val[i] > val[s[p]])
    BY <2>2, <1>2, <1>4, <1>6
  <2> QED
    BY <2>1, <2>2, <2>3, <1>2, <1>4, <1>6, <1>7
<1>9. ScanStop(h.prev, l, passed) = Place(s, l, p)
  BY <1>6, <1>8, BackwardScan
<1>10. PICK u : u = p + 1
  OBVIOUS
<1>11. u \in 1 .. Len(s) + 1 /\ u - 1 = p
  BY <1>2, <1>6, <1>10
<1>12. PICK r : r = rtos_list_append(h, Place(s, l, u - 1), i)
  OBVIOUS
<1>13. rtos_list_insert_reversed_sorted(h, l, i) = r
  BY <1>7, <1>9, <1>11, <1>12 DEF rtos_list_insert_reversed_sorted
<1>14. Spliced(r, h, l, i, Place(s, l, u - 1), Place(s, l, u))
  BY <1>11, <1>12, AppendSplices
<1>15. Changed(r, h, l, L!InsertAt(s, u, i))
  <2>1. r.value = h.value
    BY <1>14 DEF Spliced
  <2> QED
    BY <2>1, <1>11, <1>14, SpliceEffect DEF Changed
<1> QED
  BY <1>3, <1>5, <1>10, <1>13, <1>15 DEF L!rtos_list_insert_reversed_sorted

LEMMA RemovalEffect ==
    ASSUME NEW h, HeapInv(h), NEW l \in ListIds, NEW s, IsRing(h, l, s),
           NEW i \in Items, h.container[i] = l
    PROVE  Changed(rtos_list_remove(h, i), h, l, L!rtos_list_remove(s, i))
<1>1. s \in Seq(Items) /\ L!In(s, i)
  BY DEF IsRing
<1>2. PICK p : p = L!IndexOf(s, i)
  OBVIOUS
<1>3. p \in 1 .. Len(s) /\ s[p] = i
  BY <1>1, <1>2, L!IndexOfProperties DEF L!In
<1>4. Changed(rtos_list_remove(h, i), h, l, L!RemoveAt(s, p))
  BY <1>3, RemoveEffect DEF Changed
<1> QED
  BY <1>2, <1>4 DEF L!rtos_list_remove

-----------------------------------------------------------------------------
(* A step of list.c is a step of the sequences. *)
LEMMA ChangedSequence ==
    ASSUME HeapInv(heap), NEW l \in ListIds, NEW s, IsRing(heap, l, s),
           NEW z, Changed(heap', heap, l, z)
    PROVE  /\ Forward(l) = s
           /\ [m \in ListIds |-> Forward(m)]' = [[m \in ListIds |-> Forward(m)] EXCEPT ![l] = z]
           /\ [i \in Items |-> heap.value[i]]' = [i \in Items |-> heap.value[i]]
<1>1. HeapInv(heap') /\ IsRing(heap', l, z) /\ heap'.value = heap.value
  BY DEF Changed
<1>2. Forward(l) = s
  BY ReadRing DEF Forward
<1>3. Forward(l)' = z
  BY <1>1, ReadRing DEF Forward
<1>4. ASSUME NEW m \in ListIds, m # l PROVE Forward(m)' = Forward(m)
  <2>1. PICK q : IsRing(heap, m, q)
    BY DEF HeapInv
  <2>2. IsRing(heap', m, q)
    BY <2>1, <1>4 DEF Changed
  <2>3. Forward(m) = q
    BY <2>1, ReadRing DEF Forward
  <2>4. Forward(m)' = q
    BY <2>2, <1>1, ReadRing DEF Forward
  <2> QED
    BY <2>3, <2>4
<1> QED
  BY <1>1, <1>2, <1>3, <1>4

LEMMA SetValueStep ==
    ASSUME HeapInv(heap), NEW i \in Items, NEW v \in Values, SetValue(i, v)
    PROVE  HeapInv(heap') /\ Sequence!SetValue(i, v)
<1>1. /\ heap' = [heap EXCEPT !.value[i] = v] /\ call' = call /\ heap.container[i] = NULL
      /\ heap \in HeapType /\ v \in Nat /\ i \in Nodes
  BY LinkedListAssumption DEF SetValue, HeapInv, Nodes
<1>2. /\ heap' \in HeapType
      /\ heap'.next = heap.next /\ heap'.prev = heap.prev /\ heap'.container = heap.container
      /\ heap'.count = heap.count /\ heap'.failed = heap.failed
      /\ heap'.value = [heap.value EXCEPT ![i] = v]
  BY <1>1 DEF HeapType
<1>3. HeapInv(heap')
  <2>1. \A l : \A s : IsRing(heap, l, s) => IsRing(heap', l, s)
    BY <1>2 DEF IsRing
  <2> QED
    BY <2>1, <1>2 DEF HeapInv
<1>4. \A l : Forward(l)' = Forward(l)
  BY <1>2 DEF Forward
<1>5. [n \in Items |-> heap.value[n]]' = [[n \in Items |-> heap.value[n]] EXCEPT ![i] = v]
  <2>1. heap.value \in [Nodes -> Nat] /\ Items \subseteq Nodes
    BY HeapFields DEF Nodes
  <2>2. \A n \in Items : heap'.value[n] = IF n = i THEN v ELSE heap.value[n]
    BY <2>1, <1>2
  <2> QED
    BY <2>2
<1>6. ASSUME NEW l \in ListIds PROVE ~L!In(Forward(l), i)
  <2>1. PICK s : IsRing(heap, l, s)
    BY DEF HeapInv
  <2>2. Forward(l) = s
    BY <2>1, ReadRing DEF Forward
  <2> QED
    BY <2>1, <2>2, <1>1, LinkedListAssumption DEF IsRing
<1> QED
  BY <1>1, <1>3, <1>4, <1>5, <1>6
     DEF Sequence!SetValue, Sequence!Detached, Sequence!In, L!In

LEMMA InsertStep ==
    ASSUME HeapInv(heap), NEW l \in ListIds, NEW i \in Items, Insert(l, i)
    PROVE  HeapInv(heap') /\ Sequence!Insert(l, i)
<1>1. heap.container[i] = NULL
  BY DEF Insert
<1>2. PICK s : IsRing(heap, l, s)
  BY DEF HeapInv
<1>3. Forward(l) = s
  BY <1>2, ReadRing DEF Forward
<1>4. ASSUME NEW m \in ListIds PROVE ~Sequence!In(Forward(m), i)
  <2>1. PICK q : IsRing(heap, m, q)
    BY DEF HeapInv
  <2>2. Forward(m) = q
    BY <2>1, ReadRing DEF Forward
  <2>3. ~L!In(q, i)
    BY <2>1, <1>1, LinkedListAssumption DEF IsRing
  <2> QED
    BY <2>2, <2>3 DEF Sequence!In, L!In
<1>5. Sequence!Detached(i)
  BY <1>4 DEF Sequence!Detached
<1>6. CASE heap' = rtos_list_insert_end(heap, l, i) /\ call' = <<"insert_end", i>>
  <2>1. PICK z : z = L!rtos_list_insert_end(s, i)
    OBVIOUS
  <2>2. Changed(heap', heap, l, z)
    BY <2>1, <1>1, <1>2, <1>6, InsertEndEffect
  <2>3. z = Sequence!rtos_list_insert_end(Forward(l), i)
    BY <2>1, <1>3 DEF L!rtos_list_insert_end, Sequence!rtos_list_insert_end
  <2>4. Sequence!Change(l, i, "insert_end", Sequence!rtos_list_insert_end(Forward(l), i))
    BY <2>2, <2>3, <1>2, <1>6, ChangedSequence DEF Sequence!Change
  <2> QED
    BY <2>2, <2>4, <1>5 DEF Changed, Sequence!Insert
<1>7. CASE heap' = rtos_list_insert_sorted(heap, l, i) /\ call' = <<"insert_sorted", i>>
  <2>1. PICK z : z = L!rtos_list_insert_sorted(s, i, ValueOf(heap))
    OBVIOUS
  <2>2. Changed(heap', heap, l, z)
    <3>1. Changed(rtos_list_insert_sorted(heap, l, i), heap, l,
                  L!rtos_list_insert_sorted(s, i, ValueOf(heap)))
      BY <1>1, <1>2, InsertSortedEffect, SMTT(40)
    <3> QED
      BY ONLY <3>1, <2>1, <1>7, Zenon
  <2>3. z = Sequence!rtos_list_insert_sorted(Forward(l), i, ValueOf(heap))
    BY <2>1, <1>3 DEF L!rtos_list_insert_sorted, Sequence!rtos_list_insert_sorted,
                      L!InsertAt, Sequence!InsertAt, L!SortedStop, Sequence!SortedStop
  <2>4. Sequence!Change(l, i, "insert_sorted",
                        Sequence!rtos_list_insert_sorted(Forward(l), i, ValueOf(heap)))
    BY <2>2, <2>3, <1>2, <1>7, ChangedSequence DEF Sequence!Change
  <2>5. HeapInv(heap')
    BY <2>2 DEF Changed
  <2>6. Sequence!Insert(l, i)
    BY ONLY <2>4, <1>5 DEF Sequence!Insert, ValueOf
  <2> QED
    BY <2>5, <2>6
<1>8. CASE /\ heap' = rtos_list_insert_reversed_sorted(heap, l, i)
           /\ call' = <<"insert_reversed_sorted", i>>
  <2>1. PICK z : z = L!rtos_list_insert_reversed_sorted(s, i, ValueOf(heap))
    OBVIOUS
  <2>2. Changed(heap', heap, l, z)
    <3>1. Changed(rtos_list_insert_reversed_sorted(heap, l, i), heap, l,
                  L!rtos_list_insert_reversed_sorted(s, i, ValueOf(heap)))
      BY <1>1, <1>2, InsertReversedEffect, SMTT(40)
    <3> QED
      BY ONLY <3>1, <2>1, <1>8, Zenon
  <2>3. z = Sequence!rtos_list_insert_reversed_sorted(Forward(l), i, ValueOf(heap))
    BY <2>1, <1>3 DEF L!rtos_list_insert_reversed_sorted,
                      Sequence!rtos_list_insert_reversed_sorted,
                      L!InsertAt, Sequence!InsertAt, L!ReversedStop, Sequence!ReversedStop
  <2>4. Sequence!Change(l, i, "insert_reversed_sorted",
                        Sequence!rtos_list_insert_reversed_sorted(Forward(l), i, ValueOf(heap)))
    BY <2>2, <2>3, <1>2, <1>8, ChangedSequence DEF Sequence!Change
  <2>5. HeapInv(heap')
    BY <2>2 DEF Changed
  <2>6. Sequence!Insert(l, i)
    BY ONLY <2>4, <1>5 DEF Sequence!Insert, ValueOf
  <2> QED
    BY <2>5, <2>6
<1> QED
  BY <1>6, <1>7, <1>8 DEF Insert

LEMMA RemoveStep ==
    ASSUME HeapInv(heap), NEW i \in Items, RemoveItem(i)
    PROVE  HeapInv(heap') /\ \E l \in ListIds : Sequence!RemoveItem(l, i)
<1>1. heap.container[i] # NULL /\ heap' = rtos_list_remove(heap, i) /\ call' = <<"remove", i>>
  BY DEF RemoveItem
<1>2. PICK l \in ListIds : heap.container[i] = l
  BY <1>1, HeapFields DEF Nodes
<1>3. PICK s : IsRing(heap, l, s)
  BY DEF HeapInv
<1>4. PICK z : z = L!rtos_list_remove(s, i)
  OBVIOUS
<1>5. Changed(heap', heap, l, z)
  BY <1>1, <1>2, <1>3, <1>4, RemovalEffect
<1>6. Forward(l) = s /\ L!In(s, i)
  BY <1>2, <1>3, ReadRing DEF Forward, IsRing
<1>7. z = Sequence!rtos_list_remove(Forward(l), i) /\ Sequence!In(Forward(l), i)
  BY <1>4, <1>6 DEF L!rtos_list_remove, Sequence!rtos_list_remove, L!RemoveAt,
                    Sequence!RemoveAt, L!IndexOf, Sequence!IndexOf, L!In, Sequence!In
<1>8. Sequence!Change(l, i, "remove", Sequence!rtos_list_remove(Forward(l), i))
  BY <1>1, <1>3, <1>5, <1>7, ChangedSequence DEF Sequence!Change
<1>9. Sequence!RemoveItem(l, i)
  BY <1>7, <1>8 DEF Sequence!RemoveItem
<1> QED
  BY <1>5, <1>9 DEF Changed

-----------------------------------------------------------------------------
LEMMA InitHeap == Init => HeapInv(heap) /\ Sequence!Init
<1> SUFFICES ASSUME Init PROVE HeapInv(heap) /\ Sequence!Init
  OBVIOUS
<1>1. /\ heap.next = [n \in Nodes |-> IF n \in ListIds THEN n ELSE NULL]
      /\ heap.prev = [n \in Nodes |-> IF n \in ListIds THEN n ELSE NULL]
      /\ heap.container = [n \in Nodes |-> IF n \in ListIds THEN n ELSE NULL]
      /\ heap.value = [n \in Nodes |-> 0] /\ heap.count = [l \in ListIds |-> 0]
      /\ heap.failed = FALSE /\ call = <<>>
  BY DEF Init
<1>2. Items \subseteq Nodes /\ ListIds \subseteq Nodes /\ Items \cap ListIds = {} /\ NULL \notin Nodes
  BY LinkedListAssumption DEF Nodes
<1>3. heap \in HeapType
  <2>1. /\ [n \in Nodes |-> IF n \in ListIds THEN n ELSE NULL] \in [Nodes -> Nodes \cup {NULL}]
        /\ [n \in Nodes |-> IF n \in ListIds THEN n ELSE NULL] \in [Nodes -> ListIds \cup {NULL}]
        /\ [n \in Nodes |-> 0] \in [Nodes -> Nat] /\ [l \in ListIds |-> 0] \in [ListIds -> Nat]
    BY <1>2
  <2> QED
    BY <2>1 DEF Init, HeapType
<1>4. ASSUME NEW l \in ListIds PROVE IsRing(heap, l, <<>>)
  <2>1. <<>> \in Seq(Items) /\ Len(<<>>) = 0 /\ DOMAIN <<>> = {}
    OBVIOUS
  <2>2. L!NoDuplicates(<<>>) /\ \A i \in Items : ~L!In(<<>>, i)
    BY <2>1 DEF L!NoDuplicates, L!In
  <2>3. \A i \in Items : heap.container[i] # l
    BY <1>1, <1>2
  <2>4. heap.next[l] = l /\ heap.prev[l] = l /\ heap.count[l] = 0
    BY <1>1, <1>2
  <2>5. Place(<<>>, l, 0) = l /\ Place(<<>>, l, 0 + 1) = l
    BY <2>1 DEF Place
  <2>6. \A j \in 0 .. 0 : j = 0
    OBVIOUS
  <2> QED
    BY <2>1, <2>2, <2>3, <2>4, <2>5, <2>6 DEF IsRing
<1>5. HeapInv(heap)
  <2>1. /\ \A l \in ListIds : heap.container[l] = l
        /\ \A i \in Items : heap.next[i] = NULL /\ heap.prev[i] = NULL
    BY <1>1, <1>2
  <2> QED
    BY <2>1, <1>1, <1>3, <1>4 DEF HeapInv
<1>6. \A l \in ListIds : Forward(l) = <<>>
  BY <1>4, <1>5, ReadRing DEF Forward
<1>7. [i \in Items |-> heap.value[i]] = [i \in Items |-> 0]
  BY <1>1, <1>2
<1> QED
  BY <1>1, <1>5, <1>6, <1>7 DEF Sequence!Init

LEMMA HeapStep ==
    ASSUME HeapInv(heap), [Next]_vars
    PROVE  HeapInv(heap') /\ [Sequence!Next]_(Sequence!listVars)
<1>1. CASE UNCHANGED vars
  <2>1. heap' = heap /\ call' = call
    BY <1>1 DEF vars
  <2> QED
    BY <2>1 DEF Sequence!listVars, Forward
<1>2. ASSUME NEW i \in Items, NEW v \in Values, SetValue(i, v)
      PROVE  HeapInv(heap') /\ Sequence!Next
  BY <1>2, SetValueStep DEF Sequence!Next
<1>3. ASSUME NEW i \in Items, NEW l \in ListIds, Insert(l, i)
      PROVE  HeapInv(heap') /\ Sequence!Next
  BY <1>3, InsertStep DEF Sequence!Next
<1>4. ASSUME NEW i \in Items, RemoveItem(i)
      PROVE  HeapInv(heap') /\ Sequence!Next
  BY <1>4, RemoveStep DEF Sequence!Next
<1> QED
  BY <1>1, <1>2, <1>3, <1>4 DEF Next

(* Every ring holds a sequence of items, in every reachable state. *)
THEOREM HeapInvariance == Spec => []HeapInv(heap)
<1>1. Init => HeapInv(heap)
  BY InitHeap
<1>2. HeapInv(heap) /\ [Next]_vars => HeapInv(heap)'
  <2> SUFFICES ASSUME HeapInv(heap), [Next]_vars PROVE HeapInv(heap')
    OBVIOUS
  <2> QED
    BY HeapStep
<1> QED
  BY <1>1, <1>2, PTL DEF Spec

(* The lists are intact rings: no assertion of list.c fails, links lead    *)
(* back where they come from, both counts and directions agree with the    *)
(* members, and an item outside has no links.                              *)
THEOREM RingsStayIntact == Spec => []RingsIntact
<1>1. HeapInv(heap) => RingsIntact
  <2> SUFFICES ASSUME HeapInv(heap) PROVE RingsIntact
    OBVIOUS
  <2>1. Items \subseteq Nodes /\ ListIds \subseteq Nodes /\ NULL \notin Nodes
        /\ \A n \in Nodes : n \in Items \/ n \in ListIds
    BY LinkedListAssumption DEF Nodes
  <2>2. ASSUME NEW n \in Nodes, heap.container[n] = NULL
        PROVE  heap.next[n] = NULL /\ heap.prev[n] = NULL
    BY <2>1, <2>2 DEF HeapInv
  <2>3. ASSUME NEW n \in Nodes, heap.container[n] # NULL
        PROVE  /\ heap.prev[heap.next[n]] = n /\ heap.next[heap.prev[n]] = n
               /\ heap.container[heap.next[n]] = heap.container[n]
    <3>1. PICK l \in ListIds : heap.container[n] = l
      BY <2>3, HeapFields
    <3>2. PICK s : IsRing(heap, l, s)
      BY DEF HeapInv
    <3>3. /\ s \in Seq(Items) /\ L!NoDuplicates(s)
          /\ \A i \in Items : heap.container[i] = l <=> L!In(s, i)
          /\ \A j \in 0 .. Len(s) : /\ heap.next[Place(s, l, j)] = Place(s, l, j + 1)
                                    /\ heap.prev[Place(s, l, j + 1)] = Place(s, l, j)
      BY <3>2 DEF IsRing
    <3>4. /\ Len(s) \in Nat
          /\ \A j \in 1 .. Len(s) : Place(s, l, j) = s[j]
          /\ Place(s, l, 0) = l /\ Place(s, l, Len(s) + 1) = l
          /\ \A i \in Items : L!In(s, i) <=> \E j \in 1 .. Len(s) : s[j] = i
      BY <3>3, PlaceFacts
    <3>5. /\ \E j \in 0 .. Len(s) : Place(s, l, j) = n
          /\ \E j \in 0 .. Len(s) : Place(s, l, j + 1) = n
      <4>1. CASE n \in ListIds
        <5>1. n = l
          BY <4>1, <3>1 DEF HeapInv
        <5> QED
          BY <5>1, <3>4
      <4>2. CASE n \in Items
        <5>1. PICK j \in 1 .. Len(s) : s[j] = n
          BY <4>2, <3>1, <3>3, <3>4
        <5>2. j \in 0 .. Len(s) /\ j - 1 \in 0 .. Len(s) /\ (j - 1) + 1 = j /\ Place(s, l, j) = n
          BY <5>1, <3>4
        <5> QED
          BY <5>2
      <4> QED
        BY <4>1, <4>2, <2>1
    <3>6. heap.prev[heap.next[n]] = n /\ heap.container[heap.next[n]] = l
      <4>1. PICK j \in 0 .. Len(s) : Place(s, l, j) = n
        BY <3>5
      <4>2. PICK k : k = j + 1
        OBVIOUS
      <4>3. k \in 0 .. Len(s) + 1
        BY <4>2, <3>4
      <4>4. heap.container[Place(s, l, k)] = l
        BY <4>3, <3>2, PlaceContainer
      <4>5. heap.next[n] = Place(s, l, k) /\ heap.prev[Place(s, l, k)] = n
        BY <4>1, <4>2, <3>3
      <4> QED
        BY <4>4, <4>5
    <3>7. heap.next[heap.prev[n]] = n
      BY <3>3, <3>5
    <3> QED
      BY <3>1, <3>6, <3>7
  <2>4. ASSUME NEW l \in ListIds, NEW M, M = {i \in Items : heap.container[i] = l}
        PROVE  /\ heap.count[l] = Cardinality(M)
               /\ {Walk(heap.next, l)[j] : j \in 1 .. heap.count[l]} = M
    <3>1. PICK s : IsRing(heap, l, s)
      BY DEF HeapInv
    <3>2. /\ s \in Seq(Items) /\ L!NoDuplicates(s) /\ heap.count[l] = Len(s)
          /\ M = {i \in Items : L!In(s, i)}
      BY <3>1, <2>4 DEF IsRing
    <3>3. Cardinality(M) = Len(s)
      BY <3>2, RingLength
    <3>4. /\ Len(s) \in Nat
          /\ \A j \in 1 .. Len(s) : s[j] \in Items /\ Place(s, l, j) = s[j]
          /\ \A i \in Items : L!In(s, i) <=> \E j \in 1 .. Len(s) : s[j] = i
      BY <3>2, PlaceFacts
    <3>5. \A j \in 1 .. Len(s) : Walk(heap.next, l)[j] = s[j]
      <4>1. \A j \in 1 .. Len(s) : j \in 0 .. Len(s) + 1
        BY <3>4
      <4>2. \A j \in 0 .. Len(s) + 1 : Walk(heap.next, l)[j] = Place(s, l, j)
        BY <3>1, WalkRing
      <4> QED
        BY <4>1, <4>2, <3>4
    <3> QED
      BY <3>2, <3>3, <3>4, <3>5
  <2>5. ~heap.failed
    BY DEF HeapInv
  <2> QED
    BY <2>2, <2>3, <2>4, <2>5 DEF RingsIntact
<1> QED
  BY <1>1, HeapInvariance, PTL

(* The rings implement the sequences of items that the rest of the kernel  *)
(* is modelled with: each function of list.c does to the ring what the     *)
(* operator of module Lists does to the sequence.                          *)
THEOREM ImplementsSequences == Spec => ListsAreSequences
<1>1. Init => Sequence!Init
  BY InitHeap
<1>2. HeapInv(heap) /\ [Next]_vars => [Sequence!Next]_(Sequence!listVars)
  BY HeapStep
<1> QED
  BY <1>1, <1>2, HeapInvariance, PTL DEF Spec, ListsAreSequences, Sequence!Spec
=============================================================================
