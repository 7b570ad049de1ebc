---------------------------- MODULE ListsProofs ----------------------------
(***************************************************************************)
(* What the list operations of module Lists do, for lists of any length,   *)
(* and what a ring buffer of any size holds.                               *)
(***************************************************************************)
EXTENDS Lists, SequenceTheorems, WellFoundedInduction, TLAPS

(* A nonempty set of natural numbers has a least element (used for the     *)
(* place where the scan of a sorted insertion stops).                      *)
LEMMA LeastElement ==
    ASSUME NEW T \in SUBSET Nat, T # {}
    PROVE  \E x \in T : \A y \in T : x <= y
<1>1. IsWellFoundedOn(OpToRel(<, Nat), Nat)
  BY NatLessThanWellFounded
<1>2. PICK x \in T : \A y \in T : ~(<<y, x>> \in OpToRel(<, Nat))
  BY <1>1, WFMin, Zenon
<1>3. \A y \in T : ~(y < x)
  <2> SUFFICES ASSUME NEW y \in T, y < x PROVE FALSE
    OBVIOUS
  <2>1. <<y, x>> \in OpToRel(<, Nat)
    BY DEF OpToRel
  <2> QED
    BY <2>1, <1>2
<1> QED
  BY <1>3

(* A nonempty set of integers with an upper bound has a maximum (the       *)
(* highest priority of the ready bitmap).                                  *)
LEMMA MaxOfBounded ==
    ASSUME NEW n \in Nat, NEW T \in SUBSET (0 .. n), T # {}
    PROVE  Max(T) \in T /\ \A y \in T : y <= Max(T)
<1> DEFINE D == {n - x : x \in T}
<1>1. D \in SUBSET Nat /\ D # {}
  <2>1. \A x \in T : n - x \in Nat
    OBVIOUS
  <2>2. PICK x \in T : TRUE
    OBVIOUS
  <2>3. n - x \in D
    OBVIOUS
  <2> QED
    BY <2>1, <2>3
<1>2. PICK d \in D : \A y \in D : d <= y
  BY <1>1, LeastElement
<1>3. PICK x \in T : d = n - x
  OBVIOUS
<1>4. \A y \in T : x >= y
  <2> SUFFICES ASSUME NEW y \in T PROVE x >= y
    OBVIOUS
  <2>1. n - y \in D
    OBVIOUS
  <2>2. n - x <= n - y
    BY <2>1, <1>2, <1>3
  <2> QED
    BY <2>2
<1>5. \E z \in T : \A y \in T : z >= y
  BY <1>4
<1>6. Max(T) \in T /\ \A y \in T : Max(T) >= y
  BY <1>5 DEF Max
<1>7. Max(T) \in 0 .. n
  BY <1>6
<1> QED
  BY <1>6, <1>7

(* The elements of a concatenation, by the part they come from. *)
LEMMA ConcatParts ==
    ASSUME NEW S, NEW a \in Seq(S), NEW b \in Seq(S)
    PROVE  /\ a \o b \in Seq(S)
           /\ Len(a \o b) = Len(a) + Len(b)
           /\ \A j \in 1 .. Len(a) : (a \o b)[j] = a[j]
           /\ \A j \in Len(a) + 1 .. Len(a) + Len(b) : (a \o b)[j] = b[j - Len(a)]
<1>0. Len(a) \in Nat /\ Len(b) \in Nat
  BY LenProperties
<1> DEFINE r == a \o b
<1>1. /\ r \in Seq(S)
      /\ Len(r) = Len(a) + Len(b)
      /\ \A i \in 1 .. Len(a) + Len(b) : r[i] = IF i <= Len(a) THEN a[i] ELSE b[i - Len(a)]
  BY ConcatProperties
<1> HIDE DEF r
<1>2. \A j \in 1 .. Len(a) : r[j] = a[j]
  BY <1>0, <1>1
<1>3. ASSUME NEW j \in Len(a) + 1 .. Len(a) + Len(b) PROVE r[j] = b[j - Len(a)]
  <2>1. j \in 1 .. Len(a) + Len(b) /\ ~(j <= Len(a))
    BY <1>0
  <2> QED
    BY <2>1, <1>1
<1> QED
  BY <1>1, <1>2, <1>3 DEF r

(* InsertAt puts the new element at index i and shifts the rest. *)
LEMMA InsertAtProperties ==
    ASSUME NEW S, NEW s \in Seq(S), NEW i \in 1 .. Len(s) + 1, NEW x \in S
    PROVE  /\ InsertAt(s, i, x) \in Seq(S)
           /\ Len(InsertAt(s, i, x)) = Len(s) + 1
           /\ \A j \in 1 .. Len(s) + 1 :
                 InsertAt(s, i, x)[j] = IF j < i THEN s[j]
                                        ELSE IF j = i THEN x ELSE s[j - 1]
<1> DEFINE a == SubSeq(s, 1, i - 1)
           b == SubSeq(s, i, Len(s))
<1>0. Len(s) \in Nat /\ \A j \in 1 .. Len(s) : s[j] \in S
  BY LenProperties, ElementOfSeq
<1>1. a \in Seq(S) /\ Len(a) = i - 1 /\ \A j \in 1 .. i - 1 : a[j] = s[j]
  <2>1. \A j \in 1 .. i - 1 : s[j] \in S
    BY <1>0
  <2> QED
    BY <2>1, <1>0, SubSeqProperties
<1>2. b \in Seq(S) /\ Len(b) = Len(s) + 1 - i /\ \A j \in 1 .. Len(s) + 1 - i : b[j] = s[i + j - 1]
  <2>1. \A j \in i .. Len(s) : s[j] \in S
    BY <1>0
  <2> QED
    BY <2>1, <1>0, SubSeqProperties
<1>3. <<x>> \in Seq(S) /\ Len(<<x>>) = 1 /\ <<x>>[1] = x
  OBVIOUS
<1> DEFINE c == a \o <<x>>
<1>4. c \in Seq(S) /\ Len(c) = i /\ \A j \in 1 .. i : c[j] = IF j < i THEN s[j] ELSE x
  BY <1>1, <1>3, ConcatProperties
<1> DEFINE r == c \o b
<1>5. InsertAt(s, i, x) = r
  BY DEF InsertAt
<1> HIDE DEF a, b, c
<1>7. /\ r \in Seq(S)
      /\ Len(r) = i + (Len(s) + 1 - i)
      /\ \A j \in 1 .. i : r[j] = c[j]
      /\ \A j \in i + 1 .. i + (Len(s) + 1 - i) : r[j] = b[j - i]
  <2>1. c \in Seq(S) /\ b \in Seq(S)
    BY <1>2, <1>4
  <2>2. /\ r \in Seq(S)
        /\ Len(r) = Len(c) + Len(b)
        /\ \A j \in 1 .. Len(c) : r[j] = c[j]
        /\ \A j \in Len(c) + 1 .. Len(c) + Len(b) : r[j] = b[j - Len(c)]
    BY <2>1, ConcatParts
  <2> HIDE DEF r
  <2> QED
    BY <2>2, <1>2, <1>4
<1> HIDE DEF r
<1>8. Len(r) = Len(s) + 1
  BY <1>0, <1>7
<1>9. ASSUME NEW j \in 1 .. Len(s) + 1
      PROVE  r[j] = IF j < i THEN s[j] ELSE IF j = i THEN x ELSE s[j - 1]
  <2>1. CASE j <= i
    <3>1. j \in 1 .. i
      BY <2>1, <1>0
    <3>2. r[j] = c[j] /\ c[j] = IF j < i THEN s[j] ELSE x
      BY <3>1, <1>4, <1>7
    <3> QED
      BY <3>2, <2>1, <1>0
  <2>2. CASE j > i
    <3>1. j \in i + 1 .. i + (Len(s) + 1 - i) /\ j - i \in 1 .. Len(s) + 1 - i
      BY <2>2, <1>0
    <3>2. r[j] = b[j - i] /\ b[j - i] = s[i + (j - i) - 1]
      BY <3>1, <1>2, <1>7
    <3>3. i + (j - i) - 1 = j - 1 /\ ~(j < i) /\ j # i
      BY <2>2, <1>0
    <3> QED
      BY <3>2, <3>3
  <2>3. j <= i \/ j > i
    BY <1>0
  <2> QED
    BY <2>1, <2>2, <2>3
<1> QED
  BY <1>5, <1>7, <1>8, <1>9

(* RemoveAt drops index i and shifts the rest. *)
LEMMA RemoveAtProperties ==
    ASSUME NEW S, NEW s \in Seq(S), NEW i \in 1 .. Len(s)
    PROVE  /\ RemoveAt(s, i) \in Seq(S)
           /\ Len(RemoveAt(s, i)) = Len(s) - 1
           /\ \A j \in 1 .. Len(s) - 1 :
                 RemoveAt(s, i)[j] = IF j < i THEN s[j] ELSE s[j + 1]
<1> DEFINE a == SubSeq(s, 1, i - 1)
           b == SubSeq(s, i + 1, Len(s))
<1>0. Len(s) \in Nat /\ \A j \in 1 .. Len(s) : s[j] \in S
  BY LenProperties, ElementOfSeq
<1>1. a \in Seq(S) /\ Len(a) = i - 1 /\ \A j \in 1 .. i - 1 : a[j] = s[j]
  <2>1. \A j \in 1 .. i - 1 : s[j] \in S
    BY <1>0
  <2> QED
    BY <2>1, <1>0, SubSeqProperties
<1>2. b \in Seq(S) /\ Len(b) = Len(s) - i /\ \A j \in 1 .. Len(s) - i : b[j] = s[i + j]
  <2>1. \A j \in i + 1 .. Len(s) : s[j] \in S
    BY <1>0
  <2> QED
    BY <2>1, <1>0, SubSeqProperties
<1> DEFINE r == a \o b
<1>3. RemoveAt(s, i) = r
  BY DEF RemoveAt
<1> HIDE DEF a, b
<1>5. /\ r \in Seq(S)
      /\ Len(r) = (i - 1) + (Len(s) - i)
      /\ \A j \in 1 .. i - 1 : r[j] = a[j]
      /\ \A j \in (i - 1) + 1 .. (i - 1) + (Len(s) - i) : r[j] = b[j - (i - 1)]
  <2>1. a \in Seq(S) /\ b \in Seq(S)
    BY <1>1, <1>2
  <2>2. /\ r \in Seq(S)
        /\ Len(r) = Len(a) + Len(b)
        /\ \A j \in 1 .. Len(a) : r[j] = a[j]
        /\ \A j \in Len(a) + 1 .. Len(a) + Len(b) : r[j] = b[j - Len(a)]
    BY <2>1, ConcatParts
  <2> HIDE DEF r
  <2> QED
    BY <2>2, <1>1, <1>2
<1> HIDE DEF r
<1>6. Len(r) = Len(s) - 1
  BY <1>0, <1>5
<1>7. ASSUME NEW j \in 1 .. Len(s) - 1
      PROVE  r[j] = IF j < i THEN s[j] ELSE s[j + 1]
  <2>1. CASE j < i
    <3>1. j \in 1 .. i - 1
      BY <2>1, <1>0
    <3> QED
      BY <3>1, <2>1, <1>1, <1>5
  <2>2. CASE j >= i
    <3>1. /\ j \in (i - 1) + 1 .. (i - 1) + (Len(s) - i)
          /\ j - (i - 1) \in 1 .. Len(s) - i
      BY <2>2, <1>0
    <3>2. r[j] = b[j - (i - 1)] /\ b[j - (i - 1)] = s[i + (j - (i - 1))]
      BY <3>1, <1>2, <1>5
    <3>3. i + (j - (i - 1)) = j + 1 /\ ~(j < i)
      BY <2>2, <1>0
    <3> QED
      BY <3>2, <3>3
  <2>3. j < i \/ j >= i
    BY <1>0
  <2> QED
    BY <2>1, <2>2, <2>3
<1> QED
  BY <1>3, <1>5, <1>6, <1>7

(* The index of an owner that is in the list. *)
LEMMA IndexOfProperties ==
    ASSUME NEW S, NEW s \in Seq(S), NEW t, \E i \in DOMAIN s : s[i] = t
    PROVE  IndexOf(s, t) \in 1 .. Len(s) /\ s[IndexOf(s, t)] = t
<1>1. DOMAIN s = 1 .. Len(s)
  BY LenProperties
<1> QED
  BY <1>1 DEF IndexOf

(* The forward scan of rtos_list_insert_sorted stops where the values      *)
(* before are at most v, and the next one, if any, exceeds v.              *)
LEMMA SortedStopProperties ==
    ASSUME NEW S, NEW s \in Seq(S), NEW val \in [S -> Nat], NEW v \in Nat
    PROVE  /\ SortedStop(s, val, v) \in 1 .. Len(s) + 1
           /\ \A j \in 1 .. SortedStop(s, val, v) - 1 : val[s[j]] <= v
           /\ SortedStop(s, val, v) <= Len(s) => val[s[SortedStop(s, val, v)]] > v
<1> DEFINE T == {i \in 1 .. Len(s) : val[s[i]] > v} \cup {Len(s) + 1}
<1>0. Len(s) \in Nat /\ \A j \in 1 .. Len(s) : s[j] \in S /\ val[s[j]] \in Nat
  BY LenProperties, ElementOfSeq
<1>1. T \in SUBSET Nat /\ T # {}
  BY <1>0
<1>2. PICK i \in T : \A y \in T : i <= y
  BY <1>1, LeastElement
<1>3. i \in 1 .. Len(s) + 1
  BY <1>0
<1>4. \A j \in 1 .. i - 1 : val[s[j]] <= v
  <2> SUFFICES ASSUME NEW j \in 1 .. i - 1 PROVE val[s[j]] <= v
    OBVIOUS
  <2>1. j \in 1 .. Len(s) /\ j \notin T
    BY <1>0, <1>2, <1>3
  <2> QED
    BY <2>1, <1>0
<1>5. i <= Len(s) => val[s[i]] > v
  BY <1>0
<1>6. \E k \in 1 .. Len(s) + 1 : /\ \A j \in 1 .. k - 1 : val[s[j]] <= v
                                 /\ k <= Len(s) => val[s[k]] > v
  BY <1>3, <1>4, <1>5
<1> QED
  BY <1>6 DEF SortedStop
-----------------------------------------------------------------------------
(* Inserting at any place adds exactly the new member, once. *)
LEMMA InsertMembers ==
    ASSUME NEW S, NEW s \in Seq(S), NEW i \in 1 .. Len(s) + 1, NEW x \in S,
           NoDuplicates(s), ~In(s, x)
    PROVE  /\ InsertAt(s, i, x) \in Seq(S)
           /\ InsertAt(s, i, x) # <<>>
           /\ NoDuplicates(InsertAt(s, i, x))
           /\ \A t : In(InsertAt(s, i, x), t) <=> In(s, t) \/ t = x
<1> DEFINE r == InsertAt(s, i, x)
<1>0. Len(s) \in Nat /\ DOMAIN s = 1 .. Len(s) /\ \A j \in 1 .. Len(s) : s[j] \in S
  BY LenProperties, ElementOfSeq
<1>1. /\ r \in Seq(S)
      /\ Len(r) = Len(s) + 1
      /\ \A j \in 1 .. Len(s) + 1 :
            r[j] = IF j < i THEN s[j] ELSE IF j = i THEN x ELSE s[j - 1]
  BY InsertAtProperties
<1> HIDE DEF r
<1>2. DOMAIN r = 1 .. Len(s) + 1
  BY <1>1, LenProperties
<1>3. r # <<>>
  BY <1>0, <1>1
<1>4. ASSUME NEW j \in DOMAIN r, j # i
      PROVE  \E m \in DOMAIN s : m = (IF j < i THEN j ELSE j - 1) /\ r[j] = s[m]
  BY <1>4, <1>0, <1>1, <1>2
<1>5. r[i] = x
  BY <1>0, <1>1
<1>6. NoDuplicates(r)
  <2> SUFFICES ASSUME NEW j \in DOMAIN r, NEW m \in DOMAIN r, r[j] = r[m] PROVE j = m
    BY DEF NoDuplicates
  <2>1. CASE j = i /\ m = i
    BY <2>1
  <2>2. CASE j = i /\ m # i
    BY <2>2, <1>4, <1>5 DEF In
  <2>3. CASE j # i /\ m = i
    BY <2>3, <1>4, <1>5 DEF In
  <2>4. CASE j # i /\ m # i
    <3>1. PICK a \in DOMAIN s : a = (IF j < i THEN j ELSE j - 1) /\ r[j] = s[a]
      BY <2>4, <1>4
    <3>2. PICK b \in DOMAIN s : b = (IF m < i THEN m ELSE m - 1) /\ r[m] = s[b]
      BY <2>4, <1>4
    <3>3. a = b
      BY <3>1, <3>2 DEF NoDuplicates
    <3> QED
      BY <3>1, <3>2, <3>3, <2>4, <1>0, <1>2
  <2> QED
    BY <2>1, <2>2, <2>3, <2>4
<1>7. ASSUME NEW t PROVE In(r, t) <=> In(s, t) \/ t = x
  <2>1. ASSUME In(r, t) PROVE In(s, t) \/ t = x
    BY <2>1, <1>4, <1>5 DEF In
  <2>2. ASSUME In(s, t) PROVE In(r, t)
    <3>1. PICK m \in DOMAIN s : s[m] = t
      BY <2>2 DEF In
    <3>2. CASE m < i
      <4>1. m \in DOMAIN r /\ r[m] = s[m]
        BY <3>2, <1>0, <1>1, <1>2
      <4> QED
        BY <4>1, <3>1 DEF In
    <3>3. CASE m >= i
      <4>1. m + 1 \in DOMAIN r /\ m + 1 \in 1 .. Len(s) + 1 /\ ~(m + 1 < i) /\ m + 1 # i /\ (m + 1) - 1 = m
        BY <3>3, <1>0, <1>2
      <4>2. r[m + 1] = s[m]
        BY <4>1, <1>1
      <4> QED
        BY <4>1, <4>2, <3>1 DEF In
    <3> QED
      BY <3>2, <3>3, <1>0
  <2>3. ASSUME t = x PROVE In(r, t)
    BY <2>3, <1>5, <1>0, <1>2 DEF In
  <2> QED
    BY <2>1, <2>2, <2>3
<1> QED
  BY <1>1, <1>3, <1>6, <1>7 DEF r

(* rtos_list_insert_end is an insertion after the last item. *)
LEMMA InsertEndIsInsertAt ==
    ASSUME NEW S, NEW s \in Seq(S), NEW x \in S
    PROVE  /\ Len(s) + 1 \in 1 .. Len(s) + 1
           /\ rtos_list_insert_end(s, x) = InsertAt(s, Len(s) + 1, x)
<1>0. Len(s) \in Nat /\ Len(s) + 1 \in 1 .. Len(s) + 1
  BY LenProperties
<1> DEFINE n == Len(s) + 1
           r == InsertAt(s, n, x)
           q == Append(s, x)
<1> HIDE DEF n
<1>1. /\ r \in Seq(S)
      /\ Len(r) = Len(s) + 1
      /\ \A j \in 1 .. Len(s) + 1 :
            r[j] = IF j < n THEN s[j] ELSE IF j = n THEN x ELSE s[j - 1]
  <2>1. n \in 1 .. Len(s) + 1
    BY <1>0 DEF n
  <2> QED
    BY <2>1, InsertAtProperties
<1>2. q \in Seq(S) /\ Len(q) = Len(s) + 1 /\ q[Len(s) + 1] = x /\ \A j \in 1 .. Len(s) : q[j] = s[j]
  BY AppendProperties
<1> HIDE DEF r, q
<1>3. \A j \in 1 .. Len(s) + 1 : r[j] = q[j]
  BY <1>0, <1>1, <1>2 DEF n
<1>4. r = q
  BY <1>1, <1>2, <1>3, SeqEqual
<1> QED
  BY <1>0, <1>4 DEF rtos_list_insert_end, r, q, n

(* rtos_list_remove drops exactly the member it is given. *)
LEMMA RemoveMembers ==
    ASSUME NEW S, NEW s \in Seq(S), NEW x \in S, NoDuplicates(s), In(s, x)
    PROVE  /\ rtos_list_remove(s, x) \in Seq(S)
           /\ NoDuplicates(rtos_list_remove(s, x))
           /\ \A t : In(rtos_list_remove(s, x), t) <=> In(s, t) /\ t # x
<1> DEFINE i == IndexOf(s, x)
           r == rtos_list_remove(s, x)
<1>0. Len(s) \in Nat /\ DOMAIN s = 1 .. Len(s) /\ \A j \in 1 .. Len(s) : s[j] \in S
  BY LenProperties, ElementOfSeq
<1>1. i \in 1 .. Len(s) /\ s[i] = x
  BY IndexOfProperties DEF In
<1> HIDE DEF i
<1>2. /\ r \in Seq(S)
      /\ Len(r) = Len(s) - 1
      /\ \A j \in 1 .. Len(s) - 1 : r[j] = IF j < i THEN s[j] ELSE s[j + 1]
  BY <1>1, RemoveAtProperties DEF rtos_list_remove, i
<1> HIDE DEF r
<1>3. DOMAIN r = 1 .. Len(s) - 1
  BY <1>2, LenProperties
<1>4. ASSUME NEW j \in DOMAIN r
      PROVE  \E m \in DOMAIN s : m = (IF j < i THEN j ELSE j + 1) /\ m # i /\ r[j] = s[m]
  BY <1>0, <1>1, <1>2, <1>3
<1>5. NoDuplicates(r)
  <2> SUFFICES ASSUME NEW j \in DOMAIN r, NEW m \in DOMAIN r, r[j] = r[m] PROVE j = m
    BY DEF NoDuplicates
  <2>1. PICK a \in DOMAIN s : a = (IF j < i THEN j ELSE j + 1) /\ r[j] = s[a]
    BY <1>4
  <2>2. PICK b \in DOMAIN s : b = (IF m < i THEN m ELSE m + 1) /\ r[m] = s[b]
    BY <1>4
  <2>3. a = b
    BY <2>1, <2>2 DEF NoDuplicates
  <2> QED
    BY <2>1, <2>2, <2>3, <1>0, <1>1, <1>3
<1>6. ASSUME NEW t PROVE In(r, t) <=> In(s, t) /\ t # x
  <2>1. ASSUME In(r, t) PROVE In(s, t) /\ t # x
    <3>1. PICK m \in DOMAIN s : m # i /\ s[m] = t
      BY <2>1, <1>4 DEF In
    <3>2. i \in DOMAIN s
      BY <1>0, <1>1
    <3> QED
      BY <3>1, <3>2, <1>1 DEF In, NoDuplicates
  <2>2. ASSUME In(s, t), t # x PROVE In(r, t)
    <3>1. PICK m \in DOMAIN s : s[m] = t
      BY <2>2 DEF In
    <3>2. m # i
      BY <3>1, <2>2, <1>1
    <3>3. CASE m < i
      <4>1. m \in DOMAIN r /\ r[m] = s[m]
        BY <3>3, <1>0, <1>1, <1>2, <1>3
      <4> QED
        BY <4>1, <3>1 DEF In
    <3>4. CASE m > i
      <4>1. m - 1 \in DOMAIN r /\ m - 1 \in 1 .. Len(s) - 1 /\ ~(m - 1 < i) /\ (m - 1) + 1 = m
        BY <3>4, <1>0, <1>1, <1>3
      <4>2. r[m - 1] = s[m]
        BY <4>1, <1>2
      <4> QED
        BY <4>1, <4>2, <3>1 DEF In
    <3> QED
      BY <3>2, <3>3, <3>4, <1>0, <1>1
  <2> QED
    BY <2>1, <2>2
<1> QED
  BY <1>2, <1>5, <1>6 DEF r

(* A sorted list stays sorted when an item is removed. *)
LEMMA RemoveSorted ==
    ASSUME NEW S, NEW s \in Seq(S), NEW x \in S, In(s, x), NEW val, SortedBy(s, val)
    PROVE  SortedBy(rtos_list_remove(s, x), val)
<1> DEFINE i == IndexOf(s, x)
           r == rtos_list_remove(s, x)
<1>0. Len(s) \in Nat /\ DOMAIN s = 1 .. Len(s)
  BY LenProperties
<1>1. i \in 1 .. Len(s)
  BY IndexOfProperties DEF In
<1> HIDE DEF i
<1>2. /\ r \in Seq(S)
      /\ Len(r) = Len(s) - 1
      /\ \A j \in 1 .. Len(s) - 1 : r[j] = IF j < i THEN s[j] ELSE s[j + 1]
  BY <1>1, RemoveAtProperties DEF rtos_list_remove, i
<1> HIDE DEF r
<1>3. DOMAIN r = 1 .. Len(s) - 1
  BY <1>2, LenProperties
<1>4. ASSUME NEW j \in DOMAIN r
      PROVE  \E m \in DOMAIN s : m = (IF j < i THEN j ELSE j + 1) /\ r[j] = s[m]
  BY <1>0, <1>1, <1>2, <1>3
<1>5. ASSUME NEW j \in DOMAIN r, NEW m \in DOMAIN r, j <= m
      PROVE  val[r[j]] <= val[r[m]]
  <2>1. PICK a \in DOMAIN s : a = (IF j < i THEN j ELSE j + 1) /\ r[j] = s[a]
    BY <1>4
  <2>2. PICK b \in DOMAIN s : b = (IF m < i THEN m ELSE m + 1) /\ r[m] = s[b]
    BY <1>4
  <2>3. a <= b
    BY <2>1, <2>2, <1>5, <1>0, <1>1, <1>3
  <2> QED
    BY <2>1, <2>2, <2>3 DEF SortedBy
<1> QED
  BY <1>5 DEF SortedBy, r

(* rtos_list_insert_sorted keeps a list sorted. *)
LEMMA InsertSorted ==
    ASSUME NEW S, NEW s \in Seq(S), NEW x \in S, NEW val \in [S -> Nat], SortedBy(s, val)
    PROVE  /\ SortedStop(s, val, val[x]) \in 1 .. Len(s) + 1
           /\ rtos_list_insert_sorted(s, x, val) = InsertAt(s, SortedStop(s, val, val[x]), x)
           /\ SortedBy(rtos_list_insert_sorted(s, x, val), val)
<1> DEFINE i == SortedStop(s, val, val[x])
           r == rtos_list_insert_sorted(s, x, val)
<1>0. Len(s) \in Nat /\ DOMAIN s = 1 .. Len(s) /\ \A j \in 1 .. Len(s) : s[j] \in S /\ val[s[j]] \in Nat
  BY LenProperties, ElementOfSeq
<1>1. /\ i \in 1 .. Len(s) + 1
      /\ \A j \in 1 .. i - 1 : val[s[j]] <= val[x]
      /\ i <= Len(s) => val[s[i]] > val[x]
  BY SortedStopProperties
<1>2. r = InsertAt(s, i, x)
  BY DEF rtos_list_insert_sorted
<1> HIDE DEF i, r
<1>3. /\ r \in Seq(S)
      /\ Len(r) = Len(s) + 1
      /\ \A j \in 1 .. Len(s) + 1 :
            r[j] = IF j < i THEN s[j] ELSE IF j = i THEN x ELSE s[j - 1]
  <2>1. i \in 1 .. Len(s) + 1
    BY <1>1
  <2> DEFINE q == InsertAt(s, i, x)
  <2>2. /\ q \in Seq(S)
        /\ Len(q) = Len(s) + 1
        /\ \A j \in 1 .. Len(s) + 1 :
              q[j] = IF j < i THEN s[j] ELSE IF j = i THEN x ELSE s[j - 1]
    BY <2>1, InsertAtProperties
  <2>3. r = q
    BY <1>2
  <2> HIDE DEF q
  <2> QED
    BY <2>2, <2>3
<1>4. DOMAIN r = 1 .. Len(s) + 1
  BY <1>3, LenProperties
<1>5. \A j \in i .. Len(s) : val[s[j]] >= val[x]
  <2> SUFFICES ASSUME NEW j \in i .. Len(s) PROVE val[s[j]] >= val[x]
    OBVIOUS
  <2>1. i \in DOMAIN s /\ j \in DOMAIN s /\ i <= j /\ i <= Len(s)
    BY <1>0, <1>1
  <2>2. val[s[i]] <= val[s[j]]
    BY <2>1 DEF SortedBy
  <2> QED
    BY <2>1, <2>2, <1>0, <1>1
<1>6. ASSUME NEW j \in DOMAIN r, NEW m \in DOMAIN r, j <= m
      PROVE  val[r[j]] <= val[r[m]]
  <2>1. CASE j < i /\ m < i
    <3>1. r[j] = s[j] /\ r[m] = s[m] /\ j \in DOMAIN s /\ m \in DOMAIN s
      BY <2>1, <1>0, <1>1, <1>3, <1>4
    <3> QED
      BY <3>1, <1>6 DEF SortedBy
  <2>2. CASE j < i /\ m = i
    <3>1. r[j] = s[j] /\ r[m] = x /\ j \in 1 .. i - 1
      BY <2>2, <1>0, <1>1, <1>3, <1>4
    <3> QED
      BY <3>1, <1>1
  <2>3. CASE j < i /\ m > i
    <3>1. r[j] = s[j] /\ r[m] = s[m - 1] /\ j \in DOMAIN s /\ m - 1 \in DOMAIN s /\ j <= m - 1
      BY <2>3, <1>0, <1>1, <1>3, <1>4, SMTT(30)
    <3> QED
      BY <3>1, <1>6 DEF SortedBy
  <2>4. CASE j = i /\ m = i
    BY <2>4, <1>0, <1>3, <1>4
  <2>5. CASE j = i /\ m > i
    <3>1. r[j] = x /\ r[m] = s[m - 1] /\ m - 1 \in i .. Len(s)
      BY <2>5, <1>0, <1>1, <1>3, <1>4, SMTT(30)
    <3>2. val[s[m - 1]] \in Nat /\ val[x] \in Nat
      BY <3>1, <1>0, <1>1
    <3> QED
      BY <3>1, <3>2, <1>5
  <2>6. CASE j > i /\ m > i
    <3>1. r[j] = s[j - 1] /\ r[m] = s[m - 1] /\ j - 1 \in DOMAIN s /\ m - 1 \in DOMAIN s /\ j - 1 <= m - 1
      <4>1. j \in 1 .. Len(s) + 1 /\ m \in 1 .. Len(s) + 1
        BY <1>4
      <4>2. j - 1 \in DOMAIN s /\ m - 1 \in DOMAIN s /\ j - 1 <= m - 1
        BY <4>1, <2>6, <1>0, <1>1, <1>6
      <4>3. ~(j < i) /\ j # i /\ ~(m < i) /\ m # i
        BY <4>1, <2>6, <1>0, <1>1
      <4> QED
        BY <4>1, <4>2, <4>3, <1>3
    <3> QED
      BY <3>1 DEF SortedBy
  <2> QED
    BY <2>1, <2>2, <2>3, <2>4, <2>5, <2>6, <1>6, <1>0, <1>1, <1>4
<1> QED
  BY <1>1, <1>2, <1>6 DEF SortedBy, i, r
-----------------------------------------------------------------------------
(* Decreasing order, that of the wait lists. *)
SortedDown(s, val) == \A i, j \in DOMAIN s : i <= j => val[s[i]] >= val[s[j]]

(* The backward scan of rtos_list_insert_reversed_sorted stops where the   *)
(* values behind are below v, and the one it stops at, if any, is not.     *)
LEMMA ReversedStopProperties ==
    ASSUME NEW S, NEW s \in Seq(S), NEW val \in [S -> Nat], NEW v \in Nat
    PROVE  /\ ReversedStop(s, val, v) \in 0 .. Len(s)
           /\ \A j \in ReversedStop(s, val, v) + 1 .. Len(s) : v > val[s[j]]
           /\ ReversedStop(s, val, v) > 0 => val[s[ReversedStop(s, val, v)]] >= v
<1> DEFINE T == {i \in 1 .. Len(s) : val[s[i]] >= v} \cup {0}
<1>0. Len(s) \in Nat /\ \A j \in 1 .. Len(s) : s[j] \in S /\ val[s[j]] \in Nat
  BY LenProperties, ElementOfSeq
<1>1. T \in SUBSET (0 .. Len(s)) /\ T # {}
  BY <1>0
<1>2. PICK i \in T : \A y \in T : y <= i
  BY <1>0, <1>1, MaxOfBounded, ZenonT(60)
<1>3. i \in 0 .. Len(s)
  BY <1>1
<1>4. \A j \in i + 1 .. Len(s) : v > val[s[j]]
  <2> SUFFICES ASSUME NEW j \in i + 1 .. Len(s) PROVE v > val[s[j]]
    OBVIOUS
  <2>1. j \in 1 .. Len(s) /\ j \notin T
    BY <1>0, <1>2, <1>3
  <2> QED
    BY <2>1, <1>0
<1>5. i > 0 => val[s[i]] >= v
  BY <1>0
<1>6. \E k \in 0 .. Len(s) : /\ \A j \in k + 1 .. Len(s) : v > val[s[j]]
                             /\ k > 0 => val[s[k]] >= v
  BY <1>3, <1>4, <1>5
<1> QED
  BY <1>6 DEF ReversedStop

(* It keeps a list in decreasing order, and puts the item behind all that  *)
(* have at least its value.                                                *)
LEMMA InsertReversed ==
    ASSUME NEW S, NEW s \in Seq(S), NEW x \in S, NEW val \in [S -> Nat], SortedDown(s, val)
    PROVE  /\ ReversedStop(s, val, val[x]) + 1 \in 1 .. Len(s) + 1
           /\ rtos_list_insert_reversed_sorted(s, x, val)
                 = InsertAt(s, ReversedStop(s, val, val[x]) + 1, x)
           /\ SortedDown(rtos_list_insert_reversed_sorted(s, x, val), val)
           /\ \A t : In(s, t) /\ val[t] >= val[x] =>
                 Before(rtos_list_insert_reversed_sorted(s, x, val), t, x)
<1> DEFINE i == ReversedStop(s, val, val[x]) + 1
           r == rtos_list_insert_reversed_sorted(s, x, val)
<1>0. /\ Len(s) \in Nat /\ DOMAIN s = 1 .. Len(s)
      /\ \A j \in 1 .. Len(s) : s[j] \in S /\ val[s[j]] \in Nat
      /\ val[x] \in Nat
  BY LenProperties, ElementOfSeq
<1>1. /\ i \in 1 .. Len(s) + 1
      /\ \A j \in i .. Len(s) : val[x] > val[s[j]]
      /\ i > 1 => val[s[i - 1]] >= val[x]
  <2> DEFINE n == ReversedStop(s, val, val[x])
  <2>1. /\ n \in 0 .. Len(s)
        /\ \A j \in n + 1 .. Len(s) : val[x] > val[s[j]]
        /\ n > 0 => val[s[n]] >= val[x]
    BY <1>0, ReversedStopProperties
  <2>2. i = n + 1
    OBVIOUS
  <2> HIDE DEF n, i
  <2> QED
    BY <2>1, <2>2, <1>0
<1>2. r = InsertAt(s, i, x)
  BY DEF rtos_list_insert_reversed_sorted
<1>9. i = ReversedStop(s, val, val[x]) + 1
  OBVIOUS
<1> HIDE DEF i, r
<1>3. /\ r \in Seq(S)
      /\ Len(r) = Len(s) + 1
      /\ \A j \in 1 .. Len(s) + 1 :
            r[j] = IF j < i THEN s[j] ELSE IF j = i THEN x ELSE s[j - 1]
  <2> DEFINE q == InsertAt(s, i, x)
  <2>2. /\ q \in Seq(S)
        /\ Len(q) = Len(s) + 1
        /\ \A j \in 1 .. Len(s) + 1 :
              q[j] = IF j < i THEN s[j] ELSE IF j = i THEN x ELSE s[j - 1]
    BY <1>1, InsertAtProperties
  <2>3. r = q
    BY <1>2
  <2> HIDE DEF q
  <2> QED
    BY <2>2, <2>3
<1>4. DOMAIN r = 1 .. Len(s) + 1
  BY <1>3, LenProperties
<1>5. \A j \in 1 .. i - 1 : val[s[j]] >= val[x]
  <2> SUFFICES ASSUME NEW j \in 1 .. i - 1 PROVE val[s[j]] >= val[x]
    OBVIOUS
  <2>1. i - 1 \in DOMAIN s /\ j \in DOMAIN s /\ j <= i - 1 /\ i > 1
    BY <1>0, <1>1
  <2>2. val[s[j]] >= val[s[i - 1]]
    BY <2>1 DEF SortedDown
  <2>3. val[s[i - 1]] \in Nat /\ val[s[j]] \in Nat
    BY <2>1, <1>0
  <2> QED
    BY <2>1, <2>2, <2>3, <1>0, <1>1
<1>6. ASSUME NEW j \in DOMAIN r, NEW m \in DOMAIN r, j <= m
      PROVE  val[r[j]] >= val[r[m]]
  <2>0. j \in 1 .. Len(s) + 1 /\ m \in 1 .. Len(s) + 1
    BY <1>4
  <2>1. CASE j < i /\ m < i
    <3>1. r[j] = s[j] /\ r[m] = s[m] /\ j \in DOMAIN s /\ m \in DOMAIN s
      BY <2>0, <2>1, <1>0, <1>1, <1>3, SMTT(40)
    <3> QED
      BY <3>1, <1>6 DEF SortedDown
  <2>2. CASE j < i /\ m = i
    <3>1. r[j] = s[j] /\ r[m] = x /\ j \in 1 .. i - 1
      BY <2>0, <2>2, <1>0, <1>1, <1>3
    <3> QED
      BY <3>1, <1>5
  <2>3. CASE j < i /\ m > i
    <3>1. j \in DOMAIN s /\ m - 1 \in DOMAIN s /\ j <= m - 1 /\ ~(m < i) /\ m # i
      BY <2>0, <2>3, <1>0, <1>1
    <3>2. r[j] = s[j] /\ r[m] = s[m - 1]
      BY <3>1, <2>0, <2>3, <1>3
    <3> QED
      BY <3>1, <3>2 DEF SortedDown
  <2>4. CASE j = i /\ m = i
    BY <2>0, <2>4, <1>0, <1>3
  <2>5. CASE j = i /\ m > i
    <3>1. m - 1 \in i .. Len(s) /\ m - 1 \in 1 .. Len(s) /\ ~(m < i) /\ m # i
      BY <2>0, <2>5, <1>0, <1>1
    <3>2. r[j] = x /\ r[m] = s[m - 1]
      BY <3>1, <2>0, <2>5, <1>3, SMTT(40)
    <3>3. val[s[m - 1]] \in Nat /\ val[x] > val[s[m - 1]]
      BY <3>1, <1>0, <1>1
    <3> QED
      BY <3>2, <3>3, <1>0
  <2>6. CASE j > i /\ m > i
    <3>1. j - 1 \in DOMAIN s /\ m - 1 \in DOMAIN s /\ j - 1 <= m - 1
      BY <2>0, <2>6, <1>0, <1>1, <1>6
    <3>2. ~(j < i) /\ j # i /\ ~(m < i) /\ m # i
      BY <2>0, <2>6, <1>0, <1>1
    <3>3. r[j] = s[j - 1] /\ r[m] = s[m - 1]
      BY <3>2, <2>0, <1>3
    <3> QED
      BY <3>1, <3>3 DEF SortedDown
  <2> QED
    BY <2>0, <2>1, <2>2, <2>3, <2>4, <2>5, <2>6, <1>6, <1>0, <1>1
<1>7. ASSUME NEW t, In(s, t), val[t] >= val[x]
      PROVE  Before(r, t, x)
  <2>1. PICK j \in 1 .. Len(s) : s[j] = t
    BY <1>0, <1>7 DEF In
  <2>2. j < i
    <3> SUFFICES ASSUME ~(j < i) PROVE FALSE
      OBVIOUS
    <3>1. j \in i .. Len(s)
      BY <2>1, <1>0, <1>1
    <3> QED
      BY <3>1, <2>1, <1>0, <1>1, <1>7
  <2>3. /\ j \in 1 .. Len(s) + 1 /\ i \in 1 .. Len(s) + 1 /\ ~(i < i)
        /\ j \in DOMAIN r /\ i \in DOMAIN r
    BY <1>0, <1>1, <1>4
  <2>4. r[j] = t /\ r[i] = x
    BY <2>1, <2>2, <2>3, <1>3
  <2> QED
    BY <2>2, <2>3, <2>4 DEF Before
<1> QED
  BY <1>1, <1>2, <1>6, <1>7, <1>9 DEF SortedDown, r

(* Removing an item keeps the decreasing order and the order of the others. *)
LEMMA RemoveOrder ==
    ASSUME NEW S, NEW s \in Seq(S), NEW x \in S, In(s, x)
    PROVE  /\ \A val : SortedDown(s, val) => SortedDown(rtos_list_remove(s, x), val)
           /\ \A t, u : Before(s, t, u) /\ t # x /\ u # x => Before(rtos_list_remove(s, x), t, u)
<1> DEFINE i == IndexOf(s, x)
           r == rtos_list_remove(s, x)
<1>0. Len(s) \in Nat /\ DOMAIN s = 1 .. Len(s)
  BY LenProperties
<1>1. i \in 1 .. Len(s) /\ s[i] = x
  BY IndexOfProperties DEF In
<1> HIDE DEF i
<1>2. /\ r \in Seq(S)
      /\ Len(r) = Len(s) - 1
      /\ \A j \in 1 .. Len(s) - 1 : r[j] = IF j < i THEN s[j] ELSE s[j + 1]
  BY <1>1, RemoveAtProperties DEF rtos_list_remove, i
<1> HIDE DEF r
<1>3. DOMAIN r = 1 .. Len(s) - 1
  BY <1>2, LenProperties
<1>4. ASSUME NEW j \in DOMAIN r
      PROVE  \E m \in DOMAIN s : m = (IF j < i THEN j ELSE j + 1) /\ r[j] = s[m]
  BY <1>0, <1>1, <1>2, <1>3
<1>5. ASSUME NEW val, SortedDown(s, val), NEW j \in DOMAIN r, NEW m \in DOMAIN r, j <= m
      PROVE  val[r[j]] >= val[r[m]]
  <2>1. PICK a \in DOMAIN s : a = (IF j < i THEN j ELSE j + 1) /\ r[j] = s[a]
    BY <1>4
  <2>2. PICK b \in DOMAIN s : b = (IF m < i THEN m ELSE m + 1) /\ r[m] = s[b]
    BY <1>4
  <2>3. a <= b
    BY <2>1, <2>2, <1>5, <1>0, <1>1, <1>3
  <2> QED
    BY <2>1, <2>2, <2>3, <1>5 DEF SortedDown
<1>6. ASSUME NEW a \in DOMAIN s, a # i
      PROVE  \E j \in DOMAIN r : j = (IF a < i THEN a ELSE a - 1) /\ r[j] = s[a]
  <2>1. CASE a < i
    <3>1. a \in 1 .. Len(s) - 1
      BY <2>1, <1>0, <1>1
    <3> QED
      BY <3>1, <2>1, <1>2, <1>3
  <2>2. CASE ~(a < i)
    <3>1. a - 1 \in 1 .. Len(s) - 1 /\ ~(a - 1 < i) /\ (a - 1) + 1 = a
      BY <2>2, <1>6, <1>0, <1>1
    <3>2. r[a - 1] = s[a]
      BY <3>1, <1>2
    <3> QED
      BY <3>1, <3>2, <2>2, <1>3
  <2> QED
    BY <2>1, <2>2
<1>7. ASSUME NEW t, NEW u, Before(s, t, u), t # x, u # x
      PROVE  Before(r, t, u)
  <2>1. PICK a \in DOMAIN s, b \in DOMAIN s : a < b /\ s[a] = t /\ s[b] = u
    BY <1>7 DEF Before
  <2>2. a # i /\ b # i
    BY <2>1, <1>1, <1>7
  <2>3. PICK j \in DOMAIN r : j = (IF a < i THEN a ELSE a - 1) /\ r[j] = s[a]
    BY <2>2, <1>6
  <2>4. PICK m \in DOMAIN r : m = (IF b < i THEN b ELSE b - 1) /\ r[m] = s[b]
    BY <2>2, <1>6
  <2>5. j < m
    BY <2>1, <2>2, <2>3, <2>4, <1>0, <1>1
  <2> QED
    BY <2>1, <2>3, <2>4, <2>5 DEF Before
<1> QED
  BY <1>5, <1>7 DEF SortedDown, r

(* ... and so does inserting one. *)
LEMMA InsertOrder ==
    ASSUME NEW S, NEW s \in Seq(S), NEW i \in 1 .. Len(s) + 1, NEW x \in S,
           NEW t, NEW u, Before(s, t, u)
    PROVE  Before(InsertAt(s, i, x), t, u)
<1> DEFINE r == InsertAt(s, i, x)
<1>0. Len(s) \in Nat /\ DOMAIN s = 1 .. Len(s)
  BY LenProperties
<1>1. /\ r \in Seq(S)
      /\ Len(r) = Len(s) + 1
      /\ \A j \in 1 .. Len(s) + 1 :
            r[j] = IF j < i THEN s[j] ELSE IF j = i THEN x ELSE s[j - 1]
  BY InsertAtProperties
<1> HIDE DEF r
<1>2. DOMAIN r = 1 .. Len(s) + 1
  BY <1>1, LenProperties
<1>3. ASSUME NEW a \in DOMAIN s
      PROVE  \E j \in DOMAIN r : j = (IF a < i THEN a ELSE a + 1) /\ r[j] = s[a]
  <2>1. CASE a < i
    <3>1. a \in 1 .. Len(s) + 1
      BY <1>0
    <3> QED
      BY <3>1, <2>1, <1>1, <1>2
  <2>2. CASE ~(a < i)
    <3>1. a + 1 \in 1 .. Len(s) + 1 /\ ~(a + 1 < i) /\ a + 1 # i /\ (a + 1) - 1 = a
      BY <2>2, <1>0
    <3>2. r[a + 1] = s[a]
      BY <3>1, <1>1
    <3> QED
      BY <3>1, <3>2, <2>2, <1>2
  <2> QED
    BY <2>1, <2>2
<1>4. PICK a \in DOMAIN s, b \in DOMAIN s : a < b /\ s[a] = t /\ s[b] = u
  BY DEF Before
<1>5. PICK j \in DOMAIN r : j = (IF a < i THEN a ELSE a + 1) /\ r[j] = s[a]
  BY <1>3
<1>6. PICK m \in DOMAIN r : m = (IF b < i THEN b ELSE b + 1) /\ r[m] = s[b]
  BY <1>3
<1>7. j < m
  BY <1>0, <1>4, <1>5, <1>6
<1> QED
  BY <1>4, <1>5, <1>6, <1>7 DEF Before, r

-----------------------------------------------------------------------------
(* A ring buffer, as the message queues keep their items in. *)

(* The slot behind slot i of a ring of c slots, and the slot i places      *)
(* behind the one at index a.                                              *)
NextSlot(i, c) == IF i + 1 = c THEN 0 ELSE i + 1

RingSlot(a, i, c) == (a + i) % c

Storage(c, S) == [0 .. c - 1 -> S]

(* A ring of c slots that hold members of S: the indices and the count     *)
(* agree.                                                                  *)
Ring(q, c, S) ==
    /\ q \in [count : 0 .. c, read_index : 0 .. c - 1, write_index : 0 .. c - 1,
              storage : Storage(c, S)]
    /\ q.write_index = (q.read_index + q.count) % c

(* n items of the storage from index a on, and the items in the ring. *)
Window(storage, a, n, c) == [i \in 1 .. n |-> storage[(a + i - 1) % c]]

ContentsOf(q, c) == Window(q.storage, q.read_index, q.count, c)

(* The ring with d behind its items, and without its first item. *)
Filled(q, d, c) ==
    [q EXCEPT !.storage[q.write_index] = d, !.count = @ + 1, !.write_index = NextSlot(@, c)]

Drained(q, c) == [q EXCEPT !.count = @ - 1, !.read_index = NextSlot(@, c)]

(* An index that has run past the end of the ring once. *)
LEMMA RingIndex ==
    ASSUME NEW c \in Nat, c > 0, NEW x \in 0 .. 2 * c - 1
    PROVE  x % c = IF x < c THEN x ELSE x - c
<1>1. CASE x < c
  BY <1>1
<1>2. CASE x >= c
  <2>1. x - c \in 0 .. c - 1
    BY <1>2
  <2>2. x = c * 1 + (x - c)
    OBVIOUS
  <2> QED
    BY <1>2, <2>1, <2>2
<1> QED
  BY <1>1, <1>2

LEMMA RingSlots ==
    ASSUME NEW c \in Nat, c > 0,
           NEW a \in 0 .. c - 1, NEW i \in 0 .. c
    PROVE  /\ RingSlot(a, i, c) \in 0 .. c - 1
           /\ RingSlot(a, i, c) = IF a + i < c THEN a + i ELSE a + i - c
           /\ RingSlot(a, 0, c) = a
           /\ NextSlot(a, c) \in 0 .. c - 1
           /\ i < c => NextSlot(RingSlot(a, i, c), c) = RingSlot(a, i + 1, c)
           /\ i > 0 => RingSlot(NextSlot(a, c), i - 1, c) = RingSlot(a, i, c)
<1>1. c \in Nat /\ c > 0
  OBVIOUS
<1>2. ASSUME NEW b \in 0 .. c - 1, NEW j \in 0 .. c
      PROVE  RingSlot(b, j, c) = IF b + j < c THEN b + j ELSE b + j - c
  <2> DEFINE x == b + j
  <2>1. x \in 0 .. 2 * c - 1
    BY <1>1
  <2> HIDE DEF x
  <2>2. x % c = IF x < c THEN x ELSE x - c
    BY <2>1, <1>1, RingIndex
  <2> QED
    BY <1>1, <2>1, <2>2 DEF x, RingSlot
<1>3. RingSlot(a, i, c) = IF a + i < c THEN a + i ELSE a + i - c
  BY <1>2
<1>4. RingSlot(a, 0, c) = a
  <2>1. RingSlot(a, 0, c) = IF a + 0 < c THEN a + 0 ELSE a + 0 - c
    BY <1>1, <1>2
  <2> QED
    BY <2>1, <1>1
<1>5. NextSlot(a, c) \in 0 .. c - 1
  BY <1>1 DEF NextSlot
<1>6. i < c => NextSlot(RingSlot(a, i, c), c) = RingSlot(a, i + 1, c)
  <2>1. i < c =>
          RingSlot(a, i + 1, c) = IF a + (i + 1) < c THEN a + (i + 1) ELSE a + (i + 1) - c
    BY <1>1, <1>2
  <2> QED
    BY <2>1, <1>1, <1>3 DEF NextSlot
<1>7. i > 0 => RingSlot(NextSlot(a, c), i - 1, c) = RingSlot(a, i, c)
  <2>1. i > 0 =>
          RingSlot(NextSlot(a, c), i - 1, c) = IF NextSlot(a, c) + (i - 1) < c THEN NextSlot(a, c) + (i - 1)
                                        ELSE NextSlot(a, c) + (i - 1) - c
    BY <1>1, <1>2, <1>5
  <2> QED
    BY <2>1, <1>1, <1>3 DEF NextSlot
<1> QED
  BY <1>1, <1>3, <1>4, <1>5, <1>6, <1>7

(* The contents of the ring are a sequence. *)
LEMMA WindowIsSeq ==
    ASSUME NEW c \in Nat, c > 0, NEW S,
           NEW st \in Storage(c, S),
           NEW a \in 0 .. c - 1, NEW n \in 0 .. c
    PROVE  /\ Window(st, a, n, c) \in Seq(S)
           /\ Len(Window(st, a, n, c)) = n
           /\ \A i \in 1 .. n : Window(st, a, n, c)[i] = st[RingSlot(a, i - 1, c)]
<1>1. c \in Nat /\ c > 0 /\ n \in Nat
  OBVIOUS
<1>2. ASSUME NEW i \in 1 .. n
      PROVE  /\ (a + i - 1) % c = RingSlot(a, i - 1, c)
             /\ st[RingSlot(a, i - 1, c)] \in S
  <2>1. i - 1 \in 0 .. c /\ a + i - 1 = a + (i - 1)
    BY <1>1
  <2>2. RingSlot(a, i - 1, c) \in 0 .. c - 1
    BY <2>1, RingSlots
  <2> QED
    BY <2>1, <2>2 DEF RingSlot, Storage
<1>3. Window(st, a, n, c) = [i \in 1 .. n |-> st[RingSlot(a, i - 1, c)]]
  BY <1>2 DEF Window
<1>4. Window(st, a, n, c) \in [1 .. n -> S]
  BY <1>2, <1>3
<1>5. Window(st, a, n, c) \in Seq(S)
  BY <1>1, <1>4, SeqDef
<1>6. /\ DOMAIN Window(st, a, n, c) = 1 .. n /\ Len(Window(st, a, n, c)) \in Nat
      /\ DOMAIN Window(st, a, n, c) = 1 .. Len(Window(st, a, n, c))
  BY <1>4, <1>5, LenProperties
<1>7. Len(Window(st, a, n, c)) = n
  BY <1>1, <1>6
<1> QED
  BY <1>3, <1>5, <1>7

(* d was written to slot w of the storage. *)
Written(new, st, w, d, c) ==
    /\ new[w] = d
    /\ \A j \in 0 .. c - 1 : j # w => new[j] = st[j]

(* A write to the slot behind the last item appends it; the others keep    *)
(* their slots.                                                            *)
LEMMA WindowAppend ==
    ASSUME NEW c \in Nat, c > 0, NEW S,
           NEW st \in Storage(c, S), NEW new \in Storage(c, S), NEW d \in S,
           NEW a \in 0 .. c - 1, NEW n \in 0 .. c - 1,
           Written(new, st, RingSlot(a, n, c), d, c)
    PROVE  Window(new, a, n + 1, c) = Append(Window(st, a, n, c), d)
<1>1. c \in Nat /\ c > 0 /\ n \in 0 .. c /\ n + 1 \in 0 .. c /\ n \in Nat
  OBVIOUS
<1>2. /\ new[RingSlot(a, n, c)] = d
      /\ \A j \in 0 .. c - 1 : j # RingSlot(a, n, c) => new[j] = st[j]
  BY DEF Written
<1>3. /\ Window(st, a, n, c) \in Seq(S) /\ Len(Window(st, a, n, c)) = n
      /\ \A i \in 1 .. n : Window(st, a, n, c)[i] = st[RingSlot(a, i - 1, c)]
  BY <1>1, <1>2, WindowIsSeq
<1>4. /\ Window(new, a, n + 1, c) \in Seq(S) /\ Len(Window(new, a, n + 1, c)) = n + 1
      /\ \A i \in 1 .. n + 1 : Window(new, a, n + 1, c)[i] = new[RingSlot(a, i - 1, c)]
  <2> DEFINE m == n + 1
  <2>1. m \in 0 .. c
    BY <1>1
  <2> HIDE DEF m
  <2>2. /\ Window(new, a, m, c) \in Seq(S) /\ Len(Window(new, a, m, c)) = m
        /\ \A i \in 1 .. m : Window(new, a, m, c)[i] = new[RingSlot(a, i - 1, c)]
    BY <2>1, WindowIsSeq, ZenonT(60)
  <2> QED
    BY <2>2 DEF m
<1>5. /\ Append(Window(st, a, n, c), d) \in Seq(S)
      /\ Len(Append(Window(st, a, n, c), d)) = n + 1
      /\ \A i \in 1 .. n : Append(Window(st, a, n, c), d)[i] = Window(st, a, n, c)[i]
      /\ Append(Window(st, a, n, c), d)[n + 1] = d
  BY <1>3, AppendProperties
<1>6. /\ RingSlot(a, n, c) \in 0 .. c - 1
      /\ RingSlot(a, n, c) = IF a + n < c THEN a + n ELSE a + n - c
  BY <1>1, RingSlots
<1>8. ASSUME NEW i \in 1 .. n + 1
      PROVE  Window(new, a, n + 1, c)[i] = Append(Window(st, a, n, c), d)[i]
  <2>1. CASE i = n + 1
    <3>1. n + 1 \in 1 .. n + 1 /\ (n + 1) - 1 = n
      BY <1>1
    <3>2. Window(new, a, n + 1, c)[n + 1] = new[RingSlot(a, n, c)]
      BY <3>1, <1>4
    <3> QED
      BY <2>1, <3>2, <1>2, <1>5
  <2>2. CASE i # n + 1
    <3>1. i \in 1 .. n /\ i - 1 \in 0 .. c /\ i - 1 < n
      BY <2>2, <1>1
    <3>2. /\ RingSlot(a, i - 1, c) \in 0 .. c - 1
          /\ RingSlot(a, i - 1, c) = IF a + (i - 1) < c THEN a + (i - 1)
                                  ELSE a + (i - 1) - c
      BY <3>1, RingSlots
    <3>3. RingSlot(a, i - 1, c) # RingSlot(a, n, c)
      BY <3>1, <3>2, <1>1, <1>6
    <3>4. Window(new, a, n + 1, c)[i] = st[RingSlot(a, i - 1, c)]
      BY <3>2, <3>3, <1>2, <1>4
    <3> QED
      BY <3>1, <3>4, <1>3, <1>5
  <2> QED
    BY <2>1, <2>2
<1> QED
  BY <1>4, <1>5, <1>8, SeqEqual

(* Moving the read index on drops the first item. *)
LEMMA WindowTail ==
    ASSUME NEW c \in Nat, c > 0, NEW S,
           NEW st \in Storage(c, S),
           NEW a \in 0 .. c - 1, NEW n \in 1 .. c
    PROVE  /\ Window(st, a, n, c) # <<>>
           /\ Window(st, NextSlot(a, c), n - 1, c) = Tail(Window(st, a, n, c))
           /\ st[a] = Head(Window(st, a, n, c))
<1>1. c \in Nat /\ c > 0 /\ n \in 0 .. c /\ n - 1 \in 0 .. c /\ n \in Nat
  OBVIOUS
<1>2. /\ Window(st, a, n, c) \in Seq(S) /\ Len(Window(st, a, n, c)) = n
      /\ \A i \in 1 .. n : Window(st, a, n, c)[i] = st[RingSlot(a, i - 1, c)]
  BY <1>1, WindowIsSeq, ZenonT(60)
<1>3. NextSlot(a, c) \in 0 .. c - 1
  BY <1>1 DEF NextSlot
<1>4. /\ Window(st, NextSlot(a, c), n - 1, c) \in Seq(S) /\ Len(Window(st, NextSlot(a, c), n - 1, c)) = n - 1
      /\ \A i \in 1 .. n - 1 : Window(st, NextSlot(a, c), n - 1, c)[i] = st[RingSlot(NextSlot(a, c), i - 1, c)]
  <2> DEFINE b == NextSlot(a, c)
             m == n - 1
  <2>1. m \in 0 .. c /\ b \in 0 .. c - 1
    BY <1>1, <1>3
  <2> HIDE DEF b, m
  <2>2. /\ Window(st, b, m, c) \in Seq(S) /\ Len(Window(st, b, m, c)) = m
        /\ \A i \in 1 .. m : Window(st, b, m, c)[i] = st[RingSlot(b, i - 1, c)]
    BY <2>1, WindowIsSeq
  <2> QED
    BY <2>2 DEF b, m
<1>5. Window(st, a, n, c) # <<>>
  BY <1>2
<1>6. /\ Head(Window(st, a, n, c)) = Window(st, a, n, c)[1]
      /\ Tail(Window(st, a, n, c)) \in Seq(S)
      /\ Len(Tail(Window(st, a, n, c))) = n - 1
      /\ \A i \in 1 .. n - 1 : Tail(Window(st, a, n, c))[i] = Window(st, a, n, c)[i + 1]
  BY <1>2, <1>5, HeadTailProperties
<1>7. ASSUME NEW i \in 1 .. n - 1
      PROVE  Window(st, NextSlot(a, c), n - 1, c)[i] = Tail(Window(st, a, n, c))[i]
  <2>1. i + 1 \in 1 .. n /\ (i + 1) - 1 = i /\ i \in 0 .. c /\ i > 0
    BY <1>1
  <2>2. RingSlot(NextSlot(a, c), i - 1, c) = RingSlot(a, i, c)
    BY <2>1, RingSlots
  <2>3. Window(st, a, n, c)[i + 1] = st[RingSlot(a, i, c)]
    BY <2>1, <1>2
  <2> QED
    BY <2>2, <2>3, <1>4, <1>6
<1>8. Window(st, NextSlot(a, c), n - 1, c) = Tail(Window(st, a, n, c))
  BY <1>4, <1>6, <1>7, SeqEqual
<1>9. st[a] = Head(Window(st, a, n, c))
  <2>1. 1 \in 1 .. n /\ 1 - 1 = 0 /\ 0 \in 0 .. c
    BY <1>1
  <2>2. RingSlot(a, 0, c) = a
    BY <2>1, RingSlots
  <2>3. Window(st, a, n, c)[1] = st[RingSlot(a, 0, c)]
    BY <2>1, <1>2
  <2> QED
    BY <2>2, <2>3, <1>6
<1> QED
  BY <1>5, <1>8, <1>9

(* The fields of a ring, and a ring made of them. *)
LEMMA RingFields ==
    ASSUME NEW c \in Nat, c > 0, NEW S,
           NEW q
    PROVE  /\ Ring(q, c, S) =>
                 /\ q.count \in 0 .. c /\ q.read_index \in 0 .. c - 1
                 /\ q.storage \in Storage(c, S)
                 /\ q.write_index \in 0 .. c - 1
                 /\ q.write_index = RingSlot(q.read_index, q.count, c)
           /\ Ring(q, c, S) =>
                 q = [count |-> q.count, read_index |-> q.read_index,
                      write_index |-> q.write_index, storage |-> q.storage]
           /\ \A n \in 0 .. c, a, b \in 0 .. c - 1 :
                 \A st \in Storage(c, S) :
                    b = RingSlot(a, n, c) =>
                       Ring([count |-> n, read_index |-> a, write_index |-> b, storage |-> st], c, S)
BY DEF Ring, RingSlot

(* The fields of the ring with one item more ... *)
LEMMA RingAppend ==
    ASSUME NEW c \in Nat, c > 0, NEW S,
           NEW n \in 0 .. c - 1, NEW a \in 0 .. c - 1, NEW d \in S,
           NEW st \in Storage(c, S), NEW new \in Storage(c, S),
           NEW w, w = RingSlot(a, n, c), Written(new, st, w, d, c)
    PROVE  /\ Ring([count |-> n + 1, read_index |-> a, write_index |-> NextSlot(w, c), storage |-> new], c, S)
           /\ Window(new, a, n + 1, c) = Append(Window(st, a, n, c), d)
           /\ Len(Window(st, a, n, c)) < c
<1>1. c \in Nat /\ c > 0
  OBVIOUS
<1>2. n \in 0 .. c /\ n + 1 \in 0 .. c /\ n < c
  BY <1>1
<1>3. /\ NextSlot(w, c) = RingSlot(a, n + 1, c) /\ NextSlot(w, c) \in 0 .. c - 1
      /\ w \in 0 .. c - 1
  BY <1>2, RingSlots
<1>5. Ring([count |-> n + 1, read_index |-> a, write_index |-> NextSlot(w, c), storage |-> new], c, S)
  BY <1>2, <1>3, RingFields
<1>6. Window(new, a, n + 1, c) = Append(Window(st, a, n, c), d)
  <2>1. Written(new, st, RingSlot(a, n, c), d, c)
    OBVIOUS
  <2> QED
    BY <2>1, WindowAppend
<1>7. Len(Window(st, a, n, c)) = n
  BY <1>2, WindowIsSeq
<1> QED
  BY <1>2, <1>5, <1>6, <1>7

(* ... and the item is at the end of its contents. *)
LEMMA EnqueueRing ==
    ASSUME NEW c \in Nat, c > 0, NEW S,
           NEW q, Ring(q, c, S), q.count # c, NEW d \in S
    PROVE  /\ Ring(Filled(q, d, c), c, S) /\ Filled(q, d, c).count = q.count + 1
           /\ ContentsOf(Filled(q, d, c), c) = Append(ContentsOf(q, c), d)
           /\ Len(ContentsOf(q, c)) < c
<1> DEFINE r == Filled(q, d, c)
           n == q.count
           a == q.read_index
           w == q.write_index
           st == q.storage
           new == [st EXCEPT ![w] = d]
<1>1. /\ n \in 0 .. c /\ a \in 0 .. c - 1 /\ w \in 0 .. c - 1
      /\ st \in Storage(c, S) /\ w = RingSlot(a, n, c)
      /\ q = [count |-> n, read_index |-> a, write_index |-> w, storage |-> st]
  BY RingFields
<1>2. n # c /\ c \in Nat /\ c > 0
  OBVIOUS
<1>3. r = [count |-> n + 1, read_index |-> a, write_index |-> NextSlot(w, c), storage |-> new]
  <2>1. ASSUME NEW x, x = [q EXCEPT !.storage[q.write_index] = d, !.count = @ + 1,
                                    !.write_index = NextSlot(@, c)]
        PROVE  x = [count |-> n + 1, read_index |-> a, write_index |-> NextSlot(w, c), storage |-> new]
    BY <1>1, <2>1
  <2> QED
    BY <2>1, Zenon DEF Filled
<1>4. /\ ContentsOf(q, c) = Window(st, a, n, c) /\ r.count = n + 1
      /\ ContentsOf(r, c) = Window(new, a, n + 1, c)
  BY <1>3 DEF ContentsOf
<1>5. n \in 0 .. c - 1
  BY <1>1, <1>2
<1>6. /\ Ring([count |-> n + 1, read_index |-> a, write_index |-> NextSlot(w, c), storage |-> new], c, S)
      /\ Window(new, a, n + 1, c) = Append(Window(st, a, n, c), d)
      /\ Len(Window(st, a, n, c)) < c
  <2> HIDE DEF n, a, w, st
  <2>1. Written(new, st, w, d, c) /\ new \in Storage(c, S)
    BY <1>1 DEF Written, Storage
  <2> HIDE DEF new
  <2> QED
    BY <1>1, <1>5, <2>1, RingAppend
<1> HIDE DEF n, a, w, st, new, r
<1> QED
  BY <1>3, <1>4, <1>6 DEF n, r

(* The first item of the contents goes. *)
LEMMA DequeueRing ==
    ASSUME NEW c \in Nat, c > 0, NEW S,
           NEW q, Ring(q, c, S), q.count # 0
    PROVE  /\ Ring(Drained(q, c), c, S) /\ Drained(q, c).count = q.count - 1
           /\ ContentsOf(q, c) # <<>>
           /\ ContentsOf(Drained(q, c), c) = Tail(ContentsOf(q, c))
           /\ q.storage[q.read_index] = Head(ContentsOf(q, c))
<1> DEFINE r == Drained(q, c)
           n == q.count
           a == q.read_index
           w == q.write_index
           st == q.storage
<1>1. /\ n \in 0 .. c /\ a \in 0 .. c - 1 /\ w \in 0 .. c - 1
      /\ st \in Storage(c, S) /\ w = RingSlot(a, n, c)
      /\ q = [count |-> n, read_index |-> a, write_index |-> w, storage |-> st]
  BY RingFields
<1>2. n # 0 /\ c \in Nat /\ c > 0
  OBVIOUS
<1>3. r = [count |-> n - 1, read_index |-> NextSlot(a, c), write_index |-> w, storage |-> st]
  <2>1. ASSUME NEW x, x = [q EXCEPT !.count = @ - 1, !.read_index = NextSlot(@, c)]
        PROVE  x = [count |-> n - 1, read_index |-> NextSlot(a, c), write_index |-> w, storage |-> st]
    BY <1>1, <2>1
  <2> QED
    BY <2>1, Zenon DEF Drained
<1>4. /\ ContentsOf(q, c) = Window(st, a, n, c) /\ r.count = n - 1
      /\ ContentsOf(r, c) = Window(st, NextSlot(a, c), n - 1, c)
  BY <1>3 DEF ContentsOf
<1> SUFFICES /\ Ring([count |-> n - 1, read_index |-> NextSlot(a, c), write_index |-> w, storage |-> st], c, S)
             /\ Window(st, a, n, c) # <<>>
             /\ Window(st, NextSlot(a, c), n - 1, c) = Tail(Window(st, a, n, c))
             /\ st[a] = Head(Window(st, a, n, c))
  BY <1>3, <1>4
<1> HIDE DEF n, a, w, st
<1>5. n \in 1 .. c /\ n - 1 \in 0 .. c /\ n > 0
  BY <1>1, <1>2
<1>6. NextSlot(a, c) \in 0 .. c - 1 /\ w = RingSlot(NextSlot(a, c), n - 1, c)
  BY <1>1, <1>5, RingSlots
<1>7. Ring([count |-> n - 1, read_index |-> NextSlot(a, c), write_index |-> w, storage |-> st], c, S)
  BY <1>1, <1>5, <1>6, RingFields
<1> QED
  BY <1>1, <1>5, <1>7, WindowTail
=============================================================================
