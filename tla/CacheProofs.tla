----------------------------- MODULE CacheProofs -----------------------------
(***************************************************************************)
(* Proofs about Cache, for any number of threads, keys and values and for  *)
(* every capacity: the list and the hash map of LRUCache agree, the list   *)
(* holds the keys used last, and a read that no write overlaps finds the   *)
(* last undisturbed write.                                                 *)
(***************************************************************************)
EXTENDS Cache, SequenceTheorems, TLAPS

-----------------------------------------------------------------------------
(* Sequences without one element, or with one more at the front.            *)

LEMMA RemovedAt ==
  ASSUME NEW S, NEW s \in Seq(S), NEW p \in 1..Len(s)
  PROVE  /\ RemoveAt(s, p) \in Seq(S) /\ Len(RemoveAt(s, p)) = Len(s) - 1
         /\ \A i \in 1..Len(s) - 1 : RemoveAt(s, p)[i] = IF i < p THEN s[i] ELSE s[i + 1]
<1> DEFINE a == SubSeq(s, 1, p - 1)
           b == SubSeq(s, p + 1, Len(s))
<1>1. Len(s) \in Nat /\ p \in Int
  BY LenProperties
<1>2. a \in Seq(S) /\ Len(a) = p - 1 /\ \A i \in 1..p - 1 : a[i] = s[i]
  BY <1>1, SubSeqProperties
<1>3. b \in Seq(S) /\ Len(b) = Len(s) - p /\ \A i \in 1..Len(s) - p : b[i] = s[p + i]
  BY <1>1, SubSeqProperties
<1>4. RemoveAt(s, p) = a \o b
  BY DEF RemoveAt
<1> HIDE DEF a, b
<1>5. a \o b \in Seq(S) /\ Len(a \o b) = Len(s) - 1
  <2>1. a \o b \in Seq(S) /\ Len(a \o b) = Len(a) + Len(b)
    BY <1>2, <1>3, ConcatProperties
  <2>2. QED
    BY <1>1, <1>2, <1>3, <2>1
<1>6. ASSUME NEW i \in 1..Len(s) - 1
      PROVE  (a \o b)[i] = IF i < p THEN s[i] ELSE s[i + 1]
  <2>1. CASE i < p
    BY <1>1, <1>2, <1>3, <2>1, ConcatProperties
  <2>2. CASE ~(i < p)
    <3>1. (a \o b)[i] = b[i - (p - 1)] /\ i - (p - 1) \in 1..Len(s) - p
      BY <1>1, <1>2, <1>3, <2>2, ConcatProperties
    <3>2. QED
      BY <1>1, <1>3, <2>2, <3>1
  <2>3. QED
    BY <2>1, <2>2
<1>7. QED
  BY <1>4, <1>5, <1>6

LEMMA OnTop ==
  ASSUME NEW S, NEW s \in Seq(S), NEW x \in S
  PROVE  /\ <<x>> \o s \in Seq(S) /\ Len(<<x>> \o s) = Len(s) + 1 /\ Len(s) \in Nat
         /\ (<<x>> \o s)[1] = x
         /\ \A i \in 1..Len(s) : (<<x>> \o s)[i + 1] = s[i]
         /\ \A i \in 1..Len(s) + 1 : i # 1 => i - 1 \in 1..Len(s) /\ (<<x>> \o s)[i] = s[i - 1]
<1>1. <<x>> \in Seq(S) /\ Len(<<x>>) = 1 /\ <<x>>[1] = x /\ Len(s) \in Nat
  BY LenProperties
<1>2. /\ <<x>> \o s \in Seq(S) /\ Len(<<x>> \o s) = Len(s) + 1
      /\ \A i \in 1..Len(s) + 1 : (<<x>> \o s)[i] = IF i <= 1 THEN <<x>>[i] ELSE s[i - 1]
  BY <1>1, ConcatProperties
<1>3. ASSUME NEW i \in 1..Len(s)
      PROVE  (<<x>> \o s)[i + 1] = s[i]
  <2>1. i + 1 \in 1..Len(s) + 1 /\ ~(i + 1 <= 1) /\ (i + 1) - 1 = i
    BY <1>1
  <2>2. QED
    BY <1>2, <2>1
<1>4. QED
  BY <1>1, <1>2, <1>3

-----------------------------------------------------------------------------
(* The list                                                                 *)

Distinct(q) == \A i, j \in 1..Len(q) : q[i] = q[j] => i = j
Occurs(x, q) == \E i \in 1..Len(q) : q[i] = x

Pairs == Keys \X Values

(* The list s holds the first keys of q, which names each key once.         *)
Shape(s, q) ==
  /\ s \in Seq(Pairs) /\ q \in Seq(Keys) /\ Distinct(q)
  /\ Len(s) <= Len(q)
  /\ \A i \in 1..Len(s) : s[i][1] = q[i]

Has(s, k) == \E i \in 1..Len(s) : s[i][1] = k
Holds(s, k, v) == \E i \in 1..Len(s) : s[i][1] = k /\ s[i][2] = v

(* erase and splice take out the one node of k.                             *)
LEMMA NodeRemoved ==
  ASSUME NEW s, NEW q, Shape(s, q), NEW k
  PROVE  /\ Shape(Without(s, k), WithoutKey(q, k)) /\ ~Occurs(k, WithoutKey(q, k))
         /\ Len(Without(s, k)) = IF Has(s, k) THEN Len(s) - 1 ELSE Len(s)
         /\ ~Has(s, k) => Without(s, k) = s
         /\ \A j : Has(Without(s, k), j) <=> Has(s, j) /\ j # k
         /\ \A j, v : Holds(Without(s, k), j, v) => Holds(s, j, v) /\ j # k
<1> DEFINE r == Without(s, k)
           u == WithoutKey(q, k)
<1>0. Len(s) \in Nat /\ Len(q) \in Nat /\ s \in Seq(Pairs) /\ q \in Seq(Keys) /\ Len(s) <= Len(q)
  BY LenProperties DEF Shape
<1>1. ASSUME NEW p \in 1..Len(q), q[p] = k
      PROVE  /\ u = RemoveAt(q, p) /\ u \in Seq(Keys) /\ Len(u) = Len(q) - 1
             /\ \A i \in 1..Len(q) - 1 : u[i] = IF i < p THEN q[i] ELSE q[i + 1]
             /\ Distinct(u) /\ ~Occurs(k, u)
  <2>1. {i \in 1..Len(q) : q[i] = k} = {p} /\ p \in Int
    BY <1>0, <1>1 DEF Shape, Distinct
  <2>2. Min({p}) = p
    BY <2>1 DEF Min
  <2>3. SelectInSeq(q, LAMBDA v : v = k) = p
    BY <2>1, <2>2 DEF SelectInSeq
  <2>4. u = RemoveAt(q, p)
    BY <1>1, <2>3 DEF WithoutKey, RemoveFirst
  <2>5. /\ u \in Seq(Keys) /\ Len(u) = Len(q) - 1
        /\ \A i \in 1..Len(q) - 1 : u[i] = IF i < p THEN q[i] ELSE q[i + 1]
    BY <1>0, <2>4, RemovedAt
  <2> HIDE DEF u
  <2> DEFINE h(n) == IF n < p THEN n ELSE n + 1
  <2>6. \A i \in 1..Len(u) : u[i] = q[h(i)] /\ h(i) \in 1..Len(q) /\ h(i) # p
    BY <1>0, <1>1, <2>5
  <2>7. Distinct(u)
    <3> SUFFICES ASSUME NEW i \in 1..Len(u), NEW j \in 1..Len(u), u[i] = u[j]
                 PROVE  i = j
      BY DEF Distinct
    <3>1. h(i) = h(j)
      BY <2>6 DEF Shape, Distinct
    <3>2. QED
      BY <1>0, <2>1, <2>5, <3>1
  <2>8. ~Occurs(k, u)
    <3> SUFFICES ASSUME NEW i \in 1..Len(u), u[i] = k
                 PROVE  FALSE
      BY DEF Occurs
    <3>1. h(i) \in 1..Len(q) /\ h(i) # p /\ q[h(i)] = q[p]
      BY <1>1, <2>6
    <3>2. QED
      BY <1>1, <3>1 DEF Shape, Distinct
  <2>9. QED
    BY <2>4, <2>5, <2>7, <2>8
<1>2. CASE Has(s, k)
  <2>1. PICK p \in 1..Len(s) : s[p][1] = k
    BY <1>2 DEF Has
  <2>2. p \in 1..Len(q) /\ q[p] = k /\ p \in Int
    BY <1>0, <2>1 DEF Shape
  <2>3. \A i \in 1..Len(s) : s[i][1] = k => i = p
    BY <1>0, <2>1, <2>2 DEF Shape, Distinct
  <2>4. {i \in 1..Len(s) : s[i][1] = k} = {p}
    BY <2>1, <2>3
  <2>5. Min({p}) = p
    BY <2>2 DEF Min
  <2>6. SelectInSeq(s, LAMBDA e : e[1] = k) = p
    BY <2>4, <2>5 DEF SelectInSeq
  <2>7. r = RemoveAt(s, p)
    BY <2>1, <2>6 DEF Without, RemoveFirstMatch
  <2>8. /\ r \in Seq(Pairs) /\ Len(r) = Len(s) - 1
        /\ \A i \in 1..Len(s) - 1 : r[i] = IF i < p THEN s[i] ELSE s[i + 1]
    BY <1>0, <2>1, <2>7, RemovedAt
  <2>9. /\ u \in Seq(Keys) /\ Len(u) = Len(q) - 1
        /\ \A i \in 1..Len(q) - 1 : u[i] = IF i < p THEN q[i] ELSE q[i + 1]
        /\ Distinct(u) /\ ~Occurs(k, u)
    BY <1>1, <2>2
  <2> HIDE DEF r, u
  <2>10. Len(r) <= Len(u)
    BY <1>0, <2>8, <2>9
  <2>11. ASSUME NEW i \in 1..Len(r)
         PROVE  r[i][1] = u[i]
    <3>1. i \in 1..Len(s) - 1 /\ i \in 1..Len(q) - 1 /\ i \in 1..Len(s) /\ i + 1 \in 1..Len(s)
      BY <1>0, <2>8
    <3>2. s[i][1] = q[i] /\ s[i + 1][1] = q[i + 1]
      BY <3>1 DEF Shape
    <3>3. QED
      BY <2>8, <2>9, <3>1, <3>2
  <2>12. Shape(r, u)
    BY <2>8, <2>9, <2>10, <2>11 DEF Shape
  <2>13. ASSUME NEW i \in 1..Len(r)
         PROVE  \E j \in 1..Len(s) : j # p /\ r[i] = s[j]
    <3>1. (i \in 1..Len(s) /\ i # p /\ r[i] = s[i]) \/ (i + 1 \in 1..Len(s) /\ i + 1 # p /\ r[i] = s[i + 1])
      BY <1>0, <2>2, <2>8
    <3>2. QED
      BY <3>1
  <2>14. ASSUME NEW j \in 1..Len(s), j # p
         PROVE  \E i \in 1..Len(r) : r[i] = s[j]
    <3>1. CASE j < p
      BY <1>0, <2>2, <2>8, <3>1
    <3>2. CASE j > p
      <4>1. j - 1 \in 1..Len(r) /\ j - 1 \in 1..Len(s) - 1 /\ ~(j - 1 < p) /\ (j - 1) + 1 = j
        BY <1>0, <2>2, <2>8, <3>2
      <4>2. r[j - 1] = s[(j - 1) + 1]
        BY <2>8, <4>1
      <4>3. QED
        BY <4>1, <4>2
    <3>3. QED
      BY <1>0, <2>2, <2>14, <3>1, <3>2
  <2>15. \A j : Has(r, j) <=> Has(s, j) /\ j # k
    <3>1. ASSUME NEW j, Has(r, j)
          PROVE  Has(s, j) /\ j # k
      BY <2>3, <2>13, <3>1 DEF Has
    <3>2. ASSUME NEW j, Has(s, j), j # k
          PROVE  Has(r, j)
      <4>1. PICK i \in 1..Len(s) : s[i][1] = j
        BY <3>2 DEF Has
      <4>2. i # p
        BY <2>1, <3>2, <4>1
      <4>3. QED
        BY <2>14, <4>1, <4>2 DEF Has
    <3>3. QED
      BY <3>1, <3>2
  <2>16. \A j, v : Holds(r, j, v) => Holds(s, j, v) /\ j # k
    BY <2>3, <2>13 DEF Holds
  <2>17. QED
    BY <1>2, <2>8, <2>9, <2>12, <2>15, <2>16 DEF r, u
<1>3. CASE ~Has(s, k)
  <2>1. r = s
    BY <1>3 DEF Without, RemoveFirstMatch, Has
  <2>2. \A j : Has(r, j) <=> Has(s, j) /\ j # k
    BY <1>3, <2>1
  <2>3. \A j, v : Holds(r, j, v) => Holds(s, j, v) /\ j # k
    BY <1>3, <2>1 DEF Holds, Has
  <2>4. Shape(s, u) /\ ~Occurs(k, u)
    <3>1. CASE Occurs(k, q)
      <4>1. PICK p \in 1..Len(q) : q[p] = k
        BY <3>1 DEF Occurs
      <4>2. /\ u \in Seq(Keys) /\ Len(u) = Len(q) - 1
            /\ \A i \in 1..Len(q) - 1 : u[i] = IF i < p THEN q[i] ELSE q[i + 1]
            /\ Distinct(u) /\ ~Occurs(k, u)
        BY <1>1, <4>1
      <4> HIDE DEF u
      <4>3. ~(p <= Len(s))
        BY <1>0, <1>3, <4>1 DEF Has, Shape
      <4>4. Len(s) <= Len(u) /\ \A i \in 1..Len(s) : u[i] = q[i]
        BY <1>0, <4>1, <4>2, <4>3
      <4>5. QED
        BY <4>2, <4>4 DEF Shape
    <3>2. CASE ~Occurs(k, q)
      <4>1. u = q
        BY <3>2 DEF WithoutKey, RemoveFirst, Occurs
      <4>2. QED
        BY <3>2, <4>1
    <3>3. QED
      BY <3>1, <3>2
  <2> HIDE DEF r, u
  <2>5. QED
    BY <1>3, <2>1, <2>2, <2>3, <2>4 DEF r, u
<1>4. QED
  BY <1>2, <1>3

(* emplace_front and splice put a node at the front.                        *)
LEMMA NodeOnTop ==
  ASSUME NEW s, NEW q, Shape(s, q), NEW k \in Keys, NEW v \in Values, ~Occurs(k, q)
  PROVE  /\ Shape(<<<<k, v>>>> \o s, <<k>> \o q)
         /\ Len(<<<<k, v>>>> \o s) = Len(s) + 1
         /\ \A j : Has(<<<<k, v>>>> \o s, j) <=> j = k \/ Has(s, j)
         /\ \A j, u : Holds(<<<<k, v>>>> \o s, j, u) => (j = k /\ u = v) \/ Holds(s, j, u)
<1> DEFINE a == <<<<k, v>>>> \o s
           b == <<k>> \o q
<1>0. s \in Seq(Pairs) /\ q \in Seq(Keys) /\ <<k, v>> \in Pairs
  BY DEF Shape, Pairs
<1>1. /\ a \in Seq(Pairs) /\ Len(a) = Len(s) + 1 /\ Len(s) \in Nat /\ a[1] = <<k, v>>
      /\ \A i \in 1..Len(s) : a[i + 1] = s[i]
      /\ \A i \in 1..Len(s) + 1 : i # 1 => i - 1 \in 1..Len(s) /\ a[i] = s[i - 1]
  BY <1>0, OnTop
<1>2. /\ b \in Seq(Keys) /\ Len(b) = Len(q) + 1 /\ Len(q) \in Nat /\ b[1] = k
      /\ \A i \in 1..Len(q) : b[i + 1] = q[i]
      /\ \A i \in 1..Len(q) + 1 : i # 1 => i - 1 \in 1..Len(q) /\ b[i] = q[i - 1]
  BY <1>0, OnTop
<1> HIDE DEF a, b
<1>3. Distinct(b)
  <2> SUFFICES ASSUME NEW i \in 1..Len(b), NEW j \in 1..Len(b), b[i] = b[j]
               PROVE  i = j
    BY DEF Distinct
  <2>1. CASE i = 1 \/ j = 1
    BY <1>2, <2>1 DEF Occurs
  <2>2. CASE i # 1 /\ j # 1
    <3>1. i - 1 \in 1..Len(q) /\ j - 1 \in 1..Len(q) /\ q[i - 1] = q[j - 1]
      BY <1>2, <2>2
    <3>2. i - 1 = j - 1
      BY <3>1 DEF Shape, Distinct
    <3>3. QED
      BY <1>2, <3>2
  <2>3. QED
    BY <2>1, <2>2
<1>4. ASSUME NEW i \in 1..Len(a)
      PROVE  a[i][1] = b[i]
  <2>1. CASE i = 1
    BY <1>1, <1>2, <2>1
  <2>2. CASE i # 1
    <3>1. i - 1 \in 1..Len(s) /\ a[i] = s[i - 1] /\ s[i - 1][1] = q[i - 1]
      BY <1>1, <2>2 DEF Shape
    <3>2. i \in 1..Len(q) + 1 /\ b[i] = q[i - 1]
      BY <1>1, <1>2, <2>2 DEF Shape
    <3>3. QED
      BY <3>1, <3>2
  <2>3. QED
    BY <2>1, <2>2
<1>5. Shape(a, b)
  BY <1>1, <1>2, <1>3, <1>4 DEF Shape
<1>6. \A j : Has(a, j) <=> j = k \/ Has(s, j)
  <2>1. ASSUME NEW j, Has(a, j)
        PROVE  j = k \/ Has(s, j)
    BY <1>1, <2>1 DEF Has
  <2>2. ASSUME NEW j, j = k \/ Has(s, j)
        PROVE  Has(a, j)
    <3>1. 1 \in 1..Len(a) /\ a[1][1] = k
      BY <1>1
    <3>2. \A i \in 1..Len(s) : i + 1 \in 1..Len(a) /\ a[i + 1] = s[i]
      BY <1>1
    <3>3. QED
      BY <2>2, <3>1, <3>2 DEF Has
  <2>3. QED
    BY <2>1, <2>2
<1>7. \A j, u : Holds(a, j, u) => (j = k /\ u = v) \/ Holds(s, j, u)
  BY <1>1 DEF Holds
<1>8. QED
  BY <1>1, <1>5, <1>6, <1>7 DEF a, b

(* pop_back takes the last node.                                            *)
LEMMA NodePopped ==
  ASSUME NEW s, NEW q, Shape(s, q), Len(s) > 0
  PROVE  /\ Shape(Front(s), q) /\ Len(Front(s)) = Len(s) - 1
         /\ \A j : Has(Front(s), j) <=> Has(s, j) /\ j # Last(s)[1]
         /\ \A j, v : Holds(Front(s), j, v) => Holds(s, j, v)
<1> DEFINE a == Front(s)
<1>0. s \in Seq(Pairs) /\ Len(s) \in Nat /\ q \in Seq(Keys) /\ Len(q) \in Nat /\ Len(s) <= Len(q)
  BY LenProperties DEF Shape
<1>1. a \in Seq(Pairs) /\ Len(a) = Len(s) - 1 /\ \A i \in 1..Len(s) - 1 : a[i] = s[i]
  <2>1. \A i \in 1..Len(s) - 1 : s[i] \in Pairs
    BY <1>0, ElementOfSeq
  <2>2. a = SubSeq(s, 1, Len(s) - 1) /\ Len(s) - 1 \in Int
    BY <1>0 DEF Front
  <2>3. PICK n \in Nat : n = Len(s) - 1
    BY <1>0
  <2>4. /\ SubSeq(s, 1, n) \in Seq(Pairs)
        /\ Len(SubSeq(s, 1, n)) = IF 1 <= n THEN n - 1 + 1 ELSE 0
        /\ \A i \in 1..n - 1 + 1 : SubSeq(s, 1, n)[i] = s[1 + i - 1]
    BY <2>1, <2>3, SubSeqProperties
  <2> HIDE DEF a
  <2>5. QED
    BY <2>2, <2>3, <2>4
<1> HIDE DEF a
<1>2. Shape(a, q)
  BY <1>0, <1>1 DEF Shape
<1>3. \A i \in 1..Len(s) : i # Len(s) => s[i][1] # s[Len(s)][1]
  BY <1>0 DEF Shape, Distinct
<1>4. \A j : Has(a, j) <=> Has(s, j) /\ j # Last(s)[1]
  <2>1. \A i \in 1..Len(s) : i \in 1..Len(a) \/ i = Len(s)
    BY <1>0, <1>1
  <2>2. \A i \in 1..Len(a) : i \in 1..Len(s) /\ i # Len(s) /\ a[i] = s[i]
    BY <1>0, <1>1
  <2>3. QED
    BY <1>1, <1>3, <2>1, <2>2 DEF Has, Last
<1>5. \A j, v : Holds(a, j, v) => Holds(s, j, v)
  BY <1>0, <1>1 DEF Holds
<1>6. QED
  BY <1>1, <1>2, <1>4, <1>5 DEF a

-----------------------------------------------------------------------------
(* LRUCache                                                                 *)

(* Each operation updates the list, the map and the history of use; the     *)
(* keys of the history are distinct and begin with those of the list.       *)
List ==
  /\ Shape(m_items, recent)
  /\ m_capacity \in Nat /\ Len(m_items) <= m_capacity
  /\ \A k : k \in m_index <=> Has(m_items, k)

LEMMA ListLen == List => Len(m_items) \in Nat /\ Len(recent) \in Nat
BY LenProperties DEF List, Shape

LEMMA FrontList ==
  ASSUME List, NEW k \in m_index, NEW v \in Values, ToFront(k, v),
         m_index' = m_index, m_capacity' = m_capacity
  PROVE  /\ List'
         /\ \A j, u : Holds(m_items', j, u) => (j = k /\ u = v) \/ (j # k /\ Holds(m_items, j, u))
<1> DEFINE s == Without(m_items, k)
           q == WithoutKey(recent, k)
<1>1. Shape(m_items, recent) /\ Has(m_items, k)
  BY DEF List
<1>2. k \in Keys
  <2>1. PICK i \in 1..Len(m_items) : m_items[i][1] = k
    BY <1>1 DEF Has
  <2>2. m_items[i] \in Pairs
    BY <1>1, <2>1, ElementOfSeq DEF Shape
  <2>3. QED
    BY <2>1, <2>2 DEF Pairs
<1>3. /\ Shape(s, q) /\ ~Occurs(k, q) /\ Len(s) = Len(m_items) - 1
      /\ \A j : Has(s, j) <=> Has(m_items, j) /\ j # k
      /\ \A j, u : Holds(s, j, u) => Holds(m_items, j, u) /\ j # k
  BY <1>1, NodeRemoved
<1>4. m_items' = <<<<k, v>>>> \o s /\ recent' = <<k>> \o q
  BY DEF ToFront
<1> HIDE DEF s, q
<1>5. /\ Shape(m_items', recent') /\ Len(m_items') = Len(s) + 1
      /\ \A j : Has(m_items', j) <=> j = k \/ Has(s, j)
      /\ \A j, u : Holds(m_items', j, u) => (j = k /\ u = v) \/ Holds(s, j, u)
  BY <1>2, <1>3, <1>4, NodeOnTop
<1>6. Len(m_items') = Len(m_items)
  BY <1>3, <1>5, ListLen
<1>7. \A j : j \in m_index' <=> Has(m_items', j)
  BY <1>1, <1>3, <1>5 DEF List
<1>8. List'
  BY <1>5, <1>6, <1>7 DEF List
<1>9. QED
  BY <1>3, <1>5, <1>8

LEMMA PutList ==
  ASSUME List, NEW k \in Keys, NEW v \in Values, LruPut(k, v), m_capacity' = m_capacity
  PROVE  /\ List'
         /\ \A j, u : Holds(m_items', j, u) => (j = k /\ u = v) \/ (j # k /\ Holds(m_items, j, u))
<1>1. CASE m_capacity = 0 /\ UNCHANGED lru
  <2>1. List'
    BY <1>1 DEF List, lru
  <2>2. Len(m_items) = 0 /\ m_items' = m_items
    BY <1>1, ListLen DEF List, lru
  <2>3. QED
    BY <2>1, <2>2 DEF Holds
<1>2. CASE k \in m_index /\ ToFront(k, v) /\ UNCHANGED m_index
  BY <1>2, FrontList
<1>3. CASE /\ m_capacity > 0 /\ k \notin m_index
           /\ m_index' = (IF Len(m_items) >= m_capacity THEN m_index \ {Last(m_items)[1]}
                                                        ELSE m_index) \cup {k}
           /\ m_items' = <<<<k, v>>>> \o (IF Len(m_items) >= m_capacity
                                          THEN Front(m_items) ELSE m_items)
           /\ recent' = <<k>> \o WithoutKey(recent, k)
  <2> DEFINE q == WithoutKey(recent, k)
  <2>1. Shape(m_items, recent) /\ ~Has(m_items, k)
    BY <1>3 DEF List
  <2>2. Shape(m_items, q) /\ ~Occurs(k, q)
    BY <2>1, NodeRemoved
  <2> HIDE DEF q
  <2>3. \A u : ~Holds(m_items, k, u)
    BY <2>1 DEF Has, Holds
  <2>4. PICK s : /\ Shape(s, q) /\ Len(s) < m_capacity /\ m_items' = <<<<k, v>>>> \o s
                 /\ \A j : j \in m_index' <=> j = k \/ Has(s, j)
                 /\ \A j, u : Holds(s, j, u) => Holds(m_items, j, u)
    <3>1. CASE Len(m_items) >= m_capacity
      <4>1. Len(m_items) > 0
        BY <1>3, <3>1, ListLen DEF List
      <4>2. /\ Shape(Front(m_items), q) /\ Len(Front(m_items)) = Len(m_items) - 1
            /\ \A j : Has(Front(m_items), j) <=> Has(m_items, j) /\ j # Last(m_items)[1]
            /\ \A j, u : Holds(Front(m_items), j, u) => Holds(m_items, j, u)
        BY <2>2, <4>1, NodePopped
      <4>3. Len(Front(m_items)) < m_capacity
        BY <4>2, ListLen DEF List
      <4>4. m_items' = <<<<k, v>>>> \o Front(m_items)
        BY <1>3, <3>1
      <4>5. \A j : j \in m_index' <=> j = k \/ Has(Front(m_items), j)
        BY <1>3, <3>1, <4>2 DEF List
      <4>6. QED
        BY <4>2, <4>3, <4>4, <4>5
    <3>2. CASE ~(Len(m_items) >= m_capacity)
      <4>1. Len(m_items) < m_capacity
        BY <3>2, ListLen DEF List
      <4>2. m_items' = <<<<k, v>>>> \o m_items /\ m_index' = m_index \cup {k}
        BY <1>3, <3>2
      <4>3. \A j : j \in m_index' <=> j = k \/ Has(m_items, j)
        BY <4>2 DEF List
      <4>4. QED
        BY <2>2, <4>1, <4>2, <4>3
    <3>3. QED
      BY <3>1, <3>2
  <2>5. recent' = <<k>> \o q
    BY <1>3 DEF q
  <2>6. /\ Shape(m_items', recent') /\ Len(m_items') = Len(s) + 1
        /\ \A j : Has(m_items', j) <=> j = k \/ Has(s, j)
        /\ \A j, u : Holds(m_items', j, u) => (j = k /\ u = v) \/ Holds(s, j, u)
    BY <2>2, <2>4, <2>5, NodeOnTop
  <2>7. Len(m_items') <= m_capacity /\ m_capacity \in Nat
    BY <2>4, <2>6, LenProperties DEF Shape, List
  <2>8. List'
    BY <2>4, <2>6, <2>7 DEF List
  <2>9. QED
    BY <2>3, <2>4, <2>6, <2>8
<1>4. QED
  BY <1>1, <1>2, <1>3 DEF LruPut

(* What get finds in the list.                                              *)
LEMMA ItemFound ==
  ASSUME List, NEW k \in m_index
  PROVE  Holds(m_items, k, ItemOf(k)[2]) /\ ItemOf(k)[2] \in Values
<1>1. m_items \in Seq(Pairs) /\ DOMAIN m_items = 1..Len(m_items)
  BY LenProperties DEF List, Shape
<1>2. PICK i \in 1..Len(m_items) : m_items[i][1] = k
  BY DEF List, Has
<1>3. \E e \in ToSet(m_items) : e[1] = k
  BY <1>1, <1>2 DEF ToSet
<1>4. ItemOf(k) \in ToSet(m_items) /\ ItemOf(k)[1] = k
  BY <1>3 DEF ItemOf
<1>5. PICK j \in 1..Len(m_items) : ItemOf(k) = m_items[j]
  BY <1>1, <1>4 DEF ToSet
<1>6. m_items[j] \in Pairs
  BY <1>1, <1>5, ElementOfSeq
<1>7. ItemOf(k)[2] \in Values
  BY <1>5, <1>6 DEF Pairs
<1>8. QED
  BY <1>4, <1>5, <1>7 DEF Holds

LEMMA HitList ==
  ASSUME List, NEW k \in m_index, LruHit(k), m_capacity' = m_capacity
  PROVE  List' /\ \A j, u : Holds(m_items', j, u) => Holds(m_items, j, u)
<1>1. PICK v \in Values : v = ItemOf(k)[2] /\ Holds(m_items, k, v)
  BY ItemFound
<1>2. ToFront(k, v) /\ m_index' = m_index
  BY <1>1 DEF LruHit
<1>3. QED
  BY <1>1, <1>2, FrontList

LEMMA EraseList ==
  ASSUME List, NEW k, LruErase(k), m_capacity' = m_capacity
  PROVE  List' /\ \A j, u : Holds(m_items', j, u) => j # k /\ Holds(m_items, j, u)
<1>1. m_items' = Without(m_items, k) /\ recent' = WithoutKey(recent, k) /\ m_index' = m_index \ {k}
  BY DEF LruErase
<1>2. /\ Shape(m_items', recent')
      /\ Len(m_items') = IF Has(m_items, k) THEN Len(m_items) - 1 ELSE Len(m_items)
      /\ \A j : Has(m_items', j) <=> Has(m_items, j) /\ j # k
      /\ \A j, u : Holds(m_items', j, u) => Holds(m_items, j, u) /\ j # k
  BY <1>1, NodeRemoved DEF List
<1>3. Len(m_items') <= m_capacity /\ m_capacity \in Nat
  BY <1>2, ListLen DEF List
<1>4. \A j : j \in m_index' <=> Has(m_items', j)
  BY <1>1, <1>2 DEF List
<1>5. List'
  BY <1>2, <1>3, <1>4 DEF List
<1>6. QED
  BY <1>2, <1>5

LEMMA EmptyList ==
  ASSUME m_items = <<>>, m_index = {}, recent = <<>>, m_capacity \in Nat
  PROVE  List /\ \A j, u : ~Holds(m_items, j, u)
<1>1. Len(m_items) = 0 /\ Len(recent) = 0 /\ m_items \in Seq(Pairs) /\ recent \in Seq(Keys)
  BY EmptySeq
<1>2. Shape(m_items, recent)
  BY <1>1 DEF Shape, Distinct
<1>3. \A j, u : ~Holds(m_items, j, u) /\ ~Has(m_items, j)
  BY <1>1 DEF Holds, Has
<1>4. QED
  BY <1>1, <1>2, <1>3 DEF List

LEMMA ClearList ==
  ASSUME LruClear, m_capacity \in Nat, m_capacity' = m_capacity
  PROVE  List' /\ \A j, u : ~Holds(m_items', j, u)
<1>1. m_items' = <<>> /\ m_index' = {} /\ recent' = <<>> /\ m_capacity' \in Nat
  BY DEF LruClear
<1>2. Len(m_items') = 0 /\ Len(recent') = 0 /\ m_items' \in Seq(Pairs) /\ recent' \in Seq(Keys)
  BY <1>1, EmptySeq
<1>3. Shape(m_items', recent')
  BY <1>2 DEF Shape, Distinct
<1>4. \A j, u : ~Holds(m_items', j, u) /\ ~Has(m_items', j)
  BY <1>2 DEF Holds, Has
<1>5. QED
  BY <1>1, <1>2, <1>3, <1>4 DEF List

-----------------------------------------------------------------------------
(* CacheAdapter                                                             *)

Call == [op : {"get", "set", "erase", "contains", "clear"}, k : Keys \cup {None},
         v : Values \cup {None}]

Places == {"idle", "lru", "redis", "await", "backfill"}

Proper(c) ==
  /\ c.op # "clear" => c.k \in Keys
  /\ c.op = "set" => c.v \in Values
  /\ c.op = "erase" => c.v = None

(* Types, and the layers each call goes through.                            *)
CallsOK ==
  /\ m_mode \in Modes
  /\ store \in [Keys -> Values \cup {None}]
  /\ truth \in [Keys -> Values \cup {None, Unknown}]
  /\ pc \in [Threads -> Places]
  /\ call \in [Threads -> Call]
  /\ alone \in [Threads -> BOOLEAN]
  /\ \A t \in Threads :
       /\ Proper(call[t])
       /\ pc[t] = "backfill" => call[t].op = "get" /\ call[t].v \in Values
       /\ pc[t] \in {"lru", "backfill"} => HasLru
       /\ pc[t] \in {"redis", "await"} => HasRedis
       /\ pc[t] = "await" => call[t].op # "clear"
  /\ ~HasLru => m_items = <<>>

(* A call that ran alone so far shares its key with no write, and with no   *)
(* call at all if it is a write.                                            *)
Apart ==
  \A t, u \in Threads :
    t # u /\ pc[t] # "idle" /\ pc[u] # "idle" /\ alone[t] /\ call[t].k = call[u].k
      => ~Writes(call[t]) /\ ~Writes(call[u])

(* Where the proper content of a key is known, both layers have it, so has  *)
(* every get on its way to the backfill, and no write is under way.         *)
KnownKey(k) ==
  truth[k] # Unknown =>
    /\ HasRedis => store[k] = truth[k]
    /\ \A u : Holds(m_items, k, u) => u = truth[k]
    /\ \A t \in Threads : pc[t] # "idle" /\ call[t].k = k =>
         ~Writes(call[t]) /\ (pc[t] = "backfill" => call[t].v = truth[k])

(* A write alone between the two layers has changed the first.              *)
HalfWritten ==
  \A t \in Threads : pc[t] \in {"redis", "await"} /\ Writes(call[t]) /\ alone[t] =>
    \A u : Holds(m_items, call[t].k, u) => u = call[t].v

Coherent == CallsOK /\ Apart /\ (\A k \in Keys : KnownKey(k)) /\ HalfWritten

LEMMA CallFields ==
  /\ \A c \in Call : /\ c.op \in {"get", "set", "erase", "contains", "clear"}
                     /\ c.k \in Keys \cup {None} /\ c.v \in Values \cup {None}
  /\ Clear \in Call /\ Clear.op = "clear" /\ Proper(Clear) /\ ~Writes(Clear)
  /\ \A c \in Calls \cup {Clear} : c \in Call /\ Proper(c)
<1>1. \A c \in Call : /\ c.op \in {"get", "set", "erase", "contains", "clear"}
                      /\ c.k \in Keys \cup {None} /\ c.v \in Values \cup {None}
  BY DEF Call
<1>2. Clear \in Call /\ Clear.op = "clear" /\ Proper(Clear) /\ ~Writes(Clear)
  BY DEF Clear, Call, Proper, Writes
<1>3. \A c \in Calls : c \in Call /\ Proper(c)
  BY DEF Calls, Call, Proper
<1>4. QED
  BY <1>1, <1>2, <1>3

LEMMA GetCall ==
  ASSUME NEW k \in Keys, NEW v \in Values
  PROVE  /\ [op |-> "get", k |-> k, v |-> v] \in Call
         /\ [op |-> "get", k |-> k, v |-> v].op = "get"
         /\ [op |-> "get", k |-> k, v |-> v].k = k
         /\ [op |-> "get", k |-> k, v |-> v].v = v
         /\ Proper([op |-> "get", k |-> k, v |-> v])
         /\ ~Writes([op |-> "get", k |-> k, v |-> v])
BY DEF Call, Proper, Writes

(* The layers after a step of thread t, in all that the step may change.    *)
LEMMA EndOfCall ==
  ASSUME Coherent, NEW t \in Threads, pc[t] # "idle", NEW v, Finish(t, v),
         store' \in [Keys -> Values \cup {None}], ~HasLru => m_items' = <<>>,
         \A k \in Keys : k # call[t].k \/ ~Writes(call[t]) => store'[k] = store[k],
         \A j, u : j # call[t].k /\ Holds(m_items', j, u) => Holds(m_items, j, u),
         \A u : ~Writes(call[t]) /\ truth[call[t].k] # Unknown /\ Holds(m_items', call[t].k, u)
                  => u = truth[call[t].k] \/ call[t].k \notin Keys,
         Writes(call[t]) /\ alone[t] /\ v # Failed /\ ~crossed =>
           /\ HasRedis => store'[call[t].k] = call[t].v
           /\ \A u : Holds(m_items', call[t].k, u) => u = call[t].v
  PROVE  Coherent'
<1>1. /\ CallsOK /\ Apart /\ HalfWritten /\ \A k \in Keys : KnownKey(k)
  BY DEF Coherent
<1>2. /\ pc'[t] = "idle" /\ call'[t] = Clear /\ alone'[t] = TRUE /\ m_mode' = m_mode
      /\ \A u \in Threads : u # t => pc'[u] = pc[u] /\ call'[u] = call[u] /\ alone'[u] = alone[u]
  BY <1>1 DEF Finish, CallsOK, config
<1>3. (HasLru' <=> HasLru) /\ (HasRedis' <=> HasRedis)
  BY <1>2 DEF HasLru, HasRedis
<1>4. \A k \in Keys :
        truth'[k] = IF Writes(call[t]) /\ k = call[t].k
                    THEN IF alone[t] /\ v # Failed /\ ~crossed THEN call[t].v ELSE Unknown
                    ELSE truth[k]
  BY <1>1 DEF Finish, CallsOK
<1>5. CallsOK'
  <2>1. pc' \in [Threads -> Places]
    BY <1>1 DEF Finish, CallsOK, Places
  <2>2. call' \in [Threads -> Call]
    BY <1>1, CallFields DEF Finish, CallsOK
  <2>3. alone' \in [Threads -> BOOLEAN]
    BY <1>1 DEF Finish, CallsOK
  <2>4. truth' \in [Keys -> Values \cup {None, Unknown}]
    <3>1. call[t].v \in Values \cup {None}
      BY <1>1, CallFields DEF CallsOK
    <3>2. QED
      BY <1>1, <3>1 DEF Finish, CallsOK
  <2>5. \A u \in Threads :
          /\ Proper(call'[u])
          /\ pc'[u] = "backfill" => call'[u].op = "get" /\ call'[u].v \in Values
          /\ pc'[u] \in {"lru", "backfill"} => HasLru'
          /\ pc'[u] \in {"redis", "await"} => HasRedis'
          /\ pc'[u] = "await" => call'[u].op # "clear"
    BY <1>1, <1>2, <1>3, CallFields DEF CallsOK
  <2>6. QED
    BY <1>1, <1>2, <1>3, <2>1, <2>2, <2>3, <2>4, <2>5 DEF CallsOK, Proper
<1>6. Apart'
  BY <1>1, <1>2 DEF Apart, Writes
<1>7. ASSUME NEW k \in Keys, truth'[k] # Unknown
      PROVE  /\ HasRedis' => store'[k] = truth'[k]
             /\ \A u : Holds(m_items', k, u) => u = truth'[k]
             /\ \A u \in Threads : pc'[u] # "idle" /\ call'[u].k = k =>
                  ~Writes(call'[u]) /\ (pc'[u] = "backfill" => call'[u].v = truth'[k])
  <2>1. CASE Writes(call[t]) /\ k = call[t].k
    <3>1. alone[t] /\ v # Failed /\ ~crossed /\ truth'[k] = call[t].v
      BY <1>4, <1>7, <2>1
    <3>2. \A u \in Threads : pc'[u] # "idle" => call'[u].k # k
      BY <1>1, <1>2, <2>1, <3>1 DEF Apart
    <3>3. QED
      BY <1>3, <2>1, <3>1, <3>2
  <2>2. CASE ~(Writes(call[t]) /\ k = call[t].k)
    <3>1. truth'[k] = truth[k] /\ KnownKey(k) /\ store'[k] = store[k]
      BY <1>1, <1>4, <2>2
    <3>2. \A u : Holds(m_items', k, u) => u = truth[k]
      BY <1>7, <2>2, <3>1 DEF KnownKey
    <3>3. \A u \in Threads : pc'[u] # "idle" /\ call'[u].k = k =>
            ~Writes(call'[u]) /\ (pc'[u] = "backfill" => call'[u].v = truth[k])
      BY <1>2, <1>7, <3>1 DEF KnownKey
    <3>4. HasRedis' => store'[k] = truth[k]
      BY <1>3, <1>7, <3>1 DEF KnownKey
    <3>5. QED
      BY <3>1, <3>2, <3>3, <3>4
  <2>3. QED
    BY <2>1, <2>2
<1>8. HalfWritten'
  <2> SUFFICES ASSUME NEW w \in Threads, pc'[w] \in {"redis", "await"}, Writes(call'[w]), alone'[w],
                      NEW u, Holds(m_items', call'[w].k, u)
               PROVE  u = call'[w].v
    BY DEF HalfWritten, Writes
  <2>1. w # t /\ pc[w] \in {"redis", "await"} /\ call'[w] = call[w] /\ alone[w]
    BY <1>2
  <2>2. call[w].k # call[t].k
    BY <1>1, <2>1 DEF Apart
  <2>3. QED
    BY <1>1, <2>1, <2>2 DEF HalfWritten
<1>9. QED
  BY <1>5, <1>6, <1>7, <1>8 DEF Coherent, KnownKey, Writes

(* The first layer is done and the call goes on to Redis.                   *)
LEMMA OnToRedis ==
  ASSUME Coherent, NEW t \in Threads, pc[t] = "lru", GoTo(t, "redis"), HasRedis,
         store' = store, ~HasLru => m_items' = <<>>,
         \A j, u : j # call[t].k /\ Holds(m_items', j, u) => Holds(m_items, j, u),
         \A u : ~Writes(call[t]) /\ Holds(m_items', call[t].k, u) => Holds(m_items, call[t].k, u),
         Writes(call[t]) => \A u : Holds(m_items', call[t].k, u) => u = call[t].v
  PROVE  Coherent'
<1>1. /\ CallsOK /\ Apart /\ HalfWritten /\ \A k \in Keys : KnownKey(k)
  BY DEF Coherent
<1>2. /\ pc'[t] = "redis" /\ call' = call /\ alone' = alone /\ m_mode' = m_mode /\ truth' = truth
      /\ \A u \in Threads : u # t => pc'[u] = pc[u]
  BY <1>1 DEF GoTo, CallsOK, config
<1>3. (HasLru' <=> HasLru) /\ (HasRedis' <=> HasRedis)
  BY <1>2 DEF HasLru, HasRedis
<1>4. CallsOK'
  <2>1. pc' \in [Threads -> Places]
    BY <1>1 DEF GoTo, CallsOK, Places
  <2>2. QED
    BY <1>1, <1>2, <1>3, <2>1 DEF CallsOK, Proper
<1>5. Apart'
  BY <1>1, <1>2 DEF Apart, Writes
<1>6. ASSUME NEW k \in Keys, truth'[k] # Unknown
      PROVE  /\ HasRedis' => store'[k] = truth'[k]
             /\ \A u : Holds(m_items', k, u) => u = truth'[k]
             /\ \A u \in Threads : pc'[u] # "idle" /\ call'[u].k = k =>
                  ~Writes(call'[u]) /\ (pc'[u] = "backfill" => call'[u].v = truth'[k])
  <2>1. KnownKey(k) /\ truth[k] # Unknown
    BY <1>1, <1>2, <1>6
  <2>2. call[t].k = k => ~Writes(call[t])
    BY <2>1 DEF KnownKey
  <2>3. \A u : Holds(m_items', k, u) => Holds(m_items, k, u)
    BY <2>2
  <2>4. QED
    BY <1>2, <1>3, <2>1, <2>3 DEF KnownKey
<1>7. HalfWritten'
  <2> SUFFICES ASSUME NEW w \in Threads, pc'[w] \in {"redis", "await"}, Writes(call[w]), alone[w],
                      NEW u, Holds(m_items', call[w].k, u)
               PROVE  u = call[w].v
    BY <1>2 DEF HalfWritten, Writes
  <2>1. CASE w = t
    BY <2>1
  <2>2. CASE w # t
    <3>1. pc[w] \in {"redis", "await"}
      BY <1>2, <2>2
    <3>2. call[w].k # call[t].k
      BY <1>1, <2>2, <3>1 DEF Apart
    <3>3. QED
      BY <1>1, <3>1, <3>2 DEF HalfWritten
  <2>3. QED
    BY <2>1, <2>2
<1>8. QED
  BY <1>4, <1>5, <1>6, <1>7 DEF Coherent, KnownKey, Writes

(* get found the key in Redis.                                              *)
LEMMA OnToBackfill ==
  ASSUME Coherent, NEW t \in Threads, pc[t] = "await", call[t].op = "get",
         NEW v \in Values, HasLru,
         truth[call[t].k] # Unknown => v = store[call[t].k],
         pc' = [pc EXCEPT ![t] = "backfill"],
         call' = [call EXCEPT ![t] = [op |-> "get", k |-> call[t].k, v |-> v]],
         store' = store, UNCHANGED <<config, alone, truth, m_items>>
  PROVE  Coherent'
<1>1. /\ CallsOK /\ Apart /\ HalfWritten /\ \A k \in Keys : KnownKey(k)
  BY DEF Coherent
<1>2. call[t].k \in Keys /\ HasRedis /\ ~Writes(call[t])
  BY <1>1 DEF CallsOK, Proper, Writes
<1>3. /\ pc'[t] = "backfill" /\ call'[t] \in Call /\ m_mode' = m_mode
      /\ call'[t].op = "get" /\ call'[t].k = call[t].k /\ call'[t].v = v
      /\ Proper(call'[t]) /\ ~Writes(call'[t])
      /\ \A u \in Threads : u # t => pc'[u] = pc[u] /\ call'[u] = call[u]
  <2>1. call'[t] = [op |-> "get", k |-> call[t].k, v |-> v] /\ pc'[t] = "backfill"
    BY <1>1 DEF CallsOK
  <2>2. \A u \in Threads : u # t => pc'[u] = pc[u] /\ call'[u] = call[u]
    BY <1>1 DEF CallsOK
  <2>3. m_mode' = m_mode
    BY DEF config
  <2>4. QED
    BY <1>2, <2>1, <2>2, <2>3, GetCall
<1>4. (HasLru' <=> HasLru) /\ (HasRedis' <=> HasRedis)
  BY <1>3 DEF HasLru, HasRedis
<1>5. CallsOK'
  <2>1. pc' \in [Threads -> Places]
    BY <1>1 DEF CallsOK, Places
  <2>2. call' \in [Threads -> Call]
    BY <1>1, <1>2, GetCall DEF CallsOK
  <2>3. \A u \in Threads :
          /\ Proper(call'[u])
          /\ pc'[u] = "backfill" => call'[u].op = "get" /\ call'[u].v \in Values
          /\ pc'[u] \in {"lru", "backfill"} => HasLru'
          /\ pc'[u] \in {"redis", "await"} => HasRedis'
          /\ pc'[u] = "await" => call'[u].op # "clear"
    BY <1>1, <1>3, <1>4 DEF CallsOK
  <2>4. QED
    BY <1>1, <1>3, <1>4, <2>1, <2>2, <2>3 DEF CallsOK, Proper
<1>6. Apart'
  <2> SUFFICES ASSUME NEW x \in Threads, NEW y \in Threads, x # y, pc'[x] # "idle", pc'[y] # "idle",
                      alone[x], call'[x].k = call'[y].k
               PROVE  ~Writes(call'[x]) /\ ~Writes(call'[y])
    BY DEF Apart, Writes
  <2>1. pc[x] # "idle" /\ pc[y] # "idle" /\ call[x].k = call[y].k
    BY <1>3
  <2>2. ~Writes(call[x]) /\ ~Writes(call[y])
    BY <1>1, <2>1 DEF Apart
  <2>3. QED
    BY <1>3, <2>2
<1>7. ASSUME NEW k \in Keys, truth'[k] # Unknown
      PROVE  /\ HasRedis' => store'[k] = truth'[k]
             /\ \A u : Holds(m_items', k, u) => u = truth'[k]
             /\ \A u \in Threads : pc'[u] # "idle" /\ call'[u].k = k =>
                  ~Writes(call'[u]) /\ (pc'[u] = "backfill" => call'[u].v = truth'[k])
  <2>1. KnownKey(k) /\ truth[k] # Unknown /\ truth' = truth /\ m_items' = m_items
    BY <1>1, <1>7
  <2>2. call[t].k = k => v = truth[k]
    BY <1>2, <2>1 DEF KnownKey
  <2>3. QED
    BY <1>3, <1>4, <2>1, <2>2 DEF KnownKey
<1>8. HalfWritten'
  <2> SUFFICES ASSUME NEW w \in Threads, pc'[w] \in {"redis", "await"}, Writes(call'[w]), alone[w],
                      NEW u, Holds(m_items, call'[w].k, u)
               PROVE  u = call'[w].v
    BY DEF HalfWritten, Writes
  <2>1. w # t /\ pc[w] \in {"redis", "await"} /\ call'[w] = call[w]
    BY <1>3
  <2>2. QED
    BY <1>1, <2>1 DEF HalfWritten
<1>9. QED
  BY <1>5, <1>6, <1>7, <1>8 DEF Coherent, KnownKey, Writes

LEMMA EnterCoherent ==
  ASSUME Coherent, NEW t \in Threads, NEW c \in Calls \cup {Clear}, Enter(t, c)
  PROVE  Coherent'
<1>1. /\ CallsOK /\ Apart /\ HalfWritten /\ \A k \in Keys : KnownKey(k)
  BY DEF Coherent
<1>2. c \in Call /\ Proper(c)
  BY CallFields
<1>3. /\ pc[t] = "idle" /\ pc'[t] = (IF HasLru THEN "lru" ELSE "redis") /\ call'[t] = c
      /\ m_mode' = m_mode /\ m_items' = m_items /\ store' = store
      /\ \A u \in Threads : u # t => pc'[u] = pc[u] /\ call'[u] = call[u]
  BY <1>1 DEF Enter, CallsOK, config, lru, redis
<1>4. /\ \A u \in Threads : u # t /\ alone'[u] =>
           alone[u] /\ ~(pc[u] # "idle" /\ call[u].k = c.k /\ (Writes(c) \/ Writes(call[u])))
      /\ alone'[t] => \A u \in Threads :
           ~(pc[u] # "idle" /\ call[u].k = c.k /\ (Writes(c) \/ Writes(call[u])))
      /\ alone' \in [Threads -> BOOLEAN]
  <2> DEFINE R == {u \in Threads : /\ pc[u] # "idle" /\ call[u].k = c.k
                                   /\ Writes(c) \/ Writes(call[u])}
  <2>1. alone' = [u \in Threads |-> IF u = t THEN R = {} ELSE alone[u] /\ u \notin R]
    BY DEF Enter
  <2>2. \A u \in Threads : u \in R <=>
          (pc[u] # "idle" /\ call[u].k = c.k /\ (Writes(c) \/ Writes(call[u])))
    OBVIOUS
  <2> HIDE DEF R
  <2>3. alone' \in [Threads -> BOOLEAN]
    BY <2>1
  <2>4. \A u \in Threads : u # t /\ alone'[u] => alone[u] /\ u \notin R
    BY <2>1
  <2>5. alone'[t] => R = {}
    BY <2>1
  <2>6. QED
    BY <2>2, <2>3, <2>4, <2>5
<1>5. /\ \A k \in Keys : truth'[k] = IF Writes(c) /\ k = c.k THEN Unknown ELSE truth[k]
      /\ truth' \in [Keys -> Values \cup {None, Unknown}]
  BY <1>1 DEF Enter, CallsOK
<1>6. (HasLru' <=> HasLru) /\ (HasRedis' <=> HasRedis) /\ (HasLru \/ HasRedis)
  BY <1>1, <1>3 DEF HasLru, HasRedis, CallsOK, Modes
<1>7. CallsOK'
  <2>1. pc' \in [Threads -> Places]
    BY <1>1 DEF Enter, CallsOK, Places
  <2>2. call' \in [Threads -> Call]
    BY <1>1, <1>2 DEF Enter, CallsOK
  <2>3. \A u \in Threads :
          /\ Proper(call'[u])
          /\ pc'[u] = "backfill" => call'[u].op = "get" /\ call'[u].v \in Values
          /\ pc'[u] \in {"lru", "backfill"} => HasLru'
          /\ pc'[u] \in {"redis", "await"} => HasRedis'
          /\ pc'[u] = "await" => call'[u].op # "clear"
    BY <1>1, <1>2, <1>3, <1>6 DEF CallsOK
  <2>4. QED
    BY <1>1, <1>3, <1>4, <1>5, <1>6, <2>1, <2>2, <2>3 DEF CallsOK, Proper
<1>8. Apart'
  <2> SUFFICES ASSUME NEW x \in Threads, NEW y \in Threads, x # y, pc'[x] # "idle", pc'[y] # "idle",
                      alone'[x], call'[x].k = call'[y].k
               PROVE  ~Writes(call'[x]) /\ ~Writes(call'[y])
    BY DEF Apart, Writes
  <2>1. CASE x = t
    BY <1>3, <1>4, <2>1
  <2>2. CASE y = t
    BY <1>3, <1>4, <2>2
  <2>3. CASE x # t /\ y # t
    BY <1>1, <1>3, <1>4, <2>3 DEF Apart
  <2>4. QED
    BY <2>1, <2>2, <2>3
<1>9. ASSUME NEW k \in Keys, truth'[k] # Unknown
      PROVE  /\ HasRedis' => store'[k] = truth'[k]
             /\ \A u : Holds(m_items', k, u) => u = truth'[k]
             /\ \A u \in Threads : pc'[u] # "idle" /\ call'[u].k = k =>
                  ~Writes(call'[u]) /\ (pc'[u] = "backfill" => call'[u].v = truth'[k])
  <2>1. KnownKey(k) /\ truth'[k] = truth[k] /\ (c.k = k => ~Writes(c))
    BY <1>1, <1>5, <1>9
  <2>2. \A u \in Threads : pc'[u] # "idle" /\ call'[u].k = k =>
          ~Writes(call'[u]) /\ (pc'[u] = "backfill" => call'[u].v = truth[k])
    BY <1>3, <1>9, <2>1 DEF KnownKey
  <2>3. QED
    BY <1>3, <1>6, <1>9, <2>1, <2>2 DEF KnownKey
<1>10. HalfWritten'
  <2> SUFFICES ASSUME NEW w \in Threads, pc'[w] \in {"redis", "await"}, Writes(call'[w]), alone'[w],
                      NEW u, Holds(m_items, call'[w].k, u)
               PROVE  u = call'[w].v
    BY <1>3 DEF HalfWritten, Writes
  <2>1. CASE w = t
    <3>1. m_items = <<>>
      BY <1>1, <1>3, <2>1 DEF CallsOK
    <3>2. Len(m_items) = 0
      BY <3>1
    <3>3. QED
      BY <3>2 DEF Holds
  <2>2. CASE w # t
    BY <1>1, <1>3, <1>4, <2>2 DEF HalfWritten
  <2>3. QED
    BY <2>1, <2>2
<1>11. QED
  BY <1>7, <1>8, <1>9, <1>10 DEF Coherent, KnownKey, Writes

(* A call that wrote nothing, or whose command failed, ends.                *)
LEMMA EndOfRead ==
  ASSUME Coherent, NEW t \in Threads, pc[t] # "idle", NEW v, Finish(t, v),
         ~Writes(call[t]) \/ v = Failed,
         store' \in [Keys -> Values \cup {None}], ~HasLru => m_items' = <<>>,
         \A k \in Keys : k # call[t].k \/ ~Writes(call[t]) => store'[k] = store[k],
         \A j, u : Holds(m_items', j, u) => Holds(m_items, j, u)
  PROVE  Coherent'
<1>1. \A u : ~Writes(call[t]) /\ truth[call[t].k] # Unknown /\ Holds(m_items', call[t].k, u)
               => u = truth[call[t].k] \/ call[t].k \notin Keys
  BY DEF Coherent, KnownKey
<1>2. ~(Writes(call[t]) /\ alone[t] /\ v # Failed)
  OBVIOUS
<1>3. QED
  BY <1>1, <1>2, EndOfCall

(* What a Redis command leaves in the store.                                *)
LEMMA Applied ==
  ASSUME Coherent, NEW t \in Threads, call[t].op # "clear"
  PROVE  /\ call[t].k \in Keys /\ Apply(call[t]) \in [Keys -> Values \cup {None}]
         /\ ~Writes(call[t]) => Apply(call[t]) = store
         /\ Writes(call[t]) => Apply(call[t])[call[t].k] = call[t].v
         /\ \A k \in Keys : k # call[t].k \/ ~Writes(call[t]) => Apply(call[t])[k] = store[k]
<1>1. call[t].v \in Values \cup {None} /\ call[t].k \in Keys
  BY CallFields DEF Coherent, CallsOK, Proper
<1>2. store \in [Keys -> Values \cup {None}]
  BY DEF Coherent, CallsOK
<1>3. QED
  BY <1>1, <1>2 DEF Apply

(* After the first layer of get, set, erase or contains.                    *)
LEMMA LayerDone ==
  ASSUME Coherent, NEW t \in Threads, pc[t] = "lru", NEW v, v # Failed, NextLayer(t, v), store' = store,
         \A j, u : j # call[t].k /\ Holds(m_items', j, u) => Holds(m_items, j, u),
         \A u : ~Writes(call[t]) /\ Holds(m_items', call[t].k, u) => Holds(m_items, call[t].k, u),
         Writes(call[t]) => v = None /\ \A u : Holds(m_items', call[t].k, u) => u = call[t].v
  PROVE  Coherent'
<1>1. HasLru /\ store' \in [Keys -> Values \cup {None}]
  BY DEF Coherent, CallsOK
<1>2. CASE HasRedis /\ v = None
  BY <1>1, <1>2, OnToRedis DEF NextLayer
<1>3. CASE ~(HasRedis /\ v = None)
  <2>1. Finish(t, v)
    BY <1>3 DEF NextLayer
  <2>2. \A u : ~Writes(call[t]) /\ truth[call[t].k] # Unknown /\ Holds(m_items', call[t].k, u)
               => u = truth[call[t].k] \/ call[t].k \notin Keys
    BY DEF Coherent, KnownKey
  <2>3. Writes(call[t]) => ~HasRedis
    BY <1>3
  <2>4. QED
    BY <1>1, <2>1, <2>2, <2>3, EndOfCall
<1>4. QED
  BY <1>2, <1>3

LEMMA Kept ==
  ASSUME NEW t \in Threads, NEW v, NEW l
  PROVE  /\ Finish(t, v) => m_capacity' = m_capacity /\ m_mode' = m_mode
         /\ GoTo(t, l) => m_capacity' = m_capacity /\ m_mode' = m_mode
         /\ NextLayer(t, v) => m_capacity' = m_capacity /\ m_mode' = m_mode
BY DEF Finish, GoTo, NextLayer, config

LEMMA SameList ==
  ASSUME List, UNCHANGED lru, m_capacity' = m_capacity
  PROVE  List'
BY DEF List, lru

-----------------------------------------------------------------------------
(* The steps of a call                                                      *)

LEMMA GetLruStep ==
  ASSUME List, Coherent, NEW t \in Threads, GetLru(t)
  PROVE  List' /\ Coherent'
<1>1. pc[t] = "lru" /\ call[t].op = "get" /\ ~Writes(call[t]) /\ store' = store
  BY DEF GetLru, Writes, redis
<1>2. HasLru /\ store \in [Keys -> Values \cup {None}]
  BY <1>1 DEF Coherent, CallsOK
<1>3. PICK k : k = call[t].k
  OBVIOUS
<1>4. CASE k \in m_index /\ LruHit(k) /\ Finish(t, ItemOf(k)[2])
  <2>1. m_capacity' = m_capacity
    BY <1>4, Kept
  <2>2. List' /\ \A j, u : Holds(m_items', j, u) => Holds(m_items, j, u)
    BY <1>4, <2>1, HitList
  <2>3. Coherent'
    BY <1>1, <1>2, <1>4, <2>2, EndOfRead
  <2>4. QED
    BY <2>2, <2>3
<1>5. CASE k \notin m_index /\ UNCHANGED lru /\ NextLayer(t, None)
  <2>1. m_capacity' = m_capacity /\ m_items' = m_items
    BY <1>5, Kept DEF lru
  <2>2. Coherent'
    BY <1>1, <1>5, <2>1, LayerDone, Marks
  <2>3. QED
    BY <1>5, <2>1, <2>2, SameList
<1>6. QED
  BY <1>3, <1>4, <1>5 DEF GetLru

LEMMA SetLruStep ==
  ASSUME List, Coherent, NEW t \in Threads, SetLru(t)
  PROVE  List' /\ Coherent'
<1>1. /\ pc[t] = "lru" /\ store' = store /\ LruPut(call[t].k, call[t].v) /\ NextLayer(t, None)
      /\ call[t].op = "set" /\ Writes(call[t])
  BY DEF SetLru, redis, Writes
<1>2. call[t].k \in Keys /\ call[t].v \in Values
  BY <1>1 DEF Coherent, CallsOK, Proper
<1>3. m_capacity' = m_capacity
  BY <1>1, Kept
<1>4. List' /\ \A j, u : Holds(m_items', j, u) =>
        (j = call[t].k /\ u = call[t].v) \/ (j # call[t].k /\ Holds(m_items, j, u))
  BY <1>1, <1>2, <1>3, PutList
<1>5. Coherent'
  BY <1>1, <1>4, LayerDone, Marks
<1>6. QED
  BY <1>4, <1>5

LEMMA EraseLruStep ==
  ASSUME List, Coherent, NEW t \in Threads, EraseLru(t)
  PROVE  List' /\ Coherent'
<1>1. pc[t] = "lru" /\ store' = store /\ LruErase(call[t].k) /\ NextLayer(t, None)
  BY DEF EraseLru, redis
<1>2. m_capacity' = m_capacity
  BY <1>1, Kept
<1>3. List' /\ \A j, u : Holds(m_items', j, u) => j # call[t].k /\ Holds(m_items, j, u)
  BY <1>1, <1>2, EraseList
<1>4. Coherent'
  BY <1>1, <1>3, LayerDone, Marks
<1>5. QED
  BY <1>3, <1>4

LEMMA ContainsLruStep ==
  ASSUME List, Coherent, NEW t \in Threads, ContainsLru(t)
  PROVE  List' /\ Coherent'
<1>1. /\ pc[t] = "lru" /\ store' = store /\ UNCHANGED lru /\ m_items' = m_items
      /\ ~Writes(call[t])
  BY DEF ContainsLru, redis, lru, Writes
<1>2. PICK v : NextLayer(t, v) /\ v # Failed
  BY Marks DEF ContainsLru
<1>3. m_capacity' = m_capacity
  BY <1>2, Kept
<1>4. Coherent'
  BY <1>1, <1>2, LayerDone
<1>5. QED
  BY <1>1, <1>3, <1>4, SameList

LEMMA ClearLruStep ==
  ASSUME List, Coherent, NEW t \in Threads, ClearLru(t)
  PROVE  List' /\ Coherent'
<1>1. /\ pc[t] # "idle" /\ store' = store /\ Finish(t, None) /\ ~Writes(call[t])
      /\ (pc[t] = "lru" /\ LruClear) \/ (pc[t] = "redis" /\ UNCHANGED lru)
  BY DEF ClearLru, redis, Writes
<1>2. m_capacity' = m_capacity /\ m_capacity \in Nat
  BY <1>1, Kept DEF List
<1>3. store \in [Keys -> Values \cup {None}] /\ (~HasLru => m_items = <<>>)
  BY DEF Coherent, CallsOK
<1>4. List' /\ (~HasLru => m_items' = <<>>) /\ \A j, u : Holds(m_items', j, u) => Holds(m_items, j, u)
  <2>1. CASE LruClear
    <3>1. List' /\ \A j, u : ~Holds(m_items', j, u)
      BY <1>2, <2>1, ClearList
    <3>2. m_items' = <<>>
      BY <2>1 DEF LruClear
    <3>3. QED
      BY <3>1, <3>2
  <2>2. CASE UNCHANGED lru
    <3>1. m_items' = m_items
      BY <2>2 DEF lru
    <3>2. QED
      BY <1>2, <1>3, <2>2, <3>1, SameList
  <2>3. QED
    BY <1>1, <2>1, <2>2
<1>5. Coherent'
  BY <1>1, <1>3, <1>4, EndOfRead
<1>6. QED
  BY <1>4, <1>5

(* A command is sent.                                                       *)
LEMMA OnToAwait ==
  ASSUME List, Coherent, NEW t \in Threads, NEW a, NEW r, r \in {store, Apply(call[t])}, Sends(t, a, r)
  PROVE  List' /\ Coherent'
<1>1. /\ CallsOK /\ Apart /\ HalfWritten /\ \A k \in Keys : KnownKey(k)
  BY DEF Coherent
<1>2. /\ pc[t] = "redis" /\ call[t].op # "clear" /\ pc' = [pc EXCEPT ![t] = "await"]
      /\ call' = call /\ alone' = alone /\ m_mode' = m_mode /\ m_capacity' = m_capacity
      /\ UNCHANGED lru /\ m_items' = m_items /\ store' \in {store, r}
      /\ truth' \in {truth, [k \in Keys |-> Unknown]}
  BY DEF Sends, config, lru
<1>3. /\ pc'[t] = "await" /\ \A u \in Threads : u # t => pc'[u] = pc[u]
      /\ pc' \in [Threads -> Places]
  BY <1>1, <1>2 DEF CallsOK, Places
<1>4. /\ store' \in [Keys -> Values \cup {None}]
      /\ \A k \in Keys : k # call[t].k \/ ~Writes(call[t]) => store'[k] = store[k]
  BY <1>1, <1>2, Applied DEF CallsOK
<1>5. (HasLru' <=> HasLru) /\ (HasRedis' <=> HasRedis)
  BY <1>2 DEF HasLru, HasRedis
<1>6. /\ truth' \in [Keys -> Values \cup {None, Unknown}]
      /\ \A k \in Keys : truth'[k] # Unknown => truth'[k] = truth[k]
  BY <1>1, <1>2 DEF CallsOK
<1>7. CallsOK'
  BY <1>1, <1>2, <1>3, <1>4, <1>5, <1>6 DEF CallsOK, Proper
<1>8. Apart'
  BY <1>1, <1>2, <1>3 DEF Apart, Writes
<1>9. ASSUME NEW k \in Keys, truth'[k] # Unknown
      PROVE  /\ HasRedis' => store'[k] = truth'[k]
             /\ \A u : Holds(m_items', k, u) => u = truth'[k]
             /\ \A u \in Threads : pc'[u] # "idle" /\ call'[u].k = k =>
                  ~Writes(call'[u]) /\ (pc'[u] = "backfill" => call'[u].v = truth'[k])
  <2>1. KnownKey(k) /\ truth'[k] = truth[k]
    BY <1>1, <1>6, <1>9
  <2>2. k # call[t].k \/ ~Writes(call[t])
    BY <1>2, <1>9, <2>1 DEF KnownKey
  <2>3. store'[k] = store[k]
    BY <1>4, <2>2
  <2>4. QED
    BY <1>2, <1>3, <1>5, <1>9, <2>1, <2>3 DEF KnownKey
<1>10. HalfWritten'
  BY <1>1, <1>2, <1>3 DEF HalfWritten, Writes
<1>11. QED
  BY <1>2, <1>7, <1>8, <1>9, <1>10, SameList DEF Coherent, KnownKey, Writes

LEMMA RedisSendStep ==
  ASSUME List, Coherent, NEW t \in Threads, RedisSend(t) \/ RedisRefuses(t)
  PROVE  List' /\ Coherent'
<1>1. CASE RedisSend(t)
  BY <1>1, OnToAwait DEF RedisSend
<1>2. CASE RedisRefuses(t)
  BY <1>2, OnToAwait DEF RedisRefuses
<1>3. QED
  BY <1>1, <1>2

-----------------------------------------------------------------------------
(* The shared redisContext                                                  *)

(* What a reply says of the call it is for, with the store st.              *)
Fits(c, a, st) ==
  /\ c.op = "get" => Read(c, a) \in {Failed, st[c.k]}
  /\ c.op = "contains" => Read(c, a) \in {Failed, IF st[c.k] = None THEN None ELSE Found}
  /\ Writes(c) => Read(c, a) = Failed \/ st[c.k] = c.v

(* As long as no command crossed another, at most one thread is inside      *)
(* redisCommand, and the reader holds its reply and nothing else.           *)
Waiting ==
  ~crossed =>
    /\ \A t, u \in Threads : pc[t] = "await" /\ pc[u] = "await" => t = u
    /\ (\A t \in Threads : pc[t] # "await") \/ ~link => answers = <<>>
    /\ \A t \in Threads : pc[t] = "await" /\ link =>
         \E a : answers = <<a>> /\ Fits(call[t], a, store)

(* Once one did, no claim is made about any key.                            *)
NoClaim == crossed => \A k \in Keys : truth[k] = Unknown

(* What Redis replies, and an error, fit the call.                          *)
LEMMA AnswerFitsCall ==
  ASSUME Coherent, NEW t \in Threads, call[t].op # "clear"
  PROVE  /\ Fits(call[t], Answer(call[t]), Apply(call[t]))
         /\ Fits(call[t], ErrorAnswer, store)
<1>1. /\ call[t].k \in Keys /\ call[t].op \in {"get", "set", "erase", "contains"}
      /\ ~Writes(call[t]) => Apply(call[t]) = store
      /\ Writes(call[t]) => Apply(call[t])[call[t].k] = call[t].v
  BY Applied, CallFields DEF Coherent, CallsOK
<1>2. Read(call[t], ErrorAnswer) = Failed
  <2>1. ErrorAnswer.type = "error"
    BY DEF ErrorAnswer
  <2>2. "error" \notin Wanted(call[t])
    BY <1>1 DEF Wanted
  <2>3. QED
    BY <2>1, <2>2 DEF Read, Wanted
<1>3. Fits(call[t], ErrorAnswer, store)
  BY <1>2 DEF Fits
<1>4. PICK old : old = store[call[t].k]
  OBVIOUS
<1>5. CASE call[t].op = "get"
  <2>1. Answer(call[t]) = [type |-> IF old = None THEN "nil" ELSE "string", v |-> old]
    BY <1>4, <1>5 DEF Answer
  <2>2. Read(call[t], Answer(call[t])) = old
    BY <1>5, <2>1 DEF Read, Wanted
  <2>3. QED
    BY <1>1, <1>3, <1>4, <1>5, <2>2 DEF Fits, Writes
<1>6. CASE call[t].op = "contains"
  <2>1. Answer(call[t]) = [type |-> "integer", v |-> IF old = None THEN None ELSE Found]
    BY <1>4, <1>6 DEF Answer
  <2>2. Read(call[t], Answer(call[t])) = IF old = None THEN None ELSE Found
    BY <1>6, <2>1 DEF Read, Wanted
  <2>3. QED
    BY <1>1, <1>3, <1>4, <1>6, <2>2 DEF Fits, Writes
<1>7. CASE Writes(call[t])
  BY <1>1, <1>3, <1>7 DEF Fits, Writes
<1>8. QED
  BY <1>1, <1>5, <1>6, <1>7 DEF Writes

LEMMA SendWaits ==
  ASSUME Coherent, Waiting, NoClaim, NEW t \in Threads, NEW a, NEW r, Fits(call[t], a, r), Sends(t, a, r)
  PROVE  Waiting' /\ NoClaim'
<1> DEFINE racing == \E u \in Threads : pc[u] = "await"
<1>1. /\ pc' = [pc EXCEPT ![t] = "await"] /\ call' = call /\ link /\ link' = link
      /\ crossed' = (crossed \/ racing)
      /\ truth' = IF racing THEN [k \in Keys |-> Unknown] ELSE truth
  BY DEF Sends
<1>2. CASE racing
  BY <1>1, <1>2 DEF Waiting, NoClaim
<1>3. CASE ~racing
  <2>1. answers' = answers \o [i \in 1..1 |-> a] /\ store' = r
    BY <1>3 DEF Sends
  <2>2. CASE crossed
    BY <1>1, <2>2 DEF Waiting, NoClaim
  <2>3. CASE ~crossed
    <3>1. answers = <<>>
      BY <1>3, <2>3 DEF Waiting
    <3>2. [i \in 1..1 |-> a] = <<a>>
      OBVIOUS
    <3>3. answers' = <<a>>
      BY <2>1, <3>1, <3>2
    <3>4. pc'[t] = "await" /\ \A u \in Threads : pc'[u] = "await" => u = t
      BY <1>1, <1>3 DEF Coherent, CallsOK
    <3>5. ~crossed'
      BY <1>1, <1>3, <2>3
    <3>6. QED
      BY <1>1, <2>1, <3>3, <3>4, <3>5 DEF Waiting, NoClaim
  <2>4. QED
    BY <2>2, <2>3
<1>4. QED
  BY <1>2, <1>3

(* A step in which nobody enters or leaves redisCommand.                    *)
LEMMA WaitsOn ==
  ASSUME Waiting, NEW t \in Threads, pc[t] # "await", pc'[t] # "await", UNCHANGED redis,
         \A u \in Threads : u # t => pc'[u] = pc[u] /\ call'[u] = call[u]
  PROVE  Waiting'
<1>1. crossed' = crossed /\ answers' = answers /\ link' = link /\ store' = store
  BY DEF redis
<1>2. \A u \in Threads : (pc'[u] = "await" <=> pc[u] = "await") /\ (pc[u] = "await" => call'[u] = call[u])
  OBVIOUS
<1>3. QED
  BY <1>1, <1>2 DEF Waiting

(* The thread inside redisCommand leaves it; the reader is empty.           *)
LEMMA Leaves ==
  ASSUME Waiting, NEW t \in Threads, pc[t] = "await", pc'[t] # "await", crossed' = crossed,
         ~crossed => answers' = <<>>,
         \A u \in Threads : u # t => pc'[u] = pc[u]
  PROVE  Waiting'
BY DEF Waiting

LEMMA ClaimEnds ==
  ASSUME NoClaim, Coherent, NEW t \in Threads, NEW v, NEW l, crossed' = crossed,
         Finish(t, v) \/ GoTo(t, l) \/ truth' = truth
  PROVE  NoClaim'
BY DEF NoClaim, Coherent, CallsOK, Finish, GoTo

(* The reply that is taken.                                                 *)
LEMMA ReplyTaken ==
  ASSUME Coherent, Waiting, NoClaim, NEW t \in Threads, RedisReply(t)
  PROVE  /\ pc[t] = "await" /\ call[t].k \in Keys /\ HasRedis
         /\ ~crossed => answers' = <<>> /\ Fits(call[t], Head(answers), store)
         /\ truth[call[t].k] # Unknown => Fits(call[t], Head(answers), store)
<1>1. pc[t] = "await" /\ link /\ answers' = Tail(answers)
  BY DEF RedisReply
<1>2. call[t].k \in Keys /\ HasRedis
  BY <1>1 DEF Coherent, CallsOK, Proper
<1>3. ASSUME ~crossed
      PROVE  answers' = <<>> /\ Fits(call[t], Head(answers), store)
  <2>1. PICK a : answers = <<a>> /\ Fits(call[t], a, store)
    BY <1>1, <1>3 DEF Waiting
  <2>2. Head(<<a>>) = a /\ Tail(<<a>>) = <<>>
    OBVIOUS
  <2>3. QED
    BY <1>1, <2>1, <2>2
<1>4. QED
  BY <1>1, <1>2, <1>3 DEF NoClaim

LEMMA RedisReplyStep ==
  ASSUME List, Coherent, Waiting, NoClaim, NEW t \in Threads, RedisReply(t)
  PROVE  List' /\ Coherent' /\ Waiting' /\ NoClaim'
<1>1. PICK c : c = call[t]
  OBVIOUS
<1>2. PICK v : v = Read(c, Head(answers))
  OBVIOUS
<1>3. /\ pc[t] = "await" /\ store' = store /\ UNCHANGED lru /\ m_items' = m_items /\ crossed' = crossed
      /\ link' = link
  BY DEF RedisReply, lru
<1>4. /\ c.k \in Keys /\ HasRedis /\ store \in [Keys -> Values \cup {None}]
      /\ ~HasLru => m_items' = <<>>
  BY <1>1, <1>3, ReplyTaken DEF Coherent, CallsOK
<1>5. /\ ~crossed => answers' = <<>> /\ Fits(c, Head(answers), store)
      /\ truth[c.k] # Unknown => Fits(c, Head(answers), store)
  BY <1>1, ReplyTaken
<1>6. CASE c.op = "get" /\ v \in Values /\ HasLru
  <2>1. /\ pc' = [pc EXCEPT ![t] = "backfill"]
        /\ call' = [call EXCEPT ![t] = [op |-> "get", k |-> c.k, v |-> v]]
        /\ UNCHANGED <<config, alone, truth>>
    BY <1>1, <1>2, <1>6 DEF RedisReply
  <2>2. truth[c.k] # Unknown => v = store[c.k]
    BY <1>2, <1>5, <1>6, Marks DEF Fits
  <2>3. m_capacity' = m_capacity
    BY <2>1 DEF config
  <2>4. Coherent'
    BY <1>1, <1>3, <1>6, <2>1, <2>2, OnToBackfill
  <2>5. pc'[t] # "await" /\ \A u \in Threads : u # t => pc'[u] = pc[u]
    BY <2>1 DEF Coherent, CallsOK
  <2>6. Waiting'
    BY <1>3, <1>5, <2>5, Leaves
  <2>7. NoClaim'
    BY <1>3, <2>1 DEF NoClaim
  <2>8. QED
    BY <1>3, <2>3, <2>4, <2>6, <2>7, SameList
<1>7. CASE ~(c.op = "get" /\ v \in Values /\ HasLru)
  <2>1. Finish(t, v)
    BY <1>1, <1>2, <1>7 DEF RedisReply
  <2>2. m_capacity' = m_capacity
    BY <2>1, Kept
  <2>3. Coherent'
    <3>1. CASE ~Writes(c)
      BY <1>1, <1>3, <1>4, <2>1, <3>1, EndOfRead
    <3>2. CASE Writes(c)
      <4>1. alone[t] => \A u : Holds(m_items', c.k, u) => u = c.v
        BY <1>1, <1>3, <3>2 DEF Coherent, HalfWritten
      <4>2. v # Failed /\ ~crossed => store'[c.k] = c.v
        BY <1>2, <1>3, <1>5, <3>2 DEF Fits
      <4>3. QED
        BY <1>1, <1>3, <1>4, <2>1, <3>2, <4>1, <4>2, EndOfCall
    <3>3. QED
      BY <3>1, <3>2
  <2>4. pc'[t] # "await" /\ \A u \in Threads : u # t => pc'[u] = pc[u]
    BY <2>1 DEF Coherent, CallsOK, Finish
  <2>5. Waiting'
    BY <1>3, <1>5, <2>4, Leaves
  <2>6. NoClaim'
    BY <1>3, <2>1, ClaimEnds
  <2>7. QED
    BY <1>3, <2>2, <2>3, <2>5, <2>6, SameList
<1>8. QED
  BY <1>6, <1>7

LEMMA RedisDownStep ==
  ASSUME List, Coherent, Waiting, NoClaim, NEW t \in Threads, RedisDown(t)
  PROVE  List' /\ Coherent' /\ Waiting' /\ NoClaim'
<1>1. /\ pc[t] \in {"redis", "await"} /\ ~link /\ UNCHANGED redis /\ store' = store
      /\ Finish(t, Failed) /\ UNCHANGED lru /\ m_items' = m_items /\ crossed' = crossed
      /\ answers' = answers
  BY DEF RedisDown, redis, lru
<1>2. (~HasLru => m_items' = <<>>) /\ store \in [Keys -> Values \cup {None}]
  BY <1>1 DEF Coherent, CallsOK
<1>3. Coherent'
  BY <1>1, <1>2, EndOfRead
<1>4. /\ pc'[t] # "await"
      /\ \A u \in Threads : u # t => pc'[u] = pc[u] /\ call'[u] = call[u]
  BY <1>1 DEF Coherent, CallsOK, Finish
<1>5. Waiting'
  <2>1. CASE pc[t] = "await"
    <3>1. ~crossed => answers' = <<>>
      BY <1>1 DEF Waiting
    <3>2. QED
      BY <1>1, <1>4, <2>1, <3>1, Leaves
  <2>2. CASE pc[t] # "await"
    BY <1>1, <1>4, <2>2, WaitsOn
  <2>3. QED
    BY <2>1, <2>2
<1>6. NoClaim'
  BY <1>1, ClaimEnds
<1>7. QED
  BY <1>1, <1>3, <1>5, <1>6, Kept, SameList

LEMMA RedisBreaksStep ==
  ASSUME List, Coherent, Waiting, NoClaim, RedisBreaks
  PROVE  List' /\ Coherent' /\ Waiting' /\ NoClaim'
<1>1. /\ UNCHANGED <<m_mode, m_capacity, lru, m_items, m_index, recent, store, crossed, pc, call, alone, truth>>
      /\ ~link' /\ answers' = <<>>
  BY DEF RedisBreaks, config, lru
<1>2. List'
  BY <1>1, SameList
<1>3. Coherent'
  BY <1>1 DEF Coherent, CallsOK, Apart, KnownKey, HalfWritten, HasLru, HasRedis, Writes
<1>4. Waiting' /\ NoClaim'
  BY <1>1 DEF Waiting, NoClaim
<1>5. QED
  BY <1>2, <1>3, <1>4

LEMMA BackfillStep ==
  ASSUME List, Coherent, NEW t \in Threads, Backfill(t)
  PROVE  List' /\ Coherent'
<1>1. /\ pc[t] = "backfill" /\ store' = store /\ LruPut(call[t].k, call[t].v)
      /\ Finish(t, call[t].v)
  BY DEF Backfill, redis
<1>2. /\ HasLru /\ call[t].k \in Keys /\ call[t].v \in Values /\ ~Writes(call[t])
      /\ store \in [Keys -> Values \cup {None}]
  BY <1>1 DEF Coherent, CallsOK, Proper, Writes
<1>3. m_capacity' = m_capacity
  BY <1>1, Kept
<1>4. List' /\ \A j, u : Holds(m_items', j, u) =>
        (j = call[t].k /\ u = call[t].v) \/ (j # call[t].k /\ Holds(m_items, j, u))
  BY <1>1, <1>2, <1>3, PutList
<1>5. truth[call[t].k] # Unknown => call[t].v = truth[call[t].k]
  BY <1>1, <1>2 DEF Coherent, KnownKey
<1>6. Coherent'
  BY <1>1, <1>2, <1>4, <1>5, EndOfCall
<1>7. QED
  BY <1>4, <1>6

(* The steps that leave Redis alone.                                        *)
LEMMA LocalStep ==
  ASSUME List, Coherent, NEW t \in Threads,
         GetLru(t) \/ SetLru(t) \/ EraseLru(t) \/ ContainsLru(t) \/ ClearLru(t) \/ Backfill(t)
  PROVE  /\ UNCHANGED redis /\ pc[t] # "await"
         /\ \E v : Finish(t, v) \/ GoTo(t, "redis")
BY DEF GetLru, SetLru, EraseLru, ContainsLru, ClearLru, Backfill, NextLayer

LEMMA LocalWaits ==
  ASSUME Coherent, Waiting, NoClaim, NEW t \in Threads, UNCHANGED redis, pc[t] # "await",
         \E v : Finish(t, v) \/ GoTo(t, "redis")
  PROVE  Waiting' /\ NoClaim'
<1>1. PICK v : Finish(t, v) \/ GoTo(t, "redis")
  OBVIOUS
<1>2. pc'[t] # "await" /\ \A u \in Threads : u # t => pc'[u] = pc[u] /\ call'[u] = call[u]
  BY <1>1 DEF Coherent, CallsOK, Finish, GoTo
<1>3. crossed' = crossed
  BY DEF redis
<1>4. QED
  BY <1>1, <1>2, <1>3, WaitsOn, ClaimEnds

LEMMA CacheStep ==
  List /\ Coherent /\ Waiting /\ NoClaim /\ [Next]_vars => List' /\ Coherent' /\ Waiting' /\ NoClaim'
<1> SUFFICES ASSUME List, Coherent, Waiting, NoClaim, [Next]_vars
             PROVE  List' /\ Coherent' /\ Waiting' /\ NoClaim'
  OBVIOUS
<1>1. ASSUME NEW t \in Threads, NEW c \in Calls \cup {Clear}, Enter(t, c)
      PROVE  List' /\ Coherent' /\ Waiting' /\ NoClaim'
  <2>1. UNCHANGED lru /\ m_capacity' = m_capacity /\ UNCHANGED redis /\ pc[t] = "idle"
    BY <1>1 DEF Enter, config
  <2>2. pc'[t] # "await" /\ \A u \in Threads : u # t => pc'[u] = pc[u] /\ call'[u] = call[u]
    BY <1>1 DEF Coherent, CallsOK, Enter
  <2>3. Waiting'
    BY <2>1, <2>2, WaitsOn
  <2>4. NoClaim'
    <3>1. crossed' = crossed /\ \A k \in Keys : truth'[k] \in {truth[k], Unknown}
      BY <1>1, <2>1 DEF Enter, redis, Coherent, CallsOK
    <3>2. QED
      BY <3>1 DEF NoClaim
  <2>5. QED
    BY <1>1, <2>1, <2>3, <2>4, SameList, EnterCoherent
<1>2. CASE UNCHANGED vars
  <2>1. List' /\ Coherent'
    BY <1>2 DEF vars, lru, redis, config, List, Coherent, CallsOK, Apart, KnownKey, HalfWritten,
                HasLru, HasRedis, Writes
  <2>2. Waiting' /\ NoClaim'
    BY <1>2 DEF vars, redis, Waiting, NoClaim
  <2>3. QED
    BY <2>1, <2>2
<1>3. ASSUME NEW t \in Threads, RedisSend(t) \/ RedisRefuses(t)
      PROVE  List' /\ Coherent' /\ Waiting' /\ NoClaim'
  <2>1. call[t].op # "clear"
    BY <1>3 DEF RedisSend, RedisRefuses, Sends
  <2>2. CASE RedisSend(t)
    BY <2>1, <2>2, AnswerFitsCall, SendWaits, RedisSendStep DEF RedisSend
  <2>3. CASE RedisRefuses(t)
    BY <2>1, <2>3, AnswerFitsCall, SendWaits, RedisSendStep DEF RedisRefuses
  <2>4. QED
    BY <1>3, <2>2, <2>3
<1>4. ASSUME NEW t \in Threads,
             GetLru(t) \/ SetLru(t) \/ EraseLru(t) \/ ContainsLru(t) \/ ClearLru(t) \/ Backfill(t)
      PROVE  List' /\ Coherent' /\ Waiting' /\ NoClaim'
  <2>1. Waiting' /\ NoClaim'
    BY <1>4, LocalStep, LocalWaits
  <2>2. QED
    BY <1>4, <2>1, GetLruStep, SetLruStep, EraseLruStep, ContainsLruStep, ClearLruStep, BackfillStep
<1>5. QED
  BY <1>1, <1>2, <1>3, <1>4, RedisReplyStep, RedisDownStep, RedisBreaksStep DEF Next

LEMMA CacheInit == Init => List /\ Coherent /\ Waiting /\ NoClaim
<1> SUFFICES ASSUME Init
             PROVE  List /\ Coherent /\ Waiting /\ NoClaim
  OBVIOUS
<1>0. m_capacity \in Nat /\ m_mode \in Modes
  BY SetupsProper DEF Init
<1>1. List /\ \A j, u : ~Holds(m_items, j, u)
  BY <1>0, EmptyList DEF Init
<1>2. store \in [Keys -> Values \cup {None}] /\ truth = store
  BY DEF Init
<1>3. pc \in [Threads -> Places] /\ \A t \in Threads : pc[t] = "idle"
  BY DEF Init, Places
<1>4. call \in [Threads -> Call] /\ \A t \in Threads : call[t] = Clear
  BY CallFields DEF Init
<1>5. alone \in [Threads -> BOOLEAN] /\ m_items = <<>>
  BY DEF Init
<1>6. CallsOK
  BY <1>0, <1>2, <1>3, <1>4, <1>5, CallFields DEF CallsOK
<1>7. Coherent
  BY <1>1, <1>2, <1>3, <1>6 DEF Coherent, Apart, KnownKey, HalfWritten
<1>8. Waiting /\ NoClaim
  BY <1>3 DEF Init, Waiting, NoClaim
<1>9. QED
  BY <1>1, <1>7, <1>8

LEMMA CacheInvariant == Spec => [](List /\ Coherent /\ Waiting /\ NoClaim)
BY CacheInit, CacheStep, PTL DEF Spec

-----------------------------------------------------------------------------
(* The properties                                                           *)

(* The list and the hash map of LRUCache hold the same keys, each once and  *)
(* never more than the capacity, whatever get, set, erase, contains and     *)
(* clear of the adapter interleave.                                         *)
THEOREM ListAndIndexAgree == Spec => []IndexMatchesList
<1>1. ASSUME List
      PROVE  IndexMatchesList
  <2>1. DOMAIN m_items = 1..Len(m_items) /\ Shape(m_items, recent) /\ Len(m_items) \in Nat
        /\ Len(recent) \in Nat
    BY <1>1, ListLen, LenProperties DEF List, Shape
  <2>2. IsInjective([i \in DOMAIN m_items |-> m_items[i][1]])
    BY <2>1 DEF IsInjective, Shape, Distinct
  <2>3. m_index = {m_items[i][1] : i \in DOMAIN m_items}
    BY <1>1, <2>1 DEF List, Has
  <2>4. QED
    BY <1>1, <2>2, <2>3 DEF IndexMatchesList, List
<1>2. QED
  BY <1>1, CacheInvariant, PTL

(* Eviction in LRUCache::put never takes a key used after one it keeps: the *)
(* list holds the keys of the last puts and hits, in that order.            *)
THEOREM EvictsLeastRecent == Spec => []KeepsMostRecent
<1>1. ASSUME List
      PROVE  KeepsMostRecent
  <2>1. DOMAIN m_items = 1..Len(m_items)
    BY <1>1, LenProperties DEF List, Shape
  <2>2. QED
    BY <1>1, <2>1 DEF KeepsMostRecent, List, Shape
<1>2. QED
  BY <1>1, CacheInvariant, PTL

(* The answer that ends a get or contains of thread t.                      *)
Answered(t, v) ==
  /\ pc[t] # "idle" /\ alone[t] /\ call[t].op \in {"get", "contains"}
  /\ truth[call[t].k] # Unknown
  => Faithful(call[t], v, truth[call[t].k])

LEMMA AnswersFit ==
  ASSUME List, Coherent, NEW t \in Threads, pc[t] # "idle", call[t].op \in {"get", "contains"},
         truth[call[t].k] # Unknown
  PROVE  /\ call[t].k \in Keys /\ KnownKey(call[t].k)
         /\ Faithful(call[t], Failed, truth[call[t].k])
         /\ truth[call[t].k] \in Values \cup {None}
         /\ \A v \in Values : call[t].op = "get" /\ v = truth[call[t].k]
              => Faithful(call[t], v, truth[call[t].k])
         /\ call[t].op = "contains" /\ truth[call[t].k] # None
              => Faithful(call[t], Found, truth[call[t].k])
         /\ truth[call[t].k] = None \/ m_mode = "LRU_ONLY" => Faithful(call[t], None, truth[call[t].k])
<1>1. call[t].k \in Keys /\ KnownKey(call[t].k) /\ truth[call[t].k] \in Values \cup {None}
  BY DEF Coherent, CallsOK, Proper
<1>2. QED
  BY <1>1, Marks DEF Faithful

(* FreshRead of one step.                                                   *)
FreshStep ==
  \A t \in Threads :
    LET c == call[t] IN
    (/\ pc[t] # "idle" /\ pc'[t] = "idle" /\ alone[t]
     /\ c.op \in {"get", "contains"} /\ truth[c.k] # Unknown)
    => Faithful(c, ret', truth[c.k])

LEMMA EndsFresh ==
  ASSUME Coherent, NEW t \in Threads, NEW v, Finish(t, v), Answered(t, v)
  PROVE  FreshStep
<1>1. ret' = v /\ \A u \in Threads : u # t => pc'[u] = pc[u]
  BY DEF Coherent, CallsOK, Finish
<1>2. QED
  BY <1>1 DEF FreshStep, Answered

LEMMA GoesOnFresh ==
  ASSUME Coherent, NEW t \in Threads, NEW l, l # "idle", pc' = [pc EXCEPT ![t] = l]
  PROVE  FreshStep
<1>1. pc'[t] # "idle" /\ \A u \in Threads : u # t => pc'[u] = pc[u]
  BY DEF Coherent, CallsOK
<1>2. QED
  BY <1>1 DEF FreshStep

LEMMA LruFresh ==
  ASSUME List, Coherent, NEW t \in Threads,
         GetLru(t) \/ SetLru(t) \/ EraseLru(t) \/ ContainsLru(t) \/ ClearLru(t)
  PROVE  FreshStep
<1>1. ASSUME NEW v, NextLayer(t, v), pc[t] = "lru", v # None => Answered(t, v)
      PROVE  FreshStep
  <2>1. CASE HasRedis /\ v = None
    <3>1. pc' = [pc EXCEPT ![t] = "redis"]
      BY <1>1, <2>1 DEF NextLayer, GoTo
    <3>2. QED
      BY <3>1, GoesOnFresh
  <2>2. CASE ~(HasRedis /\ v = None)
    <3>1. Finish(t, v)
      BY <1>1, <2>2 DEF NextLayer
    <3>2. v = None => m_mode = "LRU_ONLY"
      BY <2>2 DEF HasRedis, Coherent, CallsOK, Modes
    <3>3. Answered(t, v)
      BY <1>1, <3>2, AnswersFit DEF Answered
    <3>4. QED
      BY <3>1, <3>3, EndsFresh
  <2>3. QED
    BY <2>1, <2>2
<1>2. CASE GetLru(t)
  <2>1. PICK k : k = call[t].k
    OBVIOUS
  <2>2. pc[t] = "lru" /\ call[t].op = "get"
    BY <1>2 DEF GetLru
  <2>3. CASE k \in m_index /\ Finish(t, ItemOf(k)[2])
    <3>1. Holds(m_items, k, ItemOf(k)[2]) /\ ItemOf(k)[2] \in Values
      BY <2>3, ItemFound
    <3>2. Answered(t, ItemOf(k)[2])
      BY <2>1, <2>2, <3>1, AnswersFit DEF Answered, KnownKey
    <3>3. QED
      BY <2>3, <3>2, EndsFresh
  <2>4. CASE NextLayer(t, None)
    BY <1>1, <2>2, <2>4
  <2>5. QED
    BY <1>2, <2>1, <2>3, <2>4 DEF GetLru
<1>3. CASE SetLru(t) \/ EraseLru(t)
  BY <1>1, <1>3 DEF SetLru, EraseLru
<1>4. CASE ContainsLru(t)
  <2>1. pc[t] = "lru" /\ call[t].op = "contains"
    BY <1>4 DEF ContainsLru
  <2>2. CASE call[t].k \in m_index /\ NextLayer(t, Found)
    <3>1. PICK u \in Values : Holds(m_items, call[t].k, u)
      BY <2>2, ItemFound
    <3>2. Answered(t, Found)
      BY <2>1, <3>1, AnswersFit, Marks DEF Answered, KnownKey
    <3>3. QED
      BY <1>1, <2>1, <2>2, <3>2
  <2>3. CASE NextLayer(t, None)
    BY <1>1, <2>1, <2>3
  <2>4. QED
    BY <1>4, <2>2, <2>3 DEF ContainsLru
<1>5. CASE ClearLru(t)
  <2>1. Finish(t, None) /\ call[t].op = "clear"
    BY <1>5 DEF ClearLru
  <2>2. Answered(t, None)
    BY <2>1 DEF Answered
  <2>3. QED
    BY <2>1, <2>2, EndsFresh
<1>6. QED
  BY <1>2, <1>3, <1>4, <1>5

LEMMA RedisFresh ==
  ASSUME List, Coherent, Waiting, NoClaim, NEW t \in Threads,
         RedisSend(t) \/ RedisRefuses(t) \/ RedisReply(t) \/ RedisDown(t) \/ Backfill(t)
  PROVE  FreshStep
<1>1. CASE RedisReply(t)
  <2>1. PICK c : c = call[t]
    OBVIOUS
  <2>2. PICK v : v = Read(c, Head(answers))
    OBVIOUS
  <2>3. /\ pc[t] = "await" /\ HasRedis
        /\ truth[c.k] # Unknown => Fits(c, Head(answers), store)
    BY <1>1, <2>1, ReplyTaken
  <2>4. CASE c.op = "get" /\ v \in Values /\ HasLru
    <3>1. pc' = [pc EXCEPT ![t] = "backfill"]
      BY <1>1, <2>1, <2>2, <2>4 DEF RedisReply
    <3>2. QED
      BY <3>1, GoesOnFresh
  <2>5. CASE ~(c.op = "get" /\ v \in Values /\ HasLru)
    <3>1. Finish(t, v)
      BY <1>1, <2>1, <2>2, <2>5 DEF RedisReply
    <3>2. ASSUME c.op \in {"get", "contains"}, truth[c.k] # Unknown
          PROVE  Faithful(c, v, truth[c.k])
      <4>1. store[c.k] = truth[c.k] /\ truth[c.k] \in Values \cup {None}
        BY <2>1, <2>3, <3>2, AnswersFit DEF KnownKey
      <4>2. CASE c.op = "get"
        <5>1. v \in {Failed, truth[c.k]}
          BY <2>2, <2>3, <3>2, <4>1, <4>2 DEF Fits
        <5>2. QED
          BY <2>1, <2>3, <3>2, <4>1, <4>2, <5>1, AnswersFit
      <4>3. CASE c.op = "contains"
        <5>1. v \in {Failed, IF truth[c.k] = None THEN None ELSE Found}
          BY <2>2, <2>3, <3>2, <4>1, <4>3 DEF Fits
        <5>2. QED
          BY <2>1, <2>3, <3>2, <4>1, <4>3, <5>1, AnswersFit
      <4>4. QED
        BY <3>2, <4>2, <4>3
    <3>3. Answered(t, v)
      BY <2>1, <3>2 DEF Answered
    <3>4. QED
      BY <3>1, <3>3, EndsFresh
  <2>6. QED
    BY <2>4, <2>5
<1>2. CASE RedisDown(t)
  <2>1. Finish(t, Failed)
    BY <1>2 DEF RedisDown
  <2>2. Answered(t, Failed)
    BY AnswersFit DEF Answered
  <2>3. QED
    BY <2>1, <2>2, EndsFresh
<1>5. CASE RedisSend(t) \/ RedisRefuses(t)
  <2>1. pc' = [pc EXCEPT ![t] = "await"]
    BY <1>5 DEF RedisSend, RedisRefuses, Sends
  <2>2. QED
    BY <2>1, GoesOnFresh
<1>3. CASE Backfill(t)
  <2>1. pc[t] = "backfill" /\ Finish(t, call[t].v)
    BY <1>3 DEF Backfill
  <2>2. call[t].op = "get" /\ call[t].v \in Values
    BY <2>1 DEF Coherent, CallsOK
  <2>3. Answered(t, call[t].v)
    BY <2>1, <2>2, AnswersFit DEF Answered, KnownKey
  <2>4. QED
    BY <2>1, <2>3, EndsFresh
<1>4. QED
  BY <1>1, <1>2, <1>3, <1>5

(* A get or contains of the adapter that no write of its key overlaps       *)
(* answers with the last undisturbed write that Redis carried out, whichever *)
(* of the two layers it is answered from.                                   *)
THEOREM ReadsAreFresh == Spec => FreshRead
<1>1. ASSUME List, Coherent, Waiting, NoClaim, [Next]_vars
      PROVE  [FreshStep]_vars
  <2>1. ASSUME NEW t \in Threads, NEW c \in Calls \cup {Clear}, Enter(t, c)
        PROVE  FreshStep
    <3>1. pc' = [pc EXCEPT ![t] = "lru"] \/ pc' = [pc EXCEPT ![t] = "redis"]
      BY <2>1 DEF Enter
    <3>2. QED
      BY <1>1, <3>1, GoesOnFresh
  <2>2. CASE RedisBreaks
    BY <2>2 DEF RedisBreaks, FreshStep
  <2>3. QED
    BY <1>1, <2>1, <2>2, LruFresh, RedisFresh DEF Next
<1>2. Spec => [][FreshStep]_vars
  BY <1>1, CacheInvariant, PTL DEF Spec
<1>3. QED
  BY <1>2 DEF FreshRead, FreshStep
==============================================================================
