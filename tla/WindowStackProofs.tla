------------------------- MODULE WindowStackProofs -------------------------
(***************************************************************************)
(* Proofs about WindowStack for every set of windows, sessions and outputs *)
(* and every number of panels.                                             *)
(***************************************************************************)
EXTENDS WindowStack, WellFoundedInduction, TLAPS

-----------------------------------------------------------------------------
(***************************************************************************)
(* Sequences.                                                              *)
(*                                                                         *)
(* Only is a recursive function: that it exists, and what it selects, is   *)
(* shown by induction over the length, here over a set of numbers that     *)
(* holds 0 and the successor of each of its members.                       *)
(***************************************************************************)
Before == {p \in Nat \X Nat : p[1] < p[2]}

LEMMA BeforeWF == IsWellFoundedOn(Before, Nat)
  BY NatLessThanWellFounded DEF OpToRel, Before

LEMMA AllNaturals ==
  ASSUME NEW T \in SUBSET Nat, 0 \in T, \A n \in T : n + 1 \in T
  PROVE  T = Nat
<1> SUFFICES ASSUME Nat \ T # {}
             PROVE  FALSE
  OBVIOUS
<1>1. PICK n \in Nat \ T : \A k \in Nat \ T : <<k, n>> \notin Before
  BY BeforeWF, WFMin
<1>2. n # 0 /\ n - 1 \in Nat /\ n - 1 < n
  OBVIOUS
<1>3. <<n - 1, n>> \in Nat \X Nat /\ <<n - 1, n>>[1] < <<n - 1, n>>[2]
  BY <1>2
<1>4. n - 1 \in T
  BY <1>1, <1>2, <1>3 DEF Before
<1>5. (n - 1) + 1 \in T
  BY <1>4
<1>6. QED
  BY <1>2, <1>5

\* f is the recursive function of Only as far as n.
Selecting(f, s, T, n) ==
  f = [m \in 0..n |->
         IF m = 0 THEN <<>>
         ELSE IF s[m] \in T THEN Append(f[m - 1], s[m]) ELSE f[m - 1]]

LEMMA SelectingExists ==
  ASSUME NEW s, NEW T, NEW l \in Nat
  PROVE  \E f : Selecting(f, s, T, l)
<1> DEFINE N == {n \in Nat : \E f : Selecting(f, s, T, n)}
<1>1. 0 \in N
  <2> DEFINE f == [m \in 0..0 |-> <<>>]
  <2>1. Selecting(f, s, T, 0)
    BY DEF Selecting
  <2>2. QED
    BY <2>1
<1>2. ASSUME NEW n \in N
      PROVE  n + 1 \in N
  <2>1. PICK f : Selecting(f, s, T, n)
    BY <1>2
  <2> DEFINE g == [m \in 0..(n + 1) |->
                     IF m = n + 1
                     THEN IF s[m] \in T THEN Append(f[n], s[m]) ELSE f[n]
                     ELSE f[m]]
  <2>2. \A m \in 0..n : g[m] = f[m]
    OBVIOUS
  <2>3. ASSUME NEW m \in 0..(n + 1)
        PROVE  g[m] = IF m = 0 THEN <<>>
                      ELSE IF s[m] \in T THEN Append(g[m - 1], s[m]) ELSE g[m - 1]
    <3>1. CASE m = n + 1
      BY <2>2, <3>1
    <3>2. CASE m \in 0..n
      <4>1. f[m] = IF m = 0 THEN <<>>
                   ELSE IF s[m] \in T THEN Append(f[m - 1], s[m]) ELSE f[m - 1]
        BY <2>1, <3>2 DEF Selecting
      <4>2. m = 0 \/ m - 1 \in 0..n
        BY <3>2
      <4>3. QED
        BY <2>2, <3>2, <4>1, <4>2
    <3>3. QED
      BY <3>1, <3>2
  <2>4. Selecting(g, s, T, n + 1)
    <3> HIDE DEF g
    <3>1. g = [m \in 0..(n + 1) |-> g[m]]
      BY DEF g
    <3>2. QED
      BY <2>3, <3>1 DEF Selecting
  <2>5. QED
    BY <2>4
<1>3. N = Nat
  <2> HIDE DEF N
  <2>1. N \in SUBSET Nat
    BY DEF N
  <2>2. QED
    BY <1>1, <1>2, <2>1, AllNaturals
<1>4. QED
  BY <1>3

LEMMA OnlySelects ==
  ASSUME NEW s, Len(s) \in Nat, NEW T
  PROVE  \E f : Selecting(f, s, T, Len(s)) /\ Only(s, T) = f[Len(s)]
<1> DEFINE f == CHOOSE g : g = [n \in 0..Len(s) |->
                                 IF n = 0 THEN <<>>
                                 ELSE IF s[n] \in T THEN Append(g[n - 1], s[n])
                                 ELSE g[n - 1]]
<1>1. \E g : g = [n \in 0..Len(s) |->
                   IF n = 0 THEN <<>>
                   ELSE IF s[n] \in T THEN Append(g[n - 1], s[n]) ELSE g[n - 1]]
  <2>1. \E g : Selecting(g, s, T, Len(s))
    BY SelectingExists
  <2>2. QED
    BY <2>1 DEF Selecting
<1>2. Selecting(f, s, T, Len(s))
  BY <1>1 DEF Selecting
<1>3. Only(s, T) = f[Len(s)]
  BY DEF Only
<1>4. QED
  BY <1>2, <1>3
\* q selects the members of T among the first n elements of s, in order.
Selection(q, s, T, n) ==
  /\ Len(q) <= n
  /\ \A i \in DOMAIN q : \E a \in 1..n : q[i] = s[a] /\ s[a] \in T
  /\ \A a \in 1..n : s[a] \in T => \E i \in DOMAIN q : q[i] = s[a]
  /\ \A i, j \in DOMAIN q : i < j =>
       \E a, b \in 1..n : a < b /\ q[i] = s[a] /\ q[j] = s[b]

LEMMA AppendFacts ==
  ASSUME NEW S, NEW q \in Seq(S), NEW e \in S
  PROVE  /\ Append(q, e) \in Seq(S)
         /\ Len(q) \in Nat /\ Len(Append(q, e)) = Len(q) + 1
         /\ DOMAIN Append(q, e) = 1 .. Len(q) + 1
         /\ DOMAIN q = 1 .. Len(q)
         /\ \A i \in DOMAIN q : Append(q, e)[i] = q[i]
         /\ Append(q, e)[Len(q) + 1] = e
OBVIOUS

LEMMA SelectionStep ==
  ASSUME NEW S, NEW s \in Seq(S), NEW T, NEW n \in Nat, n + 1 <= Len(s),
         NEW q \in Seq(S), Selection(q, s, T, n)
  PROVE  LET r == IF s[n + 1] \in T THEN Append(q, s[n + 1]) ELSE q
         IN  r \in Seq(S) /\ Selection(r, s, T, n + 1)
<1>1. s[n + 1] \in S /\ n + 1 \in 1..(n + 1) /\ \A a \in 1..n : a \in 1..(n + 1) /\ a < n + 1
  OBVIOUS
<1>2. CASE s[n + 1] \notin T
  <2>1. \A a \in 1..(n + 1) : s[a] \in T => a \in 1..n
    BY <1>2
  <2>2. Selection(q, s, T, n + 1)
    <3>1. Len(q) \in Nat /\ Len(q) <= n + 1
      BY DEF Selection
    <3>2. QED
      BY <1>1, <2>1, <3>1 DEF Selection
  <2>3. QED
    BY <1>2, <2>2
<1>3. CASE s[n + 1] \in T
  <2> DEFINE r == Append(q, s[n + 1])
  <2>1. /\ r \in Seq(S) /\ Len(q) \in Nat /\ Len(r) = Len(q) + 1
        /\ DOMAIN r = 1 .. Len(q) + 1 /\ DOMAIN q = 1 .. Len(q)
        /\ \A i \in DOMAIN q : r[i] = q[i]
        /\ r[Len(q) + 1] = s[n + 1]
    BY <1>1, AppendFacts
  <2>2. \A i \in DOMAIN r : i \in DOMAIN q \/ i = Len(q) + 1
    BY <2>1
  <2> HIDE DEF r
  <2>3. ASSUME NEW i \in DOMAIN r
        PROVE  \E a \in 1..(n + 1) : r[i] = s[a] /\ s[a] \in T
    BY <1>1, <1>3, <2>1, <2>2 DEF Selection
  <2>4. ASSUME NEW a \in 1..(n + 1), s[a] \in T
        PROVE  \E i \in DOMAIN r : r[i] = s[a]
    <3>1. CASE a = n + 1
      BY <2>1, <3>1
    <3>2. CASE a \in 1..n
      BY <2>1, <2>4, <3>2 DEF Selection
    <3>3. QED
      BY <3>1, <3>2
  <2>5. ASSUME NEW i \in DOMAIN r, NEW j \in DOMAIN r, i < j
        PROVE  \E a, b \in 1..(n + 1) : a < b /\ r[i] = s[a] /\ r[j] = s[b]
    <3>1. i \in DOMAIN q
      BY <2>1, <2>5
    <3>2. CASE j \in DOMAIN q
      <4>1. PICK a \in 1..n, b \in 1..n : a < b /\ q[i] = s[a] /\ q[j] = s[b]
        BY <2>5, <3>1, <3>2 DEF Selection
      <4>2. QED
        BY <1>1, <2>1, <3>1, <3>2, <4>1
    <3>3. CASE j = Len(q) + 1
      <4>1. PICK a \in 1..n : q[i] = s[a]
        BY <3>1 DEF Selection
      <4>2. QED
        BY <1>1, <2>1, <3>1, <3>3, <4>1
    <3>4. QED
      BY <2>2, <3>2, <3>3
  <2>6. Selection(r, s, T, n + 1)
    <3>1. Len(r) <= n + 1
      BY <2>1 DEF Selection
    <3>2. QED
      BY <2>3, <2>4, <2>5, <3>1 DEF Selection
  <2>7. QED
    BY <1>3, <2>1, <2>6 DEF r
<1>4. QED
  BY <1>2, <1>3

\* What is kept of a sequence, and in which order.
LEMMA OnlyFacts ==
  ASSUME NEW S, NEW s \in Seq(S), NEW T
  PROVE  Only(s, T) \in Seq(S) /\ Selection(Only(s, T), s, T, Len(s))
<1>1. PICK f : Selecting(f, s, T, Len(s)) /\ Only(s, T) = f[Len(s)]
  BY OnlySelects
<1> DEFINE N == {n \in Nat : n <= Len(s) => f[n] \in Seq(S) /\ Selection(f[n], s, T, n)}
<1>2. Len(s) \in Nat
  OBVIOUS
<1>3. 0 \in N
  <2>1. f[0] = <<>>
    BY <1>1, <1>2 DEF Selecting
  <2>2. <<>> \in Seq(S) /\ DOMAIN <<>> = {} /\ 1..0 = {} /\ Len(<<>>) <= 0
    OBVIOUS
  <2>3. Selection(<<>>, s, T, 0)
    BY <2>2 DEF Selection
  <2>4. QED
    BY <2>1, <2>2, <2>3
<1>4. ASSUME NEW n \in N
      PROVE  n + 1 \in N
  <2> SUFFICES ASSUME n + 1 <= Len(s)
               PROVE  f[n + 1] \in Seq(S) /\ Selection(f[n + 1], s, T, n + 1)
    OBVIOUS
  <2>1. f[n] \in Seq(S) /\ Selection(f[n], s, T, n)
    BY <1>2
  <2>2. f[n + 1] = IF s[n + 1] \in T THEN Append(f[n], s[n + 1]) ELSE f[n]
    <3>1. n + 1 \in 0..Len(s) /\ n + 1 # 0 /\ (n + 1) - 1 = n
      BY <1>2
    <3>2. QED
      BY <1>1, <3>1 DEF Selecting
  <2>3. QED
    BY <2>1, <2>2, SelectionStep
<1>5. N = Nat
  <2> HIDE DEF N
  <2>1. N \in SUBSET Nat
    BY DEF N
  <2>2. QED
    BY <1>3, <1>4, <2>1, AllNaturals
<1>6. QED
  BY <1>1, <1>2, <1>5
\* What is kept of a sequence without repetitions.
LEMMA OnlyKeeps ==
  ASSUME NEW S, NEW s \in Seq(S), NEW T, Once(s)
  PROVE  /\ Only(s, T) \in Seq(S) /\ Once(Only(s, T)) /\ Len(Only(s, T)) <= Len(s)
         /\ Elems(Only(s, T)) = Elems(s) \cap T
         /\ \A u, v : Below(Only(s, T), u, v) => Below(s, u, v)
<1> DEFINE q == Only(s, T)
<1>1. q \in Seq(S) /\ Selection(q, s, T, Len(s)) /\ DOMAIN s = 1..Len(s)
  BY OnlyFacts
<1> HIDE DEF q
<1>2. Elems(q) = Elems(s) \cap T
  <2>1. ASSUME NEW i \in DOMAIN q
        PROVE  \E a \in DOMAIN s : q[i] = s[a] /\ s[a] \in T
    BY <1>1 DEF Selection
  <2>2. ASSUME NEW a \in DOMAIN s, s[a] \in T
        PROVE  \E i \in DOMAIN q : q[i] = s[a]
    BY <1>1, <2>2 DEF Selection
  <2>3. QED
    BY <2>1, <2>2 DEF Elems
<1>3. ASSUME NEW u, NEW v, Below(q, u, v)
      PROVE  Below(s, u, v)
  <2>1. PICK i \in DOMAIN q, j \in DOMAIN q : i < j /\ q[i] = u /\ q[j] = v
    BY <1>3 DEF Below
  <2>2. PICK a \in 1..Len(s), b \in 1..Len(s) : a < b /\ q[i] = s[a] /\ q[j] = s[b]
    BY <1>1, <2>1 DEF Selection
  <2>3. QED
    BY <1>1, <2>1, <2>2 DEF Below
<1>4. Once(q)
  <2> SUFFICES ASSUME NEW i \in DOMAIN q, NEW j \in DOMAIN q, i < j, q[i] = q[j]
               PROVE  FALSE
    <3>1. DOMAIN q = 1..Len(q) /\ Len(q) \in Nat
      BY <1>1
    <3>2. \A i, j \in DOMAIN q : i < j \/ j < i \/ i = j
      BY <3>1
    <3>3. QED
      BY <3>2 DEF Once
  <2>1. PICK a \in 1..Len(s), b \in 1..Len(s) : a < b /\ q[i] = s[a] /\ q[j] = s[b]
    BY <1>1 DEF Selection
  <2>2. a = b
    BY <1>1, <2>1 DEF Once
  <2>3. QED
    BY <2>1, <2>2
<1>5. QED
  BY <1>1, <1>2, <1>3, <1>4 DEF q, Selection

\* Two elements of a sequence without repetitions stand in one order.
LEMMA OneOrder ==
  ASSUME NEW S, NEW s \in Seq(S), Once(s), NEW u, NEW v
  PROVE  /\ ~(Below(s, u, v) /\ Below(s, v, u))
         /\ u \in Elems(s) /\ v \in Elems(s) /\ u # v => Below(s, u, v) \/ Below(s, v, u)
         /\ Below(s, u, v) => u \in Elems(s) /\ v \in Elems(s) /\ u # v
<1>1. DOMAIN s = 1..Len(s) /\ Len(s) \in Nat
  OBVIOUS
<1>2. ~(Below(s, u, v) /\ Below(s, v, u))
  <2> SUFFICES ASSUME NEW i \in DOMAIN s, NEW j \in DOMAIN s, NEW k \in DOMAIN s,
                      NEW l \in DOMAIN s, i < j, s[i] = u, s[j] = v,
                      k < l, s[k] = v, s[l] = u
               PROVE  FALSE
    BY DEF Below
  <2>1. i = l /\ j = k
    BY DEF Once
  <2>2. QED
    BY <1>1, <2>1
<1>3. ASSUME u \in Elems(s), v \in Elems(s), u # v
      PROVE  Below(s, u, v) \/ Below(s, v, u)
  <2>1. PICK i \in DOMAIN s, j \in DOMAIN s : s[i] = u /\ s[j] = v
    BY <1>3 DEF Elems
  <2>2. i < j \/ j < i
    BY <1>1, <1>3, <2>1
  <2>3. QED
    BY <2>1, <2>2 DEF Below
<1>4. ASSUME Below(s, u, v)
      PROVE  u \in Elems(s) /\ v \in Elems(s) /\ u # v
  <2>1. PICK i \in DOMAIN s, j \in DOMAIN s : i < j /\ s[i] = u /\ s[j] = v
    BY <1>4 DEF Below
  <2>2. i # j
    BY <1>1, <2>1
  <2>3. QED
    BY <2>1, <2>2 DEF Elems, Once
<1>5. QED
  BY <1>2, <1>3, <1>4

\* The element in front is the one with every other below it.
LEMMA TopFacts ==
  ASSUME NEW s \in Seq(Window), Once(s)
  PROVE  /\ s = <<>> => Top(s) = NoWindow
         /\ s # <<>> => Top(s) \in Elems(s)
         /\ Elems(s) \subseteq Window
         /\ Elems(s) = {} <=> s = <<>>
         /\ \A u \in Elems(s) : u # Top(s) => Below(s, u, Top(s))
         /\ \A u \in Elems(s) : (\A v \in Elems(s) : ~Below(s, u, v)) => u = Top(s)
         /\ \A v \in Elems(s) : ~Below(s, Top(s), v)
<1>1. DOMAIN s = 1..Len(s) /\ Len(s) \in Nat /\ (s # <<>> => Len(s) \in 1..Len(s))
  OBVIOUS
<1>2. Elems(s) \subseteq Window /\ (s # <<>> => Top(s) \in Elems(s))
  BY <1>1 DEF Elems, Top
<1>3. Elems(s) = {} <=> s = <<>>
  <2>1. CASE s = <<>>
    BY <2>1 DEF Elems
  <2>2. CASE s # <<>>
    BY <1>2, <2>2
  <2>3. QED
    BY <2>1, <2>2
<1>4. ASSUME NEW u \in Elems(s), u # Top(s)
      PROVE  Below(s, u, Top(s))
  <2>1. PICK i \in DOMAIN s : s[i] = u
    BY DEF Elems
  <2>2. s # <<>> /\ i # Len(s)
    BY <1>1, <1>4, <2>1 DEF Top
  <2>3. i < Len(s) /\ Len(s) \in DOMAIN s
    BY <1>1, <2>2
  <2>4. QED
    BY <2>1, <2>2, <2>3 DEF Below, Top
<1>5. \A u \in Elems(s) : (\A v \in Elems(s) : ~Below(s, u, v)) => u = Top(s)
  BY <1>2, <1>3, <1>4
<1>6. \A v \in Elems(s) : ~Below(s, Top(s), v)
  BY <1>2, <1>3, <1>4, OneOrder
<1>7. QED
  BY <1>2, <1>3, <1>4, <1>5, <1>6 DEF Top
LEMMA ConcatFacts ==
  ASSUME NEW S, NEW p \in Seq(S), NEW q \in Seq(S)
  PROVE  /\ p \o q \in Seq(S) /\ Len(p) \in Nat /\ Len(q) \in Nat
         /\ Len(p \o q) = Len(p) + Len(q)
         /\ DOMAIN (p \o q) = 1..(Len(p) + Len(q))
         /\ DOMAIN p = 1..Len(p) /\ DOMAIN q = 1..Len(q)
         /\ \A i \in 1..(Len(p) + Len(q)) :
              (p \o q)[i] = IF i <= Len(p) THEN p[i] ELSE q[i - Len(p)]
OBVIOUS

\* One sequence put in front of another with no element in common.
LEMMA Joined ==
  ASSUME NEW S, NEW p \in Seq(S), NEW q \in Seq(S), Once(p), Once(q),
         Elems(p) \cap Elems(q) = {}
  PROVE  /\ p \o q \in Seq(S) /\ Once(p \o q)
         /\ Elems(p \o q) = Elems(p) \cup Elems(q)
         /\ \A u, v : Below(p \o q, u, v) =>
              Below(p, u, v) \/ Below(q, u, v) \/ (u \in Elems(p) /\ v \in Elems(q))
<1> DEFINE r == p \o q
           m == Len(p)
           n == Len(q)
<1>1. /\ r \in Seq(S) /\ m \in Nat /\ n \in Nat
      /\ DOMAIN r = 1..(m + n) /\ DOMAIN p = 1..m /\ DOMAIN q = 1..n
      /\ \A i \in 1..(m + n) : r[i] = IF i <= m THEN p[i] ELSE q[i - m]
  BY ConcatFacts
<1> HIDE DEF r, m, n
<1>2. \A i \in DOMAIN r : \/ i \in DOMAIN p /\ r[i] = p[i]
                          \/ i - m \in DOMAIN q /\ r[i] = q[i - m] /\ i > m
  BY <1>1
<1>3. /\ \A i \in DOMAIN p : i \in DOMAIN r /\ r[i] = p[i] /\ i <= m
      /\ \A i \in DOMAIN q : i + m \in DOMAIN r /\ r[i + m] = q[i]
  <2>1. \A i \in DOMAIN q : (i + m) - m = i /\ i + m \in 1..(m + n) /\ ~(i + m <= m)
    BY <1>1
  <2>2. QED
    BY <1>1, <2>1
<1>4. Elems(r) = Elems(p) \cup Elems(q)
  BY <1>2, <1>3 DEF Elems
<1>5. Once(r)
  <2> SUFFICES ASSUME NEW i \in DOMAIN r, NEW j \in DOMAIN r, r[i] = r[j]
               PROVE  i = j
    BY DEF Once
  <2>1. i \in Nat /\ j \in Nat
    BY <1>1
  <2>2. CASE i \in DOMAIN p /\ r[i] = p[i] /\ j \in DOMAIN p /\ r[j] = p[j]
    BY <2>2 DEF Once
  <2>3. CASE /\ i - m \in DOMAIN q /\ r[i] = q[i - m]
             /\ j - m \in DOMAIN q /\ r[j] = q[j - m]
    <3>1. i - m = j - m
      BY <2>3 DEF Once
    <3>2. QED
      BY <1>1, <2>1, <3>1
  <2>4. QED
    BY <1>2, <2>2, <2>3 DEF Elems
<1>6. ASSUME NEW u, NEW v, Below(r, u, v)
      PROVE  Below(p, u, v) \/ Below(q, u, v) \/ (u \in Elems(p) /\ v \in Elems(q))
  <2>1. PICK i \in DOMAIN r, j \in DOMAIN r : i < j /\ r[i] = u /\ r[j] = v
    BY <1>6 DEF Below
  <2>2. i \in Nat /\ j \in Nat
    BY <1>1
  <2>3. CASE i \in DOMAIN p /\ r[i] = p[i] /\ j \in DOMAIN p /\ r[j] = p[j]
    BY <2>1, <2>3 DEF Below
  <2>4. CASE i \in DOMAIN p /\ r[i] = p[i] /\ j - m \in DOMAIN q /\ r[j] = q[j - m]
    BY <2>1, <2>4 DEF Elems
  <2>5. CASE /\ i - m \in DOMAIN q /\ r[i] = q[i - m]
             /\ j - m \in DOMAIN q /\ r[j] = q[j - m]
    <3>1. i - m < j - m
      BY <1>1, <2>1, <2>2
    <3>2. QED
      BY <2>1, <2>5, <3>1 DEF Below
  <2>6. CASE i - m \in DOMAIN q /\ i > m /\ j \in DOMAIN p
    BY <1>1, <1>3, <2>1, <2>2, <2>6
  <2>7. QED
    BY <1>2, <2>3, <2>4, <2>5, <2>6
<1>7. QED
  BY <1>1, <1>4, <1>5, <1>6 DEF r

\* A window put in front of a stack it is not in.
LEMMA PutOnTop ==
  ASSUME NEW s \in Seq(Window), Once(s), NEW w \in Window \ Elems(s)
  PROVE  /\ Append(s, w) \in Seq(Window) /\ Once(Append(s, w))
         /\ Elems(Append(s, w)) = Elems(s) \cup {w}
         /\ Top(Append(s, w)) = w
         /\ \A u, v : Below(Append(s, w), u, v) => v = w \/ Below(s, u, v)
<1> DEFINE q == <<w>>
<1>1. /\ q \in Seq(Window) /\ Once(q) /\ Elems(q) = {w}
      /\ \A u, v : ~Below(q, u, v)
      /\ Append(s, w) = s \o q
  BY DEF Once, Elems, Below
<1>2. Top(Append(s, w)) = w
  BY AppendFacts DEF Top
<1> HIDE DEF q
<1>3. Elems(s) \cap Elems(q) = {}
  BY <1>1
<1>4. QED
  BY <1>1, <1>2, <1>3, Joined
LEMMA TakenOut ==
  ASSUME NEW S, NEW s \in Seq(S), Once(s), NEW w
  PROVE  /\ Without(s, w) \in Seq(S) /\ Once(Without(s, w))
         /\ Len(Without(s, w)) <= Len(s)
         /\ Elems(Without(s, w)) = Elems(s) \ {w}
         /\ \A u, v : Below(Without(s, w), u, v) => Below(s, u, v)
<1>1. Elems(s) \cap (Elems(s) \ {w}) = Elems(s) \ {w}
  OBVIOUS
<1>2. QED
  BY <1>1, OnlyKeeps DEF Without

LEMMA Raised ==
  ASSUME NEW s \in Seq(Window), Once(s), NEW w \in Window
  PROVE  /\ ToTop(s, w) \in Seq(Window) /\ Once(ToTop(s, w))
         /\ Elems(ToTop(s, w)) = Elems(s) \cup {w}
         /\ Top(ToTop(s, w)) = w
         /\ \A u, v : Below(ToTop(s, w), u, v) => v = w \/ Below(s, u, v)
<1> DEFINE r == Without(s, w)
<1>1. /\ r \in Seq(Window) /\ Once(r) /\ Elems(r) = Elems(s) \ {w}
      /\ \A u, v : Below(r, u, v) => Below(s, u, v)
  BY TakenOut
<1> HIDE DEF r
<1>2. /\ Append(r, w) \in Seq(Window) /\ Once(Append(r, w))
      /\ Elems(Append(r, w)) = Elems(r) \cup {w}
      /\ Top(Append(r, w)) = w
      /\ \A u, v : Below(Append(r, w), u, v) => v = w \/ Below(r, u, v)
  BY <1>1, PutOnTop
<1>3. Elems(Append(r, w)) = Elems(s) \cup {w}
  BY <1>1, <1>2
<1>4. QED
  BY <1>1, <1>2, <1>3 DEF r, ToTop

\* The panels go beneath the applications, and nothing else moves.
LEMMA Lowered ==
  ASSUME NEW s \in Seq(Window), Once(s), NEW ps
  PROVE  LET low == LowerPanels(s, ps)
         IN  /\ low \in Seq(Window) /\ Once(low) /\ Elems(low) = Elems(s)
             /\ \A u, v : Below(low, u, v) =>
                  \/ u \in Elems(ps) /\ v \notin Elems(ps)
                  \/ Below(s, u, v) /\ (u \in Elems(ps) <=> v \in Elems(ps))
<1> DEFINE p == Only(s, Elems(ps))
           q == Only(s, Elems(s) \ Elems(ps))
<1>1. /\ p \in Seq(Window) /\ Once(p) /\ Elems(p) = Elems(s) \cap Elems(ps)
      /\ \A u, v : Below(p, u, v) => Below(s, u, v)
  BY OnlyKeeps
<1>2. /\ q \in Seq(Window) /\ Once(q) /\ Elems(q) = Elems(s) \cap (Elems(s) \ Elems(ps))
      /\ \A u, v : Below(q, u, v) => Below(s, u, v)
  BY OnlyKeeps
<1>3. LowerPanels(s, ps) = p \o q
  BY DEF LowerPanels
<1> HIDE DEF p, q
<1>4. Elems(p) \cap Elems(q) = {} /\ Elems(p) \cup Elems(q) = Elems(s)
  BY <1>1, <1>2
<1>5. /\ p \o q \in Seq(Window) /\ Once(p \o q)
      /\ Elems(p \o q) = Elems(p) \cup Elems(q)
      /\ \A u, v : Below(p \o q, u, v) =>
           Below(p, u, v) \/ Below(q, u, v) \/ (u \in Elems(p) /\ v \in Elems(q))
  BY <1>1, <1>2, <1>4, Joined
<1>6. /\ \A u, v : Below(p, u, v) => u \in Elems(p) /\ v \in Elems(p)
      /\ \A u, v : Below(q, u, v) => u \in Elems(q) /\ v \in Elems(q)
  BY <1>1, <1>2, OneOrder
<1>7. \A u, v : Below(p \o q, u, v) =>
        \/ u \in Elems(ps) /\ v \notin Elems(ps)
        \/ Below(s, u, v) /\ (u \in Elems(ps) <=> v \in Elems(ps))
  BY <1>1, <1>2, <1>5, <1>6
<1>8. QED
  BY <1>3, <1>4, <1>5, <1>7

\* A window in front that is no panel stays in front when the panels are lowered.
LEMMA LoweredFront ==
  ASSUME NEW s \in Seq(Window), Once(s), NEW ps, NEW a \in Elems(s) \ Elems(ps),
         \A x \in Elems(s) \ Elems(ps) : ~Below(s, a, x)
  PROVE  Top(LowerPanels(s, ps)) = a
<1> DEFINE low == LowerPanels(s, ps)
<1>1. /\ low \in Seq(Window) /\ Once(low) /\ Elems(low) = Elems(s)
      /\ \A u, v : Below(low, u, v) =>
           \/ u \in Elems(ps) /\ v \notin Elems(ps)
           \/ Below(s, u, v) /\ (u \in Elems(ps) <=> v \in Elems(ps))
  BY Lowered
<1> HIDE DEF low
<1>2. \A v \in Elems(low) : ~Below(low, a, v)
  BY <1>1
<1>3. QED
  BY <1>1, <1>2, TopFacts DEF low
\* A window that may not cover the one in front goes beneath it.
LEMMA SlippedUnder ==
  ASSUME NEW s \in Seq(Window), Once(s), NEW w \in Window \ Elems(s)
  PROVE  LET r == BelowTop(Append(s, w), w)
         IN  /\ r \in Seq(Window) /\ Once(r) /\ Elems(r) = Elems(s) \cup {w}
             /\ Top(r) = IF s = <<>> THEN w ELSE Top(s)
             /\ \A u, v : Below(r, u, v) => u = w \/ v = w \/ Below(s, u, v)
<1> DEFINE r == BelowTop(Append(s, w), w)
           n == Len(s)
<1>1. n \in Nat /\ DOMAIN s = 1..n /\ (s # <<>> <=> n > 0)
  OBVIOUS
<1>2. /\ Append(s, w) \in Seq(Window) /\ Len(Append(s, w)) = n + 1
      /\ \A i \in 1..n : Append(s, w)[i] = s[i]
      /\ Top(Append(s, w)) = w
  BY AppendFacts, PutOnTop
<1>3. CASE s = <<>>
  <2>1. r = Append(s, w)
    BY <1>1, <1>2, <1>3 DEF BelowTop
  <2> HIDE DEF r
  <2>2. /\ r \in Seq(Window) /\ Once(r) /\ Elems(r) = Elems(s) \cup {w} /\ Top(r) = w
        /\ \A u, v : Below(r, u, v) => v = w \/ Below(s, u, v)
    BY <2>1, PutOnTop
  <2>3. QED
    BY <1>3, <2>2 DEF r
<1>4. CASE s # <<>>
  <2>1. r = SubSeq(Append(s, w), 1, n - 1) \o <<w, s[n]>>
    <3>1. n + 1 > 1 /\ (n + 1) - 2 = n - 1 /\ (n + 1) - 1 = n /\ n \in 1..n
      BY <1>1, <1>4
    <3>2. QED
      BY <1>2, <3>1 DEF BelowTop
  <2> DEFINE p == SubSeq(Append(s, w), 1, n - 1)
             q == <<w, s[n]>>
  <2>2. /\ p \in Seq(Window) /\ DOMAIN p = 1..(n - 1)
        /\ \A i \in 1..(n - 1) : p[i] = s[i] /\ i \in DOMAIN s /\ i < n
        /\ n \in DOMAIN s
    <3>1. n - 1 <= Len(Append(s, w)) /\ n - 1 \in Nat /\ n \in DOMAIN s
      BY <1>1, <1>2, <1>4
    <3>2. p \in Seq(Window) /\ DOMAIN p = 1..(n - 1)
          /\ \A i \in 1..(n - 1) : p[i] = Append(s, w)[i]
      BY <1>2, <3>1
    <3>3. QED
      BY <1>1, <1>2, <3>1, <3>2
  <2>3. /\ q \in Seq(Window) /\ DOMAIN q = {1, 2} /\ q[1] = w /\ q[2] = s[n]
        /\ Len(q) = 2
    BY <2>2
  <2>4. s[n] \in Elems(s) /\ s[n] # w /\ s[n] \in Window
    BY <2>2 DEF Elems
  <2> HIDE DEF p, q, r, n
  <2>5. Once(p) /\ Elems(p) = Elems(s) \ {s[n]}
    <3>1. Once(p)
      BY <2>2 DEF Once
    <3>2. ASSUME NEW i \in DOMAIN p
          PROVE  p[i] \in Elems(s) \ {s[n]}
      BY <2>2 DEF Once, Elems
    <3>3. ASSUME NEW i \in DOMAIN s, s[i] # s[n]
          PROVE  s[i] \in Elems(p)
      <4>1. i \in 1..(n - 1)
        BY <1>1, <3>3
      <4>2. QED
        BY <2>2, <4>1 DEF Elems
    <3>4. QED
      BY <3>1, <3>2, <3>3 DEF Elems
  <2>6. Once(q) /\ Elems(q) = {w, s[n]}
    BY <2>3, <2>4 DEF Once, Elems
  <2>7. Elems(p) \cap Elems(q) = {}
    BY <2>5, <2>6
  <2>8. /\ p \o q \in Seq(Window) /\ Once(p \o q)
        /\ Elems(p \o q) = Elems(p) \cup Elems(q)
        /\ \A u, v : Below(p \o q, u, v) =>
             Below(p, u, v) \/ Below(q, u, v) \/ (u \in Elems(p) /\ v \in Elems(q))
    BY <2>2, <2>3, <2>5, <2>6, <2>7, Joined
  <2>9. \A u, v : Below(p, u, v) => Below(s, u, v)
    BY <2>2 DEF Below
  <2>10. \A u, v : Below(q, u, v) => u = w
    BY <2>3 DEF Below
  <2>11. \A u \in Elems(p) : Below(s, u, s[n])
    BY <2>2 DEF Below, Elems
  <2>12. Top(p \o q) = s[n] /\ Top(s) = s[n]
    <3>1. Len(p \o q) = (n - 1) + 2 /\ (p \o q)[(n - 1) + 2] = q[2]
      <4>1. p \in Seq(Window) /\ q \in Seq(Window)
        BY <2>2, <2>3
      <4>2. /\ Len(p \o q) = Len(p) + Len(q) /\ DOMAIN p = 1..Len(p) /\ Len(p) \in Nat
            /\ \A i \in 1..(Len(p) + Len(q)) :
                 (p \o q)[i] = IF i <= Len(p) THEN p[i] ELSE q[i - Len(p)]
        BY <4>1, ConcatFacts
      <4>3. Len(p) = n - 1
        BY <1>1, <1>4, <2>2, <4>2
      <4>4. /\ (n - 1) + 2 \in 1..(Len(p) + Len(q))
            /\ ~((n - 1) + 2 <= Len(p)) /\ ((n - 1) + 2) - Len(p) = 2
        BY <1>1, <2>3, <4>3
      <4>5. QED
        BY <2>3, <4>2, <4>3, <4>4
    <3>2. QED
      BY <1>1, <1>4, <2>3, <3>1 DEF Top, n
  <2>13. Elems(p \o q) = Elems(s) \cup {w}
    BY <2>4, <2>5, <2>6, <2>8
  <2>14. \A u, v : Below(p \o q, u, v) => u = w \/ v = w \/ Below(s, u, v)
    BY <2>6, <2>8, <2>9, <2>10, <2>11
  <2>15. r = p \o q
    BY <2>1 DEF p, q
  <2>16. QED
    BY <1>4, <2>8, <2>12, <2>13, <2>14, <2>15 DEF r
<1>5. QED
  BY <1>3, <1>4
LEMMA Greatest ==
  ASSUME NEW n \in Nat, NEW A \in SUBSET (1..n), A # {}
  PROVE  \E i \in A : \A j \in A : j <= i
<1> DEFINE D == {n - i : i \in A}
<1>1. D \in SUBSET Nat /\ D # {}
  <2>1. \A i \in A : n - i \in Nat
    OBVIOUS
  <2>2. PICK i \in A : TRUE
    OBVIOUS
  <2>3. QED
    BY <2>1, <2>2
<1>2. PICK m \in D : \A k \in D : <<k, m>> \notin Before
  BY <1>1, BeforeWF, WFMin
<1>3. PICK i \in A : m = n - i
  OBVIOUS
<1>4. ASSUME NEW j \in A, ~(j <= i)
      PROVE  FALSE
  <2>1. n - j \in D /\ n - j < n - i /\ n - j \in Nat /\ n - i \in Nat
    BY <1>4
  <2>2. <<n - j, m>> \in Before
    BY <1>3, <2>1 DEF Before
  <2>3. QED
    BY <1>2, <2>1, <2>2
<1>5. QED
  BY <1>4

\* The window that inherits the focus is one of those left.
LEMMA HeirFacts ==
  ASSUME NEW s \in Seq(Window), NEW ps
  PROVE  /\ s = <<>> => Heir(s, ps) = NoWindow
         /\ s # <<>> => Heir(s, ps) \in Elems(s)
<1> DEFINE apps == {i \in DOMAIN s : s[i] \notin Elems(ps)}
<1>1. DOMAIN s = 1..Len(s) /\ Len(s) \in Nat /\ (s = <<>> => DOMAIN s = {})
      /\ (s # <<>> => 1 \in DOMAIN s)
  OBVIOUS
<1>2. CASE apps = {}
  BY <1>1, <1>2 DEF Heir, Elems
<1>3. CASE apps # {}
  <2>1. \E i \in apps : \A j \in apps : j <= i
    BY <1>1, <1>3, Greatest
  <2>2. (CHOOSE i \in apps : \A j \in apps : j <= i) \in apps
    BY <2>1
  <2>3. QED
    BY <1>1, <1>3, <2>2 DEF Heir, Elems
<1>4. QED
  BY <1>2, <1>3
-----------------------------------------------------------------------------
(***************************************************************************)
(* The area left for the applications.                                     *)
(***************************************************************************)
\* f is the recursive function of WorkArea as far as n.
Reserving(f, h, strips, n) ==
  f = [m \in 0..n |->
         IF m = 0 THEN [y |-> 0, h |-> h] ELSE Reserve(f[m - 1], strips[m])]

LEMMA ReservingExists ==
  ASSUME NEW h, NEW strips, NEW l \in Nat
  PROVE  \E f : Reserving(f, h, strips, l)
<1> DEFINE N == {n \in Nat : \E f : Reserving(f, h, strips, n)}
<1>1. 0 \in N
  <2> DEFINE f == [m \in 0..0 |-> [y |-> 0, h |-> h]]
  <2>1. Reserving(f, h, strips, 0)
    BY DEF Reserving
  <2>2. QED
    BY <2>1
<1>2. ASSUME NEW n \in N
      PROVE  n + 1 \in N
  <2>1. PICK f : Reserving(f, h, strips, n)
    BY <1>2
  <2> DEFINE g == [m \in 0..(n + 1) |->
                     IF m = n + 1 THEN Reserve(f[n], strips[m]) ELSE f[m]]
  <2>2. \A m \in 0..n : g[m] = f[m]
    OBVIOUS
  <2>3. ASSUME NEW m \in 0..(n + 1)
        PROVE  g[m] = IF m = 0 THEN [y |-> 0, h |-> h]
                      ELSE Reserve(g[m - 1], strips[m])
    <3>1. CASE m = n + 1
      BY <2>2, <3>1
    <3>2. CASE m \in 0..n
      <4>1. f[m] = IF m = 0 THEN [y |-> 0, h |-> h] ELSE Reserve(f[m - 1], strips[m])
        BY <2>1, <3>2 DEF Reserving
      <4>2. m = 0 \/ m - 1 \in 0..n
        BY <3>2
      <4>3. QED
        BY <2>2, <3>2, <4>1, <4>2
    <3>3. QED
      BY <3>1, <3>2
  <2>4. Reserving(g, h, strips, n + 1)
    <3> HIDE DEF g
    <3>1. g = [m \in 0..(n + 1) |-> g[m]]
      BY DEF g
    <3>2. QED
      BY <2>3, <3>1 DEF Reserving
  <2>5. QED
    BY <2>4
<1>3. N = Nat
  <2> HIDE DEF N
  <2>1. N \in SUBSET Nat
    BY DEF N
  <2>2. QED
    BY <1>1, <1>2, <2>1, AllNaturals
<1>4. QED
  BY <1>3

\* Inside an output of height h.
Inside(area, h) ==
  /\ area \in Geometry
  /\ 0 <= area.y /\ area.y + area.h <= h

LEMMA ReserveInside ==
  ASSUME NEW h \in Nat, NEW z \in Zone \cup {NoZone}, NEW area, Inside(area, h)
  PROVE  Inside(Reserve(area, z), h)
  BY WindowAssumption DEF Inside, Geometry, Reserve, NoZone, Least

\* The work area starts on the output and, unless the strips cover all of it,
\* lies within it; it is never empty.
LEMMA WorkAreaInside ==
  ASSUME NEW h \in Nat \ {0}, NEW strips \in Seq(Zone \cup {NoZone})
  PROVE  LET area == WorkArea(h, strips)
         IN  /\ area \in Geometry /\ area.h >= 1
             /\ Inside(area, h) \/ (area.h = 1 /\ 0 <= area.y /\ area.y <= h)
<1> DEFINE l == Len(strips)
           f == CHOOSE g : g = [n \in 0..l |->
                                  IF n = 0 THEN [y |-> 0, h |-> h]
                                  ELSE Reserve(g[n - 1], strips[n])]
<1>1. l \in Nat /\ \A n \in 1..l : strips[n] \in Zone \cup {NoZone}
  OBVIOUS
<1>2. Reserving(f, h, strips, l)
  <2>1. \E g : Reserving(g, h, strips, l)
    BY <1>1, ReservingExists
  <2>2. \E g : g = [n \in 0..l |-> IF n = 0 THEN [y |-> 0, h |-> h]
                                   ELSE Reserve(g[n - 1], strips[n])]
    BY <2>1 DEF Reserving
  <2>3. QED
    BY <2>2 DEF Reserving
<1>3. WorkArea(h, strips) = [f[l] EXCEPT !.h = IF @ = 0 THEN 1 ELSE @]
  BY DEF WorkArea
<1> HIDE DEF f
<1> DEFINE N == {n \in Nat : n <= l => Inside(f[n], h)}
<1>4. 0 \in N
  <2>1. f[0] = [y |-> 0, h |-> h]
    BY <1>1, <1>2 DEF Reserving
  <2>2. QED
    BY <2>1 DEF Inside, Geometry
<1>5. ASSUME NEW n \in N
      PROVE  n + 1 \in N
  <2> SUFFICES ASSUME n + 1 <= l
               PROVE  Inside(f[n + 1], h)
    OBVIOUS
  <2>1. n + 1 \in 0..l /\ n + 1 # 0 /\ (n + 1) - 1 = n /\ n + 1 \in 1..l
    BY <1>1
  <2>2. f[n + 1] = Reserve(f[n], strips[n + 1])
    BY <1>2, <2>1 DEF Reserving
  <2>3. Inside(f[n], h)
    BY <1>1
  <2>4. strips[n + 1] \in Zone \cup {NoZone}
    BY <1>1, <2>1
  <2>5. Inside(Reserve(f[n], strips[n + 1]), h)
    BY <2>3, <2>4, ReserveInside
  <2>6. QED
    BY <2>2, <2>5
<1>6. N = Nat
  <2> HIDE DEF N
  <2>1. N \in SUBSET Nat
    BY DEF N
  <2>2. QED
    BY <1>4, <1>5, <2>1, AllNaturals
<1>7. Inside(f[l], h)
  BY <1>1, <1>6
<1>8. QED
  BY <1>3, <1>7 DEF Inside, Geometry
-----------------------------------------------------------------------------
(***************************************************************************)
(* Stacking and focus.                                                     *)
(***************************************************************************)
\* The window with focus is in front only while each panel that is lowered
\* was lowered before, or had the focus: with one panel at a time.
Shape ==
  /\ stack \in Seq(Window) /\ Once(stack)
  /\ focus \in Window \cup {NoWindow}
  /\ panels \in Seq(Window) /\ Once(panels) /\ Len(panels) <= MaxPanels
  /\ toplevels \subseteq Window /\ Mapped \subseteq toplevels
  /\ FocusInFront

\* A step that moves no window.
LEMMA StillOrder ==
  ASSUME Shape, UNCHANGED stack
  PROVE  OrderStands /\ CoversNothing
  BY OneOrder DEF Shape, OrderStands, CoversNothing

\* A window is raised and gets the focus.
LEMMA ActivateStep ==
  ASSUME Shape, NEW w \in Mapped, Activate(w), UNCHANGED <<toplevels, panels>>
  PROVE  Shape' /\ OrderStands /\ CoversNothing
<1>1. w \in Window /\ stack \in Seq(Window) /\ Once(stack)
  BY TopFacts DEF Shape, Mapped
<1>2. /\ stack' \in Seq(Window) /\ Once(stack') /\ Elems(stack') = Mapped
      /\ Top(stack') = w /\ focus' = w
      /\ \A u, v : Below(stack', u, v) => v = w \/ Below(stack, u, v)
  <2>1. stack' = ToTop(stack, w) /\ focus' = w /\ Elems(stack) \cup {w} = Mapped
    BY DEF Activate, Mapped
  <2>2. QED
    BY <1>1, <2>1, Raised
<1>3. FocusInFront' /\ Mapped' = Mapped
  BY <1>2 DEF FocusInFront, Mapped
<1>4. OrderStands
  BY <1>1, <1>2, OneOrder DEF OrderStands
<1>5. CoversNothing
  BY DEF CoversNothing
<1>6. QED
  BY <1>1, <1>2, <1>3, <1>4, <1>5 DEF Shape

\* A window closes.
LEMMA CloseStep ==
  ASSUME Shape, NEW w \in Window, NEW ps, Closed(w, ps)
  PROVE  /\ stack' \in Seq(Window) /\ Once(stack') /\ Mapped' = Mapped \ {w}
         /\ focus' \in Window \cup {NoWindow}
         /\ FocusInFront' /\ OrderStands
<1> DEFINE rest == Without(stack, w)
           heir == Heir(rest, ps)
<1>1. stack \in Seq(Window) /\ Once(stack)
  BY DEF Shape
<1>2. /\ rest \in Seq(Window) /\ Once(rest) /\ Elems(rest) = Mapped \ {w}
      /\ \A u, v : Below(rest, u, v) => Below(stack, u, v)
  BY <1>1, TakenOut DEF Mapped
<1>3. /\ heir = NoWindow => rest = <<>>
      /\ heir # NoWindow => heir \in Elems(rest) /\ heir \in Window
  BY <1>2, HeirFacts, TopFacts, WindowAssumption
<1>4. CASE w \in Mapped /\ focus \in {w, NoWindow} /\ heir = NoWindow
  <2>1. stack' = rest /\ focus' = NoWindow
    BY <1>4 DEF Closed
  <2>2. FocusInFront' /\ OrderStands
    BY <1>1, <1>2, <2>1, OneOrder DEF FocusInFront, OrderStands
  <2>3. QED
    BY <1>2, <2>1, <2>2 DEF Mapped
<1>5. CASE w \in Mapped /\ focus \in {w, NoWindow} /\ heir # NoWindow
  <2>1. stack' = ToTop(rest, heir) /\ focus' = heir
    BY <1>5 DEF Closed
  <2> HIDE DEF rest, heir
  <2>2. /\ stack' \in Seq(Window) /\ Once(stack')
        /\ Elems(stack') = Elems(rest) /\ Top(stack') = heir
        /\ \A u, v : Below(stack', u, v) => v = heir \/ Below(rest, u, v)
    <3>1. Elems(rest) \cup {heir} = Elems(rest)
      BY <1>3, <1>5
    <3>2. QED
      BY <1>2, <1>3, <1>5, <2>1, <3>1, Raised
  <2>3. FocusInFront'
    BY <1>3, <1>5, <2>1, <2>2 DEF FocusInFront, Mapped
  <2>4. OrderStands
    BY <1>1, <1>2, <2>1, <2>2, OneOrder DEF OrderStands
  <2>5. QED
    BY <1>2, <1>3, <1>5, <2>1, <2>2, <2>3, <2>4 DEF Mapped
<1>6. CASE ~(w \in Mapped /\ focus \in {w, NoWindow})
  <2>1. stack' = rest /\ focus' = focus
    BY <1>6 DEF Closed
  <2> HIDE DEF rest, heir
  <2>2. FocusInFront'
    <3> SUFFICES ASSUME focus # NoWindow
                 PROVE  focus \in Elems(rest) /\ (MaxPanels <= 1 => focus = Top(rest))
      BY <2>1 DEF FocusInFront, Mapped
    <3>1. focus \in Mapped /\ (MaxPanels <= 1 => focus = Top(stack))
      BY DEF Shape, FocusInFront
    <3>2. focus \in Elems(rest)
      BY <1>2, <1>6, <3>1
    <3>3. ASSUME MaxPanels <= 1
          PROVE  focus = Top(rest)
      <4>1. \A v \in Elems(rest) : ~Below(rest, focus, v)
        BY <1>1, <1>2, <3>1, <3>3, TopFacts DEF Mapped
      <4>2. QED
        BY <1>2, <3>2, <4>1, TopFacts
    <3>4. QED
      BY <3>2, <3>3
  <2>3. OrderStands
    BY <1>1, <1>2, <2>1, OneOrder DEF OrderStands
  <2>4. QED
    BY <1>2, <2>1, <2>2, <2>3 DEF Mapped, Shape
<1>7. QED
  BY <1>4, <1>5, <1>6
\* The panels are lowered: `order` is the stack with at most a new panel.
LEMMA FitStep ==
  ASSUME Shape, NEW order \in Seq(Window), Once(order), NEW z,
         panels' \in Seq(Window), Once(panels'), Len(panels') <= MaxPanels,
         FitPanels(order, panels', z),
         Mapped \subseteq Elems(order),
         \A x \in Elems(order) : x \in Mapped \/ x \in Elems(panels'),
         \A u, v : Below(order, u, v) => Below(stack, u, v) \/ v \notin Mapped
  PROVE  /\ stack' \in Seq(Window) /\ Once(stack') /\ Mapped' = Elems(order)
         /\ focus' \in Window \cup {NoWindow}
         /\ FocusInFront' /\ OrderStands
         /\ stack # <<>> /\ Top(stack) \notin Elems(panels') => Top(stack') = Top(stack)
<1>1. PICK ps : ps = panels'
  OBVIOUS
<1>2. /\ stack \in Seq(Window) /\ Once(stack) /\ ps \in Seq(Window)
      /\ stack' = LowerPanels(order, ps)
  BY <1>1 DEF Shape, FitPanels, PlaceWindows
<1>3. /\ stack' \in Seq(Window) /\ Once(stack') /\ Elems(stack') = Elems(order)
      /\ \A u, v : Below(stack', u, v) =>
           \/ u \in Elems(ps) /\ v \notin Elems(ps)
           \/ Below(order, u, v) /\ (u \in Elems(ps) <=> v \in Elems(ps))
  BY <1>2, Lowered
<1>4. stack # <<>> /\ Top(stack) \notin Elems(ps) => Top(stack') = Top(stack)
  <2> SUFFICES ASSUME stack # <<>>, Top(stack) \notin Elems(ps)
               PROVE  Top(stack') = Top(stack)
    OBVIOUS
  <2>1. Top(stack) \in Mapped /\ \A v \in Mapped : ~Below(stack, Top(stack), v)
    BY <1>2, TopFacts DEF Mapped
  <2>2. Top(stack) \in Elems(order) \ Elems(ps)
    BY <2>1
  <2>3. \A x \in Elems(order) \ Elems(ps) : ~Below(order, Top(stack), x)
    BY <1>1, <2>1
  <2>4. QED
    BY <1>2, <2>2, <2>3, LoweredFront
<1>5. OrderStands
  <2> SUFFICES ASSUME NEW u \in Window, NEW v \in Window,
                      Below(stack, u, v), Below(stack', v, u)
               PROVE  v \in Elems(ps) /\ u \notin Elems(ps)
    BY <1>1 DEF OrderStands
  <2>1. u \in Mapped /\ ~Below(stack, v, u)
    BY <1>2, OneOrder DEF Mapped
  <2>2. QED
    BY <1>3, <2>1
<1>6. focus' \in Window \cup {NoWindow} /\ FocusInFront'
  <2>1. CASE focus \in Elems(ps) /\ Top(stack') # NoWindow /\ Top(stack') \notin Elems(ps)
    <3>1. focus' = Top(stack')
      BY <1>1, <1>2, <2>1 DEF FitPanels
    <3>2. Top(stack') \in Elems(stack') /\ Elems(stack') \subseteq Window
      BY <1>3, <2>1, TopFacts
    <3>3. QED
      BY <3>1, <3>2 DEF FocusInFront, Mapped
  <2>2. CASE ~(focus \in Elems(ps) /\ Top(stack') # NoWindow /\ Top(stack') \notin Elems(ps))
    <3>1. focus' = focus
      BY <1>1, <1>2, <2>2 DEF FitPanels
    <3>2. ASSUME focus # NoWindow
          PROVE  focus \in Elems(stack')
      BY <1>3, <3>2 DEF Shape, FocusInFront
    <3>3. ASSUME focus # NoWindow, MaxPanels <= 1
          PROVE  focus = Top(stack')
      <4>1. focus = Top(stack) /\ stack # <<>>
        BY <1>2, <3>3, TopFacts DEF Shape, FocusInFront
      <4>2. CASE focus \notin Elems(ps)
        BY <1>4, <4>1, <4>2
      <4>3. CASE focus \in Elems(ps)
        <5>1. Top(stack') \in Elems(stack') /\ Elems(stack') \subseteq Window
          BY <1>3, <3>2, <3>3, TopFacts
        <5>2. Top(stack') \in Elems(ps)
          BY <2>2, <4>3, <5>1, WindowAssumption
        <5>3. \A x, y \in Elems(ps) : x = y
          <6>1. Len(ps) \in Nat /\ DOMAIN ps = 1..Len(ps) /\ Len(ps) <= 1
            BY <1>1, <1>2, <3>3, WindowAssumption
          <6>2. \A i, j \in DOMAIN ps : i = j
            BY <6>1
          <6>3. QED
            BY <6>2 DEF Elems
        <5>4. QED
          BY <4>3, <5>2, <5>3
      <4>4. QED
        BY <4>2, <4>3
    <3>4. QED
      BY <3>1, <3>2, <3>3 DEF FocusInFront, Mapped, Shape
  <2>3. QED
    BY <2>1, <2>2
<1>7. QED
  BY <1>1, <1>3, <1>4, <1>5, <1>6 DEF Mapped
\* A panel added to the registered ones.
LEMMA PanelAdded ==
  ASSUME NEW w \in Window, panels \in Seq(Window), Once(panels), ~IsPanel(w),
         Len(panels) < MaxPanels
  PROVE  /\ Append(panels, w) \in Seq(Window) /\ Once(Append(panels, w))
         /\ Len(Append(panels, w)) <= MaxPanels
         /\ Elems(Append(panels, w)) = Elems(panels) \cup {w}
<1>1. Len(panels) \in Nat /\ Len(Append(panels, w)) = Len(panels) + 1
  BY AppendFacts
<1>2. w \notin Elems(panels)
  BY DEF IsPanel
<1>3. QED
  BY <1>1, <1>2, PutOnTop, WindowAssumption

LEMMA ShapeStep ==
  ASSUME Shape, [Next]_vars
  PROVE  Shape' /\ [OrderStands /\ CoversNothing]_vars
<1> USE DEF panelVars, sessionVars, winVars
<1>1. /\ stack \in Seq(Window) /\ Once(stack) /\ panels \in Seq(Window) /\ Once(panels)
      /\ Mapped \subseteq toplevels /\ toplevels \subseteq Window
  BY DEF Shape
<1>2. ASSUME NEW w \in Window, MapWindow(w)
      PROVE  Shape' /\ OrderStands /\ CoversNothing
  <2>1. /\ w \notin toplevels /\ toplevels' = toplevels \cup {w} /\ panels' = panels
        /\ w \in Window \ Elems(stack)
    BY <1>1, <1>2 DEF MapWindow, Mapped
  <2> DEFINE order == Append(stack, w)
  <2>2. /\ order \in Seq(Window) /\ Once(order) /\ Elems(order) = Mapped \cup {w}
        /\ Top(order) = w
        /\ \A u, v : Below(order, u, v) => v = w \/ Below(stack, u, v)
    BY <1>1, <2>1, PutOnTop DEF Mapped
  <2>3. CASE IsPanel(w) /\ FitPanels(order, panels, zone)
    <3> HIDE DEF order
    <3>1. /\ Mapped \subseteq Elems(order)
          /\ \A x \in Elems(order) : x \in Mapped \/ x \in Elems(panels')
          /\ \A u, v : Below(order, u, v) => Below(stack, u, v) \/ v \notin Mapped
      BY <2>1, <2>2, <2>3 DEF IsPanel, Mapped
    <3>2. FitPanels(order, panels', zone) /\ Len(panels') <= MaxPanels
          /\ panels' \in Seq(Window) /\ Once(panels')
      BY <1>1, <2>1, <2>3 DEF Shape
    <3>3. /\ stack' \in Seq(Window) /\ Once(stack') /\ Mapped' = Elems(order)
          /\ focus' \in Window \cup {NoWindow}
          /\ FocusInFront' /\ OrderStands
          /\ stack # <<>> /\ Top(stack) \notin Elems(panels') => Top(stack') = Top(stack)
      BY <2>2, <3>1, <3>2, FitStep
    <3>4. Shape'
      BY <1>1, <2>1, <2>2, <3>2, <3>3 DEF Shape
    <3>5. CoversNothing
      BY <2>1, <3>3 DEF CoversNothing, IsPanel
    <3>6. QED
      BY <3>3, <3>4, <3>5
  <2>4. CASE PlaceWindows(order, outs, panels, zone) /\ focus' = w
    <3>1. stack' = order
      BY <2>4 DEF PlaceWindows
    <3>2. FocusInFront' /\ Mapped' = Mapped \cup {w}
      BY <2>2, <2>4, <3>1 DEF FocusInFront, Mapped
    <3>3. OrderStands
      BY <1>1, <2>1, <2>2, <3>1, OneOrder DEF OrderStands
    <3>4. CoversNothing
      BY <2>1, <2>4 DEF CoversNothing
    <3>5. Shape'
      BY <1>1, <2>1, <2>2, <2>4, <3>1, <3>2 DEF Shape
    <3>6. QED
      BY <3>3, <3>4, <3>5
  <2>5. CASE PlaceWindows(BelowTop(order, w), outs, panels, zone) /\ UNCHANGED focus
    <3>1. /\ stack' \in Seq(Window) /\ Once(stack') /\ Elems(stack') = Mapped \cup {w}
          /\ Top(stack') = IF stack = <<>> THEN w ELSE Top(stack)
          /\ \A u, v : Below(stack', u, v) => u = w \/ v = w \/ Below(stack, u, v)
      <4>1. stack' = BelowTop(order, w)
        BY <2>5 DEF PlaceWindows
      <4>2. QED
        BY <1>1, <2>1, <4>1, SlippedUnder DEF Mapped
    <3> HIDE DEF order
    <3>2. FocusInFront'
      <4>1. focus # NoWindow => focus \in Mapped /\ stack # <<>>
        BY <1>1, TopFacts DEF Shape, FocusInFront, Mapped
      <4>2. QED
        BY <2>5, <3>1, <4>1 DEF Shape, FocusInFront, Mapped
    <3>3. OrderStands
      <4> SUFFICES ASSUME NEW u \in Window, NEW v \in Window,
                          Below(stack, u, v), Below(stack', v, u)
                   PROVE  FALSE
        BY DEF OrderStands
      <4>1. u # w /\ v # w /\ ~Below(stack, v, u)
        BY <1>1, <2>1, OneOrder
      <4>2. QED
        BY <3>1, <4>1
    <3>4. CoversNothing
      BY <3>1 DEF CoversNothing
    <3>5. Shape'
      BY <1>1, <2>1, <2>5, <3>1, <3>2 DEF Shape, Mapped
    <3>6. QED
      BY <3>3, <3>4, <3>5
  <2>6. QED
    BY <1>2, <2>3, <2>4, <2>5 DEF MapWindow
<1>3. ASSUME NEW w \in Window, ToplevelDestroyed(w)
      PROVE  Shape' /\ OrderStands /\ CoversNothing
  <2>1. Closed(w, panels) /\ toplevels' = toplevels \ {w} /\ panels' = panels
    BY <1>3 DEF ToplevelDestroyed
  <2>2. /\ stack' \in Seq(Window) /\ Once(stack') /\ Mapped' = Mapped \ {w}
        /\ focus' \in Window \cup {NoWindow} /\ FocusInFront' /\ OrderStands
    BY <2>1, CloseStep
  <2>3. CoversNothing
    BY <2>1 DEF CoversNothing
  <2>4. QED
    BY <1>1, <2>1, <2>2, <2>3 DEF Shape
<1>4. ASSUME NEW w \in Window, RegisterPanel(w)
      PROVE  Shape' /\ OrderStands /\ CoversNothing
  <2>1. /\ panels' = Append(panels, w) /\ ~IsPanel(w) /\ Len(panels) < MaxPanels
        /\ FitPanels(stack, panels', zone) /\ toplevels' = toplevels
    BY <1>4 DEF RegisterPanel
  <2>2. panels' \in Seq(Window) /\ Once(panels') /\ Len(panels') <= MaxPanels
    BY <1>1, <2>1, PanelAdded
  <2>3. /\ stack' \in Seq(Window) /\ Once(stack') /\ Mapped' = Mapped
        /\ focus' \in Window \cup {NoWindow} /\ FocusInFront' /\ OrderStands
    BY <1>1, <2>1, <2>2, FitStep DEF Mapped
  <2>4. CoversNothing
    BY <2>1 DEF CoversNothing
  <2>5. QED
    BY <1>1, <2>1, <2>2, <2>3, <2>4 DEF Shape
<1>5. ASSUME NEW w \in Window, PanelDestroyed(w)
      PROVE  Shape' /\ OrderStands /\ CoversNothing
  <2>1. panels' = Without(panels, w) /\ Closed(w, panels') /\ toplevels' = toplevels
    BY <1>5 DEF PanelDestroyed
  <2>2. panels' \in Seq(Window) /\ Once(panels') /\ Len(panels') <= MaxPanels
    <3>1. /\ panels' \in Seq(Window) /\ Once(panels') /\ Len(panels') <= Len(panels)
      BY <1>1, <2>1, TakenOut
    <3>2. Len(panels) <= MaxPanels /\ Len(panels') \in Nat /\ Len(panels) \in Nat
      BY <1>1, <3>1 DEF Shape
    <3>3. QED
      BY <3>1, <3>2, WindowAssumption
  <2>3. /\ stack' \in Seq(Window) /\ Once(stack') /\ Mapped' = Mapped \ {w}
        /\ focus' \in Window \cup {NoWindow} /\ FocusInFront' /\ OrderStands
    BY <2>1, CloseStep
  <2>4. CoversNothing
    BY <2>1 DEF CoversNothing
  <2>5. QED
    BY <1>1, <2>1, <2>2, <2>3, <2>4 DEF Shape
<1>6. CASE UNCHANGED <<stack, focus, panels, toplevels>>
  <2>1. Shape'
    BY <1>6 DEF Shape, FocusInFront, Mapped
  <2>2. QED
    BY <1>6, <2>1, StillOrder
<1>7. ASSUME NEW w \in Mapped, Activate(w), UNCHANGED <<toplevels, panels>>
      PROVE  Shape' /\ OrderStands /\ CoversNothing
  BY <1>7, ActivateStep
<1>8. CASE Click
  <2>1. CASE focus' = NoWindow /\ UNCHANGED stack
    <3>1. Shape'
      BY <1>1, <1>8, <2>1 DEF Click, Shape, FocusInFront, Mapped
    <3>2. QED
      BY <2>1, <3>1, StillOrder
  <2>2. QED
    BY <1>7, <1>8, <2>1 DEF Click
<1>9. CASE ActivatePanel
  BY <1>7, <1>9 DEF ActivatePanel
<1>10. ASSUME NEW s \in Sid, ActivateSession(s)
       PROVE  Shape' /\ OrderStands /\ CoversNothing
  <2>1. \E w \in Mapped : Activate(w)
    BY <1>10 DEF ActivateSession, Mapped, Elems
  <2>2. QED
    BY <1>7, <1>10, <2>1 DEF ActivateSession
<1>11. QED
  BY <1>2, <1>3, <1>4, <1>5, <1>6, <1>8, <1>9, <1>10
     DEF Next, SetZone, Attach, Release, ConnectorConnected, ConnectorDisconnected,
         NewOutputs, DeviceRemoved, Resized, PlaceWindows, vars
LEMMA ShapeInit ==
  ASSUME Init
  PROVE  Shape
<1>1. <<>> \in Seq(Window) /\ DOMAIN <<>> = {} /\ Len(<<>>) = 0
  OBVIOUS
<1>2. QED
  BY <1>1, WindowAssumption DEF Init, Shape, Once, Mapped, Elems, FocusInFront

\* While one panel is registered at a time, the window with keyboard focus is
\* the one in front.
THEOREM FocusStaysInFront == Spec => []FocusInFront
<1>1. Shape => FocusInFront
  BY DEF Shape
<1>2. QED
  BY <1>1, ShapeInit, ShapeStep, PTL DEF Spec

\* Windows change places only by activation or when panels are lowered, and a
\* window that maps without focus covers nothing.
THEOREM StackingIsKept == Spec => StackingKept
<1>1. QED
  BY ShapeInit, ShapeStep, PTL DEF Spec, StackingKept

-----------------------------------------------------------------------------
(***************************************************************************)
(* Focus taken by mapping a window.                                        *)
(***************************************************************************)
\* A session's present client that took focus is on record as having done so.
Taken ==
  /\ took \in [Sid -> Nat]
  /\ \A s \in Sid : took[s] <= 1 /\ (s \in attached /\ took[s] # 0 => s \in focusedOnMap)

LEMMA TakenStep ==
  ASSUME Taken, [Next]_vars
  PROVE  Taken'
<1> USE DEF panelVars, sessionVars, winVars
<1>1. ASSUME NEW w \in Window, MapWindow(w)
      PROVE  Taken'
  <2>1. /\ attached' = attached
        /\ focusedOnMap' = focusedOnMap \cup ({Owner[w]} \cap attached)
    BY <1>1 DEF MapWindow
  <2>2. CASE took' = took
    BY <2>1, <2>2 DEF Taken
  <2>3. CASE /\ First(w)
             /\ took' = [s \in Sid |-> took[s] + IF s = Owner[w] THEN 1 ELSE 0]
    <3>1. took' \in [Sid -> Nat]
      BY <2>3 DEF Taken
    <3>2. ASSUME NEW s \in Sid
          PROVE  /\ took'[s] <= 1
                 /\ s \in attached' /\ took'[s] # 0 => s \in focusedOnMap'
      <4>1. CASE s = Owner[w]
        <5>1. s \in attached \ focusedOnMap
          BY <2>3, <4>1, WindowAssumption DEF First
        <5>2. took[s] = 0
          BY <5>1 DEF Taken
        <5>3. QED
          BY <2>1, <2>3, <4>1, <5>1, <5>2
      <4>2. CASE s # Owner[w]
        BY <2>1, <2>3, <4>2 DEF Taken
      <4>3. QED
        BY <4>1, <4>2
    <3>3. QED
      BY <3>1, <3>2 DEF Taken
  <2>4. QED
    BY <1>1, <2>2, <2>3 DEF MapWindow
<1>2. ASSUME NEW s \in Sid, Attach(s)
      PROVE  Taken'
  BY <1>2 DEF Attach, Taken
<1>3. ASSUME NEW s \in Sid, Release(s)
      PROVE  Taken'
  BY <1>3 DEF Release, Taken
<1>4. CASE UNCHANGED <<took, attached, focusedOnMap>>
  BY <1>4 DEF Taken
<1>5. QED
  BY <1>1, <1>2, <1>3, <1>4
     DEF Next, ToplevelDestroyed, RegisterPanel, PanelDestroyed, SetZone, Click,
         ActivatePanel, ActivateSession, ConnectorConnected, ConnectorDisconnected,
         NewOutputs, DeviceRemoved, Resized, vars

\* Of all the windows a session maps in its lifetime, one takes the focus.
THEOREM FocusIsTakenOnce == Spec => []FocusTakenOnce
<1>1. Init => Taken
  BY DEF Init, Taken
<1>2. Taken => FocusTakenOnce
  BY DEF Taken, FocusTakenOnce
<1>3. QED
  BY <1>1, <1>2, TakenStep, PTL DEF Spec

-----------------------------------------------------------------------------
(***************************************************************************)
(* The layout.                                                             *)
(***************************************************************************)
\* The geometry the layout gives is one.
LEMMA PlacedType ==
  ASSUME geo \in [Window -> Geometry], NEW w \in Window, NEW os \in Seq(Output),
         NEW ps \in Seq(Window), NEW z \in [Window -> Zone \cup {NoZone}]
  PROVE  Placed(w, os, ps, z) \in Geometry
<1>1. Strips(ps, z) \in Seq(Zone \cup {NoZone})
  BY DEF Strips
<1>2. CASE os # <<>>
  <2>1. Height[os[1]] \in Nat \ {0}
    BY <1>2, WindowAssumption
  <2>2. WorkArea(Height[os[1]], Strips(ps, z)) \in Geometry
    BY <1>1, <2>1, WorkAreaInside
  <2>3. [y |-> 0, h |-> Height[os[1]]] \in Geometry
    BY <2>1 DEF Geometry
  <2>4. QED
    BY <1>2, <2>2, <2>3 DEF Placed
<1>3. CASE os = <<>>
  BY <1>3 DEF Placed
<1>4. QED
  BY <1>2, <1>3

\* What the layout and the sessions keep has its type.
Kept ==
  /\ zone \in [Window -> Zone \cup {NoZone}]
  /\ outs \in Seq(Output)
  /\ geo \in [Window -> Geometry]
  /\ attached \subseteq Sid /\ focusedOnMap \subseteq attached
  /\ lives \in [Sid -> 0..MaxLive]
  /\ took \in [Sid -> Nat]
  /\ lostOutput \in BOOLEAN

LEMMA PlacedKept ==
  ASSUME Kept, Shape', NEW order, PlaceWindows(order, outs', panels', zone'),
         zone' \in [Window -> Zone \cup {NoZone}], outs' \in Seq(Output)
  PROVE  geo' \in [Window -> Geometry] /\ lostOutput' \in BOOLEAN
<1>1. \A w \in Window : Placed(w, outs', panels', zone') \in Geometry
  BY PlacedType DEF Kept, Shape
<1>2. QED
  BY <1>1 DEF PlaceWindows, Kept

LEMMA KeptStep ==
  ASSUME Shape, Shape', Kept, [Next]_vars
  PROVE  Kept'
<1> USE DEF panelVars, sessionVars, winVars
<1>1. ASSUME NEW w \in Window, MapWindow(w)
      PROVE  Kept'
  <2>1. /\ UNCHANGED <<outs, panels, zone, attached, lives>>
        /\ focusedOnMap' = focusedOnMap \cup ({Owner[w]} \cap attached)
        /\ \E order : PlaceWindows(order, outs, panels, zone)
    BY <1>1 DEF MapWindow, FitPanels
  <2>2. took' \in [Sid -> Nat]
    <3>1. took \in [Sid -> Nat]
      BY DEF Kept
    <3>2. \/ took' = took
          \/ took' = [s \in Sid |-> took[s] + IF s = Owner[w] THEN 1 ELSE 0]
      BY <1>1 DEF MapWindow
    <3>3. QED
      BY <3>1, <3>2
  <2>3. geo' \in [Window -> Geometry] /\ lostOutput' \in BOOLEAN
    BY <2>1, PlacedKept DEF Kept
  <2>4. QED
    BY <2>1, <2>2, <2>3 DEF Kept
<1>2. ASSUME NEW w \in Window, ToplevelDestroyed(w)
      PROVE  Kept'
  BY <1>2 DEF ToplevelDestroyed, Kept, NoGeo, Geometry
<1>3. ASSUME NEW w \in Window, RegisterPanel(w)
      PROVE  Kept'
  <2>1. /\ UNCHANGED <<zone, took, outs, attached, focusedOnMap, lives>>
        /\ \E order : PlaceWindows(order, outs, panels', zone)
    BY <1>3 DEF RegisterPanel, FitPanels
  <2>2. geo' \in [Window -> Geometry] /\ lostOutput' \in BOOLEAN
    BY <2>1, PlacedKept DEF Kept
  <2>3. QED
    BY <2>1, <2>2 DEF Kept
<1>4. ASSUME NEW w \in Window, PanelDestroyed(w)
      PROVE  Kept'
  <2>1. /\ UNCHANGED <<took, outs, attached, focusedOnMap, lives>>
        /\ zone' \in [Window -> Zone \cup {NoZone}]
        /\ geo' = [x \in Window |->
                     IF x \in Elems(stack') THEN Placed(x, outs, panels', zone)
                     ELSE IF x = w THEN NoGeo ELSE geo[x]]
        /\ lostOutput' = FALSE
    BY <1>4 DEF PanelDestroyed, Kept
  <2>2. \A x \in Window : Placed(x, outs, panels', zone) \in Geometry
    BY PlacedType DEF Kept, Shape
  <2>3. NoGeo \in Geometry
    BY DEF NoGeo, Geometry
  <2>4. geo' \in [Window -> Geometry]
    BY <2>1, <2>2, <2>3 DEF Kept
  <2>5. QED
    BY <2>1, <2>4 DEF Kept
<1>5. ASSUME NEW w \in Window, NEW z \in Zone \cup {NoZone}, SetZone(w, z)
      PROVE  Kept'
  <2>1. /\ UNCHANGED <<took, outs, attached, focusedOnMap, lives>>
        /\ zone' \in [Window -> Zone \cup {NoZone}]
        /\ PlaceWindows(stack, outs, panels', zone')
    BY <1>5 DEF SetZone, Kept
  <2>2. geo' \in [Window -> Geometry] /\ lostOutput' \in BOOLEAN
    BY <2>1, PlacedKept DEF Kept
  <2>3. QED
    BY <2>1, <2>2 DEF Kept
<1>6. ASSUME NEW os \in Seq(Output), NewOutputs(os)
      PROVE  Kept'
  <2>1. /\ UNCHANGED <<took, zone, panels, attached, focusedOnMap, lives>>
        /\ outs' \in Seq(Output)
        /\ PlaceWindows(stack, outs', panels', zone')
    BY <1>6 DEF NewOutputs
  <2>2. geo' \in [Window -> Geometry] /\ lostOutput' \in BOOLEAN
    BY <2>1, PlacedKept DEF Kept
  <2>3. QED
    BY <2>1, <2>2 DEF Kept
<1>7. ASSUME NEW o \in Output
      PROVE  /\ Append(outs, o) \in Seq(Output) /\ <<o>> \in Seq(Output)
             /\ Without(outs, o) \in Seq(Output)
  BY OnlyFacts DEF Kept, Without
<1>8. ASSUME NEW o \in Output, ConnectorConnected(o) \/ ConnectorDisconnected(o) \/ Resized(o)
      PROVE  Kept'
  BY <1>6, <1>7, <1>8 DEF ConnectorConnected, ConnectorDisconnected, Resized
<1>9. ASSUME NEW o \in Output, DeviceRemoved(o)
      PROVE  Kept'
  BY <1>7, <1>9 DEF DeviceRemoved, Kept
<1>10. ASSUME NEW s \in Sid, Attach(s) \/ Release(s)
       PROVE  Kept'
  <2>1. CASE Release(s)
    BY <2>1 DEF Release, Kept
  <2>2. CASE Attach(s)
    <3>1. lives[s] \in Nat /\ lives[s] < MaxLive /\ MaxLive \in Nat
      BY <2>2, WindowAssumption DEF Attach, Kept
    <3>2. lives[s] + 1 \in 0..MaxLive
      BY <3>1
    <3>3. lives' \in [Sid -> 0..MaxLive] /\ took' \in [Sid -> Nat]
      BY <2>2, <3>2 DEF Attach, Kept
    <3>4. QED
      BY <2>2, <3>3 DEF Attach, Kept
  <2>3. QED
    BY <1>10, <2>1, <2>2
<1>11. CASE UNCHANGED <<zone, outs, geo, attached, focusedOnMap, lives, took, lostOutput>>
  BY <1>11 DEF Kept
<1>12. QED
  BY <1>1, <1>2, <1>3, <1>4, <1>5, <1>8, <1>9, <1>10, <1>11
     DEF Next, Click, ActivatePanel, ActivateSession, vars

LEMMA KeptInit ==
  ASSUME Init
  PROVE  Kept
<1>1. 0 \in 0..MaxLive /\ NoGeo \in Geometry /\ <<>> \in Seq(Output)
  BY WindowAssumption DEF NoGeo, Geometry
<1>2. QED
  BY <1>1 DEF Init, Kept

\* The compositor's windows, panels and outputs are always of the declared types.
THEOREM TypeCorrect == Spec => []TypeOK
<1>1. Shape /\ Kept => TypeOK
  BY DEF Shape, Kept, TypeOK
<1>2. Init => Shape /\ Kept
  BY ShapeInit, KeptInit
<1>3. Shape /\ Kept /\ [Next]_vars => (Shape /\ Kept)'
  BY ShapeStep, KeptStep
<1>4. QED
  BY <1>1, <1>2, <1>3, PTL DEF Spec

\* Windows placed on the outputs there are.
LEMMA PlacedStep ==
  ASSUME Shape, Shape', NEW order,
         PlaceWindows(order, outs', panels', zone')
  PROVE  LaidOut'
<1>1. Mapped' = Elems(order) /\ Mapped' \subseteq Window
  BY TopFacts DEF PlaceWindows, Mapped, Shape
<1>2. \A w \in Mapped' : geo'[w] = Placed(w, outs', panels', zone')
  BY <1>1 DEF PlaceWindows
<1>3. \A w : outs' # <<>> => Placed(w, outs', panels', zone') = Placed(w, outs, panels, zone)'
  BY DEF Placed
<1>4. QED
  BY <1>2, <1>3 DEF LaidOut

LEMMA LaidOutStep ==
  ASSUME Shape, Shape', LaidOut, Kept, [Next]_vars
  PROVE  LaidOut'
<1> USE DEF panelVars, sessionVars, winVars
<1>1. CASE \E order : PlaceWindows(order, outs', panels', zone')
  BY <1>1, PlacedStep
<1>2. CASE /\ UNCHANGED <<outs, panels, zone, geo, lostOutput>>
           /\ Mapped' \subseteq Mapped
  BY <1>2 DEF LaidOut, Placed
<1>3. ASSUME NEW w \in Window, ToplevelDestroyed(w)
      PROVE  LaidOut'
  <2>1. /\ UNCHANGED <<outs, panels, zone, lostOutput>>
        /\ geo' = [geo EXCEPT ![w] = NoGeo] /\ Mapped' = Mapped \ {w}
    BY <1>3, CloseStep DEF ToplevelDestroyed
  <2>2. QED
    BY <2>1 DEF LaidOut, Placed
<1>4. ASSUME NEW w \in Window, PanelDestroyed(w)
      PROVE  LaidOut'
  <2>1. /\ panels' = Without(panels, w) /\ zone' = [zone EXCEPT ![w] = NoZone]
        /\ geo' = [x \in Window |->
                     IF x \in Elems(stack') THEN Placed(x, outs, panels', zone)
                     ELSE IF x = w THEN NoGeo ELSE geo[x]]
        /\ outs' = outs /\ Mapped' = Elems(stack') /\ Mapped' \subseteq Window
    BY <1>4, TopFacts DEF PanelDestroyed, Mapped, Shape
  <2>2. PICK ps : ps = panels' /\ ps \in Seq(Window) /\ w \notin Elems(ps)
    BY <2>1, TakenOut DEF Shape
  <2>3. Strips(ps, zone) = Strips(ps, zone')
    <3>1. \A i \in DOMAIN ps : ps[i] # w /\ ps[i] \in Window
      BY <2>2 DEF Elems
    <3>2. \A i \in DOMAIN ps : zone[ps[i]] = zone'[ps[i]]
      BY <2>1, <3>1 DEF Kept
    <3>3. QED
      BY <3>2 DEF Strips
  <2>4. ASSUME NEW x \in Mapped', outs # <<>>
        PROVE  geo'[x] = Placed(x, outs, panels, zone)'
    <3>1. geo'[x] = Placed(x, outs, ps, zone)
      BY <2>1, <2>2
    <3>2. Placed(x, outs, ps, zone) = IF x \in Elems(ps) THEN [y |-> 0, h |-> Height[outs[1]]]
                                      ELSE WorkArea(Height[outs[1]], Strips(ps, zone))
      BY <2>4 DEF Placed
    <3>3. QED
      BY <2>1, <2>2, <2>3, <2>4, <3>1, <3>2 DEF Placed
  <2>5. QED
    BY <2>1, <2>4 DEF LaidOut
<1>5. ASSUME NEW o \in Output, DeviceRemoved(o)
      PROVE  LaidOut'
  BY <1>5 DEF DeviceRemoved, LaidOut
<1>6. ASSUME NEW w \in Mapped, Activate(w), UNCHANGED <<outs, panels, zone, geo, lostOutput>>
      PROVE  LaidOut'
  <2>1. w \in Window /\ stack \in Seq(Window) /\ Once(stack)
    BY <1>6, TopFacts DEF Mapped, Shape
  <2>2. Elems(ToTop(stack, w)) = Mapped
    <3>1. Elems(ToTop(stack, w)) = Mapped \cup {w}
      BY <2>1, Raised DEF Mapped
    <3>2. QED
      BY <1>6, <3>1
  <2>3. Mapped' = Mapped
    BY <1>6, <2>2 DEF Activate, Mapped
  <2>4. QED
    BY <1>2, <1>6, <2>3
<1>7. ASSUME NEW s \in Sid, ActivateSession(s)
      PROVE  LaidOut'
  BY <1>6, <1>7 DEF ActivateSession, Mapped, Elems
<1>8. CASE Click \/ ActivatePanel
  BY <1>2, <1>6, <1>8 DEF Click, ActivatePanel, Mapped
<1>9. ASSUME NEW s \in Sid, Attach(s) \/ Release(s)
      PROVE  LaidOut'
  BY <1>2, <1>9 DEF Attach, Release, Mapped
<1>10. CASE UNCHANGED vars
  BY <1>2, <1>10 DEF vars, Mapped
<1>11. ASSUME NEW w \in Window, MapWindow(w) \/ RegisterPanel(w)
       PROVE  LaidOut'
  <2>1. \E order : PlaceWindows(order, outs', panels', zone')
    BY <1>11 DEF MapWindow, RegisterPanel, FitPanels
  <2>2. QED
    BY <1>1, <2>1
<1>12. ASSUME NEW w \in Window, NEW z \in Zone \cup {NoZone}, SetZone(w, z)
       PROVE  LaidOut'
  <2>1. PlaceWindows(stack, outs', panels', zone')
    BY <1>12 DEF SetZone
  <2>2. QED
    BY <1>1, <2>1
<1>13. ASSUME NEW os, NewOutputs(os)
       PROVE  LaidOut'
  <2>1. PlaceWindows(stack, outs', panels', zone')
    BY <1>13 DEF NewOutputs
  <2>2. QED
    BY <1>1, <2>1
<1>14. ASSUME NEW o \in Output,
              ConnectorConnected(o) \/ ConnectorDisconnected(o) \/ Resized(o)
       PROVE  LaidOut'
  BY <1>13, <1>14 DEF ConnectorConnected, ConnectorDisconnected, Resized
<1>15. QED
  BY <1>3, <1>4, <1>5, <1>7, <1>8, <1>9, <1>10, <1>11, <1>12, <1>14 DEF Next

\* Unless an output has left with its device since, every mapped window has
\* the geometry that the present outputs and strips give it.
THEOREM AlwaysLaidOut == Spec => []LaidOut
<1>1. Init => Shape /\ Kept /\ LaidOut
  BY ShapeInit, KeptInit DEF Init, LaidOut
<1>2. Shape /\ Kept /\ LaidOut /\ [Next]_vars => (Shape /\ Kept /\ LaidOut)'
  BY ShapeStep, KeptStep, LaidOutStep
<1>3. QED
  BY <1>1, <1>2, PTL DEF Spec
=============================================================================
