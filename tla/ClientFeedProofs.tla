-------------------------- MODULE ClientFeedProofs --------------------------
(***************************************************************************)
(* Proofs about ClientFeed for any number of sessions, appds and broken    *)
(* connections and any capacity of the channel and the sockets.            *)
(***************************************************************************)
EXTENDS ClientFeed, WellFoundedInduction, TLAPS

-----------------------------------------------------------------------------
(***************************************************************************)
(* What a client shows after a sequence of messages.                       *)
(*                                                                         *)
(* After is a recursive function: what it shows is decided, for each       *)
(* session, by the last message that tells of it.  That is shown by        *)
(* induction over the number of messages read.                             *)
(***************************************************************************)
Before == {p \in Nat \X Nat : p[1] < p[2]}

LEMMA BeforeWF == IsWellFoundedOn(Before, Nat)
  BY NatLessThanWellFounded DEF OpToRel, Before

LEMMA AllNaturals ==
  ASSUME NEW T \in SUBSET Nat, 0 \in T, \A n \in T : n + 1 \in T
  PROVE  T = Nat
<1> SUFFICES ASSUME Nat \ T # {}
             PROVE  FALSE
  OBVIOUS
<1>1. PICK n \in Nat \ T : \A k \in Nat \ T : <<k, n>> \notin Before
  BY BeforeWF, WFMin
<1>2. n # 0 /\ n - 1 \in Nat /\ n - 1 < n
  OBVIOUS
<1>3. <<n - 1, n>> \in Nat \X Nat /\ <<n - 1, n>>[1] < <<n - 1, n>>[2]
  BY <1>2
<1>4. n - 1 \in T
  BY <1>1, <1>2, <1>3 DEF Before
<1>5. (n - 1) + 1 \in T
  BY <1>4
<1>6. QED
  BY <1>2, <1>5

\* What a message tells of session x.
Adds(m, x) ==
  \/ m.kind = "list" /\ x \in m.all
  \/ m.kind = "ack" /\ m.s = x
Drops(m, x) == m.kind = "stopped" /\ m.s = x

\* The last of the messages q that tells of x adds it, or none does and it was
\* shown before.
LastAdds(shown, q, x) ==
  \/ \E i \in DOMAIN q : Adds(q[i], x) /\ \A j \in DOMAIN q : i < j => ~Drops(q[j], x)
  \/ x \in shown /\ \A j \in DOMAIN q : ~Drops(q[j], x)

LEMMA OneMessage ==
  ASSUME NEW shown, NEW m, NEW x
  PROVE  x \in Shows(shown, m) <=> Adds(m, x) \/ (x \in shown /\ ~Drops(m, x))
<1>1. CASE m.kind = "list"
  <2>1. Shows(shown, m) = shown \cup m.all
    BY <1>1 DEF Shows
  <2>2. (Adds(m, x) <=> x \in m.all) /\ ~Drops(m, x)
    BY <1>1 DEF Adds, Drops
  <2>3. QED
    BY <2>1, <2>2
<1>2. CASE m.kind = "ack"
  BY <1>2 DEF Shows, Adds, Drops
<1>3. CASE m.kind = "stopped"
  BY <1>3 DEF Shows, Adds, Drops
<1>4. CASE m.kind \notin {"list", "ack", "stopped"}
  BY <1>4 DEF Shows, Adds, Drops
<1>5. QED
  BY <1>1, <1>2, <1>3, <1>4

\* f is the recursive function of After as far as n.
Showing(f, shown, q, n) ==
  f = [m \in 0..n |-> IF m = 0 THEN shown ELSE Shows(f[m - 1], q[m])]

LEMMA ShowingExists ==
  ASSUME NEW shown, NEW q, NEW l \in Nat
  PROVE  \E f : Showing(f, shown, q, l)
<1> DEFINE N == {n \in Nat : \E f : Showing(f, shown, q, n)}
<1>1. 0 \in N
  <2> DEFINE f == [m \in 0..0 |-> shown]
  <2>1. Showing(f, shown, q, 0)
    BY DEF Showing
  <2>2. QED
    BY <2>1
<1>2. ASSUME NEW n \in N
      PROVE  n + 1 \in N
  <2>1. PICK f : Showing(f, shown, q, n)
    BY <1>2
  <2> DEFINE g == [m \in 0..(n + 1) |-> IF m = n + 1 THEN Shows(f[n], q[m]) ELSE f[m]]
  <2>2. \A m \in 0..n : g[m] = f[m]
    OBVIOUS
  <2>3. ASSUME NEW m \in 0..(n + 1)
        PROVE  g[m] = IF m = 0 THEN shown ELSE Shows(g[m - 1], q[m])
    <3>1. CASE m = n + 1
      BY <2>2, <3>1
    <3>2. CASE m \in 0..n
      <4>1. f[m] = IF m = 0 THEN shown ELSE Shows(f[m - 1], q[m])
        BY <2>1, <3>2 DEF Showing
      <4>2. m = 0 \/ m - 1 \in 0..n
        BY <3>2
      <4>3. QED
        BY <2>2, <3>2, <4>1, <4>2
    <3>3. QED
      BY <3>1, <3>2
  <2>4. Showing(g, shown, q, n + 1)
    <3> HIDE DEF g
    <3>1. g = [m \in 0..(n + 1) |-> g[m]]
      BY DEF g
    <3>2. QED
      BY <2>3, <3>1 DEF Showing
  <2>5. QED
    BY <2>4
<1>3. N = Nat
  <2> HIDE DEF N
  <2>1. N \in SUBSET Nat
    BY DEF N
  <2>2. QED
    BY <1>1, <1>2, <2>1, AllNaturals
<1>4. QED
  BY <1>3

LEMMA AfterShows ==
  ASSUME NEW shown, NEW q, Len(q) \in Nat
  PROVE  \E f : Showing(f, shown, q, Len(q)) /\ After(shown, q) = f[Len(q)]
<1> DEFINE f == CHOOSE g : g = [n \in 0..Len(q) |->
                                 IF n = 0 THEN shown ELSE Shows(g[n - 1], q[n])]
<1>1. \E g : g = [n \in 0..Len(q) |->
                   IF n = 0 THEN shown ELSE Shows(g[n - 1], q[n])]
  <2>1. \E g : Showing(g, shown, q, Len(q))
    BY ShowingExists
  <2>2. QED
    BY <2>1 DEF Showing
<1>2. Showing(f, shown, q, Len(q))
  BY <1>1 DEF Showing
<1>3. After(shown, q) = f[Len(q)]
  BY DEF After
<1>4. QED
  BY <1>2, <1>3

\* The same of the first n messages.
FirstAdd(shown, q, x, n) ==
  \/ \E i \in 1..n : Adds(q[i], x) /\ \A j \in 1..n : i < j => ~Drops(q[j], x)
  \/ x \in shown /\ \A j \in 1..n : ~Drops(q[j], x)

LEMMA NextAdds ==
  ASSUME NEW shown, NEW q, NEW x, NEW n \in Nat
  PROVE  FirstAdd(shown, q, x, n + 1) <=>
           Adds(q[n + 1], x) \/ (FirstAdd(shown, q, x, n) /\ ~Drops(q[n + 1], x))
<1>1. 1..(n + 1) = (1..n) \cup {n + 1} /\ \A i \in 1..n : i < n + 1 /\ ~(n + 1 < i)
  OBVIOUS
<1>2. ~(Adds(q[n + 1], x) /\ Drops(q[n + 1], x)) /\ ~(n + 1 < n + 1)
  BY DEF Adds, Drops
<1>3. QED
  BY <1>1, <1>2 DEF FirstAdd

LEMMA AfterIs ==
  ASSUME NEW S, NEW q \in Seq(S), NEW shown, NEW x
  PROVE  x \in After(shown, q) <=> LastAdds(shown, q, x)
<1>1. Len(q) \in Nat /\ DOMAIN q = 1..Len(q)
  OBVIOUS
<1>2. PICK f : Showing(f, shown, q, Len(q)) /\ After(shown, q) = f[Len(q)]
  BY <1>1, AfterShows
<1> DEFINE N == {n \in Nat : n <= Len(q) => (x \in f[n] <=> FirstAdd(shown, q, x, n))}
<1>3. 0 \in N
  <2>1. f[0] = shown
    BY <1>1, <1>2 DEF Showing
  <2>2. QED
    BY <2>1 DEF FirstAdd
<1>4. ASSUME NEW n \in N
      PROVE  n + 1 \in N
  <2>1. SUFFICES ASSUME n + 1 <= Len(q)
                 PROVE  x \in f[n + 1] <=> FirstAdd(shown, q, x, n + 1)
    OBVIOUS
  <2>2. f[n + 1] = Shows(f[n], q[n + 1])
    BY <1>1, <1>2, <2>1 DEF Showing
  <2>3. x \in f[n] <=> FirstAdd(shown, q, x, n)
    BY <1>1, <2>1
  <2>4. x \in f[n + 1] <=> Adds(q[n + 1], x) \/ (x \in f[n] /\ ~Drops(q[n + 1], x))
    BY <2>2, OneMessage
  <2>5. FirstAdd(shown, q, x, n + 1) <=>
          Adds(q[n + 1], x) \/ (FirstAdd(shown, q, x, n) /\ ~Drops(q[n + 1], x))
    BY NextAdds
  <2>6. QED
    BY <2>3, <2>4, <2>5
<1>5. N = Nat
  <2> HIDE DEF N
  <2>1. N \in SUBSET Nat
    BY DEF N
  <2>2. QED
    BY <1>3, <1>4, <2>1, AllNaturals
<1>6. x \in f[Len(q)] <=> FirstAdd(shown, q, x, Len(q))
  BY <1>1, <1>5
<1>7. QED
  BY <1>1, <1>2, <1>6 DEF FirstAdd, LastAdds

LEMMA JoinFacts ==
  ASSUME NEW S, NEW q \in Seq(S), NEW r \in Seq(S)
  PROVE  /\ q \o r \in Seq(S)
         /\ Len(q) \in Nat /\ DOMAIN q = 1..Len(q)
         /\ Len(r) \in Nat /\ DOMAIN r = 1..Len(r)
         /\ Len(q \o r) = Len(q) + Len(r) /\ DOMAIN (q \o r) = 1 .. Len(q) + Len(r)
         /\ \A i \in 1..Len(q) : (q \o r)[i] = q[i]
         /\ \A i \in 1..Len(r) : (q \o r)[Len(q) + i] = r[i]
OBVIOUS

\* Reading q and then r.
LEMMA AfterJoined ==
  ASSUME NEW S, NEW q \in Seq(S), NEW r \in Seq(S), NEW shown
  PROVE  After(shown, q \o r) = After(After(shown, q), r)
<1> DEFINE a == Len(q)
           b == Len(r)
           t == q \o r
<1>1. /\ t \in Seq(S) /\ a \in Nat /\ b \in Nat
      /\ DOMAIN q = 1..a /\ DOMAIN r = 1..b /\ DOMAIN t = 1 .. a + b
      /\ \A i \in 1..a : t[i] = q[i]
      /\ \A i \in 1..b : t[a + i] = r[i]
  BY JoinFacts
<1> HIDE DEF a, b, t
<1> SUFFICES ASSUME NEW x
             PROVE  x \in After(shown, t) <=> x \in After(After(shown, q), r)
  <2>1. \A x : x \in After(shown, t) <=> x \in After(After(shown, q), r)
    OBVIOUS
  <2>2. QED
    BY <2>1 DEF t
<1>2. x \in After(shown, q) <=> LastAdds(shown, q, x)
  BY AfterIs
<1>3. x \in After(After(shown, q), r) <=> LastAdds(After(shown, q), r, x)
  BY AfterIs
<1>4. x \in After(shown, t) <=> LastAdds(shown, t, x)
  BY <1>1, AfterIs
<1>5. \A i \in 1 .. a + b : i \in 1..a \/ \E k \in 1..b : i = a + k
  <2>1. ASSUME NEW i \in 1 .. a + b, i \notin 1..a
        PROVE  i - a \in 1..b /\ i = a + (i - a)
    BY <1>1, <2>1
  <2>2. QED
    BY <2>1
<1>6. /\ \A i \in 1..a : i \in 1 .. a + b
      /\ \A k \in 1..b : a + k \in 1 .. a + b /\ \A i \in 1..a : i < a + k /\ ~(a + k < i)
      /\ \A k, l \in 1..b : a + k < a + l <=> k < l
  BY <1>1
<1>7. (\A j \in DOMAIN t : ~Drops(t[j], x)) <=>
        (\A j \in DOMAIN q : ~Drops(q[j], x)) /\ (\A j \in DOMAIN r : ~Drops(r[j], x))
  <2>1. ASSUME \A j \in DOMAIN t : ~Drops(t[j], x)
        PROVE  (\A j \in DOMAIN q : ~Drops(q[j], x)) /\ (\A j \in DOMAIN r : ~Drops(r[j], x))
    <3>1. ASSUME NEW j \in DOMAIN q PROVE ~Drops(q[j], x)
      BY <1>1, <1>6, <2>1, <3>1
    <3>2. ASSUME NEW j \in DOMAIN r PROVE ~Drops(r[j], x)
      BY <1>1, <1>6, <2>1, <3>2
    <3>3. QED
      BY <3>1, <3>2
  <2>2. ASSUME \A j \in DOMAIN q : ~Drops(q[j], x), \A j \in DOMAIN r : ~Drops(r[j], x),
               NEW i \in DOMAIN t
        PROVE  ~Drops(t[i], x)
    <3>1. CASE i \in 1..a
      BY <1>1, <2>2, <3>1
    <3>2. ASSUME NEW k \in 1..b, i = a + k
          PROVE  ~Drops(t[i], x)
      BY <1>1, <2>2, <3>2
    <3>3. QED
      BY <1>1, <1>5, <3>1, <3>2
  <2>3. QED
    BY <2>1, <2>2
<1>8. ASSUME LastAdds(shown, t, x)
      PROVE  LastAdds(After(shown, q), r, x)
  <2>1. ASSUME NEW i \in DOMAIN t, Adds(t[i], x), \A j \in DOMAIN t : i < j => ~Drops(t[j], x)
        PROVE  LastAdds(After(shown, q), r, x)
    <3>1. CASE i \in 1..a
      <4>1. LastAdds(shown, q, x)
        BY <1>1, <1>6, <2>1, <3>1 DEF LastAdds
      <4>2. \A j \in DOMAIN r : ~Drops(r[j], x)
        BY <1>1, <1>6, <2>1, <3>1
      <4>3. QED
        BY <1>2, <4>1, <4>2 DEF LastAdds
    <3>2. ASSUME NEW k \in 1..b, i = a + k
          PROVE  LastAdds(After(shown, q), r, x)
      <4>1. Adds(r[k], x) /\ \A j \in DOMAIN r : k < j => ~Drops(r[j], x)
        BY <1>1, <1>6, <2>1, <3>2
      <4>2. QED
        BY <1>1, <4>1 DEF LastAdds
    <3>3. QED
      BY <1>1, <1>5, <3>1, <3>2
  <2>2. CASE x \in shown /\ \A j \in DOMAIN t : ~Drops(t[j], x)
    BY <1>2, <1>7, <2>2 DEF LastAdds
  <2>3. QED
    BY <1>8, <2>1, <2>2 DEF LastAdds
<1>9. ASSUME LastAdds(After(shown, q), r, x)
      PROVE  LastAdds(shown, t, x)
  <2>1. ASSUME NEW k \in DOMAIN r, Adds(r[k], x), \A j \in DOMAIN r : k < j => ~Drops(r[j], x)
        PROVE  LastAdds(shown, t, x)
    <3>1. a + k \in DOMAIN t /\ Adds(t[a + k], x)
      BY <1>1, <1>6, <2>1
    <3>2. ASSUME NEW j \in DOMAIN t, a + k < j
          PROVE  ~Drops(t[j], x)
      <4>1. PICK l \in 1..b : j = a + l
        BY <1>1, <1>5, <1>6, <2>1, <3>2
      <4>2. k < l
        BY <1>1, <1>6, <3>2, <4>1
      <4>3. QED
        BY <1>1, <2>1, <4>1, <4>2
    <3>3. QED
      BY <3>1, <3>2 DEF LastAdds
  <2>2. CASE LastAdds(shown, q, x) /\ \A j \in DOMAIN r : ~Drops(r[j], x)
    <3>1. ASSUME NEW i \in DOMAIN q, Adds(q[i], x), \A j \in DOMAIN q : i < j => ~Drops(q[j], x)
          PROVE  LastAdds(shown, t, x)
      <4>1. i \in DOMAIN t /\ Adds(t[i], x)
        BY <1>1, <1>6, <3>1
      <4>2. ASSUME NEW j \in DOMAIN t, i < j
            PROVE  ~Drops(t[j], x)
        <5>1. CASE j \in 1..a
          BY <1>1, <3>1, <4>2, <5>1
        <5>2. ASSUME NEW l \in 1..b, j = a + l
              PROVE  ~Drops(t[j], x)
          BY <1>1, <2>2, <5>2
        <5>3. QED
          BY <1>1, <1>5, <5>1, <5>2
      <4>3. QED
        BY <4>1, <4>2 DEF LastAdds
    <3>2. CASE x \in shown /\ \A j \in DOMAIN q : ~Drops(q[j], x)
      BY <1>7, <2>2, <3>2 DEF LastAdds
    <3>3. QED
      BY <2>2, <3>1, <3>2 DEF LastAdds
  <2>3. QED
    BY <1>2, <1>9, <2>1, <2>2 DEF LastAdds
<1>10. QED
  BY <1>3, <1>4, <1>8, <1>9

LEMMA OneRead ==
  ASSUME NEW shown, NEW m
  PROVE  After(shown, <<m>>) = Shows(shown, m)
<1>1. <<m>> \in Seq({m}) /\ DOMAIN <<m>> = {1} /\ <<m>>[1] = m
  OBVIOUS
<1>2. ASSUME NEW x
      PROVE  x \in After(shown, <<m>>) <=> x \in Shows(shown, m)
  <2>1. x \in After(shown, <<m>>) <=> LastAdds(shown, <<m>>, x)
    BY <1>1, AfterIs
  <2>2. LastAdds(shown, <<m>>, x) <=> Adds(m, x) \/ (x \in shown /\ ~Drops(m, x))
    <3>1. ~(1 < 1)
      OBVIOUS
    <3>2. QED
      BY <1>1, <3>1 DEF LastAdds
  <2>3. QED
    BY <2>1, <2>2, OneMessage
<1>3. QED
  BY <1>2

\* One message more, and one read.
LEMMA AfterAppended ==
  ASSUME NEW S, NEW q \in Seq(S), NEW m \in S, NEW shown
  PROVE  After(shown, Append(q, m)) = Shows(After(shown, q), m)
<1>1. <<m>> \in Seq(S) /\ Append(q, m) = q \o <<m>>
  OBVIOUS
<1>2. After(shown, q \o <<m>>) = After(After(shown, q), <<m>>)
  BY <1>1, AfterJoined
<1>3. After(After(shown, q), <<m>>) = Shows(After(shown, q), m)
  BY OneRead
<1>4. QED
  BY <1>1, <1>2, <1>3

LEMMA AfterFirst ==
  ASSUME NEW S, NEW q \in Seq(S), q # <<>>, NEW shown
  PROVE  After(shown, q) = After(Shows(shown, Head(q)), Tail(q))
<1> DEFINE h == Head(q)
           t == Tail(q)
<1>1. <<h>> \in Seq(S) /\ t \in Seq(S) /\ q = <<h>> \o t
  OBVIOUS
<1> HIDE DEF h, t
<1>2. After(shown, <<h>> \o t) = After(After(shown, <<h>>), t)
  BY <1>1, AfterJoined
<1>3. After(shown, <<h>>) = Shows(shown, h)
  BY OneRead
<1>4. QED
  BY <1>1, <1>2, <1>3 DEF h, t

\* What was shown before matters only for sessions no message tells of.
LEMMA AfterMore ==
  ASSUME NEW S, NEW q \in Seq(S), NEW shown, NEW more
  PROVE  /\ After(shown, q) \subseteq After(shown \cup more, q)
         /\ After(shown \cup more, q) \subseteq After(shown, q) \cup more
<1>1. ASSUME NEW x
      PROVE  /\ x \in After(shown, q) => x \in After(shown \cup more, q)
             /\ x \in After(shown \cup more, q) => x \in After(shown, q) \/ x \in more
  <2>1. /\ x \in After(shown, q) <=> LastAdds(shown, q, x)
        /\ x \in After(shown \cup more, q) <=> LastAdds(shown \cup more, q, x)
    BY AfterIs
  <2>2. QED
    BY <2>1 DEF LastAdds
<1>2. QED
  BY <1>1

LEMMA AfterKeeps ==
  ASSUME NEW S, NEW q \in Seq(S), NEW shown, NEW x \in shown,
         \A i \in DOMAIN q : ~Drops(q[i], x)
  PROVE  x \in After(shown, q)
  BY AfterIs DEF LastAdds

LEMMA AfterDropped ==
  ASSUME NEW S, NEW q \in Seq(S), NEW shown, NEW other, NEW x,
         \E i \in DOMAIN q : Drops(q[i], x)
  PROVE  x \in After(shown, q) => x \in After(other, q)
<1>1. /\ x \in After(shown, q) <=> LastAdds(shown, q, x)
      /\ x \in After(other, q) <=> LastAdds(other, q, x)
  BY AfterIs
<1>2. QED
  BY <1>1 DEF LastAdds

-----------------------------------------------------------------------------
(***************************************************************************)
(* The channel.                                                            *)
(***************************************************************************)
LEMMA ReceivedFacts ==
  ASSUME NEW c \in Seq(Note), Len(c) <= Capacity, NEW n \in Note
  PROVE  /\ Received(c, n) \in Seq(Note) /\ Len(Received(c, n)) <= Capacity
         /\ Len(c) # Capacity => Received(c, n) = Append(c, n)
         /\ \A i \in DOMAIN Received(c, n) :
              Received(c, n)[i] = n \/ \E j \in DOMAIN c : Received(c, n)[i] = c[j]
<1>1. Capacity \in Nat \ {0} /\ Len(c) \in Nat /\ DOMAIN c = 1..Len(c)
  BY FeedAssumption
<1>2. CASE Len(c) < Capacity
  <2>1. Received(c, n) = Append(c, n)
    BY <1>2 DEF Received
  <2>2. QED
    BY <1>1, <1>2, <2>1
<1>3. CASE Len(c) = Capacity
  <2>1. Received(c, n) = Append(Tail(c), n)
    BY <1>1, <1>3 DEF Received
  <2>2. c # <<>> /\ Len(c) > 0
    BY <1>1, <1>3
  <2>3. PICK t \in Seq(Note) : t = Tail(c)
    <3>1. Tail(c) \in Seq(Note)
      BY <2>2
    <3>2. QED
      BY <3>1
  <2>4. Len(t) = Len(c) - 1 /\ \A i \in 1..Len(t) : t[i] = c[i + 1] /\ i + 1 \in 1..Len(c)
    BY <1>1, <2>2, <2>3
  <2>5. /\ Append(t, n) \in Seq(Note) /\ Len(Append(t, n)) = Len(t) + 1
        /\ DOMAIN Append(t, n) = 1 .. Len(t) + 1
        /\ \A i \in 1..Len(t) : Append(t, n)[i] = t[i]
        /\ Append(t, n)[Len(t) + 1] = n
    OBVIOUS
  <2>6. QED
    BY <1>1, <1>3, <2>1, <2>3, <2>4, <2>5
<1>4. QED
  BY <1>1, <1>2, <1>3

Noted(kind, s) == [kind |-> kind, s |-> s]

LEMMA BroadcastFacts ==
  ASSUME TypeOK, NEW kind \in {"ack", "note", "stopped"}, NEW s \in Sid,
         Broadcast(kind, s)
  PROVE  /\ Noted(kind, s) \in Note
         /\ chan' \in Seq(Note) /\ Len(chan') <= Capacity /\ lagging' \in BOOLEAN
         /\ missed' \in BOOLEAN
         /\ bchan' \in Seq(Note) /\ Len(bchan') <= Capacity /\ blagging' \in BOOLEAN
         /\ bmissed' \in BOOLEAN
         /\ srv = "none" => chan' = chan
         /\ srv # "none" /\ ~missed' => ~missed /\ chan' = Append(chan, Noted(kind, s))
         /\ bridge = "open" /\ ~bmissed' => ~bmissed /\ bchan' = Append(bchan, Noted(kind, s))
         /\ \A i \in DOMAIN chan' :
              chan'[i] = Noted(kind, s) \/ \E j \in DOMAIN chan : chan'[i] = chan[j]
<1>1. Noted(kind, s) \in Note
  BY DEF Noted, Note
<1>2. /\ chan \in Seq(Note) /\ Len(chan) <= Capacity /\ bchan \in Seq(Note)
      /\ Len(bchan) <= Capacity /\ lagging \in BOOLEAN /\ missed \in BOOLEAN
      /\ blagging \in BOOLEAN /\ bmissed \in BOOLEAN
  BY DEF TypeOK
<1>3. /\ chan' = IF srv # "none" THEN Received(chan, Noted(kind, s)) ELSE chan
      /\ lagging' = (lagging \/ Overflows(srv # "none", chan))
      /\ missed' = (missed \/ Overflows(srv # "none", chan))
      /\ bchan' = IF bridge \in {"hello", "open"}
                  THEN Received(bchan, Noted(kind, s)) ELSE bchan
      /\ blagging' = (blagging \/ Overflows(bridge \in {"hello", "open"}, bchan))
      /\ bmissed' = (bmissed \/ Overflows(bridge \in {"hello", "open"}, bchan))
  BY Zenon DEF Broadcast, Noted
<1>4. /\ lagging' \in BOOLEAN /\ missed' \in BOOLEAN
      /\ blagging' \in BOOLEAN /\ bmissed' \in BOOLEAN
  BY <1>2, <1>3, Zenon
<1>5. chan' \in Seq(Note) /\ Len(chan') <= Capacity
      /\ bchan' \in Seq(Note) /\ Len(bchan') <= Capacity
  BY <1>1, <1>2, <1>3, ReceivedFacts
<1>6. srv # "none" /\ ~missed' => ~missed /\ chan' = Append(chan, Noted(kind, s))
  <2>1. srv # "none" /\ ~missed' => ~missed /\ Len(chan) # Capacity
    BY <1>3, Zenon DEF Overflows
  <2>2. QED
    BY <1>1, <1>2, <1>3, <2>1, ReceivedFacts
<1>7. bridge = "open" /\ ~bmissed' => ~bmissed /\ bchan' = Append(bchan, Noted(kind, s))
  <2>1. bridge = "open" /\ ~bmissed' => ~bmissed /\ Len(bchan) # Capacity
    BY <1>3, Zenon DEF Overflows
  <2>2. QED
    BY <1>1, <1>2, <1>3, <2>1, ReceivedFacts
<1>8. \A i \in DOMAIN chan' :
        chan'[i] = Noted(kind, s) \/ \E j \in DOMAIN chan : chan'[i] = chan[j]
  BY <1>1, <1>2, <1>3, ReceivedFacts
<1>9. srv = "none" => chan' = chan
  BY <1>3
<1>10. QED
  BY <1>1, <1>4, <1>5, <1>6, <1>7, <1>8, <1>9

-----------------------------------------------------------------------------
(***************************************************************************)
(* The types.                                                              *)
(***************************************************************************)
LEMMA TypeInit == Init => TypeOK
<1>1. /\ <<>> \in Seq(Note) /\ <<>> \in Seq(Note \cup Reply) /\ <<>> \in Seq(Request)
      /\ Len(<<>>) = 0 /\ Capacity \in Nat /\ Buffer \in Nat
      /\ 0 \in 0..MaxDrop /\ 0 \in 0..MaxInstance
  BY FeedAssumption
<1>2. ASSUME Init
      PROVE  st \in [Sid -> State] /\ busy \in Sid \cup {NoSession}
  BY <1>2 DEF Init, State
<1>3. ASSUME Init
      PROVE  /\ chan \in Seq(Note) /\ Len(chan) <= Capacity
             /\ bchan \in Seq(Note) /\ Len(bchan) <= Capacity
             /\ toAppd \in Seq(Request)
             /\ toPage \in Seq(Note \cup Reply) /\ Len(toPage) <= Buffer
             /\ inst \in 0..MaxInstance /\ known \in 0..MaxInstance /\ drops \in 0..MaxDrop
  <2>1. chan = <<>> /\ bchan = <<>> /\ toAppd = <<>> /\ toPage = <<>>
        /\ inst = 0 /\ known = 0 /\ drops = 0
    BY <1>3 DEF Init
  <2>2. QED
    BY <1>1, <2>1
<1>4. ASSUME Init
      PROVE  /\ client \in {"page", "bridge"} /\ up \in BOOLEAN
             /\ ackDue \subseteq Sid /\ late \subseteq Sid /\ entries \subseteq Sid
             /\ srv \in {"none", "hello", "system"} /\ lagging \in BOOLEAN
             /\ sock \in {"closed", "connecting", "open"}
             /\ bridge \in {"none", "hello", "open", "ended"} /\ blagging \in BOOLEAN
             /\ missed \in BOOLEAN /\ bmissed \in BOOLEAN
  BY <1>4 DEF Init
<1>5. QED
  BY <1>2, <1>3, <1>4 DEF TypeOK

LEMMA MessageFacts ==
  ASSUME TypeOK
  PROVE  /\ Live \subseteq Sid
         /\ [kind |-> "list", all |-> Live] \in Note \cup Reply
         /\ \A s \in Sid : [kind |-> "ack", s |-> s] \in Note \cup Reply
         /\ \A n \in Note \cup Reply :
              /\ n.kind \in {"list", "ack", "note", "stopped"}
              /\ n.kind = "list" => n.all \subseteq Sid
              /\ n.kind # "list" => n \in Note /\ n.s \in Sid
         /\ \A n \in Note : n.kind \in {"ack", "note", "stopped"} /\ n.s \in Sid
  BY DEF Live, Note, Reply

\* What the sessions' steps have in common.
LEMMA BroadcastTypes ==
  ASSUME TypeOK, NEW kind \in {"ack", "note", "stopped"}, NEW s \in Sid,
         Broadcast(kind, s), st' \in [Sid -> State], ackDue' \subseteq Sid,
         late' \subseteq Sid, busy' = busy, UNCHANGED wireVars
  PROVE  TypeOK'
<1>1. UNCHANGED <<srv, bridge, pageVars, client, inst, up>>
  BY DEF Broadcast
<1>2. /\ chan' \in Seq(Note) /\ Len(chan') <= Capacity /\ lagging' \in BOOLEAN
      /\ missed' \in BOOLEAN /\ bchan' \in Seq(Note) /\ Len(bchan') <= Capacity
      /\ blagging' \in BOOLEAN /\ bmissed' \in BOOLEAN
  BY BroadcastFacts
<1>3. QED
  BY <1>1, <1>2 DEF TypeOK, pageVars, wireVars

LEMMA SessionTypes ==
  ASSUME TypeOK, NEW s \in Sid, Launch(s) \/ Ack(s) \/ Changes(s) \/ Stop(s)
  PROVE  TypeOK'
<1>1. CASE Launch(s)
  BY <1>1 DEF Launch, TypeOK, State, srvVars, pageVars, wireVars, bridgeVars
<1>2. CASE Ack(s)
  <2>1. st' \in [Sid -> State] /\ ackDue' \subseteq Sid /\ late' \subseteq Sid
    BY <1>2 DEF Ack, TypeOK
  <2>2. QED
    BY <1>2, <2>1, BroadcastTypes DEF Ack
<1>3. CASE Changes(s)
  <2>1. st' \in [Sid -> State] /\ ackDue' \subseteq Sid /\ late' \subseteq Sid
    BY <1>3 DEF Changes, TypeOK, State
  <2>2. QED
    BY <1>3, <2>1, BroadcastTypes DEF Changes
<1>4. CASE Stop(s)
  <2>1. st' \in [Sid -> State] /\ ackDue' \subseteq Sid /\ late' \subseteq Sid
    BY <1>4 DEF Stop, TypeOK, State
  <2>2. QED
    BY <1>4, <2>1, BroadcastTypes DEF Stop
<1>5. QED
  BY <1>1, <1>2, <1>3, <1>4

LEMMA DisconnectedTypes ==
  ASSUME TypeOK, Disconnected
  PROVE  /\ sock' = "closed" /\ srv' = "none" /\ busy' = NoSession
         /\ chan' = <<>> /\ chan' \in Seq(Note) /\ Len(chan') <= Capacity
         /\ lagging' = FALSE /\ missed' = FALSE
         /\ toAppd' = <<>> /\ toAppd' \in Seq(Request)
         /\ toPage' = <<>> /\ toPage' \in Seq(Note \cup Reply) /\ Len(toPage') <= Buffer
<1>1. Capacity \in Nat /\ Buffer \in Nat
  BY FeedAssumption
<1>2. QED
  BY <1>1 DEF Disconnected

LEMMA ConnectionTypes ==
  ASSUME TypeOK,
         \/ Connect \/ Open \/ Hello \/ Query \/ Forward \/ Read \/ ReplyToLaunch
         \/ RefuseLaunch \/ AskLaunch \/ \E s \in Sid : LaunchForPage(s)
  PROVE  TypeOK'
<1> USE DEF appdVars, srvVars, pageVars, wireVars, bridgeVars
<1>1. CASE Connect
  BY <1>1 DEF Connect, TypeOK
<1>2. CASE Open
  <2>1. <<[kind |-> "hello", token |-> known], [kind |-> "query"]>> \in Seq(Request)
    <3>1. [kind |-> "hello", token |-> known] \in Request /\ [kind |-> "query"] \in Request
      BY DEF TypeOK, Request
    <3>2. QED
      BY <3>1
  <2>2. QED
    BY <1>2, <2>1 DEF Open, TypeOK
<1>3. CASE Hello
  <2>1. CASE Disconnected
    BY <1>3, <2>1, DisconnectedTypes DEF Hello, TypeOK
  <2>2. CASE ~Disconnected
    <3>1. /\ toAppd # <<>> /\ srv' = "system" /\ toAppd' = Tail(toAppd)
          /\ UNCHANGED <<chan, lagging, busy, toPage, sock, missed>>
          /\ UNCHANGED <<known, entries, drops, appdVars, bridgeVars>>
      BY <1>3, <2>2 DEF Hello
    <3>2. toAppd' \in Seq(Request)
      BY <3>1 DEF TypeOK
    <3>3. QED
      BY <3>1, <3>2 DEF TypeOK
  <2>3. QED
    BY <2>1, <2>2
<1>4. ASSUME NEW m \in Note \cup Reply, Len(toPage) < Buffer
      PROVE  /\ Append(toPage, m) \in Seq(Note \cup Reply)
             /\ Len(Append(toPage, m)) <= Buffer
  <2>1. toPage \in Seq(Note \cup Reply) /\ Buffer \in Nat
    BY FeedAssumption DEF TypeOK
  <2>2. QED
    BY <1>4, <2>1
<1>5. CASE Query
  <2>1. toPage' \in Seq(Note \cup Reply) /\ Len(toPage') <= Buffer
    BY <1>4, <1>5, MessageFacts DEF Query, Idle
  <2>2. QED
    BY <1>5, <2>1 DEF Query, IsNext, TypeOK
<1>6. CASE Forward
  <2>1. CASE lagging
    BY <1>6, <2>1 DEF Forward, TypeOK
  <2>2. CASE ~lagging
    <3>1. chan # <<>> /\ toPage' = Append(toPage, Head(chan)) /\ chan' = Tail(chan)
          /\ lagging' = lagging
      BY <1>6, <2>2 DEF Forward
    <3>2. /\ Head(chan) \in Note /\ Tail(chan) \in Seq(Note) /\ Len(Tail(chan)) <= Capacity
      BY <3>1, FeedAssumption DEF TypeOK
    <3>3. toPage' \in Seq(Note \cup Reply) /\ Len(toPage') <= Buffer
      BY <1>4, <1>6, <3>1, <3>2 DEF Forward, Idle
    <3>4. QED
      BY <1>6, <3>1, <3>2, <3>3 DEF Forward, TypeOK
  <2>3. QED
    BY <2>1, <2>2
<1>7. CASE Read
  <2>1. toPage # <<>> /\ toPage \in Seq(Note \cup Reply) /\ Len(toPage) <= Buffer
        /\ Buffer \in Nat
    BY <1>7, FeedAssumption DEF Read, TypeOK
  <2>2. Head(toPage) \in Note \cup Reply /\ Tail(toPage) \in Seq(Note \cup Reply)
        /\ Len(Tail(toPage)) <= Buffer
    BY <2>1
  <2>3. Shows(entries, Head(toPage)) \subseteq Sid
    BY <2>2, MessageFacts, OneMessage DEF Adds, TypeOK
  <2>4. QED
    BY <1>7, <2>2, <2>3 DEF Read, TypeOK
<1>8. CASE ReplyToLaunch
  <2>1. busy \in Sid
    BY <1>8 DEF ReplyToLaunch, TypeOK
  <2>2. toPage' \in Seq(Note \cup Reply) /\ Len(toPage') <= Buffer
    BY <1>4, <1>8, <2>1, MessageFacts DEF ReplyToLaunch
  <2>3. QED
    BY <1>8, <2>2 DEF ReplyToLaunch, TypeOK
<1>9. CASE RefuseLaunch
  BY <1>9 DEF RefuseLaunch, IsNext, TypeOK
<1>10. CASE AskLaunch
  <2>1. <<[kind |-> "launch"]>> \in Seq(Request)
    <3>1. [kind |-> "launch"] \in Request
      BY DEF Request
    <3>2. QED
      BY <3>1
  <2>2. QED
    BY <1>10, <2>1 DEF AskLaunch, TypeOK
<1>11. ASSUME NEW s \in Sid, LaunchForPage(s)
       PROVE  TypeOK'
  BY <1>11 DEF LaunchForPage, IsNext, TypeOK, State
<1>12. QED
  BY <1>1, <1>2, <1>3, <1>5, <1>6, <1>7, <1>8, <1>9, <1>10, <1>11

LEMMA OtherTypes ==
  ASSUME TypeOK,
         \/ Endpoint \/ Drop \/ Start \/ AppdEnds
         \/ BridgeConnect \/ BridgeHello \/ BridgeForward \/ UNCHANGED feedVars
  PROVE  TypeOK'
<1> USE DEF appdVars, srvVars, pageVars, wireVars, bridgeVars
<1>1. CASE Endpoint
  BY <1>1, DisconnectedTypes DEF Endpoint, TypeOK
<1>2. CASE Drop
  <2>1. drops' \in 0..MaxDrop
    BY <1>2, FeedAssumption DEF Drop, TypeOK
  <2>2. QED
    BY <1>2, <2>1, DisconnectedTypes DEF Drop, TypeOK
<1>3. CASE Start
  BY <1>3, FeedAssumption DEF Start, TypeOK
<1>4. CASE AppdEnds
  <2>1. st' \in [Sid -> State] /\ up' \in BOOLEAN /\ ackDue' \subseteq Sid
        /\ late' \subseteq Sid
    BY <1>4 DEF AppdEnds, State
  <2>2. bchan' \in Seq(Note) /\ Len(bchan') <= Capacity
    BY <1>4, FeedAssumption DEF AppdEnds
  <2>3. QED
    BY <1>4, <2>1, <2>2, DisconnectedTypes DEF AppdEnds, TypeOK
<1>5. CASE BridgeConnect
  BY <1>5 DEF BridgeConnect, TypeOK
<1>6. CASE BridgeHello
  BY <1>6 DEF BridgeHello, TypeOK
<1>7. CASE BridgeForward
  <2>1. CASE blagging
    BY <1>7, <2>1 DEF BridgeForward, TypeOK
  <2>2. CASE ~blagging
    <3>1. bchan # <<>> /\ bchan' = Tail(bchan) /\ blagging' = blagging
          /\ bridge' \in {"ended", "open"}
      BY <1>7, <2>2 DEF BridgeForward
    <3>2. Tail(bchan) \in Seq(Note) /\ Len(Tail(bchan)) <= Capacity
      BY <3>1, FeedAssumption DEF TypeOK
    <3>3. QED
      BY <1>7, <3>1, <3>2 DEF BridgeForward, TypeOK
  <2>3. QED
    BY <2>1, <2>2
<1>8. CASE UNCHANGED feedVars
  BY <1>8 DEF feedVars, TypeOK
<1>9. QED
  BY <1>1, <1>2, <1>3, <1>4, <1>5, <1>6, <1>7, <1>8

LEMMA TypeStep == TypeOK /\ [Next]_feedVars => TypeOK'
  BY SessionTypes, ConnectionTypes, OtherTypes DEF Next

\* What the clients, their connections and the channel hold is always of the
\* declared types: no receiver holds more than the channel's capacity, no socket more
\* than fits.
THEOREM TypeCorrect == Spec => []TypeOK
  BY TypeInit, TypeStep, PTL DEF Spec

-----------------------------------------------------------------------------
(***************************************************************************)
(* The taskbar.                                                            *)
(*                                                                         *)
(* Shown is what the page will show once it has read what its connection   *)
(* still brings; before the open event that is nothing.  Every broadcast   *)
(* adds one message at the end and changes Shown as it changes the         *)
(* sessions.  A reply, though, overtakes what the channel holds: a session *)
(* in a list has no Stopped behind it, for it runs (StoppedTrue), and an   *)
(* acknowledged one that stopped has (ReplyTrue).                          *)
(***************************************************************************)
Base == IF sock = "open" THEN entries ELSE {}
Shown == After(Base, toPage \o chan)

\* How the two ends and the wires go together.
Wires ==
  /\ \A s \in ackDue : st[s] # "none"
  /\ busy # NoSession => st[busy] # "none"
  /\ srv = "none" <=> sock = "closed"
  /\ srv = "system" => sock = "open"
  /\ sock # "open" => toAppd = <<>> /\ toPage = <<>> /\ busy = NoSession
  /\ srv = "none" => chan = <<>>
  /\ srv = "hello" /\ sock = "open" => Len(toAppd) = 2 /\ toAppd[2].kind = "query"

\* Only a stopped session has a Stopped.
StoppedTrue ==
  \A i \in DOMAIN chan : chan[i].kind = "stopped" => st[chan[i].s] = "stopped"

\* The Stopped of a session whose launch is to be answered comes after it.
ReplyTrue ==
  busy # NoSession /\ ~missed /\ st[busy] = "stopped" =>
    \E i \in DOMAIN chan : chan[i] = Noted("stopped", busy)

NoGhosts == srv # "none" /\ ~missed => Shown \subseteq Live \cup late
NoneMissing == Answered /\ ~missed => Live \subseteq Shown \cup ackDue

TaskbarInv == Wires /\ StoppedTrue /\ ReplyTrue /\ NoGhosts /\ NoneMissing

LEMMA TaskbarInit == Init => TaskbarInv
<1> SUFFICES ASSUME Init
             PROVE  TaskbarInv
  OBVIOUS
<1>1. Wires
  BY DEF Init, Wires
<1>2. StoppedTrue
  BY DEF Init, StoppedTrue
<1>3. ReplyTrue /\ NoGhosts /\ NoneMissing
  BY DEF Init, ReplyTrue, NoGhosts, NoneMissing, Answered
<1>4. QED
  BY <1>1, <1>2, <1>3 DEF TaskbarInv

LEMMA TaskbarMeans ==
  ASSUME TypeOK, TaskbarInv
  PROVE  TaskbarCatchesUp
<1>1. Answered => sock = "open" /\ srv # "none"
  BY DEF TaskbarInv, Wires, Answered
<1>2. Answered => CaughtUp = Shown
  BY <1>1 DEF CaughtUp, Shown, Base
<1>3. QED
  BY <1>1, <1>2 DEF TaskbarInv, NoGhosts, NoneMissing, TaskbarCatchesUp

LEMMA AllSent ==
  ASSUME TypeOK
  PROVE  /\ toPage \in Seq(Note \cup Reply) /\ chan \in Seq(Note \cup Reply)
         /\ toPage \o chan \in Seq(Note \cup Reply)
<1>1. toPage \in Seq(Note \cup Reply) /\ chan \in Seq(Note)
  BY DEF TypeOK
<1>2. chan \in Seq(Note \cup Reply)
  BY <1>1
<1>3. QED
  BY <1>1, <1>2

LEMMA Quiet ==
  ASSUME TaskbarInv, Answered' => Answered, Wires',
         UNCHANGED <<srv, chan, busy, missed, toPage, sock, entries, st, ackDue, late>>
  PROVE  TaskbarInv'
<1>1. Shown' = Shown
  BY DEF Shown, Base
<1>2. Live' = Live
  BY DEF Live
<1>3. StoppedTrue'
  BY DEF TaskbarInv, StoppedTrue
<1>4. ReplyTrue'
  BY DEF TaskbarInv, ReplyTrue
<1>5. NoGhosts'
  BY <1>1, <1>2 DEF TaskbarInv, NoGhosts
<1>6. NoneMissing'
  BY <1>1, <1>2 DEF TaskbarInv, NoneMissing
<1>7. QED
  BY <1>3, <1>4, <1>5, <1>6 DEF TaskbarInv

LEMMA Gone ==
  ASSUME TaskbarInv, Disconnected, \A s \in ackDue' : st'[s] # "none"
  PROVE  TaskbarInv'
<1>1. /\ sock' = "closed" /\ srv' = "none" /\ chan' = <<>> /\ busy' = NoSession
      /\ toAppd' = <<>> /\ toPage' = <<>>
  BY DEF Disconnected
<1>2. Wires'
  BY <1>1 DEF Wires
<1>3. StoppedTrue'
  BY <1>1 DEF StoppedTrue
<1>4. ReplyTrue' /\ NoGhosts' /\ NoneMissing'
  BY <1>1 DEF ReplyTrue, NoGhosts, NoneMissing, Answered
<1>5. QED
  BY <1>2, <1>3, <1>4 DEF TaskbarInv

LEMMA LaunchKeeps ==
  ASSUME TypeOK, TaskbarInv, NEW s \in Sid, st[s] = "none",
         st' = [st EXCEPT ![s] = "starting"], ackDue' = ackDue \cup {s},
         Answered' => Answered, busy' \in {busy, s}, Wires',
         UNCHANGED <<srv, chan, missed, toPage, sock, entries, late>>
  PROVE  TaskbarInv'
<1>1. st \in [Sid -> State] /\ chan \in Seq(Note) /\ busy \in Sid \cup {NoSession}
  BY DEF TypeOK
<1>2. st'[s] = "starting" /\ \A x \in Sid : x # s => st'[x] = st[x]
  BY <1>1
<1>3. Live' = Live \cup {s}
  BY <1>2 DEF Live
<1>4. Shown' = Shown
  BY DEF Shown, Base
<1>5. StoppedTrue'
  <2>1. ASSUME NEW i \in DOMAIN chan, chan[i].kind = "stopped"
        PROVE  st'[chan[i].s] = "stopped"
    <3>1. chan[i].s \in Sid /\ st[chan[i].s] = "stopped"
      BY <1>1, <2>1, MessageFacts DEF TaskbarInv, StoppedTrue
    <3>2. QED
      BY <1>2, <3>1
  <2>2. QED
    BY <2>1 DEF StoppedTrue
<1>6. ReplyTrue'
  BY <1>1, <1>2 DEF TaskbarInv, ReplyTrue
<1>7. NoGhosts'
  BY <1>3, <1>4 DEF TaskbarInv, NoGhosts
<1>8. NoneMissing'
  BY <1>3, <1>4 DEF TaskbarInv, NoneMissing
<1>9. QED
  BY <1>5, <1>6, <1>7, <1>8 DEF TaskbarInv

\* What is shown after a broadcast.
LEMMA BroadcastShown ==
  ASSUME TypeOK, NEW kind \in {"ack", "note", "stopped"}, NEW s \in Sid,
         Broadcast(kind, s), UNCHANGED wireVars, srv # "none", ~missed'
  PROVE  Shown' = Shows(Shown, Noted(kind, s))
<1>1. /\ chan' = Append(chan, Noted(kind, s)) /\ Noted(kind, s) \in Note \cup Reply
  BY BroadcastFacts
<1>2. toPage' = toPage /\ Base' = Base
  BY DEF Broadcast, pageVars, wireVars, Base
<1>3. toPage \o Append(chan, Noted(kind, s)) = Append(toPage \o chan, Noted(kind, s))
  BY <1>1, AllSent
<1>4. toPage \o chan \in Seq(Note \cup Reply)
  BY AllSent
<1>5. After(Base, Append(toPage \o chan, Noted(kind, s)))
        = Shows(After(Base, toPage \o chan), Noted(kind, s))
  BY <1>1, <1>4, AfterAppended
<1>6. QED
  BY <1>1, <1>2, <1>3, <1>5 DEF Shown

LEMMA BroadcastKeeps ==
  ASSUME TypeOK, TaskbarInv, NEW kind \in {"ack", "note", "stopped"}, NEW s \in Sid,
         Broadcast(kind, s), UNCHANGED wireVars, busy' = busy,
         st' \in [Sid -> State],
         \A x \in Sid : /\ st'[x] = "stopped" <=>
                             st[x] = "stopped" \/ (kind = "stopped" /\ x = s)
                        /\ st'[x] = "none" <=> st[x] = "none",
         ackDue' \subseteq ackDue
  PROVE  Wires' /\ StoppedTrue' /\ ReplyTrue' /\ (Answered' <=> Answered)
<1>1. UNCHANGED <<srv, sock, toAppd, toPage>>
  BY DEF Broadcast, pageVars, wireVars
<1>2. /\ chan' \in Seq(Note) /\ chan \in Seq(Note) /\ busy \in Sid \cup {NoSession}
      /\ Noted(kind, s) \in Note /\ ackDue \subseteq Sid
  BY BroadcastFacts DEF TypeOK
<1>3. srv = "none" => chan' = chan
  BY BroadcastFacts
<1>4. Wires'
  BY <1>1, <1>2, <1>3 DEF TaskbarInv, Wires
<1>5. StoppedTrue'
  <2>1. ASSUME NEW i \in DOMAIN chan', chan'[i].kind = "stopped"
        PROVE  st'[chan'[i].s] = "stopped"
    <3>1. CASE chan'[i] = Noted(kind, s)
      BY <2>1, <3>1 DEF Noted
    <3>2. ASSUME NEW j \in DOMAIN chan, chan'[i] = chan[j]
          PROVE  st'[chan'[i].s] = "stopped"
      <4>1. chan[j].s \in Sid /\ st[chan[j].s] = "stopped"
        BY <1>2, <2>1, <3>2, MessageFacts DEF TaskbarInv, StoppedTrue
      <4>2. QED
        BY <3>2, <4>1
    <3>3. QED
      BY <2>1, <3>1, <3>2, BroadcastFacts
  <2>2. QED
    BY <2>1 DEF StoppedTrue
<1>6. ReplyTrue'
  <2>1. SUFFICES ASSUME busy # NoSession, ~missed', st'[busy] = "stopped"
                 PROVE  \E i \in DOMAIN chan' : chan'[i] = Noted("stopped", busy)
    BY DEF ReplyTrue
  <2>2. srv # "none" /\ busy \in Sid
    BY <1>2, <2>1 DEF TaskbarInv, Wires
  <2>3. ~missed /\ chan' = Append(chan, Noted(kind, s))
    BY <2>1, <2>2, BroadcastFacts
  <2>4. /\ Len(chan) \in Nat /\ DOMAIN chan = 1..Len(chan)
        /\ DOMAIN chan' = 1 .. Len(chan) + 1
        /\ \A i \in 1..Len(chan) : chan'[i] = chan[i]
        /\ chan'[Len(chan) + 1] = Noted(kind, s)
    BY <1>2, <2>3
  <2>5. CASE st[busy] = "stopped"
    <3>1. PICK i \in DOMAIN chan : chan[i] = Noted("stopped", busy)
      BY <2>1, <2>3, <2>5 DEF TaskbarInv, ReplyTrue
    <3>2. QED
      BY <2>4, <3>1
  <2>6. CASE st[busy] # "stopped"
    <3>1. kind = "stopped" /\ busy = s
      BY <2>1, <2>2, <2>6
    <3>2. QED
      BY <2>4, <3>1
  <2>7. QED
    BY <2>5, <2>6
<1>7. QED
  BY <1>1, <1>4, <1>5, <1>6 DEF Answered

LEMMA AckTaskbar ==
  ASSUME TypeOK, TaskbarInv, NEW s \in Sid, Ack(s)
  PROVE  TaskbarInv'
<1>1. /\ s \in ackDue /\ ackDue' = ackDue \ {s} /\ Broadcast("ack", s)
      /\ late' = (IF st[s] = "stopped" THEN late \cup {s} ELSE late)
      /\ UNCHANGED wireVars /\ st' = st /\ busy' = busy /\ srv' = srv
  BY DEF Ack, Broadcast
<1>2. Wires' /\ StoppedTrue' /\ ReplyTrue' /\ (Answered' <=> Answered)
  BY <1>1, BroadcastKeeps DEF TypeOK
<1>3. Live' = Live /\ s \in Live \cup late'
  BY <1>1 DEF TaskbarInv, Wires, Live, TypeOK, State
<1>4. srv # "none" /\ ~missed' => ~missed /\ Shown' = Shown \cup {s}
  <2>1. srv # "none" /\ ~missed' => Shown' = Shows(Shown, Noted("ack", s))
    BY <1>1, BroadcastShown
  <2>2. Shows(Shown, Noted("ack", s)) = Shown \cup {s}
    BY DEF Shows, Noted
  <2>3. QED
    BY <1>1, <2>1, <2>2, BroadcastFacts
<1>5. NoGhosts'
  BY <1>1, <1>3, <1>4 DEF TaskbarInv, NoGhosts
<1>6. NoneMissing'
  BY <1>1, <1>2, <1>3, <1>4 DEF TaskbarInv, NoneMissing, Answered
<1>7. QED
  BY <1>2, <1>5, <1>6 DEF TaskbarInv

LEMMA ChangesTaskbar ==
  ASSUME TypeOK, TaskbarInv, NEW s \in Sid, Changes(s)
  PROVE  TaskbarInv'
<1>1. /\ Broadcast("note", s) /\ UNCHANGED wireVars
      /\ ackDue' = ackDue /\ late' = late /\ busy' = busy /\ srv' = srv
      /\ st[s] \in {"starting", "running"} /\ st \in [Sid -> State]
      /\ \/ st' = [st EXCEPT ![s] = "running"]
         \/ st' = [st EXCEPT ![s] = "stopping"]
  BY DEF Changes, Broadcast, TypeOK
<1>2. /\ st' \in [Sid -> State] /\ st'[s] \in {"running", "stopping"}
      /\ \A x \in Sid : x # s => st'[x] = st[x]
  BY <1>1 DEF State
<1>3. Wires' /\ StoppedTrue' /\ ReplyTrue' /\ (Answered' <=> Answered)
  <2>1. \A x \in Sid : /\ st'[x] = "stopped" <=> st[x] = "stopped"
                       /\ st'[x] = "none" <=> st[x] = "none"
    BY <1>1, <1>2
  <2>2. QED
    BY <1>1, <1>2, <2>1, BroadcastKeeps
<1>4. Live' = Live
  BY <1>1, <1>2 DEF Live
<1>5. srv # "none" /\ ~missed' => ~missed /\ Shown' = Shown
  <2>1. srv # "none" /\ ~missed' => Shown' = Shows(Shown, Noted("note", s))
    BY <1>1, BroadcastShown
  <2>2. Shows(Shown, Noted("note", s)) = Shown
    BY DEF Shows, Noted
  <2>3. QED
    BY <1>1, <2>1, <2>2, BroadcastFacts
<1>6. NoGhosts'
  BY <1>1, <1>4, <1>5 DEF TaskbarInv, NoGhosts
<1>7. NoneMissing'
  BY <1>1, <1>3, <1>4, <1>5 DEF TaskbarInv, NoneMissing, Answered
<1>8. QED
  BY <1>3, <1>6, <1>7 DEF TaskbarInv

LEMMA StopTaskbar ==
  ASSUME TypeOK, TaskbarInv, NEW s \in Sid, Stop(s)
  PROVE  TaskbarInv'
<1>1. /\ Broadcast("stopped", s) /\ UNCHANGED wireVars
      /\ ackDue' = ackDue /\ late' = late /\ busy' = busy /\ srv' = srv
      /\ st[s] = "stopping" /\ st \in [Sid -> State]
      /\ st' = [st EXCEPT ![s] = "stopped"]
  BY DEF Stop, Broadcast, TypeOK
<1>2. /\ st' \in [Sid -> State] /\ st'[s] = "stopped"
      /\ \A x \in Sid : x # s => st'[x] = st[x]
  BY <1>1 DEF State
<1>3. Wires' /\ StoppedTrue' /\ ReplyTrue' /\ (Answered' <=> Answered)
  <2>1. \A x \in Sid : /\ st'[x] = "stopped" <=> st[x] = "stopped" \/ x = s
                       /\ st'[x] = "none" <=> st[x] = "none"
    BY <1>1, <1>2
  <2>2. QED
    BY <1>1, <1>2, <2>1, BroadcastKeeps
<1>4. Live' = Live \ {s}
  BY <1>1, <1>2 DEF Live
<1>5. srv # "none" /\ ~missed' => ~missed /\ Shown' = Shown \ {s}
  <2>1. srv # "none" /\ ~missed' => Shown' = Shows(Shown, Noted("stopped", s))
    BY <1>1, BroadcastShown
  <2>2. Shows(Shown, Noted("stopped", s)) = Shown \ {s}
    BY DEF Shows, Noted
  <2>3. QED
    BY <1>1, <2>1, <2>2, BroadcastFacts
<1>6. NoGhosts'
  BY <1>1, <1>4, <1>5 DEF TaskbarInv, NoGhosts
<1>7. NoneMissing'
  BY <1>1, <1>3, <1>4, <1>5 DEF TaskbarInv, NoneMissing, Answered
<1>8. QED
  BY <1>3, <1>6, <1>7 DEF TaskbarInv
\* A reply goes before what the channel holds.
LEMMA ReplyShown ==
  ASSUME TypeOK, NEW m \in Note \cup Reply, toPage' = Append(toPage, m),
         UNCHANGED <<chan, sock, entries>>
  PROVE  /\ Shown = After(After(Base, toPage), chan)
         /\ Shown' = After(Shows(After(Base, toPage), m), chan)
<1>1. toPage \in Seq(Note \cup Reply) /\ chan \in Seq(Note \cup Reply)
  BY AllSent
<1>2. Append(toPage, m) \in Seq(Note \cup Reply)
  BY <1>1
<1>3. After(Base, toPage \o chan) = After(After(Base, toPage), chan)
  BY <1>1, AfterJoined
<1>4. After(Base, Append(toPage, m) \o chan) = After(After(Base, Append(toPage, m)), chan)
  BY <1>1, <1>2, AfterJoined
<1>5. After(Base, Append(toPage, m)) = Shows(After(Base, toPage), m)
  BY <1>1, AfterAppended
<1>6. Base' = Base
  BY DEF Base
<1>7. QED
  BY <1>3, <1>4, <1>5, <1>6 DEF Shown

\* Taking a request leaves what was answered answered, unless it is the query.
LEMMA TakesRequest ==
  ASSUME TypeOK, toAppd # <<>>, toAppd' = Tail(toAppd), srv' = srv
  PROVE  /\ Answered => Answered'
         /\ Head(toAppd).kind # "query" => (Answered' => Answered)
<1>1. toAppd \in Seq(Request)
  BY DEF TypeOK
<1>2. /\ Len(toAppd) \in Nat /\ DOMAIN toAppd = 1..Len(toAppd) /\ Len(toAppd) > 0
      /\ DOMAIN toAppd' = 1 .. Len(toAppd) - 1
      /\ \A i \in 1 .. Len(toAppd) - 1 : toAppd'[i] = toAppd[i + 1]
      /\ Head(toAppd) = toAppd[1]
  BY <1>1
<1>3. \A i \in 1..Len(toAppd) : i = 1 \/ (i - 1 \in 1 .. Len(toAppd) - 1 /\ i = (i - 1) + 1)
  BY <1>2
<1>4. \A i \in 1 .. Len(toAppd) - 1 : i + 1 \in 1..Len(toAppd)
  BY <1>2
<1>5. Answered => Answered'
  BY <1>2, <1>4 DEF Answered
<1>6. Head(toAppd).kind # "query" => (Answered' => Answered)
  <2>1. SUFFICES ASSUME Head(toAppd).kind # "query", Answered', NEW i \in DOMAIN toAppd
                 PROVE  toAppd[i].kind # "query"
    BY DEF Answered
  <2>2. CASE i = 1
    BY <1>2, <2>1, <2>2
  <2>3. CASE i - 1 \in 1 .. Len(toAppd) - 1 /\ i = (i - 1) + 1
    <3>1. toAppd'[i - 1] = toAppd[i]
      BY <1>2, <2>3
    <3>2. toAppd'[i - 1].kind # "query"
      BY <1>2, <2>1, <2>3 DEF Answered
    <3>3. QED
      BY <3>1, <3>2
  <2>4. QED
    BY <1>2, <1>3, <2>1, <2>2, <2>3
<1>7. QED
  BY <1>5, <1>6

LEMMA ConnectTaskbar ==
  ASSUME TypeOK, TaskbarInv, Connect \/ Open
  PROVE  TaskbarInv'
<1> USE DEF appdVars, srvVars, pageVars, wireVars
<1>1. /\ sock # "open" /\ toPage = <<>> /\ toPage' = toPage /\ chan' = chan
      /\ busy' = busy /\ busy = NoSession /\ missed' = missed
      /\ st' = st /\ ackDue' = ackDue /\ late' = late
      /\ srv' = "hello"
  <2>1. CASE Connect
    BY <2>1 DEF TaskbarInv, Wires, Connect
  <2>2. CASE Open
    BY <2>2 DEF TaskbarInv, Wires, Open, TypeOK
  <2>3. QED
    BY <2>1, <2>2
<1>2. Wires'
  <2>1. CASE Connect
    BY <1>1, <2>1 DEF TaskbarInv, Wires, Connect
  <2>2. CASE Open
    <3>1. sock' = "open"
          /\ toAppd' = <<[kind |-> "hello", token |-> known], [kind |-> "query"]>>
      BY <2>2 DEF Open
    <3>2. Len(toAppd') = 2 /\ toAppd'[2].kind = "query"
      BY <3>1
    <3>3. QED
      BY <1>1, <3>1, <3>2 DEF TaskbarInv, Wires
  <2>3. QED
    BY <2>1, <2>2
<1>3. Base = {} /\ Base' = {}
  BY <1>1 DEF Connect, Open, Base
<1>4. Shown' = Shown /\ Live' = Live
  BY <1>1, <1>3 DEF Shown, Live
<1>5. StoppedTrue' /\ ReplyTrue'
  BY <1>1 DEF TaskbarInv, StoppedTrue, ReplyTrue
<1>6. NoGhosts'
  <2>1. CASE Connect
    <3>1. chan = <<>>
      BY <2>1 DEF TaskbarInv, Wires, Connect
    <3>2. Shown = After({}, <<>>)
      <4>1. toPage \o chan = <<>>
        BY <1>1, <3>1
      <4>2. QED
        BY <1>3, <4>1 DEF Shown
    <3>3. After({}, <<>>) = {}
      <4>1. <<>> \in Seq(Note) /\ DOMAIN <<>> = {}
        OBVIOUS
      <4>2. \A x : x \in After({}, <<>>) <=> LastAdds({}, <<>>, x)
        BY <4>1, AfterIs
      <4>3. \A x : ~LastAdds({}, <<>>, x)
        BY <4>1 DEF LastAdds
      <4>4. QED
        BY <4>2, <4>3
    <3>4. QED
      BY <1>4, <3>2, <3>3 DEF NoGhosts
  <2>2. CASE Open
    <3>1. srv # "none"
      BY <2>2 DEF TaskbarInv, Wires, Open
    <3>2. QED
      BY <1>1, <1>4, <3>1 DEF TaskbarInv, NoGhosts
  <2>3. QED
    BY <2>1, <2>2
<1>7. NoneMissing'
  BY <1>1 DEF NoneMissing, Answered
<1>8. QED
  BY <1>2, <1>5, <1>6, <1>7 DEF TaskbarInv

LEMMA HelloTaskbar ==
  ASSUME TypeOK, TaskbarInv, Hello
  PROVE  TaskbarInv'
<1> USE DEF appdVars, pageVars
<1>1. CASE Disconnected
  <2>1. \A s \in ackDue' : st'[s] # "none"
    BY DEF Hello, TaskbarInv, Wires
  <2>2. QED
    BY <1>1, <2>1, Gone
<1>2. CASE ~Disconnected
  <2>1. /\ srv = "hello" /\ toAppd # <<>> /\ srv' = "system" /\ toAppd' = Tail(toAppd)
        /\ UNCHANGED <<chan, lagging, busy, toPage, sock, missed, entries, st, ackDue, late>>
    BY <1>2 DEF Hello
  <2>2. sock = "open" /\ Len(toAppd) = 2 /\ toAppd[2].kind = "query"
    BY <2>1 DEF TaskbarInv, Wires, TypeOK
  <2>3. toAppd'[1].kind = "query" /\ 1 \in DOMAIN toAppd'
    <3>1. toAppd \in Seq(Request)
      BY DEF TypeOK
    <3>2. /\ Len(Tail(toAppd)) = Len(toAppd) - 1 /\ DOMAIN Tail(toAppd) = 1 .. Len(toAppd) - 1
          /\ \A i \in 1 .. Len(toAppd) - 1 : Tail(toAppd)[i] = toAppd[i + 1]
      BY <2>1, <3>1
    <3>3. 1 \in 1 .. Len(toAppd) - 1 /\ 1 + 1 = 2
      BY <2>2
    <3>4. Tail(toAppd)[1] = toAppd[2] /\ 1 \in DOMAIN Tail(toAppd)
      BY <3>2, <3>3
    <3>5. QED
      BY <2>1, <2>2, <3>4
  <2>4. ~Answered'
    BY <2>3 DEF Answered
  <2>5. Wires'
    BY <2>1, <2>2 DEF TaskbarInv, Wires
  <2>6. Shown' = Shown /\ Live' = Live
    BY <2>1 DEF Shown, Base, Live
  <2>7. StoppedTrue' /\ ReplyTrue'
    BY <2>1 DEF TaskbarInv, StoppedTrue, ReplyTrue
  <2>8. NoGhosts' /\ NoneMissing'
    BY <2>1, <2>4, <2>6 DEF TaskbarInv, NoGhosts, NoneMissing
  <2>9. QED
    BY <2>5, <2>7, <2>8 DEF TaskbarInv
<1>3. QED
  BY <1>1, <1>2

LEMMA QueryTaskbar ==
  ASSUME TypeOK, TaskbarInv, Query
  PROVE  TaskbarInv'
<1> DEFINE A == After(Base, toPage)
           list == [kind |-> "list", all |-> Live]
<1>1. /\ srv = "system" /\ busy = NoSession /\ toAppd # <<>> /\ toAppd' = Tail(toAppd)
      /\ toPage' = Append(toPage, list)
      /\ UNCHANGED <<srv, chan, lagging, busy, sock, entries, st, ackDue, late, missed>>
  BY DEF Query, Idle, IsNext, srvVars, pageVars, appdVars
<1>2. list \in Note \cup Reply /\ Shows(A, list) = A \cup Live
  BY MessageFacts DEF Shows
<1>3. Shown = After(A, chan) /\ Shown' = After(A \cup Live, chan)
  <2> HIDE DEF list
  <2>1. Shown = After(A, chan) /\ Shown' = After(Shows(A, list), chan)
    BY <1>1, <1>2, ReplyShown
  <2>2. QED
    BY <1>2, <2>1
<1> HIDE DEF A, list
<1>4. chan \in Seq(Note \cup Reply) /\ chan \in Seq(Note)
  BY AllSent DEF TypeOK
<1>5. Shown \subseteq Shown' /\ Shown' \subseteq Shown \cup Live
  BY <1>3, <1>4, AfterMore
<1>6. Live \subseteq Shown'
  <2>1. ASSUME NEW x \in Live
        PROVE  \A i \in DOMAIN chan : ~Drops(chan[i], x)
    <3>1. st[x] # "stopped"
      BY DEF Live
    <3>2. QED
      BY <3>1 DEF TaskbarInv, StoppedTrue, Drops
  <2>2. ASSUME NEW x \in Live
        PROVE  x \in After(A \cup Live, chan)
    BY <1>4, <2>1, AfterKeeps
  <2>3. QED
    BY <1>3, <2>2
<1>7. Live' = Live
  BY <1>1 DEF Live
<1>8. Wires'
  BY <1>1 DEF TaskbarInv, Wires
<1>9. StoppedTrue' /\ ReplyTrue'
  BY <1>1 DEF TaskbarInv, StoppedTrue, ReplyTrue
<1>10. NoGhosts'
  BY <1>1, <1>5, <1>7 DEF TaskbarInv, NoGhosts
<1>11. NoneMissing'
  BY <1>6, <1>7 DEF NoneMissing
<1>12. QED
  BY <1>8, <1>9, <1>10, <1>11 DEF TaskbarInv

LEMMA ReplyToLaunchTaskbar ==
  ASSUME TypeOK, TaskbarInv, ReplyToLaunch
  PROVE  TaskbarInv'
<1> DEFINE A == After(Base, toPage)
           ack == [kind |-> "ack", s |-> busy]
<1>1. /\ busy # NoSession /\ toPage' = Append(toPage, ack) /\ busy' = NoSession
      /\ UNCHANGED <<srv, chan, toAppd, sock, entries, st, ackDue, late, missed>>
  BY DEF ReplyToLaunch, pageVars, appdVars
<1>2. busy \in Sid /\ st[busy] # "none" /\ srv # "none" /\ sock = "open"
  BY <1>1 DEF TaskbarInv, Wires, TypeOK
<1>3. ack \in Note \cup Reply /\ Shows(A, ack) = A \cup {busy}
  BY <1>2, MessageFacts DEF Shows
<1>4. Shown = After(A, chan) /\ Shown' = After(A \cup {busy}, chan)
  <2> HIDE DEF ack
  <2>1. Shown = After(A, chan) /\ Shown' = After(Shows(A, ack), chan)
    BY <1>1, <1>3, ReplyShown
  <2>2. QED
    BY <1>3, <2>1
<1> HIDE DEF A, ack
<1>5. chan \in Seq(Note \cup Reply)
  BY AllSent
<1>6. Shown \subseteq Shown' /\ Shown' \subseteq Shown \cup {busy}
  BY <1>4, <1>5, AfterMore
<1>7. ~missed /\ st[busy] = "stopped" => Shown' \subseteq Shown
  <2>1. SUFFICES ASSUME ~missed, st[busy] = "stopped"
                 PROVE  busy \in Shown' => busy \in Shown
    BY <1>6
  <2>2. \E i \in DOMAIN chan : Drops(chan[i], busy)
    BY <1>1, <2>1 DEF TaskbarInv, ReplyTrue, Drops, Noted
  <2>3. busy \in After(A \cup {busy}, chan) => busy \in After(A, chan)
    BY <1>5, <2>2, AfterDropped
  <2>4. QED
    BY <1>4, <2>3
<1>8. st[busy] # "stopped" => busy \in Live
  BY <1>2 DEF Live, TypeOK, State
<1>9. Live' = Live
  BY <1>1 DEF Live
<1>10. Wires'
  BY <1>1, <1>2 DEF TaskbarInv, Wires
<1>11. StoppedTrue' /\ ReplyTrue'
  BY <1>1 DEF TaskbarInv, StoppedTrue, ReplyTrue
<1>12. NoGhosts'
  BY <1>1, <1>6, <1>7, <1>8, <1>9 DEF TaskbarInv, NoGhosts
<1>13. NoneMissing'
  BY <1>1, <1>6, <1>9 DEF TaskbarInv, NoneMissing, Answered
<1>14. QED
  BY <1>10, <1>11, <1>12, <1>13 DEF TaskbarInv

LEMMA ForwardTaskbar ==
  ASSUME TypeOK, TaskbarInv, Forward
  PROVE  TaskbarInv'
<1>1. /\ srv = "system" /\ busy = NoSession
      /\ UNCHANGED <<srv, busy, toAppd, sock, entries, st, ackDue, late, missed>>
  BY DEF Forward, Idle, pageVars, appdVars
<1>2. CASE lagging
  <2>1. UNCHANGED <<chan, toPage>>
    BY <1>2 DEF Forward
  <2>2. Wires' /\ (Answered' => Answered)
    BY <1>1, <2>1 DEF TaskbarInv, Wires, Answered
  <2>3. QED
    BY <1>1, <2>1, <2>2, Quiet
<1>3. CASE ~lagging
  <2>1. chan # <<>> /\ toPage' = Append(toPage, Head(chan)) /\ chan' = Tail(chan)
    BY <1>3 DEF Forward
  <2>2. chan \in Seq(Note) /\ toPage \in Seq(Note \cup Reply)
    BY DEF TypeOK
  <2>3. toPage' \o chan' = toPage \o chan
    BY <2>1, <2>2, AllSent
  <2>4. Shown' = Shown /\ Live' = Live
    BY <1>1, <2>3 DEF Shown, Base, Live
  <2>5. \A i \in DOMAIN chan' : \E j \in DOMAIN chan : chan'[i] = chan[j]
    <3>1. \A i \in 1 .. Len(chan) - 1 : i + 1 \in 1..Len(chan) /\ Tail(chan)[i] = chan[i + 1]
      BY <2>1, <2>2
    <3>2. DOMAIN chan = 1..Len(chan) /\ DOMAIN Tail(chan) = 1 .. Len(chan) - 1
      BY <2>1, <2>2
    <3>3. QED
      BY <2>1, <3>1, <3>2
  <2>6. StoppedTrue'
    BY <1>1, <2>5 DEF TaskbarInv, StoppedTrue
  <2>7. Wires' /\ ReplyTrue'
    BY <1>1 DEF TaskbarInv, Wires, ReplyTrue
  <2>8. NoGhosts'
    BY <1>1, <2>4 DEF TaskbarInv, NoGhosts
  <2>9. NoneMissing'
    BY <1>1, <2>4 DEF TaskbarInv, NoneMissing, Answered
  <2>10. QED
    BY <2>6, <2>7, <2>8, <2>9 DEF TaskbarInv
<1>4. QED
  BY <1>2, <1>3

LEMMA ReadTaskbar ==
  ASSUME TypeOK, TaskbarInv, Read
  PROVE  TaskbarInv'
<1>1. /\ sock = "open" /\ toPage # <<>>
      /\ entries' = Shows(entries, Head(toPage)) /\ toPage' = Tail(toPage)
      /\ UNCHANGED <<toAppd, sock, srv, chan, busy, st, ackDue, late, missed>>
  BY DEF Read, srvVars, appdVars
<1>2. Shown' = Shown
  <2>1. toPage \in Seq(Note \cup Reply) /\ chan \in Seq(Note \cup Reply)
        /\ toPage \o chan \in Seq(Note \cup Reply)
    BY AllSent
  <2>2. /\ toPage \o chan # <<>> /\ Head(toPage \o chan) = Head(toPage)
        /\ Tail(toPage \o chan) = Tail(toPage) \o chan
    BY <1>1, <2>1
  <2>3. After(entries, toPage \o chan)
          = After(Shows(entries, Head(toPage \o chan)), Tail(toPage \o chan))
    BY <2>1, <2>2, AfterFirst
  <2>4. Base = entries /\ Base' = entries'
    BY <1>1 DEF Base
  <2>5. QED
    BY <1>1, <2>2, <2>3, <2>4 DEF Shown
<1>3. Live' = Live
  BY <1>1 DEF Live
<1>4. Wires'
  BY <1>1 DEF TaskbarInv, Wires
<1>5. StoppedTrue' /\ ReplyTrue'
  BY <1>1 DEF TaskbarInv, StoppedTrue, ReplyTrue
<1>6. NoGhosts'
  BY <1>1, <1>2, <1>3 DEF TaskbarInv, NoGhosts
<1>7. NoneMissing'
  BY <1>1, <1>2, <1>3 DEF TaskbarInv, NoneMissing, Answered
<1>8. QED
  BY <1>4, <1>5, <1>6, <1>7 DEF TaskbarInv

LEMMA LaunchTaskbar ==
  ASSUME TypeOK, TaskbarInv, NEW s \in Sid, Launch(s) \/ LaunchForPage(s)
  PROVE  TaskbarInv'
<1> USE DEF srvVars, pageVars, wireVars
<1>1. /\ st[s] = "none" /\ st' = [st EXCEPT ![s] = "starting"]
      /\ ackDue' = ackDue \cup {s}
      /\ UNCHANGED <<srv, chan, missed, toPage, sock, entries, late>>
      /\ st \in [Sid -> State] /\ ackDue \subseteq Sid
  BY DEF Launch, LaunchForPage, CanLaunch, TypeOK
<1>2. st'[s] = "starting" /\ \A x \in Sid : x # s => st'[x] = st[x]
  BY <1>1
<1>3. CASE Launch(s)
  <2>1. UNCHANGED <<busy, toAppd>>
    BY <1>3 DEF Launch
  <2>2. busy \in Sid \cup {NoSession}
    BY DEF TypeOK
  <2>3. Answered' => Answered
    BY <1>1, <2>1 DEF Answered
  <2>4. Wires'
    BY <1>1, <1>2, <2>1, <2>2 DEF TaskbarInv, Wires
  <2>5. QED
    BY <1>1, <2>1, <2>3, <2>4, LaunchKeeps
<1>4. CASE LaunchForPage(s)
  <2>1. /\ srv = "system" /\ toAppd # <<>> /\ Head(toAppd).kind = "launch"
        /\ toAppd' = Tail(toAppd) /\ busy' = s
    BY <1>4 DEF LaunchForPage, Idle, IsNext
  <2>2. Answered' => Answered
    BY <1>1, <2>1, TakesRequest
  <2>3. Wires'
    BY <1>1, <1>2, <2>1 DEF TaskbarInv, Wires
  <2>4. QED
    BY <1>1, <2>1, <2>2, <2>3, LaunchKeeps
<1>5. QED
  BY <1>3, <1>4

LEMMA QuietTaskbar ==
  ASSUME TypeOK, TaskbarInv,
         \/ RefuseLaunch \/ AskLaunch \/ Start
         \/ BridgeConnect \/ BridgeHello \/ BridgeForward \/ UNCHANGED feedVars
  PROVE  TaskbarInv'
<1>1. UNCHANGED <<srv, chan, busy, missed, toPage, sock, entries, st, ackDue, late>>
  BY DEF RefuseLaunch, AskLaunch, Start, BridgeConnect, BridgeHello, BridgeForward,
         feedVars, appdVars, srvVars, pageVars, wireVars
<1>2. CASE RefuseLaunch
  <2>1. /\ srv = "system" /\ toAppd # <<>> /\ Head(toAppd).kind = "launch"
        /\ toAppd' = Tail(toAppd)
    BY <1>2 DEF RefuseLaunch, Idle, IsNext
  <2>2. Answered' => Answered
    BY <1>1, <2>1, TakesRequest
  <2>3. Wires'
    BY <1>1, <2>1 DEF TaskbarInv, Wires
  <2>4. QED
    BY <1>1, <2>2, <2>3, Quiet
<1>3. CASE AskLaunch
  <2>1. sock = "open" /\ toAppd = <<>>
    BY <1>3 DEF AskLaunch
  <2>2. Answered' => Answered
    BY <1>1, <2>1 DEF Answered
  <2>3. Len(toAppd) # 2
    BY <2>1
  <2>4. Wires'
    BY <1>1, <2>1, <2>3 DEF TaskbarInv, Wires
  <2>5. QED
    BY <1>1, <2>2, <2>4, Quiet
<1>4. CASE UNCHANGED toAppd
  <2>1. Wires' /\ (Answered' => Answered)
    BY <1>1, <1>4 DEF TaskbarInv, Wires, Answered
  <2>2. QED
    BY <1>1, <2>1, Quiet
<1>5. QED
  BY <1>2, <1>3, <1>4
     DEF Start, BridgeConnect, BridgeHello, BridgeForward, feedVars, wireVars

LEMMA GoneTaskbar ==
  ASSUME TypeOK, TaskbarInv, Endpoint \/ Drop \/ AppdEnds
  PROVE  TaskbarInv'
<1>1. \A s \in ackDue' : st'[s] # "none"
  <2>1. CASE Endpoint \/ Drop
    BY <2>1 DEF Endpoint, Drop, appdVars, TaskbarInv, Wires
  <2>2. CASE AppdEnds
    BY <2>2 DEF AppdEnds
  <2>3. QED
    BY <2>1, <2>2
<1>2. QED
  BY <1>1, Gone DEF Endpoint, Drop, AppdEnds

LEMMA TaskbarStep == TypeOK /\ TaskbarInv /\ [Next]_feedVars => TaskbarInv'
  BY AckTaskbar, ChangesTaskbar, StopTaskbar, ConnectTaskbar, HelloTaskbar, QueryTaskbar,
     ReplyToLaunchTaskbar, ForwardTaskbar, ReadTaskbar, LaunchTaskbar, QuietTaskbar,
     GoneTaskbar DEF Next

\* Whatever was sent while the page connected, asked and waited for a reply: unless it
\* lost notifications, what is underway leaves its taskbar an entry for every session
\* that runs, or whose LaunchAck is to come, and none for one that stopped, save one
\* announced after it had stopped.
THEOREM TaskbarIsRight == Spec => []TaskbarCatchesUp
<1>1. Spec => [](TypeOK /\ TaskbarInv)
  BY TypeInit, TypeStep, TaskbarInit, TaskbarStep, PTL DEF Spec
<1>2. TypeOK /\ TaskbarInv => TaskbarCatchesUp
  BY TaskbarMeans
<1>3. QED
  BY <1>1, <1>2, PTL

-----------------------------------------------------------------------------
(***************************************************************************)
(* The bridge.                                                             *)
(***************************************************************************)
LEMMA BridgeBroadcasts ==
  ASSUME TypeOK, BridgeSeesStop, NEW kind \in {"ack", "note", "stopped"}, NEW s \in Sid,
         Broadcast(kind, s),
         st'[Bridged] = "stopped" <=>
           st[Bridged] = "stopped" \/ (kind = "stopped" /\ s = Bridged)
  PROVE  BridgeSeesStop'
<1> SUFFICES ASSUME bridge' = "open", st'[Bridged] = "stopped", ~bmissed'
             PROVE  \E i \in DOMAIN bchan' :
                      bchan'[i] = [kind |-> "stopped", s |-> Bridged]
  BY DEF BridgeSeesStop
<1>1. bridge = "open"
  BY DEF Broadcast
<1>2. ~bmissed /\ bchan' = Append(bchan, Noted(kind, s))
  BY <1>1, BroadcastFacts
<1>3. bchan \in Seq(Note) /\ Noted(kind, s) \in Note
  BY BroadcastFacts DEF TypeOK
<1>4. /\ Len(bchan) \in Nat /\ DOMAIN bchan = 1..Len(bchan)
      /\ DOMAIN bchan' = 1 .. Len(bchan) + 1
      /\ \A i \in 1..Len(bchan) : bchan'[i] = bchan[i]
      /\ bchan'[Len(bchan) + 1] = Noted(kind, s)
  BY <1>2, <1>3
<1>5. CASE st[Bridged] = "stopped"
  <2>1. PICK i \in DOMAIN bchan : bchan[i] = [kind |-> "stopped", s |-> Bridged]
    BY <1>1, <1>2, <1>5 DEF BridgeSeesStop
  <2>2. QED
    BY <1>4, <2>1
<1>6. CASE kind = "stopped" /\ s = Bridged
  BY <1>4, <1>6 DEF Noted
<1>7. QED
  BY <1>5, <1>6

LEMMA BridgeStep == TypeOK /\ BridgeSeesStop /\ [Next]_feedVars => BridgeSeesStop'
<1> SUFFICES ASSUME TypeOK, BridgeSeesStop, [Next]_feedVars
             PROVE  BridgeSeesStop'
  OBVIOUS
<1>1. Bridged \in Sid /\ st \in [Sid -> State]
  BY FeedAssumption DEF TypeOK
<1>2. ASSUME NEW s \in Sid, Launch(s) \/ LaunchForPage(s)
      PROVE  BridgeSeesStop'
  <2>1. st[s] = "none" /\ st' = [st EXCEPT ![s] = "starting"] /\ UNCHANGED bridgeVars
    BY <1>2 DEF Launch, LaunchForPage, CanLaunch
  <2>2. st'[Bridged] = "stopped" => st[Bridged] = "stopped"
    BY <1>1, <2>1
  <2>3. QED
    BY <2>1, <2>2 DEF BridgeSeesStop, bridgeVars
<1>3. ASSUME NEW s \in Sid, Ack(s) \/ Changes(s) \/ Stop(s)
      PROVE  BridgeSeesStop'
  <2>1. CASE Ack(s)
    BY <2>1, BridgeBroadcasts DEF Ack
  <2>2. CASE Changes(s)
    <3>1. st'[Bridged] = "stopped" <=> st[Bridged] = "stopped"
      BY <1>1, <2>2 DEF Changes
    <3>2. QED
      BY <2>2, <3>1, BridgeBroadcasts DEF Changes
  <2>3. CASE Stop(s)
    <3>1. st'[Bridged] = "stopped" <=> st[Bridged] = "stopped" \/ s = Bridged
      BY <1>1, <2>3 DEF Stop
    <3>2. QED
      BY <2>3, <3>1, BridgeBroadcasts DEF Stop
  <2>4. QED
    BY <1>3, <2>1, <2>2, <2>3
<1>4. CASE BridgeConnect
  BY <1>4 DEF BridgeConnect, BridgeSeesStop
<1>5. CASE BridgeHello
  BY <1>5 DEF BridgeHello, BridgeSeesStop, appdVars, Live
<1>6. CASE BridgeForward
  <2>1. CASE blagging
    BY <1>6, <2>1 DEF BridgeForward, BridgeSeesStop, appdVars
  <2>2. CASE ~blagging
    <3>1. /\ bridge = "open" /\ bchan # <<>> /\ bchan' = Tail(bchan)
          /\ bmissed' = bmissed /\ st' = st
          /\ bridge' = (IF Head(bchan) = [kind |-> "stopped", s |-> Bridged]
                        THEN "ended" ELSE bridge)
      BY <1>6, <2>2 DEF BridgeForward, appdVars
    <3>2. SUFFICES ASSUME bridge' = "open", st'[Bridged] = "stopped", ~bmissed'
                   PROVE  \E i \in DOMAIN bchan' :
                            bchan'[i] = [kind |-> "stopped", s |-> Bridged]
      BY DEF BridgeSeesStop
    <3>3. PICK i \in DOMAIN bchan : bchan[i] = [kind |-> "stopped", s |-> Bridged]
      BY <3>1, <3>2 DEF BridgeSeesStop
    <3>4. bchan[1] # [kind |-> "stopped", s |-> Bridged]
      BY <3>1, <3>2
    <3>5. bchan \in Seq(Note)
      BY DEF TypeOK
    <3>6. i # 1 /\ i - 1 \in DOMAIN bchan' /\ bchan'[i - 1] = bchan[i]
      BY <3>1, <3>3, <3>4, <3>5
    <3>7. QED
      BY <3>3, <3>6
  <2>3. QED
    BY <2>1, <2>2
<1>7. CASE AppdEnds
  BY <1>7 DEF AppdEnds, BridgeSeesStop
<1>8. CASE st' = st /\ UNCHANGED bridgeVars
  BY <1>8 DEF BridgeSeesStop, bridgeVars
<1>9. QED
  BY <1>2, <1>3, <1>4, <1>5, <1>6, <1>7, <1>8
     DEF Next, Connect, Open, Hello, Query, Forward, Read, ReplyToLaunch, RefuseLaunch,
         AskLaunch, Endpoint, Drop, Start, feedVars, appdVars

\* The bridge of a session that stopped has that notification before it, unless it lost
\* some: no order of connecting, authorizing and stopping leaves it waiting.
THEOREM BridgeEnds == Spec => []BridgeSeesStop
<1>1. Init => BridgeSeesStop
  BY DEF Init, BridgeSeesStop
<1>2. QED
  BY <1>1, TypeInit, TypeStep, BridgeStep, PTL DEF Spec
=============================================================================
