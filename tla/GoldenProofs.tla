---------------------------- MODULE GoldenProofs ----------------------------
(***************************************************************************)
(* The engine implements the price-time book of PriceTimeBook: the proof   *)
(* of MatchesGolden for any number of levels, slots, ids and commands.     *)
(*                                                                         *)
(* A book is handled as the set of its orders (Lists): the order of a      *)
(* level is the order of the timestamps, since nothing re-enters a level   *)
(* with an older one. Matching is handled as rounds that end after at most *)
(* as many rounds as there are orders (At, Leaves), and Outcome says what  *)
(* trades, answer and orders the reference gives for a command.            *)
(*                                                                         *)
(* The engine is at work on a command over many cycles. Follows says, for  *)
(* each state of controller, manager and matcher and for the pulse between *)
(* them, how much of the command's outcome is in the trades and in the     *)
(* orders the memories hold (Book), so that the last step, SendAck, shows  *)
(* exactly what the reference answers. Sound and HeldAreOccupied, proved   *)
(* in BookProofs, say that the memories can be read as a book in all of    *)
(* these states and that the encoder marks every level with an order.      *)
(***************************************************************************)
EXTENDS GoldenCheck, BookProofs

\* The two modules use the same words.
LEMMA GoldenWords ==
    /\ Golden!Side = Side /\ Golden!Level = Level
    /\ \A s, p, r : Golden!Better(s, p, r) <=> Better(s, p, r)
    /\ \A i, q, t : Golden!Order(i, q, t) = [id |-> i, qty |-> q, ts |-> t]
    /\ \A S : Golden!Cardinality(S) = Cardinality(S)
    /\ \A p : Golden!PriceInRange(p) <=> PriceInRange(p)
<1>1. Golden!Side = Side /\ Golden!Level = Level
  BY DEF Golden!Side, Side, Golden!Level, Level
<1>2. \A s, p, r : Golden!Better(s, p, r) <=> Better(s, p, r)
  BY DEF Golden!Better, Better
<1>3. \A i, q, t : Golden!Order(i, q, t) = [id |-> i, qty |-> q, ts |-> t]
  BY DEF Golden!Order
<1>4. \A S : Golden!Cardinality(S) = Cardinality(S)
  BY DEF Golden!Cardinality, Cardinality
<1>5. \A p : Golden!PriceInRange(p) <=> PriceInRange(p)
  BY DEF Golden!PriceInRange, PriceInRange
<1> QED BY <1>1, <1>2, <1>3, <1>4, <1>5

\* A sequence without its element at i.
LEMMA WithoutElement ==
    ASSUME NEW S, NEW q \in Seq(S), NEW i \in 1 .. Len(q)
    PROVE  /\ Golden!RemoveAt(q, i) \in Seq(S)
           /\ Len(Golden!RemoveAt(q, i)) = Len(q) - 1
           /\ \A n \in 1 .. Len(q) - 1 :
                Golden!RemoveAt(q, i)[n] = IF n < i THEN q[n] ELSE q[n + 1]
<1>1. Len(q) \in Nat /\ \A n \in 1 .. Len(q) : q[n] \in S
  OBVIOUS
<1> DEFINE a == SubSeq(q, 1, i - 1)
           c == SubSeq(q, i + 1, Len(q))
<1>2. a \in Seq(S) /\ Len(a) = i - 1 /\ \A n \in 1 .. i - 1 : a[n] = q[n]
  BY <1>1
<1>3. c \in Seq(S) /\ Len(c) = Len(q) - i
        /\ \A n \in 1 .. Len(q) - i : c[n] = q[n + i]
  BY <1>1
<1>0. Golden!RemoveAt(q, i) = a \o c
  BY DEF Golden!RemoveAt
<1> HIDE DEF a, c
<1>4. Len(a \o c) = Len(q) - 1 /\ a \o c \in Seq(S)
  <2>0. a \in Seq(S) /\ c \in Seq(S)
    BY <1>2, <1>3
  <2>1. Len(a \o c) = Len(a) + Len(c) /\ a \o c \in Seq(S)
    BY ONLY <2>0
  <2> QED BY <1>1, <1>2, <1>3, <2>1
<1>5. ASSUME NEW n \in 1 .. Len(q) - 1
      PROVE  (a \o c)[n] = IF n < i THEN q[n] ELSE q[n + 1]
  <2>1. (a \o c)[n] = IF n <= Len(a) THEN a[n] ELSE c[n - Len(a)]
    BY <1>1, <1>2, <1>3
  <2>2. CASE n < i
    BY <1>1, <1>2, <2>1, <2>2
  <2>3. CASE ~(n < i)
    <3>1. n - (i - 1) \in 1 .. Len(q) - i /\ ~(n <= i - 1) /\ (n - (i - 1)) + i = n + 1
      BY <1>1, <2>3
    <3> QED BY <1>2, <1>3, <2>1, <2>3, <3>1
  <2> QED BY <2>2, <2>3
<1> QED BY <1>0, <1>4, <1>5

-----------------------------------------------------------------------------
(* A level as a sequence of its orders.                                      *)

Cap == MaxOrders - 1

Entry == [id : Ids, qty : Nat \ {0}, ts : Nat]

\* q holds the entries of S, once each, in the order of time.
Ordered(q, S) ==
    /\ q \in Seq(Entry)
    /\ \A m, n \in 1 .. Len(q) : m < n => q[m].ts < q[n].ts
    /\ \A x : x \in S <=> \E n \in 1 .. Len(q) : q[n] = x

\* What it holds.
LEMMA OrderedHolds ==
    ASSUME NEW q, NEW S, Ordered(q, S)
    PROVE  /\ q \in Seq(Entry) /\ Len(q) \in Nat /\ DOMAIN q = 1 .. Len(q)
           /\ \A n \in 1 .. Len(q) : q[n] \in Entry /\ q[n] \in S /\ q[n].ts \in Nat
<1>1. q \in Seq(Entry)
  BY DEF Ordered
<1>2. Len(q) \in Nat /\ DOMAIN q = 1 .. Len(q) /\ \A n \in 1 .. Len(q) : q[n] \in Entry
  BY <1>1
<1>3. \A x \in Entry : x.ts \in Nat
  BY DEF Entry
<1>4. \A n \in 1 .. Len(q) : q[n] \in S
  BY DEF Ordered
<1> QED BY <1>1, <1>2, <1>3, <1>4

\* Nothing stands at two places.
LEMMA OrderedOnce ==
    ASSUME NEW q, NEW S, Ordered(q, S), NEW m \in 1 .. Len(q), NEW n \in 1 .. Len(q),
           q[m].ts = q[n].ts
    PROVE  m = n
<1>1. q[m].ts \in Nat /\ q[n].ts \in Nat /\ Len(q) \in Nat
  BY OrderedHolds
<1>2. m < n => q[m].ts < q[n].ts
  BY DEF Ordered
<1>3. n < m => q[n].ts < q[m].ts
  BY DEF Ordered
<1> QED BY <1>1, <1>2, <1>3

\* There is one way to hold them.
LEMMA OrderedUnique ==
    ASSUME NEW q, NEW r, NEW S, Ordered(q, S), Ordered(r, S)
    PROVE  q = r
<1>0. ASSUME NEW u, NEW v, Ordered(u, S), Ordered(v, S), NEW n \in Nat \ {0},
             n <= Len(u), n <= Len(v), \A m \in 1 .. n - 1 : u[m] = v[m]
      PROVE  u[n] = v[n]
  <2>1. /\ Len(u) \in Nat /\ Len(v) \in Nat
        /\ \A k \in 1 .. Len(u) : u[k].ts \in Nat /\ u[k] \in S
        /\ \A k \in 1 .. Len(v) : v[k].ts \in Nat /\ v[k] \in S
    BY <1>0, OrderedHolds
  <2>2. n \in 1 .. Len(u) /\ n \in 1 .. Len(v)
    BY <1>0, <2>1
  <2>3. PICK k \in 1 .. Len(v) : v[k] = u[n]
    BY <1>0, <2>1, <2>2 DEF Ordered
  <2>4. PICK j \in 1 .. Len(u) : u[j] = v[n]
    BY <1>0, <2>1, <2>2 DEF Ordered
  <2>5. ~(k < n)
    <3> SUFFICES ASSUME k < n PROVE FALSE
      OBVIOUS
    <3>1. k \in 1 .. n - 1 /\ k \in 1 .. Len(u)
      BY <2>1, <2>2
    <3>2. u[k] = u[n]
      BY <1>0, <2>3, <3>1
    <3>3. u[k].ts = u[n].ts
      BY <3>2
    <3> QED BY <1>0, <2>2, <3>1, <3>3, OrderedOnce
  <2>6. ~(j < n)
    <3> SUFFICES ASSUME j < n PROVE FALSE
      OBVIOUS
    <3>1. j \in 1 .. n - 1 /\ j \in 1 .. Len(v)
      BY <2>1, <2>2
    <3>2. v[j] = v[n]
      BY <1>0, <2>4, <3>1
    <3>3. v[j].ts = v[n].ts
      BY <3>2
    <3> QED BY <1>0, <2>2, <3>1, <3>3, OrderedOnce
  <2>7. n < k => v[n].ts < u[n].ts
    BY <1>0, <2>2, <2>3 DEF Ordered
  <2>8. n < j => u[n].ts < v[n].ts
    BY <1>0, <2>2, <2>4 DEF Ordered
  <2> QED BY <2>1, <2>2, <2>3, <2>4, <2>5, <2>6, <2>7, <2>8
<1>1. Len(q) \in Nat /\ Len(r) \in Nat
  BY DEF Ordered
<1> DEFINE Bad == {n \in Nat \ {0} : n <= Len(q) /\ n <= Len(r) /\ q[n] # r[n]}
<1>2. Bad = {}
  <2> SUFFICES ASSUME Bad # {} PROVE FALSE
    OBVIOUS
  <2>1. PICK j \in Bad : \A n \in Bad : j <= n
    <3>1. Bad \subseteq Nat
      OBVIOUS
    <3> HIDE DEF Bad
    <3> QED BY <3>1, LeastOf
  <2>2. \A m \in 1 .. j - 1 : q[m] = r[m]
    <3> SUFFICES ASSUME NEW m \in 1 .. j - 1 PROVE q[m] = r[m]
      OBVIOUS
    <3>1. m \in Nat \ {0} /\ m <= Len(q) /\ m <= Len(r) /\ ~(j <= m)
      BY <1>1
    <3> QED BY <2>1, <3>1
  <2> QED BY <1>0, <2>1, <2>2
<1>3. ASSUME NEW u, NEW v, Ordered(u, S), Ordered(v, S),
             \A n \in Nat \ {0} : n <= Len(u) /\ n <= Len(v) => u[n] = v[n]
      PROVE  ~(Len(u) < Len(v))
  <2> SUFFICES ASSUME Len(u) < Len(v) PROVE FALSE
    OBVIOUS
  <2>1. Len(u) \in Nat /\ Len(v) \in Nat
    BY <1>3 DEF Ordered
  <2>2. Len(v) \in 1 .. Len(v)
    BY <2>1
  <2>3. PICK j \in 1 .. Len(u) : u[j] = v[Len(v)]
    BY <1>3, <2>2 DEF Ordered
  <2>4. v[j] = v[Len(v)] /\ j \in 1 .. Len(v) /\ j # Len(v)
    BY <1>3, <2>1, <2>3
  <2>5. v[j].ts = v[Len(v)].ts
    BY <2>4
  <2> QED BY <1>3, <2>2, <2>4, <2>5, OrderedOnce
<1>4. \A n \in Nat \ {0} : n <= Len(q) /\ n <= Len(r) => q[n] = r[n]
  BY <1>2
<1>5. \A n \in Nat \ {0} : n <= Len(r) /\ n <= Len(q) => r[n] = q[n]
  BY <1>4
<1>6. ~(Len(q) < Len(r)) /\ ~(Len(r) < Len(q))
  BY <1>3, <1>4, <1>5
<1>7. Len(q) = Len(r)
  BY <1>1, <1>6
<1>8. q \in Seq(Entry) /\ r \in Seq(Entry)
  BY DEF Ordered
<1>9. \A n \in 1 .. Len(q) : q[n] = r[n]
  BY <1>1, <1>4, <1>7
<1> QED BY <1>7, <1>8, <1>9

\* A younger entry goes to the end.
LEMMA OrderedWith ==
    ASSUME NEW q, NEW S, Ordered(q, S), NEW x \in Entry, \A y \in S : y.ts < x.ts
    PROVE  Ordered(Append(q, x), S \union {x})
<1> DEFINE r == Append(q, x)
<1>1. q \in Seq(Entry) /\ Len(q) \in Nat /\ \A n \in 1 .. Len(q) : q[n] \in S
  BY DEF Ordered
<1>2. /\ r \in Seq(Entry) /\ Len(r) = Len(q) + 1
      /\ \A n \in 1 .. Len(q) : r[n] = q[n]
      /\ r[Len(q) + 1] = x
  BY <1>1
<1> HIDE DEF r
<1>3. ASSUME NEW m \in 1 .. Len(r), NEW n \in 1 .. Len(r), m < n
      PROVE  r[m].ts < r[n].ts
  <2>1. m \in 1 .. Len(q)
    BY <1>1, <1>2, <1>3
  <2>2. CASE n \in 1 .. Len(q)
    BY <1>2, <1>3, <2>1, <2>2 DEF Ordered
  <2>3. CASE n = Len(q) + 1
    BY <1>1, <1>2, <2>1, <2>3
  <2> QED BY <1>1, <1>2, <2>2, <2>3
<1>4. \A y : y \in S \union {x} <=> \E n \in 1 .. Len(r) : r[n] = y
  <2>1. \A y \in S : \E n \in 1 .. Len(r) : r[n] = y
    <3> SUFFICES ASSUME NEW y \in S PROVE \E n \in 1 .. Len(r) : r[n] = y
      OBVIOUS
    <3>1. PICK n \in 1 .. Len(q) : q[n] = y
      BY DEF Ordered
    <3>2. n \in 1 .. Len(r) /\ r[n] = y
      BY <1>1, <1>2, <3>1
    <3> QED BY <3>2
  <2>2. Len(q) + 1 \in 1 .. Len(r)
    BY <1>1, <1>2
  <2>3. \A n \in 1 .. Len(r) : r[n] \in S \union {x}
    <3> SUFFICES ASSUME NEW n \in 1 .. Len(r) PROVE r[n] \in S \union {x}
      OBVIOUS
    <3>1. n \in 1 .. Len(q) \/ n = Len(q) + 1
      BY <1>1, <1>2
    <3> QED BY <1>1, <1>2, <3>1
  <2> QED BY <1>2, <2>1, <2>2, <2>3
<1> QED BY <1>2, <1>3, <1>4 DEF Ordered, r

\* An entry leaves.
LEMMA OrderedWithout ==
    ASSUME NEW q, NEW S, Ordered(q, S), NEW i \in 1 .. Len(q)
    PROVE  Ordered(Golden!RemoveAt(q, i), S \ {q[i]})
<1> DEFINE r == Golden!RemoveAt(q, i)
<1>1. q \in Seq(Entry) /\ Len(q) \in Nat /\ \A n \in 1 .. Len(q) : q[n] \in S
  BY DEF Ordered
<1>2. /\ r \in Seq(Entry) /\ Len(r) = Len(q) - 1
      /\ \A n \in 1 .. Len(q) - 1 : r[n] = IF n < i THEN q[n] ELSE q[n + 1]
  BY <1>1, WithoutElement
<1> HIDE DEF r
<1>3. ASSUME NEW m \in 1 .. Len(r), NEW n \in 1 .. Len(r), m < n
      PROVE  r[m].ts < r[n].ts
  <2> DEFINE u == IF m < i THEN m ELSE m + 1
             v == IF n < i THEN n ELSE n + 1
  <2>1. u \in 1 .. Len(q) /\ v \in 1 .. Len(q) /\ u < v
    BY <1>1, <1>2, <1>3
  <2>2. r[m] = q[u] /\ r[n] = q[v]
    BY <1>2
  <2> HIDE DEF u, v
  <2> QED BY <2>1, <2>2 DEF Ordered
<1>4. ASSUME NEW y PROVE y \in S \ {q[i]} <=> \E n \in 1 .. Len(r) : r[n] = y
  <2>1. ASSUME y \in S \ {q[i]} PROVE \E n \in 1 .. Len(r) : r[n] = y
    <3>1. PICK n \in 1 .. Len(q) : q[n] = y
      BY <2>1 DEF Ordered
    <3> DEFINE u == IF n < i THEN n ELSE n - 1
    <3>2. n # i
      BY <2>1, <3>1
    <3>3. u \in 1 .. Len(r)
      BY <1>1, <1>2, <3>2
    <3>4. r[u] = q[n]
      BY <1>1, <1>2, <3>2, <3>3
    <3> HIDE DEF u
    <3> QED BY <3>1, <3>3, <3>4
  <2>2. ASSUME NEW n \in 1 .. Len(r), r[n] = y PROVE y \in S \ {q[i]}
    <3> DEFINE u == IF n < i THEN n ELSE n + 1
    <3>1. u \in 1 .. Len(q) /\ u # i
      BY <1>1, <1>2
    <3>2. r[n] = q[u]
      BY <1>2
    <3> HIDE DEF u
    <3>3. q[u] # q[i]
      <4> SUFFICES ASSUME q[u] = q[i] PROVE FALSE
        OBVIOUS
      <4>1. q[u].ts = q[i].ts
        OBVIOUS
      <4> QED BY <3>1, <4>1, OrderedOnce
    <3> QED BY <1>1, <2>2, <3>1, <3>2, <3>3
  <2> QED BY <2>1, <2>2
<1>5. \A m, n \in 1 .. Len(r) : m < n => r[m].ts < r[n].ts
  BY <1>3
<1> QED BY <1>2, <1>4, <1>5 DEF Ordered, r

\* An entry keeps its place with another quantity.
LEMMA OrderedResized ==
    ASSUME NEW q, NEW S, Ordered(q, S), NEW i \in 1 .. Len(q), NEW v \in Nat \ {0}
    PROVE  Ordered([q EXCEPT ![i].qty = v], (S \ {q[i]}) \union {[q[i] EXCEPT !.qty = v]})
<1> DEFINE x == [q[i] EXCEPT !.qty = v]
           r == [q EXCEPT ![i].qty = v]
<1>1. q \in Seq(Entry) /\ Len(q) \in Nat /\ \A n \in 1 .. Len(q) : q[n] \in S /\ q[n] \in Entry
  BY DEF Ordered
<1>2. x \in Entry /\ x.ts = q[i].ts
  BY <1>1 DEF Entry
<1>3. r = [q EXCEPT ![i] = x]
  OBVIOUS
<1> HIDE DEF r, x
<1>4. /\ r \in Seq(Entry) /\ Len(r) = Len(q)
      /\ \A n \in 1 .. Len(q) : r[n] = IF n = i THEN x ELSE q[n]
  BY <1>1, <1>2, <1>3
<1>5. \A n \in 1 .. Len(q) : r[n].ts = q[n].ts
  BY <1>2, <1>4
<1>6. ASSUME NEW y PROVE y \in (S \ {q[i]}) \union {x} <=> \E n \in 1 .. Len(r) : r[n] = y
  <2>1. ASSUME y \in S \ {q[i]} PROVE \E n \in 1 .. Len(r) : r[n] = y
    <3>1. PICK n \in 1 .. Len(q) : q[n] = y
      BY <2>1 DEF Ordered
    <3> QED BY <1>4, <2>1, <3>1
  <2>2. r[i] = x
    BY <1>4
  <2>3. ASSUME NEW n \in 1 .. Len(r), r[n] = y, n # i PROVE y \in S \ {q[i]}
    <3>1. y = q[n] /\ n \in 1 .. Len(q)
      BY <1>4, <2>3
    <3>2. q[n] # q[i]
      <4> SUFFICES ASSUME q[n] = q[i] PROVE FALSE
        OBVIOUS
      <4>1. q[n].ts = q[i].ts
        OBVIOUS
      <4> QED BY <2>3, <3>1, <4>1, OrderedOnce
    <3> QED BY <1>1, <3>1, <3>2
  <2> QED BY <1>4, <2>1, <2>2, <2>3
<1>7. \A m, n \in 1 .. Len(r) : m < n => r[m].ts < r[n].ts
  BY <1>4, <1>5 DEF Ordered
<1> QED BY <1>4, <1>6, <1>7 DEF Ordered, r, x

\* The oldest entry comes first.
LEMMA OrderedFirst ==
    ASSUME NEW q, NEW S, Ordered(q, S), NEW x \in S, \A y \in S : y # x => x.ts < y.ts
    PROVE  Len(q) \in Nat /\ 1 \in 1 .. Len(q) /\ q[1] = x
<1>1. Len(q) \in Nat /\ \A n \in 1 .. Len(q) : q[n] \in S /\ q[n].ts \in Nat
  BY OrderedHolds
<1>2. PICK n \in 1 .. Len(q) : q[n] = x
  BY DEF Ordered
<1>3. 1 \in 1 .. Len(q)
  BY <1>1, <1>2
<1>4. n # 1 => q[1].ts < q[n].ts
  BY <1>1, <1>2, <1>3 DEF Ordered
<1>5. q[1] # x => x.ts < q[1].ts
  BY <1>1, <1>3
<1> QED BY <1>1, <1>2, <1>3, <1>4, <1>5

-----------------------------------------------------------------------------
(* A book as the set of its orders.                                          *)

\* An order, wherever it stands in its level.
OrderSet == [side : Side, price : Level, id : Ids, qty : Nat \ {0}, ts : Nat]

\* What its level holds of it.
Strip(o) == [id |-> o.id, qty |-> o.qty, ts |-> o.ts]

EntriesAt(E, s, l) == {Strip(o) : o \in {z \in E : z.side = s /\ z.price = l}}

Books == [Side -> [Level -> Seq(Entry)]]

\* The levels of b are the orders E, in the order of time.
Lists(b, E) ==
    /\ b \in Books
    /\ \A s \in Side, l \in Level : Ordered(b[s][l], EntriesAt(E, s, l))

\* Orders that may rest together.
Orders(E) ==
    /\ E \subseteq OrderSet
    /\ IsFiniteSet(E) /\ Cardinality(E) <= Cap
    /\ \A x, y \in E : x.id = y.id => x = y

\* An order is its place and its entry.
LEMMA StripTells ==
    ASSUME NEW x \in OrderSet, NEW y \in OrderSet,
           x.side = y.side, x.price = y.price, Strip(x) = Strip(y)
    PROVE  x = y
<1>1. x.id = y.id /\ x.qty = y.qty /\ x.ts = y.ts
  BY DEF Strip
<1>2. /\ x = [side |-> x.side, price |-> x.price, id |-> x.id, qty |-> x.qty, ts |-> x.ts]
      /\ y = [side |-> y.side, price |-> y.price, id |-> y.id, qty |-> y.qty, ts |-> y.ts]
  BY DEF OrderSet
<1> QED BY <1>1, <1>2

\* Parts of an order.
LEMMA OrderParts ==
    ASSUME NEW o \in OrderSet
    PROVE  /\ o.side \in Side /\ o.price \in Level /\ o.id \in Ids
           /\ o.qty \in Nat /\ o.qty > 0 /\ o.ts \in Nat
           /\ Strip(o) \in Entry /\ Strip(o).id = o.id /\ Strip(o).qty = o.qty
           /\ Strip(o).ts = o.ts
           /\ \A v \in Nat \ {0} :
                /\ [o EXCEPT !.qty = v] \in OrderSet
                /\ [o EXCEPT !.qty = v].side = o.side
                /\ [o EXCEPT !.qty = v].price = o.price
                /\ [o EXCEPT !.qty = v].id = o.id
                /\ [o EXCEPT !.qty = v].ts = o.ts
                /\ [o EXCEPT !.qty = v].qty = v
                /\ Strip([o EXCEPT !.qty = v]) = [Strip(o) EXCEPT !.qty = v]
BY DEF OrderSet, Strip, Entry

\* There is one book of the same orders.
LEMMA ListsUnique ==
    ASSUME NEW b, NEW c, NEW E, Lists(b, E), Lists(c, E)
    PROVE  b = c
<1>1. \A s \in Side, l \in Level : b[s][l] = c[s][l]
  BY OrderedUnique DEF Lists
<1>2. b \in Books /\ c \in Books
  BY DEF Lists
<1>3. \A s \in Side : b[s] \in [Level -> Seq(Entry)] /\ c[s] \in [Level -> Seq(Entry)]
  BY <1>2 DEF Books
<1>4. \A s \in Side : b[s] = c[s]
  BY <1>1, <1>3
<1> QED BY <1>2, <1>4 DEF Books

\* One level of the book changes.
LEMMA LevelChanged ==
    ASSUME NEW b, NEW E, Lists(b, E), NEW s \in Side, NEW l \in Level, NEW q, NEW F,
           Ordered(q, EntriesAt(F, s, l)),
           \A z : ~(z.side = s /\ z.price = l) => (z \in F <=> z \in E)
    PROVE  Lists([b EXCEPT ![s][l] = q], F)
<1> DEFINE c == [b EXCEPT ![s][l] = q]
<1>1. b \in Books /\ q \in Seq(Entry)
  BY DEF Lists, Ordered
<1>2. c \in Books
  BY <1>1 DEF Books
<1>3. \A t \in Side, m \in Level : c[t][m] = IF t = s /\ m = l THEN q ELSE b[t][m]
  BY <1>1 DEF Books
<1> HIDE DEF c
<1>4. ASSUME NEW t \in Side, NEW m \in Level PROVE Ordered(c[t][m], EntriesAt(F, t, m))
  <2>1. CASE t = s /\ m = l
    BY <1>3, <2>1
  <2>2. CASE ~(t = s /\ m = l)
    <3>1. c[t][m] = b[t][m]
      BY <1>3, <2>2
    <3>2. EntriesAt(F, t, m) = EntriesAt(E, t, m)
      <4>1. \A z : z.side = t /\ z.price = m => (z \in F <=> z \in E)
        BY <2>2
      <4> QED BY <4>1 DEF EntriesAt
    <3> QED BY <3>1, <3>2 DEF Lists
  <2> QED BY <2>1, <2>2
<1>5. Lists(c, F)
  BY <1>2, <1>4 DEF Lists
<1> QED BY <1>5 DEF c

\* An order comes to its level.
LEMMA EntriesWith ==
    ASSUME NEW E, NEW o \in OrderSet, NEW s, NEW l
    PROVE  EntriesAt(E \union {o}, s, l) =
             IF s = o.side /\ l = o.price THEN EntriesAt(E, s, l) \union {Strip(o)}
                                          ELSE EntriesAt(E, s, l)
BY DEF EntriesAt

\* An order leaves its level.
LEMMA EntriesWithout ==
    ASSUME NEW E, E \subseteq OrderSet, NEW o \in E, NEW s, NEW l
    PROVE  EntriesAt(E \ {o}, s, l) =
             IF s = o.side /\ l = o.price THEN EntriesAt(E, s, l) \ {Strip(o)}
                                          ELSE EntriesAt(E, s, l)
<1>1. CASE s = o.side /\ l = o.price
  <2>1. \A z \in E : z.side = s /\ z.price = l /\ Strip(z) = Strip(o) => z = o
    BY <1>1, StripTells
  <2> QED BY <1>1, <2>1 DEF EntriesAt
<1>2. CASE ~(s = o.side /\ l = o.price)
  BY <1>2 DEF EntriesAt
<1> QED BY <1>1, <1>2

\* A younger order is inserted.
LEMMA ListsInsert ==
    ASSUME NEW b, NEW E, Lists(b, E), NEW o \in OrderSet,
           \A z \in E : z.side = o.side /\ z.price = o.price => z.ts < o.ts
    PROVE  Lists(Golden!Insert(b, o.side, o.price, Strip(o)), E \union {o})
<1> DEFINE s == o.side
           l == o.price
           q == b[s][l]
           F == E \union {o}
<1>1. s \in Side /\ l \in Level /\ Strip(o) \in Entry /\ Strip(o).ts = o.ts
  BY OrderParts
<1>2. Ordered(q, EntriesAt(E, s, l))
  BY <1>1 DEF Lists
<1>3. \A y \in EntriesAt(E, s, l) : y.ts < Strip(o).ts
  BY <1>1 DEF EntriesAt, Strip
<1>4. EntriesAt(F, s, l) = EntriesAt(E, s, l) \union {Strip(o)}
  BY EntriesWith
<1>5. \A z : ~(z.side = s /\ z.price = l) => (z \in F <=> z \in E)
  OBVIOUS
<1> HIDE DEF F, s, l, q
<1>6. Ordered(Append(q, Strip(o)), EntriesAt(F, s, l))
  BY <1>1, <1>2, <1>3, <1>4, OrderedWith
<1>7. Lists([b EXCEPT ![s][l] = Append(q, Strip(o))], F)
  BY <1>1, <1>5, <1>6, LevelChanged
<1>8. Golden!Insert(b, s, l, Strip(o)) = [b EXCEPT ![s][l] = Append(q, Strip(o))]
  BY DEF Golden!Insert, q
<1> QED BY <1>7, <1>8 DEF F, s, l

\* The order o stands at place k of the book b.
Stands(b, o, k) ==
    /\ k[1] = o.side /\ k[2] = o.price
    /\ k[3] \in 1 .. Len(b[o.side][o.price])
    /\ b[o.side][o.price][k[3]] = Strip(o)

\* It is taken out.
LEMMA ListsWithout ==
    ASSUME NEW b, NEW E, Lists(b, E), E \subseteq OrderSet, NEW o \in E,
           NEW k, Stands(b, o, k)
    PROVE  Lists(Golden!Without(b, k), E \ {o})
<1> DEFINE s == o.side
           l == o.price
           q == b[s][l]
           F == E \ {o}
           r == Golden!RemoveAt(q, k[3])
<1>1. s \in Side /\ l \in Level
  BY OrderParts
<1>2. Ordered(q, EntriesAt(E, s, l)) /\ k[3] \in 1 .. Len(q) /\ q[k[3]] = Strip(o)
  BY <1>1 DEF Lists, Stands
<1>3. EntriesAt(F, s, l) = EntriesAt(E, s, l) \ {Strip(o)}
  BY EntriesWithout
<1>4. \A z : ~(z.side = s /\ z.price = l) => (z \in F <=> z \in E)
  OBVIOUS
<1>5. Golden!Without(b, k) = [b EXCEPT ![s][l] = r]
  BY DEF Golden!Without, Stands
<1> HIDE DEF F, s, l, q
<1>6. Ordered(r, EntriesAt(F, s, l))
  BY <1>2, <1>3, OrderedWithout
<1> HIDE DEF r
<1>7. Lists([b EXCEPT ![s][l] = r], F)
  BY <1>1, <1>4, <1>6, LevelChanged
<1> QED BY <1>5, <1>7 DEF F

\* It gets another quantity.
LEMMA ListsResized ==
    ASSUME NEW b, NEW E, Lists(b, E), E \subseteq OrderSet, NEW o \in E,
           NEW k, Stands(b, o, k), NEW v \in Nat \ {0}
    PROVE  Lists([b EXCEPT ![k[1]][k[2]][k[3]].qty = v], (E \ {o}) \union {[o EXCEPT !.qty = v]})
<1> DEFINE s == o.side
           l == o.price
           q == b[s][l]
           x == [o EXCEPT !.qty = v]
           F == (E \ {o}) \union {x}
           r == [q EXCEPT ![k[3]].qty = v]
<1>1. /\ s \in Side /\ l \in Level /\ x \in OrderSet /\ x.side = s /\ x.price = l
      /\ Strip(x) = [Strip(o) EXCEPT !.qty = v]
  BY OrderParts
<1>2. Ordered(q, EntriesAt(E, s, l)) /\ k[3] \in 1 .. Len(q) /\ q[k[3]] = Strip(o)
  BY <1>1 DEF Lists, Stands
<1> HIDE DEF x
<1>3. EntriesAt(F, s, l) = (EntriesAt(E, s, l) \ {Strip(o)}) \union {Strip(x)}
  <2> DEFINE G == E \ {o}
  <2>1. EntriesAt(G, s, l) = EntriesAt(E, s, l) \ {Strip(o)}
    BY EntriesWithout
  <2> HIDE DEF s, l, G
  <2>2. EntriesAt(G \union {x}, s, l) = EntriesAt(G, s, l) \union {Strip(x)}
    BY <1>1, EntriesWith
  <2> QED BY <2>1, <2>2 DEF G
<1>4. \A z : ~(z.side = s /\ z.price = l) => (z \in F <=> z \in E)
  BY <1>1
<1>5. [b EXCEPT ![k[1]][k[2]][k[3]].qty = v] = [b EXCEPT ![s][l] = r]
  BY DEF Stands
<1> HIDE DEF F, s, l, q
<1>6. Ordered(r, EntriesAt(F, s, l))
  BY <1>1, <1>2, <1>3, OrderedResized
<1> HIDE DEF r
<1>7. Lists([b EXCEPT ![s][l] = r], F)
  BY <1>1, <1>4, <1>6, LevelChanged
<1> QED BY <1>5, <1>7 DEF F, x

\* What is left of an order when q is taken from it.
Rest(o, q) == IF o.qty = q THEN {} ELSE {[o EXCEPT !.qty = o.qty - q]}

\* Something is taken from it.
LEMMA ListsReduce ==
    ASSUME NEW b, NEW E, Lists(b, E), E \subseteq OrderSet, NEW o \in E,
           NEW k, Stands(b, o, k), NEW q \in 1 .. o.qty
    PROVE  Lists(Golden!Reduce(b, k, q), (E \ {o}) \union Rest(o, q))
<1>1. Golden!OrderAt(b, k) = Strip(o) /\ Strip(o).qty = o.qty /\ o.qty \in Nat
  BY OrderParts DEF Golden!OrderAt, Stands
<1>2. CASE o.qty = q
  <2>1. Golden!Reduce(b, k, q) = Golden!Without(b, k)
    BY <1>1, <1>2 DEF Golden!Reduce
  <2> QED BY <1>2, <2>1, ListsWithout DEF Rest
<1>3. CASE o.qty # q
  <2>1. Golden!Reduce(b, k, q) = [b EXCEPT ![k[1]][k[2]][k[3]].qty = o.qty - q]
    BY <1>1, <1>3 DEF Golden!Reduce
  <2>2. o.qty - q \in Nat \ {0}
    BY <1>1, <1>3
  <2> DEFINE v == o.qty - q
  <2>3. Lists([b EXCEPT ![k[1]][k[2]][k[3]].qty = v], (E \ {o}) \union {[o EXCEPT !.qty = v]})
    <3> HIDE DEF v
    <3> QED BY <2>2, ListsResized DEF v
  <2>4. Rest(o, q) = {[o EXCEPT !.qty = v]}
    BY <1>3 DEF Rest
  <2> QED BY <2>1, <2>3, <2>4
<1> QED BY <1>2, <1>3

\* Every place holds an order, and every order has a place.
LEMMA PlacesListed ==
    ASSUME NEW b, NEW E, Lists(b, E), Orders(E)
    PROVE  /\ \A k \in Golden!Places(b) : \E o \in E : Stands(b, o, k)
           /\ \A o \in E : \E k \in Golden!Places(b) : Stands(b, o, k)
           /\ \A o \in E : \A k : Stands(b, o, k) => Golden!OrderAt(b, k) = Strip(o)
           /\ \A o \in E : \A k : Stands(b, o, k) => k[1] \in Side /\ k[2] \in Level
           /\ \A o \in E : \A k, j \in Golden!Places(b) :
                Stands(b, o, k) /\ Stands(b, o, j) => k = j
<1> DEFINE P == Golden!Places(b)
<1>1. P = {k \in Side \X Level \X (1 .. Cap) : k[3] \in DOMAIN b[k[1]][k[2]]}
  BY GoldenWords DEF Golden!Places, Cap
<1> HIDE DEF P
<1>2. ASSUME NEW s \in Side, NEW l \in Level
      PROVE  /\ DOMAIN b[s][l] = 1 .. Len(b[s][l]) /\ Len(b[s][l]) \in 0 .. Cap
             /\ Ordered(b[s][l], EntriesAt(E, s, l))
  <2> DEFINE q == b[s][l]
             S == EntriesAt(E, s, l)
  <2>1. Ordered(q, S)
    BY DEF Lists
  <2> HIDE DEF q, S
  <2>2. DOMAIN q = 1 .. Len(q) /\ Len(q) \in Nat
    BY <2>1, OrderedHolds
  <2>3. \A n \in 1 .. Len(q) : \E o \in E : Strip(o) = q[n]
    <3>1. \A x \in S : \E o \in E : Strip(o) = x
      BY DEF S, EntriesAt
    <3> QED BY <2>1, <3>1, OrderedHolds
  <2> DEFINE f == [n \in 1 .. Len(q) |-> CHOOSE o \in E : Strip(o) = q[n]]
  <2>4. \A n \in 1 .. Len(q) : f[n] \in E /\ Strip(f[n]) = q[n]
    BY <2>3
  <2>5. f \in [1 .. Len(q) -> E]
    BY <2>4
  <2> HIDE DEF f
  <2>6. \A m, n \in 1 .. Len(q) : f[m] = f[n] => m = n
    <3> SUFFICES ASSUME NEW m \in 1 .. Len(q), NEW n \in 1 .. Len(q), f[m] = f[n]
                 PROVE  m = n
      OBVIOUS
    <3>1. q[m] = q[n]
      BY <2>4
    <3>2. q[m].ts = q[n].ts
      BY <3>1
    <3> QED BY <2>1, <3>2, OrderedOnce
  <2>7. f \in Injection(1 .. Len(q), E)
    BY <2>5, <2>6 DEF Injection, IsInjective
  <2>8. Cardinality(1 .. Len(q)) <= Cardinality(E)
    BY <2>7, FS_Injection DEF Orders
  <2>9. Cardinality(1 .. Len(q)) = Len(q)
    <3>1. Cardinality(1 .. Len(q)) = IF 1 > Len(q) THEN 0 ELSE Len(q) - 1 + 1
      BY <2>2, FS_Interval
    <3> QED BY <2>2, <3>1
  <2>10. Cardinality(E) \in Nat /\ Cap \in Nat /\ Cardinality(E) <= Cap
    BY FS_CardinalityType, PoolAssumption DEF Orders, Cap
  <2> QED BY <2>1, <2>2, <2>8, <2>9, <2>10 DEF q, S
<1>3. E \subseteq OrderSet
  BY DEF Orders
<1>4. ASSUME NEW k \in P PROVE \E o \in E : Stands(b, o, k)
  <2>1. k[1] \in Side /\ k[2] \in Level /\ k[3] \in 1 .. Len(b[k[1]][k[2]])
    BY <1>1, <1>2
  <2> DEFINE s == k[1]
             l == k[2]
             q == b[s][l]
  <2>2. q[k[3]] \in EntriesAt(E, s, l)
    BY <1>2, <2>1, OrderedHolds
  <2>3. PICK o \in E : o.side = s /\ o.price = l /\ Strip(o) = q[k[3]]
    <3> HIDE DEF s, l, q
    <3> QED BY <2>2 DEF EntriesAt
  <2> QED BY <2>1, <2>3 DEF Stands
<1>5. ASSUME NEW o \in E PROVE \E k \in P : Stands(b, o, k)
  <2> DEFINE s == o.side
             l == o.price
             q == b[s][l]
  <2>1. s \in Side /\ l \in Level
    BY <1>3, OrderParts
  <2>2. Ordered(q, EntriesAt(E, s, l)) /\ DOMAIN q = 1 .. Len(q) /\ Len(q) \in 0 .. Cap
    BY <1>2, <2>1
  <2>3. Strip(o) \in EntriesAt(E, s, l)
    BY DEF EntriesAt
  <2>4. PICK n \in 1 .. Len(q) : q[n] = Strip(o)
    <3> HIDE DEF s, l, q
    <3> QED BY <2>2, <2>3 DEF Ordered
  <2> DEFINE k == <<s, l, n>>
  <2>5. n \in 1 .. Cap
    <3> HIDE DEF q
    <3> QED BY <2>2, <2>4, PoolAssumption DEF Cap
  <2>6. k \in P
    BY <1>1, <2>1, <2>2, <2>4, <2>5
  <2>7. Stands(b, o, k)
    BY <2>4 DEF Stands
  <2> QED BY <2>6, <2>7
<1>6. ASSUME NEW o \in E, NEW k, Stands(b, o, k)
      PROVE  Golden!OrderAt(b, k) = Strip(o) /\ k[1] \in Side /\ k[2] \in Level
  BY <1>3, <1>6, OrderParts DEF Stands, Golden!OrderAt
<1>7. ASSUME NEW o \in E, NEW k \in P, NEW j \in P, Stands(b, o, k), Stands(b, o, j)
      PROVE  k = j
  <2> DEFINE q == b[o.side][o.price]
  <2>1. Ordered(q, EntriesAt(E, o.side, o.price))
    BY <1>2, <1>3, OrderParts
  <2>2. /\ k[3] \in 1 .. Len(q) /\ j[3] \in 1 .. Len(q) /\ q[k[3]] = q[j[3]]
        /\ k[1] = j[1] /\ k[2] = j[2]
    BY <1>7 DEF Stands
  <2> HIDE DEF q
  <2>3. q[k[3]].ts = q[j[3]].ts
    BY <2>2
  <2>4. k[3] = j[3]
    BY <2>1, <2>2, <2>3, OrderedOnce
  <2>5. k = <<k[1], k[2], k[3]>> /\ j = <<j[1], j[2], j[3]>>
    BY <1>1
  <2> QED BY <2>2, <2>4, <2>5
<1> QED BY <1>4, <1>5, <1>6, <1>7 DEF P

\* The book knows its orders by their ids, and counts them.
LEMMA OrdersListed ==
    ASSUME NEW b, NEW E, Lists(b, E), Orders(E)
    PROVE  /\ \A i : i \in Golden!Live(b) <=> \E o \in E : o.id = i
           /\ \A o \in E : /\ Stands(b, o, Golden!PlaceOf(b, o.id))
                           /\ Golden!Remaining(b, o.id) = o.qty
                           /\ Golden!OrderAt(b, Golden!PlaceOf(b, o.id)) = Strip(o)
           /\ \A i : (\A o \in E : o.id # i) => Golden!Remaining(b, i) = 0
           /\ Golden!Cardinality(Golden!Places(b)) = Cardinality(E)
           /\ IsFiniteSet(Golden!Places(b))
<1> DEFINE P == Golden!Places(b)
<1>1. /\ \A k \in P : \E o \in E : Stands(b, o, k)
      /\ \A o \in E : \E k \in P : Stands(b, o, k)
      /\ \A o \in E : \A k : Stands(b, o, k) => Golden!OrderAt(b, k) = Strip(o)
      /\ \A o \in E : \A k, j \in P : Stands(b, o, k) /\ Stands(b, o, j) => k = j
  BY PlacesListed
<1>2. Golden!Live(b) = {Golden!OrderAt(b, k).id : k \in P}
  BY DEF Golden!Live
<1>3. \A i : Golden!PlaceOf(b, i) = CHOOSE k \in P : Golden!OrderAt(b, k).id = i
  BY DEF Golden!PlaceOf
<1> HIDE DEF P
<1>4. \A o \in E : Strip(o).id = o.id /\ Strip(o).qty = o.qty
  BY DEF Strip
<1>5. \A i : i \in Golden!Live(b) <=> \E o \in E : o.id = i
  BY <1>1, <1>2, <1>4
<1>6. ASSUME NEW o \in E
      PROVE  /\ Stands(b, o, Golden!PlaceOf(b, o.id))
             /\ Golden!OrderAt(b, Golden!PlaceOf(b, o.id)) = Strip(o)
  <2>1. PICK k \in P : Stands(b, o, k)
    BY <1>1
  <2>2. Golden!OrderAt(b, k).id = o.id
    BY <1>1, <1>4, <2>1
  <2> DEFINE j == Golden!PlaceOf(b, o.id)
  <2>3. j \in P /\ Golden!OrderAt(b, j).id = o.id
    BY <1>3, <2>2
  <2> HIDE DEF j
  <2>4. PICK z \in E : Stands(b, z, j)
    BY <1>1, <2>3
  <2>5. z = o
    BY <1>1, <1>4, <2>3, <2>4 DEF Orders
  <2> QED BY <1>1, <2>4, <2>5 DEF j
<1>7. \A o \in E : Golden!Remaining(b, o.id) = o.qty
  BY <1>4, <1>5, <1>6 DEF Golden!Remaining
<1>8. \A i : (\A o \in E : o.id # i) => Golden!Remaining(b, i) = 0
  BY <1>5 DEF Golden!Remaining
<1>9. Cardinality(P) = Cardinality(E) /\ IsFiniteSet(P)
  <2> DEFINE f == [o \in E |-> CHOOSE k \in P : Stands(b, o, k)]
  <2>1. \A o \in E : f[o] \in P /\ Stands(b, o, f[o])
    BY <1>1
  <2>2. f \in [E -> P]
    BY <2>1
  <2> HIDE DEF f
  <2>3. \A k \in P : \E o \in E : f[o] = k
    BY <1>1, <2>1
  <2>4. \A o, z \in E : f[o] = f[z] => o = z
    <3> SUFFICES ASSUME NEW o \in E, NEW z \in E, f[o] = f[z] PROVE o = z
      OBVIOUS
    <3>1. Strip(o) = Strip(z)
      BY <1>1, <2>1
    <3> QED BY <1>4, <3>1 DEF Orders
  <2>5. f \in Injection(E, P) /\ f \in Surjection(E, P)
    BY <2>2, <2>3, <2>4 DEF Injection, IsInjective, Surjection
  <2>7. IsFiniteSet(E)
    BY DEF Orders
  <2> HIDE DEF P
  <2>8. IsFiniteSet(P) /\ (Cardinality(P) = Cardinality(E) <=> f \in Injection(E, P))
    BY ONLY <2>5, <2>7, FS_Surjection
  <2> QED BY ONLY <2>5, <2>8
<1> QED BY <1>5, <1>6, <1>7, <1>8, <1>9, GoldenWords DEF P

\* Prices are the prices of its orders.
LEMMA PricesListed ==
    ASSUME NEW b, NEW E, Lists(b, E), Orders(E), NEW s \in Side
    PROVE  /\ Golden!Prices(b, s) \subseteq Level
           /\ \A l : l \in Golden!Prices(b, s) <=> \E o \in E : o.side = s /\ o.price = l
<1>1. Golden!Prices(b, s) = {l \in Level : b[s][l] # <<>>}
  BY GoldenWords DEF Golden!Prices
<1>2. \A o \in E : o.price \in Level
  BY OrderParts DEF Orders
<1>3. ASSUME NEW l \in Level
      PROVE  b[s][l] # <<>> <=> \E o \in E : o.side = s /\ o.price = l
  <2> DEFINE q == b[s][l]
             S == EntriesAt(E, s, l)
  <2>1. Ordered(q, S)
    BY DEF Lists
  <2>2. S # {} <=> \E o \in E : o.side = s /\ o.price = l
    BY DEF EntriesAt
  <2> HIDE DEF q, S
  <2>3. q \in Seq(Entry) /\ Len(q) \in Nat
    BY <2>1, OrderedHolds
  <2>4. q = <<>> => S = {}
    BY <2>1, <2>3 DEF Ordered
  <2>5. S = {} => q = <<>>
    <3> SUFFICES ASSUME S = {} PROVE q = <<>>
      OBVIOUS
    <3>1. \A n \in 1 .. Len(q) : FALSE
      BY <2>1, OrderedHolds
    <3>2. Len(q) = 0
      <4>1. Len(q) > 0 => 1 \in 1 .. Len(q)
        BY <2>3
      <4> QED BY <2>3, <3>1, <4>1
    <3> QED BY <2>3, <3>2, EmptySeq
  <2> QED BY <2>2, <2>4, <2>5 DEF q
<1> QED BY <1>1, <1>2, <1>3

\* The two sides cross where two orders do.
LEMMA CrossedListed ==
    ASSUME NEW b, NEW E, Lists(b, E), Orders(E)
    PROVE  Golden!Crossed(b) <=>
             \E x, y \in E : x.side = "BUY" /\ y.side = "SELL" /\ x.price >= y.price
<1>1. Golden!Crossed(b) <=>
        \E l \in Golden!Prices(b, "BUY"), m \in Golden!Prices(b, "SELL") : l >= m
  BY DEF Golden!Crossed
<1>2. "BUY" \in Side /\ "SELL" \in Side
  BY DEF Side
<1>3. \A l : l \in Golden!Prices(b, "BUY") <=> \E o \in E : o.side = "BUY" /\ o.price = l
  BY <1>2, PricesListed
<1>4. \A l : l \in Golden!Prices(b, "SELL") <=> \E o \in E : o.side = "SELL" /\ o.price = l
  BY <1>2, PricesListed
<1> QED BY <1>1, <1>3, <1>4

\* x is the oldest order at the best price of its side.
Leading(E, s, x) ==
    /\ x \in E /\ x.side = s
    /\ \A z \in E : z.side = s /\ z # x =>
         Better(s, x.price, z.price) \/ (x.price = z.price /\ x.ts < z.ts)

\* It is the first of the best level.
LEMMA LeadingFirst ==
    ASSUME NEW b, NEW E, Lists(b, E), Orders(E), NEW s \in Side, NEW x, Leading(E, s, x)
    PROVE  /\ Golden!Best(b, s) = x.price
           /\ Stands(b, x, <<s, x.price, 1>>)
           /\ Golden!Prices(b, s) # {}
<1> DEFINE p == x.price
           D == Golden!Prices(b, s)
<1>1. x \in E /\ x.side = s /\ x \in OrderSet /\ p \in Level
  BY OrderParts DEF Leading, Orders
<1>2. D \subseteq Level /\ \A l : l \in D <=> \E o \in E : o.side = s /\ o.price = l
  BY PricesListed
<1>3. p \in D /\ \A l \in D : l = p \/ Better(s, p, l)
  BY <1>1, <1>2 DEF Leading
<1>4. \A l, m \in Level : Better(s, l, m) => ~Better(s, m, l) /\ l # m
  BY NumLevelsAssumption DEF Better, Level
<1>5. \A m : ~Better(s, m, m) \/ m \notin Level
  BY <1>4
<1>6. Golden!Best(b, s) = CHOOSE l \in D : \A m \in D : ~Better(s, m, l)
  BY GoldenWords DEF Golden!Best
<1> HIDE DEF p, D
<1>7. \A m \in D : ~Better(s, m, p)
  BY <1>1, <1>2, <1>3, <1>4, <1>5
<1>8. \A l \in D : (\A m \in D : ~Better(s, m, l)) => l = p
  BY <1>3
<1>9. Golden!Best(b, s) = p
  BY <1>3, <1>6, <1>7, <1>8
<1> DEFINE q == b[s][p]
           S == EntriesAt(E, s, p)
<1>10. Ordered(q, S)
  BY <1>1 DEF Lists
<1>11. Strip(x) \in S
  BY <1>1 DEF EntriesAt, p
<1>12. \A y \in S : y # Strip(x) => Strip(x).ts < y.ts
  <2> SUFFICES ASSUME NEW z \in E, z.side = s, z.price = p, Strip(z) # Strip(x)
               PROVE  Strip(x).ts < Strip(z).ts
    BY DEF EntriesAt
  <2>1. z # x
    OBVIOUS
  <2>2. ~Better(s, p, p)
    BY <1>1, <1>5
  <2>3. x.ts < z.ts
    BY <2>1, <2>2 DEF Leading, p
  <2> QED BY <2>3 DEF Strip
<1> HIDE DEF q, S
<1>13. 1 \in 1 .. Len(q) /\ q[1] = Strip(x)
  BY <1>10, <1>11, <1>12, OrderedFirst
<1>14. Stands(b, x, <<s, p, 1>>)
  BY <1>1, <1>13 DEF Stands, p, q
<1> QED BY <1>3, <1>9, <1>14 DEF p, D

-----------------------------------------------------------------------------
(* Trades and rounds.                                                        *)

\* The orders once q is taken from o.
Reduced(E, o, q) == (E \ {o}) \union Rest(o, q)

\* The others stay, and there is one less when o is filled.
LEMMA OrdersReduced ==
    ASSUME NEW E, Orders(E), NEW o \in E, NEW q \in 1 .. o.qty
    PROVE  /\ Orders(Reduced(E, o, q))
           /\ Cardinality(E) \in Nat /\ Cardinality(Reduced(E, o, q)) \in Nat
           /\ Cardinality(Reduced(E, o, q)) <= Cardinality(E)
           /\ q = o.qty => Cardinality(Reduced(E, o, q)) = Cardinality(E) - 1
           /\ \A z \in E : z # o => z \in Reduced(E, o, q)
           /\ \A z \in Reduced(E, o, q) : \E w \in E :
                /\ z.id = w.id /\ z.side = w.side /\ z.price = w.price
                /\ z.ts = w.ts /\ z.qty <= w.qty
<1> DEFINE F == E \ {o}
<1>1. /\ E \subseteq OrderSet /\ IsFiniteSet(E) /\ Cardinality(E) <= Cap
      /\ \A x, y \in E : x.id = y.id => x = y
  BY DEF Orders
<1>2. o \in OrderSet /\ o.qty \in Nat /\ o.qty > 0 /\ q \in Nat /\ q > 0
  BY <1>1, OrderParts
<1>3. IsFiniteSet(F) /\ Cardinality(F) = Cardinality(E) - 1 /\ Cardinality(F) \in Nat
      /\ Cardinality(E) \in Nat
  <2>1. IsFiniteSet(F) /\ Cardinality(F) = Cardinality(E) - 1
    BY <1>1, FS_RemoveElement
  <2> QED BY <1>1, <2>1, FS_CardinalityType
<1>4. F \subseteq E /\ o \notin F /\ \A z \in E : z # o => z \in F
  OBVIOUS
<1> HIDE DEF F
<1>5. Cap \in Int
  BY PoolAssumption DEF Cap
<1>6. CASE o.qty = q
  <2>1. Reduced(E, o, q) = F
    BY <1>6 DEF Reduced, Rest, F
  <2>2. Orders(F)
    BY <1>1, <1>3, <1>4, <1>5 DEF Orders
  <2>3. \A z \in F : z.qty \in Nat
    BY <1>1, <1>4, OrderParts
  <2> QED BY <1>3, <1>4, <1>6, <2>1, <2>2, <2>3
<1>7. CASE o.qty # q
  <2> DEFINE v == o.qty - q
             r == [o EXCEPT !.qty = v]
             G == F \union {r}
  <2>1. v \in Nat \ {0} /\ v <= o.qty
    BY <1>2, <1>7
  <2>2. Reduced(E, o, q) = G
    BY <1>7 DEF Reduced, Rest, F
  <2>3. r \in OrderSet /\ r.side = o.side /\ r.price = o.price /\ r.id = o.id
        /\ r.ts = o.ts /\ r.qty = v
    <3> HIDE DEF v
    <3> QED BY <1>2, <2>1, OrderParts
  <2> HIDE DEF v, r
  <2>4. r \notin F
    BY <1>1, <1>4, <2>3
  <2>5. IsFiniteSet(G) /\ Cardinality(G) = Cardinality(F) + 1
    BY <1>3, <2>4, FS_AddElement
  <2>6. Cardinality(G) = Cardinality(E)
    BY <1>3, <2>5
  <2>7. \A z \in G : z = r \/ z \in F
    OBVIOUS
  <2>8. F \subseteq G
    OBVIOUS
  <2> HIDE DEF G
  <2>9. G \subseteq OrderSet
    BY <1>1, <1>4, <2>3, <2>7
  <2>10. \A x, y \in G : x.id = y.id => x = y
    BY <1>1, <1>4, <2>3, <2>7
  <2>11. Orders(G)
    BY <1>1, <2>5, <2>6, <2>9, <2>10 DEF Orders
  <2>12. \A z \in F : z.qty \in Nat
    BY <1>1, <1>4, OrderParts
  <2>13. ASSUME NEW z \in G
         PROVE  \E w \in E : /\ z.id = w.id /\ z.side = w.side /\ z.price = w.price
                             /\ z.ts = w.ts /\ z.qty <= w.qty
    <3>1. CASE z = r
      BY <2>1, <2>3, <3>1
    <3>2. CASE z \in F
      BY <1>4, <2>12, <3>2
    <3> QED BY <2>7, <3>1, <3>2
  <2> QED BY <1>3, <1>4, <1>7, <2>2, <2>6, <2>8, <2>11, <2>13
<1> QED BY <1>6, <1>7

\* Two orders may be reduced in either order.
LEMMA ReducedTwice ==
    ASSUME NEW E, Orders(E), NEW x \in E, NEW y \in E, x.side # y.side,
           NEW q \in 1 .. x.qty, NEW r \in 1 .. y.qty
    PROVE  Reduced(Reduced(E, x, q), y, r) = Reduced(Reduced(E, y, r), x, q)
<1>1. x \in OrderSet /\ y \in OrderSet
  BY DEF Orders
<1>2. y \notin Rest(x, q) /\ x \notin Rest(y, r)
  <2>1. [x EXCEPT !.qty = x.qty - q].side = x.side
        /\ [y EXCEPT !.qty = y.qty - r].side = y.side
    BY <1>1 DEF OrderSet
  <2> QED BY <2>1 DEF Rest
<1>3. x # y
  OBVIOUS
<1> DEFINE A == Rest(x, q)
           B == Rest(y, r)
<1>4. /\ y \notin A /\ x \notin B
  BY <1>2
<1> HIDE DEF A, B
<1>5. (((E \ {x}) \union A) \ {y}) \union B = (((E \ {y}) \union B) \ {x}) \union A
  BY <1>3, <1>4
<1> QED BY <1>5 DEF Reduced, A, B

Lesser(x, y) == IF x.qty < y.qty THEN x.qty ELSE y.qty

\* The trade of the bid x and the ask y.
TradeOf(x, y) ==
    [buy |-> x.id, sell |-> y.id,
     price |-> IF x.ts <= y.ts THEN x.price ELSE y.price, qty |-> Lesser(x, y),
     ts |-> IF x.ts >= y.ts THEN x.ts ELSE y.ts]

\* The orders it leaves.
Traded(E, x, y) == Reduced(Reduced(E, x, Lesser(x, y)), y, Lesser(x, y))

\* They may rest together, and there are fewer of them.
LEMMA OrdersTraded ==
    ASSUME NEW E, Orders(E), NEW x \in E, NEW y \in E, x.side # y.side
    PROVE  /\ Orders(Traded(E, x, y))
           /\ Cardinality(E) \in Nat /\ Cardinality(Traded(E, x, y)) \in Nat
           /\ Cardinality(Traded(E, x, y)) < Cardinality(E)
           /\ Lesser(x, y) \in 1 .. x.qty /\ Lesser(x, y) \in 1 .. y.qty
           /\ y \in Reduced(E, x, Lesser(x, y)) /\ x \in Reduced(E, y, Lesser(x, y))
           /\ Traded(E, x, y) = Reduced(Reduced(E, y, Lesser(x, y)), x, Lesser(x, y))
<1> DEFINE q == Lesser(x, y)
<1>1. x \in OrderSet /\ y \in OrderSet
  BY DEF Orders
<1>2. x.qty \in Nat /\ x.qty > 0 /\ y.qty \in Nat /\ y.qty > 0
  BY <1>1, OrderParts
<1>3. q \in 1 .. x.qty /\ q \in 1 .. y.qty /\ (q = x.qty \/ q = y.qty)
  BY <1>2 DEF Lesser
<1> HIDE DEF q
<1>4. x # y
  OBVIOUS
<1> DEFINE F == Reduced(E, x, q)
<1>5. /\ Orders(F) /\ Cardinality(E) \in Nat /\ Cardinality(F) \in Nat
      /\ Cardinality(F) <= Cardinality(E)
      /\ q = x.qty => Cardinality(F) = Cardinality(E) - 1
      /\ y \in F
  BY <1>3, <1>4, OrdersReduced
<1>6. x \in Reduced(E, y, q)
  BY <1>3, <1>4, OrdersReduced
<1>7. Reduced(F, y, q) = Reduced(Reduced(E, y, q), x, q)
  BY <1>3, ReducedTwice
<1> HIDE DEF F
<1> DEFINE G == Reduced(F, y, q)
<1>8. /\ Orders(G) /\ Cardinality(G) \in Nat
      /\ Cardinality(G) <= Cardinality(F)
      /\ q = y.qty => Cardinality(G) = Cardinality(F) - 1
  BY <1>3, <1>5, OrdersReduced
<1>9. Traded(E, x, y) = G
  BY DEF Traded, G, F, q
<1> HIDE DEF G
<1>10. Cardinality(G) < Cardinality(E)
  BY <1>3, <1>5, <1>8
<1>11. Traded(E, x, y) = Reduced(Reduced(E, y, q), x, q)
  BY <1>7, <1>9 DEF G
<1> QED BY <1>3, <1>5, <1>6, <1>8, <1>9, <1>10, <1>11 DEF q, F

\* One round of the reference: the two leading orders trade.
LEMMA RoundTrades ==
    ASSUME NEW m, NEW E, Lists(m.book, E), Orders(E),
           NEW x, Leading(E, "BUY", x), NEW y, Leading(E, "SELL", y),
           x.price >= y.price
    PROVE  /\ Golden!Round(m) = Golden!TradeOnce(m)
           /\ Golden!Round(m).trades = Append(m.trades, TradeOf(x, y))
           /\ Lists(Golden!Round(m).book, Traded(E, x, y))
<1> DEFINE b == m.book
<1>1. "BUY" \in Side /\ "SELL" \in Side
  BY DEF Side
<1>2. /\ Golden!Best(b, "BUY") = x.price
      /\ Stands(b, x, <<"BUY", x.price, 1>>)
  BY <1>1, LeadingFirst
<1>3. /\ Golden!Best(b, "SELL") = y.price
      /\ Stands(b, y, <<"SELL", y.price, 1>>)
  BY <1>1, LeadingFirst
<1>4. x \in E /\ y \in E /\ x.side = "BUY" /\ y.side = "SELL"
      /\ E \subseteq OrderSet
  BY DEF Leading, Orders
<1> DEFINE q == Lesser(x, y)
           k == <<"BUY", x.price, 1>>
           j == <<"SELL", y.price, 1>>
<1>5. Golden!OrderAt(b, k) = Strip(x) /\ Golden!OrderAt(b, j) = Strip(y)
  BY <1>2, <1>3, <1>4, PlacesListed
<1>6. Golden!Crossed(b)
  BY <1>4, CrossedListed
<1>7. q \in 1 .. x.qty /\ q \in 1 .. y.qty /\ y \in Reduced(E, x, q)
      /\ Orders(Reduced(E, x, q))
  <2>1. x.side # y.side
    BY <1>4
  <2>2. q \in 1 .. x.qty /\ q \in 1 .. y.qty /\ y \in Reduced(E, x, q)
    BY <1>4, <2>1, OrdersTraded
  <2> QED BY <1>4, <2>2, OrdersReduced
<1> DEFINE c == Golden!Reduce(b, k, q)
<1>8. Lists(c, Reduced(E, x, q))
  BY <1>2, <1>4, <1>7, ListsReduce DEF Reduced
<1>9. Stands(c, y, j)
  <2>1. c[y.side][y.price] = b[y.side][y.price]
    <3>1. b \in Books
      BY DEF Lists
    <3>2. b["BUY"] \in [Level -> Seq(Entry)] /\ x.price \in Level
      BY <1>4, <3>1, OrderParts DEF Books, Side
    <3>3. \A g : [b EXCEPT !["BUY"] = g]["SELL"] = b["SELL"]
      BY <3>1 DEF Books, Side
    <3>4. \/ \E g : c = [b EXCEPT !["BUY"] = g]
      <4>1. k[1] = "BUY" /\ k[2] = x.price /\ k[3] = 1
        OBVIOUS
      <4>2. CASE Golden!OrderAt(b, k).qty = q
        BY <4>1, <4>2 DEF Golden!Reduce, Golden!Without
      <4>3. CASE Golden!OrderAt(b, k).qty # q
        BY <4>1, <4>3 DEF Golden!Reduce, Golden!Without
      <4> QED BY <4>2, <4>3
    <3> QED BY <1>4, <3>3, <3>4
  <2> HIDE DEF c, j
  <2> QED BY <1>3, <2>1 DEF Stands, j
<1> DEFINE d == Golden!Reduce(c, j, q)
<1>10. Lists(d, Reduced(Reduced(E, x, q), y, q))
  <2>1. Reduced(E, x, q) \subseteq OrderSet
    BY <1>7 DEF Orders
  <2> HIDE DEF c, q, j
  <2>2. Lists(Golden!Reduce(c, j, q), (Reduced(E, x, q) \ {y}) \union Rest(y, q))
    BY <1>7, <1>8, <1>9, <2>1, ListsReduce
  <2> QED BY <2>2 DEF Reduced
<1>11. Golden!TradeOnce(m) = [book |-> d, trades |-> Append(m.trades, TradeOf(x, y))]
  <2>1. /\ Strip(x).qty = x.qty /\ Strip(y).qty = y.qty /\ Strip(x).ts = x.ts
        /\ Strip(y).ts = y.ts /\ Strip(x).id = x.id /\ Strip(y).id = y.id
    BY DEF Strip
  <2>2. Golden!OrderAt(m.book, <<"BUY", Golden!Best(m.book, "BUY"), 1>>) = Strip(x)
        /\ Golden!OrderAt(m.book, <<"SELL", Golden!Best(m.book, "SELL"), 1>>) = Strip(y)
    BY <1>2, <1>3, <1>5
  <2> HIDE DEF d, c, k, j
  <2>3. /\ d = Golden!Reduce(Golden!Reduce(m.book, <<"BUY", x.price, 1>>, q),
                            <<"SELL", y.price, 1>>, q)
    BY DEF d, c, k, j
  <2> QED BY <1>2, <1>3, <2>1, <2>2, <2>3 DEF Golden!TradeOnce, TradeOf, Lesser
<1>12. Golden!Round(m) = Golden!TradeOnce(m)
  BY <1>6 DEF Golden!Round
<1> HIDE DEF d
<1> QED BY <1>10, <1>11, <1>12 DEF Traded

StartOf(b) == [book |-> b, trades |-> <<>>]

Count(b) == Cardinality(Golden!Places(b))

\* The first n rounds of matching b are those of f.
Rounds(b, f, n) ==
    /\ f[0] = StartOf(b)
    /\ \A i \in 1 .. n : f[i] = Golden!Round(f[i - 1])

\* Matching b comes by m, in as few rounds as orders have left.
Reached(b, m) ==
    \E n \in Nat : \E f : Rounds(b, f, n) /\ f[n] = m /\ n + Count(m.book) <= Count(b)

\* It starts from b.
LEMMA ReachedStart ==
    ASSUME NEW b, Count(b) \in Nat
    PROVE  Reached(b, StartOf(b))
<1> DEFINE f == [i \in {0} |-> StartOf(b)]
<1>1. f[0] = StartOf(b) /\ \A i \in 1 .. 0 : f[i] = Golden!Round(f[i - 1])
  OBVIOUS
<1>2. 0 + Count(StartOf(b).book) <= Count(b)
  BY DEF StartOf
<1> HIDE DEF f
<1>3. Rounds(b, f, 0)
  BY <1>1 DEF Rounds
<1>4. 0 \in Nat
  OBVIOUS
<1> QED BY <1>1, <1>2, <1>3, <1>4 DEF Reached

\* It goes on by a round.
LEMMA ReachedNext ==
    ASSUME NEW b, NEW m, Reached(b, m), Count(b) \in Nat, Count(m.book) \in Nat,
           Count(Golden!Round(m).book) \in Nat,
           Count(Golden!Round(m).book) < Count(m.book)
    PROVE  Reached(b, Golden!Round(m))
<1>1. PICK n \in Nat : \E f : Rounds(b, f, n) /\ f[n] = m /\ n + Count(m.book) <= Count(b)
  BY DEF Reached
<1>2. PICK f : Rounds(b, f, n) /\ f[n] = m /\ n + Count(m.book) <= Count(b)
  BY <1>1
<1> DEFINE r == Golden!Round(m)
           g == [i \in 0 .. n + 1 |-> IF i <= n THEN f[i] ELSE r]
<1>3. n + 1 \in Nat /\ 0 \in 0 .. n + 1 /\ n + 1 \in 0 .. n + 1
  OBVIOUS
<1>4. g[0] = f[0] /\ g[n + 1] = r /\ \A i \in 0 .. n : g[i] = f[i]
  BY <1>3
<1> HIDE DEF g
<1>5. ASSUME NEW i \in 1 .. n + 1 PROVE g[i] = Golden!Round(g[i - 1])
  <2>1. i - 1 \in 0 .. n
    OBVIOUS
  <2>2. CASE i = n + 1
    <3>1. g[i - 1] = f[n]
      BY <1>4, <2>1, <2>2
    <3> QED BY <1>2, <1>4, <2>2, <3>1
  <2>3. CASE i # n + 1
    <3>1. i \in 1 .. n /\ i \in 0 .. n
      BY <2>3
    <3> QED BY <1>2, <1>4, <2>1, <3>1 DEF Rounds
  <2> QED BY <2>2, <2>3
<1>6. Rounds(b, g, n + 1)
  BY <1>2, <1>4, <1>5 DEF Rounds
<1>7. n + 1 + Count(r.book) <= Count(b)
  BY <1>2
<1> QED BY <1>3, <1>4, <1>6, <1>7 DEF Reached

\* Where nothing crosses any more, matching ends.
LEMMA ReachedEnds ==
    ASSUME NEW b, NEW m, Reached(b, m), Count(b) \in Nat, Count(m.book) \in Nat,
           ~Golden!Crossed(m.book)
    PROVE  Golden!Match(b) = m
<1>1. PICK n \in Nat : \E f : Rounds(b, f, n) /\ f[n] = m /\ n + Count(m.book) <= Count(b)
  BY DEF Reached
<1>2. PICK f : Rounds(b, f, n) /\ f[n] = m /\ n + Count(m.book) <= Count(b)
  BY <1>1
<1> DEFINE N       == Count(b)
           start   == [book |-> b, trades |-> <<>>]
           body(g) == [i \in 0 .. N |-> IF i = 0 THEN start ELSE Golden!Round(g[i - 1])]
           after   == CHOOSE g : g = body(g)
           stays   == [i \in 0 .. N |-> IF i <= n THEN f[i] ELSE m]
<1>3. Golden!Match(b) = after[N]
  BY GoldenWords DEF Golden!Match, Count
<1>4. n \in 0 .. N /\ N \in Nat
  BY <1>2
<1>5. Golden!Round(m) = m
  BY DEF Golden!Round
<1>6. f[0] = start /\ \A i \in 1 .. n : f[i] = Golden!Round(f[i - 1])
  BY <1>2 DEF Rounds, StartOf
<1> HIDE DEF start, N
<1>7. /\ \A i \in 0 .. n : i \in 0 .. N /\ stays[i] = f[i]
      /\ \A i \in n .. N : i \in 0 .. N /\ stays[i] = m
      /\ stays = [i \in 0 .. N |-> stays[i]]
  BY <1>2, <1>4
<1> HIDE DEF stays
<1>8. stays = body(stays)
  <2>1. ASSUME NEW i \in 0 .. N
        PROVE  stays[i] = IF i = 0 THEN start ELSE Golden!Round(stays[i - 1])
    <3>1. CASE i = 0
      BY <1>4, <1>6, <1>7, <3>1
    <3>2. CASE i \in 1 .. n
      <4>1. i \in 0 .. n /\ i - 1 \in 0 .. n /\ i # 0
        BY <3>2
      <4> QED BY <1>6, <1>7, <3>2, <4>1
    <3>3. CASE i \in n + 1 .. N
      <4>1. i \in n .. N /\ i - 1 \in n .. N /\ i # 0
        BY <1>4, <3>3
      <4> QED BY <1>5, <1>7, <4>1
    <3> QED BY <1>4, <3>1, <3>2, <3>3
  <2>2. stays = [i \in 0 .. N |-> stays[i]]
    BY <1>7
  <2> QED BY <2>1, <2>2
<1>9. after = body(after)
  <2>1. \E g : g = body(g)
    BY <1>8
  <2> QED BY <2>1
<1> HIDE DEF after
<1>10. \A i \in 0 .. N : after[i] = IF i = 0 THEN start ELSE Golden!Round(after[i - 1])
  BY <1>9
<1>11. \A i \in 0 .. N : stays[i] = IF i = 0 THEN start ELSE Golden!Round(stays[i - 1])
  BY <1>8
<1> DEFINE Bad == {i \in 0 .. N : after[i] # stays[i]}
<1>12. Bad = {}
  <2> SUFFICES ASSUME Bad # {} PROVE FALSE
    OBVIOUS
  <2>1. Bad \subseteq Nat
    BY <1>4
  <2>2. PICK j \in Bad : \A i \in Bad : j <= i
    <3> HIDE DEF Bad
    <3> QED BY <2>1, LeastOf
  <2>3. j \in 0 .. N /\ after[j] # stays[j]
    OBVIOUS
  <2>4. j # 0
    BY <1>10, <1>11, <2>3
  <2>5. j - 1 \in 0 .. N /\ ~(j <= j - 1)
    BY <1>4, <2>3, <2>4
  <2>6. after[j - 1] = stays[j - 1]
    BY <2>2, <2>5
  <2> QED BY <1>10, <1>11, <2>3, <2>4, <2>6
<1>13. N \in 0 .. N /\ N \in n .. N
  BY <1>4
<1>14. after[N] = stays[N]
  BY <1>12, <1>13
<1> QED BY <1>3, <1>7, <1>13, <1>14

-----------------------------------------------------------------------------
\* Matching b comes by the orders E, with the trades T made on the way.
At(b, T, E) ==
    /\ Orders(E)
    /\ \E m : Reached(b, m) /\ m.trades = T /\ Lists(m.book, E) /\ Count(b) \in Nat

\* Matching b leaves the orders E and has made the trades T.
Leaves(b, T, E) ==
    /\ Orders(E)
    /\ Golden!Match(b).trades = T /\ Lists(Golden!Match(b).book, E)

\* It counts the orders.
LEMMA CountListed ==
    ASSUME NEW b, NEW E, Lists(b, E), Orders(E)
    PROVE  Count(b) = Cardinality(E) /\ Count(b) \in Nat
<1>1. Count(b) = Cardinality(E)
  BY OrdersListed, GoldenWords DEF Count
<1> QED BY <1>1, FS_CardinalityType DEF Orders

\* From the start.
LEMMA AtStart ==
    ASSUME NEW b, NEW E, Lists(b, E), Orders(E)
    PROVE  At(b, <<>>, E)
<1>1. Count(b) \in Nat
  BY CountListed
<1>2. Reached(b, StartOf(b)) /\ StartOf(b).trades = <<>> /\ StartOf(b).book = b
  BY <1>1, ReachedStart DEF StartOf
<1> QED BY <1>1, <1>2 DEF At

\* By a trade of the leading orders.
LEMMA AtTrade ==
    ASSUME NEW b, NEW T, NEW E, At(b, T, E),
           NEW x, Leading(E, "BUY", x), NEW y, Leading(E, "SELL", y), x.price >= y.price
    PROVE  At(b, Append(T, TradeOf(x, y)), Traded(E, x, y))
<1>1. PICK m : Reached(b, m) /\ m.trades = T /\ Lists(m.book, E) /\ Count(b) \in Nat
  BY DEF At
<1>2. Orders(E)
  BY DEF At
<1>3. x \in E /\ y \in E /\ x.side # y.side
  BY DEF Leading
<1> DEFINE r == Golden!Round(m)
           F == Traded(E, x, y)
<1>4. r.trades = Append(T, TradeOf(x, y)) /\ Lists(r.book, F)
  BY <1>1, <1>2, RoundTrades
<1>5. Orders(F) /\ Cardinality(F) < Cardinality(E)
  BY <1>2, <1>3, OrdersTraded
<1> HIDE DEF F
<1>6. Count(m.book) = Cardinality(E) /\ Count(m.book) \in Nat
  BY <1>1, <1>2, CountListed
<1>7. Count(r.book) = Cardinality(F) /\ Count(r.book) \in Nat
  BY <1>4, <1>5, CountListed
<1>8. Reached(b, r)
  BY <1>1, <1>5, <1>6, <1>7, ReachedNext
<1> HIDE DEF r
<1> QED BY <1>1, <1>4, <1>5, <1>8 DEF At, F

\* To the end.
LEMMA AtEnd ==
    ASSUME NEW b, NEW T, NEW E, At(b, T, E),
           ~\E x, y \in E : x.side = "BUY" /\ y.side = "SELL" /\ x.price >= y.price
    PROVE  Leaves(b, T, E)
<1>1. PICK m : Reached(b, m) /\ m.trades = T /\ Lists(m.book, E) /\ Count(b) \in Nat
  BY DEF At
<1>2. Orders(E)
  BY DEF At
<1>3. ~Golden!Crossed(m.book)
  BY <1>1, <1>2, CrossedListed
<1>4. Count(m.book) \in Nat
  BY <1>1, <1>2, CountListed
<1>5. Golden!Match(b) = m
  BY <1>1, <1>3, <1>4, ReachedEnds
<1> QED BY <1>1, <1>2, <1>5 DEF Leaves

-----------------------------------------------------------------------------
(* The book the memories hold.                                               *)

\* w follows next_ptr from the head h, as far as there are slots.
Walks(w, p, h) ==
    w = [n \in 1 .. MaxOrders |->
           IF n = 1 THEN h ELSE IF w[n - 1] = NULL THEN NULL ELSE p[w[n - 1]].next]

\* There is such a walk.
LEMMA WalkExists ==
    ASSUME NEW p, NEW h
    PROVE  \E w : Walks(w, p, h)
<1> DEFINE step(x) == IF x = NULL THEN NULL ELSE p[x].next
           good(j) == \E f : f = [n \in 1 .. j |-> IF n = 1 THEN h ELSE step(f[n - 1])]
           Bad     == {j \in Nat \ {0} : ~good(j)}
<1> HIDE DEF step
<1>1. good(1)
  <2> DEFINE f == [n \in 1 .. 1 |-> h]
  <2>1. f = [n \in 1 .. 1 |-> IF n = 1 THEN h ELSE step(f[n - 1])]
    OBVIOUS
  <2> QED BY <2>1
<1>2. ASSUME NEW j \in Nat \ {0}, good(j) PROVE good(j + 1)
  <2>1. PICK g : g = [n \in 1 .. j |-> IF n = 1 THEN h ELSE step(g[n - 1])]
    BY <1>2
  <2> DEFINE f == [n \in 1 .. j + 1 |-> IF n = j + 1 THEN step(g[j]) ELSE g[n]]
  <2>2. ASSUME NEW n \in 1 .. j + 1
        PROVE  f[n] = IF n = 1 THEN h ELSE step(f[n - 1])
    <3>1. CASE n = j + 1
      <4>1. j \in 1 .. j + 1 /\ j # j + 1 /\ n - 1 = j /\ n # 1
        BY <3>1
      <4>2. f[j] = g[j] /\ f[n] = step(g[j])
        BY <3>1, <4>1
      <4> HIDE DEF f
      <4> QED BY <4>1, <4>2
    <3>2. CASE n \in 2 .. j
      <4>1. n - 1 \in 1 .. j /\ n \in 1 .. j /\ n # 1 /\ n # j + 1 /\ n - 1 # j + 1
        BY <3>2
      <4>2. g[n] = step(g[n - 1])
        BY <2>1, <4>1
      <4>3. f[n] = g[n] /\ f[n - 1] = g[n - 1]
        BY <4>1
      <4> HIDE DEF f
      <4> QED BY <4>1, <4>2, <4>3
    <3>3. CASE n = 1
      <4>1. g[1] = h
        BY <2>1
      <4>2. f[1] = g[1]
        OBVIOUS
      <4> HIDE DEF f
      <4> QED BY <3>3, <4>1, <4>2
    <3> QED BY <3>1, <3>2, <3>3
  <2>3. f = [n \in 1 .. j + 1 |-> f[n]]
    OBVIOUS
  <2> HIDE DEF f
  <2>4. f = [n \in 1 .. j + 1 |-> IF n = 1 THEN h ELSE step(f[n - 1])]
    BY <2>2, <2>3
  <2> QED BY <2>4
<1> HIDE DEF good
<1>3. Bad = {}
  <2> SUFFICES ASSUME Bad # {} PROVE FALSE
    OBVIOUS
  <2>1. PICK j \in Bad : \A n \in Bad : j <= n
    <3>1. Bad \subseteq Nat
      OBVIOUS
    <3> HIDE DEF Bad
    <3> QED BY <3>1, LeastOf
  <2>2. j # 1
    BY <1>1
  <2>3. j - 1 \in Nat \ {0} /\ j = (j - 1) + 1
    BY <2>2
  <2>4. good(j - 1)
    BY <2>1, <2>3
  <2> QED BY <1>2, <2>3, <2>4
<1>4. good(MaxOrders)
  BY <1>3, PoolAssumption
<1> QED BY <1>4 DEF good, Walks, step

\* Along a FIFO it meets each order once, the older ones first, and then nothing.
LEMMA WalkMeets ==
    ASSUME NEW a, Slots(a), NEW p, Records(a, p), NEW v, IsFifo(a, p, v),
           NEW w, Walks(w, p, v.head)
    PROVE  \E k \in 0 .. MaxOrders :
             /\ \A n \in 1 .. MaxOrders : w[n] # NULL <=> n <= k
             /\ \A n \in 1 .. k : w[n] \in a
             /\ \A m, n \in 1 .. k : m < n => p[w[m]].ts < p[w[n]].ts
             /\ \A x \in a : \E n \in 1 .. k : w[n] = x
<1> USE PoolAssumption
<1>1. /\ w[1] = v.head
      /\ \A n \in 1 .. MaxOrders - 1 :
           w[n + 1] = IF w[n] = NULL THEN NULL ELSE p[w[n]].next
  <2> DEFINE body == [n \in 1 .. MaxOrders |->
           IF n = 1 THEN v.head ELSE IF w[n - 1] = NULL THEN NULL ELSE p[w[n - 1]].next]
  <2>1. w = body
    BY DEF Walks
  <2>2. 1 \in 1 .. MaxOrders
    OBVIOUS
  <2>3. \A n \in 1 .. MaxOrders : body[n] =
           IF n = 1 THEN v.head ELSE IF w[n - 1] = NULL THEN NULL ELSE p[w[n - 1]].next
    OBVIOUS
  <2> HIDE DEF body
  <2>4. \A n \in 1 .. MaxOrders - 1 : n + 1 \in 1 .. MaxOrders /\ n + 1 # 1 /\ n + 1 - 1 = n
    OBVIOUS
  <2> QED BY <2>1, <2>2, <2>3, <2>4
<1>2. \A x \in a : x # NULL /\ p[x].ts \in Nat
  BY DEF Slots, Records
<1>3. \A n \in 1 .. MaxOrders : w[n] = NULL \/ w[n] \in a
  <2> DEFINE Bad == {n \in 1 .. MaxOrders : ~(w[n] = NULL \/ w[n] \in a)}
  <2> SUFFICES ASSUME Bad # {} PROVE FALSE
    OBVIOUS
  <2>1. PICK j \in Bad : \A n \in Bad : j <= n
    <3>1. Bad \subseteq Nat
      OBVIOUS
    <3> HIDE DEF Bad
    <3> QED BY <3>1, LeastOf
  <2>2. j # 1
    BY <1>1 DEF IsFifo
  <2>3. j - 1 \in 1 .. MaxOrders - 1 /\ j = (j - 1) + 1 /\ j - 1 \in 1 .. MaxOrders
    BY <2>2
  <2>4. w[j - 1] = NULL \/ w[j - 1] \in a
    BY <2>1, <2>3
  <2>5. CASE w[j - 1] = NULL
    BY <1>1, <2>3, <2>5
  <2>6. CASE w[j - 1] \in a
    <3>1. w[j] = p[w[j - 1]].next
      BY <1>1, <1>2, <2>3, <2>6
    <3>2. w[j] = NULL \/ w[j] \in a
      BY <2>6, <3>1 DEF IsFifo
    <3> QED BY <2>1, <3>2
  <2> QED BY <2>4, <2>5, <2>6
<1>4. \A n \in 1 .. MaxOrders - 1 : w[n + 1] # NULL =>
        w[n] \in a /\ w[n + 1] \in a /\ w[n] # v.tail /\ p[w[n]].ts < p[w[n + 1]].ts
  <2> SUFFICES ASSUME NEW n \in 1 .. MaxOrders - 1, w[n + 1] # NULL
               PROVE  w[n] \in a /\ w[n + 1] \in a /\ w[n] # v.tail /\ p[w[n]].ts < p[w[n + 1]].ts
    OBVIOUS
  <2>1. n \in 1 .. MaxOrders /\ n + 1 \in 1 .. MaxOrders
    OBVIOUS
  <2>2. w[n] # NULL /\ w[n + 1] = p[w[n]].next
    BY <1>1
  <2>3. w[n] \in a /\ w[n + 1] \in a
    BY <1>3, <2>1, <2>2
  <2>4. w[n] # v.tail
    BY <2>2, <2>3 DEF IsFifo
  <2> QED BY <2>2, <2>3, <2>4, After
<1>5. \E k \in 0 .. MaxOrders : \A n \in 1 .. MaxOrders : w[n] # NULL <=> n <= k
  <2> DEFINE Z == {n \in 1 .. MaxOrders : w[n] = NULL}
  <2>1. CASE Z = {}
    <3>1. \A n \in 1 .. MaxOrders : w[n] # NULL /\ n <= MaxOrders
      BY <2>1
    <3>2. MaxOrders \in 0 .. MaxOrders
      OBVIOUS
    <3> QED BY <3>1, <3>2
  <2>2. CASE Z # {}
    <3>1. PICK z \in Z : \A n \in Z : z <= n
      <4>1. Z \subseteq Nat
        OBVIOUS
      <4> HIDE DEF Z
      <4> QED BY <2>2, <4>1, LeastOf
    <3>2. \A n \in 1 .. MaxOrders : n < z => w[n] # NULL
      BY <3>1
    <3>3. \A n \in 1 .. MaxOrders : z <= n => w[n] = NULL
      <4> DEFINE Bad == {n \in 1 .. MaxOrders : z <= n /\ w[n] # NULL}
      <4> SUFFICES ASSUME Bad # {} PROVE FALSE
        OBVIOUS
      <4>1. PICK j \in Bad : \A n \in Bad : j <= n
        <5>1. Bad \subseteq Nat
          OBVIOUS
        <5> HIDE DEF Bad
        <5> QED BY <5>1, LeastOf
      <4>2. z # j
        BY <3>1, <4>1
      <4>3. j - 1 \in 1 .. MaxOrders - 1 /\ j = (j - 1) + 1 /\ z <= j - 1
            /\ j - 1 \in 1 .. MaxOrders
        BY <3>1, <4>1, <4>2
      <4>4. w[j - 1] # NULL
        BY <1>1, <4>1, <4>3
      <4> QED BY <4>1, <4>3, <4>4
    <3>4. z - 1 \in 0 .. MaxOrders
      BY <3>1
    <3>5. \A n \in 1 .. MaxOrders : w[n] # NULL <=> n <= z - 1
      BY <3>1, <3>2, <3>3
    <3> QED BY <3>4, <3>5
  <2> QED BY <2>1, <2>2
<1>6. PICK k \in 0 .. MaxOrders : \A n \in 1 .. MaxOrders : w[n] # NULL <=> n <= k
  BY <1>5
<1>7. \A n \in 1 .. k : w[n] \in a
  BY <1>3, <1>6
<1>8. \A m, n \in 1 .. k : m < n => p[w[m]].ts < p[w[n]].ts
  <2> SUFFICES ASSUME NEW m \in 1 .. k
               PROVE  \A n \in 1 .. k : m < n => p[w[m]].ts < p[w[n]].ts
    OBVIOUS
  <2> DEFINE Bad == {n \in 1 .. k : m < n /\ ~(p[w[m]].ts < p[w[n]].ts)}
  <2> SUFFICES ASSUME Bad # {} PROVE FALSE
    OBVIOUS
  <2>1. PICK j \in Bad : \A n \in Bad : j <= n
    <3>1. Bad \subseteq Nat
      OBVIOUS
    <3> HIDE DEF Bad
    <3> QED BY <3>1, LeastOf
  <2>2. j - 1 \in 1 .. MaxOrders - 1 /\ j = (j - 1) + 1 /\ j - 1 \in 1 .. k /\ j \in 1 .. MaxOrders
    BY <1>6, <2>1
  <2>3. w[j] # NULL
    BY <1>6, <2>1, <2>2
  <2>4. p[w[j - 1]].ts < p[w[j]].ts
    BY <1>4, <2>2, <2>3
  <2>5. m = j - 1 \/ p[w[m]].ts < p[w[j - 1]].ts
    BY <2>1, <2>2
  <2>6. p[w[m]].ts \in Nat /\ p[w[j]].ts \in Nat /\ p[w[j - 1]].ts \in Nat
    BY <1>2, <1>7, <2>1, <2>2
  <2> QED BY <2>1, <2>4, <2>5, <2>6
<1>9. \A x \in a : \E n \in 1 .. k : w[n] = x
  <2> DEFINE Missed == {x \in a : ~\E n \in 1 .. k : w[n] = x}
             Times  == {p[x].ts : x \in Missed}
  <2> SUFFICES ASSUME Missed # {} PROVE FALSE
    OBVIOUS
  <2>1. PICK t \in Times : \A u \in Times : t <= u
    <3>1. Times \subseteq Nat /\ Times # {}
      BY <1>2
    <3> HIDE DEF Times
    <3> QED BY <3>1, LeastOf
  <2>2. PICK x \in Missed : p[x].ts = t
    OBVIOUS
  <2>3. \A y \in Missed : p[x].ts <= p[y].ts
    BY <2>1, <2>2
  <2>4. x \in a /\ ~\E n \in 1 .. k : w[n] = x
    OBVIOUS
  <2> HIDE DEF Missed, Times
  <2>5. x # v.head
    <3>1. v.head \in a
      BY <2>4 DEF IsFifo
    <3>2. 1 \in 1 .. MaxOrders /\ w[1] # NULL
      BY <1>1, <1>2, <3>1
    <3>3. 1 \in 1 .. k
      BY <1>6, <3>2
    <3> QED BY <1>1, <2>4, <3>3
  <2> DEFINE y == p[x].prev
  <2>6. y \in a /\ p[y].next = x /\ p[y].ts < p[x].ts
    BY <2>4, <2>5, Before
  <2> HIDE DEF y
  <2>7. PICK n \in 1 .. k : w[n] = y
    <3>1. ~(p[x].ts <= p[y].ts)
      BY <1>2, <2>4, <2>6
    <3>2. y \notin Missed
      BY <2>3, <3>1
    <3> QED BY <2>6, <3>2 DEF Missed
  <2>8. CASE n < MaxOrders
    <3>1. n \in 1 .. MaxOrders - 1 /\ n + 1 \in 1 .. MaxOrders
      BY <2>8
    <3>2. w[n + 1] = x
      BY <1>1, <1>2, <2>6, <2>7, <3>1
    <3>3. n + 1 \in 1 .. k
      BY <1>2, <1>6, <2>4, <3>1, <3>2
    <3> QED BY <2>4, <3>2, <3>3
  <2>9. CASE n = MaxOrders
    <3>1. k = MaxOrders
      BY <2>9
    <3> DEFINE N == 1 .. MaxOrders
               S == 1 .. MaxOrders - 1
               f == [i \in N |-> w[i]]
    <3>2. IsFiniteSet(N) /\ Cardinality(N) = MaxOrders
      BY FS_Interval
    <3>3. IsFiniteSet(S) /\ Cardinality(S) = MaxOrders - 1
      BY FS_Interval
    <3>4. a \subseteq S
      BY DEF Slots, Slot, NULL
    <3>5. f \in [N -> S]
      BY <1>7, <3>1, <3>4
    <3>6. PICK i, j \in N : i # j /\ f[i] = f[j]
      <4> HIDE DEF N, S, f
      <4>1. Cardinality(S) < Cardinality(N)
        BY <3>2, <3>3
      <4> QED BY <3>2, <3>3, <3>5, <4>1, FS_PigeonHole
    <3>7. w[i] = w[j] /\ i \in 1 .. k /\ j \in 1 .. k
      BY <3>1, <3>6
    <3>8. p[w[i]].ts \in Nat
      BY <1>2, <1>7, <3>7
    <3>9. ~(p[w[i]].ts < p[w[j]].ts) /\ ~(p[w[j]].ts < p[w[i]].ts)
      BY <3>7, <3>8
    <3>10. i < j \/ j < i
      BY <3>6, <3>7
    <3> QED BY <1>8, <3>7, <3>9, <3>10
  <2> QED BY <2>7, <2>8, <2>9
<1> QED BY <1>6, <1>7, <1>8, <1>9

\* What a slot shows of its order.
Shape(o) == [side |-> o.side, price |-> o.price, id |-> o.id, qty |-> o.qty, ts |-> o.ts]

\* The orders in the book.
Book == {Shape(pool[x]) : x \in Resting}

\* Its fields.
LEMMA ShapeFields ==
    \A o : /\ Shape(o).side = o.side /\ Shape(o).price = o.price /\ Shape(o).id = o.id
           /\ Shape(o).qty = o.qty /\ Shape(o).ts = o.ts
           /\ Strip(Shape(o)) = [id |-> o.id, qty |-> o.qty, ts |-> o.ts]
  BY DEF Shape, Strip

\* The order of a resting slot.
LEMMA RestingOrder ==
    ASSUME Sound, NEW x \in Resting
    PROVE  /\ Shape(pool[x]) \in OrderSet /\ Shape(pool[x]) \in Book
           /\ pool[x].side \in Side /\ pool[x].price \in Level /\ pool[x].id \in Ids
           /\ pool[x].qty \in Nat /\ pool[x].qty > 0 /\ pool[x].ts \in Nat
           /\ pool[x].qty \in Qty
           /\ ids[pool[x].id] = x /\ x \in Slot \ {NULL}
           /\ View[x].qty = pool[x].qty /\ View[x].side = pool[x].side
           /\ View[x].price = pool[x].price /\ View[x].ts = pool[x].ts
<1>1. /\ x \in Slot \ {NULL} /\ pool[x] \in OrderRec
      /\ \E i \in Ids : ids[i] = x /\ pool[x].id = i
      /\ pool \in Pools /\ View \in Pools /\ AreFifos(Resting, View, lvl)
  BY Facts
<1>2. pool[x].id \in Ids /\ ids[pool[x].id] = x
  BY <1>1
<1>3. /\ View[x].qty = pool[x].qty /\ View[x].side = pool[x].side
      /\ View[x].price = pool[x].price /\ View[x].ts = pool[x].ts
  <2>1. \A y, v : LET q == [pool EXCEPT ![y].next = v] IN
          q[x].qty = pool[x].qty /\ q[x].side = pool[x].side /\ q[x].price = pool[x].price
          /\ q[x].ts = pool[x].ts
    BY <1>1 DEF Pools, OrderRec
  <2>2. \A y, v : LET q == [pool EXCEPT ![y].prev = v] IN
          q[x].qty = pool[x].qty /\ q[x].side = pool[x].side /\ q[x].price = pool[x].price
          /\ q[x].ts = pool[x].ts
    BY <1>1 DEF Pools, OrderRec
  <2> QED BY <2>1, <2>2 DEF View
<1>4. /\ pool[x].side \in Side /\ pool[x].price \in Level /\ pool[x].qty \in Qty
      /\ pool[x].ts \in Nat
  BY <1>1 DEF OrderRec
<1>5. pool[x].qty > 0
  <2> DEFINE s == pool[x].side
             l == pool[x].price
  <2>1. IsFifo(SlotsAt(Resting, View, s, l), View, lvl[s][l])
    BY <1>1, <1>4 DEF AreFifos
  <2>2. x \in SlotsAt(Resting, View, s, l)
    BY <1>3 DEF SlotsAt
  <2> HIDE DEF s, l
  <2>3. View[x].qty > 0
    BY <2>1, <2>2 DEF IsFifo
  <2> QED BY <1>3, <2>3
<1>6. pool[x].qty \in Nat
  BY <1>4, QtyAssumption DEF Qty
<1>7. Shape(pool[x]) \in OrderSet
  BY <1>2, <1>4, <1>5, <1>6 DEF Shape, OrderSet
<1> QED BY <1>1, <1>2, <1>3, <1>4, <1>5, <1>6, <1>7 DEF Book

\* Each slot holds an order of its own.
LEMMA BookIds ==
    ASSUME Sound
    PROVE  /\ \A x, y \in Resting : Shape(pool[x]).id = Shape(pool[y]).id => x = y
           /\ \A x, y \in Resting : Shape(pool[x]) = Shape(pool[y]) => x = y
           /\ Orders(Book) /\ Cardinality(Book) = Cardinality(Resting)
<1>1. \A x, y \in Resting : Shape(pool[x]).id = Shape(pool[y]).id => x = y
  <2>1. \A x \in Resting : ids[pool[x].id] = x
    BY RestingOrder
  <2> QED BY <2>1, ShapeFields
<1>2. Slots(Resting)
  BY Facts
<1>3. IsFiniteSet(Resting) /\ Cardinality(Resting) <= Cap
  <2> DEFINE S == 1 .. MaxOrders - 1
  <2>1. IsFiniteSet(S) /\ Cardinality(S) = MaxOrders - 1
    BY FS_Interval, PoolAssumption
  <2>2. Resting \subseteq S
    BY <1>2, PoolAssumption DEF Slots, Slot, NULL
  <2> HIDE DEF S
  <2> QED BY <2>1, <2>2, FS_Subset DEF Cap
<1>4. IsFiniteSet(Book) /\ Cardinality(Book) = Cardinality(Resting)
  <2> DEFINE f == [x \in Resting |-> Shape(pool[x])]
  <2>1. f \in [Resting -> Book]
    BY DEF Book
  <2>2. \A x, y \in Resting : f[x] = f[y] => x = y
    BY <1>1
  <2>3. \A o \in Book : \E x \in Resting : f[x] = o
    BY DEF Book
  <2> HIDE DEF f
  <2>4. f \in Injection(Resting, Book) /\ f \in Surjection(Resting, Book)
    BY <2>1, <2>2, <2>3 DEF Injection, IsInjective, Surjection
  <2> QED BY <1>3, <2>4, FS_Surjection
<1>5. Book \subseteq OrderSet
  BY RestingOrder DEF Book
<1>6. \A o, z \in Book : o.id = z.id => o = z
  BY <1>1 DEF Book
<1>7. Orders(Book)
  BY <1>3, <1>4, <1>5, <1>6 DEF Orders
<1> QED BY <1>1, <1>4, <1>7

\* When no operation carries a slot, the walks list the orders.
LEMMA BookListed ==
    ASSUME Sound, View = pool
    PROVE  Lists(BookView, Book)
<1>1. ASSUME NEW s \in Side, NEW l \in Level
      PROVE  Ordered(BookView[s][l], EntriesAt(Book, s, l))
  <2> DEFINE a == SlotsAt(Resting, pool, s, l)
             v == lvl[s][l]
             e(x) == [id |-> pool[x].id, qty |-> pool[x].qty, ts |-> pool[x].ts]
             body(f) == [n \in 1 .. MaxOrders |->
                           IF n = 1 THEN v.head
                           ELSE LET slot == f[n - 1]
                                IN  IF slot = NULL THEN NULL ELSE pool[slot].next]
             w == CHOOSE f : f = body(f)
  <2>1. Slots(a) /\ Records(a, pool) /\ IsFifo(a, pool, v)
    <3>1. Slots(Resting) /\ pool \in Pools /\ AreFifos(Resting, pool, lvl)
      BY Facts
    <3> QED BY <3>1, LevelSlots DEF AreFifos
  <2>2. Walks(w, pool, v.head)
    <3>1. PICK f : Walks(f, pool, v.head)
      BY WalkExists
    <3>2. \E g : g = body(g)
      BY <3>1 DEF Walks
    <3>3. w = body(w)
      BY <3>2
    <3> HIDE DEF w
    <3> QED BY <3>3 DEF Walks
  <2> DEFINE D == {n \in 1 .. MaxOrders : w[n] # NULL}
             k == Cardinality(D)
             q == [n \in 1 .. k |-> w[n]]
  <2>3. Queue(s, l) = q
    BY DEF Queue
  <2> HIDE DEF w, a, v
  <2>4. PICK j \in 0 .. MaxOrders :
           /\ \A n \in 1 .. MaxOrders : w[n] # NULL <=> n <= j
           /\ \A n \in 1 .. j : w[n] \in a
           /\ \A m, n \in 1 .. j : m < n => pool[w[m]].ts < pool[w[n]].ts
           /\ \A x \in a : \E n \in 1 .. j : w[n] = x
    BY <2>1, <2>2, WalkMeets
  <2>5. k = j
    <3>1. D = 1 .. j
      BY <2>4, PoolAssumption
    <3>2. Cardinality(1 .. j) = j
      BY FS_Interval
    <3> QED BY <3>1, <3>2
  <2> HIDE DEF D, k
  <2>6. DOMAIN q = 1 .. j /\ \A n \in 1 .. j : q[n] = w[n]
    BY <2>5
  <2> HIDE DEF q
  <2> DEFINE r == [n \in DOMAIN q |-> e(q[n])]
  <2>7. BookView[s][l] = r
    BY <2>3 DEF BookView
  <2>8. DOMAIN r = 1 .. j /\ \A n \in 1 .. j : r[n] = e(w[n])
    BY <2>6
  <2>9. r = [n \in 1 .. j |-> e(w[n])]
    BY <2>6
  <2>10. \A x \in a : x \in Resting /\ pool[x].side = s /\ pool[x].price = l
    BY DEF a, SlotsAt
  <2>11. \A x \in a : e(x) \in Entry /\ e(x) = Strip(Shape(pool[x]))
    <3>1. \A x \in a : pool[x].id \in Ids /\ pool[x].qty \in Nat \ {0} /\ pool[x].ts \in Nat
      BY <2>10, RestingOrder
    <3> QED BY <3>1, ShapeFields DEF Entry
  <2>12. \A z : z \in EntriesAt(Book, s, l) <=> \E x \in a : z = e(x)
    <3>1. \A x : x \in a <=> x \in Resting /\ pool[x].side = s /\ pool[x].price = l
      BY DEF a, SlotsAt
    <3> HIDE DEF e
    <3>2. \A z : z \in EntriesAt(Book, s, l) <=>
                   \E o \in Book : o.side = s /\ o.price = l /\ z = Strip(o)
      BY DEF EntriesAt
    <3>3. \A o : o \in Book <=> \E x \in Resting : o = Shape(pool[x])
      BY DEF Book
    <3>4. \A x \in Resting : /\ Shape(pool[x]).side = pool[x].side
                               /\ Shape(pool[x]).price = pool[x].price
      BY ShapeFields
    <3>5. \A x \in a : e(x) = Strip(Shape(pool[x]))
      BY <2>11
    <3> QED BY ONLY <3>1, <3>2, <3>3, <3>4, <3>5
  <2>13. \A x : e(x).ts = pool[x].ts
    OBVIOUS
  <2> HIDE DEF e
  <2>14. r \in Seq(Entry) /\ Len(r) = j
    <3>1. \A n \in 1 .. j : e(w[n]) \in Entry
      BY <2>4, <2>11
    <3> QED BY <2>9, <3>1
  <2> HIDE DEF r
  <2>15. \A m, n \in 1 .. Len(r) : m < n => r[m].ts < r[n].ts
    BY <2>4, <2>8, <2>13, <2>14
  <2>16. \A x : x \in EntriesAt(Book, s, l) <=> \E n \in 1 .. Len(r) : r[n] = x
    BY <2>4, <2>8, <2>12, <2>14
  <2> QED BY <2>7, <2>14, <2>15, <2>16 DEF Ordered
<1>2. BookView \in Books
  <2>1. \A s \in Side, l \in Level : BookView[s][l] \in Seq(Entry)
    BY <1>1, OrderedHolds
  <2>2. /\ DOMAIN BookView = Side /\ \A s \in Side : DOMAIN BookView[s] = Level
        /\ BookView = [s \in Side |-> BookView[s]]
        /\ \A s \in Side : BookView[s] = [l \in Level |-> BookView[s][l]]
    BY DEF BookView
  <2> QED BY <2>1, <2>2 DEF Books
<1> QED BY <1>1, <1>2 DEF Lists

-----------------------------------------------------------------------------
(* What the reference does with a command, in sets of orders.                *)

\* The orders of the book b.
Listed(b) ==
    {o \in OrderSet : \E n \in 1 .. Len(b[o.side][o.price]) : b[o.side][o.price][n] = Strip(o)}

\* A book lists no other orders.
LEMMA ListedIs ==
    ASSUME NEW b, NEW E, Lists(b, E), E \subseteq OrderSet
    PROVE  Listed(b) = E
<1>1. ASSUME NEW o \in OrderSet
      PROVE  o \in Listed(b) <=> Strip(o) \in EntriesAt(E, o.side, o.price)
  <2>1. Ordered(b[o.side][o.price], EntriesAt(E, o.side, o.price))
    BY OrderParts DEF Lists
  <2> QED BY <2>1 DEF Listed, Ordered
<1>2. ASSUME NEW o \in OrderSet
      PROVE  o \in E <=> Strip(o) \in EntriesAt(E, o.side, o.price)
  BY StripTells DEF EntriesAt
<1> QED BY <1>1, <1>2 DEF Listed

FieldsOK(c) == ~Golden!BadField(c)

\* An order with the command's id is in the book b.
Known(b, c) == \E o \in Listed(b) : o.id = c.id

Room(b) == Cardinality(Listed(b)) < Cap

Addable(b, c) == c.type = "ADD" /\ FieldsOK(c) /\ Room(b) /\ ~Known(b, c)

Movable(b, c) ==
    c.type = "MODIFY" /\ FieldsOK(c) /\ \E o \in Listed(b) : o.id = c.id /\ o.price # c.price

Linkable(b, c) == Addable(b, c) \/ Movable(b, c)

\* The order a command brings.
OrderOf(c) ==
    [side |-> c.side, price |-> c.price, id |-> c.id, qty |-> c.qty, ts |-> c.ts]

\* The book with it, before any trade.
Start(b, c) ==
    IF c.type = "ADD"
    THEN Golden!Insert(b, c.side, c.price, Golden!Order(c.id, c.qty, c.ts))
    ELSE LET k == Golden!PlaceOf(b, c.id)
         IN  Golden!Insert(Golden!Without(b, k), k[1], c.price,
                           Golden!Order(c.id, c.qty, c.ts))

\* r is what is left of the order i among the orders E.
Left(E, i, r) ==
    \/ \E o \in E : o.id = i /\ o.qty = r
    \/ r = 0 /\ \A o \in E : o.id # i

\* The trade of an external fill.
FillOf(o, c) ==
    [buy  |-> IF o.side = "BUY" THEN o.id ELSE NoId,
     sell |-> IF o.side = "SELL" THEN o.id ELSE NoId,
     price |-> o.price, qty |-> c.qty, ts |-> c.ts]

\* Nothing traded and nothing changed.
Unchanged(b, T, E) == T = <<>> /\ E = Listed(b)

\* The answer st with the remainder rem, the trades T and the orders E are those
\* the reference gives to the command c on the book b: refused,
RefusedAs(b, c, st, rem) ==
    \/ st = "BAD_FIELD" /\ rem = 0 /\ ~FieldsOK(c)
    \/ st = "FULL" /\ rem = 0 /\ c.type = "ADD" /\ FieldsOK(c) /\ Cardinality(Listed(b)) = Cap
    \/ /\ st = "INTERNAL" /\ rem = 0 /\ c.type = "ADD" /\ FieldsOK(c)
       /\ Room(b) /\ (Known(b, c) \/ WindowFull)
    \/ st = "NOT_LIVE" /\ rem = 0 /\ c.type # "ADD" /\ FieldsOK(c) /\ ~Known(b, c)
    \/ /\ st = "BAD_FIELD" /\ c.type = "EXECUTE"
       /\ \E o \in Listed(b) : o.id = c.id /\ rem = o.qty /\ (c.qty = 0 \/ c.qty > o.qty)

\* matched,
MatchedAs(b, c, rem, T, E) ==
    Linkable(b, c) /\ Leaves(Start(b, c), T, E) /\ Left(E, c.id, rem)

\* or applied to the order o.
AppliedAs(b, c, o, rem, T, E) ==
    \/ c.type = "CANCEL" /\ rem = 0 /\ T = <<>> /\ E = Listed(b) \ {o}
    \/ /\ c.type = "MODIFY" /\ FieldsOK(c) /\ o.price = c.price /\ rem = c.qty /\ T = <<>>
       /\ E = (Listed(b) \ {o}) \union {[o EXCEPT !.qty = c.qty]}
    \/ /\ c.type = "EXECUTE" /\ c.qty \in 1 .. o.qty /\ rem = o.qty - c.qty
       /\ T = <<FillOf(o, c)>> /\ E = Reduced(Listed(b), o, c.qty)

Outcome(b, c, st, rem, T, E) ==
    \/ RefusedAs(b, c, st, rem) /\ Unchanged(b, T, E)
    \/ st = "OK" /\ MatchedAs(b, c, rem, T, E)
    \/ st = "OK" /\ \E o \in Listed(b) : o.id = c.id /\ AppliedAs(b, c, o, rem, T, E)

-----------------------------------------------------------------------------
\* The reference stands where the orders of its book are listed in time.
Standing(b) == Lists(b, Listed(b)) /\ Orders(Listed(b))

\* A valid command's price is a level.
LEMMA FieldsGood ==
    ASSUME NEW c \in AllCommands, FieldsOK(c), c.type \in {"ADD", "MODIFY"}
    PROVE  c.price \in Level /\ c.qty \in Nat \ {0} /\ c.price # 0
<1>1. c.price \in Nat /\ c.qty \in Nat
  <2>1. c.price \in HostPrices /\ c.qty \in 0 .. MaxQty
    BY DEF AllCommands, Qty
  <2>2. c.price \in 0 .. NumLevels
    BY <2>1, BoundAssumption
  <2> QED BY <2>1, <2>2, NumLevelsAssumption, QtyAssumption
<1>2. c.qty # 0 /\ c.price # 0 /\ c.price < NumLevels
  BY GoldenWords DEF FieldsOK, Golden!BadField, PriceInRange
<1> QED BY <1>1, <1>2, NumLevelsAssumption DEF Level

\* The order of a command that may be linked.
LEMMA OrderOfTyped ==
    ASSUME NEW c \in AllCommands, c.price \in Level, c.qty \in Nat \ {0}
    PROVE  /\ OrderOf(c) \in OrderSet
           /\ OrderOf(c).side = c.side /\ OrderOf(c).price = c.price
           /\ OrderOf(c).id = c.id /\ OrderOf(c).qty = c.qty /\ OrderOf(c).ts = c.ts
           /\ Strip(OrderOf(c)) = Golden!Order(c.id, c.qty, c.ts)
<1>1. c.side \in Side /\ c.id \in Ids /\ c.ts \in Nat
  BY BoundAssumption DEF AllCommands
<1>2. OrderOf(c) \in OrderSet
  BY <1>1 DEF OrderOf, OrderSet
<1>3. Strip(OrderOf(c)) = Golden!Order(c.id, c.qty, c.ts)
  BY GoldenWords DEF OrderOf, Strip
<1> QED BY <1>2, <1>3 DEF OrderOf

\* Matching starts from the command's order and the others.
LEMMA StartListed ==
    ASSUME NEW b, Standing(b), NEW c \in AllCommands, Linkable(b, c),
           \A o \in Listed(b) : o.ts < c.ts,
           \A o \in Listed(b) : o.id = c.id => o.side = c.side
    PROVE  At(Start(b, c), <<>>, {o \in Listed(b) : o.id # c.id} \union {OrderOf(c)})
<1> DEFINE W == Listed(b)
           R == {o \in W : o.id # c.id}
           n == OrderOf(c)
<1>1. /\ W \subseteq OrderSet /\ IsFiniteSet(W) /\ Cardinality(W) <= Cap
      /\ Cardinality(W) \in Nat /\ \A x, y \in W : x.id = y.id => x = y
  BY FS_CardinalityType DEF Standing, Orders
<1>2. c.type \in {"ADD", "MODIFY"} /\ FieldsOK(c)
  BY DEF Linkable, Addable, Movable
<1>3. /\ n \in OrderSet /\ n.side = c.side /\ n.price = c.price /\ n.id = c.id
      /\ n.ts = c.ts /\ Strip(n) = Golden!Order(c.id, c.qty, c.ts)
  BY <1>2, FieldsGood, OrderOfTyped
<1> HIDE DEF n
<1>4. n \notin R
  BY <1>3
<1>5. Lists(Start(b, c), R \union {n}) /\ IsFiniteSet(R) /\ Cardinality(R) < Cap
      /\ Cardinality(R) \in Nat
  <2>1. CASE c.type = "ADD"
    <3>1. R = W /\ Cardinality(W) < Cap
      BY <2>1 DEF Linkable, Addable, Movable, Known, Room
    <3>2. Lists(Golden!Insert(b, n.side, n.price, Strip(n)), W \union {n})
      BY <1>3, ListsInsert DEF Standing
    <3>3. Start(b, c) = Golden!Insert(b, n.side, n.price, Strip(n))
      BY <1>3, <2>1 DEF Start
    <3> QED BY <1>1, <3>1, <3>2, <3>3
  <2>2. CASE c.type = "MODIFY"
    <3>1. PICK o \in W : o.id = c.id /\ o.price # c.price
      BY <2>2 DEF Linkable, Addable, Movable
    <3>2. o.side = c.side
      BY <3>1
    <3>3. R = W \ {o}
      BY <1>1, <3>1
    <3> DEFINE k == Golden!PlaceOf(b, c.id)
    <3>4. Stands(b, o, k)
      BY <3>1, OrdersListed DEF Standing
    <3> HIDE DEF W
    <3>5. Lists(Golden!Without(b, k), W \ {o})
      BY <1>1, <3>1, <3>4, ListsWithout DEF Standing, W
    <3>6. k[1] = c.side
      BY <3>2, <3>4 DEF Stands
    <3> HIDE DEF k
    <3>7. \A z \in W \ {o} : z.side = n.side /\ z.price = n.price => z.ts < n.ts
      BY <1>3 DEF W
    <3> DEFINE v == Golden!Without(b, k)
               V == W \ {o}
    <3> HIDE DEF v, V
    <3>8. Lists(Golden!Insert(v, n.side, n.price, Strip(n)), V \union {n})
      BY <1>3, <3>5, <3>7, ListsInsert DEF v, V
    <3>9. Start(b, c) = Golden!Insert(v, n.side, n.price, Strip(n))
      BY <1>3, <2>2, <3>6 DEF Start, k, v
    <3>10. IsFiniteSet(V) /\ Cardinality(V) = Cardinality(W) - 1
      BY <1>1, <3>1, FS_RemoveElement DEF V, W
    <3>11. Cardinality(V) \in Nat
      BY <3>10, FS_CardinalityType
    <3>12. Cap \in Int
      BY PoolAssumption DEF Cap
    <3>13. Cardinality(V) < Cap
      BY <1>1, <3>10, <3>11, <3>12 DEF W
    <3> QED BY <3>3, <3>8, <3>9, <3>10, <3>11, <3>13 DEF V, W
  <2> QED BY <1>2, <2>1, <2>2
<1>6. Orders(R \union {n})
  <2> DEFINE N == R \union {n}
  <2>1. IsFiniteSet(N) /\ Cardinality(N) = Cardinality(R) + 1
    BY <1>4, <1>5, FS_AddElement
  <2>2. Cap \in Int
    BY PoolAssumption DEF Cap
  <2>3. Cardinality(N) <= Cap
    BY <1>5, <2>1, <2>2
  <2>4. N \subseteq OrderSet
    BY <1>1, <1>3
  <2>5. \A x, y \in N : x.id = y.id => x = y
    BY <1>1, <1>3
  <2> HIDE DEF N
  <2> QED BY <2>1, <2>3, <2>4, <2>5 DEF Orders, N
<1> QED BY <1>5, <1>6, AtStart DEF n

\* The reference answers as the outcome says.
LEMMA ProcessFollows ==
    ASSUME Standing(shown.book), NEW c \in AllCommands, NEW st, NEW rem, NEW E, Orders(E),
           Lists(shown'.book, E), Outcome(shown.book, c, st, rem, shown'.trades, E),
           shown'.cmd = c,
           shown'.ack = [status |-> st, id |-> c.id, rem |-> rem,
                         bid |-> Golden!Shown(shown'.book, "BUY"),
                         ask |-> Golden!Shown(shown'.book, "SELL"),
                         n |-> Golden!Cardinality(Golden!Places(shown'.book))]
    PROVE  Golden!Process(c)
<1> DEFINE b == shown.book
           W == Listed(b)
           B == shown'.book
           T == shown'.trades
<1>1. Golden!Answer(c, st, rem, T, B)
  BY DEF Golden!Answer
<1>2. Lists(b, W) /\ Orders(W) /\ W \subseteq OrderSet
  BY DEF Standing, Orders
<1>3. /\ Golden!Live(b) = {o.id : o \in W}
      /\ Golden!Cardinality(Golden!Places(b)) = Cardinality(W)
  <2>1. \A i : i \in Golden!Live(b) <=> \E o \in W : o.id = i
    BY <1>2, OrdersListed
  <2> QED BY <1>2, <2>1, OrdersListed
<1>4. \A o \in W : /\ Stands(b, o, Golden!PlaceOf(b, o.id))
                   /\ Golden!Remaining(b, o.id) = o.qty
                   /\ Golden!OrderAt(b, Golden!PlaceOf(b, o.id)) = Strip(o)
  BY <1>2, OrdersListed
<1>5. \A C : Lists(C, E) => C = B
  BY ListsUnique
<1>6. c.id \in Golden!Live(b) <=> Known(b, c)
  BY <1>3 DEF Known
<1> HIDE DEF b, W, B, T
<1>7. ASSUME RefusedAs(b, c, st, rem), Unchanged(b, T, E) PROVE Golden!Process(c)
  <2>1. T = <<>> /\ b = B
    BY <1>2, <1>5, <1>7 DEF Unchanged, W
  <2>2. Golden!Reject(c, st, rem)
    BY <1>1, <2>1 DEF Golden!Reject, b
  <2>3. CASE st = "BAD_FIELD" /\ rem = 0 /\ ~FieldsOK(c)
    <3>1. Golden!RejectField(c)
      BY <2>2, <2>3 DEF FieldsOK, Golden!RejectField
    <3> QED BY <3>1 DEF Golden!Process
  <2>4. CASE /\ st = "FULL" /\ rem = 0 /\ c.type = "ADD" /\ FieldsOK(c)
             /\ Cardinality(Listed(b)) = Cap
    <3>1. Golden!AddFull(c)
      BY <1>3, <2>2, <2>4 DEF FieldsOK, Golden!AddFull, b, W, Cap
    <3> QED BY <3>1 DEF Golden!Process
  <2>5. CASE /\ st = "INTERNAL" /\ rem = 0 /\ c.type = "ADD" /\ FieldsOK(c)
             /\ Room(b) /\ (Known(b, c) \/ WindowFull)
    <3>1. Golden!Cardinality(Golden!Places(b)) < MaxOrders - 1
      BY <1>3, <2>5 DEF Room, W, Cap
    <3>2. Golden!AddRefused(c)
      BY <1>6, <2>2, <2>5, <3>1 DEF FieldsOK, Golden!AddRefused, b
    <3> QED BY <3>2 DEF Golden!Process
  <2>6. CASE st = "NOT_LIVE" /\ rem = 0 /\ c.type # "ADD" /\ FieldsOK(c) /\ ~Known(b, c)
    <3>1. Golden!NotLive(c)
      BY <1>6, <2>2, <2>6 DEF FieldsOK, Golden!NotLive, b
    <3> QED BY <3>1 DEF Golden!Process
  <2>7. CASE /\ st = "BAD_FIELD" /\ c.type = "EXECUTE"
             /\ \E o \in Listed(b) : o.id = c.id /\ rem = o.qty /\ (c.qty = 0 \/ c.qty > o.qty)
    <3>1. PICK o \in W : o.id = c.id /\ rem = o.qty /\ (c.qty = 0 \/ c.qty > o.qty)
      BY <2>7 DEF W
    <3>2. Golden!Remaining(b, c.id) = rem /\ c.id \in Golden!Live(b)
      BY <1>3, <1>4, <3>1
    <3>3. Golden!ExecuteBad(c)
      BY <2>2, <2>7, <3>1, <3>2 DEF Golden!ExecuteBad, b
    <3> QED BY <3>3 DEF Golden!Process
  <2> QED BY <1>7, <2>3, <2>4, <2>5, <2>6, <2>7 DEF RefusedAs
<1>8. ASSUME st = "OK", MatchedAs(b, c, rem, T, E) PROVE Golden!Process(c)
  <2> DEFINE m == Golden!Match(Start(b, c))
  <2>1. m.trades = T /\ Lists(m.book, E)
    BY <1>8 DEF MatchedAs, Leaves
  <2>2. Golden!Remaining(m.book, c.id) = rem
    BY <1>8, <2>1, OrdersListed DEF MatchedAs, Left
  <2>3. m.book = B
    BY <1>5, <2>1
  <2> HIDE DEF m
  <2>4. Golden!Answer(c, "OK", Golden!Remaining(m.book, c.id), m.trades, m.book)
    BY <1>1, <1>8, <2>1, <2>2, <2>3
  <2>5. CASE Addable(b, c)
    <3>1. m = Golden!Match(Golden!Insert(b, c.side, c.price, Golden!Order(c.id, c.qty, c.ts)))
      BY <2>5 DEF m, Start, Addable
    <3>2. Golden!Cardinality(Golden!Places(b)) < MaxOrders - 1 /\ c.id \notin Golden!Live(b)
      BY <1>3, <1>6, <2>5 DEF Addable, Room, W, Cap
    <3>3. Golden!Add(c)
      BY <2>4, <2>5, <3>1, <3>2 DEF Addable, FieldsOK, Golden!Add, b
    <3> QED BY <3>3 DEF Golden!Process
  <2>6. CASE Movable(b, c)
    <3>1. PICK o \in W : o.id = c.id /\ o.price # c.price
      BY <2>6 DEF Movable, W
    <3> DEFINE k == Golden!PlaceOf(b, c.id)
    <3>2. Stands(b, o, k) /\ c.id \in Golden!Live(b)
      BY <1>3, <1>4, <3>1
    <3>3. c.price # k[2]
      BY <3>1, <3>2 DEF Stands
    <3>4. m = Golden!Match(Golden!Insert(Golden!Without(b, k), k[1], c.price,
                                         Golden!Order(c.id, c.qty, c.ts)))
      BY <2>6 DEF m, Start, Movable
    <3>5. Golden!ModifyPrice(c)
      BY <2>4, <2>6, <3>2, <3>3, <3>4 DEF Movable, FieldsOK, Golden!ModifyPrice, b
    <3> QED BY <3>5 DEF Golden!Process
  <2> QED BY <1>8, <2>5, <2>6 DEF MatchedAs, Linkable
<1>9. ASSUME st = "OK", NEW o \in W, o.id = c.id, AppliedAs(b, c, o, rem, T, E)
      PROVE  Golden!Process(c)
  <2> DEFINE k == Golden!PlaceOf(b, c.id)
  <2>1. Stands(b, o, k) /\ c.id \in Golden!Live(b) /\ Golden!OrderAt(b, k) = Strip(o)
    BY <1>3, <1>4, <1>9
  <2>2. k[1] = o.side /\ k[2] = o.price
    BY <2>1 DEF Stands
  <2>3. o \in OrderSet
    BY <1>2
  <2> HIDE DEF k
  <2>4. CASE c.type = "CANCEL" /\ rem = 0 /\ T = <<>> /\ E = Listed(b) \ {o}
    <3>1. Golden!Without(b, k) = B
      BY <1>2, <1>5, <2>1, <2>4, ListsWithout DEF W
    <3>2. Golden!Answer(c, "OK", 0, <<>>, Golden!Without(b, k))
      BY <1>1, <1>9, <2>4, <3>1
    <3>3. Golden!Cancel(c)
      BY <2>1, <2>4, <3>2 DEF Golden!Cancel, b, k
    <3> QED BY <3>3 DEF Golden!Process
  <2>5. CASE /\ c.type = "MODIFY" /\ FieldsOK(c) /\ o.price = c.price /\ rem = c.qty /\ T = <<>>
             /\ E = (Listed(b) \ {o}) \union {[o EXCEPT !.qty = c.qty]}
    <3> DEFINE R == [b EXCEPT ![k[1]][k[2]][k[3]].qty = c.qty]
    <3>1. c.qty \in Nat \ {0}
      BY <2>5, FieldsGood
    <3>2. R = B
      BY <1>2, <1>5, <2>1, <2>5, <3>1, ListsResized DEF W
    <3>3. Golden!Answer(c, "OK", c.qty, <<>>, R)
      BY <1>1, <1>9, <2>5, <3>2
    <3>4. Golden!ModifyQty(c)
      BY <2>1, <2>2, <2>5, <3>3 DEF Golden!ModifyQty, FieldsOK, b, k
    <3> QED BY <3>4 DEF Golden!Process
  <2>6. CASE /\ c.type = "EXECUTE" /\ c.qty \in 1 .. o.qty /\ rem = o.qty - c.qty
             /\ T = <<FillOf(o, c)>> /\ E = Reduced(Listed(b), o, c.qty)
    <3>1. Golden!Reduce(b, k, c.qty) = B
      BY <1>2, <1>5, <2>1, <2>6, ListsReduce DEF W, Reduced
    <3>2. Golden!OrderAt(b, k).qty = o.qty
      BY <2>1 DEF Strip
    <3>3. T = <<[buy  |-> IF k[1] = "BUY" THEN c.id ELSE NoId,
                 sell |-> IF k[1] = "SELL" THEN c.id ELSE NoId,
                 price |-> k[2], qty |-> c.qty, ts |-> c.ts]>>
      BY <1>9, <2>2, <2>6 DEF FillOf
    <3>4. Golden!Answer(c, "OK", Golden!OrderAt(b, k).qty - c.qty, T,
                        Golden!Reduce(b, k, c.qty))
      BY <1>1, <1>9, <2>6, <3>1, <3>2
    <3>5. Golden!Execute(c)
      BY <2>1, <2>6, <3>2, <3>3, <3>4 DEF Golden!Execute, b, k
    <3> QED BY <3>5 DEF Golden!Process
  <2> QED BY <1>9, <2>4, <2>5, <2>6 DEF AppliedAs
<1>10. \/ RefusedAs(b, c, st, rem) /\ Unchanged(b, T, E)
       \/ st = "OK" /\ MatchedAs(b, c, rem, T, E)
       \/ st = "OK" /\ \E o \in W : o.id = c.id /\ AppliedAs(b, c, o, rem, T, E)
  BY DEF Outcome, b, W, T
<1> QED BY <1>7, <1>8, <1>9, <1>10

-----------------------------------------------------------------------------
(* The orders through each step of the engine.                               *)

\* The same slots showing the same.
LEMMA BookStays ==
    ASSUME Resting' = Resting, \A x \in Resting : Shape(pool'[x]) = Shape(pool[x])
    PROVE  Book' = Book
  BY DEF Book

\* Another link shows nothing.
LEMMA LinksHidden ==
    ASSUME NEW p \in Pools, NEW q, NEW x, NEW y \in Slot, NEW v,
           \/ q = [p EXCEPT ![x] = [p[x] EXCEPT !.next = v]]
           \/ q = [p EXCEPT ![x] = [p[x] EXCEPT !.prev = v]]
    PROVE  Shape(q[y]) = Shape(p[y])
<1>1. p[y] \in OrderRec
  BY DEF Pools
<1>2. Shape([p[y] EXCEPT !.next = v]) = Shape(p[y])
  BY <1>1 DEF Shape, OrderRec
<1>3. Shape([p[y] EXCEPT !.prev = v]) = Shape(p[y])
  BY <1>1 DEF Shape, OrderRec
<1>4. /\ [p EXCEPT ![x] = [p[x] EXCEPT !.next = v]][y]
           = IF y = x THEN [p[y] EXCEPT !.next = v] ELSE p[y]
      /\ [p EXCEPT ![x] = [p[x] EXCEPT !.prev = v]][y]
           = IF y = x THEN [p[y] EXCEPT !.prev = v] ELSE p[y]
  BY DEF Pools
<1> QED BY <1>2, <1>3, <1>4

\* The manager's steps that neither link nor unlink nor resize an order.
LEMMA ManagerShowsSame ==
    ASSUME Sound, UNCHANGED <<matVars, ctlVars>>,
           \/ LookupMiss \/ LookupHit \/ LatchQuery \/ LatchReject
           \/ LatchOrder \/ CanBegin \/ ExTrade \/ MgrAck \/ LvlRead \/ EnqDone
           \/ SpWrNext2 \/ DelHash \/ DelCommit
           \/ EnqGetSlot \/ EnqHashHit \/ EnqHashMiss \/ EnqRollback
           \/ ReLvl \/ TailLink
    PROVE  Book' = Book
<1>1. mgr # "IDLE"
  BY ManagerSteps DEF MgrStep
<1>2. Resting = Mapped \ InHand /\ Resting' = Mapped' \ InHand' /\ ManagerLatches
      /\ pool \in Pools /\ Resting \subseteq Slot
  BY <1>1, ManagerRests, ManagerLeaves, Facts DEF Slots
<1>3. CASE \/ LookupMiss \/ LookupHit \/ LatchQuery \/ LatchReject
           \/ LatchOrder \/ CanBegin \/ ExTrade \/ MgrAck
  <2>1. /\ mgr \in {"LU", "LATCH", "CAN_BEGIN", "EX_TRADE", "ACK"}
        /\ mgr' \in {"IDLE", "LATCH", "MOD_QTY_WR", "EX_PARTIAL", "CAN_BEGIN",
                     "SP_WR_NEXT", "ACK"}
    BY <1>3 DEF LookupMiss, LookupHit, LatchQuery, LatchReject, LatchOrder, CanBegin,
                ExTrade, MgrAck, Finish, Goto
  <2>2. InHand = {} /\ InHand' = {}
    BY <2>1 DEF InHand, Deleting, Linking
  <2>3. ids' = ids /\ pool' = pool
    BY <1>3 DEF LookupMiss, LookupHit, LatchQuery, LatchReject, LatchOrder, CanBegin,
                ExTrade, MgrAck, memVars
  <2>4. Mapped' = Mapped
    BY <2>3 DEF Mapped
  <2> QED BY <1>2, <2>2, <2>3, <2>4, BookStays
<1>4. CASE LvlRead \/ EnqHashMiss \/ EnqDone
  <2>1. CASE EnqDone
    BY <2>1, <1>2, BookStays DEF EnqDone, Finish, InHand, Deleting, Linking, Mapped, memVars
  <2>2. CASE EnqHashMiss
    BY <2>2, <1>2, BookStays DEF EnqHashMiss, Goto, InHand, Deleting, Linking, Mapped, memVars
  <2>3. CASE LvlRead
    <3>1. mr.op \in {"ENQ", "MODIFY"} /\ mr \in MgrRegs /\ mgr = "LVL_READ"
      BY <2>3, LinkFacts DEF LvlRead, Linking
    <3>2. mr'.slot = mr.slot /\ mgr' \in Linking
      BY <2>3, <3>1 DEF LvlRead, Linking, MgrRegs
    <3> QED BY <2>3, <1>2, <3>1, <3>2, BookStays
            DEF LvlRead, InHand, Deleting, Linking, Mapped, memVars
  <2> QED BY <1>4, <2>1, <2>2, <2>3
<1>5. CASE SpWrNext2
  <2>1. /\ mgr = "SP_WR_NEXT2" /\ mgr' \in {"RE_LVL", "DEL_HASH"} /\ mr' = mr /\ ids' = ids
    BY <1>5 DEF SpWrNext2, Goto, AfterSplice
  <2>2. Resting' = Resting
    BY <1>2, <2>1 DEF InHand, Deleting, Mapped
  <2>3. CASE mr.order.next = NULL
    BY <1>5, <2>2, <2>3, BookStays DEF SpWrNext2
  <2>4. CASE mr.order.next # NULL
    <3> DEFINE y == mr.order.next
    <3>1. mr.next = pool[y]
      BY <1>2, <2>1, <2>4 DEF ManagerLatches
    <3>2. pool' = [pool EXCEPT ![y] = [pool[y] EXCEPT !.prev = mr.order.prev]]
      BY <1>5, <2>4, <3>1 DEF SpWrNext2, Mem!Write
    <3>3. \A x \in Resting : Shape(pool'[x]) = Shape(pool[x])
      BY <1>2, <3>2, LinksHidden
    <3> QED BY <2>2, <3>3, BookStays
  <2> QED BY <2>3, <2>4
<1>6. CASE DelHash
  <2>1. /\ mgr = "DEL_HASH" /\ mgr' = "DEL_COMMIT" /\ mr' = mr /\ pool' = pool
        /\ ids' = [i \in Ids |-> IF i = mr.order.id THEN NULL ELSE ids[i]]
    BY <1>6 DEF DelHash, Goto, memVars
  <2>2. mr.slot # NULL /\ ids[cmd.id] = mr.slot /\ mr.order.id = cmd.id /\ cmd.id \in Ids
    BY <2>1, ManagerRests DEF ManagerLatches, CmdRec
  <2>3. InHand = {mr.slot} /\ InHand' = {mr.slot}
    BY <2>1 DEF InHand, Deleting, Linking
  <2>4. \A i \in Ids : ids'[i] = IF i = cmd.id THEN NULL ELSE ids[i]
    BY <2>1, <2>2
  <2>5. \A i \in Ids : i # cmd.id => ids[i] # mr.slot
    BY <2>2, Facts
  <2>6. Mapped' = Mapped \ {mr.slot}
    BY <2>2, <2>4, <2>5 DEF Mapped
  <2> QED BY <1>2, <2>1, <2>3, <2>6, BookStays
<1>7. CASE DelCommit \/ EnqRollback
  <2>1. /\ mgr \in {"DEL_COMMIT", "ENQ_ROLLBACK"} /\ mgr' \in {"EX_TRADE", "ACK", "IDLE"}
        /\ pool' = pool /\ ids' = ids
    BY <1>7 DEF DelCommit, EnqRollback, Goto, Finish
  <2>2. mr.slot \notin Mapped /\ InHand = {mr.slot} /\ InHand' = {} /\ Mapped' = Mapped
    BY <1>2, <2>1 DEF ManagerLatches, InHand, Deleting, Linking, Mapped
  <2> QED BY <1>2, <2>1, <2>2, BookStays
<1>8. CASE EnqGetSlot
  <2>1. mgr = "ENQ_GET_SLOT" /\ pool' = pool /\ ids' = ids
    BY <1>8 DEF EnqGetSlot, Mem!Alloc
  <2>2. InHand = {} /\ Mapped' = Mapped
    BY <2>1 DEF InHand, Deleting, Linking, Mapped
  <2>3. InHand' \cap Mapped' = {}
    <3>1. CASE mgr' = "ENQ_HASH"
      <4>1. InHand' = {mr'.slot}
        BY <3>1 DEF InHand
      <4>2. mr'.slot \notin Mapped'
        BY <1>8, <3>1, SlotComes
      <4> QED BY <4>1, <4>2
    <3>2. CASE mgr' = "IDLE"
      BY <3>2 DEF InHand, Deleting, Linking
    <3> QED BY <1>8, <3>1, <3>2 DEF EnqGetSlot, Finish
  <2> QED BY <1>2, <2>1, <2>2, <2>3, BookStays
<1>9. CASE EnqHashHit
  <2>1. /\ mgr = "ENQ_HASH" /\ mgr' = "LVL_READ" /\ mr' = mr /\ pool' = pool
        /\ ids[cmd.id] = NULL /\ ids' = [ids EXCEPT ![cmd.id] = mr.slot]
    BY <1>9 DEF EnqHashHit, Goto, memVars
  <2>2. /\ InHand = {mr.slot} /\ InHand' = {mr.slot} /\ mr.slot # NULL /\ mr.slot \notin Mapped
        /\ cmd.id \in Ids /\ \A i \in Ids : ids[i] \in Slot
    BY <1>1, <1>2, <2>1, ManagerRests, Facts
       DEF ManagerLatches, InHand, Deleting, Linking, CmdRec
  <2>3. ids \in [Ids -> Slot]
    BY DEF Sound, IInv, TypeOK, MemoryTypeOK
  <2>4. \A i \in Ids : ids'[i] = IF i = cmd.id THEN mr.slot ELSE ids[i]
    BY <2>1, <2>3
  <2>5. Mapped' = Mapped \union {mr.slot}
    BY <2>1, <2>2, <2>4 DEF Mapped
  <2> QED BY <1>2, <2>1, <2>2, <2>5, BookStays
<1>10. CASE ReLvl
  <2>1. /\ mgr = "RE_LVL" /\ mgr' = "LVL_READ" /\ mr' = mr /\ ids' = ids
        /\ pool' = [pool EXCEPT ![mr.slot] = NewOrder(NULL)]
    BY <1>10 DEF ReLvl, Goto, Mem!Write
  <2>2. InHand = {mr.slot} /\ InHand' = {mr.slot} /\ Mapped' = Mapped
    BY <2>1 DEF InHand, Deleting, Linking, Mapped
  <2>3. \A x \in Resting : pool'[x] = pool[x]
    BY <1>2, <2>1, <2>2
  <2> QED BY <1>2, <2>2, <2>3, BookStays
<1>11. CASE TailLink
  <2>1. /\ mgr = "TAIL" /\ mgr' = "TAIL2" /\ mr' = mr /\ ids' = ids
        /\ pool' = [pool EXCEPT ![Target.tail] = [pool[Target.tail] EXCEPT !.next = mr.slot]]
    BY <1>11 DEF TailLink, Goto, Mem!Write
  <2>2. InHand = {mr.slot} /\ InHand' = {mr.slot} /\ Mapped' = Mapped
    BY <2>1 DEF InHand, Deleting, Linking, Mapped
  <2>3. \A x \in Resting : Shape(pool'[x]) = Shape(pool[x])
    BY <1>2, <2>1, LinksHidden
  <2> QED BY <1>2, <2>2, <2>3, BookStays
<1> QED BY <1>3, <1>4, <1>5, <1>6, <1>7, <1>8, <1>9, <1>10, <1>11

\* SP_WR_NEXT: the order leaves.
LEMMA SpliceShows ==
    ASSUME Sound, UNCHANGED <<matVars, ctlVars>>, SpWrNext
    PROVE  /\ mr.slot \in Resting /\ mr.order = pool[mr.slot] /\ mr.order.id = cmd.id
           /\ Shape(mr.order) \in Book
           /\ Book' = Book \ {Shape(mr.order)}
<1>1. mgr = "SP_WR_NEXT"
  BY DEF SpWrNext
<1>2. /\ mr.slot # NULL /\ ids[cmd.id] = mr.slot /\ mr.order = pool[mr.slot]
      /\ mr.prev = pool[mr.order.prev] /\ cmd.id \in Ids
      /\ pool \in Pools /\ Resting \subseteq Slot /\ Resting = Mapped \ InHand
  BY <1>1, ManagerRests, Facts DEF ManagerLatches, CmdRec, Slots
<1>3. mr.slot \in Resting
  BY <1>1, <1>2 DEF InHand, Deleting, Linking, Mapped
<1>4. mr.order.id = cmd.id
  BY <1>2, <1>3, Facts
<1>5. Resting' = Resting \ {mr.slot}
  BY SpliceUnlinks
<1>6. \A x \in Resting : Shape(pool'[x]) = Shape(pool[x])
  <2>1. CASE mr.order.prev = NULL
    BY <2>1 DEF SpWrNext
  <2>2. CASE mr.order.prev # NULL
    <3> DEFINE w == mr.order.prev
    <3>1. pool' = [pool EXCEPT ![w] = [pool[w] EXCEPT !.next = mr.order.next]]
      BY <1>2, <2>2 DEF SpWrNext, Mem!Write
    <3> QED BY <1>2, <3>1, LinksHidden
  <2> QED BY <2>1, <2>2
<1>7. Book' = Book \ {Shape(mr.order)}
  <2>1. \A x \in Resting : Shape(pool[x]) = Shape(mr.order) => x = mr.slot
    BY <1>2, <1>3, BookIds
  <2> QED BY <1>2, <1>3, <1>5, <1>6, <2>1 DEF Book
<1> QED BY <1>2, <1>3, <1>4, <1>7, RestingOrder

\* MOD_QTY_WR, EX_PARTIAL: the order gets another quantity.
LEMMA RequantifyShows ==
    ASSUME Sound, UNCHANGED <<matVars, ctlVars>>,
           mgr \in {"MOD_QTY_WR", "EX_PARTIAL"}, mgr' \in {"ACK", "EX_TRADE"},
           NEW n, NEW total, Requantify(n, total)
    PROVE  /\ mr.slot \in Resting /\ mr.order = pool[mr.slot] /\ mr.order.id = cmd.id
           /\ Shape(mr.order) \in Book
           /\ Book' = (Book \ {Shape(mr.order)})
                        \union {[Shape(mr.order) EXCEPT !.qty = n]}
<1>1. /\ mr.slot # NULL /\ ids[cmd.id] = mr.slot /\ mr.order = pool[mr.slot] /\ cmd.id \in Ids
      /\ pool \in Pools /\ Resting \subseteq Slot /\ Resting = Mapped \ InHand
      /\ Resting' = Mapped' \ InHand'
  BY ManagerRests, ManagerLeaves, Facts DEF ManagerLatches, CmdRec, Slots
<1>2. mr.slot \in Resting
  BY <1>1 DEF InHand, Deleting, Linking, Mapped
<1>3. mr.order.id = cmd.id
  BY <1>1, <1>2, Facts
<1>4. Resting' = Resting
  BY <1>1 DEF InHand, Deleting, Linking, Mapped, Requantify
<1>5. pool' = [pool EXCEPT ![mr.slot] = [mr.order EXCEPT !.qty = n]]
  BY DEF Requantify, Mem!Write
<1>6. Shape([mr.order EXCEPT !.qty = n]) = [Shape(mr.order) EXCEPT !.qty = n]
  <2>1. mr.order \in OrderRec
    BY <1>1, <1>2 DEF Pools
  <2> QED BY <2>1 DEF Shape, OrderRec
<1>7. /\ pool'[mr.slot] = [mr.order EXCEPT !.qty = n]
      /\ \A x \in Resting : x # mr.slot => pool'[x] = pool[x]
  BY <1>1, <1>2, <1>5 DEF Pools
<1>8. \A x \in Resting : Shape(pool[x]) = Shape(mr.order) => x = mr.slot
  BY <1>1, <1>2, BookIds
<1>9. Book' = (Book \ {Shape(mr.order)}) \union {Shape([mr.order EXCEPT !.qty = n])}
  BY <1>1, <1>2, <1>4, <1>7, <1>8 DEF Book
<1> QED BY <1>1, <1>2, <1>3, <1>6, <1>9, RestingOrder

\* ENQ_WR_EMPTY, RE_WR_EMPTY, ENQ_TAIL2, RE_TAIL2: the command's order joins.
LEMMA LinkShows ==
    ASSUME Sound, UNCHANGED <<matVars, ctlVars>>, WrEmpty \/ TailLink2
    PROVE  Book' = Book \union {OrderOf(cmd)}
<1>1. mgr \in Linking /\ mgr \in {"WR_EMPTY", "TAIL2"}
  BY DEF WrEmpty, TailLink2, Linking
<1>2. Resting' = Resting \union {mr.slot}
  BY FirstLinked, TailLinked
<1>3. mr.slot \in Slot \ {NULL} /\ Resting = Mapped \ {mr.slot} /\ ManagerLatches
      /\ mr.op \in {"ENQ", "MODIFY"} /\ pool \in Pools /\ Resting \subseteq Slot
  BY <1>1, LinkFacts, Facts DEF Slots
<1>4. \E w : pool' = [pool EXCEPT ![mr.slot] = NewOrder(w)] \/ (pool' = pool /\ pool[mr.slot] = NewOrder(w))
  <2>1. CASE WrEmpty
    <3>1. CASE mr.op = "ENQ"
      BY <2>1, <3>1 DEF WrEmpty, Mem!Write
    <3>2. CASE mr.op = "MODIFY"
      <4>1. mgr = "WR_EMPTY" /\ pool' = pool
        BY <2>1, <3>2 DEF WrEmpty
      <4>2. pool[mr.slot] = NewOrder(NULL)
        BY <1>3, <3>2, <4>1 DEF ManagerLatches
      <4> QED BY <4>1, <4>2
    <3> QED BY <1>3, <3>1, <3>2
  <2>2. CASE TailLink2
    BY <2>2 DEF TailLink2, Mem!Write
  <2> QED BY <2>1, <2>2
<1>5. PICK w : pool' = [pool EXCEPT ![mr.slot] = NewOrder(w)] \/ (pool' = pool /\ pool[mr.slot] = NewOrder(w))
  BY <1>4
<1>6. pool'[mr.slot] = NewOrder(w) /\ \A x \in Resting : pool'[x] = pool[x]
  BY <1>3, <1>5 DEF Pools
<1>7. Shape(NewOrder(w)) = OrderOf(cmd)
  BY DEF Shape, NewOrder, OrderOf
<1>8. Book' = Book \union {Shape(NewOrder(w))}
  BY <1>2, <1>6 DEF Book
<1> QED BY <1>7, <1>8

\* M_UPD_BID, M_UPD_ASK, F_UPDATE: the traded quantity is taken.
LEMMA ConsumeShows ==
    ASSUME Sound, UNCHANGED <<mgrVars, ctlVars>>, NEW s \in Side, Consumes(s)
    PROVE  /\ Shape(xr.order[s]) \in Book
           /\ xr.qty \in 1 .. xr.order[s].qty /\ xr.order[s].side = s
           /\ xr.order[s].price = BestOf(s)
           /\ Book' = Reduced(Book, Shape(xr.order[s]), xr.qty)
<1> DEFINE x == xr.level[s].head
           o == xr.order[s]
           q == xr.qty
<1>1. /\ mat # "M_IDLE" /\ Latched(s) /\ Consume(s) /\ Dropped = {}
      /\ Dropped' = IF Filled(s) THEN {x} ELSE {}
  BY ConsumingFacts
<1>2. /\ o = pool[x] /\ pool[x] \in OrderRec /\ x \in Resting /\ pool[x].side = s
      /\ pool[x].price = BestOf(s) /\ q \in Qty /\ q > 0 /\ q <= pool[x].qty
  BY <1>1, LatchedFacts
<1>3. /\ Resting = Mapped \ Dropped /\ Resting' = Mapped' \ Dropped' /\ Mapped' = Mapped
      /\ pool \in Pools /\ Resting \subseteq Slot
  BY <1>1, MatcherRests, MatcherLeaves, Facts DEF Consume, Mapped, Slots
<1>4. q \in 1 .. o.qty /\ o.qty \in Qty /\ o.qty \in Nat /\ q \in Nat
  BY <1>2, QtyAssumption DEF Qty, OrderRec
<1>5. \A y \in Resting : Shape(pool[y]) = Shape(o) => y = x
  BY <1>2, BookIds
<1>6. Shape(o).qty = o.qty
  BY ShapeFields
<1>7. CASE q = o.qty
  <2>1. Filled(s) /\ pool' = pool
    BY <1>1, <1>7 DEF Filled, Consume
  <2>2. Resting' = Resting \ {x}
    BY <1>1, <1>3, <2>1
  <2> HIDE DEF x, o, q
  <2>3. Book' = Book \ {Shape(o)}
    BY <1>2, <1>5, <2>1, <2>2 DEF Book
  <2>4. Reduced(Book, Shape(o), q) = Book \ {Shape(o)}
    BY <1>6, <1>7 DEF Reduced, Rest
  <2> QED BY <1>2, <1>4, <2>3, <2>4, RestingOrder DEF x, o, q
<1>8. CASE q # o.qty
  <2>1. pool' = [pool EXCEPT ![x] = [o EXCEPT !.qty = QtyMinus(o.qty, q)]] /\ ~Filled(s)
    BY <1>1, <1>8 DEF Filled, Consume, Mem!Write
  <2>2. QtyMinus(o.qty, q) = o.qty - q
    BY <1>4, QtyAssumption DEF QtyMinus, Qty
  <2>3. Resting' = Resting
    BY <1>1, <1>3, <2>1
  <2>4. Shape([o EXCEPT !.qty = o.qty - q]) = [Shape(o) EXCEPT !.qty = o.qty - q]
    BY <1>2 DEF Shape, OrderRec
  <2>5. pool'[x] = [o EXCEPT !.qty = o.qty - q] /\ \A y \in Resting : y # x => pool'[y] = pool[y]
    BY <1>2, <1>3, <2>1, <2>2 DEF Pools
  <2> HIDE DEF x, o, q
  <2>6. Book' = (Book \ {Shape(o)}) \union {Shape([o EXCEPT !.qty = o.qty - q])}
    BY <1>2, <1>5, <2>3, <2>5 DEF Book
  <2>7. Reduced(Book, Shape(o), q) = (Book \ {Shape(o)}) \union {[Shape(o) EXCEPT !.qty = o.qty - q]}
    BY <1>6, <1>8 DEF Reduced, Rest
  <2> QED BY <1>2, <1>4, <2>4, <2>6, <2>7, RestingOrder DEF x, o, q
<1> QED BY <1>7, <1>8

\* The matcher's other steps.
LEMMA MatcherShowsSame ==
    ASSUME Sound, UNCHANGED <<mgrVars, ctlVars>>,
           \/ MCheck \/ MTrade \/ FCheck \/ FTrade \/ MDone
           \/ \E s \in Side : Forgets(s)
    PROVE  Book' = Book
<1>1. mat # "M_IDLE"
  BY ForgettingFacts DEF MCheck, MTrade, FCheck, FTrade, MDone
<1>2. Resting = Mapped \ Dropped /\ Resting' = Mapped' \ Dropped'
  BY <1>1, MatcherRests, MatcherLeaves
<1>3. CASE MCheck \/ MTrade \/ FCheck \/ FTrade \/ MDone
  <2>1. pool' = pool /\ ids' = ids
    BY <1>3 DEF MCheck, MTrade, FCheck, FTrade, MDone, memVars
  <2>2. Dropped = {} /\ Dropped' = {}
    BY <1>3 DEF MCheck, MTrade, FCheck, FTrade, MDone, MatGoto, Dropped, Unmapping
  <2> QED BY <1>2, <2>1, <2>2, BookStays DEF Mapped
<1>4. ASSUME NEW s \in Side, Forgets(s) PROVE Book' = Book
  <2>1. DropMapping(s) /\ Unmapping(s) /\ Dropped = {xr.level[s].head} /\ Dropped' = {}
    BY <1>4, ForgettingFacts
  <2> DEFINE i == xr.order[s].id
             x == xr.level[s].head
  <2>2. i \in Ids /\ ids[i] = x /\ x # NULL
    BY <1>1, <2>1, MatcherRests DEF MatcherLatches
  <2>3. pool' = pool /\ \A j \in Ids : ids'[j] = IF j = i THEN NULL ELSE ids[j]
    BY <2>1 DEF DropMapping, memVars
  <2>4. \A j \in Ids : j # i => ids[j] # x
    BY <2>2, Facts
  <2> HIDE DEF i, x
  <2>5. Mapped' = Mapped \ {x}
    BY <2>2, <2>3, <2>4 DEF Mapped
  <2> QED BY <1>2, <2>1, <2>3, <2>5, BookStays DEF x
<1> QED BY <1>3, <1>4

\* Nobody else touches an order.
LEMMA OthersShowSame ==
    ASSUME Sound, CtlStep \/ (\E c \in Command : Accept(c)) \/ Background
    PROVE  Book' = Book
<1>1. CASE CtlStep
  <2>1. /\ AtRest /\ mgr' \in {"IDLE", "LU", "ENQ_GET_SLOT"}
        /\ mat' \in {"M_IDLE", "M_CHECK", "F_CHECK"}
    BY <1>1, ControllerStarts DEF Sound
  <2>2. Resting = Mapped /\ Resting' = Mapped'
    BY <2>1, RestsWhenIdle, RestsWhenIdleNext DEF AtRest
  <2>3. pool' = pool /\ ids' = ids
    BY <1>1, ControllerKeepsBook DEF memVars
  <2> QED BY <2>2, <2>3, BookStays DEF Mapped
<1>2. CASE \E c \in Command : Accept(c)
  <2>1. PICK c \in Command : Accept(c)
    BY <1>2
  <2>2. pool' = pool /\ ids' = ids /\ UNCHANGED <<mgr, mat>> /\ ctl = "C_IDLE"
    BY <2>1 DEF Accept, memVars, NoStart, mgrVars, matVars
  <2>3. AtRest
    BY <2>2 DEF Sound, IInv, OneAtATime, Waiting
  <2>4. Resting = Mapped /\ Resting' = Mapped'
    BY <2>2, <2>3, RestsWhenIdle, RestsWhenIdleNext DEF AtRest
  <2> QED BY <2>2, <2>4, BookStays DEF Mapped
<1>3. CASE Background
  <2>1. pool' = pool /\ UNCHANGED Others
    BY <1>3 DEF Background, MemInit, EncoderInit, Scan, Mem!InitEdge, memVars
  <2>2. UNCHANGED <<Resting, InHand, View, Mapped>>
    BY <2>1, OthersKeepCarried
  <2> QED BY <2>1, <2>2, BookStays
<1> QED BY <1>1, <1>2, <1>3

-----------------------------------------------------------------------------
(* What the engine has done of a command.                                    *)

\* What the theorem below asks of host and table: one actor owns an id, price 0 is
\* not sent (the engine has no test for it, the reference rejects it), a MODIFY names
\* the side its order is on, and on the fast path no ADD repeats a resting id or
\* finds its hash window full (its trades would already have been reported).
GoldenScope ==
    /\ ScopeOfBook /\ 0 \notin HostPrices /\ ~ForeignSideModify
    /\ FastPathEnable => ~DuplicateAdds /\ ~WindowFull

\* Nothing yet.
Untouched(b, c, w, T, E) == w = c /\ T = <<>> /\ E = Listed(b)

\* It has traded T, and what the register w holds of it is not in the book yet;
Arriving(b, c, w, T, E) == Linkable(b, c) /\ At(Start(b, c), T, E \union {OrderOf(w)})

\* it is;
Entered(b, c, T, E) == Linkable(b, c) /\ At(Start(b, c), T, E)

\* nothing crosses any more.
Finished(b, c, T, E) == Linkable(b, c) /\ Leaves(Start(b, c), T, E)

\* An ADD, with or without a fast path before it.
Entering(b, c, w, T, E) ==
    /\ c.type = "ADD" /\ FieldsOK(c)
    /\ Untouched(b, c, w, T, E) \/ (FastPathEnable /\ Arriving(b, c, w, T, E))

\* An ADD whose id finds no place.
Refusing(b, c, w, T, E) == Untouched(b, c, w, T, E) /\ RefusedAs(b, c, "INTERNAL", 0)

\* Another command that has changed nothing.
Looking(b, c, w, T, E) == Untouched(b, c, w, T, E) /\ FieldsOK(c)

\* An external fill of the order o that has still to be reported.
Filling(b, c, w, o, T, E) ==
    /\ w = c /\ T = <<>> /\ c.qty <= o.qty
    /\ Outcome(b, c, "OK", o.qty - c.qty, <<FillOf(o, c)>>, E)

\* What is left of an ADD on the fast path.
Unfilled(c, r) == IF r = 0 THEN {} ELSE {[OrderOf(c) EXCEPT !.qty = r]}

FastAt(b, c, w, T, E, r) ==
    /\ Addable(b, c) /\ FastPathEnable /\ w = c /\ \A o \in E : o.id # c.id
    /\ At(Start(b, c), T, E \union Unfilled(c, r))

-----------------------------------------------------------------------------
\* Between commands everything was shown.
Resumes == ctl = "C_IDLE" => shown = Shown /\ in.ts = sent

\* The command at work, the register that holds it, and the book it came to.
Working ==
    ctl # "C_IDLE" =>
      /\ in \in AllCommands /\ in.ts = sent /\ shown.cmd.ts + 1 = sent
      /\ cmd = [in EXCEPT !.qty = cmd.qty]
      /\ Standing(shown.book) /\ \A o \in Listed(shown.book) : o.ts < in.ts
      /\ \A o \in Listed(shown.book) : o.id = in.id =>
           /\ in.type = "MODIFY" => o.side = in.side
           /\ FastPathEnable => in.type # "ADD"

\* The controller.
ControllerServes ==
    /\ ctl = "C_VALIDATE" => Untouched(shown.book, in, cmd, trades, Book)
    /\ ctl \in {"C_SETTLE", "C_ACK"} =>
         /\ Outcome(shown.book, in, ack.status, ack.rem, trades, Book)
         /\ ack.id = in.id

Removing == {"SP_WR_NEXT2"} \union Deleting

\* The manager.
ManagerServing ==
    /\ mgr \in {"LU", "LATCH"} /\ mr.op = "QUERY" => Finished(shown.book, in, trades, Book)
    /\ mgr \in {"LU", "LATCH", "CAN_BEGIN", "SP_WR_NEXT", "MOD_QTY_WR", "EX_PARTIAL"}
         /\ mr.op # "QUERY" => Looking(shown.book, in, cmd, trades, Book)
    /\ mgr \in {"CAN_BEGIN", "SP_WR_NEXT"} =>
         /\ mr.op = "MODIFY" => cmd.price # mr.order.price
         /\ mr.op = "EXECUTE" => cmd.qty = mr.order.qty
    /\ mgr = "MOD_QTY_WR" => cmd.price = mr.order.price
    /\ mgr = "ENQ_GET_SLOT" => Entering(shown.book, in, cmd, trades, Book)
    /\ mgr = "ENQ_HASH" => Entering(shown.book, in, cmd, trades, Book) /\ Room(shown.book)
    /\ mgr = "ENQ_ROLLBACK" => Refusing(shown.book, in, cmd, trades, Book)
    /\ mgr \in Linking \union {"RE_LVL"} \/ (mgr = "SP_WR_NEXT2" /\ mr.op = "MODIFY") =>
         Arriving(shown.book, in, cmd, trades, Book)
    /\ mgr = "ENQ_DONE" => Entered(shown.book, in, trades, Book)
    /\ mgr \in Removing /\ mr.op = "CANCEL" =>
         Outcome(shown.book, in, "OK", 0, trades, Book)
    /\ mgr \in Removing \union {"EX_TRADE"} /\ mr.op = "EXECUTE" =>
         Filling(shown.book, in, cmd, mr.order, trades, Book)
    /\ mgr = "ACK" =>
         /\ mr.op = "CANCEL" => Outcome(shown.book, in, "OK", 0, trades, Book)
         /\ mr.op = "MODIFY" => Outcome(shown.book, in, "OK", cmd.qty, trades, Book)
         /\ mr.op = "EXECUTE" =>
              /\ cmd.qty <= mr.order.qty
              /\ Outcome(shown.book, in, "OK", mr.order.qty - cmd.qty, trades, Book)

\* The pulse.
PulseTells ==
    /\ resp.kind = "ack" => Outcome(shown.book, in, resp.status, resp.qty, trades, Book)
    /\ resp.kind = "enq" =>
         IF resp.status = "OK" THEN Entered(shown.book, in, trades, Book)
                               ELSE Outcome(shown.book, in, resp.status, 0, trades, Book)
    /\ resp.kind = "moved" => Entered(shown.book, in, trades, Book)
    /\ resp.kind = "query" => Outcome(shown.book, in, "OK", resp.qty, trades, Book)
    /\ resp.kind = "match" =>
         /\ ctl = "C_DRAIN" => Finished(shown.book, in, trades, Book)
         /\ ctl = "C_FAST" => FastAt(shown.book, in, cmd, trades, Book, resp.qty)

\* The matcher.
MatcherServing ==
    /\ mat \in {"M_CHECK", "M_TRADE", "M_HASH_ASK"} => Entered(shown.book, in, trades, Book)
    /\ mat = "M_TRADE" => Crossed
    /\ mat = "M_UPD_BID" =>
         LET x == Shape(xr.order["BUY"])
             y == Shape(xr.order["SELL"])
         IN  xr.qty = Lesser(x, y) /\ Entered(shown.book, in, trades, Traded(Book, x, y))
    /\ mat \in {"M_HASH_BID", "M_UPD_ASK"} =>
         Entered(shown.book, in, trades, Reduced(Book, Shape(xr.order["SELL"]), xr.qty))
    /\ mat = "M_DONE" =>
         /\ ctl = "C_DRAIN" => Finished(shown.book, in, trades, Book)
         /\ ctl = "C_FAST" => FastAt(shown.book, in, cmd, trades, Book, xr.rem)
    /\ mat \in {"F_CHECK", "F_TRADE", "F_HASH"} =>
         FastAt(shown.book, in, cmd, trades, Book, xr.rem)
    /\ mat = "F_TRADE" => FastCrosses
    /\ mat = "F_UPDATE" =>
         FastAt(shown.book, in, cmd, trades,
                Reduced(Book, Shape(xr.order[Passive]), xr.qty), xr.rem - xr.qty)

Follows ==
    Resumes /\ Working /\ ControllerServes /\ ManagerServing /\ PulseTells /\ MatcherServing

\* A step of the engine's own while a command is served.
Serving == ctl # "C_IDLE" /\ ctl' # "C_IDLE" /\ in' = in /\ shown' = shown

-----------------------------------------------------------------------------
\* What the register holds is the command, but for the quantity.
LEMMA CommandAtWork ==
    ASSUME Sound, Working, ctl # "C_IDLE"
    PROVE  /\ in \in AllCommands /\ in.side \in Side /\ in.id \in Ids /\ in.ts \in Nat
           /\ in.qty \in Nat /\ in.qty \in Qty /\ in.type \in MsgType
           /\ cmd.type = in.type /\ cmd.side = in.side /\ cmd.id = in.id
           /\ cmd.price = in.price /\ cmd.ts = in.ts
           /\ cmd \in CmdRec /\ cmd.qty \in Qty /\ cmd.qty \in Nat
           /\ OrderOf(cmd) = [OrderOf(in) EXCEPT !.qty = cmd.qty]
<1>1. in \in AllCommands /\ cmd = [in EXCEPT !.qty = cmd.qty]
  BY DEF Working
<1>2. /\ in.side \in Side /\ in.id \in Ids /\ in.ts \in Nat /\ in.qty \in Qty
      /\ in.type \in MsgType
  BY <1>1, BoundAssumption DEF AllCommands
<1>3. cmd \in CmdRec
  BY DEF Sound, IInv, ValidatedFirst
<1>4. cmd.qty \in Qty
  BY <1>3 DEF CmdRec
<1>5. cmd.qty \in Nat /\ in.qty \in Nat
  BY <1>2, <1>4, QtyAssumption DEF Qty
<1>6. /\ cmd.type = in.type /\ cmd.side = in.side /\ cmd.id = in.id
      /\ cmd.price = in.price /\ cmd.ts = in.ts
  BY <1>1 DEF AllCommands
<1>7. OrderOf(cmd) = [OrderOf(in) EXCEPT !.qty = cmd.qty]
  BY <1>6 DEF OrderOf
<1> QED BY <1>1, <1>2, <1>3, <1>4, <1>5, <1>6, <1>7

\* The order the manager has looked up.
LEMMA LookedUp ==
    ASSUME Sound, Working, ctl # "C_IDLE", NEW x, x # NULL, ids[cmd.id] = x, x \notin InHand,
           Dropped = {}
    PROVE  /\ x \in Resting /\ pool[x].id = in.id
           /\ Shape(pool[x]) \in Book /\ Shape(pool[x]).id = in.id
           /\ \A o \in Book : o.id = in.id => o = Shape(pool[x])
           /\ pool[x].qty \in Nat /\ pool[x].qty > 0 /\ pool[x].qty \in Qty
           /\ pool[x].side \in Side /\ pool[x].price \in Level
<1>1. cmd.id = in.id /\ in.id \in Ids
  BY CommandAtWork
<1>2. x \in Resting
  BY <1>1 DEF Resting, Mapped
<1>3. pool[x].id = in.id
  BY <1>1, <1>2, Facts
<1>4. \A o \in Book : o.id = in.id => o = Shape(pool[x])
  <2>1. \A y \in Resting : Shape(pool[y]).id = in.id => y = x
    BY <1>2, <1>3, BookIds, ShapeFields
  <2> QED BY <2>1 DEF Book
<1> QED BY <1>2, <1>3, <1>4, RestingOrder, ShapeFields

\* There is none.
LEMMA NotFound ==
    ASSUME Sound, Working, ctl # "C_IDLE", ids[cmd.id] = NULL
    PROVE  \A o \in Book : o.id # in.id
<1>1. cmd.id = in.id
  BY CommandAtWork
<1>2. \A x \in Resting : ids[Shape(pool[x]).id] = x /\ x # NULL
  BY RestingOrder, ShapeFields
<1> QED BY <1>1, <1>2 DEF Book

\* What goes on while the manager works.
LEMMA ManagerAtWorkFacts ==
    ASSUME Sound, mgr # "IDLE"
    PROVE  /\ ctl # "C_IDLE" /\ mat = "M_IDLE" /\ resp = NoResp /\ Dropped = {}
           /\ ctl \notin {"C_VALIDATE", "C_SETTLE", "C_ACK"}
           /\ mgr \in StatesOf(mr.op) /\ mr.op \in MgrOp /\ ManagerLatches
           /\ mr.op \notin {"ENQ", "QUERY"} => mr.op = cmd.type
           /\ mr \in MgrRegs
           /\ mgr \in {"ENQ_GET_SLOT", "ENQ_HASH", "ENQ_ROLLBACK", "ENQ_DONE"} => mr.op = "ENQ"
<1>1. ManagerAtWork /\ Waiting
  BY ManagerFacts DEF Sound
<1>2. /\ mat = "M_IDLE" /\ Dropped = {} /\ mr \in MgrRegs /\ mr.op \in MgrOp
      /\ mgr \in StatesOf(mr.op) /\ ManagerLatches
  BY ManagerRests
<1>3. /\ resp = NoResp /\ ctl # "C_IDLE" /\ ctl \notin {"C_VALIDATE", "C_SETTLE", "C_ACK"}
      /\ mr.op \notin {"ENQ", "QUERY"} => mr.op = cmd.type
  BY <1>1 DEF ManagerAtWork, Waiting
<1>4. mgr \in {"ENQ_GET_SLOT", "ENQ_HASH", "ENQ_ROLLBACK", "ENQ_DONE"} => mr.op = "ENQ"
  BY <1>2 DEF StatesOf, MgrOp, Splicing, Linking, Deleting
<1> QED BY <1>2, <1>3, <1>4

-----------------------------------------------------------------------------
(* The manager.                                                              *)

\* In the trade of a fill it does not matter where the order is linked.
LEMMA FillShows == \A o, c : FillOf(Shape(o), c) = FillOf(o, c)
  BY ShapeFields DEF FillOf

\* When the manager comes to rest there is only its pulse to tell of.
LEMMA ManagerEnds == mgr' = "IDLE" => ManagerServing'
  BY DEF ManagerServing, Linking, Removing, Deleting

\* While it works there is no pulse.
LEMMA NoPulse == resp' = NoResp => PulseTells'
  BY DEF PulseTells, NoResp

\* Looking the order up.
LEMMA LookupFollows ==
    ASSUME Sound, Follows, Serving, UNCHANGED <<matVars, ctlVars>>,
           LookupMiss \/ LookupHit \/ LatchQuery \/ LatchReject
    PROVE  ManagerServing' /\ PulseTells'
<1>1. mgr \in {"LU", "LATCH"} /\ mgr # "IDLE" /\ trades' = trades /\ ids' = ids /\ pool' = pool
  BY DEF LookupMiss, LookupHit, LatchQuery, LatchReject, memVars
<1>2. /\ ctl # "C_IDLE" /\ resp = NoResp /\ Dropped = {} /\ InHand = {} /\ ManagerLatches
      /\ mr.op \notin {"ENQ", "QUERY"} => mr.op = cmd.type
      /\ mr.op \in MgrOp /\ mr \in MgrRegs /\ mr.op # "ENQ"
  BY <1>1, ManagerAtWorkFacts DEF InHand, Deleting, Linking, StatesOf
<1>3. Working /\ ManagerServing
  BY DEF Follows
<1>4. Book' = Book /\ in' = in /\ shown' = shown /\ cmd' = cmd
  BY ManagerShowsSame DEF Serving, ctlVars
<1>5. mr.op = "QUERY" => Finished(shown.book, in, trades, Book)
  BY <1>1, <1>3 DEF ManagerServing
<1>6. mr.op # "QUERY" => Looking(shown.book, in, cmd, trades, Book)
  BY <1>1, <1>3 DEF ManagerServing
<1>7. CASE LookupHit
  <2>1. mgr' = "LATCH" /\ mr'.op = mr.op /\ resp' = resp
    BY <1>2, <1>7 DEF LookupHit, MgrRegs
  <2>2. ManagerServing'
    BY <1>1, <1>4, <1>5, <1>6, <2>1 DEF ManagerServing, Linking, Removing, Deleting
  <2> QED BY <1>2, <2>1, <2>2, NoPulse
<1>8. CASE LookupMiss
  <2>1. \A o \in Book : o.id # in.id
    BY <1>2, <1>3, <1>8, NotFound DEF LookupMiss
  <2>2. CASE mr.op = "QUERY"
    <3>1. mgr' = "IDLE" /\ resp' = QueryResp(0)
      BY <1>8, <2>2 DEF LookupMiss, Finish
    <3>2. Outcome(shown.book, in, "OK", 0, trades, Book)
      BY <1>5, <2>1, <2>2 DEF Outcome, MatchedAs, Finished, Left
    <3> QED BY <1>1, <1>4, <3>1, <3>2, ManagerEnds DEF PulseTells, QueryResp
  <2>3. CASE mr.op # "QUERY"
    <3>1. mgr' = "IDLE" /\ resp' = AckResp("NOT_LIVE", 0)
      BY <1>8, <2>3 DEF LookupMiss, Finish
    <3>2. in.type # "ADD"
      BY <1>2, <1>3, <2>3, CommandAtWork DEF MgrOp
    <3>3. FieldsOK(in) /\ trades = <<>> /\ Book = Listed(shown.book)
      BY <1>6, <2>3 DEF Looking, Untouched
    <3>4. Outcome(shown.book, in, "NOT_LIVE", 0, trades, Book)
      BY <2>1, <3>2, <3>3 DEF Outcome, RefusedAs, Unchanged, Known
    <3> QED BY <1>1, <1>4, <3>1, <3>4, ManagerEnds DEF PulseTells, AckResp
  <2> QED BY <2>2, <2>3
<1>9. CASE LatchQuery \/ LatchReject
  <2> DEFINE x == mr.slot
  <2>1. mgr = "LATCH" /\ x # NULL /\ ids[cmd.id] = x
    BY <1>2, <1>9 DEF LatchQuery, LatchReject, ManagerLatches
  <2>2. Shape(pool[x]) \in Book /\ Shape(pool[x]).id = in.id
    BY <1>2, <1>3, <2>1, LookedUp
  <2>3. Shape(pool[x]).qty = pool[x].qty
    BY ShapeFields
  <2>4. CASE LatchQuery
    <3>1. mgr' = "IDLE" /\ resp' = QueryResp(pool[x].qty) /\ mr.op = "QUERY"
      BY <2>4 DEF LatchQuery, Finish
    <3>2. Left(Book, in.id, pool[x].qty)
      BY <2>2, <2>3 DEF Left
    <3>3. Outcome(shown.book, in, "OK", pool[x].qty, trades, Book)
      BY <1>5, <3>1, <3>2 DEF Outcome, MatchedAs, Finished
    <3> QED BY <1>1, <1>4, <3>1, <3>3, ManagerEnds DEF PulseTells, QueryResp
  <2>5. CASE LatchReject
    <3>1. /\ mgr' = "IDLE" /\ resp' = AckResp("BAD_FIELD", pool[x].qty) /\ mr.op # "QUERY"
          /\ mr.op = "EXECUTE" /\ (cmd.qty = 0 \/ cmd.qty > pool[x].qty)
      BY <2>5 DEF LatchReject, Finish, Overfills
    <3>2. cmd = in /\ trades = <<>> /\ Book = Listed(shown.book)
      BY <1>6, <3>1 DEF Looking, Untouched
    <3>3. in.type = "EXECUTE"
      BY <1>2, <3>1, <3>2
    <3>4. Outcome(shown.book, in, "BAD_FIELD", pool[x].qty, trades, Book)
      BY <2>2, <2>3, <3>1, <3>2, <3>3 DEF Outcome, RefusedAs, Unchanged
    <3> QED BY <1>1, <1>4, <3>1, <3>4, ManagerEnds DEF PulseTells, AckResp
  <2> QED BY <1>9, <2>4, <2>5
<1> QED BY <1>7, <1>8, <1>9

\* Latching order and neighbours.
LEMMA LatchFollows ==
    ASSUME Sound, Follows, Serving, UNCHANGED <<matVars, ctlVars>>, LatchOrder \/ CanBegin
    PROVE  ManagerServing' /\ PulseTells'
<1>1. mgr \in {"LATCH", "CAN_BEGIN"} /\ mgr # "IDLE" /\ trades' = trades /\ resp' = resp
  BY DEF LatchOrder, CanBegin
<1>2. /\ resp = NoResp /\ mr \in MgrRegs
      /\ mgr = "CAN_BEGIN" => mr.op # "QUERY"
  BY <1>1, ManagerAtWorkFacts DEF StatesOf
<1>3. ManagerServing
  BY DEF Follows
<1>4. Book' = Book /\ in' = in /\ shown' = shown /\ cmd' = cmd
  BY ManagerShowsSame DEF Serving, ctlVars
<1>5. mr.op # "QUERY"
  BY <1>2 DEF LatchOrder, CanBegin
<1>6. Looking(shown.book, in, cmd, trades, Book)
  BY <1>1, <1>3, <1>5 DEF ManagerServing
<1>7. mr'.op = mr.op
  BY <1>2 DEF LatchOrder, CanBegin, MgrRegs
<1>8. CASE LatchOrder
  <2> DEFINE o == pool[mr.slot]
  <2>1. mr'.order = o
    BY <1>2, <1>8 DEF LatchOrder, MgrRegs
  <2>2. mgr' = IF mr.op = "MODIFY" /\ cmd.price = o.price THEN "MOD_QTY_WR"
               ELSE IF mr.op = "EXECUTE" /\ cmd.qty # o.qty THEN "EX_PARTIAL"
               ELSE "CAN_BEGIN"
    BY <1>8 DEF LatchOrder
  <2> HIDE DEF o
  <2>3. ManagerServing'
    BY <1>1, <1>4, <1>5, <1>6, <1>7, <2>1, <2>2
       DEF ManagerServing, Linking, Removing, Deleting
  <2> QED BY <1>1, <1>2, <2>3, NoPulse
<1>9. CASE CanBegin
  <2>1. mgr = "CAN_BEGIN" /\ mgr' = "SP_WR_NEXT" /\ mr'.order = mr.order
    BY <1>2, <1>9 DEF CanBegin, MgrRegs
  <2>2. ManagerServing'
    BY <1>1, <1>3, <1>4, <1>5, <1>6, <1>7, <2>1
       DEF ManagerServing, Linking, Removing, Deleting
  <2> QED BY <1>1, <1>2, <2>2, NoPulse
<1> QED BY <1>8, <1>9

\* The order leaves its level.
LEMMA SpliceFollows ==
    ASSUME Sound, Follows, Serving, UNCHANGED <<matVars, ctlVars>>, SpWrNext
    PROVE  ManagerServing' /\ PulseTells'
<1> DEFINE b == shown.book
           o == Shape(mr.order)
<1>1. mgr = "SP_WR_NEXT" /\ mgr' = "SP_WR_NEXT2" /\ mr' = mr /\ resp' = resp /\ trades' = trades
  BY DEF SpWrNext, Goto
<1>2. /\ resp = NoResp /\ ctl # "C_IDLE" /\ mr.op \in {"CANCEL", "MODIFY", "EXECUTE"}
      /\ mr.op = cmd.type
  BY <1>1, ManagerAtWorkFacts DEF StatesOf, MgrOp, Linking
<1>3. Working /\ ManagerServing
  BY DEF Follows
<1>4. in' = in /\ shown' = shown /\ cmd' = cmd
  BY DEF Serving, ctlVars
<1>5. Looking(b, in, cmd, trades, Book)
  BY <1>1, <1>2, <1>3 DEF ManagerServing
<1>6. cmd = in /\ trades = <<>> /\ Book = Listed(b) /\ FieldsOK(in)
  BY <1>5 DEF Looking, Untouched
<1>7. /\ mr.order.id = in.id /\ o \in Book /\ Book' = Book \ {o}
      /\ mr.slot \in Resting /\ mr.order = pool[mr.slot]
  BY <1>6, SpliceShows
<1>8. o.id = in.id /\ o.qty = mr.order.qty /\ o.price = mr.order.price
  BY <1>7, ShapeFields
<1> HIDE DEF o
<1>9. CASE mr.op = "CANCEL"
  <2>1. Outcome(b, in, "OK", 0, trades, Book')
    BY <1>2, <1>6, <1>7, <1>8, <1>9 DEF Outcome, AppliedAs
  <2> QED BY <1>1, <1>2, <1>4, <1>9, <2>1, NoPulse
          DEF ManagerServing, Linking, Removing, Deleting
<1>10. CASE mr.op = "EXECUTE"
  <2>1. in.qty = mr.order.qty
    BY <1>1, <1>3, <1>6, <1>10 DEF ManagerServing
  <2>2. in.qty \in 1 .. o.qty /\ o.qty - in.qty = 0 /\ in.qty <= mr.order.qty
    BY <1>7, <1>8, <2>1, RestingOrder
  <2>3. Book' = Reduced(Listed(b), o, in.qty)
    BY <1>6, <1>7, <1>8, <2>1 DEF Reduced, Rest
  <2>4. AppliedAs(b, in, o, mr.order.qty - in.qty, <<FillOf(o, in)>>, Book')
    BY <1>2, <1>6, <1>8, <1>10, <2>2, <2>3 DEF AppliedAs
  <2>5. FillOf(o, in) = FillOf(mr.order, in)
    BY FillShows DEF o
  <2>6. Outcome(b, in, "OK", mr.order.qty - in.qty, <<FillOf(mr.order, in)>>, Book')
    BY <1>6, <1>7, <1>8, <2>4, <2>5 DEF Outcome
  <2>7. Filling(b, in, cmd, mr.order, trades, Book')
    BY <1>6, <2>2, <2>6 DEF Filling
  <2> QED BY <1>1, <1>2, <1>4, <1>10, <2>7, NoPulse
          DEF ManagerServing, Linking, Removing, Deleting
<1>11. CASE mr.op = "MODIFY"
  <2>1. in.price # o.price
    BY <1>1, <1>3, <1>6, <1>8, <1>11 DEF ManagerServing
  <2>2. Linkable(b, in)
    BY <1>2, <1>6, <1>7, <1>8, <1>11, <2>1 DEF Linkable, Movable
  <2>3. /\ in \in AllCommands /\ Standing(b) /\ \A z \in Listed(b) : z.ts < in.ts
        /\ \A z \in Listed(b) : z.id = in.id => z.side = in.side
    BY <1>2, <1>3, <1>6, <1>11 DEF Working
  <2>4. At(Start(b, in), <<>>, {z \in Listed(b) : z.id # in.id} \union {OrderOf(in)})
    BY <2>2, <2>3, StartListed
  <2>5. \A z \in Book : z.id = in.id => z = o
    BY <1>7, <1>8, BookIds DEF Orders
  <2>6. {z \in Listed(b) : z.id # in.id} = Book'
    BY <1>6, <1>7, <1>8, <2>5
  <2>7. Arriving(b, in, cmd, trades, Book')
    BY <1>6, <2>2, <2>4, <2>6 DEF Arriving
  <2> QED BY <1>1, <1>2, <1>4, <1>11, <2>7, NoPulse
          DEF ManagerServing, Linking, Removing, Deleting
<1> QED BY <1>2, <1>9, <1>10, <1>11

\* Giving up or moving its slot, and the report.
LEMMA RemovalFollows ==
    ASSUME Sound, Follows, Serving, UNCHANGED <<matVars, ctlVars>>,
           SpWrNext2 \/ DelHash \/ DelCommit
    PROVE  ManagerServing' /\ PulseTells'
<1>1. /\ mgr \in Removing /\ mgr # "IDLE" /\ trades' = trades /\ resp' = resp /\ mr' = mr
  BY DEF SpWrNext2, DelHash, DelCommit, Goto, Removing, Deleting
<1>2. /\ resp = NoResp /\ mr.op \in {"CANCEL", "MODIFY", "EXECUTE"}
      /\ mr.op = "MODIFY" => mgr = "SP_WR_NEXT2"
  BY <1>1, ManagerAtWorkFacts DEF StatesOf, MgrOp, Removing, Deleting, Splicing, Linking
<1>3. ManagerServing
  BY DEF Follows
<1>4. Book' = Book /\ in' = in /\ shown' = shown /\ cmd' = cmd
  BY ManagerShowsSame DEF Serving, ctlVars
<1>5. \/ mr.op = "MODIFY" /\ mgr' = "RE_LVL"
      \/ mr.op = "EXECUTE" /\ mgr' \in Deleting \union {"EX_TRADE"}
      \/ mr.op = "CANCEL" /\ mgr' \in Deleting \union {"ACK"}
  BY <1>2 DEF SpWrNext2, DelHash, DelCommit, Goto, AfterSplice, Deleting
<1>6. CASE mr.op = "MODIFY"
  <2>1. Arriving(shown.book, in, cmd, trades, Book)
    BY <1>2, <1>3, <1>6 DEF ManagerServing
  <2>2. ManagerServing'
    BY <1>1, <1>4, <1>5, <1>6, <2>1 DEF ManagerServing, Linking, Removing, Deleting
  <2> QED BY <1>1, <1>2, <2>2, NoPulse
<1>7. CASE mr.op = "EXECUTE"
  <2>1. Filling(shown.book, in, cmd, mr.order, trades, Book)
    BY <1>1, <1>3, <1>7 DEF ManagerServing
  <2>2. ManagerServing'
    BY <1>1, <1>4, <1>5, <1>7, <2>1 DEF ManagerServing, Linking, Removing, Deleting
  <2> QED BY <1>1, <1>2, <2>2, NoPulse
<1>8. CASE mr.op = "CANCEL"
  <2>1. Outcome(shown.book, in, "OK", 0, trades, Book)
    BY <1>1, <1>3, <1>8 DEF ManagerServing
  <2>2. ManagerServing'
    BY <1>1, <1>4, <1>5, <1>8, <2>1 DEF ManagerServing, Linking, Removing, Deleting
  <2> QED BY <1>1, <1>2, <2>2, NoPulse
<1> QED BY <1>2, <1>6, <1>7, <1>8

\* The trade of a fill, and the answer.
LEMMA AnswerFollows ==
    ASSUME Sound, Follows, Serving, UNCHANGED <<matVars, ctlVars>>, ExTrade \/ MgrAck
    PROVE  ManagerServing' /\ PulseTells'
<1>1. mgr \in {"EX_TRADE", "ACK"} /\ mgr # "IDLE"
  BY DEF ExTrade, MgrAck
<1>2. /\ resp = NoResp /\ ctl # "C_IDLE" /\ mr.op \in {"CANCEL", "MODIFY", "EXECUTE"}
      /\ mgr = "EX_TRADE" => mr.op = "EXECUTE"
      /\ mr \in MgrRegs
  BY <1>1, ManagerAtWorkFacts DEF StatesOf, MgrOp, Splicing, Linking, Deleting
<1>3. ManagerServing /\ Working
  BY DEF Follows
<1>4. Book' = Book /\ in' = in /\ shown' = shown /\ cmd' = cmd
  BY ManagerShowsSame DEF Serving, ctlVars
<1>5. CASE ExTrade
  <2>1. mgr = "EX_TRADE" /\ mgr' = "ACK" /\ mr' = mr /\ resp' = resp /\ mr.op = "EXECUTE"
    BY <1>2, <1>5 DEF ExTrade, Goto
  <2>2. Filling(shown.book, in, cmd, mr.order, trades, Book)
    BY <1>3, <2>1 DEF ManagerServing
  <2>3. trades' = Append(trades, FillOf(mr.order, cmd))
    BY <1>5 DEF ExTrade, FillOf
  <2>4. /\ cmd = in /\ in.qty <= mr.order.qty
        /\ Outcome(shown.book, in, "OK", mr.order.qty - in.qty, <<FillOf(mr.order, in)>>, Book)
        /\ trades = <<>>
    BY <2>2 DEF Filling
  <2>5. trades' = <<FillOf(mr.order, in)>>
    BY <2>3, <2>4
  <2>6. ManagerServing'
    BY <1>4, <2>1, <2>4, <2>5 DEF ManagerServing, Linking, Removing, Deleting
  <2> QED BY <1>2, <2>1, <2>6, NoPulse
<1>6. CASE MgrAck
  <2> DEFINE r == CASE mr.op = "CANCEL"  -> 0
                    [] mr.op = "MODIFY"  -> cmd.qty
                    [] mr.op = "EXECUTE" -> QtyMinus(mr.order.qty, cmd.qty)
  <2>1. mgr = "ACK" /\ mgr' = "IDLE" /\ resp' = AckResp("OK", r) /\ trades' = trades
    BY <1>6 DEF MgrAck, Finish
  <2>2. mr.op = "EXECUTE" /\ cmd.qty <= mr.order.qty => r = mr.order.qty - cmd.qty
    <3>1. cmd.qty \in Nat
      BY <1>2, <1>3, CommandAtWork
    <3>2. mr.order.qty \in 0 .. MaxQty
      BY <1>2 DEF MgrRegs, OrderRec, Qty
    <3>3. cmd.qty <= mr.order.qty => (mr.order.qty - cmd.qty) % (MaxQty + 1) = mr.order.qty - cmd.qty
      BY <3>1, <3>2, QtyAssumption
    <3> QED BY <3>3 DEF QtyMinus
  <2>3. Outcome(shown.book, in, "OK", r, trades, Book)
    <3>1. CASE mr.op = "CANCEL"
      BY <1>3, <2>1, <3>1 DEF ManagerServing
    <3>2. CASE mr.op = "MODIFY"
      BY <1>3, <2>1, <3>2 DEF ManagerServing
    <3>3. CASE mr.op = "EXECUTE"
      <4>1. /\ cmd.qty <= mr.order.qty
            /\ Outcome(shown.book, in, "OK", mr.order.qty - cmd.qty, trades, Book)
        BY <1>3, <2>1, <3>3 DEF ManagerServing
      <4> QED BY <2>2, <3>3, <4>1
    <3> QED BY <1>2, <3>1, <3>2, <3>3
  <2> HIDE DEF r
  <2>4. resp'.kind = "ack" /\ resp'.status = "OK" /\ resp'.qty = r
    BY <2>1 DEF AckResp
  <2>5. PulseTells'
    BY <1>4, <2>1, <2>3, <2>4 DEF PulseTells
  <2> QED BY <2>1, <2>5, ManagerEnds
<1> QED BY <1>5, <1>6

\* Another quantity.
LEMMA RequantifyFollows ==
    ASSUME Sound, Follows, Serving, UNCHANGED <<matVars, ctlVars>>, ModQtyWr \/ ExPartial
    PROVE  ManagerServing' /\ PulseTells'
<1> DEFINE b == shown.book
           o == Shape(mr.order)
<1>1. /\ mgr \in {"MOD_QTY_WR", "EX_PARTIAL"} /\ mgr # "IDLE" /\ mr' = mr /\ resp' = resp
      /\ trades' = trades
  BY DEF ModQtyWr, ExPartial, Goto, Requantify
<1>2. /\ resp = NoResp /\ ctl # "C_IDLE" /\ mr.op # "QUERY" /\ mr.op = cmd.type
      /\ mgr = "MOD_QTY_WR" => mr.op = "MODIFY"
      /\ mgr = "EX_PARTIAL" => mr.op = "EXECUTE"
      /\ ManagerLatches
  BY <1>1, ManagerAtWorkFacts DEF StatesOf, MgrOp, Splicing, Linking, Deleting
<1>3. ManagerServing /\ Working
  BY DEF Follows
<1>4. in' = in /\ shown' = shown /\ cmd' = cmd
  BY DEF Serving, ctlVars
<1>5. Looking(b, in, cmd, trades, Book)
  BY <1>1, <1>2, <1>3 DEF ManagerServing
<1>6. cmd = in /\ trades = <<>> /\ Book = Listed(b) /\ FieldsOK(in) /\ in.qty \in Nat
  BY <1>2, <1>3, <1>5, CommandAtWork DEF Looking, Untouched
<1>7. CASE ModQtyWr
  <2>1. mgr = "MOD_QTY_WR" /\ mgr' = "ACK" /\ \E total : Requantify(cmd.qty, total)
    BY <1>7 DEF ModQtyWr, Goto
  <2>2. /\ mr.order.id = in.id /\ o \in Book
        /\ Book' = (Book \ {o}) \union {[o EXCEPT !.qty = in.qty]}
    BY <1>6, <2>1, RequantifyShows
  <2>3. o.id = in.id /\ o.price = mr.order.price
    BY <2>2, ShapeFields
  <2>4. o.price = in.price
    BY <1>3, <1>6, <2>1, <2>3 DEF ManagerServing
  <2> HIDE DEF o
  <2>5. AppliedAs(b, in, o, in.qty, trades, Book')
    BY <1>2, <1>6, <2>1, <2>2, <2>4 DEF AppliedAs
  <2>6. Outcome(b, in, "OK", cmd.qty, trades, Book')
    BY <1>6, <2>2, <2>3, <2>5 DEF Outcome
  <2>7. ManagerServing'
    BY <1>1, <1>2, <1>4, <2>1, <2>6 DEF ManagerServing, Linking, Removing, Deleting
  <2> QED BY <1>1, <1>2, <2>7, NoPulse
<1>8. CASE ExPartial
  <2> DEFINE n == QtyMinus(mr.order.qty, cmd.qty)
  <2>1. mgr = "EX_PARTIAL" /\ mgr' = "EX_TRADE" /\ \E total : Requantify(n, total)
    BY <1>8 DEF ExPartial, Goto
  <2>2. /\ mr.order.id = in.id /\ o \in Book /\ mr.slot \in Resting /\ mr.order = pool[mr.slot]
        /\ Book' = (Book \ {o}) \union {[o EXCEPT !.qty = n]}
    BY <1>6, <2>1, RequantifyShows
  <2>3. o.id = in.id /\ o.qty = mr.order.qty
    BY <2>2, ShapeFields
  <2>4. 0 < in.qty /\ in.qty < o.qty
    BY <1>2, <1>6, <2>1, <2>3 DEF ManagerLatches
  <2>5. o.qty \in Nat /\ o.qty \in 0 .. MaxQty
    BY <2>2, <2>3, RestingOrder DEF Qty
  <2>6. n = o.qty - in.qty
    <3>1. (o.qty - in.qty) % (MaxQty + 1) = o.qty - in.qty
      BY <1>6, <2>4, <2>5, QtyAssumption
    <3> QED BY <1>6, <2>3, <3>1 DEF QtyMinus
  <2> HIDE DEF o, n
  <2>7. Book' = Reduced(Listed(b), o, in.qty)
    <3>1. o.qty # in.qty
      BY <2>4, <2>5
    <3> QED BY <1>6, <2>2, <2>6, <3>1 DEF Reduced, Rest
  <2>8. in.qty \in 1 .. o.qty /\ in.qty <= o.qty
    BY <1>6, <2>4, <2>5
  <2>9. AppliedAs(b, in, o, o.qty - in.qty, <<FillOf(o, in)>>, Book')
    BY <1>2, <1>6, <2>1, <2>7, <2>8 DEF AppliedAs
  <2>10. FillOf(o, in) = FillOf(mr.order, in)
    BY FillShows DEF o
  <2>11. Outcome(b, in, "OK", mr.order.qty - in.qty, <<FillOf(mr.order, in)>>, Book')
    BY <1>6, <2>2, <2>3, <2>9, <2>10 DEF Outcome
  <2>12. Filling(b, in, cmd, mr.order, trades, Book')
    BY <1>6, <2>3, <2>8, <2>11 DEF Filling
  <2>13. ManagerServing'
    BY <1>1, <1>2, <1>4, <2>1, <2>12 DEF ManagerServing, Linking, Removing, Deleting
  <2> QED BY <1>1, <1>2, <2>13, NoPulse
<1> QED BY <1>7, <1>8

\* Free slots are the room that is left.
LEMMA RoomLeft ==
    ASSUME Sound, Mem!InitDone, mgr \in {"IDLE", "LU", "ENQ_GET_SLOT"}, mat = "M_IDLE"
    PROVE  /\ Mem!FreeEmpty => Cardinality(Book) = Cap
           /\ ~Mem!FreeEmpty => Cardinality(Book) < Cap
<1>1. Cardinality(Book) = MaxOrders - 1 - Len(free)
  BY HeightCounts, BookIds DEF Mem!NumOrders
<1>2. free \in Seq(Slot \ {NULL})
  BY StackFacts DEF Sound, BookInv
<1>3. Len(free) \in Nat /\ (free = <<>> <=> Len(free) = 0)
  BY <1>2, EmptySeq
<1> QED BY <1>1, <1>3, PoolAssumption DEF Mem!FreeEmpty, Cap

\* The command's order is younger than those in the book.
LEMMA ArrivesLast ==
    ASSUME Sound, Working, ctl # "C_IDLE", Unlinked
    PROVE  /\ \A o \in Book : o.ts < cmd.ts /\ o.ts \in Nat
           /\ OrderOf(cmd) \notin Book /\ OrderOf(cmd).id = in.id
<1>1. cmd.ts \in Nat /\ cmd.id = in.id
  BY CommandAtWork
<1>2. \A o \in Book : o.ts < cmd.ts /\ o.ts \in Nat
  <2>1. \A x \in Resting : pool[x].ts < cmd.ts
    BY DEF Sound, BookInv, Timely
  <2>2. \A x \in Resting : Shape(pool[x]).ts < cmd.ts /\ Shape(pool[x]).ts \in Nat
    BY <2>1, RestingOrder, ShapeFields
  <2> QED BY <2>2 DEF Book
<1>3. OrderOf(cmd).ts = cmd.ts /\ OrderOf(cmd).id = cmd.id
  BY DEF OrderOf
<1> QED BY <1>1, <1>2, <1>3

\* There is room for it, and no other order has its id.
LEMMA ArrivingFits ==
    ASSUME Sound, Working, ctl # "C_IDLE", Unlinked, Orders(Book \union {OrderOf(cmd)})
    PROVE  /\ Cardinality(Book) < Cap
           /\ \A o \in Book : o.id # in.id
<1> DEFINE n == OrderOf(cmd)
<1>1. n \notin Book /\ n.id = in.id
  BY ArrivesLast
<1>2. IsFiniteSet(Book)
  BY BookIds DEF Orders
<1> HIDE DEF n
<1>3. Cardinality(Book \union {n}) = Cardinality(Book) + 1 /\ Cardinality(Book) \in Nat
  BY <1>1, <1>2, FS_AddElement, FS_CardinalityType
<1>4. Cardinality(Book \union {n}) <= Cap
  BY DEF Orders, n
<1>5. Cap \in Int
  BY PoolAssumption DEF Cap
<1>6. \A o \in Book : o.id # in.id
  BY <1>1 DEF Orders, n
<1> QED BY <1>3, <1>4, <1>5, <1>6

\* A slot for an ADD.
LEMMA SlotFollows ==
    ASSUME Sound, Follows, Serving, UNCHANGED <<matVars, ctlVars>>, EnqGetSlot
    PROVE  ManagerServing' /\ PulseTells'
<1> DEFINE b == shown.book
<1>1. mgr = "ENQ_GET_SLOT" /\ Mem!InitDone /\ trades' = trades
  BY DEF EnqGetSlot
<1>2. ctl # "C_IDLE" /\ mat = "M_IDLE" /\ resp = NoResp /\ mr.op = "ENQ" /\ mr \in MgrRegs
  BY <1>1, ManagerAtWorkFacts
<1>3. Working /\ ManagerServing
  BY DEF Follows
<1>4. Book' = Book /\ in' = in /\ shown' = shown /\ cmd' = cmd
  BY ManagerShowsSame DEF Serving, ctlVars
<1>5. Entering(b, in, cmd, trades, Book)
  BY <1>1, <1>3 DEF ManagerServing
<1>6. Unlinked
  BY <1>1, <1>2 DEF Unlinked
<1>7. Arriving(b, in, cmd, trades, Book) => Cardinality(Book) < Cap /\ Room(b)
  <2>1. Arriving(b, in, cmd, trades, Book) => Cardinality(Book) < Cap
    BY <1>2, <1>3, <1>6, ArrivingFits DEF Arriving, At
  <2>2. Arriving(b, in, cmd, trades, Book) => Room(b)
    BY <1>5 DEF Arriving, Linkable, Addable, Movable, Entering
  <2> QED BY <2>1, <2>2
<1>8. CASE Mem!FreeEmpty
  <2>1. mgr' = "IDLE" /\ resp' = EnqResp("FULL")
    BY <1>8 DEF EnqGetSlot, Finish
  <2>2. Cardinality(Book) = Cap
    BY <1>1, <1>2, <1>8, RoomLeft
  <2>3. Cap \in Int
    BY PoolAssumption DEF Cap
  <2>4. Untouched(b, in, cmd, trades, Book) /\ in.type = "ADD" /\ FieldsOK(in)
    BY <1>5, <1>7, <2>2, <2>3 DEF Entering
  <2>5. Outcome(b, in, "FULL", 0, trades, Book)
    BY <2>2, <2>4 DEF Outcome, RefusedAs, Unchanged, Untouched
  <2>6. resp'.kind = "enq" /\ resp'.status = "FULL"
    BY <2>1 DEF EnqResp
  <2>7. PulseTells'
    BY <1>1, <1>4, <2>5, <2>6 DEF PulseTells
  <2> QED BY <2>1, <2>7, ManagerEnds
<1>9. CASE ~Mem!FreeEmpty
  <2>1. mgr' = "ENQ_HASH" /\ resp' = resp /\ mr'.op = mr.op
    BY <1>2, <1>9 DEF EnqGetSlot, MgrRegs
  <2>2. Cardinality(Book) < Cap
    BY <1>1, <1>2, <1>9, RoomLeft
  <2>3. Room(b)
    BY <1>5, <1>7, <2>2 DEF Entering, Untouched, Room
  <2>4. ManagerServing'
    BY <1>1, <1>2, <1>4, <1>5, <2>1, <2>3 DEF ManagerServing, Linking, Removing, Deleting
  <2> QED BY <1>2, <2>1, <2>4, NoPulse
<1> QED BY <1>8, <1>9

\* Its id finds a place.
LEMMA NameFollows ==
    ASSUME Sound, Follows, Serving, UNCHANGED <<matVars, ctlVars>>, EnqHashHit
    PROVE  ManagerServing' /\ PulseTells'
<1> DEFINE b == shown.book
<1>1. /\ mgr = "ENQ_HASH" /\ mgr' = "LVL_READ" /\ resp' = resp /\ mr' = mr /\ trades' = trades
      /\ ids[cmd.id] = NULL
  BY DEF EnqHashHit, Goto
<1>2. ctl # "C_IDLE" /\ resp = NoResp /\ mr.op = "ENQ"
  BY <1>1, ManagerAtWorkFacts
<1>3. Working /\ ManagerServing
  BY DEF Follows
<1>4. Book' = Book /\ in' = in /\ shown' = shown /\ cmd' = cmd
  BY ManagerShowsSame DEF Serving, ctlVars
<1>5. Entering(b, in, cmd, trades, Book) /\ Room(b)
  BY <1>1, <1>3 DEF ManagerServing
<1>6. ASSUME Untouched(b, in, cmd, trades, Book)
      PROVE  Arriving(b, in, cmd, trades, Book)
  <2>1. cmd = in /\ trades = <<>> /\ Book = Listed(b)
    BY <1>6 DEF Untouched
  <2>2. \A o \in Book : o.id # in.id
    BY <1>1, <1>2, <1>3, NotFound
  <2>3. Linkable(b, in)
    BY <1>5, <2>1, <2>2 DEF Linkable, Addable, Known, Entering
  <2>4. /\ in \in AllCommands /\ Standing(b) /\ \A z \in Listed(b) : z.ts < in.ts
        /\ \A z \in Listed(b) : z.id = in.id => z.side = in.side
    BY <1>2, <1>3, <2>1, <2>2 DEF Working
  <2>5. At(Start(b, in), <<>>, {z \in Listed(b) : z.id # in.id} \union {OrderOf(in)})
    BY <2>3, <2>4, StartListed
  <2>6. {z \in Listed(b) : z.id # in.id} = Book
    BY <2>1, <2>2
  <2> QED BY <2>1, <2>3, <2>5, <2>6 DEF Arriving
<1>7. Arriving(b, in, cmd, trades, Book)
  BY <1>5, <1>6 DEF Entering
<1>8. ManagerServing'
  BY <1>1, <1>2, <1>4, <1>7 DEF ManagerServing, Linking, Removing, Deleting
<1> QED BY <1>1, <1>2, <1>8, NoPulse

\* Its id finds none.
LEMMA RefusalFollows ==
    ASSUME Sound, GoldenScope, Follows, Serving, UNCHANGED <<matVars, ctlVars>>,
           EnqHashMiss \/ EnqRollback
    PROVE  ManagerServing' /\ PulseTells'
<1> DEFINE b == shown.book
<1>1. mgr \in {"ENQ_HASH", "ENQ_ROLLBACK"} /\ mgr # "IDLE" /\ trades' = trades
  BY DEF EnqHashMiss, EnqRollback
<1>2. /\ ctl # "C_IDLE" /\ resp = NoResp /\ mr.op = "ENQ" /\ ManagerLatches /\ Dropped = {}
  BY <1>1, ManagerAtWorkFacts
<1>3. Working /\ ManagerServing
  BY DEF Follows
<1>4. Book' = Book /\ in' = in /\ shown' = shown /\ cmd' = cmd
  BY ManagerShowsSame DEF Serving, ctlVars
<1>5. CASE EnqHashMiss
  <2>1. /\ mgr = "ENQ_HASH" /\ mgr' = "ENQ_ROLLBACK" /\ mr' = mr /\ resp' = resp
        /\ ids[cmd.id] # NULL \/ WindowFull
    BY <1>5 DEF EnqHashMiss, Goto
  <2>2. Entering(b, in, cmd, trades, Book) /\ Room(b)
    BY <1>3, <2>1 DEF ManagerServing
  <2>3. ids[cmd.id] # NULL => \E o \in Book : o.id = in.id
    <3>1. ids[cmd.id] # NULL => ids[cmd.id] \notin InHand
      <4>1. InHand = {mr.slot} /\ mr.slot \notin Mapped
        BY <1>2, <2>1 DEF InHand, ManagerLatches
      <4>2. ids[cmd.id] # NULL => ids[cmd.id] \in Mapped
        BY <1>2, <1>3, CommandAtWork DEF Mapped
      <4> QED BY <4>1, <4>2
    <3>2. ASSUME ids[cmd.id] # NULL PROVE \E o \in Book : o.id = in.id
      <4> DEFINE x == ids[cmd.id]
      <4>1. Shape(pool[x]) \in Book /\ Shape(pool[x]).id = in.id
        BY <1>2, <1>3, <3>1, <3>2, LookedUp
      <4> QED BY <4>1
    <3> QED BY <3>2
  <2>4. ~Arriving(b, in, cmd, trades, Book) \/ ~FastPathEnable
    <3> SUFFICES ASSUME Arriving(b, in, cmd, trades, Book), FastPathEnable PROVE FALSE
      OBVIOUS
    <3>1. Unlinked
      BY <1>2, <2>1 DEF Unlinked
    <3>2. \A o \in Book : o.id # in.id
      BY <1>2, <1>3, <3>1, ArrivingFits DEF Arriving, At
    <3>3. ~WindowFull
      BY DEF GoldenScope
    <3> QED BY <2>1, <2>3, <3>2, <3>3
  <2>5. Untouched(b, in, cmd, trades, Book) /\ in.type = "ADD" /\ FieldsOK(in)
    BY <2>2, <2>4 DEF Entering
  <2>6. Known(b, in) \/ WindowFull
    BY <2>1, <2>3, <2>5 DEF Known, Untouched
  <2>7. RefusedAs(b, in, "INTERNAL", 0)
    BY <2>2, <2>5, <2>6 DEF RefusedAs
  <2>8. Refusing(b, in, cmd, trades, Book)
    BY <2>5, <2>7 DEF Refusing
  <2>9. ManagerServing'
    BY <1>1, <1>2, <1>4, <2>1, <2>8 DEF ManagerServing, Linking, Removing, Deleting
  <2> QED BY <1>2, <2>1, <2>9, NoPulse
<1>6. CASE EnqRollback
  <2>1. mgr = "ENQ_ROLLBACK" /\ mgr' = "IDLE" /\ resp' = EnqResp("INTERNAL")
    BY <1>6 DEF EnqRollback, Finish
  <2>2. Refusing(b, in, cmd, trades, Book)
    BY <1>3, <2>1 DEF ManagerServing
  <2>3. Outcome(b, in, "INTERNAL", 0, trades, Book)
    BY <2>2 DEF Refusing, Untouched, Outcome, Unchanged
  <2>4. resp'.kind = "enq" /\ resp'.status = "INTERNAL"
    BY <2>1 DEF EnqResp
  <2>5. PulseTells'
    BY <1>1, <1>4, <2>3, <2>4 DEF PulseTells
  <2> QED BY <2>1, <2>5, ManagerEnds
<1> QED BY <1>5, <1>6

\* Its order is linked.
LEMMA LinkingFollows ==
    ASSUME Sound, Follows, Serving, UNCHANGED <<matVars, ctlVars>>,
           ReLvl \/ LvlRead \/ TailLink \/ WrEmpty \/ TailLink2 \/ EnqDone
    PROVE  ManagerServing' /\ PulseTells'
<1> DEFINE b == shown.book
<1>1. mgr \in Linking \union {"RE_LVL", "ENQ_DONE"} /\ mgr # "IDLE" /\ trades' = trades
  BY DEF ReLvl, LvlRead, TailLink, WrEmpty, TailLink2, EnqDone, Linking
<1>2. /\ ctl # "C_IDLE" /\ resp = NoResp /\ mr \in MgrRegs
      /\ mr.op \in {"ENQ", "MODIFY"}
  BY <1>1, ManagerAtWorkFacts DEF StatesOf, MgrOp, Linking, Splicing, Deleting
<1>3. Working /\ ManagerServing
  BY DEF Follows
<1>4. in' = in /\ shown' = shown /\ cmd' = cmd
  BY DEF Serving, ctlVars
<1>5. CASE ReLvl \/ LvlRead \/ TailLink
  <2>1. /\ mgr \in Linking \union {"RE_LVL"} /\ mgr' \in Linking /\ resp' = resp
        /\ mr'.op = mr.op
    BY <1>2, <1>5 DEF ReLvl, LvlRead, TailLink, Goto, Linking, MgrRegs
  <2>2. Arriving(b, in, cmd, trades, Book) /\ Book' = Book
    BY <1>3, <1>5, <2>1, ManagerShowsSame DEF ManagerServing
  <2>3. ManagerServing'
    BY <1>1, <1>2, <1>4, <2>1, <2>2 DEF ManagerServing, Linking, Removing, Deleting
  <2> QED BY <1>2, <2>1, <2>3, NoPulse
<1>6. CASE WrEmpty \/ TailLink2
  <2>1. mgr \in Linking /\ Linked
    BY <1>6 DEF WrEmpty, TailLink2, Linking
  <2>2. Arriving(b, in, cmd, trades, Book) /\ Book' = Book \union {OrderOf(cmd)}
    BY <1>3, <1>6, <2>1, LinkShows DEF ManagerServing
  <2>3. Entered(b, in, trades, Book')
    BY <2>2 DEF Arriving, Entered
  <2>4. CASE mr.op = "ENQ"
    <3>1. mgr' = "ENQ_DONE" /\ mr' = mr /\ resp' = resp
      BY <2>1, <2>4 DEF Linked, Goto
    <3>2. ManagerServing'
      BY <1>1, <1>2, <1>4, <2>3, <2>4, <3>1 DEF ManagerServing, Linking, Removing, Deleting
    <3> QED BY <1>2, <3>1, <3>2, NoPulse
  <2>5. CASE mr.op = "MODIFY"
    <3>1. mgr' = "IDLE" /\ resp' = MovedResp
      BY <2>1, <2>5 DEF Linked, Finish
    <3>2. resp'.kind = "moved"
      BY <3>1 DEF MovedResp
    <3>3. PulseTells'
      BY <1>1, <1>4, <2>3, <3>2 DEF PulseTells
    <3> QED BY <3>1, <3>3, ManagerEnds
  <2> QED BY <1>2, <2>4, <2>5
<1>7. CASE EnqDone
  <2>1. mgr = "ENQ_DONE" /\ mgr' = "IDLE" /\ resp' = EnqResp("OK") /\ Book' = Book
    BY <1>7, ManagerShowsSame DEF EnqDone, Finish
  <2>2. Entered(b, in, trades, Book)
    BY <1>3, <2>1 DEF ManagerServing
  <2>3. resp'.kind = "enq" /\ resp'.status = "OK"
    BY <2>1 DEF EnqResp
  <2>4. PulseTells'
    BY <1>1, <1>4, <2>1, <2>2, <2>3 DEF PulseTells
  <2> QED BY <2>1, <2>4, ManagerEnds
<1> QED BY <1>5, <1>6, <1>7

\* Every step of the manager.
LEMMA ManagerFollows ==
    ASSUME Sound, GoldenScope, Follows, Serving, MgrStep, UNCHANGED <<matVars, ctlVars>>
    PROVE  Follows'
<1>1. ManagerServing' /\ PulseTells'
  BY LookupFollows, LatchFollows, SpliceFollows, RemovalFollows, AnswerFollows,
     RequantifyFollows, SlotFollows, NameFollows, RefusalFollows, LinkingFollows DEF MgrStep
<1>2. mgr # "IDLE"
  BY ManagerSteps
<1>3. /\ mat = "M_IDLE" /\ ctl \notin {"C_IDLE", "C_VALIDATE", "C_SETTLE", "C_ACK"}
  BY <1>2, ManagerAtWorkFacts
<1>4. MatcherServing'
  BY <1>3 DEF MatcherServing, matVars
<1>5. ControllerServes' /\ Resumes'
  BY <1>3 DEF ControllerServes, Resumes, ctlVars
<1>6. Working'
  BY <1>3 DEF Working, Follows, Serving, ctlVars
<1> QED BY <1>1, <1>4, <1>5, <1>6 DEF Follows

-----------------------------------------------------------------------------
(* The matcher.                                                              *)

\* The encoder marks the level of every order.
LEMMA BookMarked ==
    ASSUME Sound, HeldAreOccupied, View = pool, Bpe!InitDone, NEW o \in Book
    PROVE  o.side \in Side /\ o.price \in Level /\ o.price \in occ[o.side]
<1>1. PICK x \in Resting : o = Shape(pool[x])
  BY DEF Book
<1>2. /\ o.side = pool[x].side /\ o.price = pool[x].price
      /\ pool[x].side \in Side /\ pool[x].price \in Level
  BY <1>1, RestingOrder, ShapeFields
<1>3. x \in SlotsAt(Resting, pool, o.side, o.price)
  BY <1>2 DEF SlotsAt
<1>4. lvl[o.side][o.price].head # NULL
  BY <1>2, <1>3, Facts, NullHeadNothing
<1> QED BY <1>2, <1>4 DEF HeldAreOccupied

\* Where the marks do not cross, no two orders do.
LEMMA MarksApart ==
    ASSUME Sound, HeldAreOccupied, View = pool, Bpe!InitDone,
           \A b \in occ["BUY"], a \in occ["SELL"] : b < a
    PROVE  ~\E x, y \in Book : x.side = "BUY" /\ y.side = "SELL" /\ x.price >= y.price
<1> SUFFICES ASSUME NEW x \in Book, NEW y \in Book, x.side = "BUY", y.side = "SELL"
             PROVE  ~(x.price >= y.price)
  OBVIOUS
<1>1. x.price \in Level /\ y.price \in Level /\ x.price < y.price
  BY BookMarked
<1> QED BY <1>1, NumLevelsAssumption DEF Level

\* The head of the best level leads its side.
LEMMA HeadLeads ==
    ASSUME Sound, HeldAreOccupied, View = pool, Bpe!InitDone, NEW s \in Side, best[s].valid
    PROVE  LET x == lvl[s][BestOf(s)].head IN
           /\ x \in Resting /\ pool[x].side = s /\ pool[x].price = BestOf(s)
           /\ Leading(Book, s, Shape(pool[x]))
<1> DEFINE l == BestOf(s)
           x == lvl[s][l].head
           a == SlotsAt(Resting, pool, s, l)
<1>2. l \in Level /\ l \in occ[s] /\ \A k \in occ[s] : ~Better(s, k, l)
  BY ValidIsBest DEF Sound
<1>3. x # NULL
  BY <1>2 DEF Sound, BookInv, OccupiedAreHeld
<1>4. IsFifo(a, pool, lvl[s][l]) /\ Slots(a) /\ Records(a, pool)
  BY <1>2, Facts, LevelSlots DEF AreFifos
<1>5. x \in a
  BY <1>3, <1>4 DEF IsFifo
<1>6. x \in Resting /\ pool[x].side = s /\ pool[x].price = l
  BY <1>5 DEF SlotsAt
<1>7. Shape(pool[x]) \in Book
  BY <1>6 DEF Book
<1>8. ASSUME NEW z \in Book, z.side = s, z # Shape(pool[x])
      PROVE  Better(s, l, z.price) \/ (l = z.price /\ pool[x].ts < z.ts)
  <2>1. PICK y \in Resting : z = Shape(pool[y])
    BY DEF Book
  <2>2. /\ y # x /\ pool[y].side = s /\ z.price = pool[y].price /\ z.ts = pool[y].ts
        /\ z.price \in Level
    BY <1>8, <2>1, ShapeFields, RestingOrder
  <2>3. ~Better(s, z.price, l)
    BY <1>2, <1>8, BookMarked
  <2>4. CASE z.price = l
    <3>1. y \in a
      BY <2>2, <2>4 DEF SlotsAt
    <3> HIDE DEF x, a
    <3>2. pool[x].ts < pool[y].ts
      BY <1>4, <2>2, <3>1, HeadIsOldest DEF x
    <3> QED BY <2>2, <2>4, <3>2
  <2>5. CASE z.price # l
    <3> HIDE DEF l, x
    <3> QED BY <1>2, <2>2, <2>3, <2>5, NumLevelsAssumption DEF Better, Level
  <2> QED BY <2>4, <2>5
<1>9. Shape(pool[x]).side = s /\ Shape(pool[x]).price = l /\ Shape(pool[x]).ts = pool[x].ts
  BY <1>6, ShapeFields
<1> HIDE DEF l, x
<1>10. Leading(Book, s, Shape(pool[x]))
  BY <1>7, <1>8, <1>9 DEF Leading
<1> QED BY <1>6, <1>10 DEF l, x

\* What stays while the matcher works.
LEMMA MatcherAtWorkFacts ==
    ASSUME Sound, MatStep, UNCHANGED <<mgrVars, ctlVars>>
    PROVE  /\ mat # "M_IDLE" /\ mgr = "IDLE" /\ mgr' = "IDLE" /\ resp = NoResp
           /\ ctl \in {"C_FAST", "C_DRAIN"} /\ ctl' = ctl /\ cmd' = cmd
           /\ ctl = "C_FAST" => mat \in FastStates
           /\ ctl = "C_DRAIN" => mat \in DrainStates
           /\ ctl = "C_FAST" => cmd.type = "ADD"
<1>1. mat # "M_IDLE"
  BY MatcherSteps
<1>2. MatcherAtWork /\ Waiting
  BY <1>1, MatcherFacts DEF Sound
<1>3. Waiting => cmd.type \in CommandsOf(ctl)
  BY DEF Sound, IInv, ValidatedFirst
<1>4. ctl = "C_FAST" => cmd.type = "ADD"
  BY <1>2, <1>3 DEF CommandsOf
<1> QED BY <1>1, <1>2, <1>4 DEF MatcherAtWork, FastStates, DrainStates, mgrVars, ctlVars

\* Nothing of the manager, the controller or the host follows from its step.
LEMMA MatcherLeavesOthers ==
    ASSUME Sound, Follows, Serving, MatStep, UNCHANGED <<mgrVars, ctlVars>>
    PROVE  Resumes' /\ Working' /\ ControllerServes' /\ ManagerServing'
<1>1. /\ mgr' = "IDLE" /\ ctl \in {"C_FAST", "C_DRAIN"} /\ ctl' = ctl /\ cmd' = cmd
  BY MatcherAtWorkFacts
<1>2. ManagerServing'
  BY <1>1, ManagerEnds
<1>3. ControllerServes' /\ Resumes'
  BY <1>1 DEF ControllerServes, Resumes
<1>4. Working'
  BY <1>1 DEF Working, Follows, Serving, ctlVars
<1> QED BY <1>2, <1>3, <1>4

\* The crossing test of the drain.
LEMMA DrainCheckFollows ==
    ASSUME Sound, HeldAreOccupied, Follows, Serving, MCheck, UNCHANGED <<mgrVars, ctlVars>>
    PROVE  MatcherServing' /\ PulseTells'
<1> DEFINE b == shown.book
<1>1. /\ mat = "M_CHECK" /\ xr' = xr /\ resp' = resp /\ trades' = trades /\ best' = best
      /\ mat' = IF Crossed THEN "M_TRADE" ELSE "M_DONE"
  BY DEF MCheck, MatGoto, bpeVars
<1>2. /\ ctl = "C_DRAIN" /\ ctl' = ctl /\ resp = NoResp
  BY <1>1, MatcherAtWorkFacts DEF MatStep, FastStates
<1>3. in' = in /\ shown' = shown /\ Book' = Book
  BY MatcherShowsSame DEF Serving
<1>4. Entered(b, in, trades, Book)
  BY <1>1 DEF Follows, MatcherServing
<1>5. PulseTells'
  BY <1>1, <1>2, NoPulse
<1>6. CASE Crossed
  <2>1. mat' = "M_TRADE" /\ Crossed'
    BY <1>1, <1>6 DEF Crossed, BestOf
  <2>2. MatcherServing'
    BY <1>1, <1>3, <1>4, <2>1 DEF MatcherServing
  <2> QED BY <1>5, <2>2
<1>7. CASE ~Crossed
  <2>1. mat' = "M_DONE"
    BY <1>1, <1>7
  <2>2. View = pool /\ Bpe!InitDone
    BY <1>1, MatcherRests
  <2>3. ~\E x, y \in Book : x.side = "BUY" /\ y.side = "SELL" /\ x.price >= y.price
    BY <2>1, <2>2, DrainEnds, MarksApart
  <2>4. Finished(b, in, trades, Book)
    BY <1>4, <2>3, AtEnd DEF Entered, Finished
  <2>5. MatcherServing'
    BY <1>1, <1>2, <1>3, <2>1, <2>4 DEF MatcherServing
  <2> QED BY <1>5, <2>5
<1> QED BY <1>6, <1>7

\* A trade of the drain.
LEMMA DrainTradeFollows ==
    ASSUME Sound, HeldAreOccupied, Follows, Serving, MTrade, UNCHANGED <<mgrVars, ctlVars>>
    PROVE  MatcherServing' /\ PulseTells'
<1> DEFINE b == shown.book
           h(s) == pool[lvl[s][BestOf(s)].head]
           x == Shape(h("BUY"))
           y == Shape(h("SELL"))
           o == [s \in Side |-> h(s)]
           q == MinQty(h("BUY").qty, h("SELL").qty)
<1>1. /\ mat = "M_TRADE" /\ mat' = "M_UPD_BID" /\ resp' = resp
      /\ xr'.order = o /\ xr'.qty = q
      /\ trades' = Append(trades,
           [buy |-> o["BUY"].id, sell |-> o["SELL"].id, price |-> DrainPrice(o),
            qty |-> q, ts |-> Later(o["BUY"].ts, o["SELL"].ts)])
  <2> DEFINE v == [s \in Side |-> lvl[s][BestOf(s)]]
             w == [s \in Side |-> pool[v[s].head]]
  <2>1. mat # "M_IDLE"
    BY DEF MTrade
  <2>2. xr \in MatRegs
    BY <2>1, MatcherRests
  <2>3. w = o
    <3>1. \A s \in Side : w[s] = h(s)
      OBVIOUS
    <3> QED BY <3>1
  <2>4. "BUY" \in Side /\ "SELL" \in Side
    BY DEF Side
  <2>5. w["BUY"] = h("BUY") /\ w["SELL"] = h("SELL")
    BY <2>4
  <2>6. /\ mat = "M_TRADE" /\ mat' = "M_UPD_BID" /\ resp' = resp
        /\ xr' = [xr EXCEPT !.order = w, !.level = v, !.qty = MinQty(w["BUY"].qty, w["SELL"].qty)]
        /\ trades' = Append(trades,
             [buy |-> w["BUY"].id, sell |-> w["SELL"].id, price |-> DrainPrice(w),
              qty |-> MinQty(w["BUY"].qty, w["SELL"].qty),
              ts |-> Later(w["BUY"].ts, w["SELL"].ts)])
    BY DEF MTrade
  <2>7. MinQty(w["BUY"].qty, w["SELL"].qty) = q
    BY <2>5
  <2> HIDE DEF w, v, o, q, h
  <2> QED BY <2>2, <2>3, <2>6, <2>7 DEF MatRegs
<1>2. resp = NoResp
  BY MatcherAtWorkFacts DEF MatStep
<1>3. in' = in /\ shown' = shown /\ Book' = Book
  BY MatcherShowsSame DEF Serving
<1>4. Entered(b, in, trades, Book) /\ Crossed
  BY <1>1 DEF Follows, MatcherServing
<1>5. /\ best["BUY"].valid /\ best["SELL"].valid /\ BestOf("BUY") >= BestOf("SELL")
      /\ "BUY" \in Side /\ "SELL" \in Side
  BY <1>4 DEF Crossed, Side
<1>6. /\ Leading(Book, "BUY", x) /\ Leading(Book, "SELL", y)
      /\ h("BUY").price = BestOf("BUY") /\ h("SELL").price = BestOf("SELL")
  <2>1. View = pool /\ Bpe!InitDone
    BY <1>1, MatcherRests
  <2> QED BY <1>5, <2>1, HeadLeads
<1>7. /\ x.id = h("BUY").id /\ x.qty = h("BUY").qty /\ x.ts = h("BUY").ts
      /\ x.price = h("BUY").price
      /\ y.id = h("SELL").id /\ y.qty = h("SELL").qty /\ y.ts = h("SELL").ts
      /\ y.price = h("SELL").price
  BY ShapeFields
<1>8. o["BUY"] = h("BUY") /\ o["SELL"] = h("SELL")
  BY <1>5
<1> HIDE DEF h, x, y, o, q
<1>9. q = Lesser(x, y)
  BY <1>7 DEF q, MinQty, Lesser
<1>10. trades' = Append(trades, TradeOf(x, y))
  BY <1>1, <1>7, <1>8, <1>9 DEF TradeOf, DrainPrice, Later
<1>11. x.price >= y.price
  BY <1>5, <1>6, <1>7
<1>12. Entered(b, in, trades', Traded(Book, x, y))
  BY <1>4, <1>6, <1>10, <1>11, AtTrade DEF Entered
<1>13. x = Shape(xr'.order["BUY"]) /\ y = Shape(xr'.order["SELL"])
  BY <1>1, <1>8 DEF x, y
<1>14. MatcherServing'
  BY <1>1, <1>3, <1>9, <1>12, <1>13 DEF MatcherServing
<1> QED BY <1>1, <1>2, <1>14, NoPulse

\* It is applied to the bid and to the ask.
LEMMA DrainUpdateFollows ==
    ASSUME Sound, Follows, Serving, MUpdBid \/ MHashBid \/ MUpdAsk \/ MHashAsk,
           UNCHANGED <<mgrVars, ctlVars>>
    PROVE  MatcherServing' /\ PulseTells'
<1> DEFINE b == shown.book
           x == Shape(xr.order["BUY"])
           y == Shape(xr.order["SELL"])
<1>1. /\ mat \in {"M_UPD_BID", "M_HASH_BID", "M_UPD_ASK", "M_HASH_ASK"}
      /\ xr' = xr /\ resp' = resp /\ trades' = trades
  BY DEF MUpdBid, MHashBid, MUpdAsk, MHashAsk, MatGoto, Consume, DropMapping
<1>2. resp = NoResp
  BY MatcherAtWorkFacts DEF MatStep
<1>3. in' = in /\ shown' = shown /\ "BUY" \in Side /\ "SELL" \in Side
  BY DEF Serving, Side
<1>4. PulseTells'
  BY <1>1, <1>2, NoPulse
<1>5. MatcherServing
  BY DEF Follows
<1>6. CASE MUpdBid
  <2>1. mat = "M_UPD_BID" /\ mat' \in {"M_HASH_BID", "M_UPD_ASK"}
    BY <1>6 DEF MUpdBid, MatGoto
  <2>2. xr.qty = Lesser(x, y) /\ Entered(b, in, trades, Traded(Book, x, y))
    BY <1>5, <2>1 DEF MatcherServing
  <2>3. Book' = Reduced(Book, x, xr.qty)
    BY <1>3, <1>6, ConsumeShows DEF Consumes
  <2>4. Entered(b, in, trades, Reduced(Book', y, xr.qty))
    BY <2>2, <2>3 DEF Traded
  <2>5. MatcherServing'
    BY <1>1, <1>3, <2>1, <2>4 DEF MatcherServing
  <2> QED BY <1>4, <2>5
<1>7. CASE MHashBid
  <2>1. mat = "M_HASH_BID" /\ mat' = "M_UPD_ASK" /\ Book' = Book
    BY <1>3, <1>7, MatcherShowsSame DEF MHashBid, MatGoto, Forgets
  <2>2. Entered(b, in, trades, Reduced(Book, y, xr.qty))
    BY <1>5, <2>1 DEF MatcherServing
  <2>3. MatcherServing'
    BY <1>1, <1>3, <2>1, <2>2 DEF MatcherServing
  <2> QED BY <1>4, <2>3
<1>8. CASE MUpdAsk
  <2>1. mat = "M_UPD_ASK" /\ mat' \in {"M_HASH_ASK", "M_CHECK"}
    BY <1>8 DEF MUpdAsk, MatGoto
  <2>2. Entered(b, in, trades, Reduced(Book, y, xr.qty))
    BY <1>5, <2>1 DEF MatcherServing
  <2>3. Book' = Reduced(Book, y, xr.qty)
    BY <1>3, <1>8, ConsumeShows DEF Consumes
  <2>4. MatcherServing'
    BY <1>1, <1>3, <2>1, <2>2, <2>3 DEF MatcherServing
  <2> QED BY <1>4, <2>4
<1>9. CASE MHashAsk
  <2>1. mat = "M_HASH_ASK" /\ mat' = "M_CHECK" /\ Book' = Book
    BY <1>3, <1>9, MatcherShowsSame DEF MHashAsk, MatGoto, Forgets
  <2>2. Entered(b, in, trades, Book)
    BY <1>5, <2>1 DEF MatcherServing
  <2>3. MatcherServing'
    BY <1>1, <1>3, <2>1, <2>2 DEF MatcherServing
  <2> QED BY <1>4, <2>3
<1> QED BY <1>6, <1>7, <1>8, <1>9

\* Its end.
LEMMA DoneFollows ==
    ASSUME Sound, Follows, Serving, MDone, UNCHANGED <<mgrVars, ctlVars>>
    PROVE  MatcherServing' /\ PulseTells'
<1>1. /\ mat = "M_DONE" /\ mat' = "M_IDLE" /\ resp' = MatchResp(xr.rem) /\ trades' = trades
  BY DEF MDone
<1>2. ctl' = ctl /\ cmd' = cmd
  BY DEF ctlVars
<1>3. in' = in /\ shown' = shown /\ Book' = Book
  BY MatcherShowsSame DEF Serving
<1>4. resp'.kind = "match" /\ resp'.qty = xr.rem
  BY <1>1 DEF MatchResp
<1>5. MatcherServing
  BY DEF Follows
<1>6. PulseTells'
  BY <1>1, <1>2, <1>3, <1>4, <1>5 DEF PulseTells, MatcherServing
<1>7. MatcherServing'
  BY <1>1 DEF MatcherServing
<1> QED BY <1>6, <1>7

\* The aggressor and what is left of it.
LEMMA UnfilledParts ==
    ASSUME NEW c \in AllCommands, FieldsOK(c), c.type = "ADD", NEW r \in Nat, r > 0
    PROVE  LET a == [OrderOf(c) EXCEPT !.qty = r] IN
           /\ a \in OrderSet /\ Unfilled(c, r) = {a}
           /\ a.side = c.side /\ a.price = c.price /\ a.id = c.id /\ a.ts = c.ts /\ a.qty = r
           /\ c.price \in Level
           /\ \A q \in 1 .. r : Rest(a, q) = Unfilled(c, r - q)
<1> DEFINE a == [OrderOf(c) EXCEPT !.qty = r]
<1>1. c.price \in Level /\ c.qty \in Nat \ {0}
  BY FieldsGood
<1>2. /\ OrderOf(c) \in OrderSet /\ OrderOf(c).side = c.side /\ OrderOf(c).price = c.price
      /\ OrderOf(c).id = c.id /\ OrderOf(c).ts = c.ts
  BY <1>1, OrderOfTyped
<1>3. /\ a \in OrderSet /\ a.side = c.side /\ a.price = c.price /\ a.id = c.id
      /\ a.ts = c.ts /\ a.qty = r
  <2>1. \A o \in OrderSet :
          LET z == [o EXCEPT !.qty = r] IN
          /\ z \in OrderSet /\ z.side = o.side /\ z.price = o.price /\ z.id = o.id
          /\ z.ts = o.ts /\ z.qty = r
    <3>1. r \in Nat \ {0}
      OBVIOUS
    <3> QED BY ONLY <3>1, OrderParts
  <2> QED BY <1>2, <2>1
<1>4. Unfilled(c, r) = {a}
  BY DEF Unfilled
<1>5. ASSUME NEW q \in 1 .. r PROVE Rest(a, q) = Unfilled(c, r - q)
  <2>1. [a EXCEPT !.qty = r - q] = [OrderOf(c) EXCEPT !.qty = r - q]
    BY DEF OrderOf
  <2>2. r = q <=> r - q = 0
    OBVIOUS
  <2> HIDE DEF a
  <2> QED BY <1>3, <2>1, <2>2 DEF Rest, Unfilled
<1> HIDE DEF a
<1> QED BY <1>1, <1>3, <1>4, <1>5 DEF a

\* A trade of the aggressor a with the order y of the book E leaves both reduced.
LEMMA FastTraded ==
    ASSUME NEW E, NEW a, NEW y \in E, NEW F, F = E \union {a}, Orders(F), a \notin E,
           a.side # y.side, NEW q, q = Lesser(a, y)
    PROVE  /\ Traded(F, a, y) = Reduced(E, y, q) \union Rest(a, q)
           /\ Traded(F, y, a) = Reduced(E, y, q) \union Rest(a, q)
<1>1. a \in F /\ y \in F /\ a.qty \in Nat /\ y.qty \in Nat /\ F \subseteq OrderSet
  BY OrderParts DEF Orders
<1>2. Lesser(y, a) = q
  BY <1>1 DEF Lesser
<1>3. Traded(F, a, y) = Traded(F, y, a)
  <2>1. Traded(F, a, y) = Reduced(Reduced(F, y, q), a, q)
    BY <1>1, OrdersTraded
  <2> QED BY <1>2, <2>1 DEF Traded
<1>4. y \notin Rest(a, q)
  <2>1. q \in 1 .. a.qty
    BY <1>1, OrdersTraded
  <2>2. \A z \in Rest(a, q) : z.side = a.side
    <3>1. CASE a.qty = q
      BY <3>1 DEF Rest
    <3>2. CASE a.qty # q
      <4>1. a.qty - q \in Nat \ {0}
        BY <1>1, <2>1, <3>2
      <4>2. [a EXCEPT !.qty = a.qty - q].side = a.side
        BY <1>1, <4>1, OrderParts
      <4> QED BY <3>2, <4>2 DEF Rest
    <3> QED BY <3>1, <3>2
  <2> QED BY <2>2
<1>5. Reduced(F, a, q) = E \union Rest(a, q)
  BY DEF Reduced
<1>6. Traded(F, a, y) = Reduced(E, y, q) \union Rest(a, q)
  BY <1>4, <1>5 DEF Traded, Reduced
<1> QED BY <1>3, <1>6

\* The crossing test of the fast path.
LEMMA FastCheckFollows ==
    ASSUME Sound, Follows, Serving, FCheck \/ FHash, UNCHANGED <<mgrVars, ctlVars>>
    PROVE  MatcherServing' /\ PulseTells'
<1> DEFINE b == shown.book
<1>1. mat \in {"F_CHECK", "F_HASH"} /\ xr' = xr /\ resp' = resp /\ trades' = trades
  BY DEF FCheck, FHash, MatGoto, DropMapping
<1>2. resp = NoResp /\ ctl = "C_FAST" /\ ctl' = ctl /\ cmd' = cmd /\ Passive \in Side
  BY <1>1, MatcherAtWorkFacts, MatcherRests DEF MatStep, DrainStates
<1>3. in' = in /\ shown' = shown
  BY DEF Serving
<1>4. Book' = Book
  BY <1>2, MatcherShowsSame DEF Forgets
<1>5. FastAt(b, in, cmd, trades, Book, xr.rem)
  BY <1>1 DEF Follows, MatcherServing
<1>6. \/ mat' \in {"F_CHECK", "M_DONE"}
      \/ mat' = "F_TRADE" /\ FastCrosses /\ best' = best
  BY DEF FCheck, FHash, MatGoto, bpeVars
<1>7. FastCrosses /\ best' = best => FastCrosses'
  BY <1>2 DEF FastCrosses, Passive, BestOf
<1>8. MatcherServing'
  BY <1>1, <1>2, <1>3, <1>4, <1>5, <1>6, <1>7 DEF MatcherServing
<1> QED BY <1>1, <1>2, <1>8, NoPulse

\* Its trade is applied to the passive order.
LEMMA FastUpdateFollows ==
    ASSUME Sound, Follows, Serving, FUpdate, UNCHANGED <<mgrVars, ctlVars>>
    PROVE  MatcherServing' /\ PulseTells'
<1> DEFINE b == shown.book
           o == Shape(xr.order[Passive])
<1>1. /\ mat = "F_UPDATE" /\ mat' \in {"F_HASH", "F_CHECK"} /\ resp' = resp /\ trades' = trades
      /\ xr' = [xr EXCEPT !.rem = QtyMinus(@, xr.qty)]
  BY DEF FUpdate, Consume
<1>2. /\ resp = NoResp /\ ctl' = ctl /\ cmd' = cmd /\ Passive \in Side
      /\ xr \in MatRegs /\ MatcherLatches
  BY <1>1, MatcherAtWorkFacts, MatcherRests DEF MatStep
<1>3. in' = in /\ shown' = shown
  BY DEF Serving
<1>4. Book' = Reduced(Book, o, xr.qty)
  BY <1>2, ConsumeShows DEF Consumes
<1>5. xr'.rem = xr.rem - xr.qty
  <2>1. xr.qty \in 0 .. MaxQty /\ xr.rem \in 0 .. MaxQty /\ xr.qty <= xr.rem
    BY <1>1, <1>2 DEF MatRegs, Qty, MatcherLatches
  <2>2. QtyMinus(xr.rem, xr.qty) = xr.rem - xr.qty
    BY <2>1, QtyAssumption DEF QtyMinus
  <2>3. xr'.rem = QtyMinus(xr.rem, xr.qty)
    BY <1>1, <1>2 DEF MatRegs
  <2> QED BY <2>2, <2>3
<1>6. FastAt(b, in, cmd, trades, Reduced(Book, o, xr.qty), xr.rem - xr.qty)
  BY <1>1 DEF Follows, MatcherServing
<1> HIDE DEF o
<1>7. MatcherServing'
  BY <1>1, <1>2, <1>3, <1>4, <1>5, <1>6 DEF MatcherServing
<1> QED BY <1>1, <1>2, <1>7, NoPulse

\* The aggressor comes before the orders of its own side: they do not cross the
\* best price of the other side, and it does.
LEMMA AggressorLeads ==
    ASSUME Sound, HeldAreOccupied, mat = "F_TRADE", FastCrosses, ctl = "C_FAST",
           cmd.side \in Side, cmd.price \in Level
    PROVE  \A z \in Book : z.side = cmd.side => Better(cmd.side, cmd.price, z.price)
<1> SUFFICES ASSUME NEW z \in Book, z.side = cmd.side
             PROVE  Better(cmd.side, cmd.price, z.price)
  OBVIOUS
<1>1. Bpe!InitDone /\ View = pool /\ Passive \in Side
  BY MatcherRests
<1>2. z.price \in occ[cmd.side] /\ z.price \in Level
  BY <1>1, BookMarked
<1>3. BestOf(Passive) \in occ[Passive] /\ BestOf(Passive) \in Level
  BY <1>1, ValidIsBest DEF Sound, FastCrosses
<1>4. \A b \in occ["BUY"], a \in occ["SELL"] : b < a
  BY <1>1 DEF Sound, BookInv, Uncrossed, MayCross
<1>5. ~Better(cmd.side, BestOf(Passive), cmd.price)
  BY DEF FastCrosses, Crosses
<1>6. CASE cmd.side = "BUY"
  <2>1. Passive = "SELL"
    BY <1>6 DEF Passive, Opposite
  <2>2. z.price < BestOf("SELL") /\ ~(BestOf("SELL") > cmd.price)
    BY <1>2, <1>3, <1>4, <1>5, <1>6, <2>1 DEF Better
  <2>3. BestOf("SELL") \in Level
    BY <1>3, <2>1
  <2>4. cmd.price > z.price
    BY <1>2, <2>2, <2>3, NumLevelsAssumption DEF Level
  <2> QED BY <1>6, <2>4 DEF Better
<1>7. CASE cmd.side = "SELL"
  <2>1. Passive = "BUY"
    BY <1>7 DEF Passive, Opposite
  <2>2. BestOf("BUY") < z.price /\ ~(BestOf("BUY") < cmd.price)
    BY <1>2, <1>3, <1>4, <1>5, <1>7, <2>1 DEF Better
  <2>3. BestOf("BUY") \in Level
    BY <1>3, <2>1
  <2>4. cmd.price < z.price
    BY <1>2, <2>2, <2>3, NumLevelsAssumption DEF Level
  <2> QED BY <1>7, <2>4 DEF Better
<1> QED BY <1>6, <1>7 DEF Side

\* A trade of the fast path.
LEMMA FastTradeFollows ==
    ASSUME Sound, HeldAreOccupied, Follows, Serving, FTrade, UNCHANGED <<mgrVars, ctlVars>>
    PROVE  MatcherServing' /\ PulseTells'
<1> DEFINE b == shown.book
           h == pool[lvl[Passive][BestOf(Passive)].head]
           y == Shape(h)
           r == xr.rem
           a == [OrderOf(in) EXCEPT !.qty = r]
           q == MinQty(r, h.qty)
           E == Book \union {a}
           t == [buy  |-> IF cmd.side = "BUY" THEN cmd.id ELSE h.id,
                 sell |-> IF cmd.side = "SELL" THEN cmd.id ELSE h.id,
                 price |-> h.price, qty |-> q, ts |-> Later(cmd.ts, h.ts)]
<1>1. mat = "F_TRADE" /\ mat' = "F_UPDATE" /\ resp' = resp
  BY DEF FTrade
<1>2. /\ resp = NoResp /\ ctl = "C_FAST" /\ ctl' = ctl /\ cmd' = cmd /\ Passive \in Side
      /\ xr \in MatRegs /\ MatcherLatches
  BY <1>1, MatcherAtWorkFacts, MatcherRests DEF MatStep, DrainStates
<1>3. trades' = Append(trades, t)
  BY DEF FTrade
<1>4. xr'.qty = q /\ xr'.rem = r /\ xr'.order[Passive] = h
  <2> HIDE DEF h, q
  <2>1. xr'= [xr EXCEPT !.order[Passive] = h, !.level[Passive] = lvl[Passive][BestOf(Passive)],
                        !.qty = q]
    BY DEF FTrade, h, q
  <2> QED BY <1>2, <2>1 DEF MatRegs
<1>5. in' = in /\ shown' = shown /\ Book' = Book
  BY MatcherShowsSame DEF Serving
<1>6. FastAt(b, in, cmd, trades, Book, r) /\ FastCrosses /\ Working
  BY <1>1 DEF Follows, MatcherServing
<1>7. /\ cmd = in /\ in.type = "ADD" /\ FieldsOK(in) /\ Addable(b, in)
      /\ \A o \in Book : o.id # in.id
      /\ At(Start(b, in), trades, Book \union Unfilled(in, r))
  BY <1>6 DEF FastAt, Addable
<1>8. in \in AllCommands /\ in.side \in Side /\ in.ts \in Nat
  BY <1>2, <1>6, CommandAtWork
<1>9. best[Passive].valid /\ r > 0 /\ r \in Nat
  BY <1>1, <1>2, QtyAssumption DEF MatcherLatches, MatRegs, Qty
<1>10. /\ a \in OrderSet /\ Unfilled(in, r) = {a} /\ in.price \in Level
       /\ a.side = in.side /\ a.price = in.price /\ a.id = in.id /\ a.ts = in.ts /\ a.qty = r
       /\ \A n \in 1 .. r : Rest(a, n) = Unfilled(in, r - n)
  BY <1>7, <1>8, <1>9, UnfilledParts
<1>11. At(Start(b, in), trades, E) /\ Orders(E) /\ a \notin Book
  BY <1>7, <1>10 DEF At
<1>12. Leading(Book, Passive, y) /\ h.price = BestOf(Passive) /\ h.side = Passive
  <2>1. View = pool /\ Bpe!InitDone
    BY <1>1, MatcherRests
  <2> QED BY <1>2, <1>9, <2>1, HeadLeads
<1>13. /\ y.side = Passive /\ y.id = h.id /\ y.qty = h.qty /\ y.ts = h.ts /\ y.price = h.price
       /\ y \in Book
  BY <1>12, ShapeFields DEF Leading
<1>14. /\ Passive # in.side /\ in.side \in {"BUY", "SELL"} /\ Passive \in {"BUY", "SELL"}
       /\ in.side = "BUY" <=> Passive = "SELL"
  BY <1>7, <1>8 DEF Passive, Opposite, Side
<1> HIDE DEF h, y, a, q, r, t
<1>15. Leading(E, in.side, a)
  <2>1. \A z \in Book : z.side = in.side => Better(in.side, in.price, z.price)
    BY <1>1, <1>2, <1>6, <1>7, <1>8, <1>10, AggressorLeads
  <2> QED BY <1>10, <2>1 DEF Leading
<1>16. Leading(E, Passive, y)
  BY <1>10, <1>12, <1>14 DEF Leading
<1>17. y.ts < in.ts /\ y.ts \in Nat
  <2>1. ctl \in {"C_VALIDATE", "C_FAST"} => Unlinked
    BY DEF Unlinked
  <2>2. \A x \in Resting : pool[x].ts < cmd.ts
    BY <1>2, <2>1 DEF Sound, BookInv, Timely
  <2>3. PICK x \in Resting : y = Shape(pool[x])
    BY <1>13 DEF Book
  <2> QED BY <1>7, <2>2, <2>3, ShapeFields, RestingOrder
<1>18. /\ in.side = "BUY" => in.price >= y.price
       /\ in.side = "SELL" => y.price >= in.price
  <2>1. y.price \in Level /\ ~Better(in.side, y.price, in.price)
    BY <1>6, <1>7, <1>11, <1>12, <1>13, OrderParts DEF FastCrosses, Crosses, Orders
  <2> QED BY <1>10, <2>1, NumLevelsAssumption DEF Better, Level
<1>19. q = Lesser(a, y) /\ q \in 1 .. r /\ q \in 1 .. y.qty
  <2>1. q = Lesser(a, y)
    BY <1>10, <1>13 DEF q, MinQty, Lesser
  <2> QED BY <1>10, <1>11, <1>13, <1>14, <2>1, OrdersTraded
<1>20. /\ Traded(E, a, y) = Reduced(Book, y, q) \union Unfilled(in, r - q)
       /\ Traded(E, y, a) = Reduced(Book, y, q) \union Unfilled(in, r - q)
  <2>1. Rest(a, q) = Unfilled(in, r - q)
    BY <1>10, <1>19
  <2>2. E = Book \union {a} /\ Orders(E) /\ a.side # y.side /\ q = Lesser(a, y)
    BY <1>10, <1>11, <1>13, <1>14, <1>19
  <2> HIDE DEF E
  <2>3. /\ Traded(E, a, y) = Reduced(Book, y, q) \union Rest(a, q)
        /\ Traded(E, y, a) = Reduced(Book, y, q) \union Rest(a, q)
    BY <1>11, <1>13, <2>2, FastTraded
  <2> QED BY <2>1, <2>3
<1>21. At(Start(b, in), trades', Reduced(Book, y, q) \union Unfilled(in, r - q))
  <2>1. CASE in.side = "BUY"
    <3>1. Passive = "SELL"
      BY <1>14, <2>1
    <3>2. t = TradeOf(a, y)
      BY <1>7, <1>10, <1>13, <1>17, <1>19, <2>1, <1>8 DEF t, TradeOf, Later
    <3>3. At(Start(b, in), Append(trades, TradeOf(a, y)), Traded(E, a, y))
      BY <1>10, <1>11, <1>15, <1>16, <1>18, <2>1, <3>1, AtTrade
    <3> QED BY <1>3, <1>20, <3>2, <3>3
  <2>2. CASE in.side = "SELL"
    <3>1. Passive = "BUY"
      BY <1>14, <2>2
    <3>2. Lesser(y, a) = q
      <4>1. a.qty \in Nat /\ y.qty \in Nat
        BY <1>10, <1>11, <1>13, OrderParts DEF Orders
      <4> QED BY <1>19, <4>1 DEF Lesser
    <3>3. t = TradeOf(y, a)
      BY <1>7, <1>10, <1>13, <1>17, <3>2, <2>2, <1>8 DEF t, TradeOf, Later
    <3>4. At(Start(b, in), Append(trades, TradeOf(y, a)), Traded(E, y, a))
      BY <1>10, <1>11, <1>15, <1>16, <1>18, <2>2, <3>1, AtTrade
    <3> QED BY <1>3, <1>20, <3>3, <3>4
  <2> QED BY <1>14, <2>1, <2>2
<1>22. \A o \in Reduced(Book, y, q) : o.id # in.id
  <2>1. \A o \in Reduced(Book, y, q) : \E w \in Book : o.id = w.id
    BY <1>13, <1>19, BookIds, OrdersReduced
  <2> QED BY <1>7, <2>1
<1>23. FastAt(b, in, cmd, trades', Reduced(Book, y, q), r - q)
  BY <1>6, <1>21, <1>22 DEF FastAt
<1>24. MatcherServing'
  <2>1. Shape(xr'.order[Passive']) = y /\ xr'.rem - xr'.qty = r - q /\ xr'.qty = q
    <3>1. Passive' = Passive
      BY <1>2 DEF Passive
    <3> QED BY <1>4, <3>1 DEF y
  <2>2. FastAt(b, in', cmd', trades', Reduced(Book', Shape(xr'.order[Passive']), xr'.qty),
               xr'.rem - xr'.qty)
    BY <1>2, <1>5, <1>23, <2>1
  <2> QED BY <1>1, <1>5, <2>2 DEF MatcherServing
<1> QED BY <1>1, <1>2, <1>24, NoPulse

\* Every step of the matcher.
LEMMA MatcherFollows ==
    ASSUME Sound, HeldAreOccupied, Follows, Serving, MatStep, UNCHANGED <<mgrVars, ctlVars>>
    PROVE  Follows'
<1>1. MatcherServing' /\ PulseTells'
  BY DrainCheckFollows, DrainTradeFollows, DrainUpdateFollows, DoneFollows,
     FastCheckFollows, FastTradeFollows, FastUpdateFollows DEF MatStep
<1> QED BY <1>1, MatcherLeavesOthers DEF Follows

-----------------------------------------------------------------------------
(* The controller.                                                           *)

\* What its steps leave alone, before it comes back to C_IDLE.
LEMMA ControllerAtWorkFacts ==
    ASSUME Sound, Follows, CtlStep, Serving
    PROVE  /\ Book' = Book /\ trades' = trades /\ in' = in /\ shown' = shown
           /\ sent' = sent /\ mgr = "IDLE" /\ mat = "M_IDLE" /\ View = pool
           /\ ctl' # "C_VALIDATE" /\ resp' = NoResp /\ PulseTells' /\ Resumes'
           /\ cmd.id = in.id
<1>1. Book' = Book /\ trades' = trades /\ sent' = sent
  BY OthersShowSame, ControllerKeepsBook
<1>2. mgr = "IDLE" /\ mat = "M_IDLE" /\ ctl' # "C_VALIDATE"
  BY ControllerStarts DEF Sound, AtRest
<1>3. View = pool
  BY <1>2, RestsWhenIdle
<1>4. resp' = NoResp
  <2>1. ~Waiting => resp = NoResp
    BY DEF Sound, IInv, OneAtATime
  <2>2. CASE ValidateReject \/ ValidateFast \/ ValidateManager \/ Settle \/ SendAck
    BY <2>1, <2>2 DEF Waiting, ValidateReject, ValidateFast, ValidateManager, Settle, SendAck,
                      Validating
  <2>3. CASE ~(ValidateReject \/ ValidateFast \/ ValidateManager \/ Settle \/ SendAck)
    BY <2>3 DEF CtlStep, FastFilled, FastRemainder, EnqRejected, Enqueued, MgrAcked, Moved,
                Drained, Queried, Hears
  <2> QED BY <2>2, <2>3
<1>5. PulseTells' /\ Resumes'
  BY <1>4, NoPulse DEF Serving, Resumes
<1>6. cmd.id = in.id
  BY CommandAtWork DEF Serving, Follows
<1> QED BY <1>1, <1>2, <1>3, <1>4, <1>5, <1>6 DEF Serving

\* The register changes at most its quantity.
LEMMA WorkingStays ==
    ASSUME Working, Serving, sent' = sent, cmd' = [in EXCEPT !.qty = cmd'.qty]
    PROVE  Working'
  BY DEF Working, Serving

\* An acknowledgement is composed.
LEMMA AckFollows ==
    ASSUME NEW st, NEW rem, Outcome(shown.book, in, st, rem, trades, Book),
           ack' = AckOf(st, rem), cmd.id = in.id, ctl' # "C_VALIDATE",
           Book' = Book, trades' = trades, in' = in, shown' = shown
    PROVE  ControllerServes'
<1>1. ack'.status = st /\ ack'.rem = rem /\ ack'.id = in.id
  BY DEF AckOf
<1> QED BY <1>1 DEF ControllerServes

\* Nobody is started.
LEMMA NobodyStarted ==
    ASSUME mgr = "IDLE", mat = "M_IDLE", NoStart
    PROVE  ManagerServing' /\ MatcherServing'
<1>1. mgr' = "IDLE" /\ mat' = "M_IDLE"
  BY DEF NoStart, mgrVars, matVars
<1> QED BY <1>1, ManagerEnds DEF MatcherServing

\* A command whose fields are valid to the controller is so to the reference.
LEMMA FieldsAgree ==
    ASSUME GoldenScope, in \in AllCommands, cmd = in
    PROVE  BadField <=> ~FieldsOK(in)
<1>1. in.price # 0
  BY DEF AllCommands, GoldenScope
<1> QED BY <1>1, GoldenWords DEF BadField, FieldsOK, Golden!BadField

\* C_VALIDATE.
LEMMA ValidateFollows ==
    ASSUME Sound, GoldenScope, Follows, Serving, CtlStep,
           ValidateReject \/ ValidateFast \/ ValidateManager
    PROVE  Follows'
<1> DEFINE b == shown.book
<1>1. /\ Book' = Book /\ trades' = trades /\ in' = in /\ shown' = shown
      /\ sent' = sent /\ mgr = "IDLE" /\ mat = "M_IDLE" /\ ctl' # "C_VALIDATE"
      /\ PulseTells' /\ Resumes' /\ cmd.id = in.id
  BY ControllerAtWorkFacts
<1>2. ctl = "C_VALIDATE" /\ cmd' = cmd /\ Mem!InitDone /\ ctl # "C_IDLE"
  BY DEF ValidateReject, ValidateFast, ValidateManager, Validating
<1>3. Untouched(b, in, cmd, trades, Book) /\ Working
  BY <1>2 DEF Follows, ControllerServes
<1>4. cmd = in /\ trades = <<>> /\ Book = Listed(b) /\ in \in AllCommands
  BY <1>2, <1>3 DEF Untouched, Working
<1>5. Working'
  BY <1>2, <1>1, <1>3, WorkingStays DEF Working
<1>6. BadField <=> ~FieldsOK(in)
  BY <1>4, FieldsAgree
<1>7. CASE ValidateReject
  <2>1. ack' = AckOf("BAD_FIELD", 0) /\ BadField /\ NoStart
    BY <1>7 DEF ValidateReject
  <2>2. Outcome(b, in, "BAD_FIELD", 0, trades, Book)
    BY <1>4, <1>6, <2>1 DEF Outcome, RefusedAs, Unchanged
  <2>3. ControllerServes'
    BY <1>1, <2>1, <2>2, AckFollows
  <2> QED BY <1>1, <1>5, <2>1, <2>3, NobodyStarted DEF Follows
<1>8. CASE ValidateFast
  <2>1. /\ ~BadField /\ FastCross /\ ctl' = "C_FAST" /\ mgr' = mgr
        /\ mat' = "F_CHECK" /\ xr'.rem = cmd.qty
    BY <1>8 DEF ValidateFast, MatStart, ZeroMatRegs, mgrVars
  <2>2. FastPathEnable /\ in.type = "ADD" /\ FieldsOK(in) /\ ~Mem!FreeEmpty
    BY <1>4, <1>6, <2>1 DEF FastCross
  <2>3. Room(b)
    BY <1>1, <1>2, <1>4, <2>2, RoomLeft DEF Room
  <2>4. \A o \in Listed(b) : o.id # in.id
    BY <1>2, <1>3, <2>2 DEF Working
  <2>5. Addable(b, in)
    BY <2>2, <2>3, <2>4 DEF Addable, Known
  <2>6. At(Start(b, in), <<>>, {o \in Listed(b) : o.id # in.id} \union {OrderOf(in)})
    BY <1>2, <1>3, <1>4, <2>4, <2>5, StartListed DEF Working, Linkable
  <2>7. Unfilled(in, in.qty) = {OrderOf(in)}
    <3>1. in.qty \in Nat \ {0}
      BY <1>4, <2>2, FieldsGood
    <3>2. [OrderOf(in) EXCEPT !.qty = in.qty] = OrderOf(in)
      BY DEF OrderOf
    <3> QED BY <3>1, <3>2 DEF Unfilled
  <2>8. {o \in Listed(b) : o.id # in.id} = Book
    BY <1>4, <2>4
  <2>9. FastAt(b, in, cmd, trades, Book, xr'.rem)
    BY <1>4, <2>1, <2>2, <2>4, <2>5, <2>6, <2>7, <2>8 DEF FastAt
  <2>10. MatcherServing'
    BY <1>1, <1>2, <2>1, <2>9 DEF MatcherServing
  <2>11. ManagerServing' /\ ControllerServes'
    BY <1>1, <2>1, ManagerEnds DEF ControllerServes
  <2> QED BY <1>1, <1>5, <2>10, <2>11 DEF Follows
<1>9. CASE ValidateManager
  <2>1. /\ ~BadField /\ ctl' \in {"C_ENQ", "C_MODIFY", "C_MGR"} /\ mat' = mat
        /\ cmd.type = "ADD" => mgr' = "ENQ_GET_SLOT"
        /\ cmd.type # "ADD" => mgr' = "LU" /\ mr'.op = cmd.type
    <3>1. cmd.type \in MsgType
      BY <1>4 DEF AllCommands
    <3> QED BY <1>9, <3>1 DEF ValidateManager, MgrStart, ZeroRegs, matVars, MsgType
  <2>2. FieldsOK(in)
    BY <1>6, <2>1
  <2>3. MatcherServing' /\ ControllerServes'
    BY <1>1, <2>1 DEF MatcherServing, ControllerServes
  <2>4. CASE cmd.type = "ADD"
    <3>1. Entering(b, in, cmd, trades, Book)
      BY <1>3, <1>4, <2>2, <2>4 DEF Entering
    <3> QED BY <1>1, <1>2, <1>5, <2>1, <2>3, <2>4, <3>1
            DEF ManagerServing, Linking, Removing, Deleting, Follows
  <2>5. CASE cmd.type # "ADD"
    <3>1. Looking(b, in, cmd, trades, Book)
      BY <1>3, <2>2 DEF Looking
    <3>2. cmd.type # "QUERY"
      <4>1. cmd.type \in MsgType
        BY <1>4 DEF AllCommands
      <4> QED BY <4>1 DEF MsgType
    <3> QED BY <1>1, <1>2, <1>5, <2>1, <2>3, <2>5, <3>1, <3>2
            DEF ManagerServing, Linking, Removing, Deleting, Follows
  <2> QED BY <2>4, <2>5
<1> QED BY <1>7, <1>8, <1>9

\* The end of the fast path.
LEMMA FastEndFollows ==
    ASSUME Sound, HeldAreOccupied, Follows, Serving, CtlStep, FastFilled \/ FastRemainder
    PROVE  Follows'
<1> DEFINE b == shown.book
           r == resp.qty
<1>1. /\ Book' = Book /\ trades' = trades /\ in' = in /\ shown' = shown /\ View = pool
      /\ sent' = sent /\ mgr = "IDLE" /\ mat = "M_IDLE" /\ ctl' # "C_VALIDATE"
      /\ PulseTells' /\ Resumes' /\ cmd.id = in.id
  BY ControllerAtWorkFacts
<1>2. ctl = "C_FAST" /\ resp.kind = "match" /\ Working
  BY DEF FastFilled, FastRemainder, Hears, Follows
<1>3. Bpe!InitDone
  BY <1>2 DEF Sound, IInv, ValidatedFirst, Waiting
<1>4. FastAt(b, in, cmd, trades, Book, r)
  BY <1>2 DEF Follows, PulseTells
<1>5. /\ Addable(b, in) /\ FastPathEnable /\ cmd = in /\ \A o \in Book : o.id # in.id
      /\ At(Start(b, in), trades, Book \union Unfilled(in, r))
  BY <1>4 DEF FastAt
<1>6. CASE FastFilled
  <2>1. r = 0 /\ ack' = AckOf("OK", 0) /\ NoStart /\ cmd' = cmd
    BY <1>6 DEF FastFilled
  <2>2. At(Start(b, in), trades, Book)
    <3>1. Book \union Unfilled(in, r) = Book
      BY <2>1 DEF Unfilled
    <3> QED BY <1>5, <3>1
  <2>3. \A l \in occ["BUY"], a \in occ["SELL"] : l < a
    BY <1>2, <1>3 DEF Sound, BookInv, Uncrossed, MayCross
  <2>4. Leaves(Start(b, in), trades, Book)
    BY <1>1, <1>3, <2>2, <2>3, MarksApart, AtEnd
  <2>5. Outcome(b, in, "OK", 0, trades, Book)
    BY <1>5, <2>4 DEF Outcome, MatchedAs, Linkable, Left
  <2>6. ControllerServes'
    BY <1>1, <2>1, <2>5, AckFollows
  <2>7. Working'
    BY <1>1, <1>2, <2>1, WorkingStays DEF Working
  <2> QED BY <1>1, <2>1, <2>6, <2>7, NobodyStarted DEF Follows
<1>7. CASE FastRemainder
  <2>1. /\ r # 0 /\ cmd' = [cmd EXCEPT !.qty = r] /\ mgr' = "ENQ_GET_SLOT" /\ mat' = mat
        /\ ctl' = "C_ENQ"
    BY <1>7 DEF FastRemainder, MgrStart, matVars
  <2>2. in \in AllCommands
    BY <1>2 DEF Working
  <2>3. cmd'.qty = r /\ cmd' = [in EXCEPT !.qty = cmd'.qty]
    BY <1>5, <2>1, <2>2 DEF AllCommands
  <2>4. OrderOf(cmd') = [OrderOf(in) EXCEPT !.qty = r]
    BY <1>5, <2>1, <2>2 DEF OrderOf, AllCommands
  <2>5. Arriving(b, in, cmd', trades, Book)
    BY <1>5, <2>1, <2>4 DEF Arriving, Unfilled, Linkable
  <2>6. Entering(b, in, cmd', trades, Book)
    BY <1>5, <2>5 DEF Entering, Addable
  <2>7. Working'
    BY <1>1, <1>2, <2>3, WorkingStays
  <2>8. ManagerServing' /\ MatcherServing' /\ ControllerServes'
    BY <1>1, <2>1, <2>6
       DEF ManagerServing, MatcherServing, ControllerServes, Linking, Removing, Deleting
  <2> QED BY <1>1, <2>7, <2>8 DEF Follows
<1> QED BY <1>6, <1>7

\* Answers, and the start of the drain and of the query.
LEMMA HearingFollows ==
    ASSUME Sound, Follows, Serving, CtlStep,
           EnqRejected \/ Enqueued \/ MgrAcked \/ Moved \/ Drained \/ Queried \/ Settle
    PROVE  Follows'
<1> DEFINE b == shown.book
<1>1. /\ Book' = Book /\ trades' = trades /\ in' = in /\ shown' = shown
      /\ sent' = sent /\ mgr = "IDLE" /\ mat = "M_IDLE" /\ ctl' # "C_VALIDATE"
      /\ PulseTells' /\ Resumes' /\ cmd.id = in.id
  BY ControllerAtWorkFacts
<1>2. cmd' = cmd /\ ctl # "C_IDLE"
  BY DEF EnqRejected, Enqueued, MgrAcked, Moved, Drained, Queried, Settle, Hears, StartDrain,
         Serving
<1>3. Working /\ PulseTells /\ ControllerServes
  BY DEF Follows
<1>4. Working'
  BY <1>1, <1>2, <1>3, WorkingStays DEF Working
<1>5. CASE EnqRejected
  <2>1. /\ resp.kind = "enq" /\ resp.status # "OK" /\ ack' = AckOf(resp.status, 0) /\ NoStart
    BY <1>5 DEF EnqRejected, Hears
  <2>2. Outcome(b, in, resp.status, 0, trades, Book)
    BY <1>3, <2>1 DEF PulseTells
  <2>3. ControllerServes'
    BY <1>1, <2>1, <2>2, AckFollows
  <2> QED BY <1>1, <1>4, <2>1, <2>3, NobodyStarted DEF Follows
<1>6. CASE MgrAcked
  <2>1. resp.kind = "ack" /\ ack' = AckOf(resp.status, resp.qty) /\ NoStart
    BY <1>6 DEF MgrAcked, Hears
  <2>2. Outcome(b, in, resp.status, resp.qty, trades, Book)
    BY <1>3, <2>1 DEF PulseTells
  <2>3. ControllerServes'
    BY <1>1, <2>1, <2>2, AckFollows
  <2> QED BY <1>1, <1>4, <2>1, <2>3, NobodyStarted DEF Follows
<1>7. CASE Queried
  <2>1. resp.kind = "query" /\ ack' = AckOf("OK", resp.qty) /\ NoStart
    BY <1>7 DEF Queried, Hears
  <2>2. Outcome(b, in, "OK", resp.qty, trades, Book)
    BY <1>3, <2>1 DEF PulseTells
  <2>3. ControllerServes'
    BY <1>1, <2>1, <2>2, AckFollows
  <2> QED BY <1>1, <1>4, <2>1, <2>3, NobodyStarted DEF Follows
<1>8. CASE Settle
  <2>1. ctl = "C_SETTLE" /\ ack' = AckOf(ack.status, ack.rem) /\ NoStart
    BY <1>8 DEF Settle
  <2>2. Outcome(b, in, ack.status, ack.rem, trades, Book)
    BY <1>3, <2>1 DEF ControllerServes
  <2>3. ControllerServes'
    BY <1>1, <2>1, <2>2, AckFollows
  <2> QED BY <1>1, <1>4, <2>1, <2>3, NobodyStarted DEF Follows
<1>9. CASE Enqueued \/ Moved
  <2>1. /\ mgr' = mgr /\ mat' = "M_CHECK" /\ ctl' = "C_DRAIN"
        /\ \/ resp.kind = "enq" /\ resp.status = "OK"
           \/ resp.kind = "moved"
    BY <1>9 DEF Enqueued, Moved, Hears, StartDrain, MatStart, mgrVars
  <2>2. Entered(b, in, trades, Book)
    BY <1>3, <2>1 DEF PulseTells
  <2>3. MatcherServing' /\ ManagerServing' /\ ControllerServes'
    BY <1>1, <2>1, <2>2, ManagerEnds DEF MatcherServing, ControllerServes
  <2> QED BY <1>1, <1>4, <2>3 DEF Follows
<1>10. CASE Drained
  <2>1. /\ mgr' = "LU" /\ mr'.op = "QUERY" /\ mat' = mat /\ ctl = "C_DRAIN" /\ ctl' = "C_QUERY"
        /\ resp.kind = "match"
    BY <1>10 DEF Drained, Hears, MgrStart, ZeroRegs, matVars
  <2>2. Finished(b, in, trades, Book)
    BY <1>3, <2>1 DEF PulseTells
  <2>3. MatcherServing' /\ ManagerServing' /\ ControllerServes'
    BY <1>1, <2>1, <2>2
       DEF MatcherServing, ControllerServes, ManagerServing, Linking, Removing, Deleting
  <2> QED BY <1>1, <1>4, <2>3 DEF Follows
<1> QED BY <1>5, <1>6, <1>7, <1>8, <1>9, <1>10

\* Every step of the controller within a command.
LEMMA ControllerFollows ==
    ASSUME Sound, HeldAreOccupied, GoldenScope, Follows, Serving, CtlStep
    PROVE  Follows'
<1>1. ~SendAck
  BY DEF SendAck, Serving
<1> QED BY <1>1, ValidateFollows, FastEndFollows, HearingFollows DEF CtlStep

-----------------------------------------------------------------------------
(* The clock, the host and idle edges.                                       *)

\* Between commands nobody works and there is no pulse.
LEMMA IdleFollows ==
    ASSUME ctl' = "C_IDLE", mgr' = "IDLE", mat' = "M_IDLE", resp' = NoResp,
           shown' = Shown', in'.ts = sent'
    PROVE  Follows'
<1>1. ManagerServing' /\ PulseTells'
  BY ManagerEnds, NoPulse
<1>2. MatcherServing' /\ ControllerServes' /\ Working' /\ Resumes'
  BY DEF MatcherServing, ControllerServes, Working, Resumes
<1> QED BY <1>1, <1>2 DEF Follows

\* The walks follow pool and levels.
LEMMA ViewSame == ASSUME UNCHANGED <<pool, lvl>> PROVE BookView' = BookView
  BY DEF BookView, Queue

\* The clock edges that no FSM decides.
LEMMA BackgroundFollows ==
    ASSUME Sound, Follows, Background, in' = in,
           shown' = IF ctl' = "C_IDLE" THEN Shown' ELSE shown
    PROVE  Follows' /\ shown' = shown
<1>1. UNCHANGED Others
  BY DEF Background, MemInit, EncoderInit, Scan
<1>2. /\ ctl' = ctl /\ cmd' = cmd /\ ack' = ack /\ sent' = sent /\ trades' = trades
      /\ resp' = resp /\ mgr' = mgr /\ mr' = mr /\ mat' = mat /\ xr' = xr /\ lvl' = lvl
  BY <1>1 DEF Others, ctlVars, mgrVars, matVars
<1>3. Book' = Book
  BY OthersShowSame
<1>4. CASE ctl # "C_IDLE"
  <2>1. shown' = shown
    BY <1>2, <1>4
  <2>2. mat \in {"M_TRADE", "F_TRADE"} => best' = best
    <3> SUFFICES ASSUME mat \in {"M_TRADE", "F_TRADE"} PROVE best' = best
      OBVIOUS
    <3>1. Bpe!InitDone /\ Mem!InitDone
      BY MatcherRests
    <3>2. ctl \in {"C_FAST", "C_DRAIN"}
      BY MatcherRests
    <3>3. \A s \in Side : ~Bpe!Busy(s)
      BY <3>2 DEF Sound, IInv, SettledWhenUsed, MayScan
    <3>4. ~Bpe!RefreshBusy
      BY <3>1, <3>3 DEF Bpe!RefreshBusy, Side, Bpe!Side
    <3> QED BY <3>1, <3>4 DEF Background, MemInit, EncoderInit, Scan, Bpe!InitEdge, bpeVars
  <2>3. /\ mat = "M_TRADE" /\ Crossed => Crossed'
        /\ mat = "F_TRADE" /\ FastCrosses => FastCrosses'
    BY <1>2, <2>2 DEF Crossed, FastCrosses, Passive, BestOf
  <2>4. MatcherServing /\ ManagerServing /\ PulseTells /\ Working /\ ControllerServes
    BY DEF Follows
  <2>5. MatcherServing'
    BY <1>2, <1>3, <2>1, <2>3, <2>4 DEF MatcherServing, Passive
  <2>6. ManagerServing'
    BY <1>2, <1>3, <2>1, <2>4 DEF ManagerServing
  <2>7. PulseTells' /\ Working' /\ ControllerServes' /\ Resumes'
    BY <1>2, <1>3, <1>4, <2>1, <2>4 DEF PulseTells, Working, ControllerServes, Resumes
  <2> QED BY <2>1, <2>5, <2>6, <2>7 DEF Follows
<1>5. CASE ctl = "C_IDLE"
  <2>1. mgr = "IDLE" /\ mat = "M_IDLE" /\ resp = NoResp
    BY <1>5 DEF Sound, IInv, OneAtATime, Waiting, AtRest
  <2>2. shown = Shown /\ in.ts = sent
    BY <1>5 DEF Follows, Resumes
  <2>3. pool' = pool
    BY DEF Background, MemInit, EncoderInit, Scan, Mem!InitEdge, memVars
  <2>4. shown' = Shown' /\ Shown' = Shown
    BY <1>2, <1>5, <2>3, ViewSame DEF Shown
  <2>5. Follows'
    BY <1>2, <1>5, <2>1, <2>2, <2>4, IdleFollows
  <2> QED BY <2>2, <2>4, <2>5
<1> QED BY <1>4, <1>5

\* A command is taken.
LEMMA TakeFollows ==
    ASSUME Sound, GoldenScope, Follows, NEW c \in Command, Take(c)
    PROVE  Follows'
<1>1. /\ ctl = "C_IDLE" /\ sent < MaxCommands /\ HostMay(c) /\ ctl' = "C_VALIDATE"
      /\ cmd' = c /\ sent' = c.ts /\ trades' = <<>> /\ resp' = resp /\ mgr' = mgr /\ mat' = mat
      /\ in' = c /\ shown' = shown
  BY DEF Take, Accept, NoStart, mgrVars, matVars
<1>2. /\ mgr = "IDLE" /\ mat = "M_IDLE" /\ resp = NoResp
  BY <1>1 DEF Sound, IInv, OneAtATime, Waiting, AtRest
<1>3. shown = Shown /\ in.ts = sent
  BY <1>1 DEF Follows, Resumes
<1>4. Book' = Book
  BY OthersShowSame DEF Take
<1>5. sent \in Nat /\ sent + 1 \in 1 .. MaxCommands
  BY <1>1, BoundAssumption DEF Sound, IInv, TypeOK, ControlTypeOK
<1>6. /\ c \in [type : MsgType, side : Side, id : Ids, price : HostPrices,
                qty : Qty, ts : {sent + 1}]
      /\ c.ts = sent + 1
  BY DEF Command
<1>7. c \in AllCommands
  BY <1>5, <1>6 DEF AllCommands
<1>8. Lists(shown.book, Book)
  <2>1. View = pool
    BY <1>2, RestsWhenIdle
  <2> QED BY <1>3, <2>1, BookListed DEF Shown
<1>9. Listed(shown.book) = Book /\ Orders(Book)
  BY <1>8, BookIds, ListedIs DEF Orders
<1>10. Standing(shown.book)
  BY <1>8, <1>9 DEF Standing
<1>11. \A o \in Book : o.ts < c.ts
  <2>1. \A x \in Resting : pool[x].ts <= sent
    BY DEF Sound, BookInv, Timely
  <2>2. \A x \in Resting : pool[x].ts < c.ts
    BY <1>5, <1>6, <2>1, RestingOrder
  <2> QED BY <2>2, ShapeFields DEF Book
<1>12. ASSUME NEW o \in Book, o.id = c.id
       PROVE  (c.type = "MODIFY" => o.side = c.side) /\ (FastPathEnable => c.type # "ADD")
  <2>1. PICK x \in Resting : o = Shape(pool[x])
    BY DEF Book
  <2>2. pool[x].id = c.id /\ o.side = pool[x].side
    BY <1>12, <2>1, ShapeFields
  <2>3. ids[c.id] = x /\ x # NULL
    BY <2>2, RestingOrder
  <2> QED BY <1>1, <2>2, <2>3 DEF HostMay, GoldenScope
<1>13. Working'
  <2>1. shown.cmd.ts + 1 = c.ts
    BY <1>3, <1>6 DEF Shown
  <2>2. c = [c EXCEPT !.qty = c.qty]
    BY <1>6
  <2> QED BY <1>1, <1>7, <1>9, <1>10, <1>11, <1>12, <2>1, <2>2 DEF Working
<1>14. ControllerServes'
  BY <1>1, <1>4, <1>9 DEF ControllerServes, Untouched
<1>15. ManagerServing' /\ PulseTells' /\ MatcherServing' /\ Resumes'
  BY <1>1, <1>2, ManagerEnds, NoPulse DEF MatcherServing, Resumes
<1> QED BY <1>13, <1>14, <1>15 DEF Follows

-----------------------------------------------------------------------------
(* The acknowledgement.                                                      *)

\* The price shown for a side is the best of the book.
LEMMA ShownIsBest ==
    ASSUME Sound, HeldAreOccupied, Quiet, Lists(BookView, Book), NEW s \in Side
    PROVE  Golden!Shown(BookView, s) = StatusBest(s)
<1>1. Bpe!InitDone /\ ctl \in {"C_IDLE", "C_ACK"}
  BY DEF Quiet
<1>2. AtRest
  BY <1>1 DEF Sound, IInv, OneAtATime, Waiting
<1>3. View = pool
  BY <1>2, RestsWhenIdle DEF AtRest
<1>4. Orders(Book)
  BY BookIds
<1>5. CASE best[s].valid
  <2> DEFINE x == Shape(pool[lvl[s][BestOf(s)].head])
  <2>1. Leading(Book, s, x) /\ x.price = BestOf(s)
    BY <1>1, <1>3, <1>5, HeadLeads, ShapeFields
  <2> HIDE DEF x
  <2>2. Golden!Best(BookView, s) = BestOf(s) /\ Golden!Prices(BookView, s) # {}
    BY <1>4, <2>1, LeadingFirst
  <2> QED BY <1>5, <2>2 DEF Golden!Shown, StatusBest, BestOf
<1>6. CASE ~best[s].valid
  <2>1. {l \in Level : lvl[s][l].head # NULL} = {} /\ occ[s] = {l \in Level : lvl[s][l].head # NULL}
    BY <1>6, BestFollows DEF BestIsTheBooks
  <2>2. \A o \in Book : o.side # s
    BY <1>1, <1>3, <2>1, BookMarked
  <2>3. Golden!Prices(BookView, s) = {}
    BY <1>4, <2>2, PricesListed
  <2> QED BY <1>6, <2>3 DEF Golden!Shown, StatusBest
<1> QED BY <1>5, <1>6

\* The command is finished: the reference makes the same step.
LEMMA SendFollows ==
    ASSUME Sound, HeldAreOccupied, AckShows, Follows, SendAck, in' = in, shown' = Shown'
    PROVE  Follows' /\ Golden!Next
<1>1. /\ ctl = "C_ACK" /\ ctl' = "C_IDLE" /\ mgr' = mgr /\ mat' = mat
      /\ pool' = pool /\ lvl' = lvl /\ resp' = resp /\ trades' = trades
      /\ ack' = ack /\ sent' = sent
  BY DEF SendAck, NoStart, mgrVars, matVars, memVars
<1>2. mgr = "IDLE" /\ mat = "M_IDLE" /\ resp = NoResp
  BY <1>1 DEF Sound, IInv, OneAtATime, Waiting, AtRest
<1>3. Mem!InitDone /\ Bpe!InitDone /\ Quiet
  BY <1>1 DEF AckShows, Quiet
<1>4. /\ in \in AllCommands /\ in.ts = sent /\ shown.cmd.ts + 1 = sent /\ Standing(shown.book)
      /\ Outcome(shown.book, in, ack.status, ack.rem, trades, Book) /\ ack.id = in.id
  BY <1>1 DEF Follows, Working, ControllerServes
<1>5. Follows'
  BY <1>1, <1>2, <1>4, IdleFollows
<1>6. shown'.book = BookView /\ shown'.cmd = in /\ shown'.trades = trades /\ shown'.ack = ack
  BY <1>1, ViewSame DEF Shown
<1>7. Lists(BookView, Book)
  BY <1>2, RestsWhenIdle, BookListed
<1>8. /\ ack.bid = Golden!Shown(BookView, "BUY") /\ ack.ask = Golden!Shown(BookView, "SELL")
  BY <1>1, <1>3, <1>7, ShownIsBest DEF AckShows, Side
<1>9. ack.n = Golden!Cardinality(Golden!Places(BookView))
  <2>1. ack.n = Cardinality(Resting)
    BY <1>1, <1>2, <1>3, HeightCounts DEF AckShows
  <2> QED BY <1>7, <2>1, BookIds, OrdersListed
<1>10. ack = [status |-> ack.status, id |-> in.id, rem |-> ack.rem,
              bid |-> Golden!Shown(BookView, "BUY"),
              ask |-> Golden!Shown(BookView, "SELL"),
              n |-> Golden!Cardinality(Golden!Places(BookView))]
  <2>1. ack \in AckRec
    BY DEF Sound, IInv, TypeOK, ControlTypeOK
  <2>2. ack = [status |-> ack.status, id |-> ack.id, rem |-> ack.rem, bid |-> ack.bid,
               ask |-> ack.ask, n |-> ack.n]
    BY <2>1 DEF AckRec
  <2> QED BY <1>4, <1>8, <1>9, <2>2
<1>11. Golden!Process(in)
  BY <1>4, <1>6, <1>7, <1>10, BookIds, ProcessFollows
<1>12. in.ts = shown.cmd.ts + 1
  BY <1>4
<1> QED BY <1>4, <1>5, <1>11, <1>12 DEF Golden!Next

-----------------------------------------------------------------------------
(* The engine.                                                               *)

\* Only the acknowledgement ends a command.
LEMMA OnlySendAckEnds ==
    ASSUME CtlStep, ~SendAck
    PROVE  ctl # "C_IDLE" /\ ctl' # "C_IDLE"
<1>1. CASE ValidateReject \/ ValidateFast \/ ValidateManager
  BY <1>1 DEF ValidateReject, ValidateFast, ValidateManager, Validating
<1>2. CASE FastFilled \/ FastRemainder \/ EnqRejected \/ Enqueued
  BY <1>2 DEF FastFilled, FastRemainder, EnqRejected, Enqueued, Hears, StartDrain
<1>3. CASE MgrAcked \/ Moved \/ Drained \/ Queried \/ Settle
  BY <1>3 DEF MgrAcked, Moved, Drained, Queried, Hears, StartDrain, Settle
<1> QED BY <1>1, <1>2, <1>3 DEF CtlStep

\* Nothing follows from nothing.
LEMMA StutterFollows == ASSUME Follows, UNCHANGED <<vars, historyVars>> PROVE Follows'
<1>1. /\ UNCHANGED <<pool, free, initCnt, occ, best, initIdx, lvl, ids, resp, trades, mgr, mr>>
      /\ UNCHANGED <<mat, xr, ctl, cmd, ack, sent, in, shown>>
  BY DEF vars, historyVars, memVars, bpeVars, mgrVars, matVars, ctlVars
<1>2. Resting' = Resting
  BY <1>1 DEF Resting, Mapped, InHand, Dropped, Unmapping, Passive
<1>3. Book' = Book
  BY <1>1, <1>2 DEF Book
<1>4. Shown' = Shown
  BY <1>1, ViewSame DEF Shown
<1>5. Crossed' = Crossed /\ FastCrosses' = FastCrosses /\ Passive' = Passive
  BY <1>1 DEF Crossed, FastCrosses, Passive, BestOf
<1>6. Resumes' /\ Working' /\ ControllerServes'
  BY <1>1, <1>3, <1>4 DEF Follows, Resumes, Working, ControllerServes
<1>7. ManagerServing' /\ PulseTells'
  BY <1>1, <1>3 DEF Follows, ManagerServing, PulseTells
<1>8. MatcherServing'
  BY <1>1, <1>3, <1>5 DEF Follows, MatcherServing
<1> QED BY <1>6, <1>7, <1>8 DEF Follows

\* Every step of the engine is a step of the reference, or none.
LEMMA StepFollows ==
    ASSUME Sound, HeldAreOccupied, AckShows, GoldenScope, Follows,
           [CheckNext]_<<vars, historyVars>>
    PROVE  Follows' /\ [Golden!Next]_(Golden!vars)
<1>1. shown' = shown => [Golden!Next]_(Golden!vars)
  BY DEF Golden!vars
<1>2. CASE \E c \in Command : Take(c)
  BY <1>1, <1>2, TakeFollows DEF Take
<1>3. CASE Work
  <2>1. in' = in /\ shown' = IF ctl' = "C_IDLE" THEN Shown' ELSE shown
    BY <1>3 DEF Work
  <2>2. CASE SendAck
    <3>1. shown' = Shown'
      BY <2>1, <2>2 DEF SendAck
    <3> QED BY <2>1, <2>2, <3>1, SendFollows
  <2>3. CASE CtlStep /\ ~SendAck
    <3>1. Serving
      BY <2>1, <2>3, OnlySendAckEnds DEF Serving
    <3> QED BY <1>1, <2>3, <3>1, ControllerFollows DEF Serving
  <2>4. CASE MgrStep /\ UNCHANGED <<matVars, ctlVars>>
    <3>1. mgr # "IDLE"
      BY <2>4, ManagerSteps
    <3>2. Serving
      BY <2>1, <2>4, <3>1, ManagerAtWorkFacts DEF Serving, ctlVars
    <3> QED BY <1>1, <2>4, <3>2, ManagerFollows DEF Serving
  <2>5. CASE MatStep /\ UNCHANGED <<mgrVars, ctlVars>>
    <3>1. Serving
      BY <2>1, <2>5, MatcherAtWorkFacts DEF Serving
    <3> QED BY <1>1, <2>5, <3>1, MatcherFollows DEF Serving
  <2>6. CASE Background
    BY <1>1, <2>1, <2>6, BackgroundFollows
  <2> QED BY <1>3, <2>2, <2>3, <2>4, <2>5, <2>6 DEF Work, EngineStep
<1>4. CASE UNCHANGED <<vars, historyVars>>
  <2>1. shown' = shown
    BY <1>4 DEF historyVars
  <2>2. Follows'
    BY <1>4, StutterFollows
  <2> QED BY <1>1, <2>1, <2>2
<1> QED BY <1>2, <1>3, <1>4 DEF CheckNext

\* At power-up both books are empty.
LEMMA PowerUpFollows == CheckInit => Golden!Init /\ Follows
<1> SUFFICES ASSUME CheckInit PROVE Golden!Init /\ Follows
  OBVIOUS
<1>1. /\ Init /\ in = ZeroCmd /\ shown = Shown
  BY DEF CheckInit
<1>2. /\ ctl = "C_IDLE" /\ mgr = "IDLE" /\ mat = "M_IDLE" /\ resp = NoResp /\ trades = <<>>
      /\ ack = ZeroAck /\ sent = 0 /\ BookEmpty
  BY <1>1 DEF Init, BookEmpty
<1>3. Follows
  BY <1>1, <1>2
     DEF Follows, Resumes, Working, ControllerServes, ManagerServing, PulseTells,
         MatcherServing, NoResp, ZeroCmd, Linking, Removing, Deleting
<1>4. Sound
  BY <1>1, SoundAtPowerUp
<1>5. Lists(BookView, Book)
  BY <1>2, <1>4, RestsWhenIdle, BookListed
<1>6. Book = {}
  BY <1>2, EmptyRests DEF Book
<1>7. BookView = [s \in Side |-> [l \in Level |-> <<>>]]
  <2> DEFINE e == [s \in Side |-> [l \in Level |-> <<>>]]
  <2>1. BookView \in Books
    BY <1>5 DEF Lists
  <2>2. ASSUME NEW s \in Side, NEW l \in Level PROVE BookView[s][l] = <<>>
    <3>1. Ordered(BookView[s][l], EntriesAt(Book, s, l))
      BY <1>5 DEF Lists
    <3>2. EntriesAt(Book, s, l) = {}
      BY <1>6 DEF EntriesAt
    <3>3. BookView[s][l] \in Seq(Entry) /\ Len(BookView[s][l]) \in Nat
          /\ \A n \in 1 .. Len(BookView[s][l]) : FALSE
      BY <3>1, <3>2, OrderedHolds
    <3>4. Len(BookView[s][l]) = 0
      BY <3>3
    <3> QED BY <3>3, <3>4
  <2>3. \A s \in Side : BookView[s] \in [Level -> Seq(Entry)]
    BY <2>1 DEF Books
  <2>4. \A s \in Side : BookView[s] = [l \in Level |-> <<>>]
    BY <2>2, <2>3
  <2>5. BookView = [s \in Side |-> BookView[s]]
    BY <2>1 DEF Books
  <2> QED BY <2>4, <2>5
<1>8. Golden!Init
  BY <1>1, <1>2, <1>7, GoldenWords DEF Golden!Init, Golden!ZeroCmd, ZeroCmd, ZeroAck, Shown
<1> QED BY <1>3, <1>8

\* The comparison runs the engine.
LEMMA CheckRunsEngine ==
    /\ CheckInit => Init
    /\ [CheckNext]_<<vars, historyVars>> => [Next]_vars
  BY DEF CheckInit, CheckNext, Take, Work, Next

\* The engine implements the price-time book: whatever path served a command (fast
\* path, enqueue and drain, manager) and however the encoder's scans fell, the
\* memories, the trades and the acknowledgement after it are the ones the reference
\* gives, command for command, in every run in which the level totals keep their
\* width.  golden_check.py compares the two on generated streams.
THEOREM EngineMatchesGolden ==
    ASSUME GoldenScope PROVE CheckSpec /\ []TotalsFit => MatchesGolden
<1>1. ScopeOfBook
  BY DEF GoldenScope
<1>2. CheckSpec => Spec
  BY CheckRunsEngine, PTL DEF CheckSpec, Spec
<1>3. Sound /\ HeldAreOccupied /\ AckShows /\ Follows /\ [CheckNext]_<<vars, historyVars>>
        => Follows' /\ [Golden!Next]_(Golden!vars)
  BY StepFollows
<1>4. CheckInit => Golden!Init /\ Follows
  BY PowerUpFollows
<1>5. Spec => []Sound
  BY <1>1, SoundAlways
<1>6. Spec /\ []TotalsFit => []HeldAreOccupied
  BY <1>1, MarksAlwaysComplete
<1>7. CheckSpec /\ []TotalsFit => Golden!Init /\ [][Golden!Next]_(Golden!vars)
  BY <1>2, <1>3, <1>4, <1>5, <1>6, AckShowsAlways, PTL DEF CheckSpec
<1> QED BY <1>7 DEF MatchesGolden, Golden!Spec
=============================================================================
