-------------------------- MODULE OrderFlowProofs --------------------------
(***************************************************************************)
(* The Python book and the feed that carries it, for every range of prices   *)
(* and quantities and every number of batches and faults.                    *)
(*                                                                         *)
(* First the class OrderBook, from the bottom: the numbers and the sequences *)
(* a level is made of; a sound book, and what every method leaves of it; the *)
(* turns of the matching loop; who queues before whom; what an aggressive    *)
(* order trades with.                                                        *)
(*                                                                         *)
(* Then the flow: the generator's batches are ones its mirror took, both     *)
(* books stay sound, and the consumer's counts tell how far it has read: the *)
(* generator's events and the messages of a batch; what the reference makes  *)
(* of a message; a batch replayed; the feed, its faults, and the theorems;   *)
(* the mirror in the order of time and price; the mirror as the abstract     *)
(* price-time book; the types.                                               *)
(***************************************************************************)
EXTENDS OrderFlow, FiniteSetTheorems, WellFoundedInduction, SequenceTheorems, TLAPS

-----------------------------------------------------------------------------
(* Numbers.                                                                  *)

\* A nonempty set of naturals has a least element.
LEMMA LeastOf ==
    ASSUME NEW T, T \subseteq Nat, T # {}
    PROVE  \E m \in T : \A n \in T : m <= n
<1> DEFINE R == OpToRel(<, Nat)
<1>1. IsWellFoundedOn(R, Nat)
  BY NatLessThanWellFounded
<1>2. PICK m \in T : \A n \in T : <<n, m>> \notin R
  <2> HIDE DEF R
  <2> QED BY <1>1, WFMin
<1>3. ASSUME NEW n \in T PROVE m <= n
  <2>1. <<n, m>> \notin R
    BY <1>2
  <2>2. ~(n < m)
    BY <2>1 DEF OpToRel
  <2> QED BY <2>2
<1> QED BY <1>2, <1>3

\* A nonempty set of naturals that is bounded has a greatest element.
LEMMA GreatestOf ==
    ASSUME NEW T, T \subseteq Nat, T # {}, NEW k \in Nat, \A n \in T : n <= k
    PROVE  \E m \in T : \A n \in T : n <= m
<1> DEFINE U == {n \in 0 .. k : k - n \in T}
<1>1. U \subseteq Nat
  OBVIOUS
<1>2. U # {}
  <2>1. PICK n \in T : TRUE
    OBVIOUS
  <2>2. k - n \in 0 .. k /\ k - (k - n) = n
    OBVIOUS
  <2> QED BY <2>1, <2>2
<1>3. PICK u \in U : \A n \in U : u <= n
  <2> HIDE DEF U
  <2> QED BY <1>1, <1>2, LeastOf
<1>4. ASSUME NEW n \in T PROVE n <= k - u
  <2>1. k - n \in U
    <3>1. k - n \in 0 .. k /\ k - (k - n) = n
      OBVIOUS
    <3> QED BY <3>1
  <2>2. u <= k - n
    BY <1>3, <2>1
  <2> QED BY <2>2
<1>5. k - u \in T
  OBVIOUS
<1> QED BY <1>4, <1>5

\* The smaller and the larger of two numbers.
LEMMA TwoNumbers ==
    ASSUME NEW a \in Int, NEW b \in Int
    PROVE  /\ Min({a, b}) = IF a <= b THEN a ELSE b
           /\ Max({a, b}) = IF a >= b THEN a ELSE b
<1>1. Min({a, b}) = IF a <= b THEN a ELSE b
  BY DEF Min
<1>2. Max({a, b}) = IF a >= b THEN a ELSE b
  BY DEF Max
<1> QED BY <1>1, <1>2

-----------------------------------------------------------------------------
(* Queues.                                                                   *)

\* q holds every element of S once, and nothing else.
Lists(q, S) ==
    /\ q \in Seq(S)
    /\ \A x \in S : \E n \in 1 .. Len(q) : q[n] = x
    /\ \A m, n \in 1 .. Len(q) : q[m] = q[n] => m = n

\* A queue lists everybody in one place.
LEMMA ListsOnce ==
    ASSUME NEW q, NEW S, Lists(q, S),
           NEW m \in 1 .. Len(q), NEW n \in 1 .. Len(q), q[m] = q[n]
    PROVE  m = n
BY DEF Lists

\* The empty queue lists nothing, a queue of nothing is empty, and the head of
\* any other is one of the elements.
LEMMA ListsHead ==
    /\ Lists(<<>>, {})
    /\ \A q, S : Lists(q, S) => /\ (q = <<>> <=> S = {})
                                /\ q # <<>> => Head(q) \in S
<1>1. Lists(<<>>, {})
  BY DEF Lists
<1>2. ASSUME NEW q, NEW S, Lists(q, S)
      PROVE  (q = <<>> <=> S = {}) /\ (q # <<>> => Head(q) \in S)
  <2>1. q \in Seq(S) /\ Len(q) \in Nat /\ \A n \in 1 .. Len(q) : q[n] \in S
    BY <1>2 DEF Lists
  <2>2. ASSUME q # <<>> PROVE Head(q) = q[1] /\ 1 \in 1 .. Len(q)
    BY <2>1, <2>2
  <2>3. ASSUME q = <<>> PROVE S = {}
    <3>1. Len(q) = 0
      BY <2>3
    <3> QED BY <3>1, <1>2 DEF Lists
  <2> QED BY <2>1, <2>2, <2>3
<1> QED BY <1>1, <1>2

\* An element that is new goes to the end.
LEMMA ListsAppend ==
    ASSUME NEW q, NEW S, Lists(q, S), NEW x, x \notin S
    PROVE  Lists(Append(q, x), S \union {x})
<1> DEFINE r == Append(q, x)
<1>1. q \in Seq(S) /\ Len(q) \in Nat /\ \A n \in 1 .. Len(q) : q[n] \in S
  BY DEF Lists
<1>2. q \in Seq(S \union {x})
  BY <1>1
<1>3. /\ r \in Seq(S \union {x}) /\ Len(r) = Len(q) + 1
      /\ r[Len(q) + 1] = x
      /\ \A n \in 1 .. Len(q) : r[n] = q[n]
  BY <1>2
<1>4. ASSUME NEW y \in S \union {x} PROVE \E n \in 1 .. Len(r) : r[n] = y
  <2>1. CASE y = x
    BY <2>1, <1>3, <1>1
  <2>2. CASE y \in S
    <3>1. PICK n \in 1 .. Len(q) : q[n] = y
      BY <2>2 DEF Lists
    <3>2. n \in 1 .. Len(r) /\ r[n] = y
      BY <3>1, <1>3, <1>1
    <3> QED BY <3>2
  <2> QED BY <2>1, <2>2
<1>5. ASSUME NEW m \in 1 .. Len(r), NEW n \in 1 .. Len(r), r[m] = r[n] PROVE m = n
  <2>1. CASE m <= Len(q) /\ n <= Len(q)
    <3>1. m \in 1 .. Len(q) /\ n \in 1 .. Len(q)
      BY <2>1, <1>1, <1>3
    <3>2. q[m] = q[n]
      BY <3>1, <1>3, <1>5
    <3> QED BY <3>1, <3>2 DEF Lists
  <2>2. CASE m = Len(q) + 1 /\ n <= Len(q)
    <3>1. n \in 1 .. Len(q)
      BY <2>2, <1>1, <1>3
    <3> QED BY <3>1, <2>2, <1>1, <1>3, <1>5
  <2>3. CASE n = Len(q) + 1 /\ m <= Len(q)
    <3>1. m \in 1 .. Len(q)
      BY <2>3, <1>1, <1>3
    <3> QED BY <3>1, <2>3, <1>1, <1>3, <1>5
  <2> QED BY <2>1, <2>2, <2>3, <1>1, <1>3
<1> QED BY <1>3, <1>4, <1>5 DEF Lists

\* PriceLevel.remove takes one place out.
LEMMA RemoveFirstIs ==
    ASSUME NEW q, NEW S, Lists(q, S), NEW x \in S
    PROVE  \E i \in 1 .. Len(q) :
             /\ q[i] = x /\ \A j \in 1 .. Len(q) : q[j] = x => j = i
             /\ RemoveFirst(q, x) \in Seq(S)
             /\ Len(RemoveFirst(q, x)) = Len(q) - 1
             /\ \A n \in 1 .. Len(RemoveFirst(q, x)) :
                  RemoveFirst(q, x)[n] = IF n < i THEN q[n] ELSE q[n + 1]
<1>1. q \in Seq(S) /\ Len(q) \in Nat /\ \A n \in 1 .. Len(q) : q[n] \in S
  BY DEF Lists
<1>2. PICK i \in 1 .. Len(q) : q[i] = x
  BY DEF Lists
<1>3. \A j \in 1 .. Len(q) : q[j] = x => j = i
  BY <1>2 DEF Lists
<1> DEFINE r == RemoveFirst(q, x)
<1>4. r = SubSeq(q, 1, i - 1) \o SubSeq(q, i + 1, Len(q))
  <2> DEFINE I == {j \in 1 .. Len(q) : q[j] = x}
  <2>1. I = {i}
    BY <1>2, <1>3
  <2>2. Min({i}) = i
    BY DEF Min
  <2> QED BY <2>1, <2>2, <1>2 DEF RemoveFirst, SelectInSeq, RemoveAt
<1>5. /\ r \in Seq(S) /\ Len(r) = Len(q) - 1
      /\ \A n \in 1 .. Len(r) : r[n] = IF n < i THEN q[n] ELSE q[n + 1]
  <2> DEFINE a == SubSeq(q, 1, i - 1)
             c == SubSeq(q, i + 1, Len(q))
  <2>1. a \in Seq(S) /\ Len(a) = i - 1 /\ \A n \in 1 .. i - 1 : a[n] = q[n]
    BY <1>1
  <2>2. c \in Seq(S) /\ Len(c) = Len(q) - i
          /\ \A n \in 1 .. Len(q) - i : c[n] = q[n + i]
    BY <1>1
  <2> HIDE DEF a, c
  <2>3. Len(a \o c) = Len(q) - 1 /\ a \o c \in Seq(S)
    <3>1. a \o c \in Seq(S) /\ Len(a \o c) = Len(a) + Len(c)
      BY <2>1, <2>2, ConcatProperties
    <3>2. Len(a) + Len(c) = Len(q) - 1
      BY <2>1, <2>2, <1>1
    <3> QED BY <3>1, <3>2
  <2>4. ASSUME NEW n \in 1 .. Len(a \o c)
        PROVE  (a \o c)[n] = IF n < i THEN q[n] ELSE q[n + 1]
    <3>1. CASE n < i
      BY <3>1, <2>1, <2>2, <2>3, <1>1
    <3>2. CASE n >= i
      <4>1. (a \o c)[n] = c[n - (i - 1)] /\ n - (i - 1) \in 1 .. Len(q) - i
        BY <3>2, <2>1, <2>2, <2>3, <1>1
      <4>2. c[n - (i - 1)] = q[(n - (i - 1)) + i]
        BY <4>1, <2>2
      <4>3. (n - (i - 1)) + i = n + 1
        OBVIOUS
      <4> QED BY <4>1, <4>2, <4>3, <3>2
    <3> QED BY <3>1, <3>2
  <2> QED BY <2>3, <2>4, <1>4 DEF a, c
<1> HIDE DEF r
<1>6. /\ q[i] = x /\ \A j \in 1 .. Len(q) : q[j] = x => j = i
      /\ r \in Seq(S) /\ Len(r) = Len(q) - 1
      /\ \A n \in 1 .. Len(r) : r[n] = IF n < i THEN q[n] ELSE q[n + 1]
  BY <1>2, <1>3, <1>5
<1> QED BY <1>6 DEF r

\* PriceLevel.remove closes the gap.
LEMMA ListsRemove ==
    ASSUME NEW q, NEW S, Lists(q, S), NEW x \in S
    PROVE  Lists(RemoveFirst(q, x), S \ {x})
<1> DEFINE r == RemoveFirst(q, x)
<1>1. q \in Seq(S) /\ Len(q) \in Nat /\ \A n \in 1 .. Len(q) : q[n] \in S
  BY DEF Lists
<1>2. PICK i \in 1 .. Len(q) :
        /\ q[i] = x /\ \A j \in 1 .. Len(q) : q[j] = x => j = i
        /\ r \in Seq(S) /\ Len(r) = Len(q) - 1
        /\ \A n \in 1 .. Len(r) : r[n] = IF n < i THEN q[n] ELSE q[n + 1]
  <2>1. \E i \in 1 .. Len(q) :
          /\ q[i] = x /\ \A j \in 1 .. Len(q) : q[j] = x => j = i
          /\ RemoveFirst(q, x) \in Seq(S)
          /\ Len(RemoveFirst(q, x)) = Len(q) - 1
          /\ \A n \in 1 .. Len(RemoveFirst(q, x)) :
               RemoveFirst(q, x)[n] = IF n < i THEN q[n] ELSE q[n + 1]
    BY RemoveFirstIs, SMTT(60)
  <2> QED BY <2>1
<1>3. \A j \in 1 .. Len(q) : q[j] = x => j = i
  BY <1>2
<1>5. /\ r \in Seq(S) /\ Len(r) = Len(q) - 1
      /\ \A n \in 1 .. Len(r) : r[n] = IF n < i THEN q[n] ELSE q[n + 1]
  BY <1>2
<1> HIDE DEF r
<1>6. ASSUME NEW n \in 1 .. Len(r) PROVE r[n] \in S \ {x}
  <2>1. CASE n < i
    BY <2>1, <1>1, <1>3, <1>5
  <2>2. CASE n >= i
    <3>1. n + 1 \in 1 .. Len(q) /\ n + 1 # i /\ r[n] = q[n + 1]
      BY <2>2, <1>1, <1>5
    <3> QED BY <3>1, <1>1, <1>3
  <2> QED BY <2>1, <2>2
<1>7. r \in Seq(S \ {x})
  BY <1>5, <1>6, ElementOfSeq, SeqDef
<1>8. ASSUME NEW y \in S \ {x} PROVE \E n \in 1 .. Len(r) : r[n] = y
  <2>1. PICK n \in 1 .. Len(q) : q[n] = y
    BY DEF Lists
  <2>2. n # i
    BY <2>1, <1>2
  <2>3. CASE n < i
    <3>1. n \in 1 .. Len(r) /\ r[n] = y
      BY <2>1, <2>3, <1>1, <1>5
    <3> QED BY <3>1
  <2>4. CASE n > i
    <3>1. n - 1 \in 1 .. Len(r) /\ ~(n - 1 < i) /\ (n - 1) + 1 = n
      BY <2>1, <2>4, <1>1, <1>5
    <3>2. r[n - 1] = y
      BY <3>1, <2>1, <1>5
    <3> QED BY <3>1, <3>2
  <2> QED BY <2>2, <2>3, <2>4
<1>9. ASSUME NEW m \in 1 .. Len(r), NEW n \in 1 .. Len(r), r[m] = r[n] PROVE m = n
  <2> DEFINE f(k) == IF k < i THEN k ELSE k + 1
  <2>1. \A k \in 1 .. Len(r) : f(k) \in 1 .. Len(q) /\ r[k] = q[f(k)]
    BY <1>5, <1>1
  <2>2. f(m) = f(n)
    <3>1. q[f(m)] = q[f(n)]
      BY <2>1, <1>9
    <3> HIDE DEF f
    <3> QED BY <3>1, <2>1 DEF Lists
  <2> QED BY <2>2
<1> QED BY <1>7, <1>8, <1>9 DEF Lists, r

-----------------------------------------------------------------------------
(* Books.                                                                    *)

\* An order that may rest.
RestingOrder ==
    [id : Nat, side : Side, price : PriceMin .. PriceMax, qty : 1 .. MaxQuantity, ts : Nat]

\* The orders of side s at price p.
At(b, s, p) == {i \in OrderIds(b) : b.orders[i].side = s /\ b.orders[i].price = p}

\* The index: every order under its own id.
SoundOrders(b) ==
    /\ b.orders \in [OrderIds(b) -> RestingOrder]
    /\ \A i \in OrderIds(b) : b.orders[i].id = i
    /\ IsFiniteSet(OrderIds(b))

\* The levels: one for each price at which an order rests, listing its orders.
SoundLevels(b) ==
    /\ DOMAIN b.levels = Side
    /\ \A s \in Side : \A p : p \in DOMAIN b.levels[s] <=> At(b, s, p) # {}
    /\ \A s \in Side : \A p \in DOMAIN b.levels[s] : Lists(b.levels[s][p], At(b, s, p))

\* The heaps: no level is missing.
SoundHeaps(b) ==
    /\ DOMAIN b.heap = Side
    /\ \A s \in Side : DOMAIN b.levels[s] \subseteq BagToSet(b.heap[s])

\* What every operation keeps; whether bid and ask cross is another matter.
SoundBook(b) ==
    /\ b = [orders |-> b.orders, levels |-> b.levels, heap |-> b.heap]
    /\ SoundOrders(b)
    /\ SoundLevels(b)
    /\ SoundHeaps(b)

\* The ranges of the orders, expanded wherever an order is typed.
LEMMA Ranges ==
    /\ PriceMin \in Nat \ {0} /\ PriceMax \in Nat /\ PriceMin <= PriceMax
    /\ MaxQuantity \in Nat \ {0} /\ CrossSpan \in Nat \ {0}
    /\ PriceMin .. PriceMax \subseteq Nat
    /\ NoPrice \notin PriceMin .. PriceMax
BY RangeAssumption, NumLevelsAssumption DEF Level, NoPrice

\* The best of some prices is one of them, and none is better.
LEMMA BestOf ==
    ASSUME NEW s \in Side, NEW T, T \subseteq PriceMin .. PriceMax, T # {}
    PROVE  /\ Best(s, T) \in T
           /\ \A p \in T : ~Better(s, p, Best(s, T))
<1>1. T \subseteq Nat /\ \A p \in T : p <= PriceMax
  BY Ranges
<1>2. \E p \in T : \A q \in T : ~Better(s, q, p)
  <2>1. CASE s = "BUY"
    <3>1. PICK p \in T : \A q \in T : q <= p
      BY <1>1, Ranges, GreatestOf
    <3> QED BY <3>1, <2>1, <1>1 DEF Better
  <2>2. CASE s = "SELL"
    <3>1. PICK p \in T : \A q \in T : p <= q
      BY <1>1, LeastOf
    <3> QED BY <3>1, <2>2, <1>1 DEF Better
  <2> QED BY <2>1, <2>2 DEF Side
<1> QED BY <1>2 DEF Best

\* A level holds orders of its price, and none is empty.
LEMMA LevelsHold ==
    ASSUME NEW b, SoundBook(b), NEW s \in Side, NEW p \in DOMAIN b.levels[s]
    PROVE  /\ p \in PriceMin .. PriceMax
           /\ b.levels[s][p] # <<>>
           /\ Head(b.levels[s][p]) \in At(b, s, p)
<1>1. At(b, s, p) # {} /\ Lists(b.levels[s][p], At(b, s, p))
  BY DEF SoundBook, SoundLevels
<1>2. b.levels[s][p] # <<>> /\ Head(b.levels[s][p]) \in At(b, s, p)
  BY <1>1, ListsHead
<1>3. PICK i \in OrderIds(b) : b.orders[i].price = p
  BY <1>1 DEF At
<1>4. b.orders[i] \in RestingOrder
  BY DEF SoundBook, SoundOrders
<1> QED BY <1>2, <1>3, <1>4 DEF RestingOrder

\* The heap stops at the best level there is.
LEMMA BestPriceIs ==
    ASSUME NEW b, SoundBook(b), NEW s \in Side
    PROVE  /\ BestPrice(b, s) = ListedBest(b, s)
           /\ DOMAIN b.levels[s] = {} => BestPrice(b, s) = NoPrice
           /\ DOMAIN b.levels[s] # {} =>
                /\ BestPrice(b, s) \in DOMAIN b.levels[s]
                /\ BestPrice(b, s) \in PriceMin .. PriceMax
                /\ BestPrice(b, s) # NoPrice
                /\ \A p \in DOMAIN b.levels[s] : ~Better(s, p, BestPrice(b, s))
<1> DEFINE T == DOMAIN b.levels[s]
<1>1. T \subseteq BagToSet(b.heap[s])
  BY DEF SoundBook, SoundHeaps
<1>2. T \subseteq PriceMin .. PriceMax /\ \A p \in T : b.levels[s][p] # <<>>
  BY LevelsHold
<1>3. Standing(b, s) = T
  BY <1>1, <1>2 DEF Standing
<1>4. BestPrice(b, s) = Best(s, T) /\ ListedBest(b, s) = Best(s, T)
  BY <1>3 DEF BestPrice, ListedBest
<1>5. ASSUME T = {} PROVE Best(s, T) = NoPrice
  BY <1>5 DEF Best
<1>6. ASSUME T # {}
      PROVE  /\ Best(s, T) \in T
             /\ \A p \in T : ~Better(s, p, Best(s, T))
             /\ Best(s, T) \in PriceMin .. PriceMax
             /\ Best(s, T) # NoPrice
  <2>1. Best(s, T) \in T /\ \A p \in T : ~Better(s, p, Best(s, T))
    BY <1>2, <1>6, BestOf
  <2> QED BY <2>1, <1>2, Ranges
<1> HIDE DEF T
<1> QED BY <1>4, <1>5, <1>6 DEF T

\* Only the heaps and the index of a book matter to its best prices.
LEMMA SameLevels ==
    ASSUME NEW b, NEW c, SoundBook(b), SoundBook(c), b.levels = c.levels, NEW s \in Side
    PROVE  BestPrice(c, s) = BestPrice(b, s)
BY BestPriceIs DEF ListedBest

-----------------------------------------------------------------------------
(* The operations on a book keep it sound.                                   *)

\* The book of a new OrderBook.
LEMMA EmptySound ==
    /\ SoundBook(EmptyBook)
    /\ OrderIds(EmptyBook) = {}
<1>1. EmptyBook.orders = <<>> /\ DOMAIN EmptyBook.orders = {}
  BY DEF EmptyBook
<1>2. OrderIds(EmptyBook) = {}
  BY <1>1 DEF OrderIds
<1>3. SoundOrders(EmptyBook)
  <2>1. <<>> \in [{} -> RestingOrder]
    OBVIOUS
  <2> QED BY <1>1, <1>2, <2>1, FS_EmptySet DEF SoundOrders
<1>4. \A s \in Side : EmptyBook.levels[s] = <<>> /\ DOMAIN EmptyBook.levels[s] = {}
  BY DEF EmptyBook
<1>5. DOMAIN EmptyBook.levels = Side /\ DOMAIN EmptyBook.heap = Side
  BY DEF EmptyBook
<1>6. SoundLevels(EmptyBook)
  BY <1>2, <1>4, <1>5 DEF SoundLevels, At
<1>7. SoundHeaps(EmptyBook)
  BY <1>4, <1>5 DEF SoundHeaps
<1>8. EmptyBook = [orders |-> EmptyBook.orders, levels |-> EmptyBook.levels,
                   heap |-> EmptyBook.heap]
  BY DEF EmptyBook
<1> QED BY <1>2, <1>3, <1>6, <1>7, <1>8 DEF SoundBook

\* _insert.
LEMMA InsertSound ==
    ASSUME NEW b, SoundBook(b), NEW o \in RestingOrder, o.id \notin OrderIds(b)
    PROVE  /\ SoundBook(Insert(b, o))
           /\ OrderIds(Insert(b, o)) = OrderIds(b) \union {o.id}
<1> DEFINE c    == Insert(b, o)
           own  == b.levels[o.side]
           new  == o.price \notin DOMAIN own
           old  == IF new THEN <<>> ELSE own[o.price]
           more == Append(old, o.id)
<1>0. o.id \in Nat /\ o.side \in Side /\ o.price \in PriceMin .. PriceMax
  BY DEF RestingOrder
<1>1. /\ c.orders = Put(b.orders, o.id, o)
      /\ c.levels = [b.levels EXCEPT ![o.side] = Put(@, o.price, more)]
      /\ c.heap = IF new THEN [b.heap EXCEPT ![o.side] = @ (+) SetToBag({o.price})] ELSE b.heap
      /\ c = [orders |-> c.orders, levels |-> c.levels, heap |-> c.heap]
  BY DEF Insert
<1>2. DOMAIN b.levels = Side /\ DOMAIN b.heap = Side
  BY DEF SoundBook, SoundLevels, SoundHeaps
<1> HIDE DEF c
<1>3. /\ OrderIds(c) = OrderIds(b) \union {o.id}
      /\ c.orders[o.id] = o
      /\ \A i \in OrderIds(b) : c.orders[i] = b.orders[i]
      /\ c.orders \in [OrderIds(c) -> RestingOrder]
  <2>1. \A i \in OrderIds(b) : b.orders[i] \in RestingOrder
    BY DEF SoundBook, SoundOrders
  <2> QED BY <1>1, <2>1 DEF Put, OrderIds
<1>4. SoundOrders(c)
  BY <1>3, FS_AddElement DEF SoundBook, SoundOrders
<1>5. \A s \in Side : \A p : At(c, s, p) = IF s = o.side /\ p = o.price
                                             THEN At(b, s, p) \union {o.id} ELSE At(b, s, p)
  BY <1>3 DEF At
<1>6. /\ DOMAIN c.levels = Side
      /\ \A s \in Side : s # o.side => c.levels[s] = b.levels[s]
      /\ DOMAIN c.levels[o.side] = DOMAIN own \union {o.price}
      /\ c.levels[o.side][o.price] = more
      /\ \A p \in DOMAIN own : p # o.price => c.levels[o.side][p] = own[p]
  <2>1. c.levels[o.side] = Put(own, o.price, more)
    BY <1>0, <1>1, <1>2
  <2>2. DOMAIN c.levels = Side /\ \A s \in Side : s # o.side => c.levels[s] = b.levels[s]
    BY <1>0, <1>1, <1>2
  <2> HIDE DEF own, more
  <2> QED BY <2>1, <2>2 DEF Put
<1>7. Lists(old, At(b, o.side, o.price))
  <2>1. CASE new
    <3>1. At(b, o.side, o.price) = {}
      BY <2>1, <1>0 DEF SoundBook, SoundLevels
    <3> QED BY <3>1, <2>1, ListsHead
  <2>2. CASE ~new
    BY <2>2, <1>0 DEF SoundBook, SoundLevels
  <2> QED BY <2>1, <2>2
<1>8. Lists(more, At(c, o.side, o.price))
  <2>1. o.id \notin At(b, o.side, o.price)
    BY DEF At
  <2> HIDE DEF old
  <2> QED BY <2>1, <1>0, <1>5, <1>7, ListsAppend
<1>9. SoundLevels(c)
  <2>1. ASSUME NEW s \in Side, NEW p PROVE p \in DOMAIN c.levels[s] <=> At(c, s, p) # {}
    <3>1. p \in DOMAIN b.levels[s] <=> At(b, s, p) # {}
      BY DEF SoundBook, SoundLevels
    <3>2. p \in DOMAIN c.levels[s] <=> p \in DOMAIN b.levels[s] \/ (s = o.side /\ p = o.price)
      BY <1>6
    <3> QED BY <3>1, <3>2, <1>5
  <2>2. ASSUME NEW s \in Side, NEW p \in DOMAIN c.levels[s]
        PROVE  Lists(c.levels[s][p], At(c, s, p))
    <3>1. CASE s = o.side /\ p = o.price
      BY <3>1, <1>6, <1>8
    <3>2. CASE ~(s = o.side /\ p = o.price)
      <4>1. p \in DOMAIN b.levels[s] /\ c.levels[s][p] = b.levels[s][p]
        BY <3>2, <1>6
      <4>2. Lists(b.levels[s][p], At(b, s, p))
        BY <4>1 DEF SoundBook, SoundLevels
      <4> QED BY <3>2, <4>1, <4>2, <1>5
    <3> QED BY <3>1, <3>2
  <2> QED BY <2>1, <2>2, <1>6 DEF SoundLevels
<1>10. SoundHeaps(c)
  <2>1. DOMAIN c.heap = Side
    BY <1>1, <1>2
  <2>2. ASSUME NEW s \in Side PROVE DOMAIN c.levels[s] \subseteq BagToSet(c.heap[s])
    <3>1. DOMAIN b.levels[s] \subseteq BagToSet(b.heap[s])
      BY DEF SoundBook, SoundHeaps
    <3>2. CASE s # o.side
      BY <3>1, <3>2, <1>1, <1>2, <1>6
    <3>3. CASE s = o.side /\ new
      <4>1. c.heap[s] = b.heap[s] (+) SetToBag({o.price})
        BY <3>3, <1>1, <1>2
      <4>2. BagToSet(c.heap[s]) = BagToSet(b.heap[s]) \union {o.price}
        BY <4>1 DEF BagToSet, SetToBag, (+)
      <4> QED BY <3>1, <3>3, <4>2, <1>6
    <3>4. CASE s = o.side /\ ~new
      BY <3>1, <3>4, <1>1, <1>6
    <3> QED BY <3>2, <3>3, <3>4
  <2> QED BY <2>1, <2>2 DEF SoundHeaps
<1> QED BY <1>1, <1>3, <1>4, <1>9, <1>10 DEF SoundBook, c

\* cancel_order of an order that rests, and the removal of one that is filled.
LEMMA DiscardSound ==
    ASSUME NEW b, SoundBook(b), NEW id \in OrderIds(b)
    PROVE  /\ SoundBook(Discard(b, id))
           /\ OrderIds(Discard(b, id)) = OrderIds(b) \ {id}
           /\ \A i \in OrderIds(b) \ {id} : Discard(b, id).orders[i] = b.orders[i]
<1> DEFINE c    == Discard(b, id)
           o    == b.orders[id]
           own  == b.levels[o.side]
           rest == RemoveFirst(own[o.price], o.id)
<1>0. o \in RestingOrder /\ o.id = id /\ o.side \in Side
  BY DEF SoundBook, SoundOrders, RestingOrder
<1>2. DOMAIN b.levels = Side /\ DOMAIN b.heap = Side
  BY DEF SoundBook, SoundLevels, SoundHeaps
<1>1. /\ c.orders = RestrictDomain(b.orders, LAMBDA i : i # id)
      /\ c.levels = [b.levels EXCEPT ![o.side] =
                       IF rest = <<>> THEN RestrictDomain(@, LAMBDA p : p # o.price)
                                      ELSE [@ EXCEPT ![o.price] = rest]]
      /\ c.heap = b.heap
      /\ c = [orders |-> c.orders, levels |-> c.levels, heap |-> c.heap]
  <2> DEFINE lv == [b.levels EXCEPT ![o.side] =
                       IF rest = <<>> THEN RestrictDomain(@, LAMBDA p : p # o.price)
                                      ELSE [@ EXCEPT ![o.price] = rest]]
             os == RestrictDomain(b.orders, LAMBDA i : i # id)
  <2>1. c = [[b EXCEPT !.levels = lv] EXCEPT !.orders = os]
    BY DEF Discard, Unqueue, SoundBook
  <2>2. b = [orders |-> b.orders, levels |-> b.levels, heap |-> b.heap]
    BY DEF SoundBook
  <2> HIDE DEF lv, os, c
  <2>3. c = [orders |-> os, levels |-> lv, heap |-> b.heap]
    BY <2>1, <2>2
  <2> QED BY <2>3 DEF lv, os
<1> HIDE DEF c
<1>3. /\ OrderIds(c) = OrderIds(b) \ {id}
      /\ \A i \in OrderIds(b) \ {id} : c.orders[i] = b.orders[i]
      /\ c.orders \in [OrderIds(c) -> RestingOrder]
  <2>1. \A i \in OrderIds(b) : b.orders[i] \in RestingOrder
    BY DEF SoundBook, SoundOrders
  <2> QED BY <1>1, <2>1 DEF RestrictDomain, Restrict, OrderIds
<1>4. SoundOrders(c)
  BY <1>3, FS_RemoveElement DEF SoundBook, SoundOrders
<1>5. \A s \in Side : \A p : At(c, s, p) = At(b, s, p) \ {id}
  BY <1>3 DEF At
<1>6. /\ id \in At(b, o.side, o.price)
      /\ \A s \in Side : \A p : id \in At(b, s, p) => s = o.side /\ p = o.price
      /\ o.price \in DOMAIN own
  <2>1. /\ id \in At(b, o.side, o.price)
        /\ \A s \in Side : \A p : id \in At(b, s, p) => s = o.side /\ p = o.price
    BY DEF At
  <2> QED BY <2>1, <1>0 DEF SoundBook, SoundLevels
<1>7. Lists(rest, At(c, o.side, o.price))
  <2>1. Lists(own[o.price], At(b, o.side, o.price))
    BY <1>0, <1>6 DEF SoundBook, SoundLevels
  <2> QED BY <2>1, <1>0, <1>5, <1>6, ListsRemove
<1>8. /\ DOMAIN c.levels = Side
      /\ \A s \in Side : s # o.side => c.levels[s] = b.levels[s]
      /\ DOMAIN c.levels[o.side] = IF rest = <<>> THEN DOMAIN own \ {o.price} ELSE DOMAIN own
      /\ rest # <<>> => c.levels[o.side][o.price] = rest
      /\ \A p \in DOMAIN own : p # o.price => c.levels[o.side][p] = own[p]
  <2>1. DOMAIN c.levels = Side /\ \A s \in Side : s # o.side => c.levels[s] = b.levels[s]
    BY <1>0, <1>1, <1>2
  <2>2. c.levels[o.side] = IF rest = <<>> THEN RestrictDomain(own, LAMBDA p : p # o.price)
                                           ELSE [own EXCEPT ![o.price] = rest]
    BY <1>0, <1>1, <1>2
  <2> HIDE DEF rest, own
  <2> QED BY <2>1, <2>2, <1>6 DEF RestrictDomain, Restrict
<1>9. rest = <<>> <=> At(c, o.side, o.price) = {}
  BY <1>7, ListsHead
<1> HIDE DEF rest
<1>10. SoundLevels(c)
  <2>1. ASSUME NEW s \in Side, NEW p PROVE p \in DOMAIN c.levels[s] <=> At(c, s, p) # {}
    <3>1. p \in DOMAIN b.levels[s] <=> At(b, s, p) # {}
      BY DEF SoundBook, SoundLevels
    <3>2. CASE s = o.side /\ p = o.price
      BY <3>2, <1>6, <1>8, <1>9
    <3>3. CASE ~(s = o.side /\ p = o.price)
      <4>1. p \in DOMAIN c.levels[s] <=> p \in DOMAIN b.levels[s]
        BY <3>3, <1>8
      <4>2. At(c, s, p) = At(b, s, p)
        BY <3>3, <1>5, <1>6
      <4> QED BY <3>1, <4>1, <4>2
    <3> QED BY <3>2, <3>3
  <2>2. ASSUME NEW s \in Side, NEW p \in DOMAIN c.levels[s]
        PROVE  Lists(c.levels[s][p], At(c, s, p))
    <3>1. CASE s = o.side /\ p = o.price
      BY <3>1, <1>7, <1>8
    <3>2. CASE ~(s = o.side /\ p = o.price)
      <4>1. p \in DOMAIN b.levels[s] /\ c.levels[s][p] = b.levels[s][p]
        BY <3>2, <1>8
      <4>2. Lists(b.levels[s][p], At(b, s, p))
        BY <4>1 DEF SoundBook, SoundLevels
      <4>3. At(c, s, p) = At(b, s, p)
        BY <3>2, <1>5, <1>6
      <4> QED BY <4>1, <4>2, <4>3
    <3> QED BY <3>1, <3>2
  <2> QED BY <2>1, <2>2, <1>8 DEF SoundLevels
<1>11. SoundHeaps(c)
  <2>1. ASSUME NEW s \in Side PROVE DOMAIN c.levels[s] \subseteq DOMAIN b.levels[s]
    BY <1>8
  <2> QED BY <2>1, <1>1 DEF SoundBook, SoundHeaps
<1> QED BY <1>1, <1>3, <1>4, <1>10, <1>11 DEF SoundBook, c

\* A resting order with another quantity.
LEMMA RequantifySound ==
    ASSUME NEW b, SoundBook(b), NEW id \in OrderIds(b), NEW q \in 1 .. MaxQuantity
    PROVE  LET c == [b EXCEPT !.orders[id].qty = q]
           IN  /\ SoundBook(c)
               /\ c.levels = b.levels
               /\ OrderIds(c) = OrderIds(b)
               /\ \A i \in OrderIds(b) \ {id} : c.orders[i] = b.orders[i]
               /\ c.orders[id] = [b.orders[id] EXCEPT !.qty = q]
<1> DEFINE c == [b EXCEPT !.orders[id].qty = q]
<1>1. b = [orders |-> b.orders, levels |-> b.levels, heap |-> b.heap]
  BY DEF SoundBook
<1>2. /\ c.orders = [b.orders EXCEPT ![id].qty = q]
      /\ c.levels = b.levels /\ c.heap = b.heap
      /\ c = [orders |-> c.orders, levels |-> c.levels, heap |-> c.heap]
  <2> DEFINE os == [b.orders EXCEPT ![id].qty = q]
  <2>1. c = [b EXCEPT !.orders = os]
    OBVIOUS
  <2> HIDE DEF os, c
  <2>2. c = [orders |-> os, levels |-> b.levels, heap |-> b.heap]
    BY <2>1, <1>1
  <2> QED BY <2>2 DEF os
<1> HIDE DEF c
<1>3. \A i \in OrderIds(b) : b.orders[i] \in RestingOrder /\ b.orders[i].id = i
  BY DEF SoundBook, SoundOrders
<1>4. /\ OrderIds(c) = OrderIds(b)
      /\ \A i \in OrderIds(b) \ {id} : c.orders[i] = b.orders[i]
      /\ c.orders[id] = [b.orders[id] EXCEPT !.qty = q]
      /\ c.orders = [i \in OrderIds(b) |-> c.orders[i]]
  BY <1>2 DEF OrderIds
<1>5. /\ c.orders[id] \in RestingOrder
      /\ c.orders[id].id = id
      /\ c.orders[id].side = b.orders[id].side
      /\ c.orders[id].price = b.orders[id].price
  <2>1. b.orders[id] \in RestingOrder /\ b.orders[id].id = id
    BY <1>3
  <2> QED BY <2>1, <1>4 DEF RestingOrder
<1>6. SoundOrders(c)
  <2>1. c.orders \in [OrderIds(c) -> RestingOrder]
    <3>1. \A i \in OrderIds(c) : c.orders[i] \in RestingOrder
      BY <1>3, <1>4, <1>5
    <3> QED BY <3>1, <1>4
  <2> QED BY <2>1, <1>3, <1>4, <1>5 DEF SoundBook, SoundOrders
<1>7. \A s \in Side : \A p : At(c, s, p) = At(b, s, p)
  BY <1>4, <1>5 DEF At
<1>8. SoundLevels(c) /\ SoundHeaps(c)
  BY <1>2, <1>7 DEF SoundBook, SoundLevels, SoundHeaps
<1> QED BY <1>2, <1>4, <1>6, <1>8 DEF SoundBook, c

\* What an order is filled by comes off its quantity, the last of it takes the
\* order away.
LEMMA ReduceSound ==
    ASSUME NEW b, SoundBook(b), NEW id \in OrderIds(b), NEW q \in 1 .. b.orders[id].qty
    PROVE  /\ SoundBook(Reduce(b, id, q))
           /\ OrderIds(Reduce(b, id, q)) = IF b.orders[id].qty = q THEN OrderIds(b) \ {id}
                                                                   ELSE OrderIds(b)
           /\ \A i \in OrderIds(b) \ {id} : Reduce(b, id, q).orders[i] = b.orders[i]
<1>1. b.orders[id].qty \in 1 .. MaxQuantity
  BY DEF SoundBook, SoundOrders, RestingOrder
<1>2. CASE b.orders[id].qty = q
  BY <1>2, DiscardSound DEF Reduce
<1>3. CASE b.orders[id].qty # q
  <2> DEFINE r == b.orders[id].qty - q
  <2>1. r \in 1 .. MaxQuantity
    BY <1>1, <1>3, Ranges
  <2>2. Reduce(b, id, q) = [b EXCEPT !.orders[id].qty = r]
    BY <1>3 DEF Reduce
  <2> HIDE DEF r
  <2> DEFINE c == [b EXCEPT !.orders[id].qty = r]
  <2>3. /\ SoundBook(c) /\ OrderIds(c) = OrderIds(b)
        /\ \A i \in OrderIds(b) \ {id} : c.orders[i] = b.orders[i]
    BY <2>1, RequantifySound
  <2>4. Reduce(b, id, q) = c
    BY <2>2
  <2> HIDE DEF c
  <2> QED BY <1>3, <2>3, <2>4
<1> QED BY <1>2, <1>3

\* _best_price pops stale entries only.
LEMMA PeekSound ==
    ASSUME NEW b, SoundBook(b), NEW s \in Side
    PROVE  /\ SoundBook(Peek(b, s))
           /\ Peek(b, s).orders = b.orders /\ Peek(b, s).levels = b.levels
<1> DEFINE best == BestPrice(b, s)
           h    == RestrictDomain(b.heap[s], LAMBDA p : best # NoPrice /\ ~Better(s, p, best))
           c    == Peek(b, s)
<1>1. b = [orders |-> b.orders, levels |-> b.levels, heap |-> b.heap]
  BY DEF SoundBook
<1>2. /\ c.orders = b.orders /\ c.levels = b.levels
      /\ c.heap = [b.heap EXCEPT ![s] = h]
      /\ c = [orders |-> c.orders, levels |-> c.levels, heap |-> c.heap]
  <2> DEFINE hs == [b.heap EXCEPT ![s] = h]
  <2>1. c = [b EXCEPT !.heap = hs]
    BY DEF Peek
  <2> HIDE DEF hs, c
  <2>2. c = [orders |-> b.orders, levels |-> b.levels, heap |-> hs]
    BY <2>1, <1>1
  <2> QED BY <2>2 DEF hs
<1>3. DOMAIN b.heap = Side /\ DOMAIN b.levels[s] \subseteq BagToSet(b.heap[s])
  BY DEF SoundBook, SoundHeaps
<1>4. BagToSet(h) = {p \in BagToSet(b.heap[s]) : best # NoPrice /\ ~Better(s, p, best)}
  BY DEF RestrictDomain, Restrict, BagToSet
<1>5. \A p \in DOMAIN b.levels[s] : best # NoPrice /\ ~Better(s, p, best)
  BY BestPriceIs
<1> HIDE DEF c, h, best
<1>6. DOMAIN b.levels[s] \subseteq BagToSet(h)
  BY <1>3, <1>4, <1>5
<1>7. SoundHeaps(c)
  <2>1. DOMAIN c.heap = Side
    BY <1>2, <1>3
  <2>2. \A t \in Side : c.heap[t] = IF t = s THEN h ELSE b.heap[t]
    BY <1>2, <1>3
  <2> QED BY <2>1, <2>2, <1>2, <1>6 DEF SoundBook, SoundHeaps
<1>8. OrderIds(c) = OrderIds(b) /\ \A t, p : At(c, t, p) = At(b, t, p)
  BY <1>2 DEF OrderIds, At
<1>9. SoundOrders(c) /\ SoundLevels(c)
  BY <1>2, <1>8 DEF SoundBook, SoundOrders, SoundLevels
<1> QED BY <1>2, <1>7, <1>9 DEF SoundBook, c

-----------------------------------------------------------------------------
(* Books that are not crossed.                                               *)

\* Every order of c is in b, on the same side at the same price.
Within(c, b) ==
    \A i \in OrderIds(c) : /\ i \in OrderIds(b)
                           /\ c.orders[i].side = b.orders[i].side
                           /\ c.orders[i].price = b.orders[i].price

\* Orders that go, and orders that stay where they are, cross nothing.
LEMMA WithinUncrossed ==
    ASSUME NEW b, NEW c, SoundBook(b), SoundBook(c), Within(c, b), ~Crossed(b)
    PROVE  ~Crossed(c)
<1>1. ASSUME NEW s \in Side PROVE DOMAIN c.levels[s] \subseteq DOMAIN b.levels[s]
  <2>1. ASSUME NEW p \in DOMAIN c.levels[s] PROVE p \in DOMAIN b.levels[s]
    <3>1. PICK i : i \in At(c, s, p)
      BY DEF SoundBook, SoundLevels
    <3>2. i \in At(b, s, p)
      BY <3>1 DEF At, Within
    <3> QED BY <3>2 DEF SoundBook, SoundLevels
  <2> QED BY <2>1
<1> DEFINE bid == BestPrice(b, "BUY")
           ask == BestPrice(b, "SELL")
           cid == BestPrice(c, "BUY")
           csk == BestPrice(c, "SELL")
<1>2. "BUY" \in Side /\ "SELL" \in Side
  BY DEF Side
<1> SUFFICES ASSUME cid # NoPrice, csk # NoPrice, cid >= csk PROVE FALSE
  BY DEF Crossed
<1>3. cid \in DOMAIN c.levels["BUY"] /\ csk \in DOMAIN c.levels["SELL"]
  BY <1>2, BestPriceIs
<1>4. cid \in DOMAIN b.levels["BUY"] /\ csk \in DOMAIN b.levels["SELL"]
  BY <1>1, <1>2, <1>3
<1>5. /\ bid # NoPrice /\ ask # NoPrice
      /\ bid \in PriceMin .. PriceMax /\ ask \in PriceMin .. PriceMax
      /\ ~Better("BUY", cid, bid) /\ ~Better("SELL", csk, ask)
  BY <1>2, <1>4, BestPriceIs
<1>6. cid \in PriceMin .. PriceMax /\ csk \in PriceMin .. PriceMax
  BY <1>2, <1>4, LevelsHold
<1> HIDE DEF bid, ask, cid, csk
<1>7. bid >= ask
  BY <1>5, <1>6, Ranges DEF Better
<1> QED BY <1>5, <1>7 DEF Crossed, bid, ask

\* Whether a book is crossed shows in its levels.
LEMMA SameCrossed ==
    ASSUME NEW b, NEW c, SoundBook(b), SoundBook(c), b.levels = c.levels
    PROVE  Crossed(c) <=> Crossed(b)
<1>1. \A s \in Side : BestPrice(c, s) = BestPrice(b, s)
  BY SameLevels
<1> QED BY <1>1 DEF Crossed, Side

\* What discarding, reducing and requantifying leave.
LEMMA WithinDiscard ==
    ASSUME NEW b, SoundBook(b), NEW id \in OrderIds(b)
    PROVE  Within(Discard(b, id), b)
BY DiscardSound DEF Within

\* A requantified book has the same orders at the same prices.
LEMMA WithinRequantify ==
    ASSUME NEW b, SoundBook(b), NEW id \in OrderIds(b), NEW q \in 1 .. MaxQuantity
    PROVE  Within([b EXCEPT !.orders[id].qty = q], b)
<1> DEFINE c == [b EXCEPT !.orders[id].qty = q]
<1>1. /\ OrderIds(c) = OrderIds(b)
      /\ \A i \in OrderIds(b) \ {id} : c.orders[i] = b.orders[i]
      /\ c.orders[id] = [b.orders[id] EXCEPT !.qty = q]
  BY RequantifySound
<1>2. b.orders[id] \in RestingOrder
  BY DEF SoundBook, SoundOrders
<1> HIDE DEF c
<1>3. c.orders[id].side = b.orders[id].side /\ c.orders[id].price = b.orders[id].price
  BY <1>1, <1>2 DEF RestingOrder
<1>4. Within(c, b)
  BY <1>1, <1>3 DEF Within
<1> QED BY <1>4 DEF c

\* So does a reduced one, with one order less if it was filled.
LEMMA WithinReduce ==
    ASSUME NEW b, SoundBook(b), NEW id \in OrderIds(b), NEW q \in 1 .. b.orders[id].qty
    PROVE  Within(Reduce(b, id, q), b)
<1>1. CASE b.orders[id].qty = q
  BY <1>1, WithinDiscard DEF Reduce
<1>2. CASE b.orders[id].qty # q
  <2>1. b.orders[id].qty \in 1 .. MaxQuantity
    BY DEF SoundBook, SoundOrders, RestingOrder
  <2>2. b.orders[id].qty - q \in 1 .. MaxQuantity
    BY <1>2, <2>1, Ranges
  <2>3. Reduce(b, id, q) = [b EXCEPT !.orders[id].qty = b.orders[id].qty - q]
    BY <1>2 DEF Reduce
  <2> QED BY <2>2, <2>3, WithinRequantify
<1> QED BY <1>1, <1>2

-----------------------------------------------------------------------------
(* Matching.                                                                 *)

MadeTrade ==
    [buy : Nat, sell : Nat, price : PriceMin .. PriceMax, qty : 1 .. MaxQuantity, ts : Nat]

\* A state of match_orders called on b.
Halfway(m, b) ==
    /\ m = [book |-> m.book, trades |-> m.trades, err |-> ""]
    /\ SoundBook(m.book)
    /\ OrderIds(m.book) \subseteq OrderIds(b)
    /\ m.trades \in Seq(MadeTrade)

\* The trade of two heads.
LEMMA TradeHeadsIs ==
    ASSUME NEW b, NEW m, Halfway(m, b), Crossed(m.book)
    PROVE  LET k  == m.book
               bp == BestPrice(k, "BUY")
               ap == BestPrice(k, "SELL")
               bi == Head(k.levels["BUY"][bp])
               ai == Head(k.levels["SELL"][ap])
           IN  /\ bp \in DOMAIN k.levels["BUY"] /\ ap \in DOMAIN k.levels["SELL"]
               /\ bi \in At(k, "BUY", bp) /\ ai \in At(k, "SELL", ap) /\ bi # ai
               /\ \E q, px, ts :
                    /\ q \in 1 .. k.orders[bi].qty /\ q \in 1 .. k.orders[ai].qty
                    /\ q = k.orders[bi].qty \/ q = k.orders[ai].qty
                    /\ px = IF k.orders[bi].ts <= k.orders[ai].ts THEN bp ELSE ap
                    /\ ts = IF k.orders[bi].ts >= k.orders[ai].ts THEN k.orders[bi].ts
                                                                   ELSE k.orders[ai].ts
                    /\ SoundBook(Reduce(k, bi, q))
                    /\ ai \in OrderIds(Reduce(k, bi, q))
                    /\ Reduce(k, bi, q).orders[ai] = k.orders[ai]
                    /\ TradeHeads(m) =
                         [book |-> Reduce(Reduce(k, bi, q), ai, q),
                          trades |-> Append(m.trades, Trade(bi, ai, px, q, ts)), err |-> m.err]
<1> DEFINE k   == m.book
           bp  == BestPrice(k, "BUY")
           ap  == BestPrice(k, "SELL")
           bi  == Head(k.levels["BUY"][bp])
           ai  == Head(k.levels["SELL"][ap])
           bid == k.orders[bi]
           ask == k.orders[ai]
           q   == Min({bid.qty, ask.qty})
           px  == IF bid.ts <= ask.ts THEN bid.price ELSE ask.price
           one == Reduce(k, bi, q)
           two == Reduce(one, ai, q)
           ts  == Max({bid.ts, ask.ts})
           t   == Trade(bi, ai, px, q, ts)
           r   == TradeHeads(m)
<1>1. SoundBook(k) /\ "BUY" \in Side /\ "SELL" \in Side
  BY DEF Halfway, Side
<1>2. bp \in DOMAIN k.levels["BUY"] /\ ap \in DOMAIN k.levels["SELL"]
  BY <1>1, BestPriceIs DEF Crossed
<1>3. bi \in At(k, "BUY", bp) /\ ai \in At(k, "SELL", ap)
  BY <1>1, <1>2, LevelsHold
<1> HIDE DEF bp, ap, bi, ai, k
<1>4. /\ bi \in OrderIds(k) /\ bid \in RestingOrder /\ bid.id = bi
      /\ ai \in OrderIds(k) /\ ask \in RestingOrder /\ ask.id = ai
      /\ bi # ai /\ bid.price = bp /\ ask.price = ap
  BY <1>1, <1>3 DEF At, SoundBook, SoundOrders
<1> HIDE DEF bid, ask
<1>5. /\ bid.qty \in 1 .. MaxQuantity /\ ask.qty \in 1 .. MaxQuantity
      /\ bid.ts \in Nat /\ ask.ts \in Nat
  BY <1>4 DEF RestingOrder
<1>6. /\ q \in 1 .. bid.qty /\ q \in 1 .. ask.qty
      /\ q = bid.qty \/ q = ask.qty
  BY <1>5, Ranges, TwoNumbers
<1> HIDE DEF q
<1>7. /\ SoundBook(one) /\ one.orders[ai] = ask /\ ai \in OrderIds(one)
  BY <1>1, <1>4, <1>6, ReduceSound DEF bid, ask
<1>8. ts = IF bid.ts >= ask.ts THEN bid.ts ELSE ask.ts
  <2>1. bid.ts \in Int /\ ask.ts \in Int
    BY <1>5
  <2> QED BY <2>1, TwoNumbers
<1>9. px = IF bid.ts <= ask.ts THEN bp ELSE ap
  BY <1>4
<1> HIDE DEF one, two, t, px, ts
<1>10. r = [m EXCEPT !.book = two, !.trades = Append(@, t)]
  BY <1>4 DEF TradeHeads, k, bp, ap, bi, ai, bid, ask, q, px, ts, one, two, t
<1> HIDE DEF r
<1>11. r = [book |-> two, trades |-> Append(m.trades, t), err |-> m.err]
  <2>1. m = [book |-> m.book, trades |-> m.trades, err |-> ""]
    BY DEF Halfway
  <2> DEFINE tr == m.trades
             k0 == m.book
             er == m.err
  <2>2. m = [book |-> k0, trades |-> tr, err |-> er]
    BY <2>1
  <2> HIDE DEF tr, k0, er
  <2>3. r = [book |-> two, trades |-> Append(tr, t), err |-> er]
    BY <1>10, <2>2
  <2> QED BY <2>3 DEF tr, er
<1>12. \E q1, px1, ts1 :
         /\ q1 \in 1 .. bid.qty /\ q1 \in 1 .. ask.qty
         /\ q1 = bid.qty \/ q1 = ask.qty
         /\ px1 = IF bid.ts <= ask.ts THEN bp ELSE ap
         /\ ts1 = IF bid.ts >= ask.ts THEN bid.ts ELSE ask.ts
         /\ SoundBook(Reduce(k, bi, q1))
         /\ ai \in OrderIds(Reduce(k, bi, q1))
         /\ Reduce(k, bi, q1).orders[ai] = ask
         /\ r = [book |-> Reduce(Reduce(k, bi, q1), ai, q1),
                 trades |-> Append(m.trades, Trade(bi, ai, px1, q1, ts1)), err |-> m.err]
  <2>1. /\ SoundBook(Reduce(k, bi, q)) /\ ai \in OrderIds(Reduce(k, bi, q))
        /\ Reduce(k, bi, q).orders[ai] = ask
    BY <1>7 DEF one
  <2>2. r = [book |-> Reduce(Reduce(k, bi, q), ai, q),
             trades |-> Append(m.trades, Trade(bi, ai, px, q, ts)), err |-> m.err]
    BY <1>11 DEF two, one, t
  <2> QED BY <1>6, <1>8, <1>9, <2>1, <2>2
<1> QED BY <1>2, <1>3, <1>4, <1>12 DEF k, bp, ap, bi, ai, bid, ask, r

\* The heads of two crossed levels trade, and one of them at least goes.
LEMMA TradeHeadsKeeps ==
    ASSUME NEW b, NEW m, Halfway(m, b), Crossed(m.book)
    PROVE  /\ Halfway(TradeHeads(m), b)
           /\ \E i \in OrderIds(m.book) :
                OrderIds(TradeHeads(m).book) \subseteq OrderIds(m.book) \ {i}
<1> DEFINE k   == m.book
           bp  == BestPrice(k, "BUY")
           ap  == BestPrice(k, "SELL")
           bi  == Head(k.levels["BUY"][bp])
           ai  == Head(k.levels["SELL"][ap])
           r   == TradeHeads(m)
<1>1. /\ bi \in At(k, "BUY", bp) /\ ai \in At(k, "SELL", ap) /\ bi # ai
      /\ \E q, px, ts :
           /\ q \in 1 .. k.orders[bi].qty /\ q \in 1 .. k.orders[ai].qty
           /\ q = k.orders[bi].qty \/ q = k.orders[ai].qty
           /\ px = IF k.orders[bi].ts <= k.orders[ai].ts THEN bp ELSE ap
           /\ ts = IF k.orders[bi].ts >= k.orders[ai].ts THEN k.orders[bi].ts
                                                          ELSE k.orders[ai].ts
           /\ SoundBook(Reduce(k, bi, q))
           /\ ai \in OrderIds(Reduce(k, bi, q))
           /\ Reduce(k, bi, q).orders[ai] = k.orders[ai]
           /\ r = [book |-> Reduce(Reduce(k, bi, q), ai, q),
                   trades |-> Append(m.trades, Trade(bi, ai, px, q, ts)), err |-> m.err]
  BY TradeHeadsIs
<1>2. /\ SoundBook(k) /\ OrderIds(k) \subseteq OrderIds(b) /\ m.trades \in Seq(MadeTrade)
  BY DEF Halfway
<1> HIDE DEF bp, ap, bi, ai, k, r
<1>3. /\ bi \in OrderIds(k) /\ k.orders[bi] \in RestingOrder /\ k.orders[bi].price = bp
      /\ ai \in OrderIds(k) /\ k.orders[ai] \in RestingOrder /\ k.orders[ai].price = ap
      /\ bi \in Nat /\ ai \in Nat
  BY <1>1, <1>2 DEF At, SoundBook, SoundOrders, RestingOrder
<1>4. PICK q, px, ts :
        /\ q \in 1 .. k.orders[bi].qty /\ q \in 1 .. k.orders[ai].qty
        /\ q = k.orders[bi].qty \/ q = k.orders[ai].qty
        /\ px = IF k.orders[bi].ts <= k.orders[ai].ts THEN bp ELSE ap
        /\ ts = IF k.orders[bi].ts >= k.orders[ai].ts THEN k.orders[bi].ts
                                                       ELSE k.orders[ai].ts
        /\ SoundBook(Reduce(k, bi, q))
        /\ ai \in OrderIds(Reduce(k, bi, q))
        /\ Reduce(k, bi, q).orders[ai] = k.orders[ai]
        /\ r = [book |-> Reduce(Reduce(k, bi, q), ai, q),
                trades |-> Append(m.trades, Trade(bi, ai, px, q, ts)), err |-> m.err]
  BY <1>1
<1> DEFINE one == Reduce(k, bi, q)
           two == Reduce(one, ai, q)
           t   == Trade(bi, ai, px, q, ts)
           made == Append(m.trades, t)
<1>5. OrderIds(one) = IF k.orders[bi].qty = q THEN OrderIds(k) \ {bi} ELSE OrderIds(k)
  BY <1>2, <1>3, <1>4, ReduceSound
<1>6. SoundBook(one) /\ ai \in OrderIds(one) /\ one.orders[ai] = k.orders[ai]
  BY <1>4
<1> HIDE DEF one
<1>7. /\ SoundBook(two)
      /\ OrderIds(two) = IF k.orders[ai].qty = q THEN OrderIds(one) \ {ai} ELSE OrderIds(one)
  BY <1>4, <1>6, ReduceSound
<1>8. t \in MadeTrade
  <2>1. /\ k.orders[bi].ts \in Nat /\ k.orders[ai].ts \in Nat
        /\ bp \in PriceMin .. PriceMax /\ ap \in PriceMin .. PriceMax
        /\ k.orders[bi].qty \in 1 .. MaxQuantity
    BY <1>3 DEF RestingOrder
  <2>2. px \in PriceMin .. PriceMax /\ ts \in Nat /\ q \in 1 .. MaxQuantity
    BY <1>4, <2>1, Ranges
  <2> QED BY <1>3, <2>2 DEF Trade, MadeTrade
<1>9. r = [book |-> two, trades |-> made, err |-> m.err]
  BY <1>4 DEF one
<1> HIDE DEF two, t
<1>10. made \in Seq(MadeTrade)
  BY <1>2, <1>8, AppendProperties
<1> HIDE DEF made
<1>11. Halfway(r, b)
  <2>1. OrderIds(two) \subseteq OrderIds(b)
    BY <1>2, <1>5, <1>7
  <2>2. r.book = two /\ r.trades = made
    BY <1>9
  <2>3. r = [book |-> two, trades |-> made, err |-> ""]
    <3> DEFINE k0 == m.book
               tr == m.trades
    <3>1. m = [book |-> k0, trades |-> tr, err |-> ""]
      BY DEF Halfway
    <3> HIDE DEF k0, tr
    <3> QED BY <1>9, <3>1
  <2> QED BY <1>7, <1>10, <2>1, <2>2, <2>3 DEF Halfway
<1>12. OrderIds(two) \subseteq OrderIds(k) \ {bi} \/ OrderIds(two) \subseteq OrderIds(k) \ {ai}
  BY <1>4, <1>5, <1>7
<1>13. r.book = two
  BY <1>9
<1> QED BY <1>3, <1>11, <1>12, <1>13 DEF k, r

\* A turn looks first, and what it sees are the same orders in the same levels.
LEMMA TurnIs ==
    ASSUME NEW b, NEW m, Halfway(m, b)
    PROVE  \E seen :
             /\ Halfway(seen, b)
             /\ seen.book.orders = m.book.orders /\ seen.book.levels = m.book.levels
             /\ seen.trades = m.trades
             /\ Crossed(seen.book) <=> Crossed(m.book)
             /\ Turn(m) = IF Crossed(m.book) THEN TradeHeads(seen) ELSE seen
<1> DEFINE one  == Peek(m.book, "BUY")
           two  == Peek(one, "SELL")
           seen == [m EXCEPT !.book = Peek(Peek(@, "BUY"), "SELL")]
<1>1. SoundBook(m.book) /\ "BUY" \in Side /\ "SELL" \in Side
  BY DEF Halfway, Side
<1>2. SoundBook(one) /\ one.orders = m.book.orders /\ one.levels = m.book.levels
  BY <1>1, PeekSound
<1>3. SoundBook(two) /\ two.orders = m.book.orders /\ two.levels = m.book.levels
  <2> HIDE DEF one
  <2> QED BY <1>1, <1>2, PeekSound
<1>4. seen = [book |-> two, trades |-> m.trades, err |-> ""]
  <2>1. m = [book |-> m.book, trades |-> m.trades, err |-> ""]
    BY DEF Halfway
  <2> DEFINE ts == m.trades
             k0 == m.book
  <2>2. m = [book |-> k0, trades |-> ts, err |-> ""] /\ seen = [m EXCEPT !.book = two]
    BY <2>1
  <2> HIDE DEF ts, k0, two, seen
  <2>3. seen = [book |-> two, trades |-> ts, err |-> ""]
    BY <2>2
  <2> QED BY <2>3 DEF ts
<1> HIDE DEF two, one
<1>5. Halfway(seen, b) /\ seen.book = two /\ seen.trades = m.trades
  BY <1>3, <1>4 DEF Halfway, OrderIds
<1>6. Crossed(seen.book) <=> Crossed(m.book)
  BY <1>1, <1>3, <1>4, SameCrossed
<1>7. Turn(m) = IF Crossed(seen.book) THEN TradeHeads(seen) ELSE seen
  BY DEF Turn
<1> HIDE DEF seen
<1> QED BY <1>3, <1>5, <1>6, <1>7

\* A turn trades if the book is crossed, and changes no order if it is not.
LEMMA TurnKeeps ==
    ASSUME NEW b, NEW m, Halfway(m, b)
    PROVE  /\ Halfway(Turn(m), b)
           /\ Crossed(m.book) => \E i \in OrderIds(m.book) :
                OrderIds(Turn(m).book) \subseteq OrderIds(m.book) \ {i}
           /\ ~Crossed(m.book) => ~Crossed(Turn(m).book)
<1>1. PICK seen :
        /\ Halfway(seen, b) /\ seen.book.orders = m.book.orders
        /\ Crossed(seen.book) <=> Crossed(m.book)
        /\ Turn(m) = IF Crossed(m.book) THEN TradeHeads(seen) ELSE seen
  BY TurnIs
<1>2. OrderIds(seen.book) = OrderIds(m.book)
  BY <1>1 DEF OrderIds
<1>3. CASE Crossed(m.book)
  BY <1>1, <1>2, <1>3, TradeHeadsKeeps
<1>4. CASE ~Crossed(m.book)
  BY <1>1, <1>4
<1> QED BY <1>3, <1>4

\* The turns of the loop, as many as one likes, are a function of their number.
LEMMA TurnsExist ==
    ASSUME NEW b, NEW k \in Nat
    PROVE  \E f : f = [n \in 0 .. k |-> IF n = 0 THEN [book |-> b, trades |-> <<>>, err |-> ""]
                                                 ELSE Turn(f[n - 1])]
<1> DEFINE start   == [book |-> b, trades |-> <<>>, err |-> ""]
           good(j) == \E f : f = [n \in 0 .. j |-> IF n = 0 THEN start ELSE Turn(f[n - 1])]
           Bad     == {j \in Nat : ~good(j)}
<1> HIDE DEF start
<1>1. good(0)
  <2> DEFINE f == [n \in 0 .. 0 |-> start]
  <2>1. f = [n \in 0 .. 0 |-> IF n = 0 THEN start ELSE Turn(f[n - 1])]
    OBVIOUS
  <2> QED BY <2>1
<1>2. ASSUME NEW j \in Nat, good(j) PROVE good(j + 1)
  <2>1. PICK g : g = [n \in 0 .. j |-> IF n = 0 THEN start ELSE Turn(g[n - 1])]
    BY <1>2
  <2> DEFINE f == [n \in 0 .. j + 1 |-> IF n = j + 1 THEN Turn(g[j]) ELSE g[n]]
  <2>2. ASSUME NEW n \in 0 .. j + 1
        PROVE  f[n] = IF n = 0 THEN start ELSE Turn(f[n - 1])
    <3>1. CASE n = j + 1
      <4>1. j \in 0 .. j + 1 /\ j # j + 1 /\ n - 1 = j /\ n # 0
        BY <3>1
      <4>2. f[j] = g[j] /\ f[n] = Turn(g[j])
        BY <3>1, <4>1
      <4> HIDE DEF f
      <4> QED BY <4>1, <4>2
    <3>2. CASE n \in 1 .. j
      <4>1. n - 1 \in 0 .. j /\ n \in 0 .. j /\ n # 0 /\ n # j + 1 /\ n - 1 # j + 1
        BY <3>2
      <4>2. g[n] = Turn(g[n - 1])
        BY <2>1, <4>1
      <4>3. f[n] = g[n] /\ f[n - 1] = g[n - 1]
        BY <4>1
      <4> HIDE DEF f
      <4> QED BY <4>1, <4>2, <4>3
    <3>3. CASE n = 0
      <4>1. g[0] = start
        BY <2>1
      <4>2. f[0] = g[0]
        OBVIOUS
      <4> HIDE DEF f
      <4> QED BY <3>3, <4>1, <4>2
    <3> QED BY <3>1, <3>2, <3>3
  <2>3. f = [n \in 0 .. j + 1 |-> f[n]]
    OBVIOUS
  <2> HIDE DEF f
  <2>4. f = [n \in 0 .. j + 1 |-> IF n = 0 THEN start ELSE Turn(f[n - 1])]
    BY <2>2, <2>3
  <2> QED BY <2>4
<1> HIDE DEF good
<1>3. Bad = {}
  <2> SUFFICES ASSUME Bad # {} PROVE FALSE
    OBVIOUS
  <2>1. PICK j \in Bad : \A n \in Bad : j <= n
    BY LeastOf
  <2>2. j # 0
    BY <1>1
  <2>3. j - 1 \in Nat /\ j = (j - 1) + 1
    BY <2>2
  <2>4. good(j - 1)
    BY <2>1, <2>3
  <2>5. good(j)
    BY <1>2, <2>3, <2>4
  <2> QED BY <2>5
<1>4. good(k)
  BY <1>3
<1> QED BY <1>4 DEF good, start

\* What the turns of the loop come to.
LEMMA MatchUnfolds ==
    ASSUME NEW b, SoundBook(b)
    PROVE  \E after, turns :
             /\ turns = Cardinality(OrderIds(b)) + 1 /\ turns \in Nat
             /\ Halfway(after[0], b) /\ after[0].book = b /\ after[0].trades = <<>>
             /\ \A n \in 1 .. turns : after[n] = Turn(after[n - 1])
             /\ MatchOrders(b) = after[turns]
<1> DEFINE turns   == Cardinality(OrderIds(b)) + 1
           start   == [book |-> b, trades |-> <<>>, err |-> ""]
           body(f) == [n \in 0 .. turns |-> IF n = 0 THEN start ELSE Turn(f[n - 1])]
           after   == CHOOSE f : f = body(f)
<1>1. turns \in Nat
  BY FS_CardinalityType DEF SoundBook, SoundOrders
<1>2. after = body(after)
  <2>1. \E f : f = body(f)
    BY <1>1, TurnsExist
  <2> QED BY <2>1
<1>3. MatchOrders(b) = after[turns]
  BY DEF MatchOrders
<1>7. Halfway(start, b) /\ start.book = b /\ start.trades = <<>>
  BY DEF Halfway
<1> HIDE DEF after, start
<1>4. turns = Cardinality(OrderIds(b)) + 1
  OBVIOUS
<1> HIDE DEF turns
<1>5. after[0] = start
  <2>1. 0 \in 0 .. turns
    BY <1>1
  <2> QED BY <1>2, <2>1
<1>6. ASSUME NEW n \in 1 .. turns PROVE after[n] = Turn(after[n - 1])
  <2>1. n \in 0 .. turns /\ n # 0
    BY <1>1
  <2> QED BY <1>2, <2>1
<1> QED BY <1>1, <1>3, <1>4, <1>5, <1>6, <1>7

\* match_orders drains the book: as many turns as there are orders come to an
\* end, and nothing crosses then.
LEMMA MatchEnds ==
    ASSUME NEW b, SoundBook(b)
    PROVE  \E after, card :
             /\ card = Cardinality(OrderIds(b)) /\ card \in Nat
             /\ after[0].book = b /\ after[0].trades = <<>>
             /\ \A n \in 0 .. card + 1 : Halfway(after[n], b)
             /\ \A n \in 1 .. card + 1 : after[n] = Turn(after[n - 1])
             /\ ~Crossed(after[card].book)
             /\ MatchOrders(b) = after[card + 1]
<1> DEFINE card == Cardinality(OrderIds(b))
<1>1. IsFiniteSet(OrderIds(b)) /\ card \in Nat
  BY FS_CardinalityType DEF SoundBook, SoundOrders
<1>2. PICK after, turns :
        /\ turns = card + 1 /\ turns \in Nat
        /\ Halfway(after[0], b) /\ after[0].book = b /\ after[0].trades = <<>>
        /\ \A n \in 1 .. turns : after[n] = Turn(after[n - 1])
        /\ MatchOrders(b) = after[turns]
  BY MatchUnfolds
<1> HIDE DEF card
<1> DEFINE good(n) == /\ Halfway(after[n], b)
                      /\ \/ ~Crossed(after[n].book)
                         \/ Cardinality(OrderIds(after[n].book)) + n <= card
           Bad     == {n \in 0 .. turns : ~good(n)}
<1>8. good(0)
  <2>1. Cardinality(OrderIds(after[0].book)) + 0 <= card
    BY <1>1, <1>2 DEF card
  <2> QED BY <1>2, <2>1
<1>9. ASSUME NEW n \in 1 .. turns, good(n - 1) PROVE good(n)
  <2> DEFINE k == after[n - 1]
             O == OrderIds(k.book)
             P == OrderIds(after[n].book)
  <2>1. after[n] = Turn(k) /\ Halfway(k, b)
    BY <1>2, <1>9
  <2>2. Halfway(after[n], b)
    BY <2>1, TurnKeeps
  <2>3. CASE ~Crossed(k.book)
    BY <2>1, <2>2, <2>3, TurnKeeps
  <2>4. CASE Crossed(k.book)
    <3>1. PICK i \in O : P \subseteq O \ {i}
      BY <2>1, <2>4, TurnKeeps
    <3>2. IsFiniteSet(O) /\ IsFiniteSet(P)
      BY <2>1, <2>2 DEF Halfway, SoundBook, SoundOrders
    <3>3. Cardinality(O) + (n - 1) <= card
      BY <1>9, <2>4
    <3> HIDE DEF O, P
    <3>4. IsFiniteSet(O \ {i}) /\ Cardinality(O \ {i}) = Cardinality(O) - 1
      BY <3>1, <3>2, FS_RemoveElement
    <3>5. Cardinality(P) <= Cardinality(O \ {i})
      BY <3>1, <3>4, FS_Subset
    <3>6. Cardinality(P) \in Nat /\ Cardinality(O) \in Nat
      BY <3>2, FS_CardinalityType
    <3>7. Cardinality(P) + n <= card
      BY <3>3, <3>4, <3>5, <3>6, <1>1, <1>2
    <3> QED BY <2>2, <3>7 DEF P
  <2> QED BY <2>3, <2>4
<1> HIDE DEF good
<1>10. Bad = {}
  <2> SUFFICES ASSUME Bad # {} PROVE FALSE
    OBVIOUS
  <2>1. Bad \subseteq Nat
    BY <1>2
  <2>2. PICK j \in Bad : \A n \in Bad : j <= n
    <3> HIDE DEF Bad
    <3> QED BY <2>1, LeastOf
  <2>3. j \in 1 .. turns
    BY <1>2, <1>8
  <2>4. j - 1 \in 0 .. turns /\ ~(j <= j - 1)
    BY <1>2, <2>3
  <2>5. good(j - 1)
    BY <2>2, <2>4
  <2> QED BY <1>9, <2>3, <2>5
<1>11. \A n \in 0 .. turns : good(n)
  BY <1>10
<1>12. ~Crossed(after[card].book)
  <2>1. card \in 0 .. turns
    BY <1>1, <1>2
  <2>2. good(card)
    BY <1>11, <2>1
  <2> DEFINE P == OrderIds(after[card].book)
  <2>3. Halfway(after[card], b) /\ IsFiniteSet(P)
    BY <2>2 DEF good, Halfway, SoundBook, SoundOrders
  <2> SUFFICES ASSUME Cardinality(P) + card <= card PROVE ~Crossed(after[card].book)
    BY <2>2 DEF good
  <2>4. P = {}
    <3>1. Cardinality(P) \in Nat
      BY <2>3, FS_CardinalityType
    <3>2. Cardinality(P) = 0
      BY <1>1, <3>1
    <3> HIDE DEF P
    <3> QED BY <2>3, <3>2, FS_EmptySet
  <2>5. SUFFICES ASSUME Crossed(after[card].book) PROVE FALSE
    OBVIOUS
  <2>6. \E i : i \in P
    BY <2>3, <2>5, TradeHeadsKeeps
  <2> QED BY <2>4, <2>6
<1>13. \A n \in 0 .. turns : Halfway(after[n], b)
  BY <1>11 DEF good
<1>14. card = Cardinality(OrderIds(b))
  BY DEF card
<1> HIDE DEF card
<1> QED BY <1>1, <1>2, <1>12, <1>13, <1>14

\* What match_orders returns is a state of the loop that is not crossed.
LEMMA MatchSound ==
    ASSUME NEW b, SoundBook(b)
    PROVE  /\ Halfway(MatchOrders(b), b)
           /\ ~Crossed(MatchOrders(b).book)
<1>1. PICK after, card :
        /\ card \in Nat
        /\ \A n \in 0 .. card + 1 : Halfway(after[n], b)
        /\ \A n \in 1 .. card + 1 : after[n] = Turn(after[n - 1])
        /\ ~Crossed(after[card].book)
        /\ MatchOrders(b) = after[card + 1]
  BY MatchEnds
<1>2. card + 1 \in 1 .. card + 1 /\ (card + 1) - 1 = card /\ card \in 0 .. card + 1
  BY <1>1
<1>3. after[card + 1] = Turn(after[card]) /\ Halfway(after[card], b)
  BY <1>1, <1>2
<1> QED BY <1>1, <1>3, TurnKeeps

-----------------------------------------------------------------------------
(* The methods of the book.                                                  *)

\* A book as every method leaves it.
GoodBook(b) == SoundBook(b) /\ ~Crossed(b)

\* No check of check_invariants fails on a good book.
LEMMA GoodConsistent ==
    ASSUME NEW b, GoodBook(b)
    PROVE  Consistent(b)
<1> DEFINE N     == Cardinality(OrderIds(b))
           D     == UNION {DOMAIN b.levels[s] : s \in Side}
           at    == {k \in Side \X D \X (1 .. N + 1) :
                       k[2] \in DOMAIN b.levels[k[1]] /\ k[3] \in DOMAIN b.levels[k[1]][k[2]]}
           id(k) == b.levels[k[1]][k[2]][k[3]]
           f     == [k \in at |-> id(k)]
<1>1. SoundBook(b) /\ SoundOrders(b) /\ SoundLevels(b) /\ ~Crossed(b)
  BY DEF GoodBook, SoundBook
<1>2. N \in Nat
  BY <1>1, FS_CardinalityType DEF SoundOrders
<1> HIDE DEF N
<1>3. ASSUME NEW s \in Side, NEW p \in DOMAIN b.levels[s]
      PROVE  /\ b.levels[s][p] # <<>>
             /\ Lists(b.levels[s][p], At(b, s, p))
             /\ DOMAIN b.levels[s][p] = 1 .. Len(b.levels[s][p])
             /\ Len(b.levels[s][p]) \in 0 .. N
  <2> DEFINE q == b.levels[s][p]
  <2>1. q # <<>> /\ Lists(q, At(b, s, p))
    BY <1>1, LevelsHold DEF SoundLevels
  <2>2. q \in Seq(At(b, s, p)) /\ Len(q) \in Nat /\ DOMAIN q = 1 .. Len(q)
    BY <2>1 DEF Lists
  <2>3. q \in Injection(1 .. Len(q), OrderIds(b))
    <3>1. \A n \in 1 .. Len(q) : q[n] \in OrderIds(b)
      BY <2>2 DEF At
    <3>2. q = [n \in 1 .. Len(q) |-> q[n]]
      BY <2>2
    <3> HIDE DEF q
    <3> QED BY <2>1, <3>1, <3>2 DEF Lists, Injection, IsInjective
  <2>4. Cardinality(1 .. Len(q)) <= N
    BY <1>1, <2>3, FS_Injection DEF SoundOrders, N
  <2>5. Cardinality(1 .. Len(q)) = Len(q)
    <3> HIDE DEF q
    <3> QED BY <2>2, FS_Interval
  <2>6. Len(q) <= N
    BY <2>4, <2>5
  <2> QED BY <2>1, <2>2, <2>6, <1>2
<1>4. ASSUME NEW k \in at
      PROVE  /\ k[1] \in Side /\ k[2] \in DOMAIN b.levels[k[1]]
             /\ k[3] \in 1 .. Len(b.levels[k[1]][k[2]])
             /\ k = <<k[1], k[2], k[3]>>
             /\ id(k) \in At(b, k[1], k[2])
             /\ id(k) \in OrderIds(b)
             /\ b.orders[id(k)].side = k[1] /\ b.orders[id(k)].price = k[2]
             /\ b.orders[id(k)].qty > 0
  <2>1. k[1] \in Side /\ k[2] \in DOMAIN b.levels[k[1]] /\ k = <<k[1], k[2], k[3]>>
          /\ k[3] \in DOMAIN b.levels[k[1]][k[2]]
    OBVIOUS
  <2>2. k[3] \in 1 .. Len(b.levels[k[1]][k[2]])
    BY <2>1, <1>3
  <2>3. id(k) \in At(b, k[1], k[2])
    BY <2>1, <2>2, <1>3 DEF Lists
  <2>4. id(k) \in OrderIds(b) /\ b.orders[id(k)].side = k[1] /\ b.orders[id(k)].price = k[2]
    BY <2>3 DEF At
  <2>5. b.orders[id(k)] \in RestingOrder
    BY <1>1, <2>4 DEF SoundOrders
  <2>6. b.orders[id(k)].qty > 0
    BY <2>5, Ranges DEF RestingOrder
  <2> QED BY <2>1, <2>2, <2>3, <2>4, <2>6
<1>5. ASSUME NEW i \in OrderIds(b) PROVE \E k \in at : id(k) = i
  <2> DEFINE s == b.orders[i].side
             p == b.orders[i].price
  <2>1. s \in Side /\ i \in At(b, s, p)
    BY <1>1 DEF SoundOrders, RestingOrder, At
  <2>2. p \in DOMAIN b.levels[s]
    BY <1>1, <2>1 DEF SoundLevels
  <2> HIDE DEF s, p
  <2>3. PICK n \in 1 .. Len(b.levels[s][p]) : b.levels[s][p][n] = i
    BY <1>3, <2>1, <2>2 DEF Lists
  <2>4. n \in 1 .. N + 1 /\ n \in DOMAIN b.levels[s][p]
    BY <1>2, <1>3, <2>1, <2>2
  <2>5. p \in D
    BY <2>1, <2>2
  <2>6. <<s, p, n>> \in at
    BY <2>1, <2>2, <2>4, <2>5
  <2> QED BY <2>3, <2>6
<1> HIDE DEF at
<1>6. {id(k) : k \in at} = OrderIds(b)
  BY <1>4, <1>5
<1>7. f \in Surjection(at, OrderIds(b))
  <2>1. f \in [at -> OrderIds(b)]
    BY <1>4
  <2>2. \A i \in OrderIds(b) : \E k \in at : f[k] = i
    BY <1>5
  <2> HIDE DEF f
  <2> QED BY <2>1, <2>2 DEF Surjection
<1>8. f \in Injection(at, OrderIds(b))
  <2>1. f \in [at -> OrderIds(b)]
    BY <1>4
  <2>2. ASSUME NEW k \in at, NEW l \in at, f[k] = f[l] PROVE k = l
    <3>1. id(k) = id(l)
      BY <2>2
    <3>2. k[1] = l[1] /\ k[2] = l[2]
      <4>1. /\ b.orders[id(k)].side = k[1] /\ b.orders[id(k)].price = k[2]
            /\ b.orders[id(l)].side = l[1] /\ b.orders[id(l)].price = l[2]
        BY <1>4
      <4> HIDE DEF id
      <4> QED BY <3>1, <4>1
    <3> DEFINE q == b.levels[k[1]][k[2]]
    <3>3. q[k[3]] = q[l[3]] /\ k[3] \in 1 .. Len(q) /\ l[3] \in 1 .. Len(q)
      BY <3>1, <3>2, <1>4
    <3>4. Lists(q, At(b, k[1], k[2]))
      BY <1>3, <1>4
    <3> HIDE DEF q
    <3>5. k[3] = l[3]
      BY <3>3, <3>4, ListsOnce
    <3> QED BY <3>2, <3>5, <1>4
  <2> HIDE DEF f
  <2> QED BY <2>1, <2>2 DEF Injection, IsInjective
<1>9. Cardinality(at) = N
  <2> HIDE DEF f
  <2> QED BY <1>1, <1>7, <1>8, FS_Injection DEF SoundOrders, N
<1>10. \A s \in Side : \A p \in DOMAIN b.levels[s] : b.levels[s][p] # <<>>
  BY <1>3
<1> QED BY <1>1, <1>4, <1>6, <1>9, <1>10 DEF Consistent, N, at

\* What match_orders returns.
LEMMA MatchGood ==
    ASSUME NEW b, SoundBook(b)
    PROVE  /\ GoodBook(MatchOrders(b).book)
           /\ OrderIds(MatchOrders(b).book) \subseteq OrderIds(b)
           /\ MatchOrders(b).err = ""
           /\ MatchOrders(b).trades \in Seq(MadeTrade)
<1> DEFINE m == MatchOrders(b)
<1>1. Halfway(m, b) /\ ~Crossed(m.book)
  BY MatchSound
<1> HIDE DEF m
<1>2. m.err = ""
  <2> DEFINE k  == m.book
             ts == m.trades
  <2>1. m = [book |-> k, trades |-> ts, err |-> ""]
    BY <1>1 DEF Halfway
  <2> HIDE DEF k, ts
  <2> QED BY <2>1
<1> QED BY <1>1, <1>2 DEF Halfway, GoodBook, m

\* add_order.
LEMMA AddGood ==
    ASSUME NEW b, GoodBook(b), NEW o \in RestingOrder
    PROVE  /\ GoodBook(AddOrder(b, o).book)
           /\ o.id \notin OrderIds(b) =>
                /\ AddOrder(b, o).err = ""
                /\ AddOrder(b, o).trades \in Seq(MadeTrade)
                /\ OrderIds(AddOrder(b, o).book) \subseteq OrderIds(b) \union {o.id}
<1>1. ~(o.price <= 0) /\ ~(o.qty <= 0)
  BY Ranges DEF RestingOrder
<1>2. CASE o.id \in OrderIds(b)
  BY <1>1, <1>2 DEF AddOrder, Raise
<1>3. CASE o.id \notin OrderIds(b)
  <2>1. AddOrder(b, o) = MatchOrders(Insert(b, o))
    BY <1>1, <1>3 DEF AddOrder
  <2>2. SoundBook(Insert(b, o)) /\ OrderIds(Insert(b, o)) = OrderIds(b) \union {o.id}
    BY <1>3, InsertSound DEF GoodBook
  <2> QED BY <2>1, <2>2, MatchGood
<1> QED BY <1>2, <1>3

\* cancel_order.
LEMMA CancelGood ==
    ASSUME NEW b, GoodBook(b), NEW id
    PROVE  /\ GoodBook(CancelOrder(b, id).book)
           /\ CancelOrder(b, id).trades = <<>>
           /\ id \in OrderIds(b) =>
                /\ CancelOrder(b, id).err = ""
                /\ OrderIds(CancelOrder(b, id).book) \subseteq OrderIds(b)
<1>1. CASE id \notin OrderIds(b)
  BY <1>1 DEF CancelOrder, Raise
<1>2. CASE id \in OrderIds(b)
  <2>1. CancelOrder(b, id) = [book |-> Discard(b, id), trades |-> <<>>, err |-> ""]
    BY <1>2 DEF CancelOrder, Done
  <2>2. SoundBook(Discard(b, id)) /\ OrderIds(Discard(b, id)) \subseteq OrderIds(b)
    BY <1>2, DiscardSound DEF GoodBook
  <2>3. GoodBook(Discard(b, id))
    BY <1>2, <2>2, WithinDiscard, WithinUncrossed DEF GoodBook
  <2> DEFINE r == CancelOrder(b, id)
             c == Discard(b, id)
  <2>4. r = [book |-> c, trades |-> <<>>, err |-> ""]
    BY <2>1
  <2> HIDE DEF r, c
  <2>5. r.book = c /\ r.trades = <<>> /\ r.err = ""
    BY <2>4
  <2>6. GoodBook(r.book) /\ r.trades = <<>> /\ r.err = "" /\ OrderIds(r.book) \subseteq OrderIds(b)
    BY <2>2, <2>3, <2>5 DEF c
  <2> QED BY <2>6 DEF r
<1> QED BY <1>1, <1>2

\* modify_order.
LEMMA ModifyGood ==
    ASSUME NEW b, GoodBook(b), NEW id, NEW q \in 1 .. MaxQuantity,
           NEW p \in PriceMin .. PriceMax, NEW ts \in Nat
    PROVE  /\ GoodBook(ModifyOrder(b, id, q, p, ts).book)
           /\ id \in OrderIds(b) =>
                /\ ModifyOrder(b, id, q, p, ts).err = ""
                /\ ModifyOrder(b, id, q, p, ts).trades \in Seq(MadeTrade)
                /\ OrderIds(ModifyOrder(b, id, q, p, ts).book) \subseteq OrderIds(b)
<1> DEFINE r == ModifyOrder(b, id, q, p, ts)
<1>1. ~(q <= 0 \/ p <= 0)
  BY Ranges
<1>2. CASE id \notin OrderIds(b)
  BY <1>2 DEF ModifyOrder, Raise
<1>3. CASE id \in OrderIds(b) /\ p = b.orders[id].price
  <2> DEFINE c == [b EXCEPT !.orders[id].qty = q]
  <2>1. r = [book |-> c, trades |-> <<>>, err |-> ""]
    BY <1>1, <1>3 DEF ModifyOrder, Done
  <2>2. SoundBook(c) /\ OrderIds(c) = OrderIds(b)
    BY <1>3, RequantifySound DEF GoodBook
  <2>3. Within(c, b)
    BY <1>3, WithinRequantify DEF GoodBook
  <2> HIDE DEF c, r
  <2>4. GoodBook(c)
    BY <2>2, <2>3, WithinUncrossed DEF GoodBook
  <2>5. r.book = c /\ r.trades = <<>> /\ r.err = ""
    BY <2>1
  <2>6. GoodBook(r.book) /\ r.err = "" /\ r.trades \in Seq(MadeTrade)
          /\ OrderIds(r.book) \subseteq OrderIds(b)
    BY <2>2, <2>4, <2>5, EmptySeq
  <2> QED BY <2>6 DEF r
<1>4. CASE id \in OrderIds(b) /\ p # b.orders[id].price
  <2> DEFINE o == Order(id, b.orders[id].side, p, q, ts)
             c == Discard(b, id)
  <2>1. r = MatchOrders(Insert(c, o))
    BY <1>1, <1>4 DEF ModifyOrder
  <2>2. SoundBook(c) /\ OrderIds(c) = OrderIds(b) \ {id}
    BY <1>4, DiscardSound DEF GoodBook
  <2>3. b.orders[id] \in RestingOrder /\ b.orders[id].id = id
    BY <1>4 DEF GoodBook, SoundBook, SoundOrders
  <2>4. o \in RestingOrder /\ o.id = id
    BY <2>3 DEF Order, RestingOrder
  <2> HIDE DEF c, o, r
  <2>5. SoundBook(Insert(c, o)) /\ OrderIds(Insert(c, o)) = OrderIds(b)
    BY <1>4, <2>2, <2>4, InsertSound
  <2>6. GoodBook(r.book) /\ r.err = "" /\ r.trades \in Seq(MadeTrade)
          /\ OrderIds(r.book) \subseteq OrderIds(b)
    BY <2>1, <2>5, MatchGood
  <2> QED BY <2>6 DEF r
<1> QED BY <1>2, <1>3, <1>4

\* execute_order.
LEMMA ExecuteGood ==
    ASSUME NEW b, GoodBook(b), NEW id, NEW q \in Nat, NEW ts
    PROVE  /\ GoodBook(ExecuteOrder(b, id, q, ts).book)
           /\ id \in OrderIds(b) /\ q \in 1 .. b.orders[id].qty =>
                /\ ExecuteOrder(b, id, q, ts).err = ""
                /\ OrderIds(ExecuteOrder(b, id, q, ts).book) \subseteq OrderIds(b)
<1> DEFINE r == ExecuteOrder(b, id, q, ts)
<1>1. CASE id \notin OrderIds(b)
  BY <1>1 DEF ExecuteOrder, Raise
<1>2. CASE id \in OrderIds(b)
  <2>1. b.orders[id] \in RestingOrder /\ b.orders[id].qty \in Nat
    BY <1>2, Ranges DEF GoodBook, SoundBook, SoundOrders, RestingOrder
  <2>2. CASE q \notin 1 .. b.orders[id].qty
    <3>1. q <= 0 \/ q > b.orders[id].qty
      BY <2>1, <2>2
    <3>2. r = [book |-> b, trades |-> <<>>, err |-> "ValueError"]
      BY <1>2, <3>1 DEF ExecuteOrder, Raise
    <3> QED BY <2>2, <3>2
  <2>3. CASE q \in 1 .. b.orders[id].qty
    <3> DEFINE c == Reduce(b, id, q)
               t == <<Trade(IF b.orders[id].side = "BUY" THEN id ELSE NoId,
                            IF b.orders[id].side = "SELL" THEN id ELSE NoId,
                            b.orders[id].price, q, ts)>>
    <3>1. ~(q <= 0 \/ q > b.orders[id].qty)
      BY <2>1, <2>3
    <3>2. r = [book |-> c, trades |-> t, err |-> ""]
      BY <1>2, <3>1 DEF ExecuteOrder, Done
    <3> HIDE DEF t
    <3>3. SoundBook(c) /\ OrderIds(c) \subseteq OrderIds(b) /\ Within(c, b)
      BY <1>2, <2>3, ReduceSound, WithinReduce DEF GoodBook
    <3> HIDE DEF c, r
    <3>4. GoodBook(c)
      BY <3>3, WithinUncrossed DEF GoodBook
    <3>5. r.book = c /\ r.err = ""
      BY <3>2
    <3>6. GoodBook(r.book) /\ r.err = "" /\ OrderIds(r.book) \subseteq OrderIds(b)
      BY <3>3, <3>4, <3>5
    <3> QED BY <3>6 DEF r
  <2> QED BY <2>2, <2>3
<1> QED BY <1>1, <1>2

-----------------------------------------------------------------------------
(* Time.                                                                     *)

\* In the level of side s at price p, x stands before y.
Before(b, s, p, x, y) ==
    \E m, n \in 1 .. Len(b.levels[s][p]) :
        m < n /\ b.levels[s][p][m] = x /\ b.levels[s][p][n] = y

\* No order is younger than T, and every level is in the order of time.
Aged(b, T) ==
    /\ \A i \in OrderIds(b) : b.orders[i].ts <= T
    /\ \A s \in Side : \A p \in DOMAIN b.levels[s] : \A x, y :
         Before(b, s, p, x, y) => b.orders[x].ts < b.orders[y].ts

\* Every order of c is the one in b but for its quantity, and where two of them
\* queue they queue as in b.
Follows(c, b) ==
    /\ \A i \in OrderIds(c) : /\ i \in OrderIds(b)
                              /\ c.orders[i].side = b.orders[i].side
                              /\ c.orders[i].price = b.orders[i].price
                              /\ c.orders[i].ts = b.orders[i].ts
    /\ \A s \in Side : \A p \in DOMAIN c.levels[s] :
         /\ p \in DOMAIN b.levels[s]
         /\ \A x, y : Before(c, s, p, x, y) => Before(b, s, p, x, y)

\* Who stands in a level is in the book.
LEMMA BeforeIn ==
    ASSUME NEW b, SoundBook(b), NEW s \in Side, NEW p \in DOMAIN b.levels[s], NEW x, NEW y,
           Before(b, s, p, x, y)
    PROVE  x \in OrderIds(b) /\ y \in OrderIds(b)
<1>1. b.levels[s][p] \in Seq(At(b, s, p))
  BY DEF SoundBook, SoundLevels, Lists
<1>2. PICK m, n \in 1 .. Len(b.levels[s][p]) : b.levels[s][p][m] = x /\ b.levels[s][p][n] = y
  BY DEF Before
<1>3. x \in At(b, s, p) /\ y \in At(b, s, p)
  BY <1>1, <1>2
<1> QED BY <1>3 DEF At

\* A book follows itself, and what follows a book that follows b follows b.
LEMMA FollowsOn ==
    /\ \A b : Follows(b, b)
    /\ \A d, c, b : Follows(d, c) /\ Follows(c, b) => Follows(d, b)
<1>1. \A b : Follows(b, b)
  BY DEF Follows
<1>2. ASSUME NEW d, NEW c, NEW b, Follows(d, c), Follows(c, b) PROVE Follows(d, b)
  BY <1>2 DEF Follows
<1> QED BY <1>1, <1>2

\* What follows a book in time is in time.
LEMMA AgedFollows ==
    ASSUME NEW b, NEW c, NEW T, SoundBook(c), Follows(c, b), Aged(b, T)
    PROVE  Aged(c, T)
<1>1. \A i \in OrderIds(c) : c.orders[i].ts = b.orders[i].ts /\ b.orders[i].ts <= T
  BY DEF Follows, Aged
<1>2. ASSUME NEW s \in Side, NEW p \in DOMAIN c.levels[s], NEW x, NEW y, Before(c, s, p, x, y)
      PROVE  c.orders[x].ts < c.orders[y].ts
  <2>1. x \in OrderIds(c) /\ y \in OrderIds(c)
    BY <1>2, BeforeIn
  <2>2. b.orders[x].ts < b.orders[y].ts
    BY <1>2 DEF Follows, Aged
  <2> QED BY <1>1, <2>1, <2>2
<1> QED BY <1>1, <1>2 DEF Aged

\* A book with the same levels and times follows.
LEMMA FollowsSame ==
    ASSUME NEW b, NEW c, c.levels = b.levels, OrderIds(c) = OrderIds(b),
           \A i \in OrderIds(b) : /\ c.orders[i].side = b.orders[i].side
                                  /\ c.orders[i].price = b.orders[i].price
                                  /\ c.orders[i].ts = b.orders[i].ts
    PROVE  Follows(c, b)
BY DEF Follows, Before

\* The levels of a book without the order id.
LEMMA DiscardLevels ==
    ASSUME NEW b, SoundBook(b), NEW id \in OrderIds(b), NEW s \in Side,
           NEW p \in DOMAIN Discard(b, id).levels[s]
    PROVE  /\ p \in DOMAIN b.levels[s]
           /\ Discard(b, id).levels[s][p] =
                IF s = b.orders[id].side /\ p = b.orders[id].price
                THEN RemoveFirst(b.levels[s][p], id) ELSE b.levels[s][p]
<1> DEFINE c    == Discard(b, id)
           o    == b.orders[id]
           own  == b.levels[o.side]
           rest == RemoveFirst(own[o.price], id)
<1>0. o \in RestingOrder /\ o.id = id /\ o.side \in Side /\ DOMAIN b.levels = Side
  BY DEF SoundBook, SoundOrders, SoundLevels, RestingOrder
<1>1. c.levels = [b.levels EXCEPT ![o.side] =
                       IF rest = <<>> THEN RestrictDomain(@, LAMBDA r : r # o.price)
                                      ELSE [@ EXCEPT ![o.price] = rest]]
  <2> DEFINE lv == [b.levels EXCEPT ![o.side] =
                       IF rest = <<>> THEN RestrictDomain(@, LAMBDA r : r # o.price)
                                      ELSE [@ EXCEPT ![o.price] = rest]]
             os == RestrictDomain(b.orders, LAMBDA i : i # id)
  <2>1. c = [[b EXCEPT !.levels = lv] EXCEPT !.orders = os]
    BY <1>0 DEF Discard, Unqueue, SoundBook
  <2>2. b = [orders |-> b.orders, levels |-> b.levels, heap |-> b.heap]
    BY DEF SoundBook
  <2> HIDE DEF lv, os, c
  <2>3. c = [orders |-> os, levels |-> lv, heap |-> b.heap]
    BY <2>1, <2>2
  <2> QED BY <2>3 DEF lv
<1> HIDE DEF c
<1>2. CASE s # o.side
  <2>1. c.levels[s] = b.levels[s]
    BY <1>0, <1>1, <1>2
  <2> QED BY <1>2, <2>1 DEF c
<1>3. CASE s = o.side
  <2>1. c.levels[s] = IF rest = <<>> THEN RestrictDomain(own, LAMBDA r : r # o.price)
                                      ELSE [own EXCEPT ![o.price] = rest]
    BY <1>0, <1>1, <1>3
  <2> HIDE DEF rest, own
  <2>2. /\ p \in DOMAIN own
        /\ c.levels[s][p] = IF p = o.price THEN rest ELSE own[p]
    <3>1. p \in DOMAIN c.levels[s]
      BY DEF c
    <3> QED BY <2>1, <3>1 DEF RestrictDomain, Restrict
  <2> QED BY <1>3, <2>2 DEF rest, own, c
<1> QED BY <1>2, <1>3

\* Who leaves does not change how the others queue.
LEMMA DiscardFollows ==
    ASSUME NEW b, SoundBook(b), NEW id \in OrderIds(b)
    PROVE  Follows(Discard(b, id), b)
<1> DEFINE c == Discard(b, id)
<1>1. /\ OrderIds(c) = OrderIds(b) \ {id}
      /\ \A i \in OrderIds(c) : c.orders[i] = b.orders[i]
  BY DiscardSound
<1>2. ASSUME NEW s \in Side, NEW p \in DOMAIN c.levels[s]
      PROVE  /\ p \in DOMAIN b.levels[s]
             /\ \A x, y : Before(c, s, p, x, y) => Before(b, s, p, x, y)
  <2> DEFINE q == b.levels[s][p]
             r == c.levels[s][p]
  <2>1. /\ p \in DOMAIN b.levels[s]
        /\ r = IF s = b.orders[id].side /\ p = b.orders[id].price THEN RemoveFirst(q, id) ELSE q
    BY DiscardLevels
  <2>2. Lists(q, At(b, s, p))
    BY <2>1 DEF SoundBook, SoundLevels
  <2>3. ASSUME NEW m \in 1 .. Len(r), NEW n \in 1 .. Len(r), m < n
        PROVE  \E j, k \in 1 .. Len(q) : j < k /\ q[j] = r[m] /\ q[k] = r[n]
    <3>1. CASE s = b.orders[id].side /\ p = b.orders[id].price
      <4>1. id \in At(b, s, p) /\ r = RemoveFirst(q, id)
        BY <2>1, <3>1 DEF At
      <4> DEFINE A == At(b, s, p)
      <4>2. Lists(q, A) /\ id \in A
        BY <2>2, <4>1
      <4> HIDE DEF A, q, r
      <4>3. PICK i \in 1 .. Len(q) :
              /\ Len(r) = Len(q) - 1
              /\ \A k \in 1 .. Len(r) : r[k] = IF k < i THEN q[k] ELSE q[k + 1]
        <5> DEFINE t == RemoveFirst(q, id)
        <5>1. PICK i \in 1 .. Len(q) :
                /\ Len(t) = Len(q) - 1
                /\ \A k \in 1 .. Len(t) : t[k] = IF k < i THEN q[k] ELSE q[k + 1]
          BY <4>2, RemoveFirstIs
        <5>2. t = r
          BY <4>1
        <5> HIDE DEF t
        <5> QED BY <5>1, <5>2
      <4>4. Len(q) \in Nat
        BY <4>2 DEF Lists
      <4> DEFINE f(k) == IF k < i THEN k ELSE k + 1
      <4>5. f(m) \in 1 .. Len(q) /\ f(n) \in 1 .. Len(q) /\ f(m) < f(n)
        BY <2>3, <4>3, <4>4
      <4>6. q[f(m)] = r[m] /\ q[f(n)] = r[n]
        BY <4>3
      <4> HIDE DEF f
      <4> QED BY <4>5, <4>6
    <3>2. CASE ~(s = b.orders[id].side /\ p = b.orders[id].price)
      <4>1. r = q
        BY <2>1, <3>2
      <4> HIDE DEF r, q
      <4> QED BY <2>3, <4>1
    <3> QED BY <3>1, <3>2
  <2>4. ASSUME NEW x, NEW y, Before(c, s, p, x, y) PROVE Before(b, s, p, x, y)
    <3>1. PICK m, n \in 1 .. Len(r) : m < n /\ r[m] = x /\ r[n] = y
      BY <2>4 DEF Before
    <3>2. PICK j, k \in 1 .. Len(q) : j < k /\ q[j] = r[m] /\ q[k] = r[n]
      BY <2>3, <3>1
    <3> QED BY <3>1, <3>2 DEF Before
  <2> QED BY <2>1, <2>4
<1> HIDE DEF c
<1> QED BY <1>1, <1>2 DEF Follows, c

\* Nor does a quantity.
LEMMA RequantifyFollows ==
    ASSUME NEW b, SoundBook(b), NEW id \in OrderIds(b), NEW q \in 1 .. MaxQuantity
    PROVE  Follows([b EXCEPT !.orders[id].qty = q], b)
<1> DEFINE c == [b EXCEPT !.orders[id].qty = q]
<1>1. /\ c.levels = b.levels /\ OrderIds(c) = OrderIds(b)
      /\ \A i \in OrderIds(b) \ {id} : c.orders[i] = b.orders[i]
      /\ c.orders[id] = [b.orders[id] EXCEPT !.qty = q]
  BY RequantifySound
<1>2. b.orders[id] \in RestingOrder
  BY DEF SoundBook, SoundOrders
<1> HIDE DEF c
<1>3. /\ c.orders[id].side = b.orders[id].side /\ c.orders[id].price = b.orders[id].price
      /\ c.orders[id].ts = b.orders[id].ts
  BY <1>1, <1>2 DEF RestingOrder
<1>4. Follows(c, b)
  <2>1. \A i \in OrderIds(b) : /\ c.orders[i].side = b.orders[i].side
                               /\ c.orders[i].price = b.orders[i].price
                               /\ c.orders[i].ts = b.orders[i].ts
    BY <1>1, <1>3
  <2> QED BY <1>1, <2>1, FollowsSame
<1> QED BY <1>4 DEF c

\* So a fill does not.
LEMMA ReduceFollows ==
    ASSUME NEW b, SoundBook(b), NEW id \in OrderIds(b), NEW q \in 1 .. b.orders[id].qty
    PROVE  Follows(Reduce(b, id, q), b)
<1>1. CASE b.orders[id].qty = q
  BY <1>1, DiscardFollows DEF Reduce
<1>2. CASE b.orders[id].qty # q
  <2>1. b.orders[id].qty \in 1 .. MaxQuantity
    BY DEF SoundBook, SoundOrders, RestingOrder
  <2>2. b.orders[id].qty - q \in 1 .. MaxQuantity
    BY <1>2, <2>1, Ranges
  <2>3. Reduce(b, id, q) = [b EXCEPT !.orders[id].qty = b.orders[id].qty - q]
    BY <1>2 DEF Reduce
  <2> QED BY <2>2, <2>3, RequantifyFollows
<1> QED BY <1>1, <1>2

\* The levels of a book with the order o.
LEMMA InsertLevels ==
    ASSUME NEW b, SoundBook(b), NEW o \in RestingOrder, NEW s \in Side,
           NEW p \in DOMAIN Insert(b, o).levels[s]
    PROVE  IF s = o.side /\ p = o.price
           THEN Insert(b, o).levels[s][p] =
                  Append(IF p \in DOMAIN b.levels[s] THEN b.levels[s][p] ELSE <<>>, o.id)
           ELSE p \in DOMAIN b.levels[s] /\ Insert(b, o).levels[s][p] = b.levels[s][p]
<1> DEFINE c    == Insert(b, o)
           own  == b.levels[o.side]
           more == Append(IF o.price \notin DOMAIN own THEN <<>> ELSE own[o.price], o.id)
<1>0. o.side \in Side /\ DOMAIN b.levels = Side
  BY DEF RestingOrder, SoundBook, SoundLevels
<1>1. c.levels = [b.levels EXCEPT ![o.side] = Put(@, o.price, more)]
  BY DEF Insert
<1> HIDE DEF c
<1>2. CASE s # o.side
  <2>1. c.levels[s] = b.levels[s]
    BY <1>0, <1>1, <1>2
  <2> QED BY <1>2, <2>1 DEF c
<1>3. CASE s = o.side
  <2>1. c.levels[s] = Put(own, o.price, more)
    BY <1>0, <1>1, <1>3
  <2>2. p \in DOMAIN c.levels[s]
    BY DEF c
  <2> HIDE DEF own, more
  <2>3. IF p = o.price THEN c.levels[s][p] = more
                       ELSE p \in DOMAIN own /\ c.levels[s][p] = own[p]
    BY <2>1, <2>2 DEF Put
  <2> QED BY <1>3, <2>3 DEF own, more, c
<1> QED BY <1>2, <1>3

\* The orders of a book with the order o.
LEMMA InsertOrders ==
    ASSUME NEW b, SoundBook(b), NEW o \in RestingOrder, o.id \notin OrderIds(b)
    PROVE  /\ OrderIds(Insert(b, o)) = OrderIds(b) \union {o.id}
           /\ Insert(b, o).orders[o.id] = o
           /\ \A i \in OrderIds(b) : Insert(b, o).orders[i] = b.orders[i]
BY DEF Insert, Put, OrderIds

\* An order that is younger than all others may queue anywhere.
LEMMA InsertAged ==
    ASSUME NEW b, SoundBook(b), NEW o \in RestingOrder, o.id \notin OrderIds(b),
           NEW T \in Nat, Aged(b, T), T < o.ts
    PROVE  Aged(Insert(b, o), o.ts)
<1> DEFINE c == Insert(b, o)
<1>1. /\ OrderIds(c) = OrderIds(b) \union {o.id}
      /\ c.orders[o.id] = o
      /\ \A i \in OrderIds(b) : c.orders[i] = b.orders[i]
  BY InsertOrders
<1>2. o.ts \in Nat /\ \A i \in OrderIds(b) : b.orders[i].ts \in Nat /\ b.orders[i].ts <= T
  BY DEF SoundBook, SoundOrders, RestingOrder, Aged
<1>3. \A i \in OrderIds(b) : b.orders[i].ts < o.ts
  BY <1>2
<1>4. \A i \in OrderIds(c) : c.orders[i].ts <= o.ts
  BY <1>1, <1>2, <1>3
<1>5. ASSUME NEW s \in Side, NEW p \in DOMAIN c.levels[s], NEW x, NEW y, Before(c, s, p, x, y)
      PROVE  c.orders[x].ts < c.orders[y].ts
  <2> DEFINE r == c.levels[s][p]
             q == IF p \in DOMAIN b.levels[s] THEN b.levels[s][p] ELSE <<>>
  <2>1. PICK m, n \in 1 .. Len(r) : m < n /\ r[m] = x /\ r[n] = y
    BY <1>5 DEF Before
  <2>2. ASSUME p \in DOMAIN b.levels[s], Before(b, s, p, x, y)
        PROVE  c.orders[x].ts < c.orders[y].ts
    <3>1. x \in OrderIds(b) /\ y \in OrderIds(b) /\ b.orders[x].ts < b.orders[y].ts
      BY <2>2, BeforeIn DEF Aged
    <3> QED BY <1>1, <3>1
  <2>3. CASE s = o.side /\ p = o.price
    <3>1. r = Append(q, o.id)
      <4>1. IF s = o.side /\ p = o.price
            THEN c.levels[s][p] =
                   Append(IF p \in DOMAIN b.levels[s] THEN b.levels[s][p] ELSE <<>>, o.id)
            ELSE p \in DOMAIN b.levels[s] /\ c.levels[s][p] = b.levels[s][p]
        BY InsertLevels
      <4> HIDE DEF c, q
      <4>2. IF s = o.side /\ p = o.price THEN r = Append(q, o.id) ELSE TRUE
        BY <4>1 DEF q
      <4> QED BY <2>3, <4>2
    <3>2. q \in Seq(OrderIds(b))
      <4>1. CASE p \in DOMAIN b.levels[s]
        <5>1. q \in Seq(At(b, s, p))
          BY <4>1 DEF SoundBook, SoundLevels, Lists
        <5> HIDE DEF q
        <5>2. At(b, s, p) \subseteq OrderIds(b)
          BY DEF At
        <5> QED BY <5>1, <5>2
      <4>2. CASE p \notin DOMAIN b.levels[s]
        BY <4>2
      <4> QED BY <4>1, <4>2
    <3>3. q = <<>> \/ (p \in DOMAIN b.levels[s] /\ q = b.levels[s][p])
      OBVIOUS
    <3> HIDE DEF q, r
    <3>4. /\ Len(q) \in Nat /\ Len(r) = Len(q) + 1 /\ r[Len(q) + 1] = o.id
          /\ \A k \in 1 .. Len(q) : r[k] = q[k] /\ q[k] \in OrderIds(b)
      BY <3>1, <3>2
    <3>5. m \in 1 .. Len(q) /\ x = q[m] /\ x \in OrderIds(b)
      BY <2>1, <3>4
    <3>6. CASE n = Len(q) + 1
      <4>1. y = o.id
        BY <2>1, <3>4, <3>6
      <4> QED BY <1>1, <1>3, <3>5, <4>1
    <3>7. CASE n # Len(q) + 1
      <4>1. n \in 1 .. Len(q) /\ q[n] = y
        BY <2>1, <3>4, <3>7
      <4>2. Len(q) # 0
        BY <3>4, <4>1
      <4>3. p \in DOMAIN b.levels[s] /\ q = b.levels[s][p]
        BY <3>3, <4>2
      <4>4. Before(b, s, p, x, y)
        BY <2>1, <3>5, <4>1, <4>3 DEF Before
      <4> QED BY <2>2, <4>3, <4>4
    <3> QED BY <3>6, <3>7
  <2>4. CASE ~(s = o.side /\ p = o.price)
    <3>1. p \in DOMAIN b.levels[s] /\ c.levels[s][p] = b.levels[s][p]
      BY <2>4, InsertLevels
    <3>2. Before(b, s, p, x, y)
      BY <1>5, <3>1 DEF Before
    <3> QED BY <2>2, <3>1, <3>2
  <2> QED BY <2>3, <2>4
<1> HIDE DEF c
<1> QED BY <1>4, <1>5 DEF Aged, c

-----------------------------------------------------------------------------
(* What matching leaves.                                                     *)

\* A fill of bi and then of ai.
LEMMA HeadsFollow ==
    ASSUME NEW k, SoundBook(k), NEW bi \in OrderIds(k), NEW ai \in OrderIds(k),
           NEW q \in 1 .. k.orders[bi].qty, q \in 1 .. k.orders[ai].qty,
           ai \in OrderIds(Reduce(k, bi, q)), Reduce(k, bi, q).orders[ai] = k.orders[ai]
    PROVE  Follows(Reduce(Reduce(k, bi, q), ai, q), k)
<1> DEFINE one == Reduce(k, bi, q)
<1>1. SoundBook(one) /\ Follows(one, k) /\ ai \in OrderIds(one) /\ q \in 1 .. one.orders[ai].qty
  BY ReduceSound, ReduceFollows
<1> HIDE DEF one
<1>2. Follows(Reduce(one, ai, q), one)
  BY <1>1, ReduceFollows
<1>3. Follows(Reduce(one, ai, q), k)
  BY <1>1, <1>2, FollowsOn
<1> QED BY <1>3 DEF one

\* A turn changes no order but for its quantity, and nobody's place.
LEMMA TurnFollows ==
    ASSUME NEW b, NEW m, Halfway(m, b)
    PROVE  Follows(Turn(m).book, m.book)
<1>1. PICK seen :
        /\ Halfway(seen, b)
        /\ seen.book.orders = m.book.orders /\ seen.book.levels = m.book.levels
        /\ Crossed(seen.book) <=> Crossed(m.book)
        /\ Turn(m) = IF Crossed(m.book) THEN TradeHeads(seen) ELSE seen
  BY TurnIs
<1>2. Follows(seen.book, m.book)
  BY <1>1, FollowsSame DEF OrderIds
<1>3. CASE ~Crossed(m.book)
  BY <1>1, <1>2, <1>3
<1>4. CASE Crossed(m.book)
  <2> DEFINE k  == seen.book
             bi == Head(k.levels["BUY"][BestPrice(k, "BUY")])
             ai == Head(k.levels["SELL"][BestPrice(k, "SELL")])
  <2>1. PICK q, px, ts :
          /\ bi \in OrderIds(k) /\ ai \in OrderIds(k)
          /\ q \in 1 .. k.orders[bi].qty /\ q \in 1 .. k.orders[ai].qty
          /\ ai \in OrderIds(Reduce(k, bi, q))
          /\ Reduce(k, bi, q).orders[ai] = k.orders[ai]
          /\ TradeHeads(seen) =
               [book |-> Reduce(Reduce(k, bi, q), ai, q),
                trades |-> Append(seen.trades, Trade(bi, ai, px, q, ts)), err |-> seen.err]
    <3>1. Halfway(seen, b) /\ Crossed(seen.book)
      BY <1>1, <1>4
    <3>2. bi \in OrderIds(k) /\ ai \in OrderIds(k)
      BY <3>1, TradeHeadsIs DEF At
    <3>3. \E q, px, ts :
          /\ q \in 1 .. k.orders[bi].qty /\ q \in 1 .. k.orders[ai].qty
          /\ q = k.orders[bi].qty \/ q = k.orders[ai].qty
          /\ px = IF k.orders[bi].ts <= k.orders[ai].ts THEN BestPrice(k, "BUY") ELSE BestPrice(k, "SELL")
          /\ ts = IF k.orders[bi].ts >= k.orders[ai].ts THEN k.orders[bi].ts
                                                         ELSE k.orders[ai].ts
          /\ SoundBook(Reduce(k, bi, q))
          /\ ai \in OrderIds(Reduce(k, bi, q))
          /\ Reduce(k, bi, q).orders[ai] = k.orders[ai]
          /\ TradeHeads(seen) =
               [book |-> Reduce(Reduce(k, bi, q), ai, q),
                trades |-> Append(seen.trades, Trade(bi, ai, px, q, ts)), err |-> seen.err]
      BY <3>1, TradeHeadsIs
    <3> HIDE DEF bi, ai, k
    <3> QED BY <3>2, <3>3
  <2>2. SoundBook(k)
    BY <1>1 DEF Halfway
  <2> HIDE DEF bi, ai, k
  <2>3. Follows(Reduce(Reduce(k, bi, q), ai, q), k)
    BY <2>1, <2>2, HeadsFollow
  <2>4. Turn(m).book = Reduce(Reduce(k, bi, q), ai, q)
    BY <1>1, <1>4, <2>1
  <2> QED BY <1>2, <2>3, <2>4, FollowsOn DEF k
<1> QED BY <1>3, <1>4

\* Without the order a nothing crosses in b, and a is the youngest.
Aggressor(b, a) ==
    /\ a \in OrderIds(b)
    /\ \A i, j \in OrderIds(b) \ {a} :
         b.orders[i].side = "BUY" /\ b.orders[j].side = "SELL" => b.orders[i].price < b.orders[j].price
    /\ \A i \in OrderIds(b) \ {a} : b.orders[i].ts < b.orders[a].ts

\* The trades of the order o are within its limit, at prices that do not get
\* better for it, and the book c offers it none that is.
Improving(o, made, c) ==
    LET s == Opposite(o.side) IN
    /\ \A n \in 1 .. Len(made) : /\ Crosses(o.side, o.price, made[n].price)
                                 /\ n > 1 => ~Better(s, made[n].price, made[n - 1].price)
    /\ made # <<>> => \A p \in DOMAIN c.levels[s] : ~Better(s, p, made[Len(made)].price)

\* A state of match_orders called on b, into which a has come.
Walked(m, b, a) ==
    /\ Halfway(m, b)
    /\ Follows(m.book, b)
    /\ Improving(b.orders[a], m.trades, m.book)

\* The heads of two crossed levels: one is the aggressor, and the price is the
\* other's.
LEMMA AggressorTrades ==
    ASSUME NEW b, SoundBook(b), NEW a, Aggressor(b, a),
           NEW k, SoundBook(k), Follows(k, b), Crossed(k),
           NEW bi \in At(k, "BUY", BestPrice(k, "BUY")),
           NEW ai \in At(k, "SELL", BestPrice(k, "SELL"))
    PROVE  LET o  == b.orders[a]
               s  == Opposite(o.side)
               px == IF k.orders[bi].ts <= k.orders[ai].ts THEN BestPrice(k, "BUY")
                                                           ELSE BestPrice(k, "SELL")
           IN  px = BestPrice(k, s) /\ Crosses(o.side, o.price, px)
<1> DEFINE bp  == BestPrice(k, "BUY")
           ap  == BestPrice(k, "SELL")
<1>1. /\ bi \in OrderIds(b) /\ b.orders[bi].side = "BUY" /\ b.orders[bi].price = bp
      /\ ai \in OrderIds(b) /\ b.orders[ai].side = "SELL" /\ b.orders[ai].price = ap
      /\ k.orders[bi].ts = b.orders[bi].ts /\ k.orders[ai].ts = b.orders[ai].ts
  BY DEF At, Follows
<1>2. bp >= ap
  BY DEF Crossed
<1>3. b.orders[bi] \in RestingOrder /\ b.orders[ai] \in RestingOrder
  BY <1>1 DEF SoundBook, SoundOrders
<1>4. bp \in Nat /\ ap \in Nat /\ b.orders[bi].ts \in Nat /\ b.orders[ai].ts \in Nat
  BY <1>1, <1>3, Ranges DEF RestingOrder
<1> HIDE DEF bp, ap
<1>5. bi = a \/ ai = a
  <2> SUFFICES ASSUME bi # a, ai # a PROVE FALSE
    OBVIOUS
  <2>1. bp < ap
    BY <1>1 DEF Aggressor
  <2> QED BY <1>2, <1>4, <2>1
<1>6. bi # ai
  BY <1>1
<1>7. CASE bi = a
  <2>1. k.orders[ai].ts < k.orders[bi].ts
    BY <1>1, <1>6, <1>7 DEF Aggressor
  <2>2. Opposite(b.orders[a].side) = "SELL" /\ b.orders[a].side = "BUY" /\ b.orders[a].price = bp
    BY <1>1, <1>7 DEF Opposite
  <2>3. ~(k.orders[bi].ts <= k.orders[ai].ts)
    BY <1>1, <1>4, <2>1
  <2>4. Crosses("BUY", bp, ap)
    BY <1>2, <1>4 DEF Crosses, Better
  <2> QED BY <2>2, <2>3, <2>4 DEF bp, ap
<1>8. CASE ai = a
  <2>1. k.orders[bi].ts < k.orders[ai].ts
    BY <1>1, <1>6, <1>8 DEF Aggressor
  <2>2. Opposite(b.orders[a].side) = "BUY" /\ b.orders[a].side = "SELL" /\ b.orders[a].price = ap
    BY <1>1, <1>8 DEF Opposite
  <2>3. k.orders[bi].ts <= k.orders[ai].ts
    BY <1>1, <1>4, <2>1
  <2>4. Crosses("SELL", ap, bp)
    BY <1>2, <1>4 DEF Crosses, Better
  <2> QED BY <2>2, <2>3, <2>4 DEF bp, ap
<1> QED BY <1>5, <1>7, <1>8

\* One more turn.
LEMMA TurnWalks ==
    ASSUME NEW b, SoundBook(b), NEW a, Aggressor(b, a), NEW m, Walked(m, b, a)
    PROVE  Walked(Turn(m), b, a)
<1> DEFINE o == b.orders[a]
           s == Opposite(o.side)
<1>1. Halfway(Turn(m), b) /\ Follows(Turn(m).book, b)
  <2>1. Halfway(Turn(m), b) /\ Follows(Turn(m).book, m.book)
    BY TurnKeeps, TurnFollows DEF Walked
  <2> QED BY <2>1, FollowsOn DEF Walked
<1>2. PICK seen :
        /\ Halfway(seen, b)
        /\ seen.book.orders = m.book.orders /\ seen.book.levels = m.book.levels
        /\ seen.trades = m.trades
        /\ Crossed(seen.book) <=> Crossed(m.book)
        /\ Turn(m) = IF Crossed(m.book) THEN TradeHeads(seen) ELSE seen
  BY TurnIs DEF Walked
<1>3. Improving(o, m.trades, m.book)
  BY DEF Walked
<1>4. CASE ~Crossed(m.book)
  <2>1. Turn(m) = seen
    BY <1>2, <1>4
  <2>2. Improving(o, seen.trades, seen.book)
    BY <1>2, <1>3 DEF Improving
  <2> QED BY <1>1, <2>1, <2>2 DEF Walked
<1>5. CASE Crossed(m.book)
  <2> DEFINE k  == seen.book
             bp == BestPrice(k, "BUY")
             ap == BestPrice(k, "SELL")
             bi == Head(k.levels["BUY"][bp])
             ai == Head(k.levels["SELL"][ap])
             made == m.trades
  <2>1. bi \in At(k, "BUY", bp) /\ ai \in At(k, "SELL", ap)
    BY <1>2, <1>5, TradeHeadsIs
  <2>2. PICK q, px, ts :
          /\ q \in 1 .. k.orders[bi].qty /\ q \in 1 .. k.orders[ai].qty
          /\ q = k.orders[bi].qty \/ q = k.orders[ai].qty
          /\ px = IF k.orders[bi].ts <= k.orders[ai].ts THEN bp ELSE ap
          /\ ts = IF k.orders[bi].ts >= k.orders[ai].ts THEN k.orders[bi].ts
                                                         ELSE k.orders[ai].ts
          /\ SoundBook(Reduce(k, bi, q))
          /\ ai \in OrderIds(Reduce(k, bi, q))
          /\ Reduce(k, bi, q).orders[ai] = k.orders[ai]
          /\ TradeHeads(seen) =
               [book |-> Reduce(Reduce(k, bi, q), ai, q),
                trades |-> Append(seen.trades, Trade(bi, ai, px, q, ts)), err |-> seen.err]
    BY <1>2, <1>5, TradeHeadsIs
  <2>3. SoundBook(k) /\ Crossed(k) /\ Follows(k, b)
    <3>1. Follows(k, m.book)
      BY <1>2, FollowsSame DEF OrderIds
    <3> QED BY <1>2, <1>5, <3>1, FollowsOn DEF Halfway, Walked
  <2>4. px = BestPrice(k, s) /\ Crosses(o.side, o.price, px)
    <3>1. LET x == IF k.orders[bi].ts <= k.orders[ai].ts THEN bp ELSE ap
          IN  x = BestPrice(k, s) /\ Crosses(o.side, o.price, x)
      <4> HIDE DEF k, bi, ai
      <4> QED BY <2>1, <2>3, AggressorTrades
    <3> QED BY <2>2, <3>1
  <2>5. s \in Side /\ DOMAIN k.levels[s] # {}
    <3>1. s \in Side
      BY DEF Opposite, Side
    <3>2. bp # NoPrice /\ ap # NoPrice
      BY <2>3 DEF Crossed
    <3>3. BestPrice(k, s) # NoPrice
      BY <3>2 DEF Opposite
    <3> QED BY <2>3, <3>1, <3>3, BestPriceIs
  <2>6. px \in DOMAIN k.levels[s] /\ \A p \in DOMAIN k.levels[s] : ~Better(s, p, px)
    BY <2>3, <2>4, <2>5, BestPriceIs
  <2> HIDE DEF k, bi, ai, bp, ap
  <2> DEFINE t == Trade(bi, ai, px, q, ts)
             n == Reduce(Reduce(k, bi, q), ai, q)
             more == Append(made, t)
  <2>7. Follows(n, k)
    <3>1. bi \in OrderIds(k) /\ ai \in OrderIds(k)
      BY <2>1 DEF At
    <3> QED BY <2>2, <2>3, <3>1, HeadsFollow
  <2>8. t.price = px
    BY DEF Trade
  <2>9. made \in Seq(MadeTrade)
    BY DEF Walked, Halfway
  <2>17. Turn(m).trades = more /\ Turn(m).book = n
    BY <1>2, <1>5, <2>2
  <2> HIDE DEF t, n
  <2>11. /\ Len(made) \in Nat /\ Len(more) = Len(made) + 1 /\ more[Len(made) + 1] = t
         /\ \A i \in 1 .. Len(made) : more[i] = made[i]
    <3> HIDE DEF made
    <3> QED BY <2>9
  <2>12. Improving(o, made, k)
    BY <1>2, <1>3 DEF Improving, k
  <2> HIDE DEF made, more, o
  <2>13. ASSUME made # <<>> PROVE ~Better(s, px, made[Len(made)].price)
    BY <2>6, <2>12, <2>13 DEF Improving
  <2>14. ASSUME NEW i \in 1 .. Len(more)
         PROVE  /\ Crosses(o.side, o.price, more[i].price)
                /\ i > 1 => ~Better(s, more[i].price, more[i - 1].price)
    <3>1. CASE i = Len(made) + 1
      <4>1. more[i].price = px
        BY <2>8, <2>11, <3>1
      <4>2. ASSUME i > 1 PROVE made # <<>> /\ more[i - 1] = made[Len(made)]
        <5>1. Len(made) \in 1 .. Len(made) /\ i - 1 = Len(made) /\ Len(made) # 0
          BY <2>11, <3>1, <4>2
        <5>2. made # <<>>
          BY <5>1
        <5> QED BY <2>11, <5>1, <5>2
      <4> QED BY <2>4, <2>13, <4>1, <4>2
    <3>2. CASE i # Len(made) + 1
      <4>1. i \in 1 .. Len(made) /\ (i > 1 => i - 1 \in 1 .. Len(made))
        BY <2>11, <3>2
      <4> QED BY <2>11, <2>12, <4>1 DEF Improving
    <3> QED BY <3>1, <3>2
  <2>15. \A p \in DOMAIN n.levels[s] : ~Better(s, p, more[Len(more)].price)
    BY <2>5, <2>6, <2>7, <2>8, <2>11 DEF Follows
  <2>16. Improving(o, more, n)
    BY <2>14, <2>15 DEF Improving
  <2> QED BY <1>1, <2>16, <2>17 DEF Walked, o
<1> QED BY <1>4, <1>5

\* match_orders: everybody keeps his place.
LEMMA MatchFollows ==
    ASSUME NEW b, SoundBook(b)
    PROVE  /\ Follows(MatchOrders(b).book, b)
           /\ \A a : Aggressor(b, a) =>
                Improving(b.orders[a], MatchOrders(b).trades, MatchOrders(b).book)
<1>1. PICK after, turns :
        /\ turns \in Nat
        /\ Halfway(after[0], b) /\ after[0].book = b /\ after[0].trades = <<>>
        /\ \A n \in 1 .. turns : after[n] = Turn(after[n - 1])
        /\ MatchOrders(b) = after[turns]
  BY MatchUnfolds
<1> DEFINE good(n) == /\ Halfway(after[n], b) /\ Follows(after[n].book, b)
                      /\ \A a : Aggressor(b, a) => Walked(after[n], b, a)
           Bad     == {n \in 0 .. turns : ~good(n)}
<1>2. good(0)
  <2>1. Follows(b, b)
    BY FollowsOn
  <2>2. \A o : Improving(o, <<>>, b)
    BY DEF Improving
  <2> QED BY <1>1, <2>1, <2>2 DEF Walked
<1>3. ASSUME NEW n \in 1 .. turns, good(n - 1) PROVE good(n)
  <2>1. after[n] = Turn(after[n - 1])
    BY <1>1
  <2> DEFINE m == after[n - 1]
  <2>2. Halfway(m, b) /\ Follows(m.book, b) /\ \A a : Aggressor(b, a) => Walked(m, b, a)
    BY <1>3
  <2> HIDE DEF m
  <2>3. Halfway(Turn(m), b) /\ Follows(Turn(m).book, b)
    <3>1. Halfway(Turn(m), b) /\ Follows(Turn(m).book, m.book)
      BY <2>2, TurnKeeps, TurnFollows
    <3> QED BY <2>2, <3>1, FollowsOn
  <2>4. \A a : Aggressor(b, a) => Walked(Turn(m), b, a)
    BY <2>2, TurnWalks
  <2> QED BY <2>1, <2>3, <2>4 DEF m
<1> HIDE DEF good
<1>4. Bad = {}
  <2> SUFFICES ASSUME Bad # {} PROVE FALSE
    OBVIOUS
  <2>1. PICK j \in Bad : \A n \in Bad : j <= n
    <3>1. Bad \subseteq Nat
      OBVIOUS
    <3> HIDE DEF Bad
    <3> QED BY <3>1, LeastOf
  <2>2. j \in 1 .. turns
    BY <1>2
  <2>3. j - 1 \in 0 .. turns /\ ~(j <= j - 1)
    BY <1>1, <2>2
  <2>4. good(j - 1)
    BY <2>1, <2>3
  <2> QED BY <1>3, <2>2, <2>4
<1>5. good(turns)
  BY <1>1, <1>4
<1> QED BY <1>1, <1>5 DEF good, Walked

\* Time passes.
LEMMA AgedLater ==
    ASSUME NEW b, SoundBook(b), NEW T \in Nat, NEW U \in Nat, T <= U, Aged(b, T)
    PROVE  Aged(b, U)
<1>1. \A i \in OrderIds(b) : b.orders[i].ts \in Nat
  BY DEF SoundBook, SoundOrders, RestingOrder
<1>2. \A i \in OrderIds(b) : b.orders[i].ts <= U
  BY <1>1 DEF Aged
<1> QED BY <1>2 DEF Aged

\* add_order: everybody keeps his place, the new order is the last, and its trades
\* come at prices that do not get better.
LEMMA AddAged ==
    ASSUME NEW b, GoodBook(b), NEW o \in RestingOrder, NEW T \in Nat, Aged(b, T), T < o.ts
    PROVE  /\ Aged(AddOrder(b, o).book, o.ts)
           /\ Improving(o, AddOrder(b, o).trades, AddOrder(b, o).book)
<1>1. ~(o.price <= 0) /\ ~(o.qty <= 0) /\ o.ts \in Nat /\ T <= o.ts
  BY Ranges DEF RestingOrder
<1>2. CASE o.id \in OrderIds(b)
  <2>1. AddOrder(b, o).book = b /\ AddOrder(b, o).trades = <<>>
    BY <1>1, <1>2 DEF AddOrder, Raise
  <2>2. Aged(b, o.ts)
    BY <1>1, AgedLater DEF GoodBook
  <2>3. Improving(o, <<>>, b)
    BY DEF Improving
  <2> QED BY <2>1, <2>2, <2>3
<1>3. CASE o.id \notin OrderIds(b)
  <2> DEFINE c == Insert(b, o)
             m == MatchOrders(c)
  <2>1. AddOrder(b, o) = m
    BY <1>1, <1>3 DEF AddOrder
  <2>2. SoundBook(b) /\ SoundBook(c)
    BY <1>3, InsertSound DEF GoodBook
  <2>3. Aged(c, o.ts)
    BY <1>3, <2>2, InsertAged
  <2>4. /\ OrderIds(c) = OrderIds(b) \union {o.id}
        /\ c.orders[o.id] = o
        /\ \A i \in OrderIds(b) : c.orders[i] = b.orders[i]
    BY <1>3, <2>2, InsertOrders
  <2>5. Aggressor(c, o.id)
    <3>1. ASSUME NEW i \in OrderIds(c) \ {o.id} PROVE c.orders[i].ts < c.orders[o.id].ts
      <4>1. i \in OrderIds(b) /\ b.orders[i] \in RestingOrder
        BY <2>2, <2>4 DEF SoundBook, SoundOrders
      <4>2. b.orders[i].ts \in Nat /\ b.orders[i].ts <= T
        BY <4>1 DEF RestingOrder, Aged
      <4> QED BY <1>1, <2>4, <4>1, <4>2
    <3>2. ASSUME NEW i \in OrderIds(c) \ {o.id}, NEW j \in OrderIds(c) \ {o.id},
                 c.orders[i].side = "BUY", c.orders[j].side = "SELL"
          PROVE  c.orders[i].price < c.orders[j].price
      <4> DEFINE p == b.orders[i].price
                 r == b.orders[j].price
                 bp == BestPrice(b, "BUY")
                 ap == BestPrice(b, "SELL")
      <4>1. i \in At(b, "BUY", p) /\ j \in At(b, "SELL", r) /\ "BUY" \in Side /\ "SELL" \in Side
        BY <2>4, <3>2 DEF At, Side
      <4>2. p \in DOMAIN b.levels["BUY"] /\ r \in DOMAIN b.levels["SELL"]
        BY <2>2, <4>1 DEF SoundBook, SoundLevels
      <4>3. p \in PriceMin .. PriceMax /\ r \in PriceMin .. PriceMax
        BY <2>2, <4>1, <4>2, LevelsHold
      <4>4. /\ bp # NoPrice /\ ap # NoPrice /\ bp \in PriceMin .. PriceMax /\ ap \in PriceMin .. PriceMax
            /\ ~Better("BUY", p, bp) /\ ~Better("SELL", r, ap)
        BY <2>2, <4>1, <4>2, BestPriceIs
      <4>5. ~(bp >= ap)
        BY <4>4 DEF GoodBook, Crossed
      <4>6. c.orders[i].price = p /\ c.orders[j].price = r
        BY <2>4
      <4> HIDE DEF p, r, bp, ap, c
      <4>7. p < r
        BY <4>3, <4>4, <4>5, Ranges DEF Better
      <4> QED BY <4>6, <4>7
    <3> HIDE DEF c
    <3> QED BY <2>4, <3>1, <3>2 DEF Aggressor
  <2> HIDE DEF c
  <2>6. Follows(m.book, c) /\ Improving(o, m.trades, m.book)
    BY <2>2, <2>4, <2>5, MatchFollows
  <2>7. SoundBook(m.book)
    BY <2>2, MatchGood DEF GoodBook
  <2>8. Aged(m.book, o.ts)
    BY <2>3, <2>6, <2>7, AgedFollows
  <2> QED BY <2>1, <2>6, <2>8
<1> QED BY <1>2, <1>3

\* cancel_order.
LEMMA CancelAged ==
    ASSUME NEW b, GoodBook(b), NEW id, NEW T \in Nat, Aged(b, T)
    PROVE  Aged(CancelOrder(b, id).book, T)
<1>1. CASE id \notin OrderIds(b)
  BY <1>1 DEF CancelOrder, Raise
<1>2. CASE id \in OrderIds(b)
  <2>1. CancelOrder(b, id).book = Discard(b, id)
    BY <1>2 DEF CancelOrder, Done
  <2>2. SoundBook(Discard(b, id)) /\ Follows(Discard(b, id), b)
    BY <1>2, DiscardSound, DiscardFollows DEF GoodBook
  <2> QED BY <2>1, <2>2, AgedFollows
<1> QED BY <1>1, <1>2

\* modify_order: the same price keeps the place, another goes to the end.
LEMMA ModifyAged ==
    ASSUME NEW b, GoodBook(b), NEW id, NEW q \in 1 .. MaxQuantity,
           NEW p \in PriceMin .. PriceMax, NEW ts \in Nat, NEW T \in Nat, Aged(b, T), T < ts
    PROVE  Aged(ModifyOrder(b, id, q, p, ts).book, ts)
<1> DEFINE r == ModifyOrder(b, id, q, p, ts)
<1>1. ~(q <= 0 \/ p <= 0) /\ Aged(b, ts) /\ SoundBook(b)
  BY Ranges, AgedLater DEF GoodBook
<1>2. CASE id \notin OrderIds(b)
  BY <1>1, <1>2 DEF ModifyOrder, Raise
<1>3. CASE id \in OrderIds(b) /\ p = b.orders[id].price
  <2> DEFINE c == [b EXCEPT !.orders[id].qty = q]
  <2>1. r.book = c
    BY <1>1, <1>3 DEF ModifyOrder, Done
  <2>2. SoundBook(c) /\ Follows(c, b)
    BY <1>1, <1>3, RequantifySound, RequantifyFollows
  <2> HIDE DEF c, r
  <2>3. Aged(r.book, ts)
    BY <1>1, <2>1, <2>2, AgedFollows
  <2> QED BY <2>3 DEF r
<1>4. CASE id \in OrderIds(b) /\ p # b.orders[id].price
  <2> DEFINE o == Order(id, b.orders[id].side, p, q, ts)
             c == Discard(b, id)
  <2>1. r = MatchOrders(Insert(c, o))
    BY <1>1, <1>4 DEF ModifyOrder
  <2>2. SoundBook(c) /\ OrderIds(c) = OrderIds(b) \ {id} /\ Follows(c, b)
    BY <1>1, <1>4, DiscardSound, DiscardFollows
  <2>3. b.orders[id] \in RestingOrder /\ b.orders[id].id = id
    BY <1>1, <1>4 DEF SoundBook, SoundOrders
  <2>4. o \in RestingOrder /\ o.id = id /\ o.ts = ts
    BY <2>3 DEF Order, RestingOrder
  <2> HIDE DEF c, o, r
  <2>5. SoundBook(Insert(c, o))
    BY <1>4, <2>2, <2>4, InsertSound
  <2>6. Aged(c, T)
    BY <2>2, AgedFollows
  <2>7. Aged(Insert(c, o), ts)
    BY <2>2, <2>4, <2>6, InsertAged
  <2>8. SoundBook(r.book) /\ Follows(r.book, Insert(c, o))
    BY <2>1, <2>5, MatchGood, MatchFollows DEF GoodBook
  <2>9. Aged(r.book, ts)
    BY <2>7, <2>8, AgedFollows
  <2> QED BY <2>9 DEF r
<1> QED BY <1>2, <1>3, <1>4

\* execute_order.
LEMMA ExecuteAged ==
    ASSUME NEW b, GoodBook(b), NEW id, NEW q \in Nat, NEW ts, NEW T \in Nat, Aged(b, T)
    PROVE  Aged(ExecuteOrder(b, id, q, ts).book, T)
<1> DEFINE r == ExecuteOrder(b, id, q, ts)
<1>1. CASE id \notin OrderIds(b)
  BY <1>1 DEF ExecuteOrder, Raise
<1>2. CASE id \in OrderIds(b)
  <2>1. b.orders[id] \in RestingOrder /\ b.orders[id].qty \in Nat
    BY <1>2, Ranges DEF GoodBook, SoundBook, SoundOrders, RestingOrder
  <2>2. CASE q \notin 1 .. b.orders[id].qty
    <3>1. q <= 0 \/ q > b.orders[id].qty
      BY <2>1, <2>2
    <3>2. r.book = b
      BY <1>2, <3>1 DEF ExecuteOrder, Raise
    <3> QED BY <3>2
  <2>3. CASE q \in 1 .. b.orders[id].qty
    <3> DEFINE c == Reduce(b, id, q)
    <3>1. ~(q <= 0 \/ q > b.orders[id].qty)
      BY <2>1, <2>3
    <3>2. r.book = c
      BY <1>2, <3>1 DEF ExecuteOrder, Done
    <3>3. SoundBook(c) /\ Follows(c, b)
      BY <1>2, <2>3, ReduceSound, ReduceFollows DEF GoodBook
    <3> HIDE DEF c, r
    <3>4. Aged(r.book, T)
      BY <3>2, <3>3, AgedFollows
    <3> QED BY <3>4 DEF r
  <2> QED BY <2>2, <2>3
<1> QED BY <1>1, <1>2

-----------------------------------------------------------------------------
(* The generator's time.                                                     *)

-----------------------------------------------------------------------------
(* The generator.                                                            *)

\* A message that decodes, with fields in range.
Wire ==
    [type : MsgType, side : Side, external : BOOLEAN, seq : Nat, id : Nat,
     price : PriceMin .. PriceMax, qty : 1 .. MaxQuantity, ts : Nat]

\* The generator's ids are those of its mirror, and the next is new; no method
\* of the mirror raised.
SoundGen(g) ==
    /\ g = [book |-> g.book, seq |-> g.seq, nextId |-> g.nextId, live |-> g.live,
            ts |-> g.ts, trades |-> g.trades, err |-> ""]
    /\ GoodBook(g.book)
    /\ g.live = OrderIds(g.book)
    /\ g.seq \in Nat /\ g.nextId \in Nat /\ g.ts \in Nat /\ g.trades \in Nat
    /\ \A i \in g.live : i < g.nextId

\* The result of an order event in the book b.
Applied(b, m) ==
    CASE m.type = "ADD"    -> AddOrder(b, Order(m.id, m.side, m.price, m.qty, m.ts))
      [] m.type = "CANCEL" -> CancelOrder(b, m.id)
      [] m.type = "MODIFY" -> ModifyOrder(b, m.id, m.qty, m.price, m.ts)
      [] OTHER             -> ExecuteOrder(b, m.id, m.qty, m.ts)

\* What an event of the generator g is: a message in range and its result, which
\* is no exception.
EventGood(g, m, res) ==
    /\ m \in Wire
    /\ m.external <=> m.type = "EXECUTE"
    /\ res = Applied(g.book, m)
    /\ res.err = ""
    /\ GoodBook(res.book)
    /\ OrderIds(res.book) \subseteq OrderIds(g.book) \union (IF m.type = "ADD" THEN {g.nextId} ELSE {})
    /\ ~m.external => res.trades \in Seq(MadeTrade)

\* The parts of SoundGen.
LEMMA GenParts ==
    ASSUME NEW g, SoundGen(g)
    PROVE  /\ GoodBook(g.book)
           /\ g.live = OrderIds(g.book)
           /\ g.seq \in Nat /\ g.nextId \in Nat /\ g.ts \in Nat /\ g.trades \in Nat
           /\ \A i \in g.live : i < g.nextId
BY DEF SoundGen

\* The generator stays in its price range.
LEMMA PickPriceInRange ==
    ASSUME NEW g, GoodBook(g.book), NEW s \in Side, NEW crossing \in BOOLEAN
    PROVE  PickPrice(g, s, crossing) \subseteq PriceMin .. PriceMax
<1> DEFINE best == BestPrice(g.book, Opposite(s))
           mid  == (PriceMin + PriceMax) \div 2
           half == (PriceMax - PriceMin) \div 4
<1>1. Opposite(s) \in Side
  BY DEF Opposite, Side
<1>2. best = NoPrice \/ best \in PriceMin .. PriceMax
  BY <1>1, BestPriceIs DEF GoodBook
<1>3. mid \in Int /\ half \in Int
  BY Ranges
<1> HIDE DEF best, mid, half
<1>4. ASSUME best # NoPrice, NEW n \in 1 .. CrossSpan
      PROVE  /\ Min({best + n, PriceMax}) \in PriceMin .. PriceMax
             /\ Max({best - n, PriceMin}) \in PriceMin .. PriceMax
  <2>1. best \in PriceMin .. PriceMax
    BY <1>2, <1>4
  <2>2. best + n \in Int /\ best - n \in Int /\ PriceMin \in Int /\ PriceMax \in Int
    BY <2>1, Ranges
  <2>3. Min({best + n, PriceMax}) = IF best + n <= PriceMax THEN best + n ELSE PriceMax
    BY <2>2, TwoNumbers
  <2>4. Max({best - n, PriceMin}) = IF best - n >= PriceMin THEN best - n ELSE PriceMin
    BY <2>2, TwoNumbers
  <2> QED BY <2>1, <2>3, <2>4, Ranges
<1>5. ASSUME NEW x \in Int
      PROVE  Max({PriceMin, Min({x, PriceMax})}) \in PriceMin .. PriceMax
  <2> DEFINE y == Min({x, PriceMax})
  <2>1. PriceMin \in Int /\ PriceMax \in Int
    BY Ranges
  <2>2. y = IF x <= PriceMax THEN x ELSE PriceMax
    BY <2>1, TwoNumbers
  <2>3. y \in Int /\ y <= PriceMax
    BY <2>1, <2>2
  <2> HIDE DEF y
  <2>4. Max({PriceMin, y}) = IF PriceMin >= y THEN PriceMin ELSE y
    BY <2>1, <2>3, TwoNumbers
  <2>5. Max({PriceMin, y}) \in PriceMin .. PriceMax
    BY <2>3, <2>4, Ranges
  <2> QED BY <2>5 DEF y
<1>6. CASE crossing /\ best # NoPrice
  <2>1. PickPrice(g, s, crossing) =
          {IF s = "BUY" THEN Min({best + n, PriceMax}) ELSE Max({best - n, PriceMin}) :
             n \in 1 .. CrossSpan}
    BY <1>6 DEF PickPrice, best
  <2> QED BY <2>1, <1>4, <1>6
<1>7. CASE ~(crossing /\ best # NoPrice)
  <2>1. PickPrice(g, s, crossing) =
          {Max({PriceMin, Min({IF s = "BUY" THEN mid - n ELSE mid + n, PriceMax})}) :
             n \in 0 .. half}
    BY <1>7 DEF PickPrice, best, mid, half
  <2>2. \A n \in 0 .. half : (IF s = "BUY" THEN mid - n ELSE mid + n) \in Int
    BY <1>3
  <2> QED BY <2>1, <2>2, <1>5
<1> QED BY <1>6, <1>7

\* An ADD: the id is new.
LEMMA GenAddGood ==
    ASSUME NEW g, SoundGen(g), NEW s \in Side, NEW p \in PriceMin .. PriceMax,
           NEW q \in 1 .. MaxQuantity
    PROVE  EventGood(g, GenAdd(g, s, p, q)[1], GenAdd(g, s, p, q)[2])
<1> DEFINE m   == Message("ADD", s, FALSE, 0, g.nextId, p, q, g.ts + 1)
           o   == Order(m.id, s, p, q, m.ts)
           res == AddOrder(g.book, o)
<1>1. GenAdd(g, s, p, q)[1] = m /\ GenAdd(g, s, p, q)[2] = res
  BY DEF GenAdd
<1>2. GoodBook(g.book) /\ g.nextId \in Nat /\ g.ts + 1 \in Nat /\ g.nextId \notin OrderIds(g.book)
  BY GenParts
<1>3. m \in Wire /\ m.type = "ADD" /\ m.external = FALSE
  BY <1>2 DEF Message, Wire, MsgType
<1>4. o = Order(m.id, m.side, m.price, m.qty, m.ts) /\ o \in RestingOrder /\ o.id = g.nextId
  BY <1>2 DEF Message, Order, RestingOrder
<1>5. res = Applied(g.book, m)
  BY <1>3, <1>4 DEF Applied
<1> HIDE DEF m, o
<1>6. /\ GoodBook(res.book) /\ res.err = "" /\ res.trades \in Seq(MadeTrade)
      /\ OrderIds(res.book) \subseteq OrderIds(g.book) \union {g.nextId}
  BY <1>2, <1>4, AddGood
<1> HIDE DEF res
<1> QED BY <1>1, <1>3, <1>5, <1>6 DEF EventGood

\* A CANCEL: the order rests.
LEMMA GenCancelGood ==
    ASSUME NEW g, SoundGen(g), NEW id \in g.live
    PROVE  EventGood(g, GenCancel(g, id)[1], GenCancel(g, id)[2])
<1> DEFINE o   == g.book.orders[id]
           m   == Message("CANCEL", o.side, FALSE, 0, id, o.price, o.qty, g.ts + 1)
           res == CancelOrder(g.book, id)
<1>1. GenCancel(g, id)[1] = m /\ GenCancel(g, id)[2] = res
  BY DEF GenCancel
<1>2. GoodBook(g.book) /\ id \in OrderIds(g.book) /\ g.ts + 1 \in Nat
  BY GenParts
<1>3. o \in RestingOrder /\ o.id = id
  BY <1>2 DEF GoodBook, SoundBook, SoundOrders
<1> HIDE DEF o
<1>4. m \in Wire /\ m.type = "CANCEL" /\ m.external = FALSE /\ m.id = id
  BY <1>2, <1>3 DEF Message, Wire, MsgType, RestingOrder
<1>5. res = Applied(g.book, m)
  BY <1>4 DEF Applied
<1> HIDE DEF m
<1>6. /\ GoodBook(res.book) /\ res.err = "" /\ res.trades = <<>>
      /\ OrderIds(res.book) \subseteq OrderIds(g.book)
  BY <1>2, CancelGood
<1> HIDE DEF res
<1> QED BY <1>1, <1>4, <1>5, <1>6, EmptySeq DEF EventGood

\* A MODIFY: the order rests, and the price is its own or a new one in range.
LEMMA GenModifyGood ==
    ASSUME NEW g, SoundGen(g), NEW id \in g.live, NEW p \in PriceMin .. PriceMax,
           NEW q \in 1 .. MaxQuantity
    PROVE  EventGood(g, GenModify(g, id, p, q)[1], GenModify(g, id, p, q)[2])
<1> DEFINE o   == g.book.orders[id]
           m   == Message("MODIFY", o.side, FALSE, 0, id, p, q, g.ts + 1)
           res == ModifyOrder(g.book, id, q, p, m.ts)
<1>1. GenModify(g, id, p, q)[1] = m /\ GenModify(g, id, p, q)[2] = res
  BY DEF GenModify
<1>2. GoodBook(g.book) /\ id \in OrderIds(g.book) /\ g.ts + 1 \in Nat
  BY GenParts
<1>3. o \in RestingOrder /\ o.id = id
  BY <1>2 DEF GoodBook, SoundBook, SoundOrders
<1> HIDE DEF o
<1>4. /\ m \in Wire /\ m.type = "MODIFY" /\ m.external = FALSE /\ m.id = id
      /\ m.price = p /\ m.qty = q /\ m.ts = g.ts + 1
  BY <1>2, <1>3 DEF Message, Wire, MsgType, RestingOrder
<1>5. res = Applied(g.book, m)
  BY <1>4 DEF Applied
<1>6. res = ModifyOrder(g.book, id, q, p, g.ts + 1)
  BY <1>4
<1> HIDE DEF m, res
<1>7. /\ GoodBook(res.book) /\ res.err = "" /\ res.trades \in Seq(MadeTrade)
      /\ OrderIds(res.book) \subseteq OrderIds(g.book)
  BY <1>2, <1>6, ModifyGood
<1> QED BY <1>1, <1>4, <1>5, <1>7 DEF EventGood

\* An external EXECUTE: of no more than is left.
LEMMA GenExternalGood ==
    ASSUME NEW g, SoundGen(g), NEW id \in g.live, NEW q \in 1 .. g.book.orders[id].qty
    PROVE  EventGood(g, GenExternal(g, id, q)[1], GenExternal(g, id, q)[2])
<1> DEFINE o   == g.book.orders[id]
           m   == Message("EXECUTE", o.side, TRUE, 0, id, o.price, q, g.ts + 1)
           res == ExecuteOrder(g.book, id, q, m.ts)
<1>1. GenExternal(g, id, q)[1] = m /\ GenExternal(g, id, q)[2] = res
  BY DEF GenExternal
<1>2. GoodBook(g.book) /\ id \in OrderIds(g.book) /\ g.ts + 1 \in Nat
  BY GenParts
<1>3. o \in RestingOrder /\ o.id = id
  BY <1>2 DEF GoodBook, SoundBook, SoundOrders
<1>4. q \in 1 .. MaxQuantity /\ q \in Nat /\ q \in 1 .. o.qty
  BY <1>3, Ranges DEF RestingOrder
<1> HIDE DEF o
<1>5. /\ m \in Wire /\ m.type = "EXECUTE" /\ m.external = TRUE /\ m.id = id
      /\ m.qty = q /\ m.ts = g.ts + 1
  BY <1>2, <1>3, <1>4 DEF Message, Wire, MsgType, RestingOrder
<1>6. res = Applied(g.book, m)
  BY <1>5 DEF Applied
<1>7. res = ExecuteOrder(g.book, id, q, g.ts + 1)
  BY <1>5
<1> HIDE DEF m, res
<1>8. /\ GoodBook(res.book) /\ res.err = ""
      /\ OrderIds(res.book) \subseteq OrderIds(g.book)
  BY <1>2, <1>4, <1>7, ExecuteGood DEF o
<1> QED BY <1>1, <1>5, <1>6, <1>8 DEF EventGood

\* Every event.
LEMMA EventsGood ==
    ASSUME NEW g, SoundGen(g), NEW e \in Events(g)
    PROVE  EventGood(g, e[1], e[2])
<1>1. GoodBook(g.book) /\ \A id \in g.live : g.book.orders[id] \in RestingOrder
  BY GenParts DEF GoodBook, SoundBook, SoundOrders
<1>2. \A s \in Side : PickPrice(g, s, TRUE) \union PickPrice(g, s, FALSE) \subseteq PriceMin .. PriceMax
  BY <1>1, PickPriceInRange
<1>3. CASE e \in AddEvents(g)
  <2> DEFINE P(s) == PickPrice(g, s, TRUE) \union PickPrice(g, s, FALSE)
             Q    == 1 .. MaxQuantity
  <2>1. AddEvents(g) = UNION {{GenAdd(g, s, p, q) : p \in P(s), q \in Q} : s \in Side}
    BY DEF AddEvents
  <2> HIDE DEF P, Q
  <2>2. PICK s \in Side : e \in {GenAdd(g, s, p, q) : p \in P(s), q \in Q}
    BY <1>3, <2>1
  <2>3. PICK p \in P(s), q \in Q : e = GenAdd(g, s, p, q)
    BY <2>2
  <2>4. p \in PriceMin .. PriceMax /\ q \in 1 .. MaxQuantity
    BY <1>2 DEF P, Q
  <2> QED BY <2>3, <2>4, GenAddGood
<1>4. CASE e \in CancelEvents(g)
  <2>1. PICK id \in g.live : e = GenCancel(g, id)
    BY <1>4 DEF CancelEvents
  <2> QED BY <2>1, GenCancelGood
<1>5. CASE e \in ModifyEvents(g)
  <2> DEFINE P(id) == PickPrice(g, g.book.orders[id].side, FALSE) \union {g.book.orders[id].price}
             Q     == 1 .. MaxQuantity
  <2>1. ModifyEvents(g) = UNION {{GenModify(g, id, p, q) : p \in P(id), q \in Q} : id \in g.live}
    BY DEF ModifyEvents
  <2> HIDE DEF P, Q
  <2>2. PICK id \in g.live : e \in {GenModify(g, id, p, q) : p \in P(id), q \in Q}
    BY <1>5, <2>1
  <2>3. PICK p \in P(id), q \in Q : e = GenModify(g, id, p, q)
    BY <2>2
  <2>4. g.book.orders[id].side \in Side /\ g.book.orders[id].price \in PriceMin .. PriceMax
    BY <1>1 DEF RestingOrder
  <2>5. p \in PriceMin .. PriceMax /\ q \in 1 .. MaxQuantity
    BY <1>2, <2>4 DEF P, Q
  <2> QED BY <2>3, <2>5, GenModifyGood
<1>6. CASE e \in ExternalEvents(g)
  <2>1. PICK id \in g.live : \E q \in 1 .. g.book.orders[id].qty : e = GenExternal(g, id, q)
    BY <1>6 DEF ExternalEvents
  <2> QED BY <2>1, GenExternalGood
<1> QED BY <1>3, <1>4, <1>5, <1>6 DEF Events

-----------------------------------------------------------------------------
(* A batch.                                                                  *)

\* The reports a consumer expects for some trades.
Expected(made) ==
    [k \in 1 .. 2 * Len(made) |->
        LET t == made[(k + 1) \div 2]
        IN  IF k % 2 = 1 THEN <<t.buy, "BUY", t.price, t.qty, t.ts>>
                         ELSE <<t.sell, "SELL", t.price, t.qty, t.ts>>]

\* Numbers of trades and of their reports.
LEMMA HalfIndex ==
    ASSUME NEW n \in Nat, NEW k \in 1 .. 2 * n
    PROVE  /\ (k + 1) \div 2 \in 1 .. n
           /\ k % 2 = 1 \/ k % 2 = 0
           /\ k % 2 = 1 => 2 - (k % 2) = 1
           /\ k % 2 = 0 => 2 - (k % 2) = 2
OBVIOUS

\* The reports of some trades: messages in range.
LEMMA ReportsTyped ==
    ASSUME NEW made \in Seq(MadeTrade)
    PROVE  /\ Pairwise(Reports, made) \in Seq(Wire)
           /\ Len(Pairwise(Reports, made)) = 2 * Len(made)
           /\ \A k \in 1 .. 2 * Len(made) :
                LET w == Pairwise(Reports, made)[k]
                IN  w.type = "EXECUTE" /\ w.external = FALSE /\ Fill(w) = Expected(made)[k]
<1> DEFINE P == Pairwise(Reports, made)
           N == 2 * Len(made)
<1>1. N \in Nat /\ Len(made) \in Nat
  OBVIOUS
<1>2. P = [k \in 1 .. N |-> Reports(made[(k + 1) \div 2])[2 - (k % 2)]]
  BY DEF Pairwise
<1>3. ASSUME NEW k \in 1 .. N
      PROVE  /\ P[k] \in Wire /\ P[k].type = "EXECUTE" /\ P[k].external = FALSE
             /\ Fill(P[k]) = Expected(made)[k]
  <2> DEFINE t == made[(k + 1) \div 2]
             w == IF k % 2 = 1
                  THEN Message("EXECUTE", "BUY", FALSE, 0, t.buy, t.price, t.qty, t.ts)
                  ELSE Message("EXECUTE", "SELL", FALSE, 0, t.sell, t.price, t.qty, t.ts)
  <2>1. (k + 1) \div 2 \in 1 .. Len(made)
    BY HalfIndex
  <2>2. t \in MadeTrade
    BY <2>1
  <2>3. P[k] = Reports(t)[2 - (k % 2)]
    BY <1>2
  <2>4. Expected(made)[k] = IF k % 2 = 1 THEN <<t.buy, "BUY", t.price, t.qty, t.ts>>
                                          ELSE <<t.sell, "SELL", t.price, t.qty, t.ts>>
    BY DEF Expected
  <2> HIDE DEF P, t
  <2>5. P[k] = w
    <3>1. /\ k % 2 = 1 \/ k % 2 = 0
          /\ k % 2 = 1 => 2 - (k % 2) = 1
          /\ k % 2 = 0 => 2 - (k % 2) = 2
      BY HalfIndex
    <3>2. /\ Reports(t)[1] = Message("EXECUTE", "BUY", FALSE, 0, t.buy, t.price, t.qty, t.ts)
          /\ Reports(t)[2] = Message("EXECUTE", "SELL", FALSE, 0, t.sell, t.price, t.qty, t.ts)
      BY DEF Reports
    <3>3. CASE k % 2 = 1
      BY <3>1, <3>2, <3>3, <2>3
    <3>4. CASE k % 2 = 0
      BY <3>1, <3>2, <3>4, <2>3
    <3> QED BY <3>1, <3>3, <3>4
  <2>6. w \in Wire
    BY <2>2 DEF MadeTrade, Wire, Message, MsgType, Side
  <2>7. w.type = "EXECUTE" /\ w.external = FALSE
    BY DEF Message
  <2>8. Fill(w) = Expected(made)[k]
    BY <2>4 DEF Fill, Message
  <2> QED BY <2>5, <2>6, <2>7, <2>8
<1> HIDE DEF P
<1>4. P \in Seq(Wire) /\ Len(P) = N
  <2>1. P = [k \in 1 .. N |-> P[k]]
    BY <1>2
  <2>2. \A k \in 1 .. N : P[k] \in Wire
    BY <1>3
  <2> HIDE DEF N
  <2> QED BY <1>1, <2>1, <2>2
<1> QED BY <1>3, <1>4 DEF P

\* The generator after a batch of length messages, with so many fills.
AfterBatch(g, m, res, length, fills) ==
    [book |-> res.book, seq |-> g.seq + length,
     nextId |-> IF m.type = "ADD" THEN g.nextId + 1 ELSE g.nextId,
     live |-> OrderIds(res.book), ts |-> g.ts + 1,
     trades |-> g.trades + fills, err |-> res.err]

\* The generator after a batch.
LEMMA BatchGen ==
    ASSUME NEW g, SoundGen(g), NEW m, NEW res, EventGood(g, m, res)
    PROVE  Batch(g, m, res).gen =
             AfterBatch(g, m, res, Len(Batch(g, m, res).msgs),
                        Len(IF m.external THEN <<>> ELSE res.trades))
<1> DEFINE fills == IF m.external THEN <<>> ELSE res.trades
           all   == <<m>> \o Pairwise(Reports, fills)
           msgs  == Batch(g, m, res).msgs
           gn == Batch(g, m, res).gen
           gb == g.book
           gs == g.seq
           gi == g.nextId
           gl == g.live
           gt == g.ts
           gr == g.trades
           ln == Len(all)
           lf == Len(fills)
           rb == res.book
           re == res.err
           oi == OrderIds(res.book)
<1>1. all \in Seq(Wire)
  <2>1. fills \in Seq(MadeTrade) /\ m \in Wire
    BY EmptySeq DEF EventGood
  <2>2. Pairwise(Reports, fills) \in Seq(Wire) /\ <<m>> \in Seq(Wire)
    <3> HIDE DEF fills
    <3>1. Pairwise(Reports, fills) \in Seq(Wire)
      BY <2>1, ReportsTyped
    <3>2. <<m>> \in Seq(Wire)
      BY <2>1
    <3> QED BY <3>1, <3>2
  <2> QED BY <2>2, ConcatProperties
<1>2. msgs = [n \in DOMAIN all |-> [all[n] EXCEPT !.seq = g.seq + n]]
  BY DEF Batch
<1>3. ln = Len(msgs)
  <2> HIDE DEF all, msgs
  <2>1. DOMAIN all = 1 .. Len(all) /\ Len(all) \in Nat
    BY <1>1
  <2> QED BY <1>2, <2>1
<1>4. g = [book |-> gb, seq |-> gs, nextId |-> gi, live |-> gl,
           ts |-> gt, trades |-> gr, err |-> ""]
  BY DEF SoundGen
<1>5. gn = [g EXCEPT !.book = rb, !.err = re, !.ts = @ + 1, !.seq = @ + ln,
                     !.trades = @ + lf, !.live = oi,
                     !.nextId = IF m.type = "ADD" THEN @ + 1 ELSE @]
  BY DEF Batch
<1> HIDE DEF gn, gb, gs, gi, gl, gt, gr, ln, lf, rb, re, oi, fills, all, msgs
<1>6. gn = [book |-> rb, seq |-> gs + ln, nextId |-> IF m.type = "ADD" THEN gi + 1 ELSE gi,
            live |-> oi, ts |-> gt + 1, trades |-> gr + lf, err |-> re]
  BY <1>4, <1>5
<1>7. gn = AfterBatch(g, m, res, Len(msgs), Len(fills))
  BY <1>3, <1>6 DEF gb, gs, gi, gl, gt, gr, lf, rb, re, oi, AfterBatch
<1> QED BY <1>7 DEF gn, msgs, fills

\* A message with its number.
Numbered(m, k) == [m EXCEPT !.seq = k]

\* The message w is the report of x.
ReportOf(w, x) == w.type = "EXECUTE" /\ w.external = FALSE /\ Fill(w) = x

\* The trades of an event that reports go with.
Reported(m, res) == IF m.external THEN <<>> ELSE res.trades

\* The messages of a batch: the event and the reports, numbered.
LEMMA BatchMessages ==
    ASSUME NEW g, SoundGen(g), NEW m, NEW res, EventGood(g, m, res)
    PROVE  /\ Reported(m, res) \in Seq(MadeTrade)
           /\ Batch(g, m, res).msgs \in Seq(Wire)
           /\ Len(Batch(g, m, res).msgs) = 1 + 2 * Len(Reported(m, res))
           /\ \A n \in 1 .. Len(Batch(g, m, res).msgs) : Batch(g, m, res).msgs[n].seq = g.seq + n
           /\ Batch(g, m, res).msgs[1] = Numbered(m, g.seq + 1)
           /\ \A k \in 1 .. 2 * Len(Reported(m, res)) :
                ReportOf(Batch(g, m, res).msgs[k + 1], Expected(Reported(m, res))[k])
<1> DEFINE fills == IF m.external THEN <<>> ELSE res.trades
           P     == Pairwise(Reports, fills)
           all   == <<m>> \o P
           msgs  == [n \in DOMAIN all |-> [all[n] EXCEPT !.seq = g.seq + n]]
           T     == 2 * Len(fills)
<1>1. fills \in Seq(MadeTrade)
  BY EmptySeq DEF EventGood
<1>2. g.seq \in Nat
  BY GenParts
<1>3. m \in Wire
  BY DEF EventGood
<1>4. Batch(g, m, res).msgs = msgs
  BY DEF Batch
<1> HIDE DEF fills
<1>6. /\ P \in Seq(Wire) /\ Len(P) = T
      /\ \A k \in 1 .. T : /\ P[k].type = "EXECUTE" /\ P[k].external = FALSE
                           /\ Fill(P[k]) = Expected(fills)[k]
  BY <1>1, ReportsTyped
<1> HIDE DEF P
<1>7. T \in Nat
  BY <1>1
<1>8. /\ all \in Seq(Wire) /\ Len(all) = 1 + T
      /\ all[1] = m
      /\ \A k \in 1 .. T : all[k + 1] = P[k]
  <2>1. <<m>> \in Seq(Wire) /\ Len(<<m>>) = 1 /\ <<m>>[1] = m
    BY <1>3
  <2>2. /\ all \in Seq(Wire) /\ Len(all) = Len(<<m>>) + Len(P)
        /\ \A i \in 1 .. Len(<<m>>) + Len(P) :
             all[i] = IF i <= Len(<<m>>) THEN <<m>>[i] ELSE P[i - Len(<<m>>)]
    BY <1>6, <2>1, ConcatProperties
  <2> HIDE DEF all, T
  <2>3. all[1] = m
    BY <1>6, <1>7, <2>1, <2>2
  <2>4. ASSUME NEW k \in 1 .. T PROVE all[k + 1] = P[k]
    <3>1. k + 1 \in 1 .. 1 + T /\ ~(k + 1 <= 1) /\ (k + 1) - 1 = k
      BY <1>7
    <3> QED BY <1>6, <2>1, <2>2, <3>1
  <2> QED BY <1>6, <2>1, <2>2, <2>3, <2>4
<1> HIDE DEF T, all
<1>9. DOMAIN all = 1 .. 1 + T /\ \A n \in 1 .. 1 + T : all[n] \in Wire
  BY <1>7, <1>8
<1>10. ASSUME NEW n \in 1 .. 1 + T
       PROVE  /\ msgs[n] = [all[n] EXCEPT !.seq = g.seq + n]
              /\ msgs[n] \in Wire /\ msgs[n].seq = g.seq + n
              /\ msgs[n].type = all[n].type /\ msgs[n].external = all[n].external
              /\ Fill(msgs[n]) = Fill(all[n])
  <2> DEFINE w == msgs[n]
             a == all[n]
  <2>1. w = [a EXCEPT !.seq = g.seq + n] /\ a \in Wire /\ g.seq + n \in Nat
    BY <1>2, <1>7, <1>9
  <2> HIDE DEF w, a
  <2>2. w \in Wire /\ w.seq = g.seq + n /\ w.type = a.type /\ w.external = a.external
    BY <2>1 DEF Wire
  <2>3. w.id = a.id /\ w.side = a.side /\ w.price = a.price /\ w.qty = a.qty /\ w.ts = a.ts
    BY <2>1 DEF Wire
  <2>4. Fill(w) = Fill(a)
    BY <2>3 DEF Fill
  <2> QED BY <2>1, <2>2, <2>4 DEF w, a
<1>11. msgs = [n \in 1 .. 1 + T |-> msgs[n]]
  BY <1>9
<1> HIDE DEF msgs
<1>12. msgs \in Seq(Wire) /\ Len(msgs) = 1 + T
  BY <1>7, <1>10, <1>11
<1>13. msgs[1] = [m EXCEPT !.seq = g.seq + 1]
  <2>1. 1 \in 1 .. 1 + T
    BY <1>7
  <2> QED BY <1>8, <1>10, <2>1
<1>14. ASSUME NEW k \in 1 .. T
       PROVE  /\ msgs[k + 1].type = "EXECUTE" /\ msgs[k + 1].external = FALSE
              /\ Fill(msgs[k + 1]) = Expected(fills)[k]
  <2>1. k + 1 \in 1 .. 1 + T
    BY <1>7
  <2>2. /\ msgs[k + 1].type = all[k + 1].type /\ msgs[k + 1].external = all[k + 1].external
        /\ Fill(msgs[k + 1]) = Fill(all[k + 1])
    BY <1>10, <2>1
  <2>3. all[k + 1] = P[k]
    BY <1>8
  <2> QED BY <1>6, <2>2, <2>3
<1>15. msgs[1] = Numbered(m, g.seq + 1)
  BY <1>13 DEF Numbered
<1>16. \A k \in 1 .. T : ReportOf(msgs[k + 1], Expected(fills)[k])
  BY <1>14 DEF ReportOf
<1>17. fills = Reported(m, res)
  BY DEF fills, Reported
<1> QED BY <1>1, <1>4, <1>10, <1>12, <1>15, <1>16, <1>17 DEF T

\* A batch leaves the generator sound.
LEMMA BatchKeepsGen ==
    ASSUME NEW g, SoundGen(g), NEW m, NEW res, EventGood(g, m, res)
    PROVE  SoundGen(Batch(g, m, res).gen)
<1> DEFINE msgs  == Batch(g, m, res).msgs
           fills == IF m.external THEN <<>> ELSE res.trades
           h     == Batch(g, m, res).gen
           id    == IF m.type = "ADD" THEN g.nextId + 1 ELSE g.nextId
           x     == res.book
           s     == g.seq + Len(msgs)
           o     == OrderIds(x)
           t     == g.ts + 1
           n     == g.trades + Len(fills)
<1>1. /\ fills \in Seq(MadeTrade) /\ msgs \in Seq(Wire)
      /\ h = [book |-> x, seq |-> s, nextId |-> id, live |-> o, ts |-> t, trades |-> n,
              err |-> res.err]
  <2>1. fills \in Seq(MadeTrade) /\ msgs \in Seq(Wire)
    BY BatchMessages DEF Reported
  <2>2. h = AfterBatch(g, m, res, Len(msgs), Len(fills))
    BY BatchGen
  <2> HIDE DEF h, fills, msgs
  <2>3. h = [book |-> x, seq |-> s, nextId |-> id, live |-> o, ts |-> t, trades |-> n,
             err |-> res.err]
    BY <2>2 DEF AfterBatch
  <2> QED BY <2>1, <2>3 DEF h, fills, msgs
<1>2. g.seq \in Nat /\ g.nextId \in Nat /\ g.ts \in Nat /\ g.trades \in Nat
  BY GenParts
<1>3. s \in Nat /\ id \in Nat /\ t \in Nat /\ n \in Nat
  <2> HIDE DEF fills, msgs, h
  <2>1. Len(msgs) \in Nat /\ Len(fills) \in Nat
    BY <1>1
  <2> QED BY <1>2, <2>1
<1>4. GoodBook(x) /\ res.err = ""
  BY DEF EventGood
<1>5. ASSUME NEW i \in o PROVE i < id
  <2>1. \A j \in OrderIds(g.book) : j < g.nextId /\ j \in Nat
    <3>1. ASSUME NEW j \in OrderIds(g.book) PROVE j \in Nat
      <4>1. g.book.orders[j] \in RestingOrder /\ g.book.orders[j].id = j
        BY GenParts DEF GoodBook, SoundBook, SoundOrders
      <4> QED BY <4>1 DEF RestingOrder
    <3> QED BY <3>1, GenParts
  <2>2. i \in OrderIds(g.book) \/ (m.type = "ADD" /\ i = g.nextId)
    BY DEF EventGood
  <2> QED BY <1>2, <2>1, <2>2
<1> HIDE DEF x, s, id, t, n, h
<1>6. h = [book |-> x, seq |-> s, nextId |-> id, live |-> o, ts |-> t, trades |-> n, err |-> ""]
  BY <1>1, <1>4
<1>7. /\ h.book = x /\ h.seq = s /\ h.nextId = id /\ h.live = o /\ h.ts = t /\ h.trades = n
  BY <1>6
<1>8. SoundGen(h)
  BY <1>3, <1>4, <1>5, <1>6, <1>7 DEF SoundGen
<1> QED BY <1>8 DEF h

-----------------------------------------------------------------------------
(* The reference.                                                            *)

\* A GoldenReference by its fields.
Reference(book, fills, derived, matched, external, received, gaps, lastSeq) ==
    [book |-> book, fills |-> fills, derived |-> derived, matched |-> matched,
     external |-> external, received |-> received, gaps |-> gaps, lastSeq |-> lastSeq]

\* No exception came of it.
Fine(res) == res.err = ""

\* What every message keeps, expected or not.
SoundRef(r) ==
    /\ \E bk, fl, de, ma, ex, re, ga, la : r = Reference(bk, fl, de, ma, ex, re, ga, la)
    /\ GoodBook(r.book)
    /\ r.received \in Nat /\ r.gaps \in Nat /\ r.lastSeq \in Nat

\* Whether a message numbered seq opens a gap after r.
Gap(r, seq) == seq # 0 /\ r.lastSeq # 0 /\ seq # r.lastSeq + 1

\* The counting comes first.
LEMMA CountIs ==
    ASSUME NEW bk, NEW fl, NEW de, NEW ma, NEW ex, NEW re, NEW ga, NEW la, NEW m
    PROVE  Count(Reference(bk, fl, de, ma, ex, re, ga, la), m) =
             Reference(bk, fl, de, ma, ex, re + 1,
                       IF m.seq # 0 /\ la # 0 /\ m.seq # la + 1 THEN ga + 1 ELSE ga,
                       IF m.seq = 0 THEN la ELSE m.seq)
<1> DEFINE r  == Reference(bk, fl, de, ma, ex, re, ga, la)
           ms == m.seq
           g2 == IF ms # 0 /\ la # 0 /\ ms # la + 1 THEN ga + 1 ELSE ga
           l2 == IF ms = 0 THEN la ELSE ms
<1>1. r.lastSeq = la /\ r.gaps = ga
  BY DEF Reference
<1>2. r = Reference(bk, fl, de, ma, ex, re, ga, la)
  OBVIOUS
<1>3. Count(r, m) = [r EXCEPT !.received = @ + 1, !.gaps = g2, !.lastSeq = l2]
  <2> HIDE DEF r
  <2>1. Count(r, m) = [r EXCEPT !.received = @ + 1,
                         !.gaps = IF ms # 0 /\ r.lastSeq # 0 /\ ms # r.lastSeq + 1 THEN @ + 1 ELSE @,
                         !.lastSeq = IF ms = 0 THEN @ ELSE ms]
    BY DEF Count
  <2> HIDE DEF ms
  <2>2. [r EXCEPT !.received = @ + 1,
                  !.gaps = IF ms # 0 /\ r.lastSeq # 0 /\ ms # r.lastSeq + 1 THEN @ + 1 ELSE @,
                  !.lastSeq = IF ms = 0 THEN @ ELSE ms] =
          [r EXCEPT !.received = @ + 1, !.gaps = g2, !.lastSeq = l2]
    BY <1>1, <1>2 DEF Reference
  <2> QED BY <2>1, <2>2 DEF ms
<1> HIDE DEF g2, l2
<1> DEFINE c == Count(r, m)
<1>4. c = [r EXCEPT !.received = @ + 1, !.gaps = g2, !.lastSeq = l2]
  BY <1>3
<1> HIDE DEF c
<1>5. c = Reference(bk, fl, de, ma, ex, re + 1, g2, l2)
  BY <1>4 DEF Reference
<1> QED BY <1>5 DEF c, g2, l2

\* The expected reports and the count of trades with those of some more trades.
Grown(fl, made)  == fl \o Expected(made)
Larger(de, made) == de + Len(made)

\* An order event adds the reports of its trades to the expected ones.
LEMMA RecordIs ==
    ASSUME NEW bk, NEW fl, NEW de, NEW ma, NEW ex, NEW re, NEW ga, NEW la, NEW res,
           NEW p, p = RecordFills(Reference(bk, fl, de, ma, ex, re, ga, la), res)
    PROVE  p.ref = Reference(res.book, Grown(fl, res.trades), Larger(de, res.trades),
                             ma, ex, re, ga, la)
<1> DEFINE r      == Reference(bk, fl, de, ma, ex, re, ga, la)
           two(t) == <<<<t.buy, "BUY", t.price, t.qty, t.ts>>,
                       <<t.sell, "SELL", t.price, t.qty, t.ts>>>>
           s      == res.trades
           rb     == res.book
<1>1. Pairwise(two, s) = Expected(s)
  <2>1. Pairwise(two, s) = [k \in 1 .. 2 * Len(s) |-> two(s[(k + 1) \div 2])[2 - (k % 2)]]
    BY DEF Pairwise
  <2>2. ASSUME NEW k \in 1 .. 2 * Len(s)
        PROVE  two(s[(k + 1) \div 2])[2 - (k % 2)] =
                 LET t == s[(k + 1) \div 2]
                 IN  IF k % 2 = 1 THEN <<t.buy, "BUY", t.price, t.qty, t.ts>>
                                  ELSE <<t.sell, "SELL", t.price, t.qty, t.ts>>
    <3>1. \/ k % 2 = 1 /\ 2 - (k % 2) = 1
          \/ k % 2 = 0 /\ 2 - (k % 2) = 2
      OBVIOUS
    <3>2. \A t : two(t)[1] = <<t.buy, "BUY", t.price, t.qty, t.ts>>
                   /\ two(t)[2] = <<t.sell, "SELL", t.price, t.qty, t.ts>>
      OBVIOUS
    <3> HIDE DEF two
    <3> QED BY <3>1, <3>2
  <2> HIDE DEF two
  <2> QED BY <2>1, <2>2 DEF Expected
<1>2. p.ref = [r EXCEPT !.book = rb, !.derived = @ + Len(s), !.fills = @ \o Pairwise(two, s)]
  BY DEF RecordFills
<1> DEFINE x  == Grown(fl, s)
           n  == Larger(de, s)
           pr == p.ref
<1>3. pr = [r EXCEPT !.book = rb, !.derived = n, !.fills = x]
  <2> HIDE DEF two, s, rb, r
  <2>1. pr = [r EXCEPT !.book = rb, !.derived = r.derived + Len(s), !.fills = r.fills \o Expected(s)]
    BY <1>1, <1>2
  <2>2. r.derived = de /\ r.fills = fl
    BY DEF r, Reference
  <2> QED BY <2>1, <2>2 DEF Grown, Larger
<1> HIDE DEF two, s, rb, x, n, pr
<1>4. pr = Reference(rb, x, n, ma, ex, re, ga, la)
  BY ONLY <1>3 DEF r, Reference
<1> QED BY <1>4 DEF s, rb, x, n, pr

\* The sequence q begins with x and goes on with rest.
Begins(q, x, rest) == q # <<>> /\ Head(q) = x /\ Tail(q) = rest

\* A report that is the one expected is taken off.
LEMMA ValidateIs ==
    ASSUME NEW bk, NEW fl, NEW de, NEW ma, NEW ex, NEW re, NEW ga, NEW la, NEW m,
           NEW tl, Begins(fl, Fill(m), tl)
    PROVE  /\ ValidateFill(Reference(bk, fl, de, ma, ex, re, ga, la), m).ref =
                Reference(bk, tl, de, ma + 1, ex, re, ga, la)
           /\ Fine(ValidateFill(Reference(bk, fl, de, ma, ex, re, ga, la), m))
<1> DEFINE r  == Reference(bk, fl, de, ma, ex, re, ga, la)
           p  == ValidateFill(r, m)
           mi == Fill(m)
<1>0. r.fills = fl
  BY DEF Reference
<1>5. fl # <<>> /\ Head(fl) = mi /\ tl = Tail(fl)
  BY DEF Begins
<1> HIDE DEF r
<1>1. p.ref = [r EXCEPT !.fills = tl, !.matched = @ + 1] /\ Fine(p)
  BY <1>0, <1>5 DEF ValidateFill, Fine
<1> HIDE DEF p, mi
<1>2. p.ref = Reference(bk, tl, de, ma + 1, ex, re, ga, la)
  BY <1>1 DEF Reference, r
<1> QED BY <1>1, <1>2 DEF p, r

\* Another report changes no book and no count of messages.
LEMMA ValidateKeeps ==
    ASSUME NEW bk, NEW fl, NEW de, NEW ma, NEW ex, NEW re, NEW ga, NEW la, NEW m
    PROVE  \E f, n : /\ n \in {ma, ma + 1}
                     /\ ValidateFill(Reference(bk, fl, de, ma, ex, re, ga, la), m).ref =
                          Reference(bk, f, de, n, ex, re, ga, la)
<1> DEFINE r  == Reference(bk, fl, de, ma, ex, re, ga, la)
           p  == ValidateFill(r, m)
           mi == Fill(m)
<1>0. r.fills = fl /\ r = Reference(bk, fl, de, ma, ex, re, ga, la)
  BY DEF Reference
<1> HIDE DEF r
<1>1. CASE fl = <<>>
  <2>1. p.ref = r
    BY <1>0, <1>1 DEF ValidateFill
  <2> QED BY <1>0, <2>1 DEF r
<1>2. CASE fl # <<>> /\ Head(fl) # mi
  <2>1. p.ref = [r EXCEPT !.fills = Tail(fl)]
    BY <1>0, <1>2 DEF ValidateFill
  <2> HIDE DEF p, mi
  <2>2. p.ref = Reference(bk, Tail(fl), de, ma, ex, re, ga, la)
    BY <2>1 DEF Reference, r
  <2> QED BY <2>2 DEF p, r
<1>3. CASE fl # <<>> /\ Head(fl) = mi
  <2>1. p.ref = Reference(bk, Tail(fl), de, ma + 1, ex, re, ga, la)
    <3> DEFINE tl == Tail(fl)
    <3>1. Begins(fl, Fill(m), tl)
      BY <1>3 DEF Begins
    <3> HIDE DEF tl
    <3>2. ValidateFill(Reference(bk, fl, de, ma, ex, re, ga, la), m).ref =
            Reference(bk, tl, de, ma + 1, ex, re, ga, la)
      BY <3>1, ValidateIs
    <3> QED BY <3>2 DEF r, tl
  <2> QED BY <2>1 DEF r
<1> QED BY <1>1, <1>2, <1>3

\* An external fill that the book takes is no expected report.
LEMMA ExternalIs ==
    ASSUME NEW bk, NEW fl, NEW de, NEW ma, NEW ex, NEW re, NEW ga, NEW la, NEW res,
           Fine(res)
    PROVE  /\ Fine(ApplyExternal(Reference(bk, fl, de, ma, ex, re, ga, la), res))
           /\ ApplyExternal(Reference(bk, fl, de, ma, ex, re, ga, la), res).ref =
                Reference(res.book, fl, de + 1, ma, ex + 1, re, ga, la)
<1> DEFINE r  == Reference(bk, fl, de, ma, ex, re, ga, la)
           p  == ApplyExternal(r, res)
           rb == res.book
<1> HIDE DEF r
<1>1. Fine(p) /\ p.ref = [r EXCEPT !.book = rb, !.external = @ + 1, !.derived = @ + 1]
  BY DEF ApplyExternal, Fine
<1> HIDE DEF p, rb
<1>2. p.ref = Reference(rb, fl, de + 1, ma, ex + 1, re, ga, la)
  BY <1>1 DEF Reference, r
<1> QED BY <1>1, <1>2 DEF p, r, rb

\* One that it refuses changes nothing.
LEMMA ExternalRefused ==
    ASSUME NEW r, NEW res, ~Fine(res)
    PROVE  ApplyExternal(r, res).ref = r
BY DEF ApplyExternal, Fine

\* process_message, by what kind of message it is.
LEMMA ProcessCases ==
    ASSUME NEW r, NEW m \in Wire
    PROVE  LET c == Count(r, m)
               report == m.type = "EXECUTE" /\ ~m.external
           IN  /\ report => ProcessMessage(r, m) = ValidateFill(c, m)
               /\ ~report /\ m.type = "EXECUTE" =>
                    ProcessMessage(r, m) = ApplyExternal(c, Applied(c.book, m))
               /\ ~report /\ m.type # "EXECUTE" =>
                    ProcessMessage(r, m) = RecordFills(c, Applied(c.book, m))
<1>1. m.type \in MsgType /\ m.external \in BOOLEAN
  BY DEF Wire
<1>2. CASE m.type = "ADD"
  BY <1>2 DEF ProcessMessage, Applied
<1>3. CASE m.type = "CANCEL"
  BY <1>3 DEF ProcessMessage, Applied
<1>4. CASE m.type = "MODIFY"
  BY <1>4 DEF ProcessMessage, Applied
<1>5. CASE m.type = "EXECUTE" /\ m.external
  BY <1>5 DEF ProcessMessage, Applied
<1>6. CASE m.type = "EXECUTE" /\ ~m.external
  BY <1>6 DEF ProcessMessage
<1> QED BY <1>1, <1>2, <1>3, <1>4, <1>5, <1>6 DEF MsgType

\* A message in range, expected or not, leaves a good book good.
LEMMA AppliedGood ==
    ASSUME NEW b, GoodBook(b), NEW m \in Wire
    PROVE  GoodBook(Applied(b, m).book)
<1>1. /\ m.type \in MsgType /\ m.side \in Side /\ m.id \in Nat /\ m.ts \in Nat
      /\ m.price \in PriceMin .. PriceMax /\ m.qty \in 1 .. MaxQuantity
  BY DEF Wire
<1>2. CASE m.type = "ADD"
  <2> DEFINE o == Order(m.id, m.side, m.price, m.qty, m.ts)
  <2>1. o \in RestingOrder
    BY <1>1 DEF Order, RestingOrder
  <2>2. Applied(b, m) = AddOrder(b, o)
    BY <1>2 DEF Applied
  <2> HIDE DEF o
  <2> QED BY <2>1, <2>2, AddGood
<1>3. CASE m.type = "CANCEL"
  BY <1>3, CancelGood DEF Applied
<1>4. CASE m.type = "MODIFY"
  BY <1>1, <1>4, ModifyGood DEF Applied
<1>5. CASE m.type = "EXECUTE"
  <2>1. m.qty \in Nat
    BY <1>1, Ranges
  <2> QED BY <1>5, <2>1, ExecuteGood DEF Applied
<1> QED BY <1>1, <1>2, <1>3, <1>4, <1>5 DEF MsgType

\* Every message in range keeps the reference sound and is counted.
LEMMA ProcessKeeps ==
    ASSUME NEW r, SoundRef(r), NEW m \in Wire
    PROVE  /\ SoundRef(ProcessMessage(r, m).ref)
           /\ ProcessMessage(r, m).ref.received = r.received + 1
           /\ ProcessMessage(r, m).ref.gaps = IF Gap(r, m.seq) THEN r.gaps + 1 ELSE r.gaps
           /\ ProcessMessage(r, m).ref.lastSeq = IF m.seq = 0 THEN r.lastSeq ELSE m.seq
           /\ ProcessMessage(r, m).ref.matched \in {r.matched, r.matched + 1}
           /\ ProcessMessage(r, m).ref.external \in {r.external, r.external + 1}
<1> DEFINE p == ProcessMessage(r, m)
           c == Count(r, m)
<1>1. PICK bk, fl, de, ma, ex, re, ga, la : r = Reference(bk, fl, de, ma, ex, re, ga, la)
  BY DEF SoundRef
<1>2. r.book = bk /\ r.received = re /\ r.gaps = ga /\ r.lastSeq = la
      /\ r.matched = ma /\ r.external = ex
  BY <1>1 DEF Reference
<1>3. GoodBook(bk) /\ re \in Nat /\ ga \in Nat /\ la \in Nat
  BY <1>2 DEF SoundRef
<1> DEFINE g2 == IF m.seq # 0 /\ la # 0 /\ m.seq # la + 1 THEN ga + 1 ELSE ga
           l2 == IF m.seq = 0 THEN la ELSE m.seq
<1>4. c = Reference(bk, fl, de, ma, ex, re + 1, g2, l2)
  BY <1>1, CountIs
<1>5. g2 = (IF Gap(r, m.seq) THEN r.gaps + 1 ELSE r.gaps)
  BY <1>2 DEF Gap
<1>6. re + 1 \in Nat /\ g2 \in Nat /\ l2 \in Nat /\ m.seq \in Nat
  BY <1>3 DEF Wire
<1> HIDE DEF g2, c
<1>7. c.book = bk
  BY <1>4 DEF Reference
<1>8. GoodBook(Applied(bk, m).book)
  BY <1>3, AppliedGood
<1>9. \E b2, f2, d2, m2, e2 :
         /\ GoodBook(b2) /\ m2 \in {ma, ma + 1} /\ e2 \in {ex, ex + 1}
         /\ p.ref = Reference(b2, f2, d2, m2, e2, re + 1, g2, l2)
  <2> HIDE DEF p, l2
  <2>1. CASE m.type = "EXECUTE" /\ ~m.external
    <3>1. p = ValidateFill(c, m)
      BY <2>1, ProcessCases DEF p, c
    <3>2. \E f, n : /\ n \in {ma, ma + 1}
                    /\ p.ref = Reference(bk, f, de, n, ex, re + 1, g2, l2)
      <4>1. p = ValidateFill(Reference(bk, fl, de, ma, ex, re + 1, g2, l2), m)
        BY <1>4, <3>1
      <4> QED BY <4>1, ValidateKeeps
    <3> QED BY <1>3, <3>2
  <2>2. CASE m.type = "EXECUTE" /\ m.external
    <3> DEFINE res == Applied(bk, m)
    <3>1. p = ApplyExternal(c, res)
      BY <2>2, <1>7, ProcessCases DEF p, c
    <3> HIDE DEF res
    <3>2. \/ p.ref = Reference(res.book, fl, de + 1, ma, ex + 1, re + 1, g2, l2)
          \/ p.ref = Reference(bk, fl, de, ma, ex, re + 1, g2, l2)
      <4>1. CASE Fine(res)
        <5>1. ApplyExternal(Reference(bk, fl, de, ma, ex, re + 1, g2, l2), res).ref =
                Reference(res.book, fl, de + 1, ma, ex + 1, re + 1, g2, l2)
          BY <4>1, ExternalIs
        <5> QED BY <1>4, <3>1, <5>1
      <4>2. CASE ~Fine(res)
        <5>1. ApplyExternal(c, res).ref = c
          BY <4>2, ExternalRefused
        <5> QED BY <1>4, <3>1, <5>1
      <4> QED BY <4>1, <4>2
    <3>3. GoodBook(res.book)
      BY <1>8 DEF res
    <3> QED BY <1>3, <3>2, <3>3
  <2>3. CASE m.type # "EXECUTE"
    <3> DEFINE res == Applied(bk, m)
    <3>1. p = RecordFills(c, res)
      BY <2>3, <1>7, ProcessCases DEF p, c
    <3> HIDE DEF res
    <3>2. p.ref = Reference(res.book, Grown(fl, res.trades), Larger(de, res.trades),
                            ma, ex, re + 1, g2, l2)
      <4>1. p = RecordFills(Reference(bk, fl, de, ma, ex, re + 1, g2, l2), res)
        BY <1>4, <3>1
      <4> QED BY <4>1, RecordIs
    <3>3. GoodBook(res.book)
      BY <1>8 DEF res
    <3> QED BY <3>2, <3>3
  <2>4. m.external \in BOOLEAN
    BY DEF Wire
  <2> QED BY <2>1, <2>2, <2>3, <2>4
<1>10. PICK b2, f2, d2, m2, e2 :
         /\ GoodBook(b2) /\ m2 \in {ma, ma + 1} /\ e2 \in {ex, ex + 1}
         /\ p.ref = Reference(b2, f2, d2, m2, e2, re + 1, g2, l2)
  BY <1>9
<1> DEFINE q == p.ref
<1> HIDE DEF p, l2, q
<1>11. q = Reference(b2, f2, d2, m2, e2, re + 1, g2, l2)
  BY <1>10 DEF q
<1>12. q.book = b2 /\ q.received = re + 1 /\ q.gaps = g2 /\ q.lastSeq = l2
       /\ q.matched = m2 /\ q.external = e2
  BY <1>11 DEF Reference
<1>13. SoundRef(q)
  BY <1>6, <1>10, <1>11, <1>12 DEF SoundRef, l2
<1>14. /\ SoundRef(q) /\ q.received = r.received + 1
       /\ q.gaps = (IF Gap(r, m.seq) THEN r.gaps + 1 ELSE r.gaps)
       /\ q.lastSeq = (IF m.seq = 0 THEN r.lastSeq ELSE m.seq)
       /\ q.matched \in {r.matched, r.matched + 1} /\ q.external \in {r.external, r.external + 1}
  BY <1>2, <1>5, <1>10, <1>12, <1>13 DEF l2
<1> QED BY <1>14 DEF q, p

-----------------------------------------------------------------------------
(* A batch, replayed.                                                        *)

\* What is left of the first T elements of F from the k-th on.
Rest(F, k, T) == [i \in 1 .. T - k + 1 |-> F[i + k - 1]]

\* What is left, an element at a time.
LEMMA RestStep ==
    ASSUME NEW S, NEW T \in Nat, NEW F, \A i \in 1 .. T : F[i] \in S, NEW k \in 1 .. T
    PROVE  Begins(Rest(F, k, T), F[k], Rest(F, k + 1, T))
<1> DEFINE R == Rest(F, k, T)
           N == T - k + 1
<1>1. N \in Nat /\ N >= 1 /\ T - (k + 1) + 1 = N - 1
  OBVIOUS
<1>2. R = [i \in 1 .. N |-> F[i + k - 1]]
  BY DEF Rest
<1>3. \A i \in 1 .. N : i + k - 1 \in 1 .. T
  OBVIOUS
<1>4. R \in Seq(S) /\ Len(R) = N
  <2> HIDE DEF N, R
  <2> QED BY <1>1, <1>2, <1>3
<1>5. R # <<>> /\ Head(R) = F[k]
  <2>1. 1 \in 1 .. N /\ 1 + k - 1 = k
    BY <1>1
  <2>2. R[1] = F[k]
    BY <1>2, <2>1
  <2> HIDE DEF N, R
  <2> QED BY <1>1, <1>4, <2>2
<1>6. Tail(R) = [i \in 1 .. N - 1 |-> R[i + 1]]
  <2>1. R \in Seq(S) /\ R # <<>> /\ Len(R) = N
    BY <1>4, <1>5
  <2> HIDE DEF N, R
  <2>2. /\ Tail(R) \in Seq(S) /\ Len(Tail(R)) = N - 1
        /\ \A i \in 1 .. N - 1 : Tail(R)[i] = R[i + 1]
    BY <2>1, HeadTailProperties
  <2> DEFINE q == Tail(R)
  <2>3. q \in Seq(S) /\ Len(q) = N - 1
    BY <2>2
  <2> HIDE DEF q
  <2>4. q = [i \in 1 .. N - 1 |-> q[i]]
    BY <1>1, <2>3
  <2>5. \A i \in 1 .. N - 1 : q[i] = R[i + 1]
    BY <2>2 DEF q
  <2>6. q = [i \in 1 .. N - 1 |-> R[i + 1]]
    BY <2>4, <2>5
  <2> QED BY <2>6 DEF q
<1>7. ASSUME NEW i \in 1 .. N - 1 PROVE R[i + 1] = F[i + (k + 1) - 1]
  <2>1. i + 1 \in 1 .. N /\ (i + 1) + k - 1 = i + (k + 1) - 1
    BY <1>1
  <2> QED BY <1>2, <2>1
<1>8. Rest(F, k + 1, T) = [i \in 1 .. N - 1 |-> F[i + (k + 1) - 1]]
  BY <1>1 DEF Rest
<1>9. Tail(R) = Rest(F, k + 1, T)
  <2> HIDE DEF N, R
  <2> QED BY <1>6, <1>7, <1>8
<1> HIDE DEF R
<1>10. Begins(R, F[k], Rest(F, k + 1, T))
  BY <1>5, <1>9 DEF Begins
<1> QED BY <1>10 DEF R

\* At the beginning everything is left, at the end nothing.
LEMMA RestEnds ==
    ASSUME NEW T \in Nat, NEW F, F = [i \in 1 .. T |-> F[i]]
    PROVE  /\ Rest(F, 1, T) = F
           /\ Rest(F, T + 1, T) = <<>>
<1>1. T - 1 + 1 = T /\ T - (T + 1) + 1 = 0
  OBVIOUS
<1>2. Rest(F, 1, T) = [i \in 1 .. T |-> F[i]]
  <2>1. \A i \in 1 .. T : i + 1 - 1 = i
    OBVIOUS
  <2>2. Rest(F, 1, T) = [i \in 1 .. T |-> F[i + 1 - 1]]
    BY <1>1 DEF Rest
  <2> QED BY <2>1, <2>2
<1>3. Rest(F, T + 1, T) = <<>>
  BY <1>1 DEF Rest
<1> QED BY <1>2, <1>3

\* Nothing is expected of no trades, and what is expected of some is a sequence.
LEMMA ExpectedParts ==
    ASSUME NEW S, NEW made \in Seq(S)
    PROVE  /\ 2 * Len(made) \in Nat
           /\ Expected(made) = [k \in 1 .. 2 * Len(made) |-> Expected(made)[k]]
           /\ <<>> \o Expected(made) = Expected(made)
<1> DEFINE T == 2 * Len(made)
           F == Expected(made)
           A == {F[k] : k \in 1 .. T}
<1>1. T \in Nat
  OBVIOUS
<1>2. F = [k \in 1 .. T |-> F[k]]
  BY DEF Expected
<1>3. \A k \in 1 .. T : F[k] \in A
  OBVIOUS
<1> HIDE DEF T, F, A
<1>4. F \in Seq(A)
  BY <1>1, <1>2, <1>3
<1>5. <<>> \o F = F
  BY <1>4, ConcatEmptySeq
<1> QED BY <1>1, <1>2, <1>5 DEF T, F

\* A reference that has read everything the generator sent, without a gap: it
\* holds the mirror's book and expects nothing more.
Synced(g, r) ==
    \E de, ex : r = Reference(g.book, <<>>, de, 2 * g.trades, ex, g.seq, 0, g.seq)

\* A result does not depend on the number of the message.
LEMMA AppliedNumbered ==
    ASSUME NEW b, NEW m \in Wire, NEW w, NEW k \in Nat, w = Numbered(m, k)
    PROVE  /\ Applied(b, w) = Applied(b, m)
           /\ w.type = m.type /\ w.external = m.external
<1>1. /\ w.type = m.type /\ w.external = m.external /\ w.id = m.id /\ w.side = m.side
      /\ w.price = m.price /\ w.qty = m.qty /\ w.ts = m.ts
  BY DEF Wire, Numbered
<1> QED BY <1>1 DEF Applied

\* The next number is no gap.
LEMMA CountNext ==
    ASSUME NEW bk, NEW fl, NEW de, NEW ma, NEW ex, NEW s \in Nat, NEW w, w.seq = s + 1
    PROVE  Count(Reference(bk, fl, de, ma, ex, s, 0, s), w) =
             Reference(bk, fl, de, ma, ex, s + 1, 0, s + 1)
<1> DEFINE g2 == IF w.seq # 0 /\ s # 0 /\ w.seq # s + 1 THEN 0 + 1 ELSE 0
           l2 == IF w.seq = 0 THEN s ELSE w.seq
<1>1. Count(Reference(bk, fl, de, ma, ex, s, 0, s), w) =
        Reference(bk, fl, de, ma, ex, s + 1, g2, l2)
  BY CountIs
<1>2. g2 = 0 /\ l2 = s + 1
  OBVIOUS
<1> QED BY <1>1, <1>2

\* A report that is expected and comes with the next number.
LEMMA ReportRead ==
    ASSUME NEW bk, NEW fl, NEW de, NEW ma, NEW ex, NEW s \in Nat, NEW w \in Wire, w.seq = s + 1,
           w.type = "EXECUTE", ~w.external, NEW tl, Begins(fl, Fill(w), tl)
    PROVE  /\ ProcessMessage(Reference(bk, fl, de, ma, ex, s, 0, s), w).ref =
                Reference(bk, tl, de, ma + 1, ex, s + 1, 0, s + 1)
           /\ Fine(ProcessMessage(Reference(bk, fl, de, ma, ex, s, 0, s), w))
<1> DEFINE r == Reference(bk, fl, de, ma, ex, s, 0, s)
           c == Reference(bk, fl, de, ma, ex, s + 1, 0, s + 1)
           f == Fill(w)
<1>1. Count(r, w) = c
  BY CountNext
<1>2. ProcessMessage(r, w) = ValidateFill(c, w)
  <2> HIDE DEF r, c
  <2> QED BY <1>1, ProcessCases
<1>3. /\ ValidateFill(c, w).ref = Reference(bk, tl, de, ma + 1, ex, s + 1, 0, s + 1)
      /\ Fine(ValidateFill(c, w))
  BY ValidateIs
<1> HIDE DEF r, c
<1>4. /\ ProcessMessage(r, w).ref = Reference(bk, tl, de, ma + 1, ex, s + 1, 0, s + 1)
      /\ Fine(ProcessMessage(r, w))
  BY <1>2, <1>3
<1> QED BY <1>4 DEF r

\* A trade event that comes with the next number and that the book takes.
LEMMA ExternalRead ==
    ASSUME NEW bk, NEW de, NEW ma, NEW ex, NEW s \in Nat, NEW w \in Wire, w.seq = s + 1,
           w.type = "EXECUTE", w.external, NEW res, res = Applied(bk, w), Fine(res)
    PROVE  /\ ProcessMessage(Reference(bk, <<>>, de, ma, ex, s, 0, s), w).ref =
                Reference(res.book, <<>>, de + 1, ma, ex + 1, s + 1, 0, s + 1)
           /\ Fine(ProcessMessage(Reference(bk, <<>>, de, ma, ex, s, 0, s), w))
<1> DEFINE r == Reference(bk, <<>>, de, ma, ex, s, 0, s)
           c == Reference(bk, <<>>, de, ma, ex, s + 1, 0, s + 1)
           p == ProcessMessage(r, w)
<1>1. Count(r, w) = c
  BY CountNext
<1>2. c.book = bk
  BY DEF Reference
<1>3. p = ApplyExternal(c, res)
  <2> HIDE DEF r, c
  <2> QED BY <1>1, <1>2, ProcessCases
<1>4. /\ ApplyExternal(c, res).ref = Reference(res.book, <<>>, de + 1, ma, ex + 1, s + 1, 0, s + 1)
      /\ Fine(ApplyExternal(c, res))
  BY ExternalIs
<1> HIDE DEF r, c, p
<1>5. /\ p.ref = Reference(res.book, <<>>, de + 1, ma, ex + 1, s + 1, 0, s + 1)
      /\ Fine(p)
  BY <1>3, <1>4
<1> QED BY <1>5 DEF p, r

\* Another order event that comes with the next number and that the book takes.
LEMMA OrderRead ==
    ASSUME NEW bk, NEW de, NEW ma, NEW ex, NEW s \in Nat, NEW w \in Wire, w.seq = s + 1,
           w.type # "EXECUTE", NEW res, res = Applied(bk, w), Fine(res),
           res.trades \in Seq(MadeTrade)
    PROVE  /\ ProcessMessage(Reference(bk, <<>>, de, ma, ex, s, 0, s), w).ref =
                Reference(res.book, Expected(res.trades), de + Len(res.trades), ma, ex,
                          s + 1, 0, s + 1)
           /\ Fine(ProcessMessage(Reference(bk, <<>>, de, ma, ex, s, 0, s), w))
<1> DEFINE r == Reference(bk, <<>>, de, ma, ex, s, 0, s)
           c == Reference(bk, <<>>, de, ma, ex, s + 1, 0, s + 1)
           p == ProcessMessage(r, w)
           x == Expected(res.trades)
           n == Len(res.trades)
<1>1. Count(r, w) = c
  BY CountNext
<1>2. c.book = bk
  BY DEF Reference
<1>3. p = RecordFills(c, res)
  <2> HIDE DEF r, c
  <2> QED BY <1>1, <1>2, ProcessCases
<1> HIDE DEF p
<1>4. p.ref = Reference(res.book, Grown(<<>>, res.trades), Larger(de, res.trades),
                        ma, ex, s + 1, 0, s + 1)
  <2>1. p = RecordFills(Reference(bk, <<>>, de, ma, ex, s + 1, 0, s + 1), res)
    BY <1>3
  <2> QED BY ONLY <2>1, RecordIs
<1>5. Grown(<<>>, res.trades) = x /\ Larger(de, res.trades) = de + n
  BY ExpectedParts DEF Grown, Larger
<1>6. p.err = res.err
  BY <1>3 DEF RecordFills
<1> HIDE DEF r, c, x, n
<1>7. p.ref = Reference(res.book, x, de + n, ma, ex, s + 1, 0, s + 1) /\ Fine(p)
  BY <1>4, <1>5, <1>6 DEF Fine
<1> QED BY <1>7 DEF p, r, x, n

\* The order event of a batch: the reference applies it as the mirror did and
\* expects the reports of its trades.
LEMMA EventRead ==
    ASSUME NEW g, SoundGen(g), NEW m, NEW res, EventGood(g, m, res),
           NEW r, Synced(g, r), NEW w \in Wire, w = Numbered(m, g.seq + 1),
           NEW fills, fills = IF m.external THEN <<>> ELSE res.trades
    PROVE  /\ \E de, ex : ProcessMessage(r, w).ref =
                Reference(res.book, Expected(fills), de, 2 * g.trades, ex,
                          g.seq + 1, 0, g.seq + 1)
           /\ Fine(ProcessMessage(r, w))
<1> DEFINE s  == g.seq
           ma == 2 * g.trades
           bk == g.book
           rb == res.book
           rt == res.trades
           p  == ProcessMessage(r, w)
<1>1. PICK de, ex : r = Reference(bk, <<>>, de, ma, ex, s, 0, s)
  BY DEF Synced
<1>2. s \in Nat /\ m \in Wire
  BY GenParts DEF EventGood
<1>3. w.seq = s + 1
  BY <1>2 DEF Wire, Numbered
<1>4. Applied(bk, w) = res /\ w.type = m.type /\ w.external = m.external
  <2>1. s + 1 \in Nat
    BY <1>2
  <2> QED BY <1>2, <2>1, AppliedNumbered DEF EventGood
<1>5. Fine(res) /\ (m.external <=> m.type = "EXECUTE")
  BY DEF EventGood, Fine
<1>6. ~m.external => rt \in Seq(MadeTrade)
  BY DEF EventGood
<1>7. m.external \in BOOLEAN
  BY <1>2 DEF Wire
<1>8. /\ m.external => Expected(fills) = <<>>
      /\ ~m.external => fills = rt
  BY DEF Expected
<1> HIDE DEF ma, s, bk
<1>9. CASE m.external
  <2>1. /\ ProcessMessage(Reference(bk, <<>>, de, ma, ex, s, 0, s), w).ref =
             Reference(rb, <<>>, de + 1, ma, ex + 1, s + 1, 0, s + 1)
        /\ Fine(ProcessMessage(Reference(bk, <<>>, de, ma, ex, s, 0, s), w))
    <3>1. w.type = "EXECUTE" /\ w.external
      BY <1>4, <1>5, <1>9
    <3> QED BY ONLY <1>2, <1>3, <1>4, <1>5, <3>1, w \in Wire, ExternalRead
  <2> HIDE DEF rb, p
  <2>2. /\ p.ref = Reference(rb, Expected(fills), de + 1, ma, ex + 1, s + 1, 0, s + 1)
        /\ Fine(p)
    BY <1>1, <1>8, <1>9, <2>1 DEF p
  <2> QED BY <2>2 DEF p, rb, ma, s
<1>10. CASE ~m.external
  <2>1. /\ ProcessMessage(Reference(bk, <<>>, de, ma, ex, s, 0, s), w).ref =
             Reference(rb, Expected(rt), de + Len(rt), ma, ex, s + 1, 0, s + 1)
        /\ Fine(ProcessMessage(Reference(bk, <<>>, de, ma, ex, s, 0, s), w))
    <3>1. w.type # "EXECUTE"
      BY <1>4, <1>5, <1>10
    <3>2. rt \in Seq(MadeTrade)
      BY <1>6, <1>10
    <3> QED BY ONLY <1>2, <1>3, <1>4, <1>5, <3>1, <3>2, w \in Wire, OrderRead
  <2> HIDE DEF rb, rt, p
  <2>2. /\ p.ref = Reference(rb, Expected(fills), de + Len(rt), ma, ex, s + 1, 0, s + 1)
        /\ Fine(p)
    BY <1>1, <1>8, <1>10, <2>1 DEF p
  <2> QED BY <2>2 DEF p, rb, ma, s
<1> QED BY <1>7, <1>9, <1>10

\* r reads w without an exception and is q after it.
Reads(r, w, q) == ProcessMessage(r, w).ref = q /\ Fine(ProcessMessage(r, w))

\* A reference that has read everything up to a batch reads the batch without
\* an exception and is again one that has read everything.
LEMMA BatchReplays ==
    ASSUME NEW g, SoundGen(g), NEW m, NEW res, EventGood(g, m, res),
           NEW r0, Synced(g, r0), NEW msgs, msgs = Batch(g, m, res).msgs,
           NEW h, h = Batch(g, m, res).gen
    PROVE  \E rs : /\ rs[0] = r0
                   /\ \A n \in 1 .. Len(msgs) : Reads(rs[n - 1], msgs[n], rs[n])
                   /\ Synced(h, rs[Len(msgs)])
<1> DEFINE fills == Reported(m, res)
           s     == g.seq
           F     == Expected(fills)
           T     == 2 * Len(fills)
           L     == Len(msgs)
           ma    == 2 * g.trades
           rb    == res.book
<1>1. /\ fills \in Seq(MadeTrade)
      /\ msgs \in Seq(Wire) /\ Len(msgs) = 1 + T
      /\ \A n \in 1 .. Len(msgs) : msgs[n].seq = s + n
      /\ msgs[1] = Numbered(m, s + 1)
      /\ \A k \in 1 .. T : ReportOf(msgs[k + 1], F[k])
  BY BatchMessages
<1>2. /\ s \in Nat /\ g.trades \in Nat
      /\ h = AfterBatch(g, m, res, L, Len(fills))
  BY GenParts, BatchGen DEF Reported
<1> HIDE DEF fills
<1>3. T \in Nat /\ F = [k \in 1 .. T |-> F[k]] /\ Len(fills) \in Nat
  BY <1>1, ExpectedParts
<1>4. L = 1 + T /\ L \in Nat /\ \A n \in 1 .. L : msgs[n] \in Wire
  BY <1>1, <1>3
<1>5. PICK de, ex : /\ ProcessMessage(r0, msgs[1]).ref = Reference(rb, F, de, ma, ex, s + 1, 0, s + 1)
                    /\ Fine(ProcessMessage(r0, msgs[1]))
  <2>1. 1 \in 1 .. L
    BY <1>3, <1>4
  <2>2. msgs[1] \in Wire /\ msgs[1] = Numbered(m, g.seq + 1)
    BY <1>1, <1>4, <2>1
  <2> DEFINE w == msgs[1]
  <2> HIDE DEF w
  <2>3. w \in Wire /\ w = Numbered(m, g.seq + 1)
    BY <2>2 DEF w
  <2>4. /\ \E de, ex : ProcessMessage(r0, w).ref = Reference(rb, F, de, ma, ex, s + 1, 0, s + 1)
        /\ Fine(ProcessMessage(r0, w))
    BY <2>3, EventRead DEF fills, Reported
  <2> QED BY <2>4 DEF w
<1> DEFINE ReadTo(n) == Reference(rb, Rest(F, n, T), de, ma + (n - 1), ex, s + n, 0, s + n)
           rs     == [n \in 0 .. L |-> IF n = 0 THEN r0 ELSE ReadTo(n)]
<1>6. rs[0] = r0 /\ \A n \in 1 .. L : rs[n] = ReadTo(n)
  <2> HIDE DEF ReadTo
  <2> QED BY <1>4
<1>7. ma \in Nat /\ ma + 0 = ma
  BY <1>2
<1>8. Reads(rs[0], msgs[1], rs[1])
  <2>1. 1 \in 1 .. L /\ 1 - 1 = 0
    BY <1>3, <1>4
  <2>2. Rest(F, 1, T) = F
    BY <1>3, RestEnds
  <2>3. rs[1] = Reference(rb, F, de, ma, ex, s + 1, 0, s + 1)
    <3>1. rs[1] = ReadTo(1)
      BY <1>6, <2>1
    <3> HIDE DEF F, T, rs, ma, rb, s, L
    <3> QED BY <1>7, <2>1, <2>2, <3>1
  <2> HIDE DEF F, T, rs, ma, rb, s, L
  <2> QED BY <1>5, <1>6, <2>3 DEF Reads
<1>9. ASSUME NEW n \in 1 .. T PROVE Reads(rs[n], msgs[n + 1], rs[n + 1])
  <2> DEFINE w  == msgs[n + 1]
             fl == Rest(F, n, T)
             tl == Rest(F, n + 1, T)
             sn == s + n
             mn == ma + (n - 1)
  <2>1. n \in 1 .. L /\ n + 1 \in 1 .. L /\ n \in Nat
    BY <1>3, <1>4
  <2>2. w \in Wire /\ w.type = "EXECUTE" /\ ~w.external /\ Fill(w) = F[n]
    BY <1>1, <1>4, <2>1 DEF ReportOf
  <2>3. w.seq = s + (n + 1)
    BY <1>1, <1>4, <2>1
  <2>4. sn \in Nat /\ s + (n + 1) = sn + 1 /\ ma + ((n + 1) - 1) = mn + 1
    <3> HIDE DEF s, ma
    <3> QED BY <1>2, <1>7, <2>1
  <2>5. Begins(fl, F[n], tl)
    <3> DEFINE S == {F[i] : i \in 1 .. T}
    <3>1. \A i \in 1 .. T : F[i] \in S
      OBVIOUS
    <3> HIDE DEF S, F, T
    <3> QED BY <1>3, <3>1, RestStep
  <2>6. rs[n] = Reference(rb, fl, de, mn, ex, sn, 0, sn)
    BY <1>6, <2>1
  <2>7. rs[n + 1] = Reference(rb, tl, de, mn + 1, ex, sn + 1, 0, sn + 1)
    <3>1. rs[n + 1] = ReadTo(n + 1)
      BY <1>6, <2>1
    <3> HIDE DEF rs
    <3> QED BY <2>4, <3>1
  <2> HIDE DEF w, fl, tl, sn, mn, rs, rb, ma, F, T, L
  <2>8. /\ ProcessMessage(Reference(rb, fl, de, mn, ex, sn, 0, sn), w).ref =
             Reference(rb, tl, de, mn + 1, ex, sn + 1, 0, sn + 1)
        /\ Fine(ProcessMessage(Reference(rb, fl, de, mn, ex, sn, 0, sn), w))
    <3>1. w.seq = sn + 1 /\ Begins(fl, Fill(w), tl) /\ w \in Wire /\ w.type = "EXECUTE" /\ ~w.external
      BY <2>2, <2>3, <2>4, <2>5
    <3> QED BY ONLY <2>4, <2>5, <3>1, ReportRead
  <2> QED BY <2>6, <2>7, <2>8 DEF Reads, w
<1>10. ASSUME NEW n \in 1 .. L PROVE Reads(rs[n - 1], msgs[n], rs[n])
  <2>1. CASE n = 1
    <3>1. n - 1 = 0
      BY <2>1
    <3> HIDE DEF rs
    <3> QED BY <1>8, <2>1, <3>1
  <2>2. CASE n # 1
    <3>1. n - 1 \in 1 .. T /\ (n - 1) + 1 = n
      BY <1>3, <1>4, <2>2
    <3> HIDE DEF rs, T
    <3> QED BY <1>9, <3>1
  <2> QED BY <2>1, <2>2
<1>11. Synced(h, rs[L])
  <2>1. L \in 1 .. L
    BY <1>3, <1>4
  <2>2. Rest(F, T + 1, T) = <<>>
    BY <1>3, RestEnds
  <2>3. h.book = rb /\ h.seq = s + L /\ h.trades = g.trades + Len(fills)
    BY <1>2 DEF AfterBatch
  <2>4. ma + (L - 1) = 2 * h.trades
    BY <1>2, <1>3, <1>4, <2>3
  <2>5. rs[L] = ReadTo(L)
    BY <1>6, <2>1
  <2>6. Rest(F, L, T) = <<>>
    <3> HIDE DEF F, T
    <3>1. L = T + 1
      BY <1>3, <1>4
    <3> QED BY <2>2, <3>1
  <2> HIDE DEF rs, F, T, L, ma, rb, s
  <2>7. rs[L] = Reference(h.book, <<>>, de, 2 * h.trades, ex, h.seq, 0, h.seq)
    BY <2>3, <2>4, <2>5, <2>6
  <2> QED BY <2>7 DEF Synced
<1> HIDE DEF rs
<1> QED BY <1>6, <1>10, <1>11

-----------------------------------------------------------------------------
(* The feed and its two ends.                                                *)

\* What may be under way.
Datagram == Wire \union {Junk}

\* st[k] is the k-th message that was sent, rf[k] the reference that has read the
\* first k.
Stream(st, rf, last) ==
    /\ rf[0] = NewReference
    /\ \A k \in 1 .. last : st[k] \in Wire /\ st[k].seq = k /\ Reads(rf[k - 1], st[k], rf[k])

\* Nothing is under way but messages that were sent and junk.
OnlySent(st, last, f) ==
    \A i \in DOMAIN f : f[i] = Junk \/ \E k \in 1 .. last : f[i] = st[k]

\* The counts tell how far the reference has read.
CountsPlace(rf, last, r, x) ==
    x # "raised" /\ r.gaps = 0 /\ r.received = r.lastSeq =>
        r.lastSeq \in 0 .. last /\ r = rf[r.lastSeq]

\* Undisturbed, what is under way is what the reference has not read.
Undisturbed(st, last, f, r, x) ==
    /\ x # "raised" /\ r.gaps = 0 /\ r.received = r.lastSeq /\ r.lastSeq \in 0 .. last
    /\ Len(f) = last - r.lastSeq
    /\ \A i \in 1 .. Len(f) : f[i] = st[r.lastSeq + i]

\* The two ends and the feed f between them, x the consumer's loop, n the faults.
Flowing(st, rf, g, f, r, x, n) ==
    /\ Stream(st, rf, g.seq)
    /\ Synced(g, rf[g.seq])
    /\ OnlySent(st, g.seq, f)
    /\ CountsPlace(rf, g.seq, r, x)
    /\ n = 0 => Undisturbed(st, g.seq, f, r, x)

FlowState(g, f, r, x, n) ==
    /\ SoundGen(g) /\ SoundRef(r)
    /\ r.received > 0 => r.lastSeq > 0
    /\ f \in Seq(Datagram) /\ n \in Nat
    /\ \E st, rf : Flowing(st, rf, g, f, r, x, n)

\* Junk is no message.
LEMMA JunkIsNone ==
    /\ Junk \notin Wire
    /\ ~Decodes(Junk)
    /\ \A m \in Wire : Decodes(m)
<1>1. Junk.type = "NONE"
  BY DEF Junk, Message
<1>2. "NONE" \notin MsgType
  BY DEF MsgType
<1>3. \A m \in Wire : m.type \in MsgType /\ m.side \in Side
  BY DEF Wire
<1> QED BY <1>1, <1>2, <1>3 DEF Decodes

\* The beginning.
LEMMA FlowBegins == FlowState(NewGenerator, <<>>, NewReference, "listening", 0)
<1> DEFINE g == NewGenerator
           r == NewReference
<1>1. GoodBook(EmptyBook) /\ OrderIds(EmptyBook) = {}
  <2>1. SoundBook(EmptyBook) /\ OrderIds(EmptyBook) = {}
    BY EmptySound
  <2>2. BestPrice(EmptyBook, "BUY") = NoPrice
    <3>1. "BUY" \in Side /\ DOMAIN EmptyBook.levels["BUY"] = {}
      BY DEF Side, EmptyBook
    <3> QED BY <2>1, <3>1, BestPriceIs
  <2> QED BY <2>1, <2>2 DEF GoodBook, Crossed
<1>2. /\ g = [book |-> EmptyBook, seq |-> 0, nextId |-> 1, live |-> {}, ts |-> 0,
              trades |-> 0, err |-> ""]
      /\ r = Reference(EmptyBook, <<>>, 0, 0, 0, 0, 0, 0)
  BY DEF NewGenerator, NewReference, Reference
<1> HIDE DEF g, r
<1>3. /\ g.book = EmptyBook /\ g.seq = 0 /\ g.nextId = 1 /\ g.live = {} /\ g.ts = 0 /\ g.trades = 0
  BY <1>2
<1>4. SoundGen(g)
  BY <1>1, <1>2, <1>3 DEF SoundGen
<1>5. /\ r.book = EmptyBook /\ r.received = 0 /\ r.gaps = 0 /\ r.lastSeq = 0
  BY <1>2 DEF Reference
<1>6. SoundRef(r)
  <2>1. \E bk, fl, de, ma, ex, re, ga, la : r = Reference(bk, fl, de, ma, ex, re, ga, la)
    BY <1>2
  <2> QED BY <1>1, <1>5, <2>1 DEF SoundRef
<1> DEFINE rf == [k \in {0} |-> r]
<1>7. rf[0] = r
  OBVIOUS
<1>8. Stream(<<>>, rf, 0)
  BY <1>7 DEF Stream, r
<1>9. Synced(g, r)
  <2>1. 2 * g.trades = 0
    BY <1>3
  <2> QED BY <1>2, <1>3, <2>1 DEF Synced
<1>10. OnlySent(<<>>, 0, <<>>)
  BY DEF OnlySent
<1>11. CountsPlace(rf, 0, r, "listening")
  BY <1>5, <1>7 DEF CountsPlace
<1>12. Undisturbed(<<>>, 0, <<>>, r, "listening")
  BY <1>5 DEF Undisturbed
<1>13. Flowing(<<>>, rf, g, <<>>, r, "listening", 0)
  BY <1>3, <1>7, <1>8, <1>9, <1>10, <1>11, <1>12 DEF Flowing
<1>14. <<>> \in Seq(Datagram)
  OBVIOUS
<1>15. FlowState(g, <<>>, r, "listening", 0)
  BY <1>4, <1>5, <1>6, <1>13, <1>14 DEF FlowState
<1> QED BY <1>15 DEF g, r

\* A batch makes the stream longer and says no more than it.
LEMMA SendKeeps ==
    ASSUME NEW g, NEW f, NEW r, NEW x, NEW n, FlowState(g, f, r, x, n),
           NEW m, NEW res, EventGood(g, m, res)
    PROVE  FlowState(Batch(g, m, res).gen, f \o Batch(g, m, res).msgs, r, x, n)
<1> DEFINE msgs == Batch(g, m, res).msgs
           h    == Batch(g, m, res).gen
           f2   == f \o msgs
           N    == g.seq
           L    == Len(msgs)
<1>1. SoundGen(g) /\ SoundRef(r) /\ f \in Seq(Datagram) /\ n \in Nat /\ N \in Nat
  BY GenParts DEF FlowState
<1>2. PICK st, rf : Flowing(st, rf, g, f, r, x, n)
  BY DEF FlowState
<1>3. /\ Stream(st, rf, N) /\ Synced(g, rf[N]) /\ OnlySent(st, N, f) /\ CountsPlace(rf, N, r, x)
      /\ n = 0 => Undisturbed(st, N, f, r, x)
  BY <1>2 DEF Flowing
<1>4. msgs \in Seq(Wire) /\ \A i \in 1 .. L : msgs[i].seq = N + i
  BY <1>1, BatchMessages
<1>5. PICK rs : /\ rs[0] = rf[N]
                /\ \A i \in 1 .. L : Reads(rs[i - 1], msgs[i], rs[i])
                /\ Synced(h, rs[L])
  <2>1. Synced(g, rf[N])
    BY <1>3
  <2> DEFINE r0 == rf[N]
  <2> HIDE DEF r0, msgs, h, L
  <2>2. Synced(g, r0)
    BY <2>1 DEF r0
  <2>3. \E rs : /\ rs[0] = r0
                /\ \A i \in 1 .. Len(msgs) : Reads(rs[i - 1], msgs[i], rs[i])
                /\ Synced(h, rs[Len(msgs)])
    <3>1. msgs = Batch(g, m, res).msgs /\ h = Batch(g, m, res).gen
      BY DEF msgs, h
    <3> QED BY <1>1, <2>2, <3>1, BatchReplays
  <2> QED BY <2>3 DEF L, r0
<1>6. SoundGen(h)
  BY <1>1, BatchKeepsGen
<1>7. h.seq = N + L
  <2> DEFINE k == Len(IF m.external THEN <<>> ELSE res.trades)
  <2>1. h = AfterBatch(g, m, res, L, k)
    BY <1>1, BatchGen
  <2> HIDE DEF h, L, k
  <2> QED BY <2>1 DEF AfterBatch
<1> HIDE DEF msgs, h, N, L, f2
<1>8. L \in Nat /\ L = Len(msgs) /\ DOMAIN msgs = 1 .. L /\ \A i \in 1 .. L : msgs[i] \in Wire
  BY <1>4 DEF L
<1>9. Len(f) \in Nat /\ DOMAIN f = 1 .. Len(f)
  BY <1>1
<1>10. /\ f2 \in Seq(Datagram) /\ Len(f2) = Len(f) + L
       /\ \A i \in 1 .. Len(f) + L : f2[i] = IF i <= Len(f) THEN f[i] ELSE msgs[i - Len(f)]
  <2>1. msgs \in Seq(Datagram)
    <3>1. msgs \in [1 .. L -> Datagram]
      BY <1>4, <1>8 DEF Datagram
    <3> QED BY <1>8, <3>1
  <2> QED BY <1>1, <1>8, <2>1, ConcatProperties DEF f2
<1> DEFINE M   == N + L
           st2 == [k \in 1 .. M |-> IF k <= N THEN st[k] ELSE msgs[k - N]]
           rf2 == [k \in 0 .. M |-> IF k <= N THEN rf[k] ELSE rs[k - N]]
<1>11. M \in Nat /\ N <= M
  BY <1>1, <1>8
<1>12. /\ \A k \in 1 .. N : st2[k] = st[k]
       /\ \A i \in 1 .. L : st2[N + i] = msgs[i]
  <2>1. \A k \in 1 .. N : k \in 1 .. M /\ k <= N
    BY <1>1, <1>8
  <2>2. \A i \in 1 .. L : N + i \in 1 .. M /\ ~(N + i <= N) /\ (N + i) - N = i
    BY <1>1, <1>8
  <2> HIDE DEF M
  <2> QED BY <2>1, <2>2
<1>13. /\ \A k \in 0 .. N : rf2[k] = rf[k]
       /\ \A i \in 0 .. L : rf2[N + i] = rs[i]
  <2>1. \A k \in 0 .. N : k \in 0 .. M /\ k <= N
    BY <1>1, <1>8
  <2>2. \A i \in 1 .. L : N + i \in 0 .. M /\ ~(N + i <= N) /\ (N + i) - N = i
    BY <1>1, <1>8
  <2>3. N + 0 = N /\ N \in 0 .. N
    BY <1>1
  <2>4. \A i \in 0 .. L : i = 0 \/ i \in 1 .. L
    BY <1>8
  <2> HIDE DEF M
  <2>5. \A k \in 0 .. N : rf2[k] = rf[k]
    BY <2>1
  <2> QED BY <1>5, <2>2, <2>3, <2>4, <2>5
<1> HIDE DEF st2, rf2
<1>14. Stream(st2, rf2, M)
  <2>1. rf2[0] = NewReference
    <3>1. 0 \in 0 .. N
      BY <1>1
    <3> QED BY <1>3, <1>13, <3>1 DEF Stream
  <2>2. ASSUME NEW k \in 1 .. M
        PROVE  st2[k] \in Wire /\ st2[k].seq = k /\ Reads(rf2[k - 1], st2[k], rf2[k])
    <3>1. CASE k <= N
      <4>1. k \in 1 .. N /\ k - 1 \in 0 .. N /\ k \in 0 .. N
        BY <1>1, <3>1
      <4> QED BY <1>3, <1>12, <1>13, <4>1 DEF Stream
    <3>2. CASE ~(k <= N)
      <4> DEFINE i == k - N
      <4>1. i \in 1 .. L /\ i - 1 \in 0 .. L /\ i \in 0 .. L /\ k = N + i /\ k - 1 = N + (i - 1)
        BY <1>1, <1>8, <3>2
      <4> HIDE DEF i
      <4>2. st2[k] = msgs[i] /\ rf2[k] = rs[i] /\ rf2[k - 1] = rs[i - 1]
        BY <1>12, <1>13, <4>1
      <4> QED BY <1>4, <1>5, <1>8, <4>1, <4>2
    <3> QED BY <3>1, <3>2
  <2> HIDE DEF M
  <2> QED BY <2>1, <2>2 DEF Stream
<1>15. Synced(h, rf2[M])
  <2>1. L \in 0 .. L
    BY <1>8
  <2>2. rf2[M] = rs[L]
    BY <1>13, <2>1
  <2> QED BY <1>5, <2>2
<1>16. OnlySent(st2, M, f2)
  <2>1. ASSUME NEW i \in 1 .. Len(f) + L
        PROVE  f2[i] = Junk \/ \E k \in 1 .. M : f2[i] = st2[k]
    <3>1. CASE i <= Len(f)
      <4>1. i \in DOMAIN f /\ f2[i] = f[i]
        BY <1>9, <1>10, <3>1
      <4>2. CASE f[i] = Junk
        BY <4>1, <4>2
      <4>3. CASE \E k \in 1 .. N : f[i] = st[k]
        <5>1. PICK k \in 1 .. N : f[i] = st[k]
          BY <4>3
        <5>2. k \in 1 .. M
          BY <1>1, <1>8
        <5> HIDE DEF M
        <5> QED BY <1>12, <4>1, <5>1, <5>2
      <4> QED BY <1>3, <4>1, <4>2, <4>3 DEF OnlySent
    <3>2. CASE ~(i <= Len(f))
      <4> DEFINE j == i - Len(f)
      <4>1. j \in 1 .. L /\ f2[i] = msgs[j] /\ N + j \in 1 .. M
        BY <1>1, <1>8, <1>9, <1>10, <3>2
      <4> HIDE DEF j, M
      <4> QED BY <1>12, <4>1
    <3> QED BY <3>1, <3>2
  <2>2. DOMAIN f2 = 1 .. Len(f) + L
    BY <1>10
  <2> HIDE DEF M
  <2> QED BY <2>1, <2>2 DEF OnlySent
<1>17. CountsPlace(rf2, M, r, x)
  <2>1. ASSUME x # "raised", r.gaps = 0, r.received = r.lastSeq
        PROVE  r.lastSeq \in 0 .. M /\ r = rf2[r.lastSeq]
    <3>1. r.lastSeq \in 0 .. N /\ r = rf[r.lastSeq]
      BY <1>3, <2>1 DEF CountsPlace
    <3>2. r.lastSeq \in 0 .. M
      BY <1>1, <1>8, <3>1
    <3> QED BY <1>13, <3>1, <3>2
  <2> HIDE DEF M
  <2> QED BY <2>1 DEF CountsPlace
<1>18. ASSUME n = 0 PROVE Undisturbed(st2, M, f2, r, x)
  <2> DEFINE l == r.lastSeq
  <2>1. /\ x # "raised" /\ r.gaps = 0 /\ r.received = l /\ l \in 0 .. N
        /\ Len(f) = N - l
        /\ \A i \in 1 .. Len(f) : f[i] = st[l + i]
    BY <1>3, <1>18 DEF Undisturbed
  <2> HIDE DEF l
  <2>2. l \in 0 .. M /\ Len(f2) = M - l
    BY <1>1, <1>8, <1>10, <2>1
  <2>3. ASSUME NEW i \in 1 .. Len(f2) PROVE f2[i] = st2[l + i]
    <3>1. CASE i <= Len(f)
      <4>1. i \in 1 .. Len(f) /\ l + i \in 1 .. N /\ f2[i] = f[i]
        BY <1>1, <1>8, <1>9, <1>10, <2>1, <3>1
      <4> QED BY <1>12, <2>1, <4>1
    <3>2. CASE ~(i <= Len(f))
      <4> DEFINE j == i - Len(f)
      <4>1. j \in 1 .. L /\ l + i = N + j /\ f2[i] = msgs[j]
        BY <1>1, <1>8, <1>9, <1>10, <2>1, <3>2
      <4> HIDE DEF j
      <4> QED BY <1>12, <4>1
    <3> QED BY <3>1, <3>2
  <2> HIDE DEF M
  <2> QED BY <2>1, <2>2, <2>3 DEF Undisturbed, l
<1>19. Flowing(st2, rf2, h, f2, r, x, n)
  <2>1. h.seq = M
    BY <1>7
  <2> HIDE DEF M
  <2> QED BY <1>14, <1>15, <1>16, <1>17, <1>18, <2>1 DEF Flowing
<1>20. FlowState(h, f2, r, x, n)
  <2>1. r.received > 0 => r.lastSeq > 0
    BY DEF FlowState
  <2> QED BY <1>1, <1>6, <1>10, <1>19, <2>1 DEF FlowState
<1> QED BY <1>20 DEF h, f2, msgs

\* Reading a message keeps the counts true, whatever was done to the feed, and
\* raises nothing in an undisturbed one.
LEMMA ReadKeeps ==
    ASSUME NEW g, NEW f, NEW r, NEW x, NEW n, FlowState(g, f, r, x, n), x # "raised",
           f # <<>>, NEW w \in Wire, w = Head(f), NEW p, p = ProcessMessage(r, w),
           NEW f2, f2 = Tail(f), NEW q, q = p.ref,
           NEW y, y = IF Fine(p) THEN x ELSE "raised"
    PROVE  FlowState(g, f2, q, y, n)
<1> DEFINE N == g.seq
           l == r.lastSeq
<1>1. /\ SoundGen(g) /\ SoundRef(r) /\ f \in Seq(Datagram) /\ n \in Nat /\ N \in Nat
      /\ r.received > 0 => l > 0
  BY GenParts DEF FlowState
<1>2. PICK st, rf : Flowing(st, rf, g, f, r, x, n)
  BY DEF FlowState
<1>3. /\ Stream(st, rf, N) /\ Synced(g, rf[N]) /\ OnlySent(st, N, f) /\ CountsPlace(rf, N, r, x)
      /\ n = 0 => Undisturbed(st, N, f, r, x)
  BY <1>2 DEF Flowing
<1>4. r.received \in Nat /\ r.gaps \in Nat /\ l \in Nat
  BY <1>1 DEF SoundRef
<1>5. /\ SoundRef(q) /\ q.received = r.received + 1
      /\ q.gaps = IF Gap(r, w.seq) THEN r.gaps + 1 ELSE r.gaps
      /\ q.lastSeq = IF w.seq = 0 THEN l ELSE w.seq
  BY <1>1, ProcessKeeps
<1>6. /\ f2 \in Seq(Datagram) /\ Len(f2) = Len(f) - 1 /\ Len(f) \in Nat \ {0}
      /\ \A i \in 1 .. Len(f2) : f2[i] = f[i + 1]
      /\ f[1] = w
  <2>1. /\ Tail(f) \in Seq(Datagram) /\ Len(Tail(f)) = Len(f) - 1
        /\ \A i \in 1 .. Len(Tail(f)) : Tail(f)[i] = f[i + 1]
    BY <1>1, HeadTailProperties
  <2>2. Len(f) \in Nat \ {0} /\ Head(f) = f[1]
    BY <1>1
  <2> QED BY <2>1, <2>2
<1>7. PICK k \in 1 .. N : w = st[k]
  <2>1. 1 \in DOMAIN f
    BY <1>1, <1>6
  <2>2. w # Junk
    BY JunkIsNone
  <2> QED BY <1>3, <1>6, <2>1, <2>2 DEF OnlySent
<1>8. w.seq = k /\ Reads(rf[k - 1], w, rf[k])
  BY <1>3, <1>7 DEF Stream
<1>9. q.lastSeq = k /\ q.lastSeq > 0
  <2> HIDE DEF N
  <2> QED BY <1>1, <1>5, <1>7, <1>8
<1>10. r = rf[k - 1] => q = rf[k] /\ Fine(p)
  BY <1>8 DEF Reads
<1> HIDE DEF N, l
<1>11. OnlySent(st, N, f2)
  <2>1. ASSUME NEW i \in DOMAIN f2 PROVE f2[i] = f[i + 1] /\ i + 1 \in DOMAIN f
    BY <1>1, <1>6
  <2> QED BY <1>3, <2>1 DEF OnlySent
<1>12. CountsPlace(rf, N, q, y)
  <2>1. ASSUME y # "raised", q.gaps = 0, q.received = q.lastSeq
        PROVE  q.lastSeq \in 0 .. N /\ q = rf[q.lastSeq]
    <3>1. r.gaps = 0 /\ ~Gap(r, k)
      BY <1>4, <1>5, <1>8, <2>1
    <3>2. l = 0 \/ k = l + 1
      BY <1>1, <1>7, <3>1 DEF Gap, l
    <3>3. k = l + 1 /\ r.received = l
      BY <1>1, <1>4, <1>5, <1>9, <2>1, <3>2
    <3>4. r = rf[l]
      BY <3>1, <3>3 , <1>3 DEF CountsPlace, l
    <3>5. l = k - 1
      BY <1>4, <3>3
    <3> QED BY <1>1, <1>7, <1>9, <1>10, <3>4, <3>5
  <2> QED BY <2>1 DEF CountsPlace
<1>13. ASSUME n = 0 PROVE Undisturbed(st, N, f2, q, y)
  <2>1. /\ r.gaps = 0 /\ r.received = l /\ l \in 0 .. N
        /\ Len(f) = N - l
        /\ \A i \in 1 .. Len(f) : f[i] = st[l + i]
    BY <1>3, <1>13 DEF Undisturbed, l
  <2>2. w = st[l + 1] /\ l + 1 \in 1 .. N
    BY <1>1, <1>6, <2>1
  <2>3. k = l + 1
    BY <1>3, <1>8, <2>2 DEF Stream
  <2>4. r = rf[l]
    BY <1>3, <2>1 DEF CountsPlace, l
  <2>5. l = k - 1
    BY <1>4, <2>3
  <2>6. q = rf[k] /\ Fine(p)
    BY <1>10, <2>4, <2>5
  <2>7. y # "raised"
    BY <2>6
  <2>8. ~Gap(r, k)
    BY <2>3 DEF Gap, l
  <2>9. q.gaps = 0 /\ q.received = q.lastSeq /\ q.lastSeq \in 0 .. N
    BY <1>4, <1>5, <1>7, <1>8, <1>9, <2>1, <2>3, <2>8
  <2>10. Len(f2) = N - k
    BY <1>1, <1>4, <1>6, <2>1, <2>3
  <2>11. ASSUME NEW i \in 1 .. Len(f2) PROVE f2[i] = st[k + i]
    <3>1. i + 1 \in 1 .. Len(f) /\ l + (i + 1) = k + i
      BY <1>4, <1>6, <2>3
    <3> QED BY <1>6, <2>1, <3>1
  <2> QED BY <1>9, <2>7, <2>9, <2>10, <2>11 DEF Undisturbed
<1>14. Flowing(st, rf, g, f2, q, y, n)
  BY <1>3, <1>11, <1>12, <1>13 DEF Flowing, N
<1> QED BY <1>1, <1>5, <1>6, <1>9, <1>14 DEF FlowState

\* Junk raises, and an undisturbed feed has none.
LEMMA JunkKeeps ==
    ASSUME NEW g, NEW f, NEW r, NEW x, NEW n, FlowState(g, f, r, x, n),
           f # <<>>, ~Decodes(Head(f))
    PROVE  FlowState(g, Tail(f), r, "raised", n)
<1> DEFINE N  == g.seq
           f2 == Tail(f)
<1>1. /\ SoundGen(g) /\ SoundRef(r) /\ f \in Seq(Datagram) /\ n \in Nat /\ N \in Nat
      /\ r.received > 0 => r.lastSeq > 0
  BY GenParts DEF FlowState
<1>2. PICK st, rf : Flowing(st, rf, g, f, r, x, n)
  BY DEF FlowState
<1>3. /\ Stream(st, rf, N) /\ Synced(g, rf[N]) /\ OnlySent(st, N, f)
      /\ n = 0 => Undisturbed(st, N, f, r, x)
  BY <1>2 DEF Flowing
<1>4. /\ f2 \in Seq(Datagram) /\ Len(f2) = Len(f) - 1 /\ Len(f) \in Nat \ {0}
      /\ \A i \in 1 .. Len(f2) : f2[i] = f[i + 1]
      /\ Head(f) = f[1]
  <2>1. /\ Tail(f) \in Seq(Datagram) /\ Len(Tail(f)) = Len(f) - 1
        /\ \A i \in 1 .. Len(Tail(f)) : Tail(f)[i] = f[i + 1]
    BY <1>1, HeadTailProperties
  <2>2. Len(f) \in Nat \ {0} /\ Head(f) = f[1]
    BY <1>1
  <2> QED BY <2>1, <2>2
<1>5. n # 0
  <2> SUFFICES ASSUME n = 0 PROVE FALSE
    OBVIOUS
  <2> DEFINE l == r.lastSeq
  <2>1. l \in 0 .. N /\ Len(f) = N - l /\ \A i \in 1 .. Len(f) : f[i] = st[l + i]
    BY <1>3 DEF Undisturbed
  <2> HIDE DEF N, l, f2
  <2>2. l + 1 \in 1 .. N /\ f[1] = st[l + 1]
    BY <1>1, <1>4, <2>1
  <2>3. f[1] \in Wire
    BY <1>3, <2>2 DEF Stream
  <2> QED BY <1>4, <2>3, JunkIsNone
<1> HIDE DEF N, f2
<1>6. OnlySent(st, N, f2)
  <2>1. ASSUME NEW i \in DOMAIN f2 PROVE f2[i] = f[i + 1] /\ i + 1 \in DOMAIN f
    BY <1>1, <1>4
  <2> QED BY <1>3, <2>1 DEF OnlySent
<1>7. CountsPlace(rf, N, r, "raised")
  BY DEF CountsPlace
<1>8. Flowing(st, rf, g, f2, r, "raised", n)
  BY <1>3, <1>5, <1>6, <1>7 DEF Flowing, N
<1>9. FlowState(g, f2, r, "raised", n)
  BY <1>1, <1>4, <1>8 DEF FlowState
<1> QED BY <1>9 DEF f2

\* A fault brings nothing new but junk.
LEMMA FaultKeeps ==
    ASSUME NEW g, NEW f, NEW r, NEW x, NEW n, FlowState(g, f, r, x, n),
           NEW f2 \in Seq({f[i] : i \in DOMAIN f} \union {Junk})
    PROVE  FlowState(g, f2, r, x, n + 1)
<1> DEFINE A == {f[i] : i \in DOMAIN f} \union {Junk}
           N == g.seq
<1>1. /\ SoundGen(g) /\ SoundRef(r) /\ f \in Seq(Datagram) /\ n \in Nat /\ N \in Nat
      /\ r.received > 0 => r.lastSeq > 0
  BY GenParts DEF FlowState
<1>2. PICK st, rf : Flowing(st, rf, g, f, r, x, n)
  BY DEF FlowState
<1>3. /\ Stream(st, rf, N) /\ Synced(g, rf[N]) /\ OnlySent(st, N, f) /\ CountsPlace(rf, N, r, x)
  BY <1>2 DEF Flowing
<1>4. \A i \in DOMAIN f : f[i] \in Datagram
  BY <1>1
<1>5. A \subseteq Datagram
  BY <1>4 DEF Datagram
<1>6. \A a \in A : a = Junk \/ \E k \in 1 .. N : a = st[k]
  BY <1>3 DEF OnlySent
<1> HIDE DEF A, N
<1>7. f2 \in Seq(A)
  BY DEF A
<1>8. \A i \in DOMAIN f2 : f2[i] \in A
  BY <1>7
<1>9. f2 \in Seq(Datagram)
  BY <1>5, <1>7
<1>10. OnlySent(st, N, f2)
  BY <1>6, <1>8 DEF OnlySent
<1>11. n + 1 \in Nat /\ n + 1 # 0
  BY <1>1
<1>12. Flowing(st, rf, g, f2, r, x, n + 1)
  BY <1>3, <1>10, <1>11 DEF Flowing, N
<1> QED BY <1>1, <1>9, <1>11, <1>12 DEF FlowState

\* A consumer that gives up has read what it has read.
LEMMA TimeOutKeeps ==
    ASSUME NEW g, NEW f, NEW r, NEW n, FlowState(g, f, r, "listening", n)
    PROVE  FlowState(g, f, r, "timeout", n)
<1>1. PICK st, rf : Flowing(st, rf, g, f, r, "listening", n)
  BY DEF FlowState
<1>2. Flowing(st, rf, g, f, r, "timeout", n)
  BY <1>1 DEF Flowing, CountsPlace, Undisturbed
<1> QED BY <1>2 DEF FlowState

\* What the network makes of a feed holds datagrams of the feed and junk.
LEMMA FaultsMake ==
    ASSUME NEW f \in Seq(Datagram)
    PROVE  LET A == {f[i] : i \in DOMAIN f} \union {Junk}
           IN  /\ \A i \in DOMAIN f : RemoveAt(f, i) \in Seq(A)
               /\ \A i \in DOMAIN f : InsertAt(f, i, f[i]) \in Seq(A)
               /\ \A i \in 1 .. Len(f) - 1 : [f EXCEPT ![i] = f[i + 1], ![i + 1] = f[i]] \in Seq(A)
               /\ Append(f, Junk) \in Seq(A)
<1> DEFINE A == {f[i] : i \in DOMAIN f} \union {Junk}
           L == Len(f)
<1>1. L \in Nat /\ DOMAIN f = 1 .. L /\ Junk \in A /\ \A i \in 1 .. L : f[i] \in A
  OBVIOUS
<1>2. f = [i \in 1 .. L |-> f[i]]
  OBVIOUS
<1> HIDE DEF A, L
<1>3. f \in Seq(A) /\ Len(f) = L
  BY <1>1, <1>2 DEF L
<1>4. ASSUME NEW i \in Int, NEW j \in Int, i >= 1, j <= L
      PROVE  SubSeq(f, i, j) \in Seq(A)
  <2>1. \A k \in i .. j : f[k] \in A
    BY <1>1, <1>4
  <2> QED BY <2>1, SubSeqProperties
<1>5. ASSUME NEW i \in 1 .. L
      PROVE  RemoveAt(f, i) \in Seq(A) /\ InsertAt(f, i, f[i]) \in Seq(A)
  <2> DEFINE front == SubSeq(f, 1, i - 1)
             rest  == SubSeq(f, i + 1, L)
             back  == SubSeq(f, i, L)
             one   == <<f[i]>>
  <2>1. front \in Seq(A) /\ rest \in Seq(A) /\ back \in Seq(A)
    <3>1. i \in Int /\ i >= 1 /\ i <= L /\ i - 1 <= L /\ i + 1 >= 1 /\ L <= L /\ L \in Int
          /\ i - 1 \in Int /\ i + 1 \in Int
      BY <1>1
    <3> QED BY <1>4, <3>1
  <2>2. one \in Seq(A)
    BY <1>1
  <2>3. /\ RemoveAt(f, i) = front \o rest
        /\ InsertAt(f, i, f[i]) = (front \o one) \o back
    BY DEF RemoveAt, InsertAt, L
  <2> HIDE DEF front, rest, back, one
  <2>4. front \o rest \in Seq(A) /\ front \o one \in Seq(A)
    BY <2>1, <2>2, ConcatProperties
  <2> DEFINE fo == front \o one
  <2>5. fo \in Seq(A)
    BY <2>4
  <2> HIDE DEF fo
  <2>6. fo \o back \in Seq(A)
    BY <2>1, <2>5, ConcatProperties
  <2> QED BY <2>3, <2>4, <2>6 DEF fo
<1>6. ASSUME NEW i \in 1 .. L - 1
      PROVE  [f EXCEPT ![i] = f[i + 1], ![i + 1] = f[i]] \in Seq(A)
  <2>1. i \in 1 .. L /\ i + 1 \in 1 .. L
    BY <1>1
  <2>2. f[i] \in A /\ f[i + 1] \in A
    BY <1>1, <2>1
  <2> QED BY <1>3, <2>2
<1>7. Append(f, Junk) \in Seq(A)
  BY <1>1, <1>3
<1> QED BY <1>1, <1>5, <1>6, <1>7 DEF A, L

-----------------------------------------------------------------------------
(* The theorems.                                                             *)

FlowInv == FlowState(gen, feed, ref, rx, faults)

\* The invariant that the others follow from: every state of the feed is one in
\* which both books are sound and the counts of the consumer tell how far it has
\* read.
THEOREM FlowCorrect == Spec => []FlowInv
<1>1. Init => FlowInv
  BY FlowBegins DEF Init, FlowInv
<1>2. FlowInv /\ [Next]_vars => FlowInv'
  <2> SUFFICES ASSUME FlowInv, [Next]_vars PROVE FlowInv'
    OBVIOUS
  <2>0. FlowState(gen, feed, ref, rx, faults) /\ feed \in Seq(Datagram) /\ SoundGen(gen)
    BY DEF FlowInv, FlowState
  <2>1. CASE SendBatch
    <3>1. PICK e \in Events(gen) : /\ gen' = Batch(gen, e[1], e[2]).gen
                                   /\ feed' = feed \o Batch(gen, e[1], e[2]).msgs
      BY <2>1 DEF SendBatch
    <3>2. ref' = ref /\ rx' = rx /\ faults' = faults
      BY <2>1 DEF SendBatch
    <3>3. EventGood(gen, e[1], e[2])
      BY <2>0, EventsGood
    <3>4. FlowState(Batch(gen, e[1], e[2]).gen, feed \o Batch(gen, e[1], e[2]).msgs, ref, rx, faults)
      BY <2>0, <3>3, SendKeeps
    <3> QED BY <3>1, <3>2, <3>4 DEF FlowInv
  <2>2. CASE Receive
    <3>1. /\ rx = "listening" /\ feed # <<>> /\ feed' = Tail(feed)
          /\ gen' = gen /\ faults' = faults
      BY <2>2 DEF Receive
    <3>2. Head(feed) \in Datagram
      BY <2>0, <3>1
    <3>3. CASE Decodes(Head(feed))
      <4> DEFINE w == Head(feed)
                 p == ProcessMessage(ref, w)
                 y == IF Fine(p) THEN rx ELSE "raised"
      <4>1. w \in Wire
        BY <3>2, <3>3, JunkIsNone DEF Datagram
      <4>2. ref' = p.ref /\ rx' = y
        BY <2>2, <3>3 DEF Receive, Fine
      <4>3. rx # "raised"
        BY <3>1
      <4> HIDE DEF w, p, y
      <4>4. FlowState(gen, Tail(feed), p.ref, y, faults)
        <5>1. w = Head(feed) /\ p = ProcessMessage(ref, w) /\ y = IF Fine(p) THEN rx ELSE "raised"
          BY DEF w, p, y
        <5> QED BY <2>0, <3>1, <4>1, <4>3, <5>1, ReadKeeps
      <4> QED BY <3>1, <4>2, <4>4 DEF FlowInv
    <3>4. CASE ~Decodes(Head(feed))
      <4>1. ref' = ref /\ rx' = "raised"
        BY <2>2, <3>4 DEF Receive
      <4>2. FlowState(gen, Tail(feed), ref, "raised", faults)
        BY <2>0, <3>1, <3>4, JunkKeeps
      <4> QED BY <3>1, <4>1, <4>2 DEF FlowInv
    <3> QED BY <3>3, <3>4
  <2>3. CASE TimeOut
    <3>1. /\ rx = "listening" /\ rx' = "timeout"
          /\ gen' = gen /\ feed' = feed /\ ref' = ref /\ faults' = faults
      BY <2>3 DEF TimeOut
    <3>2. FlowState(gen, feed, ref, "timeout", faults)
      BY <2>0, <3>1, TimeOutKeeps
    <3> QED BY <3>1, <3>2 DEF FlowInv
  <2>4. CASE Lose \/ Duplicate \/ Reorder \/ Foreign
    <3> DEFINE A == {feed[i] : i \in DOMAIN feed} \union {Junk}
    <3>1. PICK f2 \in Seq(A) : Fault(f2)
      <4>1. /\ \A i \in DOMAIN feed : RemoveAt(feed, i) \in Seq(A)
            /\ \A i \in DOMAIN feed : InsertAt(feed, i, feed[i]) \in Seq(A)
            /\ \A i \in 1 .. Len(feed) - 1 :
                 [feed EXCEPT ![i] = feed[i + 1], ![i + 1] = feed[i]] \in Seq(A)
            /\ Append(feed, Junk) \in Seq(A)
        BY <2>0, FaultsMake
      <4> HIDE DEF A
      <4>2. CASE Lose
        BY <4>1, <4>2 DEF Lose
      <4>3. CASE Duplicate
        BY <4>1, <4>3 DEF Duplicate
      <4>4. CASE Reorder
        BY <4>1, <4>4 DEF Reorder
      <4>5. CASE Foreign
        BY <4>1, <4>5 DEF Foreign
      <4> QED BY <2>4, <4>2, <4>3, <4>4, <4>5
    <3>2. feed' = f2 /\ faults' = faults + 1 /\ gen' = gen /\ ref' = ref /\ rx' = rx
      BY <3>1 DEF Fault
    <3>3. FlowState(gen, f2, ref, rx, faults + 1)
      BY <2>0, FaultKeeps
    <3> QED BY <3>2, <3>3 DEF FlowInv
  <2>5. CASE UNCHANGED vars
    BY <2>0, <2>5 DEF vars, FlowInv
  <2> QED BY <2>1, <2>2, <2>3, <2>4, <2>5 DEF Next
<1> QED BY <1>1, <1>2, PTL DEF Spec

\* check_invariants never raises, of either book, whatever the network does.
THEOREM BooksStayConsistent == Spec => []BooksConsistent
<1>1. FlowInv => BooksConsistent
  <2> SUFFICES ASSUME FlowInv PROVE BooksConsistent
    OBVIOUS
  <2>1. GoodBook(gen.book) /\ GoodBook(ref.book)
    BY GenParts DEF FlowInv, FlowState, SoundRef
  <2> QED BY <2>1, GoodConsistent DEF BooksConsistent
<1> QED BY <1>1, FlowCorrect, PTL

\* The lazy heaps never hide the best level of either book.
THEOREM HeapAlwaysFindsBest == Spec => []HeapFindsBest
<1>1. FlowInv => HeapFindsBest
  <2> SUFFICES ASSUME FlowInv PROVE HeapFindsBest
    OBVIOUS
  <2>1. SoundBook(gen.book) /\ SoundBook(ref.book)
    BY GenParts DEF FlowInv, FlowState, SoundRef, GoodBook
  <2>2. \A b \in {gen.book, ref.book}, s \in Side : BestPrice(b, s) = ListedBest(b, s)
    BY <2>1, BestPriceIs
  <2> QED BY <2>2 DEF HeapFindsBest
<1> QED BY <1>1, FlowCorrect, PTL

\* A reference that has read everything holds the generator's book.
LEMMA SyncedAgrees ==
    ASSUME NEW g, NEW r, Synced(g, r)
    PROVE  r.book = g.book /\ r.fills = <<>> /\ r.matched = 2 * g.trades
BY DEF Synced, Reference

\* An undisturbed feed is replayed without an exception or a gap, and when it is
\* read the books, the counts and the reports agree.
THEOREM FeedReproduces == Spec => []Reproduces
<1>1. FlowInv => Reproduces
  <2> SUFFICES ASSUME FlowInv, faults = 0
               PROVE  /\ gen.err = "" /\ rx # "raised" /\ ref.gaps = 0
                      /\ feed = <<>> => /\ Snapshot(ref.book) = Snapshot(gen.book)
                                       /\ ref.fills = <<>> /\ ref.matched = 2 * gen.trades
                                       /\ ref.received = gen.seq
    BY DEF Reproduces
  <2>1. SoundGen(gen) /\ gen.seq \in Nat
    BY GenParts DEF FlowInv, FlowState
  <2>2. gen.err = ""
    <3>1. PICK b, s, i, l, t, n : gen = [book |-> b, seq |-> s, nextId |-> i, live |-> l,
                                         ts |-> t, trades |-> n, err |-> ""]
      BY <2>1 DEF SoundGen
    <3> QED BY <3>1
  <2>3. PICK st, rf : Flowing(st, rf, gen, feed, ref, rx, faults)
    BY DEF FlowInv, FlowState
  <2>4. /\ Undisturbed(st, gen.seq, feed, ref, rx)
        /\ CountsPlace(rf, gen.seq, ref, rx) /\ Synced(gen, rf[gen.seq])
    BY <2>3 DEF Flowing
  <2>5. rx # "raised" /\ ref.gaps = 0 /\ ref.received = ref.lastSeq /\ ref = rf[ref.lastSeq]
    BY <2>4 DEF Undisturbed, CountsPlace
  <2>6. ASSUME feed = <<>>
        PROVE  /\ ref.book = gen.book /\ ref.fills = <<>> /\ ref.matched = 2 * gen.trades
               /\ ref.received = gen.seq
    <3>1. ref.lastSeq = gen.seq
      BY <2>1, <2>4, <2>6 DEF Undisturbed
    <3>2. Synced(gen, ref)
      BY <2>4, <2>5, <3>1
    <3> QED BY <2>5, <3>1, <3>2, SyncedAgrees
  <2> QED BY <2>2, <2>5, <2>6
<1> QED BY <1>1, FlowCorrect, PTL

\* Of any feed: a consumer whose counts are those of a complete feed holds the
\* generator's book.
THEOREM CountsAlwaysTell == Spec => []CountsTell
<1>1. FlowInv => CountsTell
  <2> SUFFICES ASSUME FlowInv, rx # "raised", ref.gaps = 0,
                      ref.received = gen.seq, ref.lastSeq = gen.seq
               PROVE  /\ Snapshot(ref.book) = Snapshot(gen.book)
                      /\ ref.fills = <<>> /\ ref.matched = 2 * gen.trades
    BY DEF CountsTell
  <2>1. PICK st, rf : Flowing(st, rf, gen, feed, ref, rx, faults)
    BY DEF FlowInv, FlowState
  <2>2. CountsPlace(rf, gen.seq, ref, rx) /\ Synced(gen, rf[gen.seq])
    BY <2>1 DEF Flowing
  <2>3. Synced(gen, ref)
    BY <2>2 DEF CountsPlace
  <2>4. ref.book = gen.book /\ ref.fills = <<>> /\ ref.matched = 2 * gen.trades
    BY <2>3, SyncedAgrees
  <2> QED BY <2>4
<1> QED BY <1>1, FlowCorrect, PTL

-----------------------------------------------------------------------------
(* The order of time and of price in the mirror.                             *)

\* Every event is stamped with the next time; an ADD has the next id, any other
\* is about an order of the mirror, and a fill is no larger than it.
LEMMA EventsChosen ==
    ASSUME NEW g, NEW e \in Events(g)
    PROVE  /\ e[1].ts = g.ts + 1
           /\ IF e[1].type = "ADD" THEN e[1].id = g.nextId ELSE e[1].id \in g.live
           /\ e[1].type = "EXECUTE" => e[1].qty \in 1 .. g.book.orders[e[1].id].qty
<1>1. CASE e \in AddEvents(g)
  <2> DEFINE P(s) == PickPrice(g, s, TRUE) \union PickPrice(g, s, FALSE)
             Q    == 1 .. MaxQuantity
  <2>1. AddEvents(g) = UNION {{GenAdd(g, s, p, q) : p \in P(s), q \in Q} : s \in Side}
    BY DEF AddEvents
  <2> HIDE DEF P, Q
  <2>2. PICK s \in Side : e \in {GenAdd(g, s, p, q) : p \in P(s), q \in Q}
    BY <1>1, <2>1
  <2>3. PICK p \in P(s), q \in Q : e = GenAdd(g, s, p, q)
    BY <2>2
  <2> QED BY <2>3 DEF GenAdd, Message
<1>2. CASE e \in CancelEvents(g)
  <2>1. PICK id \in g.live : e = GenCancel(g, id)
    BY <1>2 DEF CancelEvents
  <2> QED BY <2>1 DEF GenCancel, Message
<1>3. CASE e \in ModifyEvents(g)
  <2> DEFINE P(id) == PickPrice(g, g.book.orders[id].side, FALSE) \union {g.book.orders[id].price}
             Q     == 1 .. MaxQuantity
  <2>1. ModifyEvents(g) = UNION {{GenModify(g, id, p, q) : p \in P(id), q \in Q} : id \in g.live}
    BY DEF ModifyEvents
  <2> HIDE DEF P, Q
  <2>2. PICK id \in g.live : e \in {GenModify(g, id, p, q) : p \in P(id), q \in Q}
    BY <1>3, <2>1
  <2>3. PICK p \in P(id), q \in Q : e = GenModify(g, id, p, q)
    BY <2>2
  <2> QED BY <2>3 DEF GenModify, Message
<1>4. CASE e \in ExternalEvents(g)
  <2>1. PICK id \in g.live : e \in {GenExternal(g, id, q) : q \in 1 .. g.book.orders[id].qty}
    BY <1>4 DEF ExternalEvents
  <2>2. PICK q \in 1 .. g.book.orders[id].qty : e = GenExternal(g, id, q)
    BY <2>1
  <2> QED BY <2>2 DEF GenExternal, Message
<1> QED BY <1>1, <1>2, <1>3, <1>4 DEF Events

\* An event leaves the mirror in the order of time.
LEMMA EventAged ==
    ASSUME NEW g, SoundGen(g), NEW m, NEW res, EventGood(g, m, res), m.ts = g.ts + 1,
           Aged(g.book, g.ts)
    PROVE  Aged(res.book, g.ts + 1)
<1> DEFINE b == g.book
           T == g.ts
           U == T + 1
<1>1. GoodBook(b) /\ SoundBook(b) /\ T \in Nat /\ Aged(b, T)
  BY GenParts DEF GoodBook
<1>2. /\ res = Applied(b, m)
      /\ m.side \in Side /\ m.id \in Nat /\ m.price \in PriceMin .. PriceMax
      /\ m.qty \in 1 .. MaxQuantity /\ m.ts = U
  BY DEF EventGood, Wire
<1> HIDE DEF b, T
<1>3. U \in Nat /\ T < U /\ T <= U /\ m.qty \in Nat
  BY <1>1, <1>2, Ranges
<1>4. Aged(b, U)
  BY <1>1, <1>3, AgedLater
<1> HIDE DEF U
<1>5. CASE m.type = "ADD"
  <2> DEFINE o == Order(m.id, m.side, m.price, m.qty, m.ts)
  <2>1. res = AddOrder(b, o)
    BY <1>2, <1>5 DEF Applied
  <2>2. o \in RestingOrder /\ o.ts = U
    BY <1>2, <1>3 DEF Order, RestingOrder
  <2> HIDE DEF o
  <2>3. Aged(AddOrder(b, o).book, U)
    BY <1>1, <1>3, <2>2, AddAged
  <2> QED BY <2>1, <2>3 DEF U, T
<1>6. CASE m.type = "CANCEL"
  <2>1. res = CancelOrder(b, m.id)
    BY <1>2, <1>6 DEF Applied
  <2>2. Aged(CancelOrder(b, m.id).book, U)
    BY <1>1, <1>3, <1>4, CancelAged
  <2> QED BY <2>1, <2>2 DEF U, T
<1>7. CASE m.type = "MODIFY"
  <2>1. res = ModifyOrder(b, m.id, m.qty, m.price, m.ts)
    BY <1>2, <1>7 DEF Applied
  <2>2. Aged(ModifyOrder(b, m.id, m.qty, m.price, U).book, U)
    BY <1>1, <1>2, <1>3, ModifyAged
  <2> QED BY <1>2, <2>1, <2>2 DEF U, T
<1>8. CASE m.type \notin {"ADD", "CANCEL", "MODIFY"}
  <2>1. res = ExecuteOrder(b, m.id, m.qty, m.ts)
    BY <1>2, <1>8 DEF Applied
  <2>2. Aged(ExecuteOrder(b, m.id, m.qty, m.ts).book, U)
    BY <1>1, <1>3, <1>4, ExecuteAged
  <2> QED BY <2>1, <2>2 DEF U, T
<1> QED BY <1>5, <1>6, <1>7, <1>8

\* What is shown is the mirror, and the mirror is in the order of time.
FlowAged == Aged(gen.book, gen.ts) /\ shown.book = Resting(gen.book)

\* A book in the order of time shows queues in the order of time.
LEMMA RestingAged ==
    ASSUME NEW b, SoundBook(b), NEW T, Aged(b, T), NEW s \in Side, NEW p \in Level,
           NEW m \in DOMAIN Resting(b)[s][p], NEW n \in DOMAIN Resting(b)[s][p], m < n
    PROVE  Resting(b)[s][p][m].ts < Resting(b)[s][p][n].ts
<1> DEFINE Q == Queue(b, s, p)
           q == b.levels[s][p]
<1>1. Resting(b)[s][p] = [k \in DOMAIN Q |-> [id |-> Q[k].id, qty |-> Q[k].qty, ts |-> Q[k].ts]]
  BY DEF Resting
<1>2. m \in DOMAIN Q /\ n \in DOMAIN Q
  BY <1>1
<1>3. Resting(b)[s][p][m].ts = Q[m].ts /\ Resting(b)[s][p][n].ts = Q[n].ts
  <2> HIDE DEF Q
  <2> QED BY <1>1, <1>2
<1>4. p \in DOMAIN b.levels[s]
  <2> SUFFICES ASSUME p \notin DOMAIN b.levels[s] PROVE FALSE
    OBVIOUS
  <2>1. Q = <<>>
    BY DEF Queue
  <2>2. DOMAIN Q = {}
    BY <2>1
  <2> QED BY <1>2, <2>2
<1>5. Q = [k \in DOMAIN q |-> b.orders[q[k]]]
  BY <1>4 DEF Queue
<1>6. q \in Seq(At(b, s, p))
  BY <1>4 DEF SoundBook, SoundLevels, Lists
<1> HIDE DEF Q, q
<1>7. m \in 1 .. Len(q) /\ n \in 1 .. Len(q) /\ Q[m] = b.orders[q[m]] /\ Q[n] = b.orders[q[n]]
  BY <1>2, <1>5, <1>6
<1>8. Before(b, s, p, q[m], q[n])
  BY <1>7 DEF Before, q
<1>9. b.orders[q[m]].ts < b.orders[q[n]].ts
  BY <1>4, <1>8 DEF Aged
<1> QED BY <1>3, <1>7, <1>9

\* The mirror stays in the order of time, and is what is shown.
THEOREM AgedAlways == Spec => []FlowAged
<1>1. Init => FlowAged
  <2> SUFFICES ASSUME Init PROVE FlowAged
    OBVIOUS
  <2>1. gen.book = EmptyBook /\ gen.ts = 0
    BY DEF Init, NewGenerator
  <2>2. shown.book = Resting(EmptyBook)
    BY DEF Init, View
  <2>3. \A s \in Side : DOMAIN EmptyBook.levels[s] = {}
    BY DEF EmptyBook
  <2>4. Aged(EmptyBook, 0)
    BY <2>3, EmptySound DEF Aged
  <2> QED BY <2>1, <2>2, <2>4 DEF FlowAged
<1>2. FlowInv /\ FlowAged /\ [Next]_vars => FlowAged'
  <2> SUFFICES ASSUME FlowInv, FlowAged, [Next]_vars PROVE FlowAged'
    OBVIOUS
  <2>1. CASE SendBatch
    <3>1. PICK e \in Events(gen) : /\ gen' = Batch(gen, e[1], e[2]).gen
                                   /\ shown' = View(e[1], e[2].trades, e[2].book)
      BY <2>1 DEF SendBatch
    <3>2. SoundGen(gen)
      BY DEF FlowInv, FlowState
    <3>3. EventGood(gen, e[1], e[2]) /\ e[1].ts = gen.ts + 1
      BY <3>2, EventsGood, EventsChosen
    <3>4. Aged(e[2].book, gen.ts + 1)
      BY <3>2, <3>3, EventAged DEF FlowAged
    <3>5. gen'.book = e[2].book /\ gen'.ts = gen.ts + 1
      <4> DEFINE l == Len(Batch(gen, e[1], e[2]).msgs)
                 f == Len(IF e[1].external THEN <<>> ELSE e[2].trades)
      <4>1. gen' = AfterBatch(gen, e[1], e[2], l, f)
        BY <3>1, <3>2, <3>3, BatchGen
      <4> HIDE DEF l, f
      <4> QED BY <4>1 DEF AfterBatch
    <3>6. shown'.book = Resting(e[2].book)
      BY <3>1 DEF View
    <3> QED BY <3>4, <3>5, <3>6 DEF FlowAged
  <2>2. CASE UNCHANGED <<gen, shown>>
    BY <2>2 DEF FlowAged
  <2>3. CASE Receive \/ TimeOut \/ Lose \/ Duplicate \/ Reorder \/ Foreign
    BY <2>2, <2>3 DEF Receive, TimeOut, Lose, Duplicate, Reorder, Foreign, Fault
  <2>4. CASE UNCHANGED vars
    BY <2>2, <2>4 DEF vars
  <2> QED BY <2>1, <2>3, <2>4 DEF Next
<1> QED BY <1>1, <1>2, FlowCorrect, PTL DEF Spec

\* A FIFO position is a time priority in the book of the exchange, whatever was
\* added, modified, filled and matched before.
THEOREM TimePriorityKept == Spec => []FifoIsTimePriority
<1>1. FlowInv /\ FlowAged => FifoIsTimePriority
  <2> SUFFICES ASSUME FlowInv, FlowAged PROVE FifoIsTimePriority
    OBVIOUS
  <2>1. SoundBook(gen.book) /\ Aged(gen.book, gen.ts) /\ shown.book = Resting(gen.book)
    BY GenParts DEF FlowInv, FlowState, FlowAged, GoodBook
  <2> DEFINE bk == shown.book
  <2>2. ASSUME NEW s \in Side, NEW p \in Level, NEW m \in DOMAIN bk[s][p],
               NEW n \in DOMAIN bk[s][p], m < n
        PROVE  bk[s][p][m].ts < bk[s][p][n].ts
    BY <2>1, <2>2, RestingAged
  <2>3. Mirror!Side = Side /\ Mirror!Level = Level
    BY DEF Mirror!Side, Side, Mirror!Level, Level
  <2> QED BY <2>2, <2>3 DEF FifoIsTimePriority, Mirror!FifoIsTimePriority
<1> QED BY <1>1, FlowCorrect, AgedAlways, PTL

\* An event shows trades in the order of price.
LEMMA EventPriced ==
    ASSUME NEW g, SoundGen(g), NEW m, NEW res, EventGood(g, m, res), m.ts = g.ts + 1,
           Aged(g.book, g.ts), m.type = "ADD"
    PROVE  Improving(m, res.trades, res.book)
<1> DEFINE b == g.book
           T == g.ts
           o == Order(m.id, m.side, m.price, m.qty, m.ts)
<1>1. GoodBook(b) /\ T \in Nat /\ Aged(b, T)
  BY GenParts
<1>2. /\ res = Applied(b, m)
      /\ m.side \in Side /\ m.id \in Nat /\ m.price \in PriceMin .. PriceMax
      /\ m.qty \in 1 .. MaxQuantity /\ m.ts = T + 1
  BY DEF EventGood, Wire
<1>3. res = AddOrder(b, o)
  BY <1>2 DEF Applied
<1> HIDE DEF b, T
<1>4. o \in RestingOrder /\ o.ts = T + 1 /\ T < o.ts /\ o.side = m.side /\ o.price = m.price
  BY <1>1, <1>2 DEF Order, RestingOrder
<1> HIDE DEF o
<1>5. Improving(o, res.trades, res.book)
  BY <1>1, <1>3, <1>4, AddAged
<1> QED BY <1>4, <1>5 DEF Improving

\* The prices at which the abstract book shows orders are levels.
LEMMA RestingPrices ==
    ASSUME NEW b, SoundBook(b), NEW s \in Side, NEW l \in Level, Resting(b)[s][l] # <<>>
    PROVE  l \in DOMAIN b.levels[s]
<1> SUFFICES ASSUME l \notin DOMAIN b.levels[s] PROVE FALSE
  OBVIOUS
<1> DEFINE Q == Queue(b, s, l)
<1>1. Q = <<>>
  BY DEF Queue
<1>2. Resting(b)[s][l] = [k \in DOMAIN Q |-> [id |-> Q[k].id, qty |-> Q[k].qty, ts |-> Q[k].ts]]
  BY DEF Resting
<1> HIDE DEF Q
<1>3. Resting(b)[s][l] = <<>>
  <2>1. DOMAIN Q = {}
    BY <1>1
  <2> QED BY <1>1, <1>2, <2>1
<1> QED BY <1>3

\* An aggressive order never trades through a better price or beyond its limit.
THEOREM NothingTradedThrough == Spec => NoTradeThrough
<1>1. ASSUME FlowInv, FlowAged, SendBatch, shown'.cmd.type = "ADD", shown'.trades # <<>>
      PROVE  LET s == shown'.cmd.side
                 o == Opposite(s)
                 made == shown'.trades
             IN  /\ \A n \in DOMAIN made :
                      /\ Crosses(s, shown'.cmd.price, made[n].price)
                      /\ n > 1 => ~Better(o, made[n].price, made[n - 1].price)
                 /\ \A l \in {l \in Level : shown'.book[o][l] # <<>>} :
                      ~Better(o, l, Last(made).price)
  <2>1. PICK e \in Events(gen) : shown' = View(e[1], e[2].trades, e[2].book)
    BY <1>1 DEF SendBatch
  <2>2. SoundGen(gen) /\ EventGood(gen, e[1], e[2]) /\ e[1].ts = gen.ts + 1
    BY <1>1, EventsGood, EventsChosen DEF FlowInv, FlowState
  <2> DEFINE m    == e[1]
             res  == e[2]
             made == res.trades
             o    == Opposite(m.side)
  <2>3. /\ shown'.cmd.type = m.type /\ shown'.cmd.side = m.side /\ shown'.cmd.price = m.price
        /\ shown'.trades = made /\ shown'.book = Resting(res.book)
    BY <2>1 DEF View
  <2>4. Improving(m, made, res.book)
    BY <1>1, <2>2, <2>3, EventPriced DEF FlowAged
  <2>5. /\ SoundBook(res.book) /\ m.side \in Side /\ o \in Side
        /\ made \in Seq(MadeTrade)
    <3>1. ~m.external
      BY <1>1, <2>2, <2>3 DEF EventGood
    <3>2. SoundBook(res.book) /\ m \in Wire /\ made \in Seq(MadeTrade)
      BY <2>2, <3>1 DEF EventGood, GoodBook
    <3>3. m.side \in Side
      BY <3>2 DEF Wire
    <3> QED BY <3>2, <3>3 DEF Opposite, Side
  <2> HIDE DEF m, res, made
  <2>6. made # <<>> /\ DOMAIN made = 1 .. Len(made)
    BY <1>1, <2>3, <2>5
  <2>7. ASSUME NEW n \in DOMAIN made
        PROVE  /\ Crosses(m.side, m.price, made[n].price)
               /\ n > 1 => ~Better(o, made[n].price, made[n - 1].price)
    BY <2>4, <2>6 DEF Improving
  <2>8. ASSUME NEW l \in Level, Resting(res.book)[o][l] # <<>>
        PROVE  ~Better(o, l, Last(made).price)
    <3>1. l \in DOMAIN res.book.levels[o]
      BY <2>5, <2>8, RestingPrices
    <3> QED BY <2>4, <2>6, <3>1 DEF Improving, Last
  <2> QED BY <2>3, <2>7, <2>8
<1>2. FlowInv /\ FlowAged /\ [Next]_vars =>
        [shown.cmd'.type = "ADD" /\ shown.trades' # <<>> =>
           LET s == shown.cmd'.side
               o == Mirror!Opposite(s)
           IN  /\ \A n \in DOMAIN shown.trades' :
                    /\ Mirror!Crosses(s, shown.cmd'.price, shown.trades'[n].price)
                    /\ n > 1 => ~Mirror!Better(o, shown.trades'[n].price, shown.trades'[n - 1].price)
               /\ \A l \in Mirror!Prices(shown.book', o) :
                    ~Mirror!Better(o, l, Mirror!Last(shown.trades').price)]_(Mirror!vars)
  <2> SUFFICES ASSUME FlowInv, FlowAged, [Next]_vars, ~UNCHANGED Mirror!vars,
                      shown.cmd'.type = "ADD", shown.trades' # <<>>
               PROVE  LET s == shown.cmd'.side
                          o == Mirror!Opposite(s)
                      IN  /\ \A n \in DOMAIN shown.trades' :
                               /\ Mirror!Crosses(s, shown.cmd'.price, shown.trades'[n].price)
                               /\ n > 1 => ~Mirror!Better(o, shown.trades'[n].price, shown.trades'[n - 1].price)
                          /\ \A l \in Mirror!Prices(shown.book', o) :
                               ~Mirror!Better(o, l, Mirror!Last(shown.trades').price)
    OBVIOUS
  <2>1. SendBatch
    <3>1. CASE Receive \/ TimeOut \/ Lose \/ Duplicate \/ Reorder \/ Foreign \/ UNCHANGED vars
      <4>1. shown' = shown
        BY <3>1 DEF Receive, TimeOut, Lose, Duplicate, Reorder, Foreign, Fault, vars
      <4> QED BY <4>1 DEF Mirror!vars
    <3> QED BY <3>1 DEF Next
  <2>2. /\ Mirror!Level = Level
        /\ \A s : Mirror!Opposite(s) = Opposite(s)
        /\ \A s, p, r : Mirror!Better(s, p, r) = Better(s, p, r)
        /\ \A s, p, r : Mirror!Crosses(s, p, r) = Crosses(s, p, r)
        /\ \A t : Mirror!Last(t) = Last(t)
    BY DEF Mirror!Level, Level, Mirror!Opposite, Opposite, Mirror!Better, Better,
           Mirror!Crosses, Crosses, Mirror!Last, Last
  <2>3. \A s : Mirror!Prices(shown.book', s) = {l \in Level : shown.book'[s][l] # <<>>}
    BY <2>2 DEF Mirror!Prices
  <2>4. shown.cmd' = shown'.cmd /\ shown.trades' = shown'.trades /\ shown.book' = shown'.book
    OBVIOUS
  <2> QED BY <1>1, <2>1, <2>2, <2>3, <2>4
<1> QED BY <1>2, FlowCorrect, AgedAlways, PTL DEF Spec, NoTradeThrough, Mirror!NoTradeThrough

-----------------------------------------------------------------------------
(* The abstract book.                                                        *)

\* Both books are of the same sides, levels and orders of prices.
LEMMA MirrorWords ==
    /\ Mirror!Side = Side /\ Mirror!Level = Level
    /\ \A s, p, r : Mirror!Better(s, p, r) = Better(s, p, r)
    /\ \A i, q, t : Mirror!Order(i, q, t) = [id |-> i, qty |-> q, ts |-> t]
    /\ \A q, n : Mirror!RemoveAt(q, n) = RemoveAt(q, n)
    /\ \A S : Mirror!Cardinality(S) = Cardinality(S)
<1>1. Mirror!Side = Side /\ Mirror!Level = Level
  BY DEF Mirror!Side, Side, Mirror!Level, Level
<1>2. \A s, p, r : Mirror!Better(s, p, r) = Better(s, p, r)
  BY DEF Mirror!Better, Better
<1>3. \A i, q, t : Mirror!Order(i, q, t) = [id |-> i, qty |-> q, ts |-> t]
  BY DEF Mirror!Order
<1>4. \A q, n : Mirror!RemoveAt(q, n) = RemoveAt(q, n)
  BY DEF Mirror!RemoveAt, RemoveAt
<1>5. \A S : Mirror!Cardinality(S) = Cardinality(S)
  BY DEF Mirror!Cardinality, Cardinality
<1> QED BY <1>1, <1>2, <1>3, <1>4, <1>5

\* A sequence without its element at i.
LEMMA RemoveAtIs ==
    ASSUME NEW S, NEW q \in Seq(S), NEW i \in 1 .. Len(q)
    PROVE  /\ RemoveAt(q, i) \in Seq(S)
           /\ Len(RemoveAt(q, i)) = Len(q) - 1
           /\ \A n \in 1 .. Len(q) - 1 :
                RemoveAt(q, i)[n] = IF n < i THEN q[n] ELSE q[n + 1]
<1>1. Len(q) \in Nat /\ \A n \in 1 .. Len(q) : q[n] \in S
  OBVIOUS
<1> DEFINE a == SubSeq(q, 1, i - 1)
           c == SubSeq(q, i + 1, Len(q))
<1>2. a \in Seq(S) /\ Len(a) = i - 1 /\ \A n \in 1 .. i - 1 : a[n] = q[n]
  BY <1>1
<1>3. c \in Seq(S) /\ Len(c) = Len(q) - i
        /\ \A n \in 1 .. Len(q) - i : c[n] = q[n + i]
  BY <1>1
<1>0. RemoveAt(q, i) = a \o c
  BY DEF RemoveAt
<1> HIDE DEF a, c
<1>4. Len(a \o c) = Len(q) - 1 /\ a \o c \in Seq(S)
  <2>1. a \o c \in Seq(S) /\ Len(a \o c) = Len(a) + Len(c)
    BY <1>2, <1>3, ConcatProperties
  <2>2. Len(a) + Len(c) = Len(q) - 1
    BY <1>1, <1>2, <1>3
  <2> QED BY <2>1, <2>2
<1>5. ASSUME NEW n \in 1 .. Len(q) - 1
      PROVE  (a \o c)[n] = IF n < i THEN q[n] ELSE q[n + 1]
  <2>1. CASE n < i
    BY <2>1, <1>1, <1>2, <1>3, <1>4
  <2>2. CASE n >= i
    <3>1. (a \o c)[n] = c[n - (i - 1)] /\ n - (i - 1) \in 1 .. Len(q) - i
      BY <2>2, <1>1, <1>2, <1>3, <1>4
    <3>2. c[n - (i - 1)] = q[(n - (i - 1)) + i]
      BY <3>1, <1>3
    <3>3. (n - (i - 1)) + i = n + 1
      BY <1>1
    <3> QED BY <2>2, <3>1, <3>2, <3>3
  <2>3. n < i \/ n >= i
    BY <1>1
  <2> QED BY <2>1, <2>2, <2>3
<1> QED BY <1>0, <1>4, <1>5

\* PriceLevel.remove takes out the place at which the order stands.
LEMMA RemoveFirstAt ==
    ASSUME NEW q, NEW S, Lists(q, S), NEW i \in 1 .. Len(q)
    PROVE  RemoveFirst(q, q[i]) = RemoveAt(q, i)
<1> DEFINE x == q[i]
           I == {j \in 1 .. Len(q) : q[j] = x}
<1>1. I = {i}
  BY DEF Lists
<1>2. Min({i}) = i
  BY DEF Min
<1> QED BY <1>1, <1>2 DEF RemoveFirst, SelectInSeq

\* An order as the abstract book shows it.
Entry(o) == [id |-> o.id, qty |-> o.qty, ts |-> o.ts]

\* The ids at price p of side s, oldest first.
LevelAt(b, s, p) == IF p \in DOMAIN b.levels[s] THEN b.levels[s][p] ELSE <<>>

\* The orders with the ids q.
Shows(orders, q) == [n \in 1 .. Len(q) |-> Entry(orders[q[n]])]

\* Every level lists the orders of its price.
LEMMA LevelLists ==
    ASSUME NEW b, SoundBook(b), NEW s \in Side, NEW p
    PROVE  /\ Lists(LevelAt(b, s, p), At(b, s, p))
           /\ LevelAt(b, s, p) \in Seq(OrderIds(b))
           /\ LevelAt(b, s, p) = <<>> <=> p \notin DOMAIN b.levels[s]
<1>1. CASE p \in DOMAIN b.levels[s]
  <2>1. Lists(b.levels[s][p], At(b, s, p)) /\ b.levels[s][p] # <<>>
    BY <1>1, LevelsHold DEF SoundBook, SoundLevels
  <2>2. At(b, s, p) \subseteq OrderIds(b)
    BY DEF At
  <2> DEFINE q == b.levels[s][p]
  <2>3. q = LevelAt(b, s, p)
    BY <1>1 DEF LevelAt
  <2> HIDE DEF q
  <2>4. q \in Seq(OrderIds(b))
    BY <2>1, <2>2 DEF q, Lists
  <2> QED BY <1>1, <2>1, <2>3, <2>4 DEF q
<1>2. CASE p \notin DOMAIN b.levels[s]
  <2>1. At(b, s, p) = {} /\ LevelAt(b, s, p) = <<>>
    BY <1>2 DEF LevelAt, SoundBook, SoundLevels
  <2> QED BY <1>2, <2>1, ListsHead
<1> QED BY <1>1, <1>2

\* What the abstract book shows of a level.
LEMMA RestingIs ==
    ASSUME NEW b, SoundBook(b)
    PROVE  Resting(b) = [s \in Side |-> [p \in Level |-> Shows(b.orders, LevelAt(b, s, p))]]
<1>1. ASSUME NEW s \in Side, NEW p \in Level
      PROVE  [n \in DOMAIN Queue(b, s, p) |->
                LET o == Queue(b, s, p)[n] IN [id |-> o.id, qty |-> o.qty, ts |-> o.ts]]
             = Shows(b.orders, LevelAt(b, s, p))
  <2> DEFINE q == LevelAt(b, s, p)
  <2>1. Queue(b, s, p) = [n \in DOMAIN q |-> b.orders[q[n]]]
    <3>1. CASE p \in DOMAIN b.levels[s]
      BY <3>1 DEF Queue, LevelAt
    <3>2. CASE p \notin DOMAIN b.levels[s]
      <4>1. q = <<>> /\ DOMAIN q = {} /\ Queue(b, s, p) = <<>>
        BY <3>2 DEF Queue, LevelAt
      <4> HIDE DEF q
      <4> QED BY <4>1
    <3> QED BY <3>1, <3>2
  <2>2. DOMAIN q = 1 .. Len(q)
    BY LevelLists
  <2> HIDE DEF q
  <2>3. DOMAIN Queue(b, s, p) = 1 .. Len(q)
        /\ \A n \in 1 .. Len(q) : Queue(b, s, p)[n] = b.orders[q[n]]
    BY <2>1, <2>2
  <2> QED BY <2>3 DEF Shows, Entry, q
<1> QED BY <1>1 DEF Resting

\* What a level of the abstract book holds, one order after the other.
LEMMA RestingAt ==
    ASSUME NEW b, SoundBook(b), NEW s \in Side, NEW p \in Level
    PROVE  /\ Resting(b)[s][p] = Shows(b.orders, LevelAt(b, s, p))
           /\ Resting(b)[s][p] \in Seq([id : Nat, qty : 1 .. MaxQuantity, ts : Nat])
           /\ Len(Resting(b)[s][p]) = Len(LevelAt(b, s, p))
           /\ \A n \in 1 .. Len(LevelAt(b, s, p)) :
                Resting(b)[s][p][n] = Entry(b.orders[LevelAt(b, s, p)[n]])
<1> DEFINE q == LevelAt(b, s, p)
           r == Resting(b)[s][p]
           R == [id : Nat, qty : 1 .. MaxQuantity, ts : Nat]
<1>1. r = [n \in 1 .. Len(q) |-> Entry(b.orders[q[n]])]
  BY RestingIs DEF Shows
<1>2. q \in Seq(OrderIds(b)) /\ Len(q) \in Nat
  BY LevelLists
<1> HIDE DEF q, r
<1>3. ASSUME NEW n \in 1 .. Len(q) PROVE Entry(b.orders[q[n]]) \in R
  <2>1. b.orders[q[n]] \in RestingOrder
    BY <1>2 DEF SoundBook, SoundOrders
  <2> QED BY <2>1 DEF RestingOrder, Entry
<1> HIDE DEF R
<1>4. r \in Seq(R) /\ Len(r) = Len(q)
  BY <1>1, <1>2, <1>3
<1> QED BY <1>1, <1>4 DEF q, r, R, Shows

\* A table of side and level.
IsTable(R) == R = [s \in Side |-> [p \in Level |-> R[s][p]]]

\* A table of side and level with another entry in one place.
LEMMA TableExcept ==
    ASSUME NEW R, IsTable(R), NEW T, IsTable(T),
           NEW t \in Side, NEW l \in Level, NEW x,
           \A s \in Side, p \in Level : T[s][p] = IF s = t /\ p = l THEN x ELSE R[s][p]
    PROVE  T = [R EXCEPT ![t][l] = x]
<1> DEFINE u == [R[t] EXCEPT ![l] = x]
           V == [R EXCEPT ![t] = u]
<1>1. R[t] = [p \in Level |-> R[t][p]]
  BY DEF IsTable
<1>2. u = [p \in Level |-> IF p = l THEN x ELSE R[t][p]]
  BY <1>1
<1>3. T[t] = u
  <2>1. T[t] = [p \in Level |-> T[t][p]]
    BY DEF IsTable
  <2> HIDE DEF u
  <2> QED BY <2>1, <1>2
<1>4. \A s \in Side : s # t => T[s] = R[s]
  <2> SUFFICES ASSUME NEW s \in Side, s # t PROVE T[s] = R[s]
    OBVIOUS
  <2>1. T[s] = [p \in Level |-> T[s][p]] /\ R[s] = [p \in Level |-> R[s][p]]
    BY DEF IsTable
  <2>2. \A p \in Level : T[s][p] = R[s][p]
    OBVIOUS
  <2> QED BY <2>1, <2>2
<1> HIDE DEF u
<1>5. V = [s \in Side |-> IF s = t THEN u ELSE R[s]]
  BY DEF IsTable
<1>6. T = [s \in Side |-> T[s]]
  BY DEF IsTable
<1> HIDE DEF V
<1>7. T = V
  BY <1>3, <1>4, <1>5, <1>6
<1> QED BY <1>7 DEF u, V

\* A new order goes to the end of its level.
LEMMA InsertLevelAt ==
    ASSUME NEW b, SoundBook(b), NEW o \in RestingOrder, o.id \notin OrderIds(b),
           NEW s \in Side, NEW p
    PROVE  LevelAt(Insert(b, o), s, p) =
             IF s = o.side /\ p = o.price THEN Append(LevelAt(b, s, p), o.id)
                                          ELSE LevelAt(b, s, p)
<1> DEFINE c == Insert(b, o)
<1>1. SoundBook(c) /\ OrderIds(c) = OrderIds(b) \union {o.id} /\ c.orders[o.id] = o
      /\ \A i \in OrderIds(b) : c.orders[i] = b.orders[i]
  BY InsertSound, InsertOrders
<1>2. CASE p \in DOMAIN c.levels[s]
  <2>1. IF s = o.side /\ p = o.price
        THEN c.levels[s][p] = Append(IF p \in DOMAIN b.levels[s] THEN b.levels[s][p] ELSE <<>>, o.id)
        ELSE p \in DOMAIN b.levels[s] /\ c.levels[s][p] = b.levels[s][p]
    BY <1>2, InsertLevels
  <2> HIDE DEF c
  <2> QED BY <1>2, <2>1 DEF LevelAt, c
<1>3. CASE p \notin DOMAIN c.levels[s]
  <2> HIDE DEF c
  <2>1. At(c, s, p) = {}
    BY <1>1, <1>3 DEF SoundBook, SoundLevels
  <2>2. At(b, s, p) = {} /\ ~(s = o.side /\ p = o.price)
    BY <1>1, <2>1 DEF At
  <2>3. p \notin DOMAIN b.levels[s]
    BY <2>2 DEF SoundBook, SoundLevels
  <2> QED BY <1>3, <2>2, <2>3 DEF LevelAt, c
<1> QED BY <1>2, <1>3

\* An order that goes leaves its place in its level.
LEMMA DiscardLevelAt ==
    ASSUME NEW b, SoundBook(b), NEW id \in OrderIds(b), NEW s \in Side, NEW p
    PROVE  LevelAt(Discard(b, id), s, p) =
             IF s = b.orders[id].side /\ p = b.orders[id].price
             THEN RemoveFirst(LevelAt(b, s, p), id) ELSE LevelAt(b, s, p)
<1> DEFINE c == Discard(b, id)
<1>1. SoundBook(c) /\ OrderIds(c) = OrderIds(b) \ {id}
      /\ \A i \in OrderIds(b) \ {id} : c.orders[i] = b.orders[i]
  BY DiscardSound
<1>2. CASE p \in DOMAIN c.levels[s]
  BY <1>2, DiscardLevels DEF LevelAt
<1>3. CASE p \notin DOMAIN c.levels[s]
  <2> HIDE DEF c
  <2> DEFINE q == LevelAt(b, s, p)
  <2>1. At(c, s, p) = {} /\ LevelAt(c, s, p) = <<>>
    BY <1>1, <1>3 DEF SoundBook, SoundLevels, LevelAt
  <2>2. At(c, s, p) = At(b, s, p) \ {id}
    BY <1>1 DEF At
  <2>3. Lists(q, At(b, s, p))
    BY LevelLists
  <2> HIDE DEF q
  <2>4. CASE s = b.orders[id].side /\ p = b.orders[id].price
    <3>1. id \in At(b, s, p)
      BY <2>4 DEF At
    <3>2. Lists(RemoveFirst(q, id), {})
      BY <2>1, <2>2, <2>3, <3>1, ListsRemove
    <3>3. RemoveFirst(q, id) = <<>>
      BY <3>2, ListsHead
    <3> QED BY <2>1, <2>4, <3>3 DEF c, q
  <2>5. CASE ~(s = b.orders[id].side /\ p = b.orders[id].price)
    <3>1. At(b, s, p) = {}
      BY <2>1, <2>2, <2>5 DEF At
    <3>2. q = <<>>
      BY <2>3, <3>1, ListsHead
    <3> QED BY <2>1, <2>5, <3>2 DEF c, q
  <2> QED BY <2>4, <2>5
<1> QED BY <1>2, <1>3

\* _insert is Insert.
LEMMA InsertRests ==
    ASSUME NEW b, SoundBook(b), NEW o \in RestingOrder, o.id \notin OrderIds(b)
    PROVE  Resting(Insert(b, o)) = Mirror!Insert(Resting(b), o.side, o.price, Entry(o))
<1> DEFINE c == Insert(b, o)
           R == Resting(b)
           T == Resting(c)
<1>1. /\ SoundBook(c) /\ OrderIds(c) = OrderIds(b) \union {o.id} /\ c.orders[o.id] = o
      /\ \A i \in OrderIds(b) : c.orders[i] = b.orders[i]
  BY InsertSound, InsertOrders
<1>2. o.side \in Side /\ o.price \in Level
  <2>1. o.side \in Side /\ o.price \in PriceMin .. PriceMax
    BY DEF RestingOrder
  <2> QED BY <2>1, RangeAssumption, NumLevelsAssumption DEF Level
<1>3. ASSUME NEW s \in Side, NEW p \in Level
      PROVE  T[s][p] = IF s = o.side /\ p = o.price THEN Append(R[s][p], Entry(o)) ELSE R[s][p]
  <2> DEFINE q == LevelAt(b, s, p)
             r == LevelAt(c, s, p)
  <2>1. r = IF s = o.side /\ p = o.price THEN Append(q, o.id) ELSE q
    BY InsertLevelAt
  <2>2. R[s][p] = [n \in 1 .. Len(q) |-> Entry(b.orders[q[n]])]
        /\ T[s][p] = [n \in 1 .. Len(r) |-> Entry(c.orders[r[n]])]
    <3> HIDE DEF c
    <3> QED BY <1>1, RestingAt DEF Shows
  <2>3. q \in Seq(OrderIds(b)) /\ Len(q) \in Nat
    BY LevelLists
  <2> HIDE DEF q, r, c, R, T
  <2>4. CASE s = o.side /\ p = o.price
    <3>1. /\ r \in Seq(OrderIds(c)) /\ Len(r) = Len(q) + 1 /\ r[Len(q) + 1] = o.id
          /\ \A n \in 1 .. Len(q) : r[n] = q[n]
      BY <1>1, <2>1, <2>3, <2>4, AppendProperties
    <3> DEFINE u == [n \in 1 .. Len(q) |-> Entry(b.orders[q[n]])]
    <3>2. u \in Seq({Entry(b.orders[i]) : i \in OrderIds(b)}) /\ Len(u) = Len(q)
      BY <2>3
    <3>3. \A n \in 1 .. Len(q) + 1 : c.orders[r[n]] = IF n = Len(q) + 1 THEN o ELSE b.orders[q[n]]
      BY <1>1, <2>3, <3>1
    <3>4. T[s][p] = [n \in 1 .. Len(q) + 1 |->
                       Entry(IF n = Len(q) + 1 THEN o ELSE b.orders[q[n]])]
      BY <2>2, <3>1, <3>3
    <3>5. Append(u, Entry(o)) = [n \in 1 .. Len(q) + 1 |->
                       IF n = Len(q) + 1 THEN Entry(o) ELSE u[n]]
      BY <3>2 DEF Append
    <3>6. \A n \in 1 .. Len(q) + 1 : n # Len(q) + 1 => u[n] = Entry(b.orders[q[n]])
      BY <2>3
    <3> HIDE DEF u
    <3>7. Append(u, Entry(o)) = T[s][p]
      BY <3>4, <3>5, <3>6
    <3> QED BY <2>2, <2>4, <3>7 DEF u
  <2>5. CASE ~(s = o.side /\ p = o.price)
    <3>1. r = q
      BY <2>1, <2>5
    <3>2. \A n \in 1 .. Len(q) : c.orders[q[n]] = b.orders[q[n]]
      BY <1>1, <2>3
    <3> QED BY <2>2, <2>5, <3>1, <3>2
  <2> QED BY <2>4, <2>5
<1>4. IsTable(R) /\ IsTable(T)
  BY DEF Resting, IsTable
<1> HIDE DEF R, T, c
<1>5. T = [R EXCEPT ![o.side][o.price] = Append(@, Entry(o))]
  <2> DEFINE t == o.side
             l == o.price
             x == Append(R[t][l], Entry(o))
  <2>1. t \in Side /\ l \in Level
        /\ \A s \in Side, p \in Level : T[s][p] = IF s = t /\ p = l THEN x ELSE R[s][p]
    BY <1>2, <1>3
  <2> HIDE DEF t, l, x
  <2>2. T = [R EXCEPT ![t][l] = x]
    BY <1>4, <2>1, TableExcept
  <2> QED BY <2>2 DEF t, l, x
<1> QED BY <1>5 DEF R, T, c, Mirror!Insert

\* The order id stands at place k of the book.
StandsAt(b, id, k) ==
    /\ id \in OrderIds(b)
    /\ k[1] = b.orders[id].side /\ k[2] = b.orders[id].price
    /\ k[3] \in 1 .. Len(LevelAt(b, k[1], k[2])) /\ LevelAt(b, k[1], k[2])[k[3]] = id
    /\ k = <<k[1], k[2], k[3]>>

\* Every order stands somewhere, on a side and a level.
LEMMA PlaceExists ==
    ASSUME NEW b, SoundBook(b), NEW id \in OrderIds(b)
    PROVE  /\ b.orders[id] \in RestingOrder /\ b.orders[id].id = id
           /\ b.orders[id].side \in Side /\ b.orders[id].price \in Level
           /\ \E k : StandsAt(b, id, k)
<1> DEFINE s == b.orders[id].side
           p == b.orders[id].price
<1>1. b.orders[id] \in RestingOrder /\ b.orders[id].id = id
  BY DEF SoundBook, SoundOrders
<1>2. s \in Side /\ p \in Level /\ id \in At(b, s, p)
  BY <1>1, RangeAssumption, NumLevelsAssumption DEF RestingOrder, At, Level
<1>3. PICK n \in 1 .. Len(LevelAt(b, s, p)) : LevelAt(b, s, p)[n] = id
  BY <1>2, LevelLists DEF Lists
<1> HIDE DEF s, p
<1>4. StandsAt(b, id, <<s, p, n>>)
  BY <1>3 DEF StandsAt, s, p
<1> QED BY <1>1, <1>2, <1>4 DEF s, p

\* Discarding an order is taking it out of its place.
LEMMA DiscardRests ==
    ASSUME NEW b, SoundBook(b), NEW id, NEW k, StandsAt(b, id, k)
    PROVE  Resting(Discard(b, id)) = Mirror!Without(Resting(b), k)
<1> DEFINE c == Discard(b, id)
           R == Resting(b)
           T == Resting(c)
           t == k[1]
           l == k[2]
           n == k[3]
           x == RemoveAt(R[t][l], n)
<1>0. /\ id \in OrderIds(b) /\ t = b.orders[id].side /\ l = b.orders[id].price
      /\ n \in 1 .. Len(LevelAt(b, t, l)) /\ LevelAt(b, t, l)[n] = id
      /\ t \in Side /\ l \in Level
  BY PlaceExists DEF StandsAt
<1>1. /\ SoundBook(c) /\ OrderIds(c) = OrderIds(b) \ {id}
      /\ \A i \in OrderIds(b) \ {id} : c.orders[i] = b.orders[i]
  BY <1>0, DiscardSound
<1> HIDE DEF t, l, n
<1>2. ASSUME NEW s \in Side, NEW p \in Level
      PROVE  T[s][p] = IF s = t /\ p = l THEN x ELSE R[s][p]
  <2> DEFINE q == LevelAt(b, s, p)
             r == LevelAt(c, s, p)
  <2>1. r = IF s = t /\ p = l THEN RemoveFirst(q, id) ELSE q
    BY <1>0, DiscardLevelAt
  <2>2. /\ R[s][p] = [j \in 1 .. Len(q) |-> Entry(b.orders[q[j]])]
        /\ R[s][p] \in Seq([id : Nat, qty : 1 .. MaxQuantity, ts : Nat])
        /\ Len(R[s][p]) = Len(q)
        /\ T[s][p] = [j \in 1 .. Len(r) |-> Entry(c.orders[r[j]])]
    <3>1. R[s][p] = [j \in 1 .. Len(q) |-> Entry(b.orders[q[j]])]
      BY RestingAt DEF Shows
    <3>3. R[s][p] \in Seq([id : Nat, qty : 1 .. MaxQuantity, ts : Nat]) /\ Len(R[s][p]) = Len(q)
      BY RestingAt
    <3>2. T[s][p] = [j \in 1 .. Len(r) |-> Entry(c.orders[r[j]])]
      <4> HIDE DEF c
      <4> QED BY <1>1, RestingAt DEF Shows
    <3> QED BY <3>1, <3>2, <3>3
  <2>3. q \in Seq(OrderIds(b)) /\ Len(q) \in Nat /\ Lists(q, At(b, s, p))
    BY LevelLists
  <2>4. r \in Seq(OrderIds(c)) /\ Len(r) \in Nat
    <3> HIDE DEF c
    <3> QED BY <1>1, LevelLists
  <2>5. \A j \in 1 .. Len(r) : c.orders[r[j]] = b.orders[r[j]]
    <3> HIDE DEF r
    <3>1. \A j \in 1 .. Len(r) : r[j] \in OrderIds(b) \ {id}
      BY <1>1, <2>4
    <3> QED BY <1>1, <3>1
  <2>6. s = t /\ p = l => n \in 1 .. Len(q) /\ q[n] = id
    BY <1>0
  <2> HIDE DEF q, r, c, R, T
  <2>7. CASE s = t /\ p = l
    <3>1. r = RemoveAt(q, n)
      BY <2>1, <2>3, <2>6, <2>7, RemoveFirstAt
    <3>2. Len(r) = Len(q) - 1 /\ \A j \in 1 .. Len(q) - 1 : r[j] = IF j < n THEN q[j] ELSE q[j + 1]
      BY <2>3, <2>6, <2>7, <3>1, RemoveAtIs
    <3> DEFINE u == R[s][p]
               E == [id : Nat, qty : 1 .. MaxQuantity, ts : Nat]
    <3>3. u \in Seq(E) /\ Len(u) = Len(q) /\ n \in 1 .. Len(u)
          /\ \A j \in 1 .. Len(q) : u[j] = Entry(b.orders[q[j]])
      BY <2>2, <2>6, <2>7
    <3> HIDE DEF u, E
    <3>4. RemoveAt(u, n) \in Seq(E) /\ Len(RemoveAt(u, n)) = Len(u) - 1
          /\ \A j \in 1 .. Len(u) - 1 : RemoveAt(u, n)[j] = IF j < n THEN u[j] ELSE u[j + 1]
      BY <3>3, RemoveAtIs
    <3> DEFINE v == RemoveAt(u, n)
    <3> HIDE DEF v
    <3>5. v = [j \in 1 .. Len(q) - 1 |-> v[j]]
      BY <3>3, <3>4 DEF v
    <3>6. ASSUME NEW j \in 1 .. Len(q) - 1 PROVE v[j] = Entry(c.orders[r[j]])
      <4>1. j \in 1 .. Len(q) /\ j + 1 \in 1 .. Len(q)
        BY <2>3
      <4>2. v[j] = IF j < n THEN u[j] ELSE u[j + 1]
        BY <3>3, <3>4 DEF v
      <4>3. c.orders[r[j]] = b.orders[r[j]] /\ r[j] = IF j < n THEN q[j] ELSE q[j + 1]
        BY <2>5, <3>2
      <4> QED BY <3>3, <4>1, <4>2, <4>3
    <3>7. T[s][p] = [j \in 1 .. Len(q) - 1 |-> Entry(c.orders[r[j]])]
      BY <2>2, <3>2
    <3>8. T[s][p] = v
      BY <3>5, <3>6, <3>7
    <3> QED BY <2>7, <3>8 DEF v, u
  <2>8. CASE ~(s = t /\ p = l)
    <3>1. r = q
      BY <2>1, <2>8
    <3>2. \A j \in 1 .. Len(q) : c.orders[q[j]] = b.orders[q[j]]
      BY <2>5, <3>1
    <3> QED BY <2>2, <2>8, <3>1, <3>2
  <2> QED BY <2>7, <2>8
<1>3. IsTable(R) /\ IsTable(T)
  BY DEF Resting, IsTable
<1> HIDE DEF R, T, c, x
<1>4. T = [R EXCEPT ![t][l] = x]
  <2>1. t \in Side /\ l \in Level
    BY <1>0
  <2>2. \A s \in Side, p \in Level : T[s][p] = IF s = t /\ p = l THEN x ELSE R[s][p]
    BY <1>2
  <2> QED BY <1>3, <2>1, <2>2, TableExcept
<1> QED BY <1>4 DEF R, T, c, x, t, l, n, Mirror!Without, Mirror!RemoveAt, RemoveAt

\* An order with another quantity keeps its place.
LEMMA RequantifyRests ==
    ASSUME NEW b, SoundBook(b), NEW id, NEW k, StandsAt(b, id, k), NEW q \in 1 .. MaxQuantity
    PROVE  Resting([b EXCEPT !.orders[id].qty = q]) =
             [Resting(b) EXCEPT ![k[1]][k[2]][k[3]].qty = q]
<1> DEFINE c == [b EXCEPT !.orders[id].qty = q]
           R == Resting(b)
           T == Resting(c)
           t == k[1]
           l == k[2]
           n == k[3]
           x == [R[t][l] EXCEPT ![n].qty = q]
<1>0. /\ id \in OrderIds(b) /\ t = b.orders[id].side /\ l = b.orders[id].price
      /\ n \in 1 .. Len(LevelAt(b, t, l)) /\ LevelAt(b, t, l)[n] = id
      /\ t \in Side /\ l \in Level /\ b.orders[id] \in RestingOrder
  BY PlaceExists DEF StandsAt
<1>1. /\ SoundBook(c) /\ c.levels = b.levels /\ OrderIds(c) = OrderIds(b)
      /\ \A i \in OrderIds(b) \ {id} : c.orders[i] = b.orders[i]
      /\ c.orders[id] = [b.orders[id] EXCEPT !.qty = q]
  BY <1>0, RequantifySound
<1> HIDE DEF c
<1>5. Entry(c.orders[id]) = [Entry(b.orders[id]) EXCEPT !.qty = q]
  BY <1>0, <1>1 DEF RestingOrder, Entry
<1> HIDE DEF t, l, n
<1>2. ASSUME NEW s \in Side, NEW p \in Level
      PROVE  T[s][p] = IF s = t /\ p = l THEN x ELSE R[s][p]
  <2> DEFINE r == LevelAt(b, s, p)
  <2>1. r = LevelAt(c, s, p)
    BY <1>1 DEF LevelAt
  <2>2. /\ R[s][p] = [j \in 1 .. Len(r) |-> Entry(b.orders[r[j]])]
        /\ T[s][p] = [j \in 1 .. Len(r) |-> Entry(c.orders[r[j]])]
    BY <1>1, <2>1, RestingAt DEF Shows
  <2>3. r \in Seq(OrderIds(b)) /\ Lists(r, At(b, s, p))
    BY LevelLists
  <2>4. s = t /\ p = l => n \in 1 .. Len(r) /\ r[n] = id
    BY <1>0
  <2>5. \A j \in 1 .. Len(r) : r[j] # id => c.orders[r[j]] = b.orders[r[j]]
    BY <1>1, <2>3
  <2> HIDE DEF r, R, T
  <2>6. CASE s = t /\ p = l
    <3> DEFINE u == R[s][p]
    <3>1. \A j \in 1 .. Len(r) : j # n => r[j] # id
      BY <2>3, <2>4, <2>6 DEF Lists
    <3>2. u = [j \in 1 .. Len(r) |-> Entry(b.orders[r[j]])]
      BY <2>2
    <3> HIDE DEF u
    <3>3. [u EXCEPT ![n].qty = q] = [j \in 1 .. Len(r) |->
             IF j = n THEN [u[n] EXCEPT !.qty = q] ELSE u[j]]
      BY <3>2
    <3>4. u[n] = Entry(b.orders[id])
      BY <2>4, <2>6, <3>2
    <3>5. \A j \in 1 .. Len(r) : Entry(c.orders[r[j]]) = IF j = n THEN [u[n] EXCEPT !.qty = q] ELSE u[j]
      BY <1>5, <2>4, <2>5, <2>6, <3>1, <3>2, <3>4
    <3>6. [u EXCEPT ![n].qty = q] = T[s][p]
      BY <2>2, <3>3, <3>5
    <3> QED BY <2>6, <3>6 DEF u
  <2>7. CASE ~(s = t /\ p = l)
    <3>1. \A j \in 1 .. Len(r) : r[j] # id
      <4>1. id \notin At(b, s, p)
        BY <1>0, <2>7 DEF At
      <4> QED BY <2>3, <4>1 DEF Lists
    <3> QED BY <2>2, <2>5, <2>7, <3>1
  <2> QED BY <2>6, <2>7
<1>3. IsTable(R) /\ IsTable(T)
  BY DEF Resting, IsTable
<1> HIDE DEF R, T, x
<1>4. T = [R EXCEPT ![t][l] = x]
  <2>1. t \in Side /\ l \in Level
    BY <1>0
  <2>2. \A s \in Side, p \in Level : T[s][p] = IF s = t /\ p = l THEN x ELSE R[s][p]
    BY <1>2
  <2> QED BY <1>3, <2>1, <2>2, TableExcept
<1>6. T = [R EXCEPT ![t][l][n].qty = q]
  BY <1>4 DEF x
<1> QED BY <1>6 DEF R, T, c, t, l, n

\* What stands at a place.
LEMMA StandingEntry ==
    ASSUME NEW b, SoundBook(b), NEW id, NEW k, StandsAt(b, id, k)
    PROVE  Mirror!OrderAt(Resting(b), k) = Entry(b.orders[id])
<1>1. k[1] \in Side /\ k[2] \in Level
  BY PlaceExists DEF StandsAt
<1> QED BY <1>1, RestingAt DEF StandsAt, Mirror!OrderAt

\* So a fill is a fill.
LEMMA ReduceRests ==
    ASSUME NEW b, SoundBook(b), NEW id, NEW k, StandsAt(b, id, k), NEW q \in 1 .. b.orders[id].qty
    PROVE  Resting(Reduce(b, id, q)) = Mirror!Reduce(Resting(b), k, q)
<1>1. id \in OrderIds(b) /\ b.orders[id].qty \in 1 .. MaxQuantity
  BY DEF StandsAt, SoundBook, SoundOrders, RestingOrder
<1>2. Mirror!OrderAt(Resting(b), k).qty = b.orders[id].qty
  BY StandingEntry DEF Entry
<1>3. CASE b.orders[id].qty = q
  BY <1>2, <1>3, DiscardRests DEF Reduce, Mirror!Reduce
<1>4. CASE b.orders[id].qty # q
  <2> DEFINE r == b.orders[id].qty - q
  <2>1. r \in 1 .. MaxQuantity
    BY <1>1, <1>4, Ranges
  <2>2. Reduce(b, id, q) = [b EXCEPT !.orders[id].qty = r]
    BY <1>4 DEF Reduce
  <2>3. Mirror!Reduce(Resting(b), k, q) = [Resting(b) EXCEPT ![k[1]][k[2]][k[3]].qty = r]
    BY <1>2, <1>4 DEF Mirror!Reduce
  <2> HIDE DEF r
  <2>4. Resting([b EXCEPT !.orders[id].qty = r]) = [Resting(b) EXCEPT ![k[1]][k[2]][k[3]].qty = r]
    BY <2>1, RequantifyRests
  <2> QED BY <2>2, <2>3, <2>4
<1> QED BY <1>3, <1>4

\* The abstract book has room for the orders of the book.
Fits(b) == Cardinality(OrderIds(b)) <= MaxSteps

\* The ids of the book are ones that so many batches may give.
Known(b) == OrderIds(b) \subseteq 1 .. MaxSteps

\* So many ids fit.
LEMMA KnownFits ==
    ASSUME NEW b, Known(b)
    PROVE  Fits(b)
<1>1. IsFiniteSet(1 .. MaxSteps) /\ Cardinality(1 .. MaxSteps) = MaxSteps
  <2>1. 1 \in Int /\ MaxSteps \in Int /\ 1 <= MaxSteps + 1
    BY StepsAssumption
  <2>2. IsFiniteSet(1 .. MaxSteps)
          /\ Cardinality(1 .. MaxSteps) = IF 1 > MaxSteps THEN 0 ELSE MaxSteps - 1 + 1
    BY <2>1, FS_Interval
  <2> QED BY <2>1, <2>2, StepsAssumption
<1>2. Cardinality(OrderIds(b)) <= Cardinality(1 .. MaxSteps)
  BY <1>1, FS_Subset DEF Known
<1> QED BY <1>1, <1>2 DEF Fits

\* The places of the abstract book are those at which an order stands, each at
\* one.
LEMMA PlacesAre ==
    ASSUME NEW b, SoundBook(b), Fits(b)
    PROVE  /\ \A k : k \in Mirror!Places(Resting(b)) <=> \E i : StandsAt(b, i, k)
           /\ \A i, k, l : StandsAt(b, i, k) /\ StandsAt(b, i, l) => k = l
<1> DEFINE R == Resting(b)
           P == Mirror!Places(R)
<1>1. P = {k \in Side \X Level \X (1 .. MaxSteps) : k[3] \in DOMAIN R[k[1]][k[2]]}
  BY MirrorWords DEF Mirror!Places
<1>2. ASSUME NEW s \in Side, NEW p \in Level
      PROVE  /\ DOMAIN R[s][p] = 1 .. Len(LevelAt(b, s, p))
             /\ Len(LevelAt(b, s, p)) \in 0 .. MaxSteps
             /\ Lists(LevelAt(b, s, p), At(b, s, p))
             /\ \A n \in 1 .. Len(LevelAt(b, s, p)) : LevelAt(b, s, p)[n] \in At(b, s, p)
  <2> DEFINE q == LevelAt(b, s, p)
             A == At(b, s, p)
  <2>1. DOMAIN R[s][p] = 1 .. Len(q)
    <3>1. R[s][p] = Shows(b.orders, q)
      BY RestingAt
    <3> HIDE DEF R, q
    <3> QED BY <3>1 DEF Shows
  <2>2. Lists(q, A) /\ q \in Seq(OrderIds(b)) /\ Len(q) \in Nat
    BY LevelLists
  <2> HIDE DEF q, A
  <2>3. \A n \in 1 .. Len(q) : q[n] \in A
    BY <2>2 DEF Lists
  <2>4. q \in Injection(1 .. Len(q), OrderIds(b))
    <3>1. \A n \in 1 .. Len(q) : q[n] \in OrderIds(b)
      BY <2>2
    <3>2. q = [n \in 1 .. Len(q) |-> q[n]]
      BY <2>2
    <3> QED BY <2>2, <3>1, <3>2 DEF Lists, Injection, IsInjective
  <2>5. IsFiniteSet(OrderIds(b)) /\ Cardinality(OrderIds(b)) \in Nat
          /\ Cardinality(OrderIds(b)) <= MaxSteps
    BY FS_CardinalityType DEF SoundBook, SoundOrders, Fits
  <2>6. Cardinality(1 .. Len(q)) = Len(q)
    <3>1. Cardinality(1 .. Len(q)) = IF 1 > Len(q) THEN 0 ELSE Len(q) - 1 + 1
      BY <2>2, FS_Interval
    <3> QED BY <2>2, <3>1
  <2>7. Cardinality(1 .. Len(q)) <= Cardinality(OrderIds(b))
    BY <2>4, <2>5, FS_Injection
  <2>8. Len(q) \in 0 .. MaxSteps
    BY <2>2, <2>5, <2>6, <2>7, StepsAssumption
  <2> QED BY <2>1, <2>2, <2>3, <2>8 DEF q, A
<1> HIDE DEF P, R
<1>3. ASSUME NEW k \in P PROVE \E i : StandsAt(b, i, k)
  <2>1. k[1] \in Side /\ k[2] \in Level /\ k = <<k[1], k[2], k[3]>>
          /\ k[3] \in 1 .. Len(LevelAt(b, k[1], k[2]))
    BY <1>1, <1>2
  <2> DEFINE i == LevelAt(b, k[1], k[2])[k[3]]
  <2>2. i \in At(b, k[1], k[2])
    BY <1>2, <2>1
  <2>3. i \in OrderIds(b) /\ b.orders[i].side = k[1] /\ b.orders[i].price = k[2]
    <3> HIDE DEF i
    <3> QED BY <2>2 DEF At
  <2>4. StandsAt(b, i, k)
    BY <2>1, <2>3 DEF StandsAt
  <2> QED BY <2>4
<1>4. ASSUME NEW k, NEW i, StandsAt(b, i, k) PROVE k \in P
  <2>1. k[1] \in Side /\ k[2] \in Level
    BY <1>4, PlaceExists DEF StandsAt
  <2>2. k[3] \in DOMAIN R[k[1]][k[2]] /\ k = <<k[1], k[2], k[3]>>
    BY <1>2, <1>4, <2>1 DEF StandsAt
  <2>3. k[3] \in 1 .. MaxSteps
    BY <1>2, <1>4, <2>1, StepsAssumption DEF StandsAt
  <2> QED BY <1>1, <2>1, <2>2, <2>3
<1>5. ASSUME NEW i, NEW k, NEW l, StandsAt(b, i, k), StandsAt(b, i, l) PROVE k = l
  <2> DEFINE q == LevelAt(b, k[1], k[2])
  <2>1. k[1] \in Side /\ k[2] \in Level /\ k[1] = l[1] /\ k[2] = l[2]
    BY <1>5, PlaceExists DEF StandsAt
  <2>2. k[3] \in 1 .. Len(q) /\ l[3] \in 1 .. Len(q) /\ q[k[3]] = q[l[3]]
    BY <1>5, <2>1 DEF StandsAt
  <2>3. Lists(q, At(b, k[1], k[2]))
    BY <1>2, <2>1
  <2> HIDE DEF q
  <2>4. k[3] = l[3]
    BY <2>2, <2>3, ListsOnce
  <2> QED BY <1>5, <2>1, <2>4 DEF StandsAt
<1> QED BY <1>3, <1>4, <1>5 DEF P, R

\* The abstract book holds the orders of the book, as many and with what is left
\* of them.
LEMMA RestingHolds ==
    ASSUME NEW b, SoundBook(b), Fits(b)
    PROVE  /\ Mirror!Live(Resting(b)) = OrderIds(b)
           /\ \A i \in OrderIds(b) : StandsAt(b, i, Mirror!PlaceOf(Resting(b), i))
           /\ \A i : Mirror!Remaining(Resting(b), i) =
                       IF i \in OrderIds(b) THEN b.orders[i].qty ELSE 0
           /\ Mirror!Cardinality(Mirror!Places(Resting(b))) = Cardinality(OrderIds(b))
<1> DEFINE R == Resting(b)
           P == Mirror!Places(R)
<1>1. /\ \A k \in P : \E i : StandsAt(b, i, k)
      /\ \A i, k : StandsAt(b, i, k) => k \in P
      /\ \A i, k, l : StandsAt(b, i, k) /\ StandsAt(b, i, l) => k = l
  BY PlacesAre
<1>2. \A i, k : StandsAt(b, i, k) =>
        /\ Mirror!OrderAt(R, k).id = i /\ Mirror!OrderAt(R, k).qty = b.orders[i].qty
        /\ i \in OrderIds(b)
  <2> SUFFICES ASSUME NEW i, NEW k, StandsAt(b, i, k)
               PROVE  /\ Mirror!OrderAt(R, k).id = i /\ Mirror!OrderAt(R, k).qty = b.orders[i].qty
                      /\ i \in OrderIds(b)
    OBVIOUS
  <2>1. i \in OrderIds(b)
    BY DEF StandsAt
  <2> QED BY <2>1, StandingEntry, PlaceExists DEF Entry
<1>3. \A i \in OrderIds(b) : \E k : StandsAt(b, i, k)
  BY PlaceExists
<1> HIDE DEF P, R
<1>4. Mirror!Live(R) = OrderIds(b)
  <2>1. Mirror!Live(R) = {Mirror!OrderAt(R, k).id : k \in P}
    BY DEF Mirror!Live, P
  <2> QED BY <1>1, <1>2, <1>3, <2>1
<1>5. ASSUME NEW i \in OrderIds(b) PROVE StandsAt(b, i, Mirror!PlaceOf(R, i))
  <2>1. PICK k \in P : StandsAt(b, i, k)
    BY <1>1, <1>3
  <2>2. \E l \in P : Mirror!OrderAt(R, l).id = i
    BY <1>2, <2>1
  <2>3. Mirror!PlaceOf(R, i) \in P /\ Mirror!OrderAt(R, Mirror!PlaceOf(R, i)).id = i
    BY <2>2 DEF Mirror!PlaceOf, P
  <2> QED BY <1>1, <1>2, <2>3
<1>6. \A i : Mirror!Remaining(R, i) = IF i \in OrderIds(b) THEN b.orders[i].qty ELSE 0
  BY <1>2, <1>4, <1>5 DEF Mirror!Remaining
<1>7. Cardinality(P) = Cardinality(OrderIds(b))
  <2> DEFINE f == [k \in P |-> Mirror!OrderAt(R, k).id]
  <2>1. \A k \in P : StandsAt(b, f[k], k)
    BY <1>1, <1>2
  <2>2. f \in [P -> OrderIds(b)]
    BY <1>1, <1>2
  <2>3. \A i \in OrderIds(b) : \E k \in P : f[k] = i
    BY <1>1, <1>2, <1>3
  <2> HIDE DEF f
  <2>4. f \in Injection(P, OrderIds(b)) /\ f \in Surjection(P, OrderIds(b))
    BY <1>1, <2>1, <2>2, <2>3 DEF Injection, IsInjective, Surjection
  <2>5. IsFiniteSet(OrderIds(b))
    BY DEF SoundBook, SoundOrders
  <2> QED BY <2>4, <2>5, FS_Injection
<1> QED BY <1>4, <1>5, <1>6, <1>7, MirrorWords DEF P, R

-----------------------------------------------------------------------------
(* A turn of match_orders is a round of the abstract book.                   *)

\* Both books hold orders at the same prices, and agree on the best.
LEMMA PricesAre ==
    ASSUME NEW b, SoundBook(b), NEW s \in Side
    PROVE  /\ Mirror!Prices(Resting(b), s) = DOMAIN b.levels[s]
           /\ Mirror!Shown(Resting(b), s) = BestPrice(b, s)
           /\ DOMAIN b.levels[s] # {} => Mirror!Best(Resting(b), s) = BestPrice(b, s)
<1> DEFINE R == Resting(b)
           D == DOMAIN b.levels[s]
<1>1. ASSUME NEW p \in Level PROVE R[s][p] # <<>> <=> p \in D
  <2> DEFINE q == LevelAt(b, s, p)
             r == R[s][p]
  <2>1. q \in Seq(OrderIds(b)) /\ (q = <<>> <=> p \notin D)
    BY LevelLists
  <2>2. r \in Seq([id : Nat, qty : 1 .. MaxQuantity, ts : Nat]) /\ Len(r) = Len(q)
    BY RestingAt
  <2> HIDE DEF q, r, D
  <2> QED BY <2>1, <2>2, EmptySeq DEF r
<1>2. D \subseteq Level
  <2>1. \A p \in D : p \in PriceMin .. PriceMax
    BY LevelsHold
  <2> QED BY <2>1, RangeAssumption, NumLevelsAssumption DEF Level
<1> HIDE DEF R, D
<1>3. Mirror!Prices(R, s) = D
  BY <1>1, <1>2, MirrorWords DEF Mirror!Prices
<1>4. Mirror!Best(R, s) = CHOOSE p \in D : \A q \in D : ~Better(s, q, p)
  BY <1>3, MirrorWords DEF Mirror!Best
<1>5. BestPrice(b, s) = IF D = {} THEN 0 ELSE CHOOSE p \in D : \A q \in D : ~Better(s, q, p)
  BY BestPriceIs DEF ListedBest, Best, NoPrice, D
<1>6. Mirror!Shown(R, s) = IF D = {} THEN 0 ELSE Mirror!Best(R, s)
  BY <1>3 DEF Mirror!Shown
<1> QED BY <1>3, <1>4, <1>5, <1>6 DEF R, D

\* They are crossed at the same time.
LEMMA CrossedAlike ==
    ASSUME NEW b, SoundBook(b)
    PROVE  Mirror!Crossed(Resting(b)) <=> Crossed(b)
<1> DEFINE B   == DOMAIN b.levels["BUY"]
           S   == DOMAIN b.levels["SELL"]
           bid == BestPrice(b, "BUY")
           ask == BestPrice(b, "SELL")
<1>1. "BUY" \in Side /\ "SELL" \in Side
  BY DEF Side
<1>2. Mirror!Crossed(Resting(b)) <=> \E l \in B, n \in S : l >= n
  BY <1>1, PricesAre DEF Mirror!Crossed
<1>3. B \subseteq PriceMin .. PriceMax /\ S \subseteq PriceMin .. PriceMax
  BY <1>1, LevelsHold
<1>4. /\ B = {} => bid = NoPrice
      /\ B # {} => bid \in B /\ bid # NoPrice /\ \A p \in B : ~Better("BUY", p, bid)
      /\ S = {} => ask = NoPrice
      /\ S # {} => ask \in S /\ ask # NoPrice /\ \A p \in S : ~Better("SELL", p, ask)
  BY <1>1, BestPriceIs
<1>5. Crossed(b) <=> bid # NoPrice /\ ask # NoPrice /\ bid >= ask
  BY DEF Crossed
<1> HIDE DEF B, S, bid, ask
<1>6. ASSUME NEW l \in B, NEW n \in S, l >= n PROVE bid >= ask
  <2>1. bid \in Nat /\ ask \in Nat /\ l \in Nat /\ n \in Nat
    BY <1>3, <1>4, <1>6, Ranges
  <2>2. ~(l > bid) /\ ~(n < ask)
    BY <1>4 DEF Better
  <2> QED BY <1>6, <2>1, <2>2
<1>7. (\E l \in B, n \in S : l >= n) <=> bid # NoPrice /\ ask # NoPrice /\ bid >= ask
  BY <1>4, <1>6
<1> QED BY <1>2, <1>5, <1>7

\* What the abstract book makes of a state of match_orders.
AsShown(m) == [book |-> Resting(m.book), trades |-> m.trades]

\* A head stands at the first place.
LEMMA HeadStands ==
    ASSUME NEW b, SoundBook(b), NEW s \in Side, NEW p \in DOMAIN b.levels[s]
    PROVE  StandsAt(b, Head(b.levels[s][p]), <<s, p, 1>>)
<1> DEFINE q == b.levels[s][p]
<1>1. q = LevelAt(b, s, p)
  BY DEF LevelAt
<1>2. q \in Seq(OrderIds(b)) /\ q # <<>> /\ Head(q) \in At(b, s, p)
  BY <1>1, LevelLists, LevelsHold
<1> HIDE DEF q
<1>3. 1 \in 1 .. Len(q) /\ Head(q) = q[1]
  BY <1>2
<1> QED BY <1>1, <1>2, <1>3 DEF StandsAt, At, q

\* A fill of the bid leaves the ask at the head of its level.
LEMMA OtherHeadStays ==
    ASSUME NEW b, SoundBook(b), NEW bp \in DOMAIN b.levels["BUY"], NEW ap \in DOMAIN b.levels["SELL"],
           NEW q \in 1 .. b.orders[Head(b.levels["BUY"][bp])].qty
    PROVE  StandsAt(Reduce(b, Head(b.levels["BUY"][bp]), q), Head(b.levels["SELL"][ap]), <<"SELL", ap, 1>>)
<1> DEFINE bi == Head(b.levels["BUY"][bp])
           ai == Head(b.levels["SELL"][ap])
           c  == Reduce(b, bi, q)
<1>1. "BUY" \in Side /\ "SELL" \in Side /\ "BUY" # "SELL"
  BY DEF Side
<1>2. bi \in At(b, "BUY", bp) /\ ai \in At(b, "SELL", ap)
  BY <1>1, LevelsHold
<1>3. StandsAt(b, ai, <<"SELL", ap, 1>>)
  BY <1>1, HeadStands
<1> HIDE DEF bi, ai
<1>4. bi \in OrderIds(b) /\ ai \in OrderIds(b) /\ b.orders[bi].side = "BUY" /\ ai # bi
      /\ q \in 1 .. b.orders[bi].qty
  BY <1>1, <1>2 DEF At, bi
<1>5. ai \in OrderIds(c) /\ c.orders[ai] = b.orders[ai]
  BY <1>4, ReduceSound
<1>6. LevelAt(c, "SELL", ap) = LevelAt(b, "SELL", ap)
  <2>1. CASE b.orders[bi].qty = q
    BY <1>1, <1>4, <2>1, DiscardLevelAt DEF Reduce
  <2>2. CASE b.orders[bi].qty # q
    <3>1. b = [orders |-> b.orders, levels |-> b.levels, heap |-> b.heap]
      BY DEF SoundBook
    <3> DEFINE os == [b.orders EXCEPT ![bi].qty = @ - q]
    <3>2. c = [b EXCEPT !.orders = os]
      BY <2>2 DEF Reduce
    <3> HIDE DEF os, c
    <3>3. c.levels = b.levels
      BY <3>1, <3>2
    <3> QED BY <3>3 DEF LevelAt
  <2> QED BY <2>1, <2>2
<1> HIDE DEF c
<1> QED BY <1>3, <1>5, <1>6 DEF StandsAt, c, bi, ai

\* One trade of match_orders is one trade of the abstract book.
LEMMA TradeRests ==
    ASSUME NEW b, NEW m, Halfway(m, b), Crossed(m.book)
    PROVE  Mirror!TradeOnce(AsShown(m)) = AsShown(TradeHeads(m))
<1> DEFINE k   == m.book
           R   == Resting(k)
           bp  == BestPrice(k, "BUY")
           ap  == BestPrice(k, "SELL")
           bi  == Head(k.levels["BUY"][bp])
           ai  == Head(k.levels["SELL"][ap])
           bid == k.orders[bi]
           ask == k.orders[ai]
           r   == TradeHeads(m)
<1>1. /\ bp \in DOMAIN k.levels["BUY"] /\ ap \in DOMAIN k.levels["SELL"]
      /\ bi \in At(k, "BUY", bp) /\ ai \in At(k, "SELL", ap) /\ bi # ai
      /\ \E q, px, ts :
           /\ q \in 1 .. k.orders[bi].qty /\ q \in 1 .. k.orders[ai].qty
           /\ q = k.orders[bi].qty \/ q = k.orders[ai].qty
           /\ px = IF k.orders[bi].ts <= k.orders[ai].ts THEN bp ELSE ap
           /\ ts = IF k.orders[bi].ts >= k.orders[ai].ts THEN k.orders[bi].ts
                                                          ELSE k.orders[ai].ts
           /\ SoundBook(Reduce(k, bi, q))
           /\ ai \in OrderIds(Reduce(k, bi, q))
           /\ Reduce(k, bi, q).orders[ai] = k.orders[ai]
           /\ r = [book |-> Reduce(Reduce(k, bi, q), ai, q),
                   trades |-> Append(m.trades, Trade(bi, ai, px, q, ts)), err |-> m.err]
  BY TradeHeadsIs
<1>2. SoundBook(k) /\ "BUY" \in Side /\ "SELL" \in Side
  BY DEF Halfway, Side
<1>3. Mirror!Best(R, "BUY") = bp /\ Mirror!Best(R, "SELL") = ap
  BY <1>1, <1>2, PricesAre
<1>4. StandsAt(k, bi, <<"BUY", bp, 1>>) /\ StandsAt(k, ai, <<"SELL", ap, 1>>)
  BY <1>1, <1>2, HeadStands
<1>5. PICK q, px, ts :
        /\ q \in 1 .. bid.qty /\ q \in 1 .. ask.qty
        /\ q = bid.qty \/ q = ask.qty
        /\ px = IF bid.ts <= ask.ts THEN bp ELSE ap
        /\ ts = IF bid.ts >= ask.ts THEN bid.ts ELSE ask.ts
        /\ SoundBook(Reduce(k, bi, q))
        /\ Reduce(k, bi, q).orders[ai] = ask
        /\ r = [book |-> Reduce(Reduce(k, bi, q), ai, q),
                trades |-> Append(m.trades, Trade(bi, ai, px, q, ts)), err |-> m.err]
  BY <1>1
<1>6. StandsAt(Reduce(k, bi, q), ai, <<"SELL", ap, 1>>)
  BY <1>1, <1>2, <1>5, OtherHeadStays
<1>7. bid \in RestingOrder /\ ask \in RestingOrder /\ bid.id = bi /\ ask.id = ai
  <2>1. bi \in OrderIds(k) /\ ai \in OrderIds(k)
    BY <1>4 DEF StandsAt
  <2> HIDE DEF bi, ai, k
  <2>2. \A i \in OrderIds(k) : k.orders[i] \in RestingOrder /\ k.orders[i].id = i
    BY <1>2, PlaceExists
  <2> QED BY <2>1, <2>2
<1>8. Mirror!OrderAt(R, <<"BUY", bp, 1>>) = Entry(bid)
      /\ Mirror!OrderAt(R, <<"SELL", ap, 1>>) = Entry(ask)
  BY <1>2, <1>4, StandingEntry
<1>9. Resting(Reduce(k, bi, q)) = Mirror!Reduce(R, <<"BUY", bp, 1>>, q)
  BY <1>2, <1>4, <1>5, ReduceRests
<1> DEFINE one == Reduce(k, bi, q)
<1>10. Resting(Reduce(one, ai, q)) = Mirror!Reduce(Resting(one), <<"SELL", ap, 1>>, q)
  <2>1. SoundBook(one) /\ StandsAt(one, ai, <<"SELL", ap, 1>>) /\ q \in 1 .. one.orders[ai].qty
    BY <1>5, <1>6
  <2> HIDE DEF one, ai, ap
  <2> QED BY <2>1, ReduceRests
<1>11. r.book = Reduce(one, ai, q) /\ r.trades = Append(m.trades, Trade(bi, ai, px, q, ts))
  <2> DEFINE x == Reduce(one, ai, q)
             y == Append(m.trades, Trade(bi, ai, px, q, ts))
  <2>1. r = [book |-> x, trades |-> y, err |-> m.err]
    BY <1>5
  <2> HIDE DEF x, y, r
  <2>2. r.book = x /\ r.trades = y
    BY <2>1
  <2> QED BY <2>2 DEF x, y
<1>12. AsShown(m).book = R /\ AsShown(m).trades = m.trades
  BY DEF AsShown
<1> HIDE DEF R, bp, ap, bi, ai, bid, ask, r, k, one
<1>13. q = IF bid.qty < ask.qty THEN bid.qty ELSE ask.qty
  <2>1. bid.qty \in Nat /\ ask.qty \in Nat
    BY <1>7, Ranges DEF RestingOrder
  <2> QED BY <1>5, <2>1
<1>14. Entry(bid) = [id |-> bi, qty |-> bid.qty, ts |-> bid.ts]
       /\ Entry(ask) = [id |-> ai, qty |-> ask.qty, ts |-> ask.ts]
  BY <1>7 DEF Entry
<1>15. Mirror!TradeOnce(AsShown(m)) =
         [book |-> Mirror!Reduce(Mirror!Reduce(R, <<"BUY", bp, 1>>, q), <<"SELL", ap, 1>>, q),
          trades |-> Append(m.trades, [buy |-> bi, sell |-> ai, price |-> px, qty |-> q, ts |-> ts])]
  <2> DEFINE M  == AsShown(m)
             at(s) == <<s, Mirror!Best(M.book, s), 1>>
             x  == Mirror!OrderAt(M.book, at("BUY"))
             y  == Mirror!OrderAt(M.book, at("SELL"))
             z  == IF x.qty < y.qty THEN x.qty ELSE y.qty
             older == IF x.ts <= y.ts THEN "BUY" ELSE "SELL"
             last  == IF x.ts >= y.ts THEN x.ts ELSE y.ts
  <2>1. x = Entry(bid) /\ y = Entry(ask) /\ at("BUY") = <<"BUY", bp, 1>> /\ at("SELL") = <<"SELL", ap, 1>>
    BY <1>3, <1>8, <1>12
  <2>2. Mirror!TradeOnce(M) =
          [book |-> Mirror!Reduce(Mirror!Reduce(M.book, at("BUY"), z), at("SELL"), z),
           trades |-> Append(M.trades, [buy |-> x.id, sell |-> y.id,
                         price |-> Mirror!Best(M.book, older), qty |-> z, ts |-> last])]
    BY DEF Mirror!TradeOnce
  <2>3. M.book = R /\ M.trades = m.trades
    BY <1>12
  <2> HIDE DEF M, at, x, y
  <2>4. x.id = bi /\ y.id = ai /\ z = q /\ last = ts
    BY <1>5, <1>13, <1>14, <2>1
  <2>5. Mirror!Best(M.book, older) = px
    BY <1>3, <1>5, <1>14, <2>1, <2>3
  <2> HIDE DEF z, last, older
  <2>6. Mirror!TradeOnce(M) =
         [book |-> Mirror!Reduce(Mirror!Reduce(R, <<"BUY", bp, 1>>, q), <<"SELL", ap, 1>>, q),
          trades |-> Append(m.trades, [buy |-> bi, sell |-> ai, price |-> px, qty |-> q, ts |-> ts])]
    BY <2>1, <2>2, <2>3, <2>4, <2>5
  <2> QED BY <2>6 DEF M
<1>16. AsShown(r) = [book |-> Resting(Reduce(one, ai, q)),
                     trades |-> Append(m.trades, Trade(bi, ai, px, q, ts))]
  BY <1>11 DEF AsShown
<1>17. Resting(Reduce(one, ai, q)) = Mirror!Reduce(Mirror!Reduce(R, <<"BUY", bp, 1>>, q), <<"SELL", ap, 1>>, q)
  BY <1>9, <1>10 DEF one
<1> QED BY <1>15, <1>16, <1>17 DEF Trade, r

\* What is shown of a book is in its orders and its levels.
LEMMA SameResting ==
    ASSUME NEW b, NEW c, c.orders = b.orders, c.levels = b.levels
    PROVE  Resting(c) = Resting(b)
<1>1. \A s, p : Queue(c, s, p) = Queue(b, s, p)
  BY DEF Queue
<1> QED BY <1>1 DEF Resting

\* A turn is a round.
LEMMA RoundRests ==
    ASSUME NEW b, NEW m, Halfway(m, b)
    PROVE  Mirror!Round(AsShown(m)) = AsShown(Turn(m))
<1>1. PICK seen :
        /\ Halfway(seen, b)
        /\ seen.book.orders = m.book.orders /\ seen.book.levels = m.book.levels
        /\ seen.trades = m.trades
        /\ Crossed(seen.book) <=> Crossed(m.book)
        /\ Turn(m) = IF Crossed(m.book) THEN TradeHeads(seen) ELSE seen
  BY TurnIs
<1>2. AsShown(seen) = AsShown(m)
  BY <1>1, SameResting DEF AsShown
<1>3. Mirror!Crossed(AsShown(m).book) <=> Crossed(m.book)
  <2>1. AsShown(m).book = Resting(m.book) /\ SoundBook(m.book)
    BY DEF AsShown, Halfway
  <2> QED BY <2>1, CrossedAlike
<1>4. Crossed(m.book) => Mirror!TradeOnce(AsShown(m)) = AsShown(TradeHeads(seen))
  BY <1>1, <1>2, TradeRests
<1> QED BY <1>1, <1>2, <1>3, <1>4 DEF Mirror!Round

\* match_orders is Match.
LEMMA MatchRests ==
    ASSUME NEW b, SoundBook(b), Fits(b)
    PROVE  Mirror!Match(Resting(b)) = AsShown(MatchOrders(b))
<1>1. PICK after, card :
        /\ card = Cardinality(OrderIds(b)) /\ card \in Nat
        /\ after[0].book = b /\ after[0].trades = <<>>
        /\ \A n \in 0 .. card + 1 : Halfway(after[n], b)
        /\ \A n \in 1 .. card + 1 : after[n] = Turn(after[n - 1])
        /\ ~Crossed(after[card].book)
        /\ MatchOrders(b) = after[card + 1]
  BY MatchEnds
<1> DEFINE start   == [book |-> Resting(b), trades |-> <<>>]
           body(f) == [n \in 0 .. card |-> IF n = 0 THEN start ELSE Mirror!Round(f[n - 1])]
           rounds  == CHOOSE f : f = body(f)
           shows   == [n \in 0 .. card |-> AsShown(after[n])]
<1>2. Mirror!Match(Resting(b)) = rounds[card]
  <2>1. Mirror!Cardinality(Mirror!Places(Resting(b))) = card
    BY <1>1, RestingHolds
  <2> QED BY <2>1 DEF Mirror!Match
<1>3. AsShown(after[0]) = start
  BY <1>1 DEF AsShown
<1>4. \A n \in 1 .. card : AsShown(after[n]) = Mirror!Round(AsShown(after[n - 1]))
  <2> SUFFICES ASSUME NEW n \in 1 .. card
               PROVE  AsShown(after[n]) = Mirror!Round(AsShown(after[n - 1]))
    OBVIOUS
  <2>1. n \in 1 .. card + 1 /\ n - 1 \in 0 .. card + 1
    BY <1>1
  <2>2. after[n] = Turn(after[n - 1]) /\ Halfway(after[n - 1], b)
    BY <1>1, <2>1
  <2> QED BY <2>2, RoundRests
<1> HIDE DEF start
<1>5. shows = body(shows)
  <2>1. ASSUME NEW n \in 0 .. card
        PROVE  shows[n] = IF n = 0 THEN start ELSE Mirror!Round(shows[n - 1])
    <3>1. CASE n = 0
      BY <1>3, <3>1
    <3>2. CASE n # 0
      <4>1. n \in 1 .. card /\ n - 1 \in 0 .. card
        BY <1>1, <3>2
      <4>2. shows[n] = AsShown(after[n]) /\ shows[n - 1] = AsShown(after[n - 1])
        BY <4>1
      <4> HIDE DEF shows
      <4> QED BY <1>4, <3>2, <4>1, <4>2
    <3> QED BY <3>1, <3>2
  <2>2. shows = [n \in 0 .. card |-> shows[n]]
    OBVIOUS
  <2> HIDE DEF shows
  <2> QED BY <2>1, <2>2
<1>6. rounds = body(rounds)
  <2>1. \E f : f = body(f)
    BY <1>5
  <2> QED BY <2>1
<1>7. /\ rounds[0] = start
      /\ \A n \in 1 .. card : rounds[n] = Mirror!Round(rounds[n - 1])
  <2> HIDE DEF rounds
  <2>1. 0 \in 0 .. card /\ \A n \in 1 .. card : n \in 0 .. card /\ n # 0
    BY <1>1
  <2> QED BY <1>6, <2>1
<1> HIDE DEF rounds
<1> DEFINE Bad == {n \in 0 .. card : rounds[n] # AsShown(after[n])}
<1>8. Bad = {}
  <2> SUFFICES ASSUME Bad # {} PROVE FALSE
    OBVIOUS
  <2>1. Bad \subseteq Nat
    BY <1>1
  <2>2. PICK j \in Bad : \A n \in Bad : j <= n
    <3> HIDE DEF Bad
    <3> QED BY <2>1, LeastOf
  <2>3. j \in 1 .. card /\ j - 1 \in 0 .. card /\ ~(j <= j - 1)
    BY <1>1, <1>3, <1>7, <2>2
  <2>4. rounds[j - 1] = AsShown(after[j - 1])
    BY <2>2, <2>3
  <2> QED BY <1>4, <1>7, <2>2, <2>3, <2>4
<1>9. rounds[card] = AsShown(after[card])
  BY <1>1, <1>8
<1>10. AsShown(after[card + 1]) = AsShown(after[card])
  <2>1. card + 1 \in 1 .. card + 1 /\ (card + 1) - 1 = card /\ card \in 0 .. card + 1
    BY <1>1
  <2>2. after[card + 1] = Turn(after[card]) /\ Halfway(after[card], b)
    BY <1>1, <2>1
  <2>3. PICK seen :
          /\ seen.book.orders = after[card].book.orders
          /\ seen.book.levels = after[card].book.levels
          /\ seen.trades = after[card].trades
          /\ Turn(after[card]) = IF Crossed(after[card].book) THEN TradeHeads(seen) ELSE seen
    BY <2>2, TurnIs
  <2>4. after[card + 1] = seen
    BY <1>1, <2>2, <2>3
  <2> QED BY <2>3, <2>4, SameResting DEF AsShown
<1> QED BY <1>1, <1>2, <1>9, <1>10

-----------------------------------------------------------------------------
(* The methods of the Python book are the commands of the abstract one.      *)

\* add_order.
LEMMA AddRests ==
    ASSUME NEW b, SoundBook(b), Fits(b), NEW o \in RestingOrder,
           o.id \notin OrderIds(b), Cardinality(OrderIds(b)) < MaxSteps
    PROVE  Mirror!Match(Mirror!Insert(Resting(b), o.side, o.price, Entry(o)))
             = AsShown(AddOrder(b, o))
<1> DEFINE c == Insert(b, o)
<1>1. ~(o.price <= 0) /\ ~(o.qty <= 0)
  BY Ranges DEF RestingOrder
<1>2. AddOrder(b, o) = MatchOrders(c)
  BY <1>1 DEF AddOrder
<1>3. SoundBook(c) /\ Fits(c)
  <2>1. SoundBook(c) /\ OrderIds(c) = OrderIds(b) \union {o.id}
    BY InsertSound
  <2> HIDE DEF c
  <2>2. Cardinality(OrderIds(b) \union {o.id}) = Cardinality(OrderIds(b)) + 1
          /\ Cardinality(OrderIds(b)) \in Nat
    BY FS_AddElement, FS_CardinalityType DEF SoundBook, SoundOrders
  <2> QED BY <2>1, <2>2, StepsAssumption DEF Fits
<1>4. Resting(c) = Mirror!Insert(Resting(b), o.side, o.price, Entry(o))
  BY InsertRests
<1> HIDE DEF c
<1> QED BY <1>2, <1>3, <1>4, MatchRests

\* cancel_order.
LEMMA CancelRests ==
    ASSUME NEW b, SoundBook(b), Fits(b), NEW id \in OrderIds(b)
    PROVE  LET r == CancelOrder(b, id)
           IN  /\ Resting(r.book) = Mirror!Without(Resting(b), Mirror!PlaceOf(Resting(b), id))
               /\ r.trades = <<>>
               /\ id \notin OrderIds(r.book)
<1> DEFINE c == Discard(b, id)
           r == CancelOrder(b, id)
<1>1. r.book = c /\ r.trades = <<>>
  <2>1. r = [book |-> c, trades |-> <<>>, err |-> ""]
    BY DEF CancelOrder, Done
  <2> HIDE DEF c, r
  <2> QED BY <2>1
<1>2. id \notin OrderIds(c)
  BY DiscardSound
<1>3. StandsAt(b, id, Mirror!PlaceOf(Resting(b), id))
  BY RestingHolds
<1>4. Resting(c) = Mirror!Without(Resting(b), Mirror!PlaceOf(Resting(b), id))
  BY <1>3, DiscardRests
<1> HIDE DEF c, r
<1>5. /\ Resting(r.book) = Mirror!Without(Resting(b), Mirror!PlaceOf(Resting(b), id))
      /\ r.trades = <<>>
      /\ id \notin OrderIds(r.book)
  BY <1>1, <1>2, <1>4
<1> QED BY <1>5 DEF r

\* The levels rs with quantity q for the order at place k.
WithQty(rs, k, q) == [rs EXCEPT ![k[1]][k[2]][k[3]].qty = q]

\* The result r leaves order id of the book b its place, with quantity q.
Requantified(b, id, q, r) ==
    /\ Resting(r.book) = WithQty(Resting(b), Mirror!PlaceOf(Resting(b), id), q)
    /\ r.trades = <<>>
    /\ id \in OrderIds(r.book) /\ r.book.orders[id].qty = q

\* modify_order with the price the order has.
LEMMA ModifyQtyRests ==
    ASSUME NEW b, SoundBook(b), Fits(b), NEW id \in OrderIds(b), NEW q \in 1 .. MaxQuantity, NEW ts
    PROVE  Requantified(b, id, q, ModifyOrder(b, id, q, b.orders[id].price, ts))
<1> DEFINE p == b.orders[id].price
           c == [b EXCEPT !.orders[id].qty = q]
           r == ModifyOrder(b, id, q, p, ts)
           k == Mirror!PlaceOf(Resting(b), id)
<1>1. b.orders[id] \in RestingOrder
  BY DEF SoundBook, SoundOrders
<1>2. ~(q <= 0 \/ p <= 0)
  BY <1>1, Ranges DEF RestingOrder
<1>3. r.book = c /\ r.trades = <<>>
  <2>1. r = [book |-> c, trades |-> <<>>, err |-> ""]
    BY <1>2 DEF ModifyOrder, Done
  <2> HIDE DEF c, r
  <2> QED BY <2>1
<1>4. id \in OrderIds(c) /\ c.orders[id] = [b.orders[id] EXCEPT !.qty = q]
  BY RequantifySound
<1>5. StandsAt(b, id, k)
  BY RestingHolds
<1>6. Resting(c) = WithQty(Resting(b), k, q)
  <2> HIDE DEF k
  <2>1. Resting(c) = [Resting(b) EXCEPT ![k[1]][k[2]][k[3]].qty = q]
    BY <1>5, RequantifyRests
  <2> HIDE DEF c
  <2> QED BY <2>1 DEF WithQty
<1> HIDE DEF c, r
<1>7. c.orders[id].qty = q
  BY <1>1, <1>4 DEF RestingOrder
<1>8. Requantified(b, id, q, r)
  BY <1>3, <1>4, <1>6, <1>7 DEF Requantified
<1> QED BY <1>8 DEF r

\* modify_order with another price.
LEMMA ModifyPriceRests ==
    ASSUME NEW b, SoundBook(b), Fits(b), NEW id \in OrderIds(b), NEW q \in 1 .. MaxQuantity,
           NEW p \in PriceMin .. PriceMax, p # b.orders[id].price, NEW ts \in Nat
    PROVE  LET k == Mirror!PlaceOf(Resting(b), id)
           IN  Mirror!Match(Mirror!Insert(Mirror!Without(Resting(b), k), k[1], p,
                                          [id |-> id, qty |-> q, ts |-> ts]))
                 = AsShown(ModifyOrder(b, id, q, p, ts))
<1> DEFINE o == Order(id, b.orders[id].side, p, q, ts)
           d == Discard(b, id)
           c == Insert(d, o)
           k == Mirror!PlaceOf(Resting(b), id)
           s == b.orders[id].side
<1>1. b.orders[id] \in RestingOrder /\ b.orders[id].id = id
  BY DEF SoundBook, SoundOrders
<1>2. ~(q <= 0 \/ p <= 0)
  BY Ranges
<1>3. ModifyOrder(b, id, q, p, ts) = MatchOrders(c)
  BY <1>2 DEF ModifyOrder
<1>4. o \in RestingOrder /\ o.id = id /\ o.side = s /\ o.price = p
      /\ Entry(o) = [id |-> id, qty |-> q, ts |-> ts]
  BY <1>1 DEF Order, RestingOrder, Entry
<1>5. SoundBook(d) /\ OrderIds(d) = OrderIds(b) \ {id}
  BY DiscardSound
<1>6. StandsAt(b, id, k) /\ k[1] = s
  BY RestingHolds DEF StandsAt
<1>7. Resting(d) = Mirror!Without(Resting(b), k)
  <2> HIDE DEF k
  <2> QED BY <1>6, DiscardRests
<1> HIDE DEF o, d, k, s
<1>8. SoundBook(c) /\ OrderIds(c) = OrderIds(d) \union {id}
  BY <1>4, <1>5, InsertSound
<1>9. Resting(c) = Mirror!Insert(Resting(d), s, p, Entry(o))
  BY <1>4, <1>5, InsertRests
<1> HIDE DEF c
<1>10. Fits(c)
  <2>1. IsFiniteSet(OrderIds(b)) /\ Cardinality(OrderIds(b)) <= MaxSteps
    BY DEF SoundBook, SoundOrders, Fits
  <2>2. OrderIds(c) = OrderIds(b)
    BY <1>5, <1>8
  <2> QED BY <2>1, <2>2 DEF Fits
<1>11. Mirror!Match(Resting(c)) = AsShown(MatchOrders(c))
  BY <1>8, <1>10, MatchRests
<1> QED BY <1>3, <1>4, <1>6, <1>7, <1>9, <1>11 DEF k

\* execute_order.
LEMMA ExecuteRests ==
    ASSUME NEW b, SoundBook(b), Fits(b), NEW id \in OrderIds(b),
           NEW q \in 1 .. b.orders[id].qty, NEW ts
    PROVE  LET r == ExecuteOrder(b, id, q, ts)
               o == b.orders[id]
               k == Mirror!PlaceOf(Resting(b), id)
           IN  /\ Resting(r.book) = Mirror!Reduce(Resting(b), k, q)
               /\ r.trades = <<[buy  |-> IF k[1] = "BUY" THEN id ELSE NoId,
                                sell |-> IF k[1] = "SELL" THEN id ELSE NoId,
                                price |-> k[2], qty |-> q, ts |-> ts]>>
               /\ Mirror!OrderAt(Resting(b), k).qty = o.qty
               /\ (IF id \in OrderIds(r.book) THEN r.book.orders[id].qty ELSE 0) = o.qty - q
<1> DEFINE o == b.orders[id]
           c == Reduce(b, id, q)
           r == ExecuteOrder(b, id, q, ts)
           k == Mirror!PlaceOf(Resting(b), id)
           t == <<Trade(IF o.side = "BUY" THEN id ELSE NoId,
                        IF o.side = "SELL" THEN id ELSE NoId, o.price, q, ts)>>
<1>1. o \in RestingOrder /\ o.qty \in Nat
  BY Ranges DEF SoundBook, SoundOrders, RestingOrder
<1>2. ~(q <= 0 \/ q > o.qty)
  BY <1>1
<1>3. r.book = c /\ r.trades = t
  <2>1. r = [book |-> c, trades |-> t, err |-> ""]
    BY <1>2 DEF ExecuteOrder, Done
  <2> HIDE DEF c, r, t
  <2> QED BY <2>1
<1>4. StandsAt(b, id, k) /\ k[1] = o.side /\ k[2] = o.price
  BY RestingHolds DEF StandsAt
<1>5. Resting(c) = Mirror!Reduce(Resting(b), k, q)
  <2> HIDE DEF k
  <2> QED BY <1>4, ReduceRests
<1>6. Mirror!OrderAt(Resting(b), k).qty = o.qty
  <2> HIDE DEF k
  <2> QED BY <1>4, StandingEntry DEF Entry
<1>7. (IF id \in OrderIds(c) THEN c.orders[id].qty ELSE 0) = o.qty - q
  <2>1. CASE o.qty = q
    <3>1. id \notin OrderIds(c)
      BY <2>1, ReduceSound
    <3> HIDE DEF c
    <3> QED BY <1>1, <2>1, <3>1
  <2>2. CASE o.qty # q
    <3> DEFINE n == o.qty - q
               e == [b EXCEPT !.orders[id].qty = n]
    <3>1. n \in 1 .. MaxQuantity
      BY <1>1, <2>2, Ranges DEF RestingOrder
    <3>2. c = e
      BY <2>2 DEF Reduce
    <3> HIDE DEF n
    <3>3. id \in OrderIds(e) /\ e.orders[id] = [o EXCEPT !.qty = n]
      BY <3>1, RequantifySound
    <3> HIDE DEF c, e, o
    <3>4. e.orders[id].qty = n
      BY <1>1, <3>3 DEF RestingOrder
    <3> QED BY <3>2, <3>3, <3>4 DEF n
  <2> QED BY <2>1, <2>2
<1>8. t = <<[buy  |-> IF k[1] = "BUY" THEN id ELSE NoId,
             sell |-> IF k[1] = "SELL" THEN id ELSE NoId,
             price |-> k[2], qty |-> q, ts |-> ts]>>
  BY <1>4 DEF Trade
<1> HIDE DEF c, r, k, t
<1> QED BY <1>3, <1>5, <1>6, <1>7, <1>8 DEF r, k

\* The acknowledgement that the mirror shows is the answer of the abstract book.
LEMMA ViewAnswers ==
    ASSUME NEW b, SoundBook(b), Fits(b), NEW m, NEW made
    PROVE  View(m, made, b).ack =
             [status |-> "OK", id |-> m.id,
              rem |-> IF m.id \in OrderIds(b) THEN b.orders[m.id].qty ELSE 0,
              bid |-> Mirror!Shown(Resting(b), "BUY"), ask |-> Mirror!Shown(Resting(b), "SELL"),
              n |-> Mirror!Cardinality(Mirror!Places(Resting(b)))]
<1>1. /\ Mirror!Shown(Resting(b), "BUY") = BestPrice(b, "BUY")
      /\ Mirror!Shown(Resting(b), "SELL") = BestPrice(b, "SELL")
  BY PricesAre DEF Side
<1>2. Mirror!Cardinality(Mirror!Places(Resting(b))) = Cardinality(OrderIds(b))
  BY RestingHolds
<1> QED BY <1>1, <1>2 DEF View

-----------------------------------------------------------------------------
(* The refinement.                                                           *)

\* Time counts the batches, and no id is larger than their number.
FlowCounted ==
    /\ sent \in Nat /\ faults \in Nat /\ sent + faults <= MaxSteps
    /\ gen.ts = sent /\ shown.cmd.ts = sent
    /\ gen.nextId \in 1 .. sent + 1
    /\ OrderIds(gen.book) \subseteq 1 .. sent

\* The generator's time and ids stay within the batches it sent.
THEOREM BatchesCounted == Spec => []FlowCounted
<1>1. Init => FlowCounted
  <2> SUFFICES ASSUME Init PROVE FlowCounted
    OBVIOUS
  <2>1. gen.book = EmptyBook /\ gen.ts = 0 /\ gen.nextId = 1 /\ sent = 0 /\ faults = 0
    BY DEF Init, NewGenerator
  <2>2. shown.cmd.ts = 0
    BY DEF Init, View, NoEvent, Message
  <2> QED BY <2>1, <2>2, EmptySound, StepsAssumption DEF FlowCounted
<1>2. FlowInv /\ FlowCounted /\ [Next]_vars => FlowCounted'
  <2> SUFFICES ASSUME FlowInv, FlowCounted, [Next]_vars PROVE FlowCounted'
    OBVIOUS
  <2>1. CASE SendBatch
    <3>1. PICK e \in Events(gen) : /\ gen' = Batch(gen, e[1], e[2]).gen
                                   /\ shown' = View(e[1], e[2].trades, e[2].book)
      BY <2>1 DEF SendBatch
    <3>2. SoundGen(gen)
      BY DEF FlowInv, FlowState
    <3>3. EventGood(gen, e[1], e[2]) /\ e[1].ts = gen.ts + 1
      BY <3>2, EventsGood, EventsChosen
    <3>4. /\ gen'.book = e[2].book /\ gen'.ts = gen.ts + 1
          /\ gen'.nextId = IF e[1].type = "ADD" THEN gen.nextId + 1 ELSE gen.nextId
      <4> DEFINE l == Len(Batch(gen, e[1], e[2]).msgs)
                 f == Len(IF e[1].external THEN <<>> ELSE e[2].trades)
      <4>1. gen' = AfterBatch(gen, e[1], e[2], l, f)
        BY <3>1, <3>2, <3>3, BatchGen
      <4> HIDE DEF l, f
      <4> QED BY <4>1 DEF AfterBatch
    <3>5. shown'.cmd.ts = e[1].ts
      BY <3>1 DEF View
    <3>6. OrderIds(e[2].book) \subseteq OrderIds(gen.book) \union (IF e[1].type = "ADD" THEN {gen.nextId} ELSE {})
      BY <3>3 DEF EventGood
    <3>7. /\ sent' = sent + 1 /\ faults' = faults /\ sent + faults < MaxSteps
      BY <2>1 DEF SendBatch
    <3>8. OrderIds(gen'.book) \subseteq 1 .. sent'
      BY <3>4, <3>6, <3>7 DEF FlowCounted
    <3>9. gen'.nextId \in 1 .. sent' + 1
      BY <3>4, <3>7 DEF FlowCounted
    <3>10. sent' \in Nat /\ faults' \in Nat /\ sent' + faults' <= MaxSteps
           /\ gen'.ts = sent' /\ shown'.cmd.ts = sent'
      BY <3>3, <3>4, <3>5, <3>7, StepsAssumption DEF FlowCounted
    <3> QED BY <3>8, <3>9, <3>10 DEF FlowCounted
  <2>2. CASE UNCHANGED <<gen, shown, sent, faults>>
    BY <2>2 DEF FlowCounted
  <2>3. ASSUME NEW f, Fault(f) PROVE FlowCounted'
    <3>1. gen' = gen /\ shown' = shown /\ sent' = sent /\ faults' = faults + 1 /\ sent + faults < MaxSteps
      BY <2>3 DEF Fault
    <3> QED BY <3>1, StepsAssumption DEF FlowCounted
  <2>4. CASE Receive \/ TimeOut \/ UNCHANGED vars
    BY <2>2, <2>4 DEF Receive, TimeOut, vars
  <2>5. CASE Lose \/ Duplicate \/ Reorder \/ Foreign
    BY <2>3, <2>5 DEF Lose, Duplicate, Reorder, Foreign
  <2> QED BY <2>1, <2>4, <2>5 DEF Next
<1> QED BY <1>1, <1>2, FlowCorrect, PTL DEF Spec

\* The call of the Python book that each kind of event is.
LEMMA AppliedIs ==
    ASSUME NEW b, NEW m
    PROVE  /\ m.type = "ADD" =>
                Applied(b, m) = AddOrder(b, Order(m.id, m.side, m.price, m.qty, m.ts))
           /\ m.type = "CANCEL" => Applied(b, m) = CancelOrder(b, m.id)
           /\ m.type = "MODIFY" => Applied(b, m) = ModifyOrder(b, m.id, m.qty, m.price, m.ts)
           /\ m.type = "EXECUTE" => Applied(b, m) = ExecuteOrder(b, m.id, m.qty, m.ts)
<1>1. ASSUME m.type = "ADD"
      PROVE  Applied(b, m) = AddOrder(b, Order(m.id, m.side, m.price, m.qty, m.ts))
  BY <1>1 DEF Applied
<1>2. ASSUME m.type = "CANCEL" PROVE Applied(b, m) = CancelOrder(b, m.id)
  BY <1>2 DEF Applied
<1>3. ASSUME m.type = "MODIFY"
      PROVE  Applied(b, m) = ModifyOrder(b, m.id, m.qty, m.price, m.ts)
  BY <1>3 DEF Applied
<1>4. ASSUME m.type = "EXECUTE" PROVE Applied(b, m) = ExecuteOrder(b, m.id, m.qty, m.ts)
  BY <1>4 DEF Applied
<1> QED BY <1>1, <1>2, <1>3, <1>4

\* An event of the generator is one the mirror can take, with an id and a time
\* that so many batches may give.
LEMMA BatchSent ==
    ASSUME FlowInv, FlowCounted, FlowCounted', SendBatch
    PROVE  \E m, res :
             /\ EventGood(gen, m, res) /\ gen'.book = res.book
             /\ shown' = View(m, res.trades, res.book)
             /\ m.ts = gen.ts + 1 /\ m.ts = shown.cmd.ts + 1
             /\ m.type = "EXECUTE" => m.qty \in 1 .. gen.book.orders[m.id].qty
             /\ m.type # "ADD" => m.id \in OrderIds(gen.book)
             /\ m.type = "ADD" => m.id \notin OrderIds(gen.book)
             /\ m.id \in 1 .. MaxSteps /\ m.ts \in 1 .. MaxSteps
             /\ Known(gen.book) /\ Known(res.book)
             /\ Cardinality(OrderIds(gen.book)) < MaxSteps
             /\ shown'.cmd \in AllEvents
<1>1. PICK e \in Events(gen) : /\ gen' = Batch(gen, e[1], e[2]).gen
                               /\ shown' = View(e[1], e[2].trades, e[2].book)
  BY DEF SendBatch
<1> DEFINE b   == gen.book
           m   == e[1]
           res == e[2]
           c   == shown'.cmd
<1>2. SoundGen(gen) /\ EventGood(gen, m, res)
      /\ m.ts = gen.ts + 1
      /\ (IF m.type = "ADD" THEN m.id = gen.nextId ELSE m.id \in gen.live)
      /\ (m.type = "EXECUTE" => m.qty \in 1 .. b.orders[m.id].qty)
  BY EventsGood, EventsChosen DEF FlowInv, FlowState
<1>3. gen'.book = res.book
  <2> DEFINE l == Len(Batch(gen, m, res).msgs)
             f == Len(IF m.external THEN <<>> ELSE res.trades)
  <2>1. gen' = AfterBatch(gen, m, res, l, f)
    BY <1>1, <1>2, BatchGen
  <2> HIDE DEF l, f
  <2> QED BY <2>1 DEF AfterBatch
<1>4. /\ m.type \in MsgType /\ m.side \in Side
      /\ m.price \in PriceMin .. PriceMax /\ m.qty \in 1 .. MaxQuantity
  BY <1>2 DEF EventGood, Wire
<1>5. c = [type |-> m.type, side |-> m.side, id |-> m.id,
           price |-> m.price, qty |-> m.qty, ts |-> m.ts]
  BY <1>1 DEF View
<1>6. /\ sent \in Nat /\ sent < MaxSteps /\ m.ts = sent + 1 /\ shown.cmd.ts = sent
      /\ gen.nextId \in 1 .. sent + 1 /\ OrderIds(b) \subseteq 1 .. sent
      /\ OrderIds(res.book) \subseteq 1 .. sent + 1
  <2>1. sent' = sent + 1 /\ sent + faults < MaxSteps
    BY DEF SendBatch
  <2> QED BY <1>2, <1>3, <2>1, StepsAssumption DEF FlowCounted
<1>7. gen.live = OrderIds(b) /\ \A i \in OrderIds(b) : i < gen.nextId
  BY <1>2, GenParts
<1> HIDE DEF b, m, res, c
<1>8. /\ Known(b) /\ Known(res.book) /\ m.id \in 1 .. MaxSteps
      /\ m.ts \in 1 .. MaxSteps
      /\ (m.type # "ADD" => m.id \in OrderIds(b))
      /\ (m.type = "ADD" => m.id \notin OrderIds(b))
  <2>1. 1 .. sent \subseteq 1 .. MaxSteps /\ 1 .. sent + 1 \subseteq 1 .. MaxSteps
    BY <1>6, StepsAssumption
  <2>2. m.type # "ADD" => m.id \in OrderIds(b)
    BY <1>2, <1>7 DEF b, m
  <2>3. m.type = "ADD" => m.id = gen.nextId
    BY <1>2 DEF m
  <2>4. m.id \in 1 .. MaxSteps
    BY <1>6, <2>1, <2>2, <2>3
  <2>5. m.type = "ADD" => m.id \notin OrderIds(b)
    BY <1>6, <1>7, <2>3
  <2> QED BY <1>6, <2>1, <2>2, <2>4, <2>5 DEF Known
<1>9. c \in AllEvents
  <2> DEFINE ts == m.ts
             id == m.id
  <2>1. ts \in 1 .. MaxSteps /\ id \in 1 .. MaxSteps
    BY <1>8
  <2> HIDE DEF ts, id
  <2>2. [type |-> m.type, side |-> m.side, id |-> id, price |-> m.price, qty |-> m.qty, ts |-> ts]
           \in AllEvents
    BY <1>4, <2>1 DEF AllEvents
  <2> QED BY <1>5, <2>2 DEF ts, id
<1>10. Cardinality(OrderIds(b)) < MaxSteps
  <2>1. IsFiniteSet(1 .. sent) /\ Cardinality(1 .. sent) <= sent
    <3>1. 1 \in Int /\ sent \in Int
      BY <1>6
    <3>2. IsFiniteSet(1 .. sent) /\ Cardinality(1 .. sent) = IF 1 > sent THEN 0 ELSE sent - 1 + 1
      BY ONLY <3>1, FS_Interval
    <3> QED BY <1>6, <3>2
  <2>2. Cardinality(OrderIds(b)) <= Cardinality(1 .. sent) /\ IsFiniteSet(OrderIds(b))
    BY <1>6, <2>1, FS_Subset
  <2>3. Cardinality(OrderIds(b)) \in Nat /\ Cardinality(1 .. sent) \in Nat
    BY <2>1, <2>2, FS_CardinalityType
  <2> QED BY <1>6, <2>1, <2>2, <2>3, StepsAssumption
<1>11. m.ts = gen.ts + 1 /\ m.ts = shown.cmd.ts + 1
  BY <1>2, <1>6 DEF m
<1>12. shown' = View(m, res.trades, res.book)
  BY <1>1 DEF m, res
<1> QED BY <1>2, <1>3, <1>8, <1>9, <1>10, <1>11, <1>12 DEF b, c, m

\* An event of the generator is a step of the abstract book.
LEMMA EventProcessed ==
    ASSUME FlowInv, FlowAged, FlowCounted, FlowCounted', SendBatch
    PROVE  Mirror!Next
<1>1. PICK m, res :
        /\ EventGood(gen, m, res) /\ gen'.book = res.book
        /\ shown' = View(m, res.trades, res.book)
        /\ m.ts = gen.ts + 1 /\ m.ts = shown.cmd.ts + 1
        /\ m.type = "EXECUTE" => m.qty \in 1 .. gen.book.orders[m.id].qty
        /\ m.type # "ADD" => m.id \in OrderIds(gen.book)
        /\ m.type = "ADD" => m.id \notin OrderIds(gen.book)
        /\ m.id \in 1 .. MaxSteps /\ m.ts \in 1 .. MaxSteps
        /\ Known(gen.book) /\ Known(res.book)
        /\ Cardinality(OrderIds(gen.book)) < MaxSteps
        /\ shown'.cmd \in AllEvents
  BY BatchSent
<1> DEFINE b   == gen.book
           c   == shown'.cmd
           made == res.trades
<1>2. m.type = "EXECUTE" => m.qty \in 1 .. b.orders[m.id].qty
  BY <1>1
<1>4. SoundBook(b) /\ SoundBook(res.book) /\ shown.book = Resting(b)
  BY <1>1, GenParts DEF EventGood, GoodBook, FlowAged, FlowInv, FlowState
<1>5. /\ m.type \in MsgType /\ m.side \in Side /\ m.id \in Nat /\ m.ts \in Nat
      /\ m.price \in PriceMin .. PriceMax /\ m.qty \in 1 .. MaxQuantity
      /\ res = Applied(b, m)
  BY <1>1 DEF EventGood, Wire
<1>6. /\ c = [type |-> m.type, side |-> m.side, id |-> m.id,
              price |-> m.price, qty |-> m.qty, ts |-> m.ts]
      /\ shown'.book = Resting(res.book) /\ shown'.trades = made
      /\ shown'.ack = View(m, made, res.book).ack
  BY <1>1 DEF View
<1>9. /\ Fits(b) /\ Fits(res.book) /\ m.id \in 1 .. MaxSteps
      /\ m.ts \in 1 .. MaxSteps
      /\ (m.type # "ADD" => m.id \in OrderIds(b))
      /\ (m.type = "ADD" => m.id \notin OrderIds(b))
  BY <1>1, KnownFits
<1>10. c \in AllEvents /\ c.ts = shown.cmd.ts + 1
  BY <1>1, <1>6
<1>11. Cardinality(OrderIds(b)) < MaxSteps
  BY <1>1
<1> HIDE DEF b, c, made
<1> DEFINE rem == IF m.id \in OrderIds(res.book) THEN res.book.orders[m.id].qty ELSE 0
<1>12. Mirror!Answer(c, "OK", rem, made, Resting(res.book))
  <2>1. shown'.ack = [status |-> "OK", id |-> c.id, rem |-> rem,
                      bid |-> Mirror!Shown(Resting(res.book), "BUY"),
                      ask |-> Mirror!Shown(Resting(res.book), "SELL"),
                      n |-> Mirror!Cardinality(Mirror!Places(Resting(res.book)))]
    BY <1>4, <1>6, <1>9, ViewAnswers
  <2> QED BY <1>6, <2>1 DEF Mirror!Answer
<1>13. Mirror!Live(shown.book) = OrderIds(b)
       /\ Mirror!Cardinality(Mirror!Places(shown.book)) = Cardinality(OrderIds(b))
  BY <1>4, <1>9, RestingHolds
<1>14. ~Mirror!BadField(c)
  <2>1. c.qty # 0 /\ c.price # 0 /\ c.price < NumLevels
    BY <1>5, <1>6, Ranges, RangeAssumption, NumLevelsAssumption DEF Level
  <2> QED BY <2>1 DEF Mirror!BadField, Mirror!PriceInRange
<1>15. \A i : Mirror!Remaining(Resting(res.book), i) =
               IF i \in OrderIds(res.book) THEN res.book.orders[i].qty ELSE 0
  BY <1>4, <1>9, RestingHolds
<1>16. c.type = m.type /\ c.side = m.side /\ c.id = m.id /\ c.price = m.price
       /\ c.qty = m.qty /\ c.ts = m.ts
  BY <1>6
<1> HIDE DEF rem
<1> SUFFICES Mirror!Process(c)
  BY <1>10 DEF Mirror!Next
<1>17. CASE m.type = "ADD"
  <2> DEFINE o == Order(m.id, m.side, m.price, m.qty, m.ts)
  <2>1. res = AddOrder(b, o)
    BY <1>5, <1>17, AppliedIs
  <2>2. /\ o \in RestingOrder /\ o.id = m.id /\ o.side = c.side /\ o.price = c.price
        /\ Entry(o) = Mirror!Order(c.id, c.qty, c.ts)
    <3>1. o = [id |-> m.id, side |-> m.side, price |-> m.price, qty |-> m.qty, ts |-> m.ts]
      BY DEF Order
    <3>2. m.ts \in Nat
      BY <1>5
    <3> HIDE DEF o
    <3>3. o \in RestingOrder
      BY <1>5, <3>1, <3>2 DEF RestingOrder
    <3>4. /\ o.id = m.id /\ o.side = c.side /\ o.price = c.price
          /\ Entry(o) = [id |-> c.id, qty |-> c.qty, ts |-> c.ts]
      BY <1>16, <3>1 DEF Entry
    <3>5. Mirror!Order(c.id, c.qty, c.ts) = [id |-> c.id, qty |-> c.qty, ts |-> c.ts]
      BY MirrorWords
    <3> QED BY <3>3, <3>4, <3>5
  <2> HIDE DEF o
  <2>3. Mirror!Match(Mirror!Insert(Resting(b), o.side, o.price, Entry(o))) = AsShown(res)
    BY <1>4, <1>9, <1>11, <1>17, <2>1, <2>2, AddRests
  <2>4. AsShown(res).book = Resting(res.book) /\ AsShown(res).trades = made
    BY DEF AsShown, made
  <2>5. Mirror!Add(c)
    <3>1. rem = Mirror!Remaining(Resting(res.book), c.id)
      BY <1>15, <1>16 DEF rem
    <3> QED BY <1>4, <1>9, <1>11, <1>12, <1>13, <1>14, <1>16, <1>17, <2>2, <2>3, <2>4, <3>1 DEF Mirror!Add
  <2> QED BY <2>5 DEF Mirror!Process, c
<1>18. CASE m.type = "CANCEL"
  <2>1. res = CancelOrder(b, m.id) /\ m.id \in OrderIds(b)
    <3>1. res = CancelOrder(b, m.id)
      BY <1>5, <1>18, AppliedIs
    <3> QED BY <1>9, <1>18, <3>1
  <2>2. /\ Resting(res.book) = Mirror!Without(Resting(b), Mirror!PlaceOf(Resting(b), m.id))
        /\ made = <<>> /\ m.id \notin OrderIds(res.book)
    BY <1>4, <1>9, <2>1, CancelRests DEF made
  <2>3. rem = 0
    BY <2>2 DEF rem
  <2>4. Mirror!Cancel(c)
    BY <1>4, <1>12, <1>13, <1>16, <1>18, <2>1, <2>2, <2>3 DEF Mirror!Cancel
  <2> QED BY <2>4 DEF Mirror!Process, c
<1>19. CASE m.type = "MODIFY"
  <2> DEFINE k == Mirror!PlaceOf(Resting(b), m.id)
  <2>1. res = ModifyOrder(b, m.id, m.qty, m.price, m.ts) /\ m.id \in OrderIds(b)
    <3>1. res = ModifyOrder(b, m.id, m.qty, m.price, m.ts)
      BY <1>5, <1>19, AppliedIs
    <3> QED BY <1>9, <1>19, <3>1
  <2>2. k[2] = b.orders[m.id].price
    BY <1>4, <1>9, <2>1, RestingHolds DEF StandsAt
  <2>3. CASE m.price = b.orders[m.id].price
    <3>1. /\ Resting(res.book) = WithQty(Resting(b), k, m.qty)
          /\ made = <<>> /\ m.id \in OrderIds(res.book) /\ res.book.orders[m.id].qty = m.qty
      <4>1. Requantified(b, m.id, m.qty, ModifyOrder(b, m.id, m.qty, b.orders[m.id].price, m.ts))
        BY <1>4, <1>5, <1>9, <2>1, ModifyQtyRests
      <4>2. Requantified(b, m.id, m.qty, res)
        BY <2>1, <2>3, <4>1
      <4> HIDE DEF k
      <4> QED BY <4>2 DEF Requantified, made, k
    <3>2. rem = m.qty
      BY <3>1 DEF rem
    <3> HIDE DEF k
    <3>3. c.price = k[2]
      BY <1>16, <2>2, <2>3
    <3>4. Mirror!ModifyQty(c)
      BY <1>4, <1>12, <1>13, <1>14, <1>16, <1>19, <2>1, <3>1, <3>2, <3>3 DEF Mirror!ModifyQty, WithQty, k
    <3> QED BY <3>4 DEF Mirror!Process, c
  <2>4. CASE m.price # b.orders[m.id].price
    <3>1. Mirror!Match(Mirror!Insert(Mirror!Without(Resting(b), k), k[1], m.price,
                                     [id |-> m.id, qty |-> m.qty, ts |-> m.ts])) = AsShown(res)
      <4>1. m.ts \in Nat
        BY <1>5
      <4> QED BY <1>4, <1>5, <1>9, <2>1, <2>4, <4>1, ModifyPriceRests
    <3>2. AsShown(res).book = Resting(res.book) /\ AsShown(res).trades = made
      BY DEF AsShown, made
    <3>3. rem = Mirror!Remaining(Resting(res.book), c.id)
      BY <1>15, <1>16 DEF rem
    <3>4. [id |-> m.id, qty |-> m.qty, ts |-> m.ts] = Mirror!Order(c.id, c.qty, c.ts)
      BY <1>16, MirrorWords
    <3> HIDE DEF k
    <3>5. c.price # k[2]
      BY <1>16, <2>2, <2>4
    <3>6. Mirror!ModifyPrice(c)
      BY <1>4, <1>12, <1>13, <1>14, <1>16, <1>19, <2>1, <3>1, <3>2, <3>3, <3>4, <3>5 DEF Mirror!ModifyPrice, k
    <3> QED BY <3>6 DEF Mirror!Process, c
  <2> QED BY <2>3, <2>4
<1>20. CASE m.type = "EXECUTE"
  <2> DEFINE k == Mirror!PlaceOf(Resting(b), m.id)
             n == b.orders[m.id].qty
  <2>1. res = ExecuteOrder(b, m.id, m.qty, m.ts) /\ m.id \in OrderIds(b)
    <3>1. res = ExecuteOrder(b, m.id, m.qty, m.ts)
      BY <1>5, <1>20, AppliedIs
    <3> QED BY <1>9, <1>20, <3>1
  <2>2. m.qty \in 1 .. n
    BY <1>2, <1>20
  <2>3. /\ Resting(res.book) = Mirror!Reduce(Resting(b), k, m.qty)
        /\ made = <<[buy  |-> IF k[1] = "BUY" THEN m.id ELSE NoId,
                     sell |-> IF k[1] = "SELL" THEN m.id ELSE NoId,
                     price |-> k[2], qty |-> m.qty, ts |-> m.ts]>>
        /\ Mirror!OrderAt(Resting(b), k).qty = n
        /\ rem = n - m.qty
    BY <1>4, <1>9, <2>1, <2>2, ExecuteRests DEF made, rem
  <2> HIDE DEF k, n
  <2>4. Mirror!Execute(c)
    BY <1>4, <1>12, <1>13, <1>16, <1>20, <2>1, <2>2, <2>3 DEF Mirror!Execute, k
  <2> QED BY <2>4 DEF Mirror!Process, c
<1> QED BY <1>5, <1>17, <1>18, <1>19, <1>20 DEF MsgType

\* The mirror, and with it every book that add_order, cancel_order, modify_order
\* and execute_order make, is the price-time-priority book.
THEOREM MirrorImplements == Spec => ImplementsBook
<1>1. Init => Mirror!Init
  <2> SUFFICES ASSUME Init PROVE Mirror!Init
    OBVIOUS
  <2>1. shown = View(NoEvent, <<>>, EmptyBook)
    BY DEF Init
  <2>2. SoundBook(EmptyBook) /\ OrderIds(EmptyBook) = {} /\ \A s \in Side : EmptyBook.levels[s] = <<>>
    BY EmptySound DEF EmptyBook
  <2>3. Resting(EmptyBook) = [s \in Side |-> [p \in Level |-> <<>>]]
    <3>1. ASSUME NEW s \in Side, NEW p \in Level PROVE Shows(EmptyBook.orders, LevelAt(EmptyBook, s, p)) = <<>>
      <4>1. LevelAt(EmptyBook, s, p) = <<>>
        BY <2>2 DEF LevelAt
      <4> QED BY <4>1 DEF Shows
    <3> QED BY <2>2, <3>1, RestingIs
  <2>4. BestPrice(EmptyBook, "BUY") = 0 /\ BestPrice(EmptyBook, "SELL") = 0
    <3>1. \A s \in Side : DOMAIN EmptyBook.levels[s] = {}
      BY <2>2
    <3> QED BY <2>2, <3>1, BestPriceIs DEF NoPrice, Side
  <2>5. Cardinality({}) = 0
    BY FS_EmptySet
  <2>6. shown.cmd = Mirror!ZeroCmd
    BY <2>1 DEF View, NoEvent, Message, Mirror!ZeroCmd
  <2>7. shown.ack = [status |-> "OK", id |-> NoId, rem |-> 0, bid |-> 0, ask |-> 0, n |-> 0]
    BY <2>1, <2>2, <2>4, <2>5 DEF View, NoEvent, Message
  <2>8. shown.book = Resting(EmptyBook) /\ shown.trades = <<>>
    BY <2>1 DEF View
  <2> QED BY <2>3, <2>6, <2>7, <2>8, MirrorWords DEF Mirror!Init
<1>2. FlowInv /\ FlowAged /\ FlowCounted /\ FlowCounted' /\ [Next]_vars => [Mirror!Next]_(Mirror!vars)
  <2> SUFFICES ASSUME FlowInv, FlowAged, FlowCounted, FlowCounted', [Next]_vars
               PROVE  Mirror!Next \/ UNCHANGED Mirror!vars
    OBVIOUS
  <2>1. CASE SendBatch
    BY <2>1, EventProcessed
  <2>2. CASE Receive \/ TimeOut \/ Lose \/ Duplicate \/ Reorder \/ Foreign \/ UNCHANGED vars
    <3>1. shown' = shown
      BY <2>2 DEF Receive, TimeOut, Lose, Duplicate, Reorder, Foreign, Fault, vars
    <3> QED BY <3>1 DEF Mirror!vars
  <2> QED BY <2>1, <2>2 DEF Next
<1> QED BY <1>1, <1>2, FlowCorrect, AgedAlways, BatchesCounted, PTL DEF Spec, ImplementsBook, Mirror!Spec

-----------------------------------------------------------------------------
(* The types.                                                                *)

\* The trades T are between orders of S.
Named(T, S) == \A n \in DOMAIN T : T[n].buy \in S /\ T[n].sell \in S

\* A turn trades between orders of the book.
LEMMA TurnNames ==
    ASSUME NEW b, NEW m, Halfway(m, b), Named(m.trades, OrderIds(b))
    PROVE  Named(Turn(m).trades, OrderIds(b))
<1>1. PICK seen :
        /\ Halfway(seen, b) /\ seen.trades = m.trades
        /\ Crossed(seen.book) <=> Crossed(m.book)
        /\ Turn(m) = IF Crossed(m.book) THEN TradeHeads(seen) ELSE seen
  BY TurnIs
<1>2. CASE Crossed(m.book)
  <2>1. PICK bi, ai, px, q, ts :
          /\ bi \in OrderIds(seen.book) /\ ai \in OrderIds(seen.book)
          /\ TradeHeads(seen).trades = Append(seen.trades, Trade(bi, ai, px, q, ts))
    <3> DEFINE k  == seen.book
               bp == BestPrice(k, "BUY")
               ap == BestPrice(k, "SELL")
               bi == Head(k.levels["BUY"][bp])
               ai == Head(k.levels["SELL"][ap])
    <3>1. bi \in At(k, "BUY", bp) /\ ai \in At(k, "SELL", ap)
      BY <1>1, <1>2, TradeHeadsIs
    <3>2. PICK q, px, ts :
            TradeHeads(seen) =
              [book |-> Reduce(Reduce(k, bi, q), ai, q),
               trades |-> Append(seen.trades, Trade(bi, ai, px, q, ts)), err |-> seen.err]
      BY <1>1, <1>2, TradeHeadsIs
    <3>3. bi \in OrderIds(k) /\ ai \in OrderIds(k)
      BY <3>1 DEF At
    <3> HIDE DEF k, bi, ai
    <3>4. TradeHeads(seen).trades = Append(seen.trades, Trade(bi, ai, px, q, ts))
      BY <3>2
    <3> QED BY <3>3, <3>4 DEF k
  <2> DEFINE t == Trade(bi, ai, px, q, ts)
             T == Append(m.trades, t)
  <2>2. bi \in OrderIds(b) /\ ai \in OrderIds(b) /\ m.trades \in Seq(MadeTrade)
    BY <1>1, <2>1 DEF Halfway
  <2>3. t.buy = bi /\ t.sell = ai
    BY DEF Trade
  <2>4. Turn(m).trades = T
    BY <1>1, <1>2, <2>1
  <2> DEFINE tr == m.trades
  <2>5. tr \in Seq(MadeTrade) /\ Named(tr, OrderIds(b)) /\ T = Append(tr, t)
    BY <2>2
  <2> HIDE DEF t, T, tr
  <2>6. Named(T, OrderIds(b))
    <3> SUFFICES ASSUME NEW n \in DOMAIN T PROVE T[n].buy \in OrderIds(b) /\ T[n].sell \in OrderIds(b)
      BY DEF Named
    <3>1. DOMAIN T = 1 .. Len(tr) + 1 /\ DOMAIN tr = 1 .. Len(tr) /\ Len(tr) \in Nat
      BY <2>5
    <3>2. CASE n = Len(tr) + 1
      <4>1. T[n] = t
        BY <2>5, <3>1, <3>2
      <4> QED BY <2>2, <2>3, <4>1
    <3>3. CASE n # Len(tr) + 1
      <4>1. n \in DOMAIN tr
        BY <3>1, <3>3
      <4>2. T[n] = tr[n]
        BY <2>5, <3>1, <3>3
      <4> QED BY <2>5, <4>1, <4>2 DEF Named
    <3> QED BY <3>2, <3>3
  <2> QED BY <2>4, <2>6
<1>3. CASE ~Crossed(m.book)
  BY <1>1, <1>3
<1> QED BY <1>2, <1>3

\* match_orders trades between orders of the book.
LEMMA MatchNames ==
    ASSUME NEW b, SoundBook(b)
    PROVE  Named(MatchOrders(b).trades, OrderIds(b))
<1>1. PICK after, card :
        /\ card \in Nat /\ after[0].trades = <<>>
        /\ \A n \in 0 .. card + 1 : Halfway(after[n], b)
        /\ \A n \in 1 .. card + 1 : after[n] = Turn(after[n - 1])
        /\ MatchOrders(b) = after[card + 1]
  BY MatchEnds
<1> DEFINE good(n) == Named(after[n].trades, OrderIds(b))
           Bad     == {n \in 0 .. card + 1 : ~good(n)}
<1>2. good(0)
  <2>1. DOMAIN <<>> = {}
    OBVIOUS
  <2> QED BY <1>1, <2>1 DEF Named
<1>3. ASSUME NEW n \in 1 .. card + 1, good(n - 1) PROVE good(n)
  <2>1. after[n] = Turn(after[n - 1]) /\ Halfway(after[n - 1], b)
    BY <1>1
  <2> QED BY <1>3, <2>1, TurnNames
<1> HIDE DEF good
<1>4. Bad = {}
  <2> SUFFICES ASSUME Bad # {} PROVE FALSE
    OBVIOUS
  <2>1. PICK j \in Bad : \A n \in Bad : j <= n
    <3>1. Bad \subseteq Nat
      OBVIOUS
    <3> HIDE DEF Bad
    <3> QED BY <3>1, LeastOf
  <2>2. j \in 1 .. card + 1
    BY <1>2
  <2>3. j - 1 \in 0 .. card + 1 /\ ~(j <= j - 1)
    BY <1>1, <2>2
  <2>4. good(j - 1)
    BY <2>1, <2>3
  <2> QED BY <1>3, <2>2, <2>4
<1>5. good(card + 1)
  BY <1>1, <1>4
<1> QED BY <1>1, <1>5 DEF good

\* What Mirror!TypeOK says of trades.
TradesTyped(T) ==
    \A n \in DOMAIN T :
      /\ {T[n].buy, T[n].sell} \subseteq 1 .. MaxSteps \union {NoId}
      /\ T[n].price \in Level /\ T[n].qty > 0

\* The trades of an event are between orders that were given ids, or external.
LEMMA EventNames ==
    ASSUME NEW b, SoundBook(b), Known(b), NEW m \in Wire, NEW res, res = Applied(b, m),
           m.id \in 1 .. MaxSteps,
           m.type = "ADD" => m.id \notin OrderIds(b),
           m.type # "ADD" => m.id \in OrderIds(b),
           m.type = "EXECUTE" => m.qty \in 1 .. b.orders[m.id].qty,
           m.type # "EXECUTE" => res.trades \in Seq(MadeTrade)
    PROVE  TradesTyped(res.trades)
<1>0. Fits(b)
  BY KnownFits
<1>1. /\ m.type \in MsgType /\ m.side \in Side /\ m.id \in Nat /\ m.ts \in Nat
      /\ m.price \in PriceMin .. PriceMax /\ m.qty \in 1 .. MaxQuantity
  BY DEF Wire
<1>2. PriceMin .. PriceMax \subseteq Level /\ \A q \in 1 .. MaxQuantity : q > 0
  BY Ranges, RangeAssumption, NumLevelsAssumption DEF Level
<1>3. ASSUME NEW c, SoundBook(c), Known(c), MatchOrders(c).trades \in Seq(MadeTrade)
      PROVE  TradesTyped(MatchOrders(c).trades)
  <2> DEFINE T == MatchOrders(c).trades
  <2>1. Named(T, OrderIds(c)) /\ T \in Seq(MadeTrade)
    BY <1>3, MatchNames
  <2> HIDE DEF T
  <2> SUFFICES ASSUME NEW n \in DOMAIN T
               PROVE  /\ {T[n].buy, T[n].sell} \subseteq 1 .. MaxSteps \union {NoId}
                      /\ T[n].price \in Level /\ T[n].qty > 0
    BY DEF TradesTyped, T
  <2>2. T[n].buy \in OrderIds(c) /\ T[n].sell \in OrderIds(c)
    BY <2>1 DEF Named
  <2>3. T[n] \in MadeTrade
    BY <2>1
  <2>4. T[n].price \in PriceMin .. PriceMax /\ T[n].qty \in 1 .. MaxQuantity
    BY <2>3 DEF MadeTrade
  <2>5. T[n].buy \in 1 .. MaxSteps /\ T[n].sell \in 1 .. MaxSteps
    BY <1>3, <2>2 DEF Known
  <2> QED BY <1>2, <2>4, <2>5
<1>4. CASE m.type = "ADD"
  <2> DEFINE o == Order(m.id, m.side, m.price, m.qty, m.ts)
             c == Insert(b, o)
  <2>1. res = AddOrder(b, o)
    BY <1>4, AppliedIs
  <2>2. o \in RestingOrder /\ o.id = m.id /\ o.price = m.price /\ o.qty = m.qty
    BY <1>1 DEF Order, RestingOrder
  <2> HIDE DEF o
  <2>3. ~(o.price <= 0 \/ o.qty <= 0) /\ o.id \notin OrderIds(b)
    BY <1>1, <1>4, <2>2, Ranges
  <2>4. res = MatchOrders(c)
    BY <2>1, <2>3 DEF AddOrder
  <2>5. SoundBook(c) /\ OrderIds(c) = OrderIds(b) \union {o.id}
    BY <2>2, <2>3, InsertSound
  <2>6. Known(c)
    BY <2>2, <2>5 DEF Known
  <2> HIDE DEF c
  <2>7. MatchOrders(c).trades \in Seq(MadeTrade)
    BY <1>4, <2>4
  <2> QED BY <1>3, <2>4, <2>5, <2>6, <2>7
<1>5. CASE m.type = "CANCEL" \/ (m.type = "MODIFY" /\ m.price = b.orders[m.id].price)
  <2>1. res.trades = <<>>
    <3>1. CASE m.type = "CANCEL"
      <4>1. res = CancelOrder(b, m.id)
        BY <3>1, AppliedIs
      <4> QED BY <1>0, <4>1, <3>1, CancelRests
    <3>2. CASE m.type = "MODIFY" /\ m.price = b.orders[m.id].price
      <4>1. res = ModifyOrder(b, m.id, m.qty, m.price, m.ts) /\ m.id \in OrderIds(b)
        BY <3>2, AppliedIs
      <4>2. Requantified(b, m.id, m.qty, ModifyOrder(b, m.id, m.qty, b.orders[m.id].price, m.ts))
        BY <1>0, <1>1, <4>1, ModifyQtyRests
      <4>3. Requantified(b, m.id, m.qty, res)
        BY <3>2, <4>1, <4>2
      <4> QED BY <4>3 DEF Requantified
    <3> QED BY <1>5, <3>1, <3>2
  <2>2. DOMAIN <<>> = {}
    OBVIOUS
  <2> QED BY <2>1, <2>2 DEF TradesTyped
<1>6. CASE m.type = "MODIFY" /\ m.price # b.orders[m.id].price
  <2> DEFINE s == b.orders[m.id].side
             o == Order(m.id, s, m.price, m.qty, m.ts)
             d == Discard(b, m.id)
             c == Insert(d, o)
  <2>1. res = ModifyOrder(b, m.id, m.qty, m.price, m.ts) /\ m.id \in OrderIds(b)
    BY <1>6, AppliedIs
  <2>2. ~(m.qty <= 0 \/ m.price <= 0)
    BY <1>1, Ranges
  <2>3. res = MatchOrders(c)
    BY <1>6, <2>1, <2>2 DEF ModifyOrder
  <2>4. SoundBook(d) /\ OrderIds(d) = OrderIds(b) \ {m.id}
    BY <2>1, DiscardSound
  <2>5. s \in Side
    <3>1. b.orders[m.id] \in RestingOrder
      BY <2>1 DEF SoundBook, SoundOrders
    <3> QED BY <3>1 DEF RestingOrder
  <2> HIDE DEF d, s
  <2>6. o \in RestingOrder /\ o.id = m.id
    BY <1>1, <2>5 DEF Order, RestingOrder
  <2> HIDE DEF o
  <2>7. SoundBook(c) /\ OrderIds(c) = OrderIds(d) \union {o.id}
    BY <2>4, <2>6, InsertSound
  <2>8. Known(c)
    BY <2>4, <2>6, <2>7 DEF Known
  <2> HIDE DEF c
  <2>9. MatchOrders(c).trades \in Seq(MadeTrade)
    BY <1>6, <2>3
  <2> QED BY <1>3, <2>3, <2>7, <2>8, <2>9
<1>7. CASE m.type = "EXECUTE"
  <2> DEFINE k == Mirror!PlaceOf(Resting(b), m.id)
             x == IF k[1] = "BUY" THEN m.id ELSE NoId
             y == IF k[1] = "SELL" THEN m.id ELSE NoId
             t == [buy |-> x, sell |-> y, price |-> k[2], qty |-> m.qty, ts |-> m.ts]
  <2>1. res = ExecuteOrder(b, m.id, m.qty, m.ts) /\ m.id \in OrderIds(b)
    BY <1>7, AppliedIs
  <2>2. res.trades = <<t>>
    BY <1>0, <1>7, <2>1, ExecuteRests
  <2>3. k[2] = b.orders[m.id].price
    BY <1>0, <2>1, RestingHolds DEF StandsAt
  <2>4. b.orders[m.id].price \in PriceMin .. PriceMax
    <3>1. b.orders[m.id] \in RestingOrder
      BY <2>1 DEF SoundBook, SoundOrders
    <3> QED BY <3>1 DEF RestingOrder
  <2>5. {x, y} \subseteq 1 .. MaxSteps \union {NoId}
    OBVIOUS
  <2> DEFINE l == k[2]
  <2>6. l \in Level /\ m.qty > 0
    BY <1>1, <1>2, <2>3, <2>4
  <2>7. t = [buy |-> x, sell |-> y, price |-> l, qty |-> m.qty, ts |-> m.ts]
    OBVIOUS
  <2> HIDE DEF k, x, y, l, t
  <2>8. {t.buy, t.sell} \subseteq 1 .. MaxSteps \union {NoId} /\ t.price \in Level /\ t.qty > 0
    BY <2>5, <2>6, <2>7
  <2>9. DOMAIN <<t>> = {1} /\ <<t>>[1] = t
    OBVIOUS
  <2> QED BY <2>2, <2>8, <2>9 DEF TradesTyped
<1> QED BY <1>1, <1>4, <1>5, <1>6, <1>7 DEF MsgType

\* The counts of the reference are no larger than what it received.
Tallied(r) ==
    /\ {r.gaps, r.matched, r.external} \subseteq 0 .. r.received

\* Every message is counted, and as no more than one of each.
LEMMA ProcessTallies ==
    ASSUME NEW r, SoundRef(r), Tallied(r), NEW m \in Wire
    PROVE  Tallied(ProcessMessage(r, m).ref)
<1> DEFINE q == ProcessMessage(r, m).ref
<1>1. /\ q.received = r.received + 1
      /\ q.gaps = IF Gap(r, m.seq) THEN r.gaps + 1 ELSE r.gaps
      /\ q.matched \in {r.matched, r.matched + 1}
      /\ q.external \in {r.external, r.external + 1}
  BY ProcessKeeps
<1>2. /\ r.received \in Nat /\ r.gaps \in 0 .. r.received
      /\ r.matched \in 0 .. r.received /\ r.external \in 0 .. r.received
  BY DEF SoundRef, Tallied
<1> DEFINE R == r.received
           Q == q.received
<1>3. Q \in Nat /\ Q = R + 1 /\ R \in Nat
  BY <1>1, <1>2
<1>4. ASSUME NEW x \in 0 .. R PROVE x \in 0 .. Q /\ x + 1 \in 0 .. Q
  BY <1>3
<1> HIDE DEF q, R, Q
<1>5. q.gaps \in 0 .. Q /\ q.matched \in 0 .. Q /\ q.external \in 0 .. Q
  <2>1. r.gaps \in 0 .. R /\ r.matched \in 0 .. R /\ r.external \in 0 .. R
    BY <1>2 DEF R
  <2> QED BY <1>1, <1>4, <2>1
<1>6. Tallied(q)
  BY <1>5 DEF Tallied, Q
<1> QED BY <1>6 DEF q

\* What the abstract book shows has its types.
LEMMA RestingTyped ==
    ASSUME NEW b, SoundBook(b), Known(b)
    PROVE  Resting(b) \in [Side -> [Level -> Seq([id : 1 .. MaxSteps, qty : Nat \ {0}, ts : Nat])]]
<1> DEFINE E == [id : 1 .. MaxSteps, qty : Nat \ {0}, ts : Nat]
           S(s, p) == Shows(b.orders, LevelAt(b, s, p))
<1>1. \A i \in OrderIds(b) : Entry(b.orders[i]) \in E
  <2> SUFFICES ASSUME NEW i \in OrderIds(b) PROVE Entry(b.orders[i]) \in E
    OBVIOUS
  <2>1. b.orders[i] \in RestingOrder /\ b.orders[i].id = i
    BY DEF SoundBook, SoundOrders
  <2>2. i \in 1 .. MaxSteps
    BY DEF Known
  <2> DEFINE o == b.orders[i]
             j == o.id
  <2>3. j \in 1 .. MaxSteps /\ o.qty \in 1 .. MaxQuantity /\ o.ts \in Nat
    BY <2>1, <2>2 DEF RestingOrder
  <2>4. o.qty \in Nat \ {0}
    BY <2>3, Ranges
  <2>5. Entry(o) = [id |-> j, qty |-> o.qty, ts |-> o.ts]
    BY DEF Entry
  <2> HIDE DEF o, j
  <2>6. Entry(o) \in E
    BY <2>3, <2>4, <2>5
  <2> QED BY <2>6 DEF o
<1> HIDE DEF E
<1>2. ASSUME NEW s \in Side, NEW p \in Level PROVE S(s, p) \in Seq(E)
  <2> DEFINE q == LevelAt(b, s, p)
  <2>1. q \in Seq(OrderIds(b))
    BY LevelLists
  <2> HIDE DEF q
  <2>2. Len(q) \in Nat /\ \A n \in 1 .. Len(q) : q[n] \in OrderIds(b)
    BY <2>1
  <2>3. \A n \in 1 .. Len(q) : Entry(b.orders[q[n]]) \in E
    BY <1>1, <2>2
  <2>4. Shows(b.orders, q) = [n \in 1 .. Len(q) |-> Entry(b.orders[q[n]])]
    BY DEF Shows
  <2> DEFINE h == [n \in 1 .. Len(q) |-> Entry(b.orders[q[n]])]
  <2>5. h \in Seq(E)
    BY <2>2, <2>3
  <2> QED BY <2>4, <2>5 DEF q
<1> HIDE DEF S
<1>3. Resting(b) = [s \in Side |-> [p \in Level |-> S(s, p)]]
  BY RestingIs DEF S
<1>4. Resting(b) \in [Side -> [Level -> Seq(E)]]
  BY <1>2, <1>3
<1> QED BY <1>4 DEF E

\* What the types need besides.
FlowTyped ==
    /\ Tallied(ref) /\ ref.lastSeq <= gen.seq
    /\ shown.cmd \in AllEvents \union {Mirror!ZeroCmd}
    /\ TradesTyped(shown.trades)
    /\ shown.ack.status = "OK" /\ shown.ack.rem \in Nat

\* Counts, commands, trades and answers keep their types.
LEMMA TypedAlways == Spec => []FlowTyped
<1>1. Init => FlowTyped
  <2> SUFFICES ASSUME Init PROVE FlowTyped
    OBVIOUS
  <2>1. ref = NewReference /\ gen = NewGenerator /\ shown = View(NoEvent, <<>>, EmptyBook)
    BY DEF Init
  <2>2. ref.gaps = 0 /\ ref.matched = 0 /\ ref.external = 0 /\ ref.received = 0
        /\ ref.lastSeq = 0 /\ gen.seq = 0
    BY <2>1 DEF NewReference, NewGenerator
  <2>3. Tallied(ref) /\ ref.lastSeq <= gen.seq
    BY <2>2 DEF Tallied
  <2>4. shown.cmd = Mirror!ZeroCmd /\ shown.trades = <<>> /\ shown.ack.status = "OK"
    BY <2>1 DEF View, NoEvent, Message, Mirror!ZeroCmd
  <2>5. shown.ack.rem = 0
    <3>1. OrderIds(EmptyBook) = {}
      BY EmptySound
    <3> QED BY <2>1, <3>1 DEF View
  <2>6. TradesTyped(<<>>)
    <3>1. DOMAIN <<>> = {}
      OBVIOUS
    <3> QED BY <3>1 DEF TradesTyped
  <2> QED BY <2>3, <2>4, <2>5, <2>6 DEF FlowTyped
<1>2. FlowInv /\ FlowCounted /\ FlowCounted' /\ FlowTyped /\ [Next]_vars => FlowTyped'
  <2> SUFFICES ASSUME FlowInv, FlowCounted, FlowCounted', FlowTyped, [Next]_vars
               PROVE  FlowTyped'
    OBVIOUS
  <2>1. CASE SendBatch
    <3>1. PICK m, res :
            /\ EventGood(gen, m, res)
            /\ shown' = View(m, res.trades, res.book)
            /\ m.type = "EXECUTE" => m.qty \in 1 .. gen.book.orders[m.id].qty
            /\ m.type # "ADD" => m.id \in OrderIds(gen.book)
            /\ m.type = "ADD" => m.id \notin OrderIds(gen.book)
            /\ m.id \in 1 .. MaxSteps
            /\ Known(gen.book)
            /\ shown'.cmd \in AllEvents
      BY <2>1, BatchSent
    <3>2. SoundBook(gen.book) /\ m \in Wire /\ res = Applied(gen.book, m) /\ SoundBook(res.book)
          /\ (m.type # "EXECUTE" => res.trades \in Seq(MadeTrade))
      BY <3>1, GenParts DEF FlowInv, FlowState, GoodBook, EventGood
    <3>3. TradesTyped(res.trades)
      BY <3>1, <3>2, EventNames
    <3>4. shown'.trades = res.trades /\ shown'.ack.status = "OK"
          /\ shown'.ack.rem = (IF m.id \in OrderIds(res.book) THEN res.book.orders[m.id].qty ELSE 0)
      BY <3>1 DEF View
    <3>5. shown'.ack.rem \in Nat
      <4>1. ASSUME m.id \in OrderIds(res.book) PROVE res.book.orders[m.id].qty \in Nat
        <5>1. res.book.orders[m.id] \in RestingOrder
          BY <3>2, <4>1 DEF SoundBook, SoundOrders
        <5> QED BY <5>1, Ranges DEF RestingOrder
      <4> QED BY <3>4, <4>1
    <3>6. ref' = ref /\ gen'.seq >= gen.seq /\ ref.lastSeq \in Nat /\ gen.seq \in Nat /\ gen'.seq \in Nat
      <4>1. PICK e \in Events(gen) : gen' = Batch(gen, e[1], e[2]).gen
        BY <2>1 DEF SendBatch
      <4>2. SoundGen(gen) /\ EventGood(gen, e[1], e[2])
        BY <4>1, EventsGood DEF FlowInv, FlowState
      <4> DEFINE l == Len(Batch(gen, e[1], e[2]).msgs)
                 f == Len(IF e[1].external THEN <<>> ELSE e[2].trades)
      <4>3. gen' = AfterBatch(gen, e[1], e[2], l, f)
        BY <4>1, <4>2, BatchGen
      <4>4. Batch(gen, e[1], e[2]).msgs \in Seq(Wire)
        BY <4>2, BatchMessages
      <4>5. l \in Nat
        BY <4>4
      <4> HIDE DEF l, f
      <4>6. gen'.seq = gen.seq + l
        BY <4>3 DEF AfterBatch
      <4>7. ref' = ref /\ gen.seq \in Nat /\ ref.lastSeq \in Nat
        BY <2>1, <4>2, GenParts DEF SendBatch, FlowInv, FlowState, SoundRef
      <4> QED BY <4>5, <4>6, <4>7
    <3>7. Tallied(ref') /\ ref'.lastSeq <= gen'.seq
      BY <3>6 DEF FlowTyped
    <3> QED BY <3>1, <3>3, <3>4, <3>5, <3>7 DEF FlowTyped
  <2>2. CASE Receive
    <3>1. gen' = gen /\ shown' = shown /\ feed # <<>> /\ feed \in Seq(Datagram)
          /\ SoundRef(ref) /\ gen.seq \in Nat
      BY <2>2, GenParts DEF Receive, FlowInv, FlowState
    <3>2. CASE ~Decodes(Head(feed))
      <4>1. ref' = ref
        BY <2>2, <3>2 DEF Receive
      <4> QED BY <3>1, <4>1 DEF FlowTyped
    <3>3. CASE Decodes(Head(feed))
      <4> DEFINE w == Head(feed)
      <4>1. ref' = ProcessMessage(ref, w).ref
        BY <2>2, <3>3 DEF Receive
      <4>2. w \in Wire /\ w.seq <= gen.seq
        <5>1. PICK st, rf : Flowing(st, rf, gen, feed, ref, rx, faults)
          BY DEF FlowInv, FlowState
        <5>2. Stream(st, rf, gen.seq) /\ OnlySent(st, gen.seq, feed)
          BY <5>1 DEF Flowing
        <5>3. w = feed[1] /\ 1 \in DOMAIN feed
          BY <3>1
        <5>4. w # Junk
          BY <3>3, JunkIsNone
        <5>5. PICK k \in 1 .. gen.seq : w = st[k]
          BY <5>2, <5>3, <5>4 DEF OnlySent
        <5>6. w \in Wire /\ w.seq = k
          BY <5>2, <5>5 DEF Stream
        <5> QED BY <3>1, <5>6
      <4> HIDE DEF w
      <4>3. Tallied(ref')
        BY <3>1, <4>1, <4>2, ProcessTallies DEF FlowTyped
      <4>4. ref'.lastSeq = IF w.seq = 0 THEN ref.lastSeq ELSE w.seq
        BY <3>1, <4>1, <4>2, ProcessKeeps
      <4>5. ref'.lastSeq <= gen'.seq
        BY <3>1, <4>2, <4>4 DEF FlowTyped
      <4> QED BY <3>1, <4>3, <4>5 DEF FlowTyped
    <3> QED BY <3>2, <3>3
  <2>3. CASE TimeOut \/ Lose \/ Duplicate \/ Reorder \/ Foreign \/ UNCHANGED vars
    <3>1. gen' = gen /\ shown' = shown /\ ref' = ref
      BY <2>3 DEF TimeOut, Lose, Duplicate, Reorder, Foreign, Fault, vars
    <3> QED BY <3>1 DEF FlowTyped
  <2> QED BY <2>1, <2>2, <2>3 DEF Next
<1> QED BY <1>1, <1>2, FlowCorrect, BatchesCounted, PTL DEF Spec

\* The consumer's loop is listening, has raised or has given up.
LEMMA LoopTyped == Spec => [](rx \in {"listening", "raised", "timeout"})
<1>1. Init => rx \in {"listening", "raised", "timeout"}
  BY DEF Init
<1>2. rx \in {"listening", "raised", "timeout"} /\ [Next]_vars
        => (rx \in {"listening", "raised", "timeout"})'
  BY DEF Next, SendBatch, Receive, TimeOut, Lose, Duplicate, Reorder, Foreign, Fault, vars
<1> QED BY <1>1, <1>2, PTL DEF Spec

\* The types of the feed and its two ends, the mirror's as an abstract book
\* included: ids and times are never used twice, and the counts of the consumer
\* never run ahead of what it received and of what was sent.
THEOREM FlowTypeCorrect == Spec => []TypeOK
<1>1. FlowInv /\ FlowAged /\ FlowCounted /\ FlowTyped /\ rx \in {"listening", "raised", "timeout"}
        => TypeOK
  <2> SUFFICES ASSUME FlowInv, FlowAged, FlowCounted, FlowTyped,
                      rx \in {"listening", "raised", "timeout"}
               PROVE  TypeOK
    OBVIOUS
  <2>1. SoundGen(gen) /\ SoundRef(ref) /\ feed \in Seq(Datagram)
    BY DEF FlowInv, FlowState
  <2>2. SoundBook(gen.book) /\ gen.live = OrderIds(gen.book) /\ gen.seq \in Nat
        /\ \A i \in gen.live : i < gen.nextId
    BY <2>1, GenParts DEF GoodBook
  <2>3. \A n \in DOMAIN feed : feed[n] \in Msg
    <3>1. \A n \in DOMAIN feed : feed[n] \in Datagram
      BY <2>1
    <3>2. Datagram \subseteq Msg
      BY DEF Datagram, Wire, Msg
    <3> QED BY <3>1, <3>2
  <2>4. sent + faults \in 0 .. MaxSteps
    BY StepsAssumption DEF FlowCounted
  <2>5. \A id \in gen.live : gen.book.orders[id].ts <= gen.ts
    BY <2>2 DEF FlowAged, Aged
  <2>6. {ref.gaps, ref.matched, ref.external} \subseteq 0 .. ref.received
    BY DEF FlowTyped, Tallied
  <2>7. ref.lastSeq \in 0 .. gen.seq
    BY <2>1, <2>2 DEF FlowTyped, SoundRef
  <2>8. Mirror!TypeOK
    <3>1. Known(gen.book)
      <4>1. 1 .. sent \subseteq 1 .. MaxSteps
        BY StepsAssumption DEF FlowCounted
      <4> QED BY <4>1 DEF FlowCounted, Known
    <3>2. shown.book \in [Side -> [Level -> Seq([id : 1 .. MaxSteps, qty : Nat \ {0}, ts : Nat])]]
      BY <2>2, <3>1, RestingTyped DEF FlowAged
    <3>3. \A n \in DOMAIN shown.trades :
            /\ {shown.trades[n].buy, shown.trades[n].sell} \subseteq 1 .. MaxSteps \union {NoId}
            /\ shown.trades[n].price \in Level /\ shown.trades[n].qty > 0
      BY DEF FlowTyped, TradesTyped
    <3>4. shown.ack.status \in Mirror!AckStatus /\ shown.ack.rem \in Nat
      BY DEF FlowTyped, Mirror!AckStatus
    <3>5. shown.cmd \in AllEvents \union {Mirror!ZeroCmd}
      BY DEF FlowTyped
    <3> QED BY <3>2, <3>3, <3>4, <3>5, MirrorWords DEF Mirror!TypeOK
  <2> QED BY <2>2, <2>3, <2>4, <2>5, <2>6, <2>7, <2>8 DEF TypeOK
<1> QED BY <1>1, FlowCorrect, AgedAlways, BatchesCounted, TypedAlways, LoopTyped, PTL

=============================================================================
