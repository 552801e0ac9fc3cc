------------------------- MODULE BoardPassesProofs -------------------------
(***************************************************************************)
(* What a test does on a board that was just programmed, over a network that *)
(* loses nothing: it does not fail (GoodBoardsPass).                         *)
(*                                                                           *)
(* The argument, in the order of the sections.  The reports a host expects,  *)
(* folded over the trades, are those the board makes.  The scripts, and any  *)
(* random orders fewer than the board holds, keep the book small enough that *)
(* the board refuses nothing but the one order that is to be refused.  A     *)
(* board whose register of the last command is untouched is as it was        *)
(* programmed.  So what a stress test waits for is what is under way to it;  *)
(* the smoke test is sent its acknowledgements; the demo's buy takes its sell*)
(* and leaves 30.  The inductive invariant GoodInv is AgreeInv of            *)
(* BoardHostProofs and, while nothing was lost, one conjunct for each of     *)
(* these programs.                                                           *)
(***************************************************************************)
EXTENDS BoardHostProofs

-----------------------------------------------------------------------------
(* The reports a test expects are those the board makes.                     *)

\* What a trade adds to the reports expected.
More(reps, t, first) ==
    LET seq == first + Len(reps) IN
    reps \o IF t.buy # NoId /\ t.sell # NoId
            THEN <<Report("BUY", FALSE, seq, t.buy, t),
                   Report("SELL", FALSE, seq + 1, t.sell, t)>>
            ELSE <<Report(IF t.buy # NoId THEN "BUY" ELSE "SELL", TRUE, seq,
                          IF t.buy # NoId THEN t.buy ELSE t.sell, t)>>

\* It is what the board reports.
LEMMA MoreReports ==
    ASSUME NEW reps, NEW t, NEW first
    PROVE  More(reps, t, first) = reps \o TradeReports(t, first + Len(reps))
BY DEF More, TradeReports

\* The fold of the reference's trades, over any of them.
Folded(f, made, first, k) ==
    f = [s \in SUBSET (1 .. k) |->
            IF s = {} THEN <<>>
            ELSE LET x == Max(s) IN More(f[s \ {x}], made[x], first)]

\* The greatest of the first numbers.
LEMMA GreatestUpTo ==
    ASSUME NEW k \in Nat \ {0}
    PROVE  Max(1 .. k) = k /\ (1 .. k) \ {k} = 1 .. k - 1
<1>1. \A x \in 1 .. k : (\A y \in 1 .. k : x >= y) <=> x = k
  OBVIOUS
<1>2. k \in 1 .. k
  OBVIOUS
<1> QED BY <1>1, <1>2 DEF Max

\* There is such a fold.
LEMMA FoldExists ==
    ASSUME NEW made, NEW first, NEW k \in Nat
    PROVE  \E f : Folded(f, made, first, k)
<1> DEFINE good(j) == \E f : Folded(f, made, first, j)
           Bad     == {j \in Nat : ~good(j)}
<1>1. good(0)
  <2> DEFINE f == [s \in SUBSET (1 .. 0) |-> <<>>]
  <2>1. \A s \in SUBSET (1 .. 0) : s = {}
    OBVIOUS
  <2>2. f = [s \in SUBSET (1 .. 0) |->
            IF s = {} THEN <<>>
            ELSE LET x == Max(s) IN More(f[s \ {x}], made[x], first)]
    BY <2>1
  <2> QED BY <2>2 DEF Folded
<1>2. ASSUME NEW j \in Nat, good(j) PROVE good(j + 1)
  <2>1. PICK g : Folded(g, made, first, j)
    BY <1>2
  <2>2. g = [s \in SUBSET (1 .. j) |->
            IF s = {} THEN <<>>
            ELSE LET x == Max(s) IN More(g[s \ {x}], made[x], first)]
    BY <2>1 DEF Folded
  <2> DEFINE f == [s \in SUBSET (1 .. j + 1) |->
                     IF j + 1 \in s THEN More(g[s \ {j + 1}], made[j + 1], first) ELSE g[s]]
             rest(s) == s \ {Max(s)}
  <2>3. ASSUME NEW s \in SUBSET (1 .. j + 1)
        PROVE  f[s] = IF s = {} THEN <<>> ELSE More(f[rest(s)], made[Max(s)], first)
    <3>1. CASE j + 1 \in s
      <4>1. Max(s) = j + 1
        <5>1. \A x \in s : (\A y \in s : x >= y) <=> x = j + 1
          BY <3>1
        <5> QED BY <3>1, <5>1 DEF Max
      <4>2. rest(s) \in SUBSET (1 .. j + 1) /\ j + 1 \notin rest(s) /\ s # {}
        BY <3>1, <4>1
      <4>3. f[rest(s)] = g[rest(s)] /\ f[s] = More(g[s \ {j + 1}], made[j + 1], first)
        BY <3>1, <4>2
      <4> HIDE DEF f
      <4> QED BY <4>1, <4>2, <4>3
    <3>2. CASE j + 1 \notin s /\ s # {}
      <4>1. s \in SUBSET (1 .. j)
        BY <3>2
      <4>2. g[s] = More(g[rest(s)], made[Max(s)], first)
        BY <2>2, <3>2, <4>1
      <4>3. rest(s) \in SUBSET (1 .. j + 1) /\ j + 1 \notin rest(s)
        BY <3>2
      <4>4. f[s] = g[s] /\ f[rest(s)] = g[rest(s)]
        BY <3>2, <4>3
      <4> HIDE DEF f, rest
      <4> QED BY <3>2, <4>2, <4>4
    <3>3. CASE s = {}
      <4>1. s \in SUBSET (1 .. j)
        BY <3>3
      <4>2. g[s] = <<>>
        BY <2>2, <3>3, <4>1
      <4>3. f[s] = g[s]
        BY <3>3
      <4> HIDE DEF f
      <4> QED BY <3>3, <4>2, <4>3
    <3> QED BY <3>1, <3>2, <3>3
  <2>4. f = [s \in SUBSET (1 .. j + 1) |-> f[s]]
    OBVIOUS
  <2> HIDE DEF f
  <2>5. Folded(f, made, first, j + 1)
    BY <2>3, <2>4 DEF Folded
  <2> QED BY <2>5
<1> HIDE DEF good
<1>3. Bad = {}
  <2> SUFFICES ASSUME Bad # {} PROVE FALSE
    OBVIOUS
  <2>1. PICK j \in Bad : \A n \in Bad : j <= n
    BY LeastNatural
  <2>2. j # 0
    BY <1>1
  <2>3. j - 1 \in Nat /\ j = (j - 1) + 1
    BY <2>2
  <2>4. good(j - 1)
    BY <2>1, <2>3
  <2>5. good(j)
    BY <1>2, <2>3, <2>4
  <2> QED BY <2>5
<1>4. good(k)
  BY <1>3
<1> QED BY <1>4 DEF good

\* A test expects the reports that the board makes.
LEMMA ReportsExpected ==
    ASSUME NEW made, Sequence(made), NEW first
    PROVE  ExpectedReports(made, first) = AllReports(made, first)
<1> DEFINE k == Len(made)
           body(g) == [s \in SUBSET (1 .. k) |->
                         IF s = {} THEN <<>>
                         ELSE LET x == Max(s) IN More(g[s \ {x}], made[x], first)]
           f == CHOOSE g : g = body(g)
<1>1. k \in Nat /\ DOMAIN made = 1 .. k
  BY Grows
<1>2. ExpectedReports(made, first) = f[1 .. k]
  BY <1>1 DEF ExpectedReports, FoldLeft, MapThenFoldSet, More
<1> HIDE DEF k
<1>3. \E g : g = body(g)
  <2>1. PICK g : Folded(g, made, first, k)
    BY <1>1, FoldExists
  <2>2. g = body(g)
    BY <2>1 DEF Folded
  <2> QED BY <2>2
<1>4. f = body(f)
  BY <1>3
<1> HIDE DEF f
<1>5. PICK a : Reporting(a, made, first) /\ AllReports(made, first) = a[k]
  BY <1>1, ReportsAre DEF k
<1>6. a[0] = <<>> /\ \A n \in 1 .. k : a[n] = a[n - 1] \o TradeReports(made[n], first + Len(a[n - 1]))
  BY <1>5 DEF Reporting, k
<1> DEFINE Bad == {n \in 0 .. k : f[1 .. n] # a[n]}
<1>7. f[1 .. 0] = a[0]
  <2>1. 1 .. 0 = {} /\ {} \in SUBSET (1 .. k)
    OBVIOUS
  <2> QED BY <1>4, <1>6, <2>1
<1>8. ASSUME NEW n \in 1 .. k, f[1 .. n - 1] = a[n - 1] PROVE f[1 .. n] = a[n]
  <2>1. Max(1 .. n) = n /\ (1 .. n) \ {n} = 1 .. n - 1
    BY <1>1, GreatestUpTo
  <2>2. 1 .. n \in SUBSET (1 .. k) /\ 1 .. n # {}
    <3>1. n \in 1 .. n /\ \A i \in 1 .. n : i \in 1 .. k
      BY <1>1
    <3> QED BY <3>1
  <2>3. f[1 .. n] = More(f[1 .. n - 1], made[n], first)
    BY <1>4, <2>1, <2>2
  <2> QED BY <1>6, <1>8, <2>3, MoreReports
<1>9. Bad = {}
  <2> SUFFICES ASSUME Bad # {} PROVE FALSE
    OBVIOUS
  <2>1. PICK n \in Bad : \A m \in Bad : n <= m
    <3>1. Bad \subseteq Nat
      BY <1>1
    <3> HIDE DEF Bad
    <3> QED BY <3>1, LeastNatural
  <2>2. n # 0
    BY <1>7
  <2>3. n \in 1 .. k /\ n - 1 \in 0 .. k /\ n - 1 < n
    BY <1>1, <2>2
  <2>4. f[1 .. n - 1] = a[n - 1]
    BY <1>1, <2>1, <2>3
  <2> QED BY <1>8, <2>3, <2>4
<1>10. f[1 .. k] = a[k]
  BY <1>1, <1>9
<1> QED BY <1>2, <1>5, <1>10

-----------------------------------------------------------------------------
(* A command the board has room for is taken; one more is refused.           *)

\* The board has room for it and a level.
Admits(b, m) == (m.type = "ADD" => Cardinality(OrderIds(b)) < Room) /\ m.price < NumLevels

\* A command in order that the board can take is taken.
LEMMA TakesInOrder ==
    ASSUME NEW b, Fine(b), book = Resting(b), NEW m, Sendable(m), InOrder(b, m), Admits(b, m),
           Board!Process(Bare(m))
    PROVE  Followed(m, Taken(b, m)) /\ Fine(Taken(b, m).book)
<1> DEFINE c == Bare(m)
<1>1. /\ c.type = m.type /\ c.id = m.id /\ c.price = m.price /\ c.qty = m.qty
  BY BareIs
<1>2. /\ m.type # "ADD" => m.id \in OrderIds(b)
      /\ m.type = "ADD" => m.id \notin OrderIds(b)
      /\ m.type \in {"ADD", "MODIFY"} => m.price > 0 /\ m.qty > 0
      /\ m.type = "EXECUTE" => m.qty \in 1 .. b.orders[m.id].qty
  BY TakenInOrder
<1>3. /\ Board!Live(book) = OrderIds(b)
      /\ Board!Cardinality(Board!Places(book)) = Cardinality(OrderIds(b))
      /\ \A i : Board!Remaining(book, i) = IF i \in OrderIds(b) THEN b.orders[i].qty ELSE 0
      /\ Cardinality(OrderIds(b)) \in Nat
  BY FeedPlaces DEF Fine, Feed!GoodBook
<1>4. m.price \in Nat /\ m.qty \in Nat
  BY RangeAssumption DEF Sendable, Quantities
<1> HIDE DEF c
<1>5. ~Board!BadField(c)
  BY <1>1, <1>2, <1>4 DEF Board!BadField, Board!PriceInRange, Admits
<1>6. ~Board!RejectField(c)
  BY <1>5 DEF Board!RejectField
<1>7. ~Board!AddFull(c)
  BY <1>1, <1>3, BoardAssumption DEF Board!AddFull, Admits, Room
<1>8. ~Board!AddRefused(c)
  BY <1>1, <1>2, <1>3 DEF Board!AddRefused
<1>9. ~Board!NotLive(c)
  BY <1>1, <1>2, <1>3 DEF Board!NotLive
<1>10. ~Board!ExecuteBad(c)
  <2> SUFFICES ASSUME Board!ExecuteBad(c) PROVE FALSE
    OBVIOUS
  <2>1. m.type = "EXECUTE" /\ m.id \in OrderIds(b) /\ (m.qty = 0 \/ m.qty > b.orders[m.id].qty)
    BY <1>1, <1>3 DEF Board!ExecuteBad
  <2>2. b.orders[m.id].qty \in 1 .. MaxQuantity + 100
    BY <2>1, FeedPlaces DEF Fine, Feed!GoodBook, Feed!RestingOrder
  <2> QED BY <1>2, <1>4, <2>1, <2>2, RangeAssumption
<1>11. \/ Board!Add(c) \/ Board!Cancel(c) \/ Board!ModifyQty(c) \/ Board!ModifyPrice(c) \/ Board!Execute(c)
  BY <1>6, <1>7, <1>8, <1>9, <1>10 DEF Board!Process, c
<1> QED BY <1>11, AddsAlike, CancelsAlike, ModifiesAlike, ExecutesAlike DEF c

\* An addition to a full board is refused.
LEMMA RefusesFull ==
    ASSUME NEW b, Fine(b), book = Resting(b), NEW m, m.type = "ADD", m.price \in 1 .. NumLevels - 1,
           m.qty \in Nat \ {0}, m.id \notin OrderIds(b), Cardinality(OrderIds(b)) = Room,
           Board!Process(Bare(m))
    PROVE  /\ book' = book /\ trades' = <<>>
           /\ ack' = ExpectedAck(m, "FULL", b)
<1> DEFINE c == Bare(m)
<1>1. /\ c.type = m.type /\ c.id = m.id /\ c.price = m.price /\ c.qty = m.qty
  BY BareIs
<1>2. /\ Board!Live(book) = OrderIds(b)
      /\ Board!Cardinality(Board!Places(book)) = Cardinality(OrderIds(b))
      /\ Board!Shown(book, "BUY") = BestPrice(b, "BUY")
      /\ Board!Shown(book, "SELL") = BestPrice(b, "SELL")
      /\ Cardinality(OrderIds(b)) \in Nat
  BY FeedPlaces DEF Fine, Feed!GoodBook
<1> HIDE DEF c
<1>3. ~Board!BadField(c)
  BY <1>1, NumLevelsAssumption DEF Board!BadField, Board!PriceInRange
<1>4. ~Board!RejectField(c)
  BY <1>3 DEF Board!RejectField
<1>5. ~(Board!Cardinality(Board!Places(book)) < BoardOrders - 1)
  BY <1>2, BoardAssumption DEF Room
<1>6. ~Board!AddRefused(c) /\ ~Board!Add(c)
  BY <1>5 DEF Board!AddRefused, Board!Add
<1>7. ~Board!NotLive(c) /\ ~Board!Cancel(c) /\ ~Board!ModifyQty(c) /\ ~Board!ModifyPrice(c)
      /\ ~Board!ExecuteBad(c) /\ ~Board!Execute(c)
  BY <1>1 DEF Board!NotLive, Board!Cancel, Board!ModifyQty, Board!ModifyPrice, Board!ExecuteBad,
     Board!Execute
<1>8. Board!AddFull(c)
  BY <1>4, <1>6, <1>7 DEF Board!Process, c
<1>9. Board!Answer(c, "FULL", 0, <<>>, book)
  BY <1>8 DEF Board!AddFull, Board!Reject
<1> QED BY <1>1, <1>2, <1>9 DEF Board!Answer, ExpectedAck

\* What the reference takes leaves the orders it had, and an addition's own.
LEMMA TakenIds ==
    ASSUME NEW b, Fine(b), NEW m, Sendable(m), InOrder(b, m), m.price < NumLevels
    PROVE  LET r == Taken(b, m) IN
           OrderIds(r.book) \subseteq OrderIds(b) \union (IF m.type = "ADD" THEN {m.id} ELSE {})
<1>1. /\ m.type # "ADD" => m.id \in OrderIds(b)
      /\ m.type = "ADD" => m.id \notin OrderIds(b)
      /\ m.type \in {"ADD", "MODIFY"} => m.price > 0 /\ m.qty > 0
      /\ m.type = "EXECUTE" => m.qty \in 1 .. b.orders[m.id].qty
  BY TakenInOrder
<1>2. /\ m.price \in Nat /\ m.qty \in 0 .. MaxQuantity + 100 /\ m.id \in Nat /\ m.ts \in Nat /\ m.side \in Side
      /\ m.type \in {"ADD", "CANCEL", "MODIFY", "EXECUTE"} /\ m.qty \in Nat
  BY RangeAssumption DEF Sendable, Quantities, MsgType
<1>3. Feed!GoodBook(b)
  BY DEF Fine
<1>4. m.type \in {"ADD", "MODIFY"} => m.price \in Priced /\ m.qty \in 1 .. MaxQuantity + 100
  BY <1>1, <1>2, NumLevelsAssumption, RangeAssumption DEF Priced
<1>5. CASE m.type = "ADD"
  <2> DEFINE i == m.id
             s == m.side
             p == m.price
             q == m.qty
             t == m.ts
             o == Order(i, s, p, q, t)
  <2>1. i \in Nat /\ s \in Side /\ p \in Priced /\ q \in 1 .. MaxQuantity + 100 /\ t \in Nat
    BY <1>2, <1>4, <1>5
  <2>2. o \in Feed!RestingOrder /\ o.id = i
    <3> HIDE DEF i, s, p, q, t
    <3> QED BY <2>1, OrderRests
  <2>3. i \notin Feed!OrderIds(b)
    BY <1>1, <1>5, FeedBest
  <2> HIDE DEF o
  <2>4. Feed!OrderIds(Feed!AddOrder(b, o).book) \subseteq Feed!OrderIds(b) \union {o.id}
    BY <1>3, <2>2, <2>3, Feed!AddGood, FeedOK DEF Feed!RangeAssumption, Feed!StepsAssumption, Feed!NumLevelsAssumption
  <2>5. Taken(b, m) = AddOrder(b, o)
    BY <1>5, TakenIs DEF o
  <2> QED BY <1>5, <2>2, <2>4, <2>5, FeedBest, FeedMethods
<1>6. CASE m.type = "CANCEL"
  <2> DEFINE i == m.id
  <2>1. i \in Feed!OrderIds(b)
    BY <1>1, <1>6, FeedBest
  <2> HIDE DEF i
  <2>2. Feed!OrderIds(Feed!CancelOrder(b, i).book) \subseteq Feed!OrderIds(b)
    BY <1>3, <2>1, Feed!CancelGood, FeedOK DEF Feed!RangeAssumption, Feed!StepsAssumption, Feed!NumLevelsAssumption
  <2>3. Taken(b, m) = CancelOrder(b, i)
    BY <1>6, TakenIs DEF i
  <2> QED BY <1>6, <2>2, <2>3, FeedBest, FeedMethods
<1>7. CASE m.type = "MODIFY"
  <2> DEFINE i == m.id
             p == m.price
             q == m.qty
             t == m.ts
  <2>1. i \in Feed!OrderIds(b) /\ q \in 1 .. MaxQuantity + 100 /\ p \in 1 .. NumLevels - 1 /\ t \in Nat
    BY <1>1, <1>2, <1>4, <1>7, FeedBest DEF Priced
  <2>2. Taken(b, m) = ModifyOrder(b, i, q, p, t)
    BY <1>7, TakenIs
  <2> HIDE DEF i, p, q, t
  <2>3. Feed!OrderIds(Feed!ModifyOrder(b, i, q, p, t).book) \subseteq Feed!OrderIds(b)
    BY <1>3, <2>1, Feed!ModifyGood, FeedOK DEF Feed!RangeAssumption, Feed!StepsAssumption, Feed!NumLevelsAssumption
  <2> QED BY <1>7, <2>2, <2>3, FeedBest, FeedMethods
<1>8. CASE m.type = "EXECUTE"
  <2> DEFINE i == m.id
             q == m.qty
             t == m.ts
  <2>1. i \in Feed!OrderIds(b) /\ q \in 1 .. b.orders[i].qty /\ q \in Nat
    BY <1>1, <1>2, <1>8, FeedBest
  <2>2. Taken(b, m) = ExecuteOrder(b, i, q, t)
    BY <1>8, TakenIs
  <2> HIDE DEF i, q, t
  <2>3. Feed!OrderIds(Feed!ExecuteOrder(b, i, q, t).book) \subseteq Feed!OrderIds(b)
    BY <1>3, <2>1, Feed!ExecuteGood, FeedOK DEF Feed!RangeAssumption, Feed!StepsAssumption, Feed!NumLevelsAssumption
  <2> QED BY <1>8, <2>2, <2>3, FeedBest, FeedMethods
<1> QED BY <1>2, <1>5, <1>6, <1>7, <1>8

\* An order more on its level.
LEMMA InsertLevels ==
    ASSUME NEW b, Shaped(b), NEW s \in Side, NEW p \in Level, NEW e, Entry(e)
    PROVE  /\ Replaced(s, p, Append(b[s][p], e), Board!Insert(b, s, p, e), b)
           /\ Append(b[s][p], e) # <<>> /\ Len(Append(b[s][p], e)) = Len(b[s][p]) + 1
           /\ Append(b[s][p], e)[Len(b[s][p]) + 1] = e
           /\ \A i \in 1 .. Len(b[s][p]) : Append(b[s][p], e)[i] = b[s][p][i]
<1> DEFINE q == b[s][p]
           r == Append(q, e)
<1>1. Board!Insert(b, s, p, e) = [b EXCEPT ![s][p] = r]
  BY DEF Board!Insert
<1>2. Filed(q)
  BY DEF Shaped
<1> HIDE DEF q
<1>3. /\ Filed(r) /\ Len(r) = Len(q) + 1 /\ Len(q) \in Nat
      /\ \A n \in 1 .. Len(q) + 1 : r[n] = IF n = Len(q) + 1 THEN e ELSE q[n]
  BY <1>2, AppendFiled, FiledLength
<1> HIDE DEF r
<1>4. Replaced(s, p, r, [b EXCEPT ![s][p] = r], b)
  BY <1>3, LevelPut
<1>5. r # <<>>
  BY <1>3, FiledLength
<1>6. r[Len(q) + 1] = e /\ \A i \in 1 .. Len(q) : r[i] = q[i]
  BY <1>3
<1> QED BY <1>1, <1>3, <1>4, <1>5, <1>6 DEF q, r

\* Every order of a book is one of the book with one more, and so is that one.
LEMMA InsertLive ==
    ASSUME NEW b, Roomy(b), Cardinality(Board!Places(b)) < Room,
           NEW s \in Side, NEW p \in Level, NEW e, Entry(e)
    PROVE  Board!Live(b) \union {e.id} \subseteq Board!Live(Board!Insert(b, s, p, e))
<1> DEFINE a == Board!Insert(b, s, p, e)
           q == b[s][p]
           r == Append(q, e)
<1>1. /\ Replaced(s, p, r, a, b) /\ Len(r) = Len(q) + 1 /\ r[Len(q) + 1] = e
      /\ \A i \in 1 .. Len(q) : r[i] = q[i]
  BY InsertLevels DEF Roomy
<1>2. Roomy(a)
  BY InsertRoomy
<1>3. Filed(q) /\ Len(q) \in Nat /\ DOMAIN q = 1 .. Len(q)
  BY FiledLength DEF Roomy, Shaped
<1> HIDE DEF a, q, r
<1>4. \A t \in Side, l \in Level : \A i \in 1 .. Len(a[t][l]) : a[t][l][i].id \in Board!Live(a)
  <2> SUFFICES ASSUME NEW t \in Side, NEW l \in Level, NEW i \in 1 .. Len(a[t][l])
               PROVE  a[t][l][i].id \in Board!Live(a)
    OBVIOUS
  <2>1. <<t, l, i>> \in Board!Places(a)
    BY <1>2, Holds DEF Roomy
  <2>2. Board!OrderAt(a, <<t, l, i>>) = a[t][l][i]
    BY DEF Board!OrderAt
  <2> QED BY <2>1, <2>2 DEF Board!Live
<1>5. e.id \in Board!Live(a)
  <2>1. a[s][p] = r /\ Len(q) + 1 \in 1 .. Len(r)
    BY <1>1, <1>3 DEF Replaced
  <2> QED BY <1>1, <1>4, <2>1
<1>6. ASSUME NEW i \in Board!Live(b) PROVE i \in Board!Live(a)
  <2>1. PICK k \in Board!Places(b) : Board!OrderAt(b, k).id = i
    BY DEF Board!Live
  <2>2. k = <<k[1], k[2], k[3]>> /\ k[1] \in Side /\ k[2] \in Level /\ k[3] \in DOMAIN b[k[1]][k[2]]
    <3>1. k = <<k[1], k[2], k[3]>>
      BY <2>1, PlaceIs
    <3> QED BY <2>1, <3>1, PlaceIs
  <2> DEFINE t == k[1]
             l == k[2]
             n == k[3]
             z == b[t][l]
  <2>3. z[n].id = i /\ Filed(z)
    BY <2>1, <2>2 DEF Board!OrderAt, Roomy, Shaped
  <2>4. n \in 1 .. Len(z)
    <3> HIDE DEF z
    <3>1. n \in DOMAIN z
      BY <2>2 DEF z
    <3> QED BY <2>3, <3>1, FiledLength
  <2>5. n \in 1 .. Len(a[t][l]) /\ a[t][l][n] = z[n]
    <3>1. CASE t = s /\ l = p
      <4>1. a[t][l] = r /\ z = q
        BY <1>1, <2>2, <3>1 DEF Replaced, q
      <4> QED BY <1>1, <1>3, <2>4, <4>1
    <3>2. CASE ~(t = s /\ l = p)
      <4>1. a[t][l] = z
        BY <1>1, <2>2, <3>2 DEF Replaced
      <4> QED BY <2>4, <4>1
    <3> QED BY <3>1, <3>2
  <2> QED BY <1>4, <2>2, <2>3, <2>5
<1> QED BY <1>5, <1>6 DEF a

\* An order that meets none rests.
LEMMA AddUncrossed ==
    ASSUME NEW b, Fine(b), Roomy(Resting(b)), NEW o \in Feed!RestingOrder, o.id \notin OrderIds(b),
           Cardinality(OrderIds(b)) < Room, NEW a,
           a = Board!Insert(Resting(b), o.side, o.price, [id |-> o.id, qty |-> o.qty, ts |-> o.ts]),
           ~Board!Crossed(a)
    PROVE  Resting(AddOrder(b, o).book) = a /\ OrderIds(b) \union {o.id} \subseteq OrderIds(AddOrder(b, o).book)
<1> DEFINE r == AddOrder(b, o)
           e == [id |-> o.id, qty |-> o.qty, ts |-> o.ts]
           y == Resting(b)
<1>1. /\ Board!Match(a) = [book |-> Resting(r.book), trades |-> r.trades]
      /\ Fine(r.book)
  BY FeedAdds DEF Room
<1>2. Board!Match(a) = [book |-> a, trades |-> <<>>]
  BY MatchRests
<1> HIDE DEF r
<1>3. Resting(r.book) = a
  BY <1>1, <1>2
<1>4. o.side \in Side /\ o.price \in Level
  BY FeedBest, NumLevelsAssumption DEF Feed!RestingOrder, Level
<1>5. Entry(e) /\ e.id = o.id
  BY DEF Entry
<1>6. /\ Board!Live(y) = OrderIds(b) /\ Cardinality(Board!Places(y)) = Cardinality(OrderIds(b))
      /\ Board!Live(Resting(r.book)) = OrderIds(r.book)
  BY <1>1, FeedPlaces, Counts DEF Fine, Feed!GoodBook
<1> HIDE DEF e, y
<1>7. a = Board!Insert(y, o.side, o.price, e) /\ Roomy(y)
  BY DEF e, y
<1>8. Board!Live(y) \union {e.id} \subseteq Board!Live(a)
  BY <1>4, <1>5, <1>6, <1>7, InsertLive
<1> QED BY <1>3, <1>5, <1>6, <1>8 DEF r

-----------------------------------------------------------------------------
(* The scripts on a board that was just programmed.                          *)

\* An order that a stress test has fixed, field by field.
LEMMA AddOfIs ==
    ASSUME NEW n, NEW id, NEW price, NEW qty, NEW side
    PROVE  LET m == AddOf(n, id, price, qty, side) IN
           m.type = "ADD" /\ m.id = id /\ m.price = price /\ m.qty = qty /\ m.side = side /\ m.ts = n
BY DEF AddOf, Message

\* The orders that the tests have fixed have ids of their own; one of them is changed.
LEMMA ScriptFresh ==
    ASSUME NEW prog \in Scripted, NEW n \in 1 .. Len(Script(prog))
    PROVE  LET m == Script(prog)[n] IN
           /\ m.price \in Priced /\ m.qty \in 1 .. 100
           /\ \/ m.type = "ADD" /\ \A k \in 1 .. n - 1 : Script(prog)[k].id # m.id
              \/ m.type = "MODIFY" /\ prog = "parallel" /\ n = 3 /\ m.id = 2
           /\ prog = "capacity" => /\ m.id = n /\ m.type = "ADD" /\ m.side = "BUY" /\ m.price = 1
                                   /\ Len(Script(prog)) = BoardOrders
           /\ prog # "capacity" => Len(Script(prog)) \in 1 .. 7
           /\ prog = "parallel" => Len(Script(prog)) = 3
           /\ prog = "parallel" /\ n = 1 => m = AddOf(1, 1, 2, 10, "SELL")
           /\ prog = "parallel" /\ n = 2 => m = AddOf(2, 2, 1, 10, "BUY")
<1> DEFINE m == Script(prog)[n]
<1>1. 1 .. 4 \subseteq Priced
  BY ScriptsAssumption, NumLevelsAssumption DEF Priced
<1>2. CASE prog = "capacity"
  <2>1. Script(prog) = [i \in 1 .. BoardOrders |-> AddOf(i, i, 1, 1, "BUY")]
    BY <1>2 DEF Script
  <2>2. Len(Script(prog)) = BoardOrders
    BY <2>1, BoardAssumption
  <2>3. \A i \in 1 .. BoardOrders : Script(prog)[i] = AddOf(i, i, 1, 1, "BUY")
    BY <2>1, BoardAssumption
  <2>4. \A i \in 1 .. BoardOrders : LET x == Script(prog)[i] IN
            x.type = "ADD" /\ x.id = i /\ x.price = 1 /\ x.qty = 1 /\ x.side = "BUY"
    BY <2>3, AddOfIs
  <2>5. \A k \in 1 .. n - 1 : k \in 1 .. BoardOrders /\ k # n
    BY <2>2, BoardAssumption
  <2>6. m.type = "ADD" /\ m.id = n /\ m.price = 1 /\ m.qty = 1 /\ m.side = "BUY"
    BY <2>2, <2>4
  <2>7. \A k \in 1 .. n - 1 : Script(prog)[k].id # m.id
    BY <2>4, <2>5, <2>6
  <2> HIDE DEF m
  <2> QED BY <1>1, <1>2, <2>2, <2>6, <2>7 DEF m
<1>3. CASE prog = "parallel"
  <2> DEFINE a == AddOf(1, 1, 2, 10, "SELL")
             b == AddOf(2, 2, 1, 10, "BUY")
             p == Script("parallel")
             c == p[3]
  <2>0. Len(p) = 3
    BY DEF Script
  <2>1. p[1] = a
    BY DEF Script
  <2>9. p[2] = b
    BY DEF Script
  <2>2. /\ a.type = "ADD" /\ a.id = 1 /\ a.price = 2 /\ a.qty = 10
        /\ b.type = "ADD" /\ b.id = 2 /\ b.price = 1 /\ b.qty = 10
    BY AddOfIs
  <2>3. c.type = "MODIFY" /\ c.id = 2 /\ c.price = 3 /\ c.qty = 10
    BY DEF Script, Message
  <2> HIDE DEF a, b, c, p
  <2>10. Script(prog) = p
    BY <1>3 DEF p
  <2>4. Len(p) = 3 /\ p[1] = a /\ p[2] = b /\ p[3] = c
    BY <2>0, <2>1, <2>9 DEF c
  <2>5. n = 1 \/ n = 2 \/ n = 3
    BY <2>10, <2>4
  <2>6. CASE n = 1
    BY <1>1, <1>3, <2>10, <2>2, <2>4, <2>6 DEF a
  <2>7. CASE n = 2
    <3>1. \A k \in 1 .. n - 1 : k = 1
      BY <2>7
    <3>2. \A k \in 1 .. n - 1 : p[k].id # b.id
      BY <3>1, <2>2, <2>4
    <3> QED BY <1>1, <1>3, <2>10, <2>2, <2>4, <2>7, <3>2 DEF b
  <2>8. CASE n = 3
    BY <1>1, <1>3, <2>10, <2>3, <2>4, <2>8
  <2> QED BY <2>5, <2>6, <2>7, <2>8
<1>4. CASE prog = "fastpath"
  <2> DEFINE a == AddOf(1, 1, 1, 10, "SELL")
             b == AddOf(2, 2, 2, 20, "SELL")
             c == AddOf(3, 3, 4, 50, "SELL")
             d == AddOf(4, 10, 3, 25, "BUY")
             e == AddOf(5, 11, 4, 60, "BUY")
             f == AddOf(6, 12, 3, 2, "SELL")
             g == AddOf(7, 13, 4, 10, "SELL")
             p == <<a, b, c, d, e, f, g>>
  <2>1. Script(prog) = p
    BY <1>4 DEF Script
  <2>2. /\ a.type = "ADD" /\ a.id = 1 /\ a.price = 1 /\ a.qty = 10
        /\ b.type = "ADD" /\ b.id = 2 /\ b.price = 2 /\ b.qty = 20
        /\ c.type = "ADD" /\ c.id = 3 /\ c.price = 4 /\ c.qty = 50
        /\ d.type = "ADD" /\ d.id = 10 /\ d.price = 3 /\ d.qty = 25
    BY AddOfIs
  <2>3. /\ e.type = "ADD" /\ e.id = 11 /\ e.price = 4 /\ e.qty = 60
        /\ f.type = "ADD" /\ f.id = 12 /\ f.price = 3 /\ f.qty = 2
        /\ g.type = "ADD" /\ g.id = 13 /\ g.price = 4 /\ g.qty = 10
    BY AddOfIs
  <2> HIDE DEF a, b, c, d, e, f, g
  <2>4. /\ Len(p) = 7 /\ p[1] = a /\ p[2] = b /\ p[3] = c /\ p[4] = d /\ p[5] = e
        /\ p[6] = f /\ p[7] = g
    OBVIOUS
  <2> HIDE DEF p
  <2>5. \A k \in 1 .. 7 : k = 1 \/ k = 2 \/ k = 3 \/ k = 4 \/ k = 5 \/ k = 6 \/ k = 7
    OBVIOUS
  <2>6. ASSUME NEW k \in 1 .. 7
        PROVE  p[k].type = "ADD" /\ p[k].price \in 1 .. 4 /\ p[k].qty \in 1 .. 100
    <3> DEFINE good(x) == x.type = "ADD" /\ x.price \in 1 .. 4 /\ x.qty \in 1 .. 100
    <3>1. good(a) /\ good(b) /\ good(c) /\ good(d)
      BY <2>2
    <3>2. good(e) /\ good(f) /\ good(g)
      BY <2>3
    <3> HIDE DEF good
    <3>3. good(p[k])
      BY <2>4, <2>5, <3>1, <3>2
    <3> QED BY <3>3 DEF good
  <2>7. /\ p[1].id = 1 /\ p[2].id = 2 /\ p[3].id = 3 /\ p[4].id = 10
        /\ p[5].id = 11 /\ p[6].id = 12 /\ p[7].id = 13
    BY <2>2, <2>3, <2>4
  <2>8. n \in 1 .. 7
    BY <2>1, <2>4
  <2>9. ASSUME NEW k \in 1 .. n - 1 PROVE p[k].id # p[n].id
    <3>1. k \in 1 .. 7 /\ k < n
      BY <2>8
    <3> QED BY <2>5, <2>7, <2>8, <3>1
  <2>10. p[n].type = "ADD" /\ p[n].price \in Priced /\ p[n].qty \in 1 .. 100
    BY <1>1, <2>6, <2>8
  <2>11. Len(p) \in 1 .. 7
    BY <2>4
  <2> QED BY <1>4, <2>1, <2>9, <2>10, <2>11
<1> QED BY <1>2, <1>3, <1>4 DEF Scripted

\* A board just programmed: an empty book, and reports are numbered from one.
Blank == book = [s \in Side |-> [l \in Level |-> <<>>]] /\ repSeq = 1

\* A board that was just programmed holds the empty book.
LEMMA BlankHolds ==
    ASSUME Blank
    PROVE  Holding(EmptyBook)
<1> DEFINE y == Resting(EmptyBook)
<1>2. y = [s \in Side |-> [l \in Level |-> y[s][l]]]
  BY DEF Resting
<1>4. \A s \in Side, l \in Level : y[s][l] = <<>>
  BY EmptyFine
<1> HIDE DEF y
<1>5. \A s \in Side : [l \in Level |-> y[s][l]] = [l \in Level |-> <<>>]
  BY <1>4
<1>6. y = [s \in Side |-> [l \in Level |-> <<>>]]
  BY <1>2, <1>5, Zenon
<1>7. book = y
  BY <1>6 DEF Blank
<1> QED BY <1>7, EmptyFine DEF Holding, y

\* What the orders of a stress test's reference come from, after n commands.
Staged(h) ==
    LET b == h.ref.book IN
    /\ Cardinality(OrderIds(b)) <= h.n
    /\ h.prog = "random" => /\ h.count \in Nat /\ h.n <= h.count /\ h.count < BoardOrders
                            /\ \A i \in OrderIds(b) : i < h.gen.nextId
    /\ h.prog \in Scripted => \A i \in OrderIds(b) : \E k \in 1 .. h.n : i = Script(h.prog)[k].id
    /\ h.prog = "capacity" /\ h.n < BoardOrders =>
         /\ Cardinality(OrderIds(b)) = h.n
         /\ \A l \in Level : Resting(b)["SELL"][l] = <<>>
    /\ h.prog = "parallel" /\ h.n = 1 =>
         \A s \in Side, l \in Level : Resting(b)[s][l] # <<>> => s = "SELL" /\ l = 2
    /\ h.prog = "parallel" /\ h.n = 2 => 2 \in OrderIds(b)

\* The next command of a script is one that a good board takes, or the one it refuses.
LEMMA ScriptTaken ==
    ASSUME NEW h, h.prog \in Scripted, Staged(h), Fine(h.ref.book), h.n \in Nat,
           h.n + 1 <= Len(Script(h.prog)), NEW m, m = Script(h.prog)[h.n + 1]
    PROVE  LET b == h.ref.book IN
           /\ Sendable(m) /\ m.price \in Priced
           /\ m.type = "ADD" => m.id \notin OrderIds(b) /\ m.qty \in Nat \ {0}
           /\ IF Rejected(h.prog, h.n + 1)
              THEN m.type = "ADD" /\ Cardinality(OrderIds(b)) = Room
              ELSE /\ InOrder(b, m) /\ Sequence(Taken(b, m).trades)
                   /\ m.type = "ADD" => Cardinality(OrderIds(b)) < Room
<1> DEFINE b == h.ref.book
           s == Script(h.prog)
           n == h.n + 1
<1>1. Len(s) \in Nat \ {0} /\ \A i \in 1 .. Len(s) : Sendable(s[i])
  BY ScriptSends
<1>2. n \in 1 .. Len(s) /\ Sendable(m) /\ n - 1 = h.n /\ n = h.n + 1 /\ m = s[n]
  BY <1>1
<1>3. /\ m.price \in Priced /\ m.qty \in 1 .. 100
      /\ \/ m.type = "ADD" /\ \A k \in 1 .. n - 1 : s[k].id # m.id
         \/ m.type = "MODIFY" /\ h.prog = "parallel" /\ n = 3 /\ m.id = 2
      /\ h.prog = "capacity" => m.type = "ADD" /\ Len(s) = BoardOrders
      /\ h.prog # "capacity" => Len(s) \in 1 .. 7
  <2> DEFINE good(p, j) ==
          LET x == Script(p)[j] IN
            /\ x.price \in Priced /\ x.qty \in 1 .. 100
            /\ \/ x.type = "ADD" /\ \A k \in 1 .. j - 1 : Script(p)[k].id # x.id
               \/ x.type = "MODIFY" /\ p = "parallel" /\ j = 3 /\ x.id = 2
            /\ p = "capacity" => x.type = "ADD" /\ Len(Script(p)) = BoardOrders
            /\ p # "capacity" => Len(Script(p)) \in 1 .. 7
  <2>1. \A p \in Scripted : \A j \in 1 .. Len(Script(p)) : good(p, j)
    BY ScriptFresh
  <2> HIDE DEF good, n
  <2>2. good(h.prog, n)
    BY <1>2, <2>1
  <2> QED BY <1>2, <2>2 DEF good
<1>0. \A q \in 1 .. 100 : q \in Nat \ {0} /\ q \in 1 .. MaxQuantity + 100
  BY RangeAssumption
<1>9. \A x \in Nat, y \in 1 .. 7 : x + 1 \in 1 .. y => x <= 6
  OBVIOUS
<1>4. /\ \A i \in OrderIds(b) : \E k \in 1 .. h.n : i = s[k].id
      /\ Cardinality(OrderIds(b)) <= h.n
      /\ h.prog = "capacity" /\ h.n < BoardOrders => Cardinality(OrderIds(b)) = h.n
      /\ h.prog = "parallel" /\ h.n = 2 => 2 \in OrderIds(b)
  BY DEF Staged
<1> HIDE DEF b, s, n
<1>5. m.type = "ADD" => m.id \notin OrderIds(b) /\ m.qty \in Nat \ {0}
  <2>1. m.qty \in Nat \ {0}
    BY <1>0, <1>3
  <2>2. ASSUME m.type = "ADD", m.id \in OrderIds(b) PROVE FALSE
    <3>1. PICK k \in 1 .. h.n : m.id = s[k].id
      BY <1>4, <2>2
    <3>2. k \in 1 .. n - 1
      BY <1>2
    <3> QED BY <1>3, <2>2, <3>1, <3>2
  <2> QED BY <2>1, <2>2
<1>6. Cardinality(OrderIds(b)) \in Nat /\ Room \in Nat /\ Room = BoardOrders - 1 /\ Room > 6
  BY FeedPlaces, BoardAssumption, ScriptsAssumption DEF Fine, Feed!GoodBook, Room, b
<1>7. CASE Rejected(h.prog, h.n + 1)
  <2>1. h.prog = "capacity" /\ h.n + 1 = BoardOrders
    BY <1>7 DEF Rejected
  <2>2. Cardinality(OrderIds(b)) = Room /\ m.type = "ADD"
    BY <1>3, <1>4, <1>6, <2>1
  <2> QED BY <1>2, <1>3, <1>5, <1>7, <2>2 DEF b
<1>8. CASE ~Rejected(h.prog, h.n + 1)
  <2>1. h.n < Room
    <3>1. CASE h.prog = "capacity"
      <4>1. h.n + 1 # BoardOrders /\ n <= BoardOrders /\ n = h.n + 1
        BY <1>2, <1>3, <1>8, <3>1 DEF Rejected, n
      <4> QED BY <1>6, <4>1, BoardAssumption
    <3>2. CASE h.prog # "capacity"
      <4>1. Len(s) \in 1 .. 7 /\ h.n + 1 \in 1 .. Len(s)
        BY <1>2, <1>3, <3>2
      <4>2. h.n <= 6
        BY <1>9, <4>1
      <4> QED BY <1>6, <4>2
    <3> QED BY <3>1, <3>2
  <2>2. Cardinality(OrderIds(b)) < Room
    BY <1>4, <1>6, <2>1
  <2>3. m.qty \in 1 .. MaxQuantity + 100 /\ Fine(b)
    <3>1. m.qty \in 1 .. 100
      BY <1>3
    <3>2. m.qty \in 1 .. MaxQuantity + 100
      BY <1>0, <3>1
    <3> QED BY <3>2 DEF b
  <2>4. m.id \in Nat /\ m.side \in Side /\ m.ts \in Nat
    BY <1>2 DEF Sendable
  <2>5. InOrder(b, m) /\ Sequence(Taken(b, m).trades)
    <3>1. CASE m.type = "ADD"
      <4> DEFINE o == Order(m.id, m.side, m.price, m.qty, m.ts)
      <4>1. o \in Feed!RestingOrder /\ o.id = m.id
        BY <1>3, <2>3, <2>4, OrderRests
      <4>2. Taken(b, m) = AddOrder(b, o)
        BY <3>1, TakenIs
      <4> HIDE DEF o
      <4>3. AddOrder(b, o).err = "" /\ Sequence(AddOrder(b, o).trades)
        BY <1>5, <2>3, <3>1, <4>1, AddTaken, AddTrades
      <4> QED BY <4>2, <4>3 DEF InOrder
    <3>2. CASE m.type # "ADD"
      <4>1. m.type = "MODIFY" /\ m.id \in OrderIds(b)
        BY <1>2, <1>3, <1>4, <3>2
      <4>2. Taken(b, m) = ModifyOrder(b, m.id, m.qty, m.price, m.ts)
        BY <4>1, TakenIs
      <4>3. /\ Sequence(ModifyOrder(b, m.id, m.qty, m.price, m.ts).trades)
            /\ ModifyOrder(b, m.id, m.qty, m.price, m.ts).err = ""
        BY <1>3, <2>3, <2>4, <4>1, ModifyTrades
      <4> QED BY <4>2, <4>3 DEF InOrder
    <3> QED BY <3>1, <3>2
  <2> QED BY <1>2, <1>3, <1>5, <1>8, <2>2, <2>5 DEF b
<1> QED BY <1>7, <1>8

\* A book that counts no order holds none.
LEMMA NoneRest ==
    ASSUME NEW b, Fine(b), Roomy(Resting(b)), Cardinality(OrderIds(b)) = 0,
           NEW s \in Side, NEW l \in Level
    PROVE  Resting(b)[s][l] = <<>>
<1> DEFINE y == Resting(b)
<1>1. Cardinality(Board!Places(y)) = 0
  BY FeedPlaces, Counts DEF Fine, Feed!GoodBook
<1> HIDE DEF y
<1>2. Filed(y[s][l]) /\ Len(y[s][l]) \in Nat /\ Len(y[s][l]) <= 0
  BY <1>1, Holds DEF Roomy, Shaped, y
<1>3. Len(y[s][l]) = 0
  BY <1>2
<1> QED BY <1>2, <1>3, FiledLength DEF y

\* Where orders stand once m rests in b.
Stands(b, m, s, l) == Resting(b)[s][l] # <<>> \/ (s = m.side /\ l = m.price)

\* An addition below the asks and above the bids rests.
LEMMA RestsTaken ==
    ASSUME NEW b, Fine(b), Roomy(Resting(b)), NEW m, m.type = "ADD", m.id \in Nat, m.side \in Side,
           m.price \in Priced, m.qty \in 1 .. MaxQuantity + 100, m.ts \in Nat,
           m.id \notin OrderIds(b), Cardinality(OrderIds(b)) < Room,
           \A l, k \in Level : Stands(b, m, "BUY", l) /\ Stands(b, m, "SELL", k) => ~(l >= k)
    PROVE  /\ \A s \in Side, l \in Level : Resting(Taken(b, m).book)[s][l] # <<>> => Stands(b, m, s, l)
           /\ OrderIds(b) \union {m.id} \subseteq OrderIds(Taken(b, m).book)
<1> DEFINE o == Order(m.id, m.side, m.price, m.qty, m.ts)
           e == [id |-> o.id, qty |-> o.qty, ts |-> o.ts]
           y == Resting(b)
           a == Board!Insert(y, o.side, o.price, e)
<1>1. o \in Feed!RestingOrder /\ o.id = m.id
  BY OrderRests
<1>2. Taken(b, m) = AddOrder(b, o)
  BY TakenIs
<1>3. o.side = m.side /\ o.price = m.price
  BY DEF Order
<1>4. m.price \in Level
  BY NumLevelsAssumption DEF Priced, Level
<1> HIDE DEF o
<1>5. Entry(e)
  BY DEF Entry
<1> HIDE DEF e
<1>6. Shaped(y)
  BY DEF Roomy
<1> HIDE DEF y
<1>7. Replaced(m.side, m.price, Append(y[m.side][m.price], e), a, y)
  BY <1>3, <1>4, <1>5, <1>6, InsertLevels
<1> HIDE DEF a
<1>8. \A s \in Side, l \in Level : a[s][l] # <<>> => Stands(b, m, s, l)
  BY <1>7 DEF Replaced, Stands, y
<1>9. ~Board!Crossed(a)
  <2> SUFFICES ASSUME NEW l \in Board!Prices(a, "BUY"), NEW k \in Board!Prices(a, "SELL"), l >= k
      PROVE FALSE
    BY DEF Board!Crossed
  <2>1. l \in Level /\ k \in Level /\ a["BUY"][l] # <<>> /\ a["SELL"][k] # <<>>
    BY DEF Board!Prices, Board!Level, Level
  <2>2. "BUY" \in Side /\ "SELL" \in Side
    BY DEF Side
  <2> QED BY <1>8, <2>1, <2>2
<1>10. /\ Resting(AddOrder(b, o).book) = a
       /\ OrderIds(b) \union {o.id} \subseteq OrderIds(AddOrder(b, o).book)
  BY <1>1, <1>9, AddUncrossed DEF a, y, e
<1> QED BY <1>1, <1>2, <1>8, <1>10

\* At most one more.
LEMMA OneMore ==
    ASSUME NEW S, IsFiniteSet(S), NEW k \in Nat, Cardinality(S) <= k, NEW i, NEW new,
           new = {} \/ new = {i}, NEW T, T \subseteq S \union new
    PROVE  Cardinality(T) <= k + 1
<1> DEFINE U == S \union new
<1>1. Cardinality(S) \in Nat
  BY FS_CardinalityType
<1>2. IsFiniteSet(U) /\ Cardinality(U) <= k + 1
  <2>1. CASE U = S
    BY <1>1, <2>1
  <2>2. CASE U = S \union {i} /\ i \notin S
    <3>1. IsFiniteSet(S \union {i}) /\ Cardinality(S \union {i}) = Cardinality(S) + 1
      BY <2>2, FS_AddElement
    <3> HIDE DEF U
    <3> QED BY <1>1, <2>2, <3>1
  <2>3. U = S \/ (U = S \union {i} /\ i \notin S)
    OBVIOUS
  <2> QED BY <2>1, <2>2, <2>3
<1> HIDE DEF U
<1>3. IsFiniteSet(T) /\ Cardinality(T) <= Cardinality(U)
  BY <1>2, FS_Subset DEF U
<1>4. Cardinality(T) \in Nat /\ Cardinality(U) \in Nat
  BY <1>2, <1>3, FS_CardinalityType
<1> QED BY <1>2, <1>3, <1>4

\* What the reference's orders come from, a command later,
LEMMA StagedTaken ==
    ASSUME NEW h, Staged(h), Fine(h.ref.book), Roomy(Resting(h.ref.book)), h.n \in Nat,
           NEW m, Sendable(m), m.price \in Priced, InOrder(h.ref.book, m),
           m.type = "ADD" => Cardinality(OrderIds(h.ref.book)) < Room,
           NEW g, g.n = h.n + 1, g.prog = h.prog, g.count = h.count,
           g.ref.book = Taken(h.ref.book, m).book,
           h.prog = "random" =>
               /\ h.n + 1 <= h.count /\ h.gen.nextId \in Nat
               /\ g.gen.nextId = IF m.type = "ADD" THEN h.gen.nextId + 1 ELSE h.gen.nextId
               /\ m.type = "ADD" => m.id = h.gen.nextId,
           h.prog \in Scripted => h.n + 1 <= Len(Script(h.prog)) /\ m = Script(h.prog)[h.n + 1]
    PROVE  Staged(g)
<1> DEFINE b == h.ref.book
           x == g.ref.book
           s == Script(h.prog)
           k == h.n
           n == h.n + 1
           new == IF m.type = "ADD" THEN {m.id} ELSE {}
<1>1. OrderIds(x) \subseteq OrderIds(b) \union new
  <2>1. m.price < NumLevels
    BY NumLevelsAssumption DEF Priced
  <2> QED BY <2>1, TakenIds
<1>2. IsFiniteSet(OrderIds(b)) /\ Cardinality(OrderIds(b)) \in Nat /\ Cardinality(OrderIds(b)) <= k
  BY FeedPlaces DEF Fine, Feed!GoodBook, Staged
<1>3. k \in Nat /\ n = k + 1 /\ n \in Nat \ {0} /\ g.n = n
  OBVIOUS
<1>4. new = {} \/ new = {m.id}
  OBVIOUS
<1>5. m.type = "ADD" => new = {m.id} /\ m.id \notin OrderIds(b)
  BY TakenInOrder
<1>21. m.type # "ADD" => new = {}
  OBVIOUS
<1> HIDE DEF new
<1>7. Cardinality(OrderIds(x)) <= n
  BY <1>1, <1>2, <1>3, <1>4, OneMore
<1>8. h.prog = "random" => /\ g.count \in Nat /\ g.n <= g.count /\ g.count < BoardOrders
                           /\ \A i \in OrderIds(x) : i < g.gen.nextId
  <2> SUFFICES ASSUME h.prog = "random"
               PROVE  /\ g.count \in Nat /\ g.n <= g.count /\ g.count < BoardOrders
                      /\ \A i \in OrderIds(x) : i < g.gen.nextId
    OBVIOUS
  <2>1. h.count \in Nat /\ h.count < BoardOrders /\ \A i \in OrderIds(b) : i < h.gen.nextId
    BY DEF Staged
  <2> DEFINE u == h.gen.nextId
             v == g.gen.nextId
  <2>2. u \in Nat /\ (m.type = "ADD" => v = u + 1 /\ m.id = u) /\ (m.type # "ADD" => v = u)
    OBVIOUS
  <2> HIDE DEF u, v, x, b
  <2>3. \A i \in OrderIds(b) : i \in Nat /\ i < u
    BY <2>1, LiveOrders DEF b, u
  <2>4. ASSUME NEW i \in OrderIds(x) PROVE i < v
    <3>1. CASE i \in OrderIds(b)
      BY <2>2, <2>3, <3>1
    <3>2. CASE i \notin OrderIds(b)
      <4>1. m.type = "ADD" /\ i = m.id
        BY <1>1, <1>5, <1>21, <3>2
      <4> QED BY <2>2, <4>1
    <3> QED BY <3>1, <3>2
  <2> QED BY <2>1, <2>4 DEF v
<1>9. h.prog \in Scripted => \A i \in OrderIds(x) : \E j \in 1 .. n : i = s[j].id
  <2> SUFFICES ASSUME h.prog \in Scripted, NEW i \in OrderIds(x)
               PROVE  \E j \in 1 .. n : i = s[j].id
    OBVIOUS
  <2>1. \A q \in OrderIds(b) : \E j \in 1 .. k : q = s[j].id
    BY DEF Staged
  <2>2. m = s[n]
    OBVIOUS
  <2> HIDE DEF x, b, s, n, k
  <2>3. CASE i \in OrderIds(b)
    <3>1. PICK j \in 1 .. k : i = s[j].id
      BY <2>1, <2>3
    <3>2. j \in 1 .. n
      BY <1>3
    <3> QED BY <3>1, <3>2
  <2>4. CASE i \notin OrderIds(b)
    <3>1. i = m.id
      BY <1>1, <1>4, <2>4
    <3>2. n \in 1 .. n
      BY <1>3
    <3> QED BY <2>2, <3>1, <3>2
  <2> QED BY <2>3, <2>4
<1>10. "BUY" \in Side /\ "SELL" \in Side /\ "BUY" # "SELL"
  BY DEF Side
<1>11. \A q \in 1 .. 100 : q \in 1 .. MaxQuantity + 100
  BY RangeAssumption
<1>12. m.id \in Nat /\ m.side \in Side /\ m.ts \in Nat
  BY DEF Sendable
<1>13. ASSUME h.prog \in Scripted
       PROVE  /\ m.qty \in 1 .. MaxQuantity + 100
              /\ h.prog = "capacity" => /\ m.id = n /\ m.type = "ADD" /\ m.side = "BUY" /\ m.price = 1
                                        /\ Len(s) = BoardOrders
              /\ h.prog = "parallel" /\ n = 1 => m = AddOf(1, 1, 2, 10, "SELL")
              /\ h.prog = "parallel" /\ n = 2 => m = AddOf(2, 2, 1, 10, "BUY")
  <2> DEFINE good(p, j) ==
          LET z == Script(p)[j] IN
            /\ z.price \in Priced /\ z.qty \in 1 .. 100
            /\ p = "capacity" => /\ z.id = j /\ z.type = "ADD" /\ z.side = "BUY" /\ z.price = 1
                                 /\ Len(Script(p)) = BoardOrders
            /\ p = "parallel" /\ j = 1 => z = AddOf(1, 1, 2, 10, "SELL")
            /\ p = "parallel" /\ j = 2 => z = AddOf(2, 2, 1, 10, "BUY")
  <2>1. \A p \in Scripted : \A j \in 1 .. Len(Script(p)) : good(p, j)
    BY ScriptFresh
  <2>2. n \in 1 .. Len(s)
    <3>1. Len(s) \in Nat /\ n <= Len(s)
      BY <1>13, ScriptSends
    <3> HIDE DEF n, s
    <3> QED BY <1>3, <3>1
  <2> HIDE DEF good, n, s
  <2>3. good(h.prog, n)
    BY <1>13, <2>1, <2>2 DEF s
  <2>4. m = Script(h.prog)[n]
    BY <1>13 DEF n
  <2> QED BY <1>11, <2>3, <2>4 DEF good, s
<1> HIDE DEF x, s, n, k
<1>14. ASSUME h.prog = "capacity", n < BoardOrders
       PROVE  /\ Cardinality(OrderIds(x)) = n
              /\ \A l \in Level : Resting(x)["SELL"][l] = <<>>
  <2>1. h.prog \in Scripted
    BY <1>14 DEF Scripted
  <2>2. m.type = "ADD" /\ m.side = "BUY" /\ m.price = 1 /\ m.qty \in 1 .. MaxQuantity + 100
    BY <1>13, <1>14, <2>1
  <2>3. k < BoardOrders
    BY <1>3, <1>14, BoardAssumption
  <2>4. Cardinality(OrderIds(b)) = k /\ \A l \in Level : Resting(b)["SELL"][l] = <<>>
    BY <1>14, <2>3 DEF Staged, k
  <2>5. \A l \in Level : ~Stands(b, m, "SELL", l)
    BY <1>10, <2>2, <2>4 DEF Stands
  <2>6. /\ \A t \in Side, l \in Level : Resting(x)[t][l] # <<>> => Stands(b, m, t, l)
        /\ OrderIds(b) \union {m.id} \subseteq OrderIds(x)
    BY <1>5, <1>12, <2>2, <2>5, RestsTaken DEF x
  <2>7. OrderIds(x) = OrderIds(b) \union {m.id}
    BY <1>1, <1>5, <2>2, <2>6
  <2>8. Cardinality(OrderIds(x)) = k + 1
    BY <1>2, <1>5, <2>2, <2>4, <2>7, FS_AddElement
  <2> QED BY <1>3, <1>10, <2>5, <2>6, <2>8
<1>15. ASSUME h.prog = "parallel", n = 1, NEW t \in Side, NEW l \in Level, Resting(x)[t][l] # <<>>
       PROVE  t = "SELL" /\ l = 2
  <2>1. h.prog \in Scripted
    BY <1>15 DEF Scripted
  <2>2. m = AddOf(1, 1, 2, 10, "SELL") /\ m.qty \in 1 .. MaxQuantity + 100
    BY <1>13, <1>15, <2>1
  <2>3. m.type = "ADD" /\ m.side = "SELL" /\ m.price = 2
    BY <2>2, AddOfIs
  <2>4. Cardinality(OrderIds(b)) = 0
    BY <1>2, <1>3, <1>15
  <2>5. \A q \in Side, p \in Level : Resting(b)[q][p] = <<>>
    BY <2>4, NoneRest
  <2>6. \A q \in Side, p \in Level : Stands(b, m, q, p) => q = "SELL" /\ p = 2
    BY <2>3, <2>5 DEF Stands
  <2>7. \A q \in Side, p \in Level : Resting(x)[q][p] # <<>> => Stands(b, m, q, p)
    BY <1>5, <1>10, <1>12, <2>2, <2>3, <2>6, RestsTaken DEF x
  <2> QED BY <1>15, <2>6, <2>7
<1>16. ASSUME h.prog = "parallel", n = 2
       PROVE  2 \in OrderIds(x)
  <2>1. h.prog \in Scripted
    BY <1>16 DEF Scripted
  <2>2. m = AddOf(2, 2, 1, 10, "BUY") /\ m.qty \in 1 .. MaxQuantity + 100
    BY <1>13, <1>16, <2>1
  <2>3. m.type = "ADD" /\ m.side = "BUY" /\ m.price = 1 /\ m.id = 2
    BY <2>2, AddOfIs
  <2>4. \A q \in Side, p \in Level : Resting(b)[q][p] # <<>> => q = "SELL" /\ p = 2
    <3>1. h.n = 1
      BY <1>3, <1>16 DEF k
    <3> QED BY <1>16, <3>1 DEF Staged
  <2>5. \A p \in Level : /\ Stands(b, m, "BUY", p) => p = 1
                         /\ Stands(b, m, "SELL", p) => p = 2
    BY <1>10, <2>3, <2>4 DEF Stands
  <2>6. OrderIds(b) \union {m.id} \subseteq OrderIds(x)
    BY <1>5, <1>12, <2>2, <2>3, <2>5, RestsTaken DEF x
  <2> QED BY <2>3, <2>6
<1>17. Cardinality(OrderIds(x)) <= g.n
  BY <1>3, <1>7
<1>18. h.prog \in Scripted => \A i \in OrderIds(x) : \E j \in 1 .. g.n : i = Script(h.prog)[j].id
  BY <1>3, <1>9 DEF s
<1> QED BY <1>3, <1>8, <1>14, <1>15, <1>16, <1>17, <1>18 DEF Staged, x

\* or refused the command.
LEMMA StagedRefused ==
    ASSUME NEW h, Staged(h), Rejected(h.prog, h.n + 1), h.n \in Nat,
           Cardinality(OrderIds(h.ref.book)) \in Nat,
           NEW g, g.n = h.n + 1, g.prog = h.prog, g.ref.book = h.ref.book
    PROVE  Staged(g)
<1> DEFINE b == h.ref.book
           n == h.n + 1
<1>1. h.prog = "capacity" /\ n = BoardOrders
  BY DEF Rejected
<1>2. h.prog \in Scripted /\ h.prog # "random" /\ h.prog # "parallel"
  BY <1>1 DEF Scripted
<1>3. Cardinality(OrderIds(b)) <= h.n /\ \A i \in OrderIds(b) : \E j \in 1 .. h.n : i = Script(h.prog)[j].id
  BY <1>2 DEF Staged
<1> DEFINE k == h.n
<1>4. k \in Nat /\ n = k + 1 /\ Cardinality(OrderIds(b)) \in Nat /\ g.n = n
  OBVIOUS
<1> HIDE DEF n, k, b
<1>5. Cardinality(OrderIds(b)) <= g.n /\ \A j \in 1 .. k : j \in 1 .. g.n
  BY <1>3, <1>4 DEF k
<1>6. \A i \in OrderIds(b) : \E j \in 1 .. g.n : i = Script(h.prog)[j].id
  BY <1>3, <1>5 DEF k
<1>7. ~(g.n < BoardOrders)
  BY <1>1, <1>4, BoardAssumption
<1> QED BY <1>1, <1>2, <1>5, <1>6, <1>7 DEF Staged, b

-----------------------------------------------------------------------------
(* What a test expects, and what the board does.                             *)

\* The program h has sent what a board that holds b takes,
Takes(h, b) ==
    /\ Accepted(h, b) /\ Admits(b, h.msg)
    /\ h.want.reps = AllReports(Taken(b, h.msg).trades, repSeq)

\* or what it has no room for.
Fills(h, b) ==
    /\ h.want = [ack |-> ExpectedAck(h.msg, "FULL", b), reps |-> AllReports(<<>>, repSeq)]
    /\ h.msg.type = "ADD" /\ h.msg.price \in Priced /\ h.msg.qty \in Nat \ {0}
    /\ h.msg.id \notin OrderIds(b) /\ Cardinality(OrderIds(b)) = Room
    /\ h.ref.book = b

\* It does one or the other, and the numbers of the reports agree.
Taking(h) ==
    /\ \E b : Holding(b) /\ (Takes(h, b) \/ Fills(h, b))
    /\ h.want = [ack |-> h.want.ack, reps |-> h.want.reps]
    /\ h.seq = repSeq + Len(h.want.reps)

\* The board then answers as the program expects.
LEMMA TakingServed ==
    ASSUME NEW h, Taking(h), Board!Process(Bare(h.msg))
    PROVE  /\ ack' = h.want.ack /\ AllReports(trades', repSeq) = h.want.reps
           /\ book' = Resting(h.ref.book) /\ Fine(h.ref.book)
<1>1. PICK b : Holding(b) /\ (Takes(h, b) \/ Fills(h, b))
  BY DEF Taking
<1>2. book = Resting(b) /\ Fine(b)
  BY <1>1 DEF Holding
<1>3. CASE Takes(h, b)
  <2>1. Followed(h.msg, Taken(b, h.msg)) /\ Fine(Taken(b, h.msg).book)
    BY <1>2, <1>3, TakesInOrder DEF Takes, Accepted
  <2> QED BY <1>3, <2>1 DEF Followed, Takes, Accepted
<1>4. CASE Fills(h, b)
  <2>1. h.msg.price \in 1 .. NumLevels - 1
    BY <1>4 DEF Fills, Priced
  <2>2. book' = book /\ trades' = <<>> /\ ack' = ExpectedAck(h.msg, "FULL", b)
    BY <1>2, <1>4, <2>1, RefusesFull DEF Fills
  <2>3. h.want.ack = ExpectedAck(h.msg, "FULL", b) /\ h.want.reps = AllReports(<<>>, repSeq)
    BY <1>4 DEF Fills
  <2> QED BY <1>2, <1>4, <2>2, <2>3 DEF Fills
<1> QED BY <1>1, <1>3, <1>4

\* A command that a good board takes or refuses as it should.
Good(h, m) ==
    LET b == h.ref.book IN
    /\ Sendable(m) /\ m.price \in Priced
    /\ IF Rejected(h.prog, h.n + 1)
       THEN /\ m.type = "ADD" /\ m.qty \in Nat \ {0} /\ m.id \notin OrderIds(b)
            /\ Cardinality(OrderIds(b)) = Room
       ELSE /\ InOrder(b, m) /\ Sequence(Taken(b, m).trades)
            /\ m.type = "ADD" => Cardinality(OrderIds(b)) < Room

\* What a program is after it has sent m.
SentGood(h, m, g) ==
    /\ SameTest(h, g) /\ g.phase = "wait" /\ g.n = h.n + 1 /\ g.msg = m /\ g.got = Nothing
    /\ g.verdict = h.verdict /\ g.fresh = h.fresh /\ g.used = h.used /\ g.session = h.session
    /\ Taking(g)
    /\ g.ref.book = IF Rejected(h.prog, h.n + 1) THEN h.ref.book ELSE Taken(h.ref.book, m).book

\* What a test expects of a good command is what the board will do.
LEMMA ExpectsGood ==
    ASSUME NEW h, IsProgram(h), IsReference(h.ref), Holding(h.ref.book), h.seq = repSeq,
           NEW m, Good(h, m)
    PROVE  SentGood(h, m, Expect(h, m))
<1> DEFINE refused == Rejected(h.prog, h.n + 1)
           p == IF refused THEN [ref |-> h.ref, err |-> "", made |-> <<>>]
                           ELSE ProcessMessage(h.ref, m)
           reps == ExpectedReports(p.made, h.seq)
           st == IF refused THEN "FULL" ELSE "OK"
           seq == h.seq + Len(reps)
           n == h.n + 1
           want == [ack |-> ExpectedAck(m, st, p.ref.book), reps |-> reps]
           g == [h EXCEPT !.phase = "wait", !.n = n, !.msg = m, !.ref = p.ref,
                          !.seq = seq, !.got = Nothing, !.want = want]
           b == h.ref.book
<1>1. Expect(h, m) = IF p.err # "" THEN End(h, "FAIL") ELSE g
  BY DEF Expect
<1>2. refused => p.ref = h.ref /\ p.err = "" /\ p.made = <<>> /\ st = "FULL"
  OBVIOUS
<1>3. ~refused => OfBook(p, Taken(b, m)) /\ st = "OK"
  BY MessageTaken DEF Good
<1>4. /\ want = [ack |-> ExpectedAck(m, st, p.ref.book), reps |-> reps]
      /\ want.ack = ExpectedAck(m, st, p.ref.book) /\ want.reps = reps
  OBVIOUS
<1>5. reps = ExpectedReports(p.made, repSeq) /\ seq = repSeq + Len(reps)
  OBVIOUS
<1>6. Holding(b)
  OBVIOUS
<1> HIDE DEF refused, p, reps, st, seq, n, want
<1>7. /\ SameTest(h, g) /\ g.phase = "wait" /\ g.n = n /\ g.msg = m /\ g.got = Nothing
      /\ g.verdict = h.verdict /\ g.ref = p.ref /\ g.want = want /\ g.seq = seq
      /\ g.fresh = h.fresh /\ g.used = h.used /\ g.session = h.session
  BY DEF IsProgram, Fields, SameTest
<1> HIDE DEF g
<1>8. p.err = "" /\ Sequence(p.made) /\ (~refused => p.made = Taken(b, m).trades)
  <2>1. CASE refused
    BY <1>2, <2>1, NoTrades
  <2>2. CASE ~refused
    BY <1>3, <2>2 DEF OfBook, Good, InOrder, refused
  <2> QED BY <2>1, <2>2
<1>9. Expect(h, m) = g
  BY <1>1, <1>8
<1>10. reps = AllReports(p.made, repSeq)
  BY <1>5, <1>8, ReportsExpected
<1>11. g.want = [ack |-> g.want.ack, reps |-> g.want.reps] /\ g.seq = repSeq + Len(g.want.reps)
  BY <1>4, <1>5, <1>7
<1>12. g.ref.book = IF refused THEN b ELSE Taken(b, m).book
  BY <1>2, <1>3, <1>7, <1>8 DEF OfBook
<1>13. CASE refused
  <2>1. Fills(g, b)
    BY <1>2, <1>4, <1>7, <1>10, <1>12, <1>13 DEF Fills, Good, refused
  <2>2. Taking(g)
    BY <1>6, <1>11, <2>1 DEF Taking
  <2> QED BY <1>7, <1>9, <1>12, <2>2 DEF SentGood, n, refused
<1>14. CASE ~refused
  <2>1. Accepted(g, b)
    BY <1>3, <1>4, <1>7, <1>12, <1>14 DEF Accepted, Good, refused
  <2>2. Admits(b, m)
    BY <1>14, NumLevelsAssumption DEF Admits, Good, refused, Priced
  <2>3. Takes(g, b)
    BY <1>4, <1>7, <1>8, <1>10, <1>14, <2>1, <2>2 DEF Takes
  <2>4. Taking(g)
    BY <1>6, <1>11, <2>3 DEF Taking
  <2> QED BY <1>7, <1>9, <1>12, <2>4 DEF SentGood, n, refused
<1> QED BY <1>13, <1>14

-----------------------------------------------------------------------------
(* What no program does to itself.                                           *)

\* g is the program h later: what it was started with stays.
Kept(h, g) ==
    /\ IsProgram(g) /\ g.prog = h.prog /\ g.session = h.session /\ g.fresh = h.fresh
    /\ g.count = h.count /\ g.used = h.used

\* A program that ends is the same program.
LEMMA EndsKept ==
    ASSUME NEW h, IsProgram(h), NEW verdict
    PROVE  /\ Kept(h, End(h, verdict)) /\ End(h, verdict).verdict = verdict
           /\ End(h, verdict).phase = "off"
BY DEF IsProgram, Fields, Kept, End

\* A program goes on to its next command, or has sent all.
LEMMA AdvancesKept ==
    ASSUME NEW h, IsProgram(h)
    PROVE  LET g == Advance(h) IN
           /\ Kept(h, g)
           /\ h.n = h.count => g.phase = "off" /\ g.verdict = IF h.prog = "prompt" THEN "QUIT" ELSE "PASS"
           /\ h.n # h.count => /\ g.phase = "send" /\ g.verdict = h.verdict /\ g.n = h.n
                               /\ g.got = h.got /\ g.msg = h.msg
<1> DEFINE g == [h EXCEPT !.phase = "send"]
<1>1. /\ Kept(h, g) /\ g.phase = "send" /\ g.verdict = h.verdict /\ g.n = h.n /\ g.got = h.got
      /\ g.msg = h.msg
  BY DEF IsProgram, Fields, Kept
<1> HIDE DEF g
<1>2. CASE h.n = h.count
  <2>1. Advance(h) = End(h, IF h.prog = "prompt" THEN "QUIT" ELSE "PASS")
    BY <1>2 DEF Advance
  <2> QED BY <1>2, <2>1, EndsKept
<1>3. CASE h.n # h.count
  <2>1. Advance(h) = g
    BY <1>3 DEF Advance, g
  <2> QED BY <1>1, <1>3, <2>1
<1> QED BY <1>2, <1>3

\* A test that sends is the same program.
LEMMA ExpectsKept ==
    ASSUME NEW h, IsProgram(h), NEW m
    PROVE  Kept(h, Expect(h, m))
<1>1. ASSUME NEW a, NEW b, NEW c, NEW d, NEW e, NEW f
      PROVE  Kept(h, [h EXCEPT !.phase = "wait", !.n = a, !.msg = b, !.ref = c,
                               !.seq = d, !.got = e, !.want = f])
  BY DEF IsProgram, Fields, Kept
<1> QED BY <1>1, EndsKept DEF Expect

\* A program that receives is the same program.
LEMMA ReceivesKept ==
    ASSUME NEW h, IsProgram(h), NEW d
    PROVE  /\ Kept(h, StressReceives(h, d))
           /\ Kept(h, SmokeReceives(h, d))
           /\ Kept(h, ClientReceives(h, d))
<1>1. Kept(h, h)
  BY DEF Kept
<1>2. \A got : Kept(h, [h EXCEPT !.got = got])
  BY DEF IsProgram, Fields, Kept
<1>3. \A g, phase : Kept(h, g) => Kept(h, [g EXCEPT !.phase = phase])
  BY DEF IsProgram, Fields, Kept
<1>4. \A g, verdict : Kept(h, g) => Kept(h, End(g, verdict)) /\ Kept(h, Advance(g))
  BY EndsKept, AdvancesKept DEF Kept
<1>5. \A g : Kept(h, g) => Kept(h, Compare(g)) /\ Kept(h, DemoGoesOn(g))
  BY <1>4 DEF Compare, DemoGoesOn
<1>6. Kept(h, StressReceives(h, d))
  BY <1>1, <1>2, <1>3, <1>4, <1>5 DEF StressReceives
<1>7. Kept(h, SmokeReceives(h, d))
  BY <1>1, <1>3 DEF SmokeReceives
<1>8. Kept(h, ClientReceives(h, d))
  BY <1>1, <1>2, <1>3, <1>4, <1>5 DEF ClientReceives
<1> QED BY <1>6, <1>7, <1>8

\* A program that hears nothing is the same program; a prompt does not fail.
LEMMA TimesOutKept ==
    ASSUME NEW h, IsProgram(h)
    PROVE  /\ Kept(h, TimedOut(h))
           /\ h.prog = "prompt" /\ h.phase # "prime" => TimedOut(h).verdict \in {h.verdict, "QUIT"}
<1>1. Kept(h, [h EXCEPT !.phase = "send"])
  BY DEF IsProgram, Fields, Kept
<1>2. \A x : LET g == [h EXCEPT !.shown = x] IN Kept(h, g) /\ g.verdict = h.verdict
  BY DEF IsProgram, Fields, Kept
<1>3. \A g : Kept(h, g) => /\ Kept(h, Advance(g)) /\ Kept(h, End(g, "FAIL"))
                           /\ g.prog = "prompt" => Advance(g).verdict \in {g.verdict, "QUIT"}
  BY EndsKept, AdvancesKept DEF Kept
<1>4. Kept(h, h)
  BY DEF Kept
<1>5. Kept(h, Show(h)) /\ (h.prog = "prompt" => Show(h).verdict \in {h.verdict, "QUIT"})
  <2> DEFINE x == [ack |-> h.got.ack, reps |-> h.got.reps]
             g == [h EXCEPT !.shown = x]
  <2>1. Kept(h, g) /\ g.verdict = h.verdict
    BY <1>2
  <2>2. Show(h) = Advance(g)
    BY DEF Show
  <2>3. g.prog = h.prog
    BY <2>1 DEF Kept
  <2> HIDE DEF g
  <2> QED BY <1>3, <2>1, <2>2, <2>3
<1>6. CASE h.phase = "prime"
  BY <1>1, <1>6 DEF TimedOut
<1>7. CASE h.phase = "drain"
  BY <1>3, <1>4, <1>5, <1>7 DEF TimedOut
<1>8. CASE h.phase \notin {"prime", "drain"}
  BY <1>3, <1>4, <1>8 DEF TimedOut
<1> QED BY <1>6, <1>7, <1>8

\* Every step but a start keeps it.
LEMMA StepKeeps ==
    ASSUME IsProgram(host), [Next]_vars, ~\E prog \in Programs : Start(prog)
    PROVE  Kept(host, host')
<1>1. Kept(host, host)
  BY DEF Kept
<1>2. CASE UNCHANGED host
  BY <1>1, <1>2
<1>3. CASE SendPrime
  <2>1. host' = [host EXCEPT !.phase = "prime", !.msg = Prime]
    BY <1>3 DEF SendPrime
  <2> QED BY <2>1 DEF Kept, IsProgram, Fields
<1>4. CASE SendTyped
  <2>1. PICK m \in Typed :
          LET stamped == [m EXCEPT !.seq = host.n + 1, !.ts = 100 * host.session + host.n] IN
           host' = [host EXCEPT !.phase = "wait", !.n = @ + 1, !.msg = stamped,
                                !.got = Nothing, !.shown = Nothing]
    BY <1>4 DEF SendTyped
  <2> DEFINE stamped == [m EXCEPT !.seq = host.n + 1, !.ts = 100 * host.session + host.n]
             n == host.n + 1
  <2>2. host' = [host EXCEPT !.phase = "wait", !.n = n, !.msg = stamped,
                             !.got = Nothing, !.shown = Nothing]
    BY <2>1
  <2> HIDE DEF stamped, n
  <2> QED BY <2>2 DEF Kept, IsProgram, Fields
<1>5. CASE SendScripted
  <2> DEFINE m == Script(host.prog)[host.n + 1]
             stamped == IF host.prog = "demo" THEN [m EXCEPT !.ts = 100 * host.session + host.n] ELSE m
             n == host.n + 1
  <2>1. \/ host' = Expect(host, m)
        \/ host' = [host EXCEPT !.phase = "wait", !.n = n, !.msg = stamped, !.got = Nothing]
    BY <1>5 DEF SendScripted, SendExpected
  <2> HIDE DEF m, stamped, n
  <2>2. Kept(host, [host EXCEPT !.phase = "wait", !.n = n, !.msg = stamped, !.got = Nothing])
    BY DEF Kept, IsProgram, Fields
  <2> QED BY <2>1, <2>2, ExpectsKept
<1>6. CASE SendRandom
  <2>1. PICK e \in Events(host.gen) :
          LET b == Batch(host.gen, e[1], e[2]) IN
          SendExpected([host EXCEPT !.gen = b.gen], Head(b.msgs))
    BY <1>6 DEF SendRandom
  <2> DEFINE b == Batch(host.gen, e[1], e[2])
             h == [host EXCEPT !.gen = b.gen]
  <2>2. host' = Expect(h, Head(b.msgs))
    BY <2>1 DEF SendExpected
  <2> HIDE DEF b
  <2>3. Kept(host, h)
    BY DEF Kept, IsProgram, Fields
  <2> HIDE DEF h
  <2>4. Kept(h, Expect(h, Head(b.msgs)))
    BY <2>3, ExpectsKept DEF Kept
  <2> QED BY <2>2, <2>3, <2>4 DEF Kept
<1>7. CASE Receive
  <2> DEFINE d == Head(toHost)
  <2>1. \/ host' = StressReceives(host, d)
        \/ host' = SmokeReceives(host, d)
        \/ host' = ClientReceives(host, d)
    BY <1>7 DEF Receive
  <2> QED BY <2>1, ReceivesKept
<1>8. CASE host' = TimedOut(host)
  BY <1>8, TimesOutKept
<1> QED BY <1>2, <1>3, <1>4, <1>5, <1>6, <1>7, <1>8
        DEF Next, Progress, Unheard, TimeOut, Late, vars

\* How programs are counted.
CountInv == host.used \in Nat /\ host.session \in Nat

\* No program.
LEMMA IdleIs ==
    /\ Idle.used = 0 /\ Idle.session = 0 /\ Idle.prog = "none" /\ Idle.phase = "off"
    /\ Idle.verdict = "" /\ Idle.fresh = FALSE
BY DEF Idle

\* At first nothing is counted.
LEMMA CountInit == Init => CountInv
<1>1. 0 \in Nat
  OBVIOUS
<1> QED BY <1>1, IdleIs DEF Init, CountInv

\* What a program is started with.
Started(prog, g) ==
    /\ IsProgram(g) /\ g.prog = prog /\ g.phase = "send" /\ g.n = 0 /\ g.verdict = ""
    /\ g.ref = NewReference /\ g.gen = NewGenerator /\ g.got = Nothing /\ g.seq = 1
    /\ g.session = host.session + 1
    /\ g.fresh => cmd = Board!ZeroCmd
    /\ prog \in Unscripted => g.count \in 1 .. MaxCommands - host.used /\ g.used = host.used + g.count
    /\ prog \notin Unscripted => g.count = Len(Script(prog)) /\ g.used = host.used

\* A program starts like this.
LEMMA StartsSo ==
    ASSUME NEW prog, Start(prog), CountInv
    PROVE  Started(prog, host')
<1>1. PICK count \in IF prog \in Unscripted THEN 1 .. MaxCommands - host.used ELSE {Len(Script(prog))} :
                   host' = [Idle EXCEPT !.prog = prog, !.session = host.session + 1,
                              !.fresh = (cmd = Board!ZeroCmd), !.phase = "send",
                              !.count = count,
                              !.used = host.used + IF prog \in Unscripted THEN count ELSE 0]
  BY DEF Start
<1> DEFINE fresh == cmd = Board!ZeroCmd
           used == host.used + IF prog \in Unscripted THEN count ELSE 0
           session == host.session + 1
           g == [Idle EXCEPT !.prog = prog, !.session = session, !.fresh = fresh,
                             !.phase = "send", !.count = count, !.used = used]
<1>2. host' = g
  BY <1>1
<1>3. /\ prog \in Unscripted => used = host.used + count
      /\ prog \notin Unscripted => used = host.used
  BY DEF CountInv
<1>4. fresh => cmd = Board!ZeroCmd
  OBVIOUS
<1>5. session = host.session + 1
  OBVIOUS
<1>6. /\ IsProgram(Idle) /\ Idle.verdict = "" /\ Idle.ref = NewReference
      /\ Idle.gen = NewGenerator /\ Idle.n = 0 /\ Idle.got = Nothing /\ Idle.seq = 1
  BY DEF Idle, IsProgram, Fields
<1> HIDE DEF fresh, used, session
<1>7. /\ IsProgram(g) /\ g.prog = prog /\ g.phase = "send" /\ g.n = Idle.n /\ g.verdict = Idle.verdict
      /\ g.ref = Idle.ref /\ g.gen = Idle.gen /\ g.got = Idle.got /\ g.seq = Idle.seq
      /\ g.session = session /\ g.fresh = fresh /\ g.count = count /\ g.used = used
  BY <1>6 DEF IsProgram, Fields
<1> HIDE DEF g
<1>8. /\ prog \in Unscripted => count \in 1 .. MaxCommands - host.used
      /\ prog \notin Unscripted => count = Len(Script(prog))
  BY <1>1
<1> QED BY <1>2, <1>3, <1>4, <1>5, <1>6, <1>7, <1>8 DEF Started

\* Commands and sessions stay counted.
LEMMA CountStep ==
    ASSUME CountInv, IsProgram(host), [Next]_vars
    PROVE  CountInv'
<1>1. CASE \E prog \in Programs : Start(prog)
  <2>1. PICK prog \in Programs : Start(prog)
    BY <1>1
  <2>2. Started(prog, host')
    BY <2>1, StartsSo
  <2> DEFINE u == host.used
             c == host'.count
             s == host.session
             v == host'.used
             t == host'.session
  <2>3. /\ u \in Nat /\ s \in Nat /\ t = s + 1
        /\ (c \in 1 .. MaxCommands - u /\ v = u + c) \/ v = u
    BY <2>2 DEF Started, CountInv
  <2> HIDE DEF u, c, s, v, t
  <2>4. v \in Nat /\ t \in Nat
    BY <2>3, ScriptsAssumption
  <2> QED BY <2>4 DEF CountInv, v, t
<1>2. CASE ~\E prog \in Programs : Start(prog)
  BY <1>2, StepKeeps DEF CountInv, Kept
<1> QED BY <1>1, <1>2

\* A program that is no test does not fail.
QuietInv ==
    /\ host.prog \notin Stress \union {"smoke", "demo"} => host.verdict # "FAIL"
    /\ host.prog \notin Stress \union {"smoke", "demo", "prompt"} => host.phase \in {"send", "off"}
    /\ host.prog \notin Stress => host.phase # "prime"

\* At first no program runs.
LEMMA QuietInit == Init => QuietInv
<1>1. Init => host = Idle
  BY DEF Init
<1> QED BY <1>1, IdleIs DEF QuietInv

\* The other programs have no script.
LEMMA NoScript ==
    ASSUME NEW prog, prog \notin Scripted \union {"smoke", "demo"}
    PROVE  Script(prog) = <<>>
BY DEF Scripted, Script

\* What the prompt makes of a datagram.
LEMMA PromptKeeps ==
    ASSUME NEW h, IsProgram(h), h.prog = "prompt", NEW d
    PROVE  LET g == ClientReceives(h, d) IN g.verdict \in {h.verdict, "QUIT"} /\ g.phase \in {"send", "off", "drain", h.phase}
<1> DEFINE more == CASE d.kind = "ACK" /\ d.ack.id = h.msg.id -> [h.got EXCEPT !.ack = d.ack]
                     [] d.kind = "EXECUTE" -> [h.got EXCEPT !.reps = Append(@, d.report)]
                     [] OTHER -> h.got
           next == [h EXCEPT !.got = more]
           last == [next EXCEPT !.phase = "drain"]
<1>1. ClientReceives(h, d) = IF d.kind = "FOREIGN" THEN Advance(h)
                             ELSE IF more.ack = NoAck THEN next ELSE last
  BY DEF ClientReceives
<1> HIDE DEF more
<1>2. IsProgram(next) /\ next.verdict = h.verdict /\ next.phase = h.phase
  BY DEF IsProgram, Fields
<1> HIDE DEF next
<1>3. last.verdict = h.verdict /\ last.phase = "drain"
  BY <1>2 DEF IsProgram, Fields
<1> HIDE DEF last
<1>4. Advance(h).verdict \in {h.verdict, "QUIT"} /\ Advance(h).phase \in {"send", "off"}
  BY AdvancesKept
<1> QED BY <1>1, <1>2, <1>3, <1>4

\* A step of any program leaves it so.
LEMMA QuietStep ==
    ASSUME QuietInv, CountInv, IsProgram(host), [Next]_vars
    PROVE  QuietInv'
<1>1. CASE \E prog \in Programs : Start(prog)
  <2>1. PICK prog \in Programs : Start(prog)
    BY <1>1
  <2>2. Started(prog, host')
    BY <2>1, StartsSo
  <2> QED BY <2>2 DEF Started, QuietInv
<1>2. CASE ~\E prog \in Programs : Start(prog)
  <2>1. Kept(host, host')
    BY <1>2, StepKeeps
  <2>2. host'.prog = host.prog
    BY <2>1 DEF Kept
  <2>3. CASE UNCHANGED host
    BY <2>3 DEF QuietInv
  <2>4. CASE host.prog \in Stress
    BY <2>2, <2>4 DEF QuietInv
  <2>5. CASE host.prog \notin Stress /\ host' # host
    <3>1. SendScripted \/ SendTyped \/ Receive \/ (Listening /\ host' = TimedOut(host))
      <4>1. "random" \in Stress
        BY DEF Stress
      <4> QED BY <1>2, <2>5, <4>1 DEF Next, Progress, SendPrime, SendRandom, Unheard, TimeOut, Late, vars
    <3>2. CASE SendScripted
      <4> DEFINE m == Script(host.prog)[host.n + 1]
                 stamped == IF host.prog = "demo" THEN [m EXCEPT !.ts = 100 * host.session + host.n] ELSE m
                 n == host.n + 1
      <4>1. host' = [host EXCEPT !.phase = "wait", !.n = n, !.msg = stamped, !.got = Nothing]
        BY <2>5, <3>2 DEF SendScripted
      <4> HIDE DEF m, stamped, n
      <4>2. host'.phase = "wait"
        BY <4>1 DEF IsProgram, Fields
      <4>3. Script(host.prog) # <<>>
        BY <3>2 DEF SendScripted
      <4>4. host.prog \in {"smoke", "demo"}
        BY <2>5, <4>3, NoScript, StressPrograms
      <4> QED BY <2>2, <4>2, <4>4 DEF QuietInv
    <3>3. CASE SendTyped
      <4>1. PICK m \in Typed :
              LET stamped == [m EXCEPT !.seq = host.n + 1, !.ts = 100 * host.session + host.n] IN
               host' = [host EXCEPT !.phase = "wait", !.n = @ + 1, !.msg = stamped,
                                    !.got = Nothing, !.shown = Nothing]
        BY <3>3 DEF SendTyped
      <4> DEFINE stamped == [m EXCEPT !.seq = host.n + 1, !.ts = 100 * host.session + host.n]
                 n == host.n + 1
      <4>2. host' = [host EXCEPT !.phase = "wait", !.n = n, !.msg = stamped,
                                 !.got = Nothing, !.shown = Nothing]
        BY <4>1
      <4> HIDE DEF stamped, n
      <4>3. host'.phase = "wait" /\ host'.verdict = host.verdict
        BY <4>2 DEF IsProgram, Fields
      <4>4. host.prog = "prompt"
        BY <3>3 DEF SendTyped
      <4> QED BY <2>2, <4>3, <4>4 DEF QuietInv
    <3>4. CASE Receive
      <4>1. Listening
        BY <3>4 DEF Receive
      <4>2. host.prog \in {"smoke", "demo", "prompt"} /\ host.phase \in {"wait", "drain"}
        BY <2>5, <4>1 DEF QuietInv, Listening
      <4> DEFINE d == Head(toHost)
      <4>3. CASE host.prog = "prompt"
        <5>1. host' = ClientReceives(host, d)
          BY <2>5, <3>4, <4>3 DEF Receive
        <5>2. host'.verdict \in {host.verdict, "QUIT"} /\ host'.phase \in {"send", "off", "drain", host.phase}
          BY <4>3, <5>1, PromptKeeps
        <5> QED BY <2>2, <2>5, <4>2, <4>3, <5>2 DEF QuietInv
      <4>4. CASE host.prog = "smoke"
        <5>1. host' = SmokeReceives(host, d)
          BY <2>5, <3>4, <4>4 DEF Receive
        <5>2. host' = [host EXCEPT !.phase = "drain"]
          BY <2>5, <5>1 DEF SmokeReceives
        <5>3. host'.phase = "drain"
          BY <5>2 DEF IsProgram, Fields
        <5> QED BY <2>2, <4>4, <5>3 DEF QuietInv
      <4>5. CASE host.prog = "demo"
        <5>1. host' = ClientReceives(host, d)
          BY <2>5, <3>4, <4>5 DEF Receive
        <5>2. host'.phase # "prime"
          <6> DEFINE more == CASE d.kind = "ACK" /\ d.ack.id = host.msg.id -> [host.got EXCEPT !.ack = d.ack]
                               [] d.kind = "EXECUTE" -> [host.got EXCEPT !.reps = Append(@, d.report)]
                               [] OTHER -> host.got
                     next == [host EXCEPT !.got = more]
          <6>1. ClientReceives(host, d) \in {End(host, "FAIL"), next, DemoGoesOn(next)}
            BY <4>5 DEF ClientReceives
          <6> HIDE DEF more
          <6>2. IsProgram(next) /\ next.phase = host.phase
            BY DEF IsProgram, Fields
          <6> HIDE DEF next
          <6>3. \A g : IsProgram(g) => End(g, "FAIL").phase = "off" /\ Advance(g).phase \in {"send", "off"}
            BY EndsKept, Advances
          <6> QED BY <4>2, <5>1, <6>1, <6>2, <6>3 DEF DemoGoesOn
        <5> QED BY <2>2, <4>5, <5>2 DEF QuietInv
      <4> QED BY <4>2, <4>3, <4>4, <4>5
    <3>5. CASE Listening /\ host' = TimedOut(host)
      <4>1. host.prog \in {"smoke", "demo", "prompt"} /\ host.phase \in {"wait", "drain"}
        BY <2>5, <3>5 DEF QuietInv, Listening
      <4>2. host.prog = "prompt" => host'.verdict \in {host.verdict, "QUIT"}
        BY <3>5, <4>1, TimesOutKept
      <4>3. host'.phase # "prime"
        <5>1. \A g : IsProgram(g) => End(g, "FAIL").phase = "off" /\ Advance(g).phase \in {"send", "off"}
          BY EndsKept, Advances
        <5>2. host.prog = "prompt" /\ host.phase = "drain" => host'.phase \in {"send", "off"}
          BY <3>5, TimesOut
        <5>3. host' = IF host.phase = "drain" THEN IF host.prog = "prompt" THEN Show(host) ELSE Advance(host)
                                              ELSE IF host.prog = "prompt" THEN Advance(host) ELSE End(host, "FAIL")
          BY <3>5, <4>1 DEF TimedOut
        <5> QED BY <5>1, <5>2, <5>3
      <4> QED BY <2>2, <4>1, <4>2, <4>3 DEF QuietInv
    <3> QED BY <3>1, <3>2, <3>3, <3>4, <3>5
  <2> QED BY <2>3, <2>4, <2>5
<1> QED BY <1>1, <1>2

\* Without a disturbance the step is one of these.
LEMMA Undisturbed ==
    ASSUME [Next]_vars, Sequence(faults), faults' = <<>>
    PROVE  /\ faults = <<>>
           /\ \/ UNCHANGED vars
              \/ \E prog \in Programs : Start(prog)
              \/ SendPrime \/ SendTyped \/ SendScripted \/ SendRandom \/ Receive \/ Unheard \/ TimeOut
              \/ (BoardStep /\ UNCHANGED host)
<1>1. ASSUME NEW what, NEW p, NEW q, Disturb(what, p, q) PROVE FALSE
  BY <1>1, Disturbed
<1>2. ~LinkFault
  BY <1>1 DEF LinkFault, LoseCommand, DuplicateCommand, LoseAnswer, DuplicateAnswer, ReorderAnswers, Foreign
<1>3. ~Late
  BY <1>1 DEF Late
<1>4. \/ UNCHANGED vars
      \/ \E prog \in Programs : Start(prog)
      \/ SendPrime \/ SendTyped \/ SendScripted \/ SendRandom \/ Receive \/ Unheard \/ TimeOut
      \/ (BoardStep /\ UNCHANGED host)
  BY <1>2, <1>3 DEF Next, Progress
<1>5. \A h, m : SendExpected(h, m) => faults' = faults
  BY DEF SendExpected, SendDatagram, linkVars
<1>6. SendScripted => faults' = faults
  BY <1>5 DEF SendScripted, SendDatagram
<1>7. SendRandom => faults' = faults
  BY <1>5 DEF SendRandom
<1>8. UNCHANGED vars => faults' = faults
  BY DEF vars, linkVars
<1>9. (\E prog \in Programs : Start(prog)) => faults' = faults
  BY DEF Start, linkVars
<1>10. SendPrime \/ SendTyped => faults' = faults
  BY DEF SendPrime, SendTyped, SendDatagram
<1>11. Receive \/ Unheard \/ TimeOut => faults' = faults
  BY DEF Receive, Unheard, TimeOut, linkVars
<1>12. BoardStep => faults' = faults
  BY DEF BoardStep
<1>13. faults' = faults
  BY <1>4, <1>6, <1>7, <1>8, <1>9, <1>10, <1>11, <1>12
<1> QED BY <1>4, <1>13

\* What a random stress sends.
LEMMA RandomSends ==
    ASSUME IsProgram(host), Running, Fine(host.ref.book), host.prog = "random",
           NEW e \in Events(host.gen), NEW x, x = Batch(host.gen, e[1], e[2]), NEW w, w = Head(x.msgs),
           NEW h, h = [host EXCEPT !.gen = x.gen]
    PROVE  /\ IsProgram(h) /\ h.gen = x.gen /\ h.prog = host.prog /\ h.ref = host.ref /\ h.n = host.n
           /\ h.count = host.count /\ h.verdict = host.verdict /\ h.seq = host.seq
           /\ h.fresh = host.fresh /\ h.used = host.used /\ h.session = host.session
           /\ GenTyped(x.gen) /\ x.gen.book = Taken(host.ref.book, w).book
           /\ x.gen.nextId = IF w.type = "ADD" THEN host.gen.nextId + 1 ELSE host.gen.nextId
           /\ Sendable(w) /\ w.price \in Priced /\ Sequence(Taken(host.ref.book, w).trades)
           /\ w.type = "ADD" => w.id = host.gen.nextId
           /\ w.type # "ADD" => OrderIds(host.ref.book) # {}
           /\ host.gen.nextId \notin OrderIds(host.ref.book) => InOrder(host.ref.book, w)
<1> DEFINE m == e[1]
           res == e[2]
           g == host.gen
           own == host.ref.book
<1>1. GenTyped(g) /\ g.book = own
  BY DEF Running
<1>2. Event(g, m, res)
  <2>1. Fine(g.book)
    BY <1>1
  <2> HIDE DEF g
  <2> QED BY <1>1, <2>1, EventsSent DEF g
<1>3. /\ IsProgram(h) /\ h.gen = x.gen /\ h.prog = host.prog /\ h.ref = host.ref /\ h.n = host.n
      /\ h.count = host.count /\ h.verdict = host.verdict /\ h.seq = host.seq
      /\ h.fresh = host.fresh /\ h.used = host.used /\ h.session = host.session
  BY DEF IsProgram, Fields
<1>4. x = Batch(g, m, res)
  OBVIOUS
<1> HIDE DEF m, res, g, own
<1> DEFINE num == g.seq + 1
<1>5. /\ GenTyped(x.gen) /\ x.gen.book = res.book
      /\ x.gen.nextId = IF m.type = "ADD" THEN g.nextId + 1 ELSE g.nextId
      /\ w = [m EXCEPT !.seq = num]
  BY <1>1, <1>2, <1>4, BatchBegins
<1> HIDE DEF num
<1>6. /\ IsMessage(m) /\ Sendable(m) /\ m.price \in Priced
      /\ res = Taken(own, m) /\ Sequence(res.trades)
      /\ m.type # "ADD" => g.live # {}
      /\ m.type = "ADD" => m.id = g.nextId
      /\ g.nextId \notin OrderIds(own) => res.err = ""
  BY <1>1, <1>2 DEF Event
<1>7. Sendable(w) /\ w.type = m.type /\ w.id = m.id /\ w.price = m.price /\ Taken(own, w) = Taken(own, m)
  <2> DEFINE v == [m EXCEPT !.seq = num]
  <2>1. Sendable(v) /\ v.type = m.type /\ v.id = m.id /\ v.price = m.price /\ Taken(own, v) = Taken(own, m)
    BY <1>6, NumberedAlike
  <2>2. w = v
    BY <1>5
  <2> HIDE DEF v
  <2> QED BY <2>1, <2>2
<1>8. g.live = OrderIds(own)
  BY <1>1 DEF GenTyped
<1>9. /\ x.gen.book = Taken(own, w).book /\ w.price \in Priced /\ Sequence(Taken(own, w).trades)
      /\ x.gen.nextId = IF w.type = "ADD" THEN g.nextId + 1 ELSE g.nextId
      /\ w.type = "ADD" => w.id = g.nextId
      /\ w.type # "ADD" => OrderIds(own) # {}
      /\ g.nextId \notin OrderIds(own) => InOrder(own, w)
  BY <1>5, <1>6, <1>7, <1>8 DEF InOrder
<1> QED BY <1>3, <1>5, <1>7, <1>9 DEF g, own

-----------------------------------------------------------------------------
(* A board that took a command shows it.                                     *)

\* An addition under way has a price; a board that took nothing is as it was programmed.
Telling(m) == m.type = "ADD" => m.price # 0

\* It is so for all that is under way.
Told ==
    /\ \A i \in DOMAIN toBoard : Telling(toBoard[i])
    /\ cmd = Board!ZeroCmd => Blank

\* At first nothing is under way.
LEMMA ToldInit == Init => Told
<1> SUFFICES ASSUME Init PROVE Told
  OBVIOUS
<1>1. /\ toBoard = <<>> /\ repSeq = 1 /\ book = [s \in Side |-> [l \in Level |-> <<>>]]
  BY DEF Init, LinkInit, Board!Init, Board!Side, Board!Level, Side, Level
<1>2. DOMAIN toBoard = {}
  BY <1>1
<1> QED BY <1>1, <1>2 DEF Told, Blank

\* The traffic goes on.
LEMMA TellsOn ==
    ASSUME Told, UNCHANGED boardVars,
           \/ toBoard' = toBoard
           \/ Sequence(toBoard) /\ \E m : Telling(m) /\ toBoard' = Append(toBoard, m)
    PROVE  Told'
<1>1. cmd' = cmd /\ book' = book /\ repSeq' = repSeq
  BY DEF boardVars
<1>2. CASE toBoard' = toBoard
  BY <1>1, <1>2 DEF Told, Blank
<1>3. ASSUME NEW m, Sequence(toBoard), Telling(m), toBoard' = Append(toBoard, m) PROVE Told'
  <2>1. /\ Sequence(toBoard') /\ Len(toBoard) \in Nat /\ Len(toBoard') = Len(toBoard) + 1
        /\ DOMAIN toBoard = 1 .. Len(toBoard)
        /\ \A i \in 1 .. Len(toBoard) : toBoard'[i] = toBoard[i]
        /\ toBoard'[Len(toBoard) + 1] = m
    BY <1>3, Grows
  <2>2. DOMAIN toBoard' = 1 .. Len(toBoard) + 1
    BY <2>1, Grows
  <2>3. \A i \in DOMAIN toBoard' : Telling(toBoard'[i])
    <3> SUFFICES ASSUME NEW i \in 1 .. Len(toBoard) + 1 PROVE Telling(toBoard'[i])
      BY <2>2
    <3>1. \A j \in 1 .. Len(toBoard) : Telling(toBoard[j])
      BY <2>1 DEF Told
    <3>2. CASE i = Len(toBoard) + 1
      BY <1>3, <2>1, <3>2
    <3>3. CASE i # Len(toBoard) + 1
      <4>1. i \in 1 .. Len(toBoard)
        BY <2>1, <3>3
      <4> QED BY <2>1, <3>1, <4>1
    <3> QED BY <3>2, <3>3
  <2> QED BY <1>1, <2>3 DEF Told, Blank
<1> QED BY <1>2, <1>3

\* Scripts and what is typed have prices.
LEMMA ScriptTells ==
    ASSUME NEW prog, NEW n, prog \in Scripted \/ prog \in {"smoke", "demo"},
           n \in 1 .. Len(Script(prog)), NEW ts
    PROVE  /\ Telling(Script(prog)[n])
           /\ Telling(IF prog = "demo" THEN [Script(prog)[n] EXCEPT !.ts = ts] ELSE Script(prog)[n])
<1>1. CASE prog \in Scripted
  <2>1. Script(prog)[n].price \in Priced
    BY <1>1, ScriptFresh
  <2>2. prog # "demo"
    BY <1>1 DEF Scripted
  <2> QED BY <2>1, <2>2, NumLevelsAssumption DEF Telling, Priced
<1>2. CASE prog \in {"smoke", "demo"}
  <2>1. PICK id, price, qty, side : Script(prog)[n] = AddOf(n, id, price, qty, side) /\ price \in {1, 2}
    <3>1. CASE prog = "smoke"
      <4>1. /\ Len(Script(prog)) = 2 /\ Script(prog)[1] = AddOf(1, 4097, 2, 10, "BUY")
            /\ Script(prog)[2] = AddOf(2, 4098, 1, 10, "SELL")
        BY <3>1 DEF Script
      <4>2. n = 1 \/ n = 2
        BY <4>1
      <4> QED BY <4>1, <4>2
    <3>2. CASE prog = "demo"
      <4>1. /\ Len(Script(prog)) = 2 /\ Script(prog)[1] = AddOf(1, 1234, 1, 50, "SELL")
            /\ Script(prog)[2] = AddOf(2, 5678, 2, 80, "BUY")
        BY <3>2 DEF Script
      <4>2. n = 1 \/ n = 2
        BY <4>1
      <4> QED BY <4>1, <4>2
    <3> QED BY <1>2, <3>1, <3>2
  <2> DEFINE m == AddOf(n, id, price, qty, side)
             w == [m EXCEPT !.ts = ts]
  <2>2. m.price = price /\ w.price = price
    BY DEF AddOf, Message
  <2> HIDE DEF m, w
  <2>3. Telling(m) /\ Telling(w)
    BY <2>1, <2>2 DEF Telling
  <2> QED BY <2>1, <2>3 DEF m, w
<1> QED BY <1>1, <1>2

\* What is typed at the prompt has a price.
LEMMA TypedTells ==
    ASSUME NEW m \in Typed, NEW a, NEW b
    PROVE  Telling([m EXCEPT !.seq = a, !.ts = b])
<1>1. ASSUME NEW t, NEW s, NEW i, NEW p, NEW q, m = TypedLine(t, s, i, p, q), t = "ADD" => p # 0
      PROVE  Telling([m EXCEPT !.seq = a, !.ts = b])
  BY <1>1 DEF TypedLine, Message, Telling
<1>2. \/ \E s \in Side, i \in TypedIds, p \in PriceMin .. PriceMax, q \in TypedQty :
           m = TypedLine("ADD", s, i, p, q)
      \/ \E i \in TypedIds, p \in PriceMin .. PriceMax, q \in TypedQty :
           m = TypedLine("MODIFY", "BUY", i, p, q)
      \/ \E i \in TypedIds : m = TypedLine("CANCEL", "BUY", i, 0, 0)
      \/ \E i \in TypedIds, q \in TypedQty : m = TypedLine("EXECUTE", "BUY", i, 0, q)
  BY DEF Typed
<1>3. \A p \in PriceMin .. PriceMax : p # 0
  BY RangeAssumption, NumLevelsAssumption DEF Level
<1> QED BY <1>1, <1>2, <1>3

-----------------------------------------------------------------------------
(* The two programs of two commands.                                         *)

\* The smoke test and the demo send two commands.
Paired == {"smoke", "demo"}

\* Where they are.
PairInv ==
    host.prog \in Paired =>
        /\ host.count = 2
        /\ host.phase \in {"send", "wait", "drain", "off"}
        /\ host.phase = "send" => host.n \in {0, 1}
        /\ host.phase \in {"wait", "drain"} => host.n \in {1, 2}

\* g is what comes of a program h that waits: it goes on waiting, ends, or sends again.
Turns(h, g) ==
    /\ IsProgram(g) /\ g.n = h.n /\ g.count = h.count
    /\ g.phase \in {"wait", "drain", "off", "send"} /\ (g.phase = "send" => h.n # h.count)

\* It is so for what is received and for a silence.
LEMMA PairTurns ==
    ASSUME NEW h, IsProgram(h), h.prog \in Paired, h.phase \in {"wait", "drain"}, NEW d
    PROVE  /\ Turns(h, SmokeReceives(h, d)) /\ Turns(h, ClientReceives(h, d))
           /\ Turns(h, TimedOut(h))
<1>1. Turns(h, h)
  BY DEF Turns
<1>2. \A got : Turns(h, [h EXCEPT !.got = got])
  BY DEF IsProgram, Fields, Turns
<1>3. Turns(h, [h EXCEPT !.phase = "drain"])
  BY DEF IsProgram, Fields, Turns
<1>4. \A g : Turns(h, g) => Turns(h, Advance(g)) /\ Turns(h, End(g, "FAIL"))
  <2> SUFFICES ASSUME NEW g, Turns(h, g) PROVE Turns(h, Advance(g)) /\ Turns(h, End(g, "FAIL"))
    OBVIOUS
  <2>1. \A v : LET e == End(g, v) IN e.n = g.n /\ e.phase = "off" /\ IsProgram(e) /\ e.count = g.count
    BY EndsTest DEF SameTest, Turns
  <2>2. CASE g.n = g.count
    BY <2>1, <2>2 DEF Advance, Turns
  <2>3. CASE g.n # g.count
    <3>1. LET e == Advance(g) IN e.n = g.n /\ e.phase = "send" /\ IsProgram(e) /\ e.count = g.count
      BY <2>3, AdvancesKept DEF Turns, Kept
    <3> QED BY <2>1, <2>3, <3>1 DEF Turns
  <2> QED BY <2>2, <2>3
<1>5. Turns(h, SmokeReceives(h, d))
  BY <1>1, <1>3 DEF SmokeReceives
<1>6. Turns(h, ClientReceives(h, d))
  <2>1. h.prog # "prompt"
    BY DEF Paired
  <2> DEFINE more == CASE d.kind = "ACK" /\ d.ack.id = h.msg.id -> [h.got EXCEPT !.ack = d.ack]
                       [] d.kind = "EXECUTE" -> [h.got EXCEPT !.reps = Append(@, d.report)]
                       [] OTHER -> h.got
             next == [h EXCEPT !.got = more]
  <2>2. ClientReceives(h, d) \in {End(h, "FAIL"), Advance(h), next, DemoGoesOn(next)}
    BY <2>1 DEF ClientReceives
  <2> HIDE DEF more
  <2>3. Turns(h, next)
    BY <1>2
  <2> HIDE DEF next
  <2>4. DemoGoesOn(next) \in {End(next, "FAIL"), Advance(next)}
    BY DEF DemoGoesOn
  <2> QED BY <1>1, <1>4, <2>2, <2>3, <2>4
<1>7. Turns(h, TimedOut(h))
  <2>1. TimedOut(h) \in {Advance(h), End(h, "FAIL")}
    BY DEF TimedOut, Paired
  <2> QED BY <1>1, <1>4, <2>1
<1> QED BY <1>5, <1>6, <1>7

\* Both scripts have two commands.
LEMMA PairScript == \A prog \in Paired : Len(Script(prog)) = 2
<1>1. Len(Script("smoke")) = 2
  BY DEF Script
<1>2. Len(Script("demo")) = 2
  BY DEF Script
<1> QED BY <1>1, <1>2 DEF Paired

\* At first neither runs.
LEMMA PairInit == Init => PairInv
BY IdleIs DEF Init, PairInv, Paired

\* The two programs stay within their two commands.
LEMMA PairStep ==
    ASSUME PairInv, CountInv, IsProgram(host), [Next]_vars
    PROVE  PairInv'
<1>1. CASE \E prog \in Programs : Start(prog)
  <2>1. PICK prog \in Programs : Start(prog)
    BY <1>1
  <2>2. Started(prog, host')
    BY <2>1, StartsSo
  <2>3. prog \in Paired => prog \notin Unscripted
    BY DEF Paired, Unscripted
  <2> QED BY <2>2, <2>3, PairScript DEF Started, PairInv
<1>2. CASE ~\E prog \in Programs : Start(prog)
  <2>1. host'.prog = host.prog /\ host'.count = host.count
    BY <1>2, StepKeeps DEF Kept
  <2>2. CASE host.prog \notin Paired
    BY <2>1, <2>2 DEF PairInv
  <2>3. CASE UNCHANGED host
    BY <2>3 DEF PairInv
  <2>4. CASE host.prog \in Paired /\ host' # host
    <3>1. host.prog \notin Stress /\ host.prog \notin Unscripted
      BY <2>4 DEF Paired, Stress, Unscripted
    <3>2. SendScripted \/ Receive \/ (Listening /\ host' = TimedOut(host))
      <4>1. "random" \in Unscripted /\ "prompt" \in Unscripted
        BY DEF Unscripted
      <4> QED BY <1>2, <2>4, <3>1, <4>1
              DEF Next, Progress, SendPrime, SendTyped, SendRandom, Unheard, TimeOut, Late, vars
    <3>3. CASE SendScripted
      <4> DEFINE m == Script(host.prog)[host.n + 1]
                 stamped == IF host.prog = "demo" THEN [m EXCEPT !.ts = 100 * host.session + host.n] ELSE m
                 n == host.n + 1
      <4>1. host' = [host EXCEPT !.phase = "wait", !.n = n, !.msg = stamped, !.got = Nothing]
        BY <3>1, <3>3 DEF SendScripted
      <4>2. host.n \in {0, 1}
        BY <2>4, <3>3 DEF SendScripted, PairInv
      <4>3. n \in {1, 2}
        BY <4>2
      <4> HIDE DEF m, stamped, n
      <4>4. host'.phase = "wait" /\ host'.n = n
        BY <4>1 DEF IsProgram, Fields
      <4> QED BY <2>1, <2>4, <4>3, <4>4 DEF PairInv
    <3>4. CASE Receive \/ (Listening /\ host' = TimedOut(host))
      <4>1. host.phase \in {"wait", "drain"}
        BY <2>4, <3>4 DEF PairInv, Receive, Listening
      <4>2. Turns(host, host')
        <5> DEFINE d == Head(toHost)
        <5>1. host' \in {SmokeReceives(host, d), ClientReceives(host, d), TimedOut(host)}
          BY <3>1, <3>4 DEF Receive
        <5> HIDE DEF d
        <5> QED BY <2>4, <4>1, <5>1, PairTurns
      <4> QED BY <2>1, <2>4, <4>1, <4>2 DEF Turns, PairInv
    <3> QED BY <3>2, <3>3, <3>4
  <2> QED BY <2>2, <2>3, <2>4
<1> QED BY <1>1, <1>2

-----------------------------------------------------------------------------
\* Every addition that is sent has a price, so a board that took one tells.
LEMMA ToldStep ==
    ASSUME Told, AgreeInv, PairInv, [Next]_vars, faults' = <<>>
    PROVE  Told'
<1>1. /\ faults = <<>>
      /\ \/ UNCHANGED vars
         \/ \E prog \in Programs : Start(prog)
         \/ SendPrime \/ SendTyped \/ SendScripted \/ SendRandom \/ Receive \/ Unheard \/ TimeOut
         \/ (BoardStep /\ UNCHANGED host)
  BY Undisturbed DEF AgreeInv, Tidy
<1>2. Sequence(toBoard) /\ IsProgram(host)
  BY DEF AgreeInv, Tidy
<1>3. Clean
  <2>1. DOMAIN faults = {}
    BY <1>1
  <2>2. \A x : ~Contains(faults, x)
    BY <1>1 DEF Contains
  <2> QED BY <2>2 DEF Clean
<1>4. host.prog \in Stress => Agreeing
  BY <1>3 DEF AgreeInv
<1>5. ASSUME NEW m, Telling(m), SendDatagram(m) PROVE Told'
  BY <1>2, <1>5, TellsOn DEF SendDatagram
<1>6. ASSUME UNCHANGED boardVars, toBoard' = toBoard PROVE Told'
  BY <1>6, TellsOn
<1>7. CASE UNCHANGED vars \/ (\E prog \in Programs : Start(prog)) \/ Receive \/ Unheard \/ TimeOut
  <2>1. UNCHANGED boardVars /\ toBoard' = toBoard
    BY <1>7 DEF vars, linkVars, Start, Receive, Unheard, TimeOut
  <2> QED BY <1>6, <2>1
<1>8. CASE SendPrime
  <2>1. Telling(Prime)
    BY DEF Telling, Prime, Junk, Message
  <2> QED BY <1>5, <1>8, <2>1 DEF SendPrime
<1>9. CASE SendTyped
  <2>1. PICK m \in Typed : SendDatagram([m EXCEPT !.seq = host.n + 1, !.ts = 100 * host.session + host.n])
    BY <1>9 DEF SendTyped
  <2> QED BY <1>5, <2>1, TypedTells
<1>10. CASE SendScripted
  <2> DEFINE m == Script(host.prog)[host.n + 1]
             ts == 100 * host.session + host.n
             stamped == IF host.prog = "demo" THEN [m EXCEPT !.ts = ts] ELSE m
  <2>1. host.phase = "send" /\ Script(host.prog) # <<>>
    BY <1>10 DEF SendScripted
  <2>2. host.prog \in Scripted \/ host.prog \in Paired
    BY <2>1, NoScript DEF Paired
  <2>3. host.n + 1 \in 1 .. Len(Script(host.prog))
    <3>1. CASE host.prog \in Paired
      <4>1. host.n \in {0, 1}
        BY <2>1, <3>1 DEF PairInv
      <4> QED BY <3>1, <4>1, PairScript
    <3>2. CASE host.prog \in Scripted
      <4>1. host.n \in Nat /\ host.n <= host.count /\ host.n # host.count /\ host.count = Len(Script(host.prog))
        BY <1>4, <2>1, <3>2, StressPrograms DEF Agreeing, Running, BetweenCommands
      <4>2. Len(Script(host.prog)) \in Nat
        BY <3>2, ScriptSends
      <4> QED BY <4>1, <4>2
    <3> QED BY <2>2, <3>1, <3>2
  <2>4. Telling(m) /\ Telling(stamped)
    <3> HIDE DEF ts
    <3> QED BY <2>2, <2>3, ScriptTells DEF Paired
  <2>5. CASE host.prog \in Stress
    <3>1. SendExpected(host, m)
      BY <1>10, <2>5 DEF SendScripted
    <3> HIDE DEF m
    <3>2. SendDatagram(m) \/ UNCHANGED linkVars
      BY <3>1 DEF SendExpected
    <3>3. UNCHANGED linkVars => UNCHANGED boardVars /\ toBoard' = toBoard
      BY DEF linkVars
    <3> QED BY <1>5, <1>6, <2>4, <3>2, <3>3
  <2>6. CASE host.prog \notin Stress
    <3>1. SendDatagram(stamped)
      BY <1>10, <2>6 DEF SendScripted
    <3> HIDE DEF m, stamped
    <3> QED BY <1>5, <2>4, <3>1
  <2> QED BY <2>5, <2>6
<1>11. CASE SendRandom
  <2>1. PICK e \in Events(host.gen) :
          LET b == Batch(host.gen, e[1], e[2]) IN
          SendExpected([host EXCEPT !.gen = b.gen], Head(b.msgs))
    BY <1>11 DEF SendRandom
  <2> DEFINE x == Batch(host.gen, e[1], e[2])
             w == Head(x.msgs)
             h == [host EXCEPT !.gen = x.gen]
  <2>2. SendExpected(h, w)
    BY <2>1
  <2>3. host.prog = "random" /\ Running /\ Fine(host.ref.book)
    <3>1. host.prog = "random" /\ host.phase = "send" /\ host.prog \in Stress
      BY <1>11 DEF SendRandom, Stress
    <3>2. Running /\ Ready(host)
      BY <1>4, <3>1 DEF Agreeing, BetweenCommands
    <3>3. NewReference.book = EmptyBook
      BY DEF NewReference
    <3> QED BY <3>1, <3>2, <3>3, EmptyFine DEF Ready, Holding
  <2> HIDE DEF x, h, w
  <2>4. w.price \in Priced
    BY <1>2, <2>3, RandomSends DEF x, h, w
  <2>5. Telling(w)
    BY <2>4 DEF Telling, Priced
  <2>6. SendDatagram(w) \/ UNCHANGED linkVars
    BY <2>2 DEF SendExpected
  <2>7. UNCHANGED linkVars => UNCHANGED boardVars /\ toBoard' = toBoard
    BY DEF linkVars
  <2> QED BY <1>5, <1>6, <2>5, <2>6, <2>7
<1>12. CASE BoardStep
  <2>1. /\ toBoard # <<>> /\ toBoard' = Tail(toBoard)
        /\ IF Decodes(Head(toBoard)) THEN Serve(Head(toBoard)) ELSE UNCHANGED <<boardVars, toHost>>
    BY <1>12 DEF BoardStep
  <2>2. /\ Len(toBoard) \in Nat \ {0} /\ Len(toBoard') = Len(toBoard) - 1 /\ Head(toBoard) = toBoard[1]
        /\ \A j \in 1 .. Len(toBoard) - 1 : toBoard'[j] = toBoard[j + 1]
        /\ Sequence(toBoard')
    BY <1>2, <2>1, Shortens
  <2>3. \A j \in DOMAIN toBoard' : Telling(toBoard'[j])
    <3>1. DOMAIN toBoard' = 1 .. Len(toBoard) - 1 /\ DOMAIN toBoard = 1 .. Len(toBoard)
      BY <1>2, <2>2, Grows
    <3> SUFFICES ASSUME NEW j \in 1 .. Len(toBoard) - 1 PROVE Telling(toBoard'[j])
      BY <3>1
    <3>2. j + 1 \in 1 .. Len(toBoard)
      BY <2>2
    <3>3. Telling(toBoard[j + 1])
      BY <3>1, <3>2 DEF Told
    <3> QED BY <2>2, <3>3
  <2>4. CASE ~Decodes(Head(toBoard))
    <3>1. cmd' = cmd /\ book' = book /\ repSeq' = repSeq
      BY <2>1, <2>4 DEF boardVars
    <3> QED BY <2>3, <3>1 DEF Told, Blank
  <2>5. CASE Decodes(Head(toBoard))
    <3> DEFINE m == Head(toBoard)
               c == Bare(m)
    <3>1. Board!Process(c)
      BY <2>1, <2>5 DEF Serve, Bare
    <3>2. c.type = m.type /\ c.price = m.price
      BY DEF Bare
    <3>3. Telling(m)
      <4>1. 1 \in DOMAIN toBoard
        BY <1>2, <2>2, Grows
      <4> QED BY <2>2, <4>1 DEF Told
    <3> HIDE DEF c, m
    <3>4. cmd' = c
      BY <3>1 DEF Board!Process
    <3>5. Board!ZeroCmd.type = "ADD" /\ Board!ZeroCmd.price = 0
      BY DEF Board!ZeroCmd
    <3>6. cmd' # Board!ZeroCmd
      BY <3>2, <3>3, <3>4, <3>5 DEF Telling
    <3> QED BY <2>3, <3>6 DEF Told
  <2> QED BY <2>4, <2>5
<1> QED BY <1>1, <1>7, <1>8, <1>9, <1>10, <1>11, <1>12

-----------------------------------------------------------------------------
(* The stress tests.                                                         *)

\* A stress test on a board that was just programmed.
Tested ==
    /\ host.fresh /\ host.prog \in Stress
    /\ host.prog = "random" => host.count < BoardOrders

\* The board and the reference agree, and there is more to send.
Going ==
    /\ Holding(host.ref.book) /\ host.seq = repSeq /\ host.n # host.count
    /\ Staged(host)

\* The command is on its way to a board that answers as is expected,
AskedWell ==
    /\ toBoard = <<host.msg>> /\ toHost = <<>> /\ host.got = Nothing /\ Decodes(host.msg)
    /\ Taking(host)

\* or the expected answer is on its way back.
AnsweredWell ==
    /\ toBoard = <<>> /\ \E i : Delivering(host.want.reps, i)
    /\ host.got = [ack |-> NoAck, reps |-> host.got.reps]
    /\ host.want = [ack |-> ack, reps |-> host.want.reps] /\ ack # NoAck
    /\ host.seq = repSeq /\ Holding(host.ref.book)

\* A stress test that runs well.
GoodTest ==
    /\ host.verdict # "FAIL"
    /\ host.phase = "send" => Quiet /\ Going
    /\ host.phase = "prime" => toHost = <<>> /\ toBoard \in {<<>>, <<Prime>>} /\ Going
    /\ host.phase = "wait" => Staged(host) /\ (AskedWell \/ AnsweredWell)

\* A test that starts on a fresh board agrees with it.
LEMMA TestStarts ==
    ASSUME Told, CountInv, NEW prog, Start(prog), Tested'
    PROVE  GoodTest'
<1> DEFINE g == host'
<1>1. Started(prog, g)
  BY StartsSo
<1>2. Quiet' /\ UNCHANGED boardVars
  BY DEF Start, Quiet, linkVars
<1>3. g.fresh /\ prog \in Stress /\ (prog = "random" => g.count < BoardOrders) /\ g.prog = prog
  BY <1>1 DEF Tested, Started
<1>4. Blank
  BY <1>1, <1>3 DEF Started, Told
<1>5. Holding(EmptyBook) /\ repSeq = 1
  BY <1>4, BlankHolds DEF Blank
<1>6. g.ref.book = EmptyBook /\ g.seq = 1 /\ g.n = 0 /\ g.phase = "send" /\ g.verdict = ""
  <2>1. NewReference.book = EmptyBook
    BY DEF NewReference
  <2> QED BY <1>1, <2>1 DEF Started
<1>7. Holding(host.ref.book)' /\ g.seq = repSeq'
  <2>1. book' = book /\ repSeq' = repSeq
    BY <1>2 DEF boardVars
  <2> QED BY <1>5, <1>6, <2>1 DEF Holding
<1>8. g.count \in Nat \ {0}
  <2>1. CASE prog \in Scripted
    <3>1. g.count = Len(Script(prog))
      BY <1>1, <2>1, StressPrograms DEF Started
    <3> QED BY <2>1, <3>1, ScriptSends
  <2>2. CASE prog = "random"
    <3>1. g.count \in 1 .. MaxCommands - host.used
      BY <1>1, <2>2 DEF Started, Unscripted
    <3>2. host.used \in Nat
      BY DEF CountInv
    <3> DEFINE top == MaxCommands - host.used
    <3>3. top \in Int
      BY <3>2, ScriptsAssumption
    <3> HIDE DEF top
    <3>4. g.count \in 1 .. top
      BY <3>1 DEF top
    <3> QED BY <3>3, <3>4
  <2> QED BY <1>3, <2>1, <2>2, StressPrograms
<1>9. Staged(g)
  <2>1. OrderIds(g.ref.book) = {} /\ Cardinality(OrderIds(g.ref.book)) = 0
    BY <1>6, EmptyFine, FS_EmptySet
  <2>2. \A l \in Level : Resting(g.ref.book)["SELL"][l] = <<>>
    BY <1>6, EmptyFine DEF Side
  <2>3. g.count \in Nat /\ 0 <= g.count
    BY <1>8
  <2>4. g.n = 0 /\ g.n # 1 /\ g.n # 2 /\ 0 <= g.n /\ g.n <= g.count
    <3>1. 0 # 1 /\ 0 # 2 /\ 0 <= 0
      OBVIOUS
    <3>2. g.n = 0 /\ 0 <= g.count
      BY ONLY <1>6, <2>3
    <3> HIDE DEF g
    <3> QED BY ONLY <3>1, <3>2
  <2>5. g.prog = "random" => g.count < BoardOrders
    BY <1>3
  <2> HIDE DEF g
  <2>6. Cardinality(OrderIds(g.ref.book)) <= g.n
    BY <2>1, <2>4
  <2> QED BY <2>1, <2>2, <2>3, <2>4, <2>5, <2>6 DEF Staged
<1>10. g.n # g.count
  BY <1>6, <1>8
<1>11. Going'
  <2>1. Staged(host)'
    BY <1>9 DEF Staged
  <2> QED BY <1>7, <1>10, <2>1 DEF Going
<1> QED BY <1>2, <1>6, <1>11 DEF GoodTest

\* A priming datagram is sent first.
LEMMA TestPrimes ==
    ASSUME Tidy, GoodTest, SendPrime
    PROVE  GoodTest'
<1>1. /\ host.phase = "send"
      /\ host' = [host EXCEPT !.phase = "prime", !.msg = Prime]
      /\ toBoard' = Append(toBoard, Prime)
      /\ toHost' = toHost /\ UNCHANGED boardVars
  BY DEF SendPrime, SendDatagram
<1>2. /\ host'.phase = "prime" /\ host'.prog = host.prog
      /\ host'.n = host.n /\ host'.count = host.count /\ host'.ref = host.ref
      /\ host'.gen = host.gen /\ host'.verdict = host.verdict /\ host'.seq = host.seq
  BY <1>1 DEF Tidy, IsProgram, Fields
<1>3. Quiet /\ Going /\ host.verdict # "FAIL"
  BY <1>1 DEF GoodTest
<1>4. toHost' = <<>> /\ toBoard' = <<Prime>>
  BY <1>1, <1>3 DEF Quiet
<1>5. Going'
  BY <1>1, <1>2, <1>3 DEF Going, Holding, Staged, boardVars
<1> QED BY <1>2, <1>3, <1>4, <1>5 DEF GoodTest

\* A good board will take the command that is sent, or refuse it as it should.
LEMMA TestSends ==
    ASSUME Tidy, Running, Going, Quiet, host.verdict # "FAIL",
           NEW h, IsProgram(h), h.prog = host.prog, h.ref = host.ref, h.n = host.n,
           h.count = host.count, h.verdict = host.verdict, h.seq = host.seq,
           NEW m, Good(host, m), SendExpected(h, m),
           host.prog = "random" =>
               /\ host.n + 1 <= host.count /\ host.gen.nextId \in Nat
               /\ h.gen.nextId = IF m.type = "ADD" THEN host.gen.nextId + 1 ELSE host.gen.nextId
               /\ m.type = "ADD" => m.id = host.gen.nextId,
           host.prog \in Scripted =>
               host.n + 1 <= Len(Script(host.prog)) /\ m = Script(host.prog)[host.n + 1]
    PROVE  GoodTest'
<1> DEFINE g == host'
           b == host.ref.book
<1>1. host.n \in Nat /\ IsReference(h.ref) /\ Roomy(book)
  BY DEF Running, Tidy
<1>2. Holding(b) /\ host.seq = repSeq /\ Staged(host)
  BY DEF Going
<1>3. Good(h, m)
  BY DEF Good
<1>4. g = Expect(h, m)
  BY DEF SendExpected
<1>5. SentGood(h, m, g)
  BY <1>1, <1>2, <1>3, <1>4, ExpectsGood
<1>6. /\ SameTest(h, g) /\ g.phase = "wait" /\ g.n = h.n + 1 /\ g.msg = m /\ g.got = Nothing
      /\ g.verdict = h.verdict /\ Taking(g)
      /\ g.ref.book = IF Rejected(host.prog, host.n + 1) THEN b ELSE Taken(b, m).book
  BY <1>5 DEF SentGood
<1>7. g.prog = host.prog /\ g.count = host.count /\ g.gen = h.gen /\ g.n = host.n + 1
  BY <1>6 DEF SameTest
<1>8. toBoard' = <<m>> /\ toHost' = <<>> /\ UNCHANGED boardVars
  <2>1. SendDatagram(m) /\ toBoard = <<>> /\ toHost = <<>>
    BY <1>6 DEF SendExpected, Quiet
  <2> QED BY <2>1 DEF SendDatagram
<1> HIDE DEF g
<1>9. Taking(host)'
  BY <1>6, <1>8 DEF Taking, Takes, Fills, Holding, boardVars, g
<1>10. Decodes(m)
  BY <1>3 DEF Good, Sendable, Decodes
<1>11. Fine(b) /\ Roomy(Resting(b)) /\ Cardinality(OrderIds(b)) \in Nat
  BY <1>1, <1>2, FeedPlaces DEF Holding, Fine, Feed!GoodBook
<1>12. Staged(g)
  <2>1. CASE Rejected(host.prog, host.n + 1)
    <3>1. g.ref.book = b
      BY <1>6, <2>1
    <3> QED BY <1>1, <1>2, <1>7, <1>11, <2>1, <3>1, StagedRefused
  <2>2. CASE ~Rejected(host.prog, host.n + 1)
    <3>1. g.ref.book = Taken(b, m).book
      BY <1>6, <2>2
    <3>2. /\ Sendable(m) /\ m.price \in Priced /\ InOrder(b, m)
          /\ m.type = "ADD" => Cardinality(OrderIds(b)) < Room
      BY <2>2 DEF Good
    <3>3. host.prog = "random" =>
              g.gen.nextId = IF m.type = "ADD" THEN host.gen.nextId + 1 ELSE host.gen.nextId
      BY <1>7
    <3> HIDE DEF b
    <3>4. b = host.ref.book
      BY DEF b
    <3> QED BY <1>1, <1>2, <1>7, <1>11, <3>1, <3>2, <3>3, <3>4, StagedTaken
  <2> QED BY <2>1, <2>2
<1>13. AskedWell'
  BY <1>6, <1>8, <1>9, <1>10 DEF AskedWell, g
<1> QED BY <1>6, <1>12, <1>13 DEF GoodTest, g

\* A command of a script.
LEMMA TestSendsScripted ==
    ASSUME Tidy, Running, GoodTest, host.prog \in Scripted, SendScripted
    PROVE  GoodTest'
<1> DEFINE n == host.n + 1
           m == Script(host.prog)[n]
<1>1. host.phase = "send" /\ SendExpected(host, m) /\ host.prog # "random"
  BY StressPrograms DEF SendScripted
<1>2. Quiet /\ Going /\ host.verdict # "FAIL" /\ IsProgram(host)
  BY <1>1 DEF GoodTest, Tidy
<1>3. host.n \in Nat /\ n <= Len(Script(host.prog))
  <2>1. host.n \in Nat /\ host.n <= host.count /\ host.n # host.count /\ host.count = Len(Script(host.prog))
    BY <1>2 DEF Running, Going
  <2>2. Len(Script(host.prog)) \in Nat
    BY ScriptSends
  <2> QED BY <2>1, <2>2
<1>4. Staged(host) /\ Fine(host.ref.book)
  BY <1>2 DEF Going, Holding
<1>5. m = Script(host.prog)[host.n + 1] /\ host.n + 1 <= Len(Script(host.prog))
  BY <1>3
<1> HIDE DEF m, n
<1>6. Good(host, m)
  BY <1>3, <1>4, <1>5, ScriptTaken DEF Good
<1> QED BY <1>1, <1>2, <1>5, <1>6, TestSends

\* A random command.
LEMMA TestSendsRandom ==
    ASSUME Tidy, Running, GoodTest, SendRandom
    PROVE  GoodTest'
<1>1. PICK e \in Events(host.gen) :
        LET b == Batch(host.gen, e[1], e[2]) IN
        SendExpected([host EXCEPT !.gen = b.gen], Head(b.msgs))
  BY DEF SendRandom
<1>2. host.phase = "send" /\ host.prog = "random" /\ host.prog \notin Scripted
  BY DEF SendRandom, Scripted
<1>3. Quiet /\ Going /\ host.verdict # "FAIL" /\ IsProgram(host)
  BY <1>2 DEF GoodTest, Tidy
<1> DEFINE x == Batch(host.gen, e[1], e[2])
           w == Head(x.msgs)
           h == [host EXCEPT !.gen = x.gen]
<1>4. SendExpected(h, w)
  BY <1>1
<1>5. Staged(host) /\ Fine(host.ref.book)
  BY <1>3 DEF Going, Holding
<1> HIDE DEF x, w, h
<1> DEFINE next == host.gen.nextId
           ids == OrderIds(host.ref.book)
<1>6. /\ IsProgram(h) /\ h.gen = x.gen /\ h.prog = host.prog /\ h.ref = host.ref /\ h.n = host.n
      /\ h.count = host.count /\ h.verdict = host.verdict /\ h.seq = host.seq
      /\ x.gen.nextId = IF w.type = "ADD" THEN next + 1 ELSE next
      /\ Sendable(w) /\ w.price \in Priced /\ Sequence(Taken(host.ref.book, w).trades)
      /\ w.type = "ADD" => w.id = next
      /\ next \notin ids => InOrder(host.ref.book, w)
  BY <1>2, <1>3, <1>5, RandomSends DEF x, w, h
<1>7. next \in Nat /\ host.n \in Nat
  BY DEF Running, GenTyped
<1>8. /\ host.count \in Nat /\ host.n <= host.count /\ host.count < BoardOrders
      /\ \A i \in ids : i < next
      /\ Cardinality(ids) <= host.n
  BY <1>2, <1>5 DEF Staged
<1>9. next \notin ids
  <2>1. ~(next < next)
    BY <1>7
  <2> QED BY <1>8, <2>1
<1>10. Cardinality(ids) \in Nat
  BY <1>5, FeedPlaces DEF Fine, Feed!GoodBook
<1>11. host.n + 1 <= host.count
  <2>1. host.n # host.count
    BY <1>3 DEF Going
  <2> QED BY <1>7, <1>8, <2>1
<1>12. Cardinality(ids) < Room
  BY <1>7, <1>8, <1>10, <1>11, BoardAssumption DEF Room
<1>13. ~Rejected(host.prog, host.n + 1)
  BY <1>2 DEF Rejected
<1>14. Good(host, w)
  BY <1>6, <1>9, <1>12, <1>13 DEF Good
<1>15. h.gen.nextId = IF w.type = "ADD" THEN host.gen.nextId + 1 ELSE host.gen.nextId
  BY <1>6
<1>16. w.type = "ADD" => w.id = host.gen.nextId
  BY <1>6
<1>17. host.gen.nextId \in Nat
  BY <1>7
<1> HIDE DEF next, ids
<1> QED BY <1>2, <1>3, <1>4, <1>6, <1>11, <1>14, <1>15, <1>16, <1>17, TestSends

\* What an answer that comes tells a stress test.
LEMMA TestReceives ==
    ASSUME Tidy, GoodTest, host.prog \in Stress, host.phase # "drain", Receive
    PROVE  GoodTest'
<1> DEFINE d == Head(toHost)
<1>0. PICK reps, had : reps = host.want.reps /\ had = host.got.reps
  OBVIOUS
<1>1. /\ toHost # <<>> /\ toHost' = Tail(toHost) /\ toBoard' = toBoard /\ UNCHANGED boardVars
      /\ host' = StressReceives(host, d) /\ host.phase = "wait"
  BY DEF Receive, Listening, GoodTest, Stress
<1>2. AnsweredWell /\ Staged(host) /\ host.verdict # "FAIL" /\ IsProgram(host)
  BY <1>1 DEF GoodTest, AskedWell, Tidy
<1>3. PICK i : Delivering(reps, i)
  BY <1>0, <1>2 DEF AnsweredWell
<1>4. ack' = ack /\ book' = book /\ repSeq' = repSeq /\ toBoard' = <<>>
  BY <1>1, <1>2 DEF boardVars, AnsweredWell
<1>5. \/ /\ i \in 0 .. Len(reps) - 1 /\ d = ReportDatagram(reps[i + 1])
         /\ host'.got.reps = Append(had, reps[i + 1]) => Delivering(reps, i + 1)'
      \/ d = AckDatagram(ack) /\ toHost' = <<>> /\ had = reps
  BY <1>0, <1>1, <1>3, <1>4, NextAnswer
<1>6. Sequence(reps) /\ Sequence(had) /\ Len(had) = i /\ i \in 0 .. Len(reps) /\ Len(reps) \in Nat
  <2>1. Sequence(reps) /\ Sequence(had) /\ Len(had) = i /\ i \in 0 .. Len(reps)
    BY <1>0, <1>3 DEF Delivering
  <2> QED BY <2>1, Grows
<1>7. host.got = [ack |-> NoAck, reps |-> had] /\ host.want = [ack |-> ack, reps |-> reps] /\ ack # NoAck
  BY <1>0, <1>2 DEF AnsweredWell
<1>8. \A x : LET g == [host EXCEPT !.got = x] IN
        /\ IsProgram(g) /\ g.got = x /\ g.phase = host.phase /\ g.prog = host.prog
        /\ g.n = host.n /\ g.count = host.count /\ g.ref = host.ref /\ g.gen = host.gen
        /\ g.verdict = host.verdict /\ g.seq = host.seq /\ g.want = host.want /\ g.fresh = host.fresh
  BY <1>2 DEF IsProgram, Fields
<1> HIDE DEF d
<1>9. CASE /\ i \in 0 .. Len(reps) - 1 /\ d = ReportDatagram(reps[i + 1])
           /\ host'.got.reps = Append(had, reps[i + 1]) => Delivering(reps, i + 1)'
  <2> DEFINE r == reps[i + 1]
             longer == Append(had, r)
             more == [host.got EXCEPT !.reps = Append(@, r)]
             next == [host EXCEPT !.got = more]
  <2>1. d.kind = "EXECUTE" /\ d.report = r
    BY <1>9 DEF ReportDatagram
  <2> HIDE DEF r
  <2>2. more = [ack |-> NoAck, reps |-> longer]
    <3>1. host.got.reps = had
      BY <1>0
    <3> HIDE DEF longer
    <3>2. more = [[ack |-> NoAck, reps |-> had] EXCEPT !.reps = longer]
      BY <1>7, <3>1 DEF longer
    <3> QED BY <3>2
  <2>3. Len(longer) = i + 1 /\ ~(Len(longer) > Len(reps))
    <3>1. Len(longer) = i + 1
      BY <1>6, Grows
    <3> QED BY <1>6, <1>9, <3>1
  <2>4. more.ack = NoAck /\ more.reps = longer
    BY <2>2
  <2>5. host' = next
    <3> HIDE DEF longer
    <3>1. Len(host.want.reps) = Len(reps)
      BY <1>0
    <3>2. StressReceives(host, d) =
             IF Len(more.reps) > Len(host.want.reps) THEN End(host, "FAIL")
             ELSE IF more.ack = NoAck \/ Len(more.reps) < Len(host.want.reps) THEN next
             ELSE IF host.phase = "prime" THEN [next EXCEPT !.phase = "send"]
             ELSE Compare(next)
      BY <2>1 DEF StressReceives
    <3> QED BY <1>1, <2>3, <2>4, <3>1, <3>2
  <2> HIDE DEF more
  <2>6. /\ host'.got = more /\ host'.phase = "wait" /\ host'.prog = host.prog
        /\ host'.n = host.n /\ host'.count = host.count /\ host'.ref = host.ref /\ host'.gen = host.gen
        /\ host'.verdict = host.verdict /\ host'.seq = host.seq /\ host'.want = host.want
    BY <1>1, <1>8, <2>5
  <2>7. host'.got.reps = longer
    BY <2>4, <2>6
  <2>8. Delivering(reps, i + 1)'
    BY <1>9, <2>7 DEF r
  <2>9. host'.got = [ack |-> NoAck, reps |-> host'.got.reps]
    BY <2>2, <2>6
  <2>10. host'.want.reps = reps
    BY <1>0, <2>6
  <2>11. (\E j : Delivering(host.want.reps, j))'
    BY <2>8, <2>10
  <2>12. host'.want = [ack |-> ack', reps |-> host'.want.reps] /\ ack' # NoAck
    BY <1>4, <1>7, <2>6, <2>10
  <2>13. AnsweredWell'
    BY <1>2, <1>4, <2>6, <2>9, <2>11, <2>12 DEF AnsweredWell, Holding
  <2>14. Staged(host)'
    BY <1>2, <2>6 DEF Staged
  <2> QED BY <1>2, <2>6, <2>13, <2>14 DEF GoodTest
<1>10. CASE d = AckDatagram(ack) /\ toHost' = <<>> /\ had = reps
  <2> DEFINE more == [host.got EXCEPT !.ack = ack]
             next == [host EXCEPT !.got = more]
  <2>1. d.kind = "ACK" /\ d.ack = ack
    BY <1>10 DEF AckDatagram
  <2>2. more = [ack |-> ack, reps |-> reps]
    <3>1. more = [[ack |-> NoAck, reps |-> had] EXCEPT !.ack = ack]
      BY <1>7
    <3> QED BY <1>10, <3>1
  <2>3. more = host.want /\ more.ack = ack /\ more.reps = reps /\ host.want.reps = reps
    BY <1>7, <2>2
  <2>4. ~(Len(reps) > Len(reps)) /\ ~(Len(reps) < Len(reps)) /\ host.got.ack = NoAck
    BY <1>6, <1>7
  <2>5. StressReceives(host, d) =
             IF Len(more.reps) > Len(host.want.reps) THEN End(host, "FAIL")
             ELSE IF more.ack = NoAck \/ Len(more.reps) < Len(host.want.reps) THEN next
             ELSE IF host.phase = "prime" THEN [next EXCEPT !.phase = "send"]
             ELSE Compare(next)
    BY <2>1, <2>4 DEF StressReceives
  <2>6. host' = Compare(next)
    <3> HIDE DEF more, next
    <3> QED BY <1>1, <1>7, <2>3, <2>4, <2>5
  <2> HIDE DEF more
  <2>7. /\ IsProgram(next) /\ next.got = host.want /\ next.want = host.want /\ next.prog = host.prog
        /\ next.n = host.n /\ next.count = host.count /\ next.ref = host.ref /\ next.gen = host.gen
        /\ next.verdict = host.verdict /\ next.seq = host.seq
    BY <1>8, <2>3
  <2> HIDE DEF next
  <2>8. host' = IF next.n = next.count THEN End(next, "PASS") ELSE [next EXCEPT !.phase = "send"]
    <3>1. next.prog # "prompt"
      BY <2>7, StressPrograms
    <3> QED BY <2>6, <2>7, <3>1 DEF Compare, Advance
  <2>9. CASE next.n = next.count
    <3>1. host'.phase = "off" /\ host'.verdict = "PASS"
      BY <2>7, <2>8, <2>9, EndsTest
    <3> QED BY <3>1 DEF GoodTest
  <2>10. CASE next.n # next.count
    <3>1. /\ host'.phase = "send" /\ host'.prog = host.prog
          /\ host'.n = host.n /\ host'.count = host.count /\ host'.ref = host.ref /\ host'.gen = host.gen
          /\ host'.verdict = host.verdict /\ host'.seq = host.seq
      BY <2>7, <2>8, <2>10 DEF IsProgram, Fields
    <3>2. Quiet'
      BY <1>4, <1>10 DEF Quiet
    <3>3. Staged(host)'
      BY <1>2, <3>1 DEF Staged
    <3>4. Going'
      BY <1>2, <1>4, <2>7, <2>10, <3>1, <3>3 DEF Going, AnsweredWell, Holding
    <3> QED BY <1>2, <3>1, <3>2, <3>4 DEF GoodTest
  <2> QED BY <2>9, <2>10
<1> QED BY <1>5, <1>9, <1>10

\* Only a priming datagram is not answered.
LEMMA TestWaits ==
    ASSUME Tidy, GoodTest, host.phase # "drain", TimeOut
    PROVE  GoodTest'
<1>1. /\ toBoard = <<>> /\ toHost = <<>> /\ host' = TimedOut(host) /\ UNCHANGED linkVars
      /\ host.phase \in {"prime", "wait"} /\ IsProgram(host)
  BY DEF TimeOut, Listening, Quiet, Tidy
<1>2. host.phase # "wait"
  <2>1. SUFFICES ASSUME host.phase = "wait" PROVE FALSE
    OBVIOUS
  <2>2. AnsweredWell
    BY <1>1, <2>1 DEF GoodTest, AskedWell
  <2>3. PICK i : Delivering(host.want.reps, i)
    BY <2>2 DEF AnsweredWell
  <2> DEFINE k == Len(host.want.reps)
  <2>4. Len(toHost) = k - i + 1 /\ i \in 0 .. k /\ Sequence(host.want.reps)
    BY <2>3 DEF Delivering
  <2>5. k \in Nat
    BY <2>4, Grows
  <2>6. Len(toHost) = 0
    BY <1>1
  <2> HIDE DEF k
  <2> QED BY <2>4, <2>5, <2>6
<1>3. host' = [host EXCEPT !.phase = "send"] /\ host.phase = "prime"
  BY <1>1, <1>2 DEF TimedOut
<1>4. /\ host'.phase = "send" /\ host'.prog = host.prog
      /\ host'.n = host.n /\ host'.count = host.count /\ host'.ref = host.ref /\ host'.gen = host.gen
      /\ host'.verdict = host.verdict /\ host'.seq = host.seq
  BY <1>1, <1>3 DEF IsProgram, Fields
<1>5. Going /\ host.verdict # "FAIL"
  BY <1>3 DEF GoodTest
<1>6. Quiet' /\ UNCHANGED boardVars
  BY <1>1 DEF linkVars, Quiet
<1>7. Going'
  BY <1>4, <1>5, <1>6 DEF Going, Holding, Staged, boardVars
<1> QED BY <1>4, <1>5, <1>6, <1>7 DEF GoodTest

\* The board answers as is expected.
LEMMA TestServed ==
    ASSUME GoodTest, host.phase \in {"prime", "send", "wait", "off"}, BoardStep, UNCHANGED host
    PROVE  GoodTest'
<1>1. /\ toBoard # <<>> /\ toBoard' = Tail(toBoard) /\ host' = host
      /\ IF Decodes(Head(toBoard)) THEN Serve(Head(toBoard)) ELSE UNCHANGED <<boardVars, toHost>>
  BY DEF BoardStep
<1>2. CASE host.phase = "send"
  BY <1>1, <1>2 DEF GoodTest, Quiet
<1>3. CASE host.phase = "off"
  BY <1>3 DEF GoodTest
<1>4. CASE host.phase = "prime"
  <2>1. ~Decodes(Prime)
    BY DEF Prime, Junk, Message, Decodes, MsgType
  <2>2. toBoard = <<Prime>> /\ toHost = <<>> /\ Going /\ host.verdict # "FAIL"
    BY <1>1, <1>4 DEF GoodTest
  <2> DEFINE d == Prime
  <2> HIDE DEF d
  <2>3. Head(<<d>>) = d /\ Tail(<<d>>) = <<>>
    OBVIOUS
  <2>4. toBoard' = <<>> /\ UNCHANGED <<boardVars, toHost>>
    BY <1>1, <2>1, <2>2, <2>3 DEF d
  <2>5. Going'
    BY <2>2, <2>4 DEF Going, Holding, Staged, boardVars
  <2> QED BY <1>4, <2>2, <2>4, <2>5 DEF GoodTest
<1>5. CASE host.phase = "wait"
  <2>1. AskedWell /\ Staged(host) /\ host.verdict # "FAIL"
    BY <1>1, <1>5 DEF GoodTest, AnsweredWell
  <2>2. Nothing.reps = <<>> /\ Nothing = [ack |-> NoAck, reps |-> Nothing.reps]
    BY DEF Nothing
  <2>3. host.got.reps = <<>> /\ host.got = [ack |-> NoAck, reps |-> host.got.reps]
    BY <2>1, <2>2 DEF AskedWell
  <2>0. PICK reps : reps = AllReports(trades', repSeq)
    OBVIOUS
  <2>4. /\ toBoard' = <<>> /\ Delivering(reps, 0)'
        /\ Board!Process(Bare(host.msg)) /\ repSeq' = repSeq + Len(reps) /\ ack' # NoAck
    BY <1>1, <2>0, <2>1, <2>3, AnswerSent DEF AskedWell
  <2>5. /\ ack' = host.want.ack /\ reps = host.want.reps
        /\ book' = Resting(host.ref.book) /\ Fine(host.ref.book)
    BY <2>0, <2>1, <2>4, TakingServed DEF AskedWell
  <2>6. host.want = [ack |-> host.want.ack, reps |-> host.want.reps] /\ host.seq = repSeq + Len(host.want.reps)
    BY <2>1 DEF AskedWell, Taking
  <2>7. Holding(host.ref.book)' /\ host'.seq = repSeq'
    BY <1>1, <2>4, <2>5, <2>6 DEF Holding
  <2>8. host'.want = [ack |-> ack', reps |-> host'.want.reps]
    BY <1>1, <2>5, <2>6
  <2>9. (\E j : Delivering(host.want.reps, j))'
    <3>1. host'.want.reps = reps
      BY <1>1, <2>5
    <3> QED BY <2>4, <3>1
  <2>10. AnsweredWell'
    BY <1>1, <2>3, <2>4, <2>7, <2>8, <2>9 DEF AnsweredWell
  <2>11. Staged(host)'
    BY <1>1, <2>1 DEF Staged
  <2> QED BY <1>1, <1>5, <2>1, <2>10, <2>11 DEF GoodTest
<1> QED BY <1>2, <1>3, <1>4, <1>5

-----------------------------------------------------------------------------
(* The smoke test.                                                           *)

\* The smoke test waits for any acknowledgement; one is under way.
SmokeAnswered ==
    toBoard = <<>> /\ Sequence(toHost) /\ toHost # <<>> /\ toHost[Len(toHost)].kind = "ACK"

\* A smoke test that runs well.
GoodSmoke ==
    /\ host.verdict # "FAIL"
    /\ host.phase = "send" => Quiet
    /\ host.phase = "wait" => Asking \/ SmokeAnswered
    /\ host.phase = "drain" => toBoard = <<>>

\* It starts on a quiet link.
LEMMA SmokeStarts ==
    ASSUME CountInv, NEW prog, Start(prog)
    PROVE  GoodSmoke'
<1>1. Started(prog, host')
  BY StartsSo
<1>2. Quiet'
  BY DEF Start, Quiet, linkVars
<1> QED BY <1>1, <1>2 DEF Started, GoodSmoke

\* Its commands decode.
LEMMA PairSends ==
    ASSUME NEW prog \in Paired, NEW n \in {1, 2}
    PROVE  \E id, price, qty, side :
             /\ Script(prog)[n] = AddOf(n, id, price, qty, side)
             /\ id \in Nat /\ side \in Side
             /\ prog = "demo" => <<id, price, qty, side>> = IF n = 1 THEN <<1234, 1, 50, "SELL">>
                                                                     ELSE <<5678, 2, 80, "BUY">>
<1>1. CASE prog = "smoke"
  <2>1. /\ Script(prog)[1] = AddOf(1, 4097, 2, 10, "BUY")
        /\ Script(prog)[2] = AddOf(2, 4098, 1, 10, "SELL")
    BY <1>1 DEF Script
  <2>2. prog # "demo" /\ 4097 \in Nat /\ 4098 \in Nat /\ "BUY" \in Side /\ "SELL" \in Side
    BY <1>1 DEF Side
  <2> QED BY <2>1, <2>2
<1>2. CASE prog = "demo"
  <2>1. /\ Script(prog)[1] = AddOf(1, 1234, 1, 50, "SELL")
        /\ Script(prog)[2] = AddOf(2, 5678, 2, 80, "BUY")
    BY <1>2 DEF Script
  <2>2. 1234 \in Nat /\ 5678 \in Nat /\ "BUY" \in Side /\ "SELL" \in Side
    BY DEF Side
  <2> QED BY <2>1, <2>2
<1> QED BY <1>1, <1>2 DEF Paired

\* A command goes out.
LEMMA SmokeSends ==
    ASSUME Tidy, PairInv, GoodSmoke, host.prog = "smoke", SendScripted
    PROVE  GoodSmoke'
<1> DEFINE n == host.n + 1
           m == Script(host.prog)[n]
<1>1. host.phase = "send" /\ host.prog \in Paired /\ host.prog \notin Stress /\ IsProgram(host)
  BY DEF SendScripted, Paired, Stress, Tidy
<1>2. host' = [host EXCEPT !.phase = "wait", !.n = n, !.msg = m, !.got = Nothing] /\ SendDatagram(m)
  BY <1>1 DEF SendScripted
<1>3. n \in {1, 2}
  <2>1. host.n \in {0, 1}
    BY <1>1 DEF PairInv
  <2> QED BY <2>1
<1>4. m = Script(host.prog)[n]
  OBVIOUS
<1> HIDE DEF n, m
<1>5. PICK id, price, qty, side : m = AddOf(n, id, price, qty, side) /\ side \in Side
  BY <1>1, <1>3, <1>4, PairSends
<1>6. Decodes(m)
  BY <1>5 DEF AddOf, Message, Decodes, MsgType
<1>7. host'.phase = "wait" /\ host'.msg = m /\ host'.got = Nothing /\ host'.verdict = host.verdict
  BY <1>1, <1>2 DEF IsProgram, Fields
<1>8. toBoard' = <<m>> /\ toHost' = <<>>
  BY <1>1, <1>2 DEF SendDatagram, GoodSmoke, Quiet
<1>9. Asking'
  BY <1>6, <1>7, <1>8 DEF Asking, Nothing
<1> QED BY <1>7, <1>9 DEF GoodSmoke

\* The acknowledgement comes.
LEMMA SmokeHears ==
    ASSUME Tidy, PairInv, GoodSmoke, host.prog = "smoke", Receive
    PROVE  GoodSmoke'
<1> DEFINE d == Head(toHost)
<1>1. /\ host.phase \in {"wait", "drain"} /\ IsProgram(host) /\ toHost # <<>> /\ toHost' = Tail(toHost)
      /\ host' = SmokeReceives(host, d) /\ UNCHANGED boardVars /\ toBoard' = toBoard
  BY DEF Receive, Listening, PairInv, Paired, Stress, Tidy
<1>2. toBoard = <<>> /\ (host.phase = "wait" => SmokeAnswered)
  BY <1>1 DEF GoodSmoke, Asking, SmokeAnswered
<1>3. CASE d.kind = "ACK"
  <2>1. host' = [host EXCEPT !.phase = "drain"]
    BY <1>1, <1>3 DEF SmokeReceives
  <2>2. host'.phase = "drain" /\ host'.verdict = host.verdict
    BY <1>1, <2>1 DEF IsProgram, Fields
  <2> QED BY <1>1, <1>2, <2>2 DEF GoodSmoke
<1>4. CASE d.kind # "ACK"
  <2>1. host' = host
    BY <1>1, <1>4 DEF SmokeReceives
  <2>2. CASE host.phase = "drain"
    BY <1>1, <1>2, <2>1, <2>2 DEF GoodSmoke
  <2>3. CASE host.phase = "wait"
    <3> DEFINE k == Len(toHost)
    <3>1. Sequence(toHost) /\ toHost[k].kind = "ACK"
      BY <1>2, <2>3 DEF SmokeAnswered
    <3>2. /\ Sequence(toHost') /\ k \in Nat \ {0} /\ Len(toHost') = k - 1 /\ d = toHost[1]
          /\ \A j \in 1 .. k - 1 : toHost'[j] = toHost[j + 1]
      BY <1>1, <3>1, Shortens
    <3> HIDE DEF k, d
    <3>3. k # 1
      BY <1>4, <3>1, <3>2
    <3>4. k - 1 \in 1 .. k - 1 /\ (k - 1) + 1 = k /\ k - 1 # 0
      BY <3>2, <3>3
    <3>5. toHost'[k - 1] = toHost[k]
      BY <3>2, <3>4
    <3>6. toHost' # <<>>
      BY <3>2, <3>4
    <3>7. SmokeAnswered'
      BY <1>1, <1>2, <3>1, <3>2, <3>5, <3>6 DEF SmokeAnswered
    <3> QED BY <2>1, <2>3, <3>7 DEF GoodSmoke
  <2> QED BY <1>1, <2>2, <2>3
<1> QED BY <1>3, <1>4

\* Silence is what it expects after an acknowledgement.
LEMMA SmokeWaits ==
    ASSUME Tidy, PairInv, GoodSmoke, host.prog = "smoke", TimeOut
    PROVE  GoodSmoke'
<1>1. /\ host.phase \in {"wait", "drain"} /\ IsProgram(host) /\ Quiet
      /\ host' = TimedOut(host) /\ Quiet'
  BY DEF TimeOut, Listening, PairInv, Paired, Stress, Tidy, Quiet, linkVars
<1>2. host.phase = "drain"
  BY <1>1 DEF GoodSmoke, Asking, SmokeAnswered, Quiet
<1>3. host' = Advance(host)
  BY <1>1, <1>2 DEF TimedOut
<1>4. host'.verdict # "FAIL" /\ host'.phase \in {"send", "off"}
  <2>1. host.n = host.count => host'.phase = "off" /\ host'.verdict = "PASS"
    BY <1>1, <1>3, AdvancesKept
  <2>2. host.n # host.count => host'.phase = "send" /\ host'.verdict = host.verdict
    BY <1>1, <1>3, AdvancesKept
  <2> QED BY <2>1, <2>2 DEF GoodSmoke
<1> QED BY <1>1, <1>4 DEF GoodSmoke

\* The board answers with an acknowledgement, after any reports.
LEMMA SmokeServed ==
    ASSUME PairInv, GoodSmoke, host.prog = "smoke", BoardStep, UNCHANGED host
    PROVE  GoodSmoke'
<1>1. toBoard # <<>> /\ host.phase \in {"send", "wait", "drain", "off"} /\ host' = host
  BY DEF BoardStep, PairInv, Paired
<1>2. CASE host.phase = "off"
  BY <1>1, <1>2 DEF GoodSmoke
<1>3. CASE host.phase # "off"
  <2>1. host.phase = "wait" /\ Asking /\ host.verdict # "FAIL"
    BY <1>1, <1>3 DEF GoodSmoke, Quiet, SmokeAnswered
  <2>2. PICK reps : reps = AllReports(trades', repSeq)
    OBVIOUS
  <2>3. toBoard' = <<>> /\ Delivering(reps, 0)'
    BY <1>1, <2>1, <2>2, AnswerSent DEF Asking
  <2> DEFINE k == Len(reps)
  <2>4. /\ Sequence(toHost') /\ Len(toHost') = k - 0 + 1 /\ toHost'[k - 0 + 1] = AckDatagram(ack') /\ k \in Nat
    BY <2>3, Grows DEF Delivering
  <2> HIDE DEF k
  <2>5. Len(toHost') # 0 /\ toHost'[Len(toHost')].kind = "ACK"
    BY <2>4 DEF AckDatagram
  <2>6. SmokeAnswered'
    BY <2>3, <2>4, <2>5 DEF SmokeAnswered
  <2> QED BY <1>1, <2>1, <2>6 DEF GoodSmoke
<1> QED BY <1>2, <1>3

-----------------------------------------------------------------------------
(* The demo.                                                                 *)

\* If a trade is enough, matching is that trade.
LEMMA MatchOnce ==
    ASSUME NEW b, Cardinality(Board!Places(b)) # 0, Board!Crossed(b),
           NEW r, r = Board!TradeOnce([book |-> b, trades |-> <<>>]), ~Board!Crossed(r.book)
    PROVE  Board!Match(b) = r
<1>1. PICK f : LET k == Board!Cardinality(Board!Places(b)) IN
             /\ k \in Nat /\ f[0] = [book |-> b, trades |-> <<>>] /\ Board!Match(b) = f[k]
             /\ \A n \in 1 .. k : f[n] = Board!Round(f[n - 1])
  BY RoundsAre
<1> DEFINE k == Board!Cardinality(Board!Places(b))
           good(n) == f[n] = r
           Bad == {n \in 1 .. k : ~good(n)}
<1>2. /\ k \in Nat /\ f[0] = [book |-> b, trades |-> <<>>] /\ Board!Match(b) = f[k]
      /\ \A n \in 1 .. k : f[n] = Board!Round(f[n - 1])
      /\ k # 0
  BY <1>1, Counts
<1> HIDE DEF k
<1>3. good(1)
  <2>1. 1 \in 1 .. k /\ 1 - 1 = 0
    BY <1>2
  <2>2. f[1] = Board!Round(f[0])
    BY <1>2, <2>1
  <2> DEFINE m == [book |-> b, trades |-> <<>>]
  <2>3. m.book = b
    OBVIOUS
  <2>4. r = Board!TradeOnce(m) /\ f[0] = m
    BY <1>2
  <2> HIDE DEF m
  <2>5. Board!Round(m) = r
    BY <2>3, <2>4 DEF Board!Round
  <2> QED BY <2>2, <2>4, <2>5
<1>4. ASSUME NEW n \in 2 .. k, good(n - 1) PROVE good(n)
  <2>1. n \in 1 .. k
    BY <1>2
  <2>2. f[n] = Board!Round(f[n - 1]) /\ f[n - 1] = r
    BY <1>2, <1>4, <2>1
  <2> QED BY <2>2 DEF Board!Round
<1> HIDE DEF good
<1>5. Bad = {}
  <2> SUFFICES ASSUME Bad # {} PROVE FALSE
    OBVIOUS
  <2>1. PICK n \in Bad : \A m \in Bad : n <= m
    <3>1. Bad \subseteq Nat
      BY <1>2
    <3> HIDE DEF Bad
    <3> QED BY <3>1, LeastNatural
  <2>2. n # 1
    BY <1>3
  <2>3. n \in 2 .. k /\ n - 1 \in 1 .. k /\ n - 1 < n
    BY <1>2, <2>2
  <2>4. good(n - 1)
    BY <1>2, <2>1, <2>3
  <2> QED BY <1>4, <2>3, <2>4
<1>6. good(k)
  BY <1>2, <1>5
<1> QED BY <1>2, <1>6 DEF good

\* An order alone at its level is reduced.
LEMMA LoneReduced ==
    ASSUME NEW b, Shaped(b), NEW s \in Side, NEW l \in Level, NEW e, Entry(e), b[s][l] = <<e>>, NEW q
    PROVE  Replaced(s, l, IF e.qty = q THEN <<>> ELSE <<[id |-> e.id, qty |-> e.qty - q, ts |-> e.ts]>>,
                    Board!Reduce(b, <<s, l, 1>>, q), b)
<1> DEFINE k == <<s, l, 1>>
           o == Board!OrderAt(b, k)
           d == e.qty - q
           c == [id |-> e.id, qty |-> d, ts |-> e.ts]
<1>1. o = e
  BY DEF Board!OrderAt
<1>2. Board!Reduce(b, k, q) = IF o.qty = q THEN Board!Without(b, k)
                              ELSE [b EXCEPT ![k[1]][k[2]][k[3]].qty = o.qty - q]
  BY DEF Board!Reduce
<1> HIDE DEF o
<1>3. Filed(<<>>) /\ Entry(c) /\ Filed(<<c>>)
  <2>1. Entry(c)
    BY DEF Entry
  <2> HIDE DEF c
  <2> QED BY <2>1, OneElement DEF Filed
<1>4. CASE e.qty = q
  <2>1. Board!Without(b, k) = [b EXCEPT ![s][l] = RemoveAt(<<e>>, 1)]
    BY DEF Board!Without, Board!RemoveAt, RemoveAt
  <2>2. RemoveAt(<<e>>, 1) = <<>>
    <3>1. Sequence(<<e>>) /\ Len(<<e>>) = 1 /\ 1 \in DOMAIN <<e>>
      BY OneElement
    <3>2. Sequence(RemoveAt(<<e>>, 1)) /\ Len(RemoveAt(<<e>>, 1)) = 1 - 1
      BY <3>1, Removed
    <3> QED BY <3>2 DEF Sequence
  <2>3. Board!Reduce(b, k, q) = [b EXCEPT ![s][l] = <<>>]
    BY <1>1, <1>2, <1>4, <2>1, <2>2
  <2> HIDE DEF k
  <2>4. Replaced(s, l, <<>>, [b EXCEPT ![s][l] = <<>>], b)
    BY <1>3, LevelPut
  <2> QED BY <1>4, <2>3, <2>4 DEF k
<1>5. CASE e.qty # q
  <2>1. Board!Reduce(b, k, q) = [b EXCEPT ![s][l][1].qty = d]
    BY <1>1, <1>2, <1>5
  <2> HIDE DEF d
  <2>2. [b EXCEPT ![s][l][1].qty = d] = [b EXCEPT ![s][l] = [b[s][l] EXCEPT ![1] = [b[s][l][1] EXCEPT !.qty = d]]]
    BY DEF Shaped
  <2>3. [e EXCEPT !.qty = d] = c
    BY DEF Entry
  <2>4. [b[s][l] EXCEPT ![1] = [b[s][l][1] EXCEPT !.qty = d]] = <<c>>
    <3> HIDE DEF c
    <3>1. b[s][l][1] = e
      OBVIOUS
    <3>2. [<<e>> EXCEPT ![1] = c] = <<c>>
      OBVIOUS
    <3> QED BY <2>3, <3>1, <3>2
  <2> HIDE DEF c, k
  <2>5. Board!Reduce(b, k, q) = [b EXCEPT ![s][l] = <<c>>]
    BY <2>1, <2>2, <2>4
  <2>6. Replaced(s, l, <<c>>, [b EXCEPT ![s][l] = <<c>>], b)
    BY <1>3, LevelPut
  <2> QED BY <1>5, <2>5, <2>6 DEF c, k, d
<1> QED BY <1>4, <1>5

\* The demo's buy takes the sell and is left with 30.
LEMMA DemoTrade ==
    ASSUME 2 <= Room, NEW b, NEW ts, NEW d, d = [id |-> 1234, qty |-> 50, ts |-> ts], Lone(b, "SELL", 1, d),
           NEW at, NEW e, e = [id |-> 5678, qty |-> 80, ts |-> at],
           NEW c, c = Board!Insert(b, "BUY", 2, e)
    PROVE  /\ Lone(Board!Match(c).book, "BUY", 2, [id |-> 5678, qty |-> 30, ts |-> at])
           /\ \E t : /\ Board!Match(c).trades = <<t>>
                     /\ t.buy = 5678 /\ t.sell = 1234
<1>1. 1 \in Level /\ 2 \in Level /\ "BUY" \in Side /\ "SELL" \in Side /\ "BUY" # "SELL" /\ 1 # 2 /\ Room \in Nat
  BY ScriptsAssumption, NumLevelsAssumption, BoardAssumption DEF Level, Side, Room
<1>2. /\ Shaped(b) /\ Entry(d) /\ Entry(e) /\ d.id = 1234 /\ d.qty = 50 /\ e.id = 5678 /\ e.qty = 80 /\ e.ts = at
      /\ \A t \in Side, l \in Level : b[t][l] = IF t = "SELL" /\ l = 1 THEN <<d>> ELSE <<>>
  BY DEF Lone, Entry
<1>3. Append(<<>>, e) = <<e>> /\ <<e>> # <<>> /\ <<d>> # <<>> /\ <<e>>[1] = e /\ <<d>>[1] = d
  BY OneElement
<1>4. /\ Shaped(c)
      /\ \A t \in Side, l \in Level :
           c[t][l] = IF t = "BUY" /\ l = 2 THEN <<e>> ELSE IF t = "SELL" /\ l = 1 THEN <<d>> ELSE <<>>
  <2>1. b["BUY"][2] = <<>>
    BY <1>1, <1>2
  <2>2. Replaced("BUY", 2, Append(b["BUY"][2], e), c, b)
    BY <1>1, <1>2, InsertLevels
  <2>3. Replaced("BUY", 2, <<e>>, c, b)
    BY <1>3, <2>1, <2>2
  <2> QED BY <1>1, <1>2, <2>3 DEF Replaced
<1>5. Board!Prices(c, "BUY") = {2} /\ Board!Prices(c, "SELL") = {1}
  BY <1>1, <1>3, <1>4 DEF Board!Prices, Board!Level, Level
<1>6. Board!Best(c, "BUY") = 2 /\ Board!Best(c, "SELL") = 1
  <2>1. /\ Board!Best(c, "BUY") \in Level /\ c["BUY"][Board!Best(c, "BUY")] # <<>>
        /\ Board!Best(c, "SELL") \in Level /\ c["SELL"][Board!Best(c, "SELL")] # <<>>
    <3>1. Board!Prices(c, "BUY") # {} /\ Board!Prices(c, "SELL") # {}
      BY <1>5
    <3>2. Board!Best(c, "BUY") \in Level /\ c["BUY"][Board!Best(c, "BUY")] # <<>>
      BY <1>1, <3>1, BestStands
    <3>3. Board!Best(c, "SELL") \in Level /\ c["SELL"][Board!Best(c, "SELL")] # <<>>
      BY <1>1, <3>1, BestStands
    <3> QED BY <3>2, <3>3
  <2> QED BY <1>1, <1>4, <2>1
<1>7. Board!Crossed(c)
  BY <1>5 DEF Board!Crossed
<1>8. Cardinality(Board!Places(c)) # 0
  <2>1. <<"BUY", 2, 1>> \in Board!Places(c)
    <3>1. 1 \in 1 .. Room /\ 1 \in DOMAIN c["BUY"][2]
      BY <1>1, <1>4
    <3> QED BY <1>1, <3>1, PlaceIs
  <2>2. Board!Places(c) # {} /\ IsFiniteSet(Board!Places(c))
    BY <2>1, PlacesFinite
  <2> QED BY <2>2, FS_EmptySet
<1> DEFINE m == [book |-> c, trades |-> <<>>]
           r == Board!TradeOnce(m)
           p == Board!Reduce(c, <<"BUY", 2, 1>>, 50)
           x == Board!Reduce(p, <<"SELL", 1, 1>>, 50)
           left == [id |-> 5678, qty |-> 30, ts |-> at]
<1>9. r.book = x /\ \E t : r.trades = <<t>> /\ t.buy = 5678 /\ t.sell = 1234
  <2>1. Board!OrderAt(c, <<"BUY", 2, 1>>) = e /\ Board!OrderAt(c, <<"SELL", 1, 1>>) = d
    <3>1. c["BUY"][2][1] = e /\ c["SELL"][1][1] = d
      BY <1>1, <1>3, <1>4
    <3> QED BY <3>1 DEF Board!OrderAt
  <2> DEFINE older == IF e.ts <= d.ts THEN "BUY" ELSE "SELL"
             t == [buy |-> e.id, sell |-> d.id, price |-> Board!Best(c, older), qty |-> 50,
                   ts |-> IF e.ts >= d.ts THEN e.ts ELSE d.ts]
             q == IF e.qty < d.qty THEN e.qty ELSE d.qty
  <2>2. q = 50
    BY <1>2
  <2>3. m.book = c /\ m.trades = <<>>
    OBVIOUS
  <2> HIDE DEF m
  <2>4. r = [book |-> Board!Reduce(Board!Reduce(c, <<"BUY", 2, 1>>, q), <<"SELL", 1, 1>>, q),
             trades |-> Append(<<>>, [buy |-> e.id, sell |-> d.id, price |-> Board!Best(c, older), qty |-> q,
                                      ts |-> IF e.ts >= d.ts THEN e.ts ELSE d.ts])]
    BY <1>6, <2>1, <2>3 DEF Board!TradeOnce
  <2> HIDE DEF q
  <2>5. r = [book |-> x, trades |-> Append(<<>>, t)]
    BY <2>2, <2>4
  <2>6. t.buy = 5678 /\ t.sell = 1234
    BY <1>2
  <2> HIDE DEF r, x, t
  <2>7. r.book = x /\ r.trades = <<t>>
    BY <2>5, OneElement
  <2> QED BY <2>6, <2>7
<1> HIDE DEF r, x
<1>10. Lone(x, "BUY", 2, left)
  <2>1. Replaced("BUY", 2, <<left>>, p, c)
    <3>1. c["BUY"][2] = <<e>>
      BY <1>1, <1>4
    <3>2. Replaced("BUY", 2, IF e.qty = 50 THEN <<>> ELSE <<[id |-> e.id, qty |-> e.qty - 50, ts |-> e.ts]>>, p, c)
      BY <1>1, <1>2, <1>4, <3>1, LoneReduced
    <3>3. e.qty # 50 /\ [id |-> e.id, qty |-> e.qty - 50, ts |-> e.ts] = left
      BY <1>2
    <3> HIDE DEF p, left
    <3> QED BY <3>2, <3>3
  <2> HIDE DEF left, p
  <2>2. /\ Shaped(p)
        /\ \A t \in Side, l \in Level :
             p[t][l] = IF t = "BUY" /\ l = 2 THEN <<left>> ELSE IF t = "SELL" /\ l = 1 THEN <<d>> ELSE <<>>
    BY <1>4, <2>1 DEF Replaced
  <2>3. Replaced("SELL", 1, <<>>, x, p)
    <3>1. p["SELL"][1] = <<d>>
      BY <1>1, <2>2
    <3>2. Shaped(p) /\ Entry(d) /\ "SELL" \in Side /\ 1 \in Level
      BY <1>1, <1>2, <2>2
    <3>3. Replaced("SELL", 1, IF d.qty = 50 THEN <<>> ELSE <<[id |-> d.id, qty |-> d.qty - 50, ts |-> d.ts]>>,
                   Board!Reduce(p, <<"SELL", 1, 1>>, 50), p)
      BY ONLY <3>1, <3>2, LoneReduced
    <3> QED BY <1>2, <3>3 DEF x
  <2>4. Entry(left)
    BY DEF Entry, left
  <2>5. \A t \in Side, l \in Level : x[t][l] = IF t = "BUY" /\ l = 2 THEN <<left>> ELSE <<>>
    BY <1>1, <2>2, <2>3 DEF Replaced
  <2> QED BY <1>1, <2>3, <2>4, <2>5 DEF Lone, Replaced
<1>11. ~Board!Crossed(r.book)
  <2>1. 1 <= Room
    BY <1>1
  <2> QED BY <1>9, <1>10, <2>1, LoneShows
<1>12. Board!Match(c) = r
  <2>1. r = Board!TradeOnce([book |-> c, trades |-> <<>>])
    BY DEF r
  <2> QED BY <1>7, <1>8, <1>11, <2>1, MatchOnce
<1> QED BY <1>9, <1>10, <1>12

\* An addition that the board has room for is matched.
LEMMA AddGoes ==
    ASSUME NEW c, Board!Process(c), c.type = "ADD", c.price \in 1 .. NumLevels - 1, c.qty \in Nat \ {0},
           Cardinality(Board!Places(book)) < Room, c.id \notin Board!Live(book)
    PROVE  LET m == Board!Match(Board!Insert(book, c.side, c.price, [id |-> c.id, qty |-> c.qty, ts |-> c.ts])) IN
           /\ book' = m.book /\ trades' = m.trades
           /\ ack'.status = "OK" /\ ack'.rem = Board!Remaining(m.book, c.id)
<1> DEFINE m == Board!Match(Board!Insert(book, c.side, c.price, [id |-> c.id, qty |-> c.qty, ts |-> c.ts]))
<1>1. ~Board!BadField(c)
  BY NumLevelsAssumption DEF Board!BadField, Board!PriceInRange
<1>2. Board!Cardinality(Board!Places(book)) # Room
  <2>1. Cardinality(Board!Places(book)) \in Nat
    BY PlacesFinite, FS_CardinalityType
  <2> QED BY <2>1, Counts, BoardAssumption DEF Room
<1>3. ~Board!RejectField(c) /\ ~Board!AddFull(c) /\ ~Board!AddRefused(c)
  BY <1>1, <1>2 DEF Board!RejectField, Board!AddFull, Board!AddRefused, Room
<1>4. ~Board!NotLive(c) /\ ~Board!Cancel(c) /\ ~Board!ModifyQty(c) /\ ~Board!ModifyPrice(c)
      /\ ~Board!ExecuteBad(c) /\ ~Board!Execute(c)
  BY DEF Board!NotLive, Board!Cancel, Board!ModifyQty, Board!ModifyPrice, Board!ExecuteBad,
     Board!Execute
<1>5. Board!Add(c)
  BY <1>3, <1>4 DEF Board!Process
<1>6. m = Board!Match(Board!Insert(book, c.side, c.price, Board!Order(c.id, c.qty, c.ts)))
  BY DEF Board!Order
<1>7. Board!Answer(c, "OK", Board!Remaining(m.book, c.id), m.trades, m.book)
  BY <1>5, <1>6 DEF Board!Add
<1> HIDE DEF m
<1>8. book' = m.book /\ trades' = m.trades /\ ack'.status = "OK" /\ ack'.rem = Board!Remaining(m.book, c.id)
  BY <1>7 DEF Board!Answer
<1> QED BY <1>8 DEF m

\* No trade makes no report, one between two orders makes two.
LEMMA FewReports ==
    ASSUME NEW first
    PROVE  /\ Len(AllReports(<<>>, first)) = 0
           /\ \A t : t.buy # NoId /\ t.sell # NoId => Len(AllReports(<<t>>, first)) = 2
<1>1. Len(AllReports(<<>>, first)) = 0
  <2>1. Len(<<>>) \in Nat /\ Len(<<>>) = 0
    OBVIOUS
  <2>2. PICK f : Reporting(f, <<>>, first) /\ AllReports(<<>>, first) = f[Len(<<>>)]
    BY <2>1, ReportsAre
  <2>3. AllReports(<<>>, first) = <<>>
    BY <2>1, <2>2 DEF Reporting
  <2> QED BY <2>3
<1>2. ASSUME NEW t, t.buy # NoId, t.sell # NoId PROVE Len(AllReports(<<t>>, first)) = 2
  <2>1. Len(<<t>>) = 1 /\ 1 \in Nat /\ <<t>>[1] = t
    OBVIOUS
  <2>2. PICK f : Reporting(f, <<t>>, first) /\ AllReports(<<t>>, first) = f[Len(<<t>>)]
    BY <2>1, ReportsAre
  <2>3. f[0] = <<>> /\ f[1] = f[0] \o TradeReports(t, first + Len(f[0]))
    <3>1. \A n \in 1 .. 1 : f[n] = f[n - 1] \o TradeReports(<<t>>[n], first + Len(f[n - 1]))
      BY <2>1, <2>2 DEF Reporting
    <3>2. 1 \in 1 .. 1 /\ 1 - 1 = 0
      OBVIOUS
    <3> QED BY <2>1, <2>2, <3>1, <3>2 DEF Reporting
  <2>4. \A a : Len(TradeReports(t, a)) = 2 /\ Sequence(TradeReports(t, a))
    <3> SUFFICES ASSUME NEW a PROVE Len(TradeReports(t, a)) = 2 /\ Sequence(TradeReports(t, a))
      OBVIOUS
    <3> DEFINE r == Report("BUY", FALSE, a, t.buy, t)
               s == Report("SELL", FALSE, a + 1, t.sell, t)
    <3>1. TradeReports(t, a) = <<r, s>>
      BY <1>2 DEF TradeReports
    <3> HIDE DEF r, s
    <3>2. Len(<<r, s>>) = 2 /\ <<r, s>> \in Seq({r, s})
      OBVIOUS
    <3> QED BY <3>1, <3>2 DEF Sequence
  <2> DEFINE y == TradeReports(t, first + Len(f[0]))
  <2>5. Len(y) = 2 /\ Sequence(y)
    BY <2>4
  <2> HIDE DEF y
  <2>6. <<>> \o y = y
    BY <2>5 DEF Sequence
  <2>7. AllReports(<<t>>, first) = f[1]
    BY <2>1, <2>2
  <2>8. f[1] = y
    BY <2>3, <2>6 DEF y
  <2> QED BY <2>5, <2>7, <2>8
<1> QED BY <1>1, <1>2

\* The demo's commands, and the book they are made for.
DemoCommand(n, m) ==
    /\ m.type = "ADD"
    /\ n = 1 => m.id = 1234 /\ m.price = 1 /\ m.qty = 50 /\ m.side = "SELL"
    /\ n = 2 => m.id = 5678 /\ m.price = 2 /\ m.qty = 80 /\ m.side = "BUY"

\* The demo's sell rests, alone.
Sold == \E ts : Lone(book, "SELL", 1, [id |-> 1234, qty |-> 50, ts |-> ts])

\* What the board holds before the n-th.
DemoBook(n) == (n = 1 => Blank) /\ (n = 2 => Sold)

\* On a board that was just programmed the sell rests.
LEMMA DemoRests ==
    ASSUME Blank, NEW m, DemoCommand(1, m), Board!Process(Bare(m))
    PROVE  /\ Sold' /\ trades' = <<>> /\ ack'.status = "OK"
<1> DEFINE c == Bare(m)
           e == [id |-> c.id, qty |-> c.qty, ts |-> c.ts]
           d == [id |-> 1234, qty |-> 50, ts |-> m.ts]
           a == Board!Insert(book, "SELL", 1, d)
<1>1. c.type = "ADD" /\ c.id = 1234 /\ c.price = 1 /\ c.qty = 50 /\ c.side = "SELL" /\ c.ts = m.ts
  BY BareIs DEF DemoCommand
<1>2. e = d
  BY <1>1
<1>3. \A s \in Side, l \in Level : book[s][l] = <<>>
  BY DEF Blank
<1>4. Roomy(book)
  BY EmptyRoomy DEF Blank
<1>5. Board!Places(book) = {}
  <2>1. ASSUME NEW k \in Board!Places(book) PROVE FALSE
    <3>1. k = <<k[1], k[2], k[3]>>
      BY PlaceIs
    <3>2. k[1] \in Side /\ k[2] \in Level /\ k[3] \in DOMAIN book[k[1]][k[2]]
      BY <3>1, PlaceIs
    <3>3. DOMAIN <<>> = {}
      OBVIOUS
    <3> QED BY <1>3, <3>2, <3>3
  <2> QED BY <2>1
<1>6. Cardinality(Board!Places(book)) < Room /\ 1 <= Room
  <2>1. Cardinality(Board!Places(book)) = 0
    BY <1>5, FS_EmptySet
  <2> QED BY <2>1, ScriptsAssumption, BoardAssumption DEF Room
<1>7. c.id \notin Board!Live(book)
  BY <1>5 DEF Board!Live
<1>8. c.price \in 1 .. NumLevels - 1 /\ c.qty \in Nat \ {0}
  BY <1>1, ScriptsAssumption, NumLevelsAssumption
<1> HIDE DEF c
<1>9. LET x == Board!Match(Board!Insert(book, c.side, c.price, e)) IN
      book' = x.book /\ trades' = x.trades /\ ack'.status = "OK"
  BY <1>1, <1>6, <1>7, <1>8, AddGoes DEF c
<1>10. LET x == Board!Match(a) IN book' = x.book /\ trades' = x.trades /\ ack'.status = "OK"
  BY <1>1, <1>2, <1>9
<1>11. Lone(a, "SELL", 1, d)
  <2>1. "SELL" \in Side /\ 1 \in Level /\ Entry(d) /\ Shaped(book)
    <3>1. Entry(d)
      BY DEF Entry
    <3>2. "SELL" \in Side /\ 1 \in Level
      BY ScriptsAssumption, NumLevelsAssumption DEF Side, Level
    <3> QED BY <1>4, <3>1, <3>2 DEF Roomy
  <2> HIDE DEF d
  <2>2. Replaced("SELL", 1, Append(book["SELL"][1], d), a, book)
    BY <2>1, InsertLevels
  <2>3. Append(book["SELL"][1], d) = <<d>>
    BY <1>3, <2>1, OneElement
  <2> HIDE DEF a
  <2>4. Replaced("SELL", 1, <<d>>, a, book)
    BY <2>2, <2>3
  <2> QED BY <1>3, <2>1, <2>4 DEF Lone, Replaced
<1> HIDE DEF a, d
<1>12. Board!Match(a) = [book |-> a, trades |-> <<>>]
  BY <1>6, <1>11, LoneShows, MatchRests
<1>13. book' = a /\ trades' = <<>> /\ ack'.status = "OK"
  BY <1>10, <1>12
<1>14. Lone(book', "SELL", 1, d)
  BY <1>11, <1>13
<1>15. Lone(book', "SELL", 1, [id |-> 1234, qty |-> 50, ts |-> m.ts])
  BY <1>14 DEF d
<1>16. Sold'
  <2>1. \E ts : Lone(book', "SELL", 1, [id |-> 1234, qty |-> 50, ts |-> ts])
    BY <1>15
  <2> QED BY <2>1 DEF Sold
<1> QED BY <1>13, <1>16

\* The buy takes it.
LEMMA DemoTrades ==
    ASSUME Sold, NEW m, DemoCommand(2, m), Board!Process(Bare(m))
    PROVE  /\ ack'.status = "OK" /\ ack'.rem = 30
           /\ \E t : trades' = <<t>> /\ t.buy = 5678 /\ t.sell = 1234
<1> DEFINE c == Bare(m)
           e == [id |-> c.id, qty |-> c.qty, ts |-> c.ts]
           at == m.ts
           d == [id |-> 5678, qty |-> 80, ts |-> at]
           a == Board!Insert(book, "BUY", 2, d)
<1>1. c.type = "ADD" /\ c.id = 5678 /\ c.price = 2 /\ c.qty = 80 /\ c.side = "BUY" /\ c.ts = at
  BY BareIs DEF DemoCommand
<1>2. e = d
  BY <1>1
<1>3. PICK ts : Lone(book, "SELL", 1, [id |-> 1234, qty |-> 50, ts |-> ts])
  BY DEF Sold
<1> DEFINE s == [id |-> 1234, qty |-> 50, ts |-> ts]
<1>4. Room \in Nat /\ 1 <= Room /\ 2 <= Room /\ 1 < Room
  BY ScriptsAssumption, BoardAssumption DEF Room
<1>5. Lone(book, "SELL", 1, s) /\ s.id = 1234
  BY <1>3
<1> HIDE DEF s
<1>6. Cardinality(Board!Places(book)) < Room
  BY <1>4, <1>5, LoneShows
<1>7. c.id \notin Board!Live(book)
  <2> SUFFICES ASSUME c.id \in Board!Live(book) PROVE FALSE
    OBVIOUS
  <2> DEFINE k == Board!PlaceOf(book, c.id)
  <2>1. k \in Board!Places(book) /\ Board!OrderAt(book, k).id = c.id
    BY LiveAt
  <2> HIDE DEF k
  <2>2. k = <<k[1], k[2], k[3]>>
    BY <2>1, PlaceIs
  <2>3. k[1] \in Side /\ k[2] \in Level /\ k[3] \in DOMAIN book[k[1]][k[2]]
    BY <2>1, <2>2, PlaceIs
  <2>4. DOMAIN <<>> = {} /\ DOMAIN <<s>> = {1} /\ <<s>>[1] = s
    OBVIOUS
  <2>5. book[k[1]][k[2]] = <<s>> /\ k[3] = 1
    BY <1>5, <2>3, <2>4 DEF Lone
  <2>6. Board!OrderAt(book, k) = s
    BY <2>4, <2>5 DEF Board!OrderAt
  <2>7. 1234 # 5678
    OBVIOUS
  <2> QED BY <1>1, <1>5, <2>1, <2>6, <2>7
<1>8. c.price \in 1 .. NumLevels - 1 /\ c.qty \in Nat \ {0}
  BY <1>1, ScriptsAssumption, NumLevelsAssumption
<1> HIDE DEF c
<1>9. LET x == Board!Match(Board!Insert(book, c.side, c.price, e)) IN
      book' = x.book /\ trades' = x.trades /\ ack'.status = "OK" /\ ack'.rem = Board!Remaining(x.book, c.id)
  BY <1>1, <1>6, <1>7, <1>8, AddGoes DEF c
<1>10. LET x == Board!Match(a) IN
       book' = x.book /\ trades' = x.trades /\ ack'.status = "OK" /\ ack'.rem = Board!Remaining(x.book, 5678)
  BY <1>1, <1>2, <1>9
<1> DEFINE x == Board!Match(a)
           r == [id |-> 5678, qty |-> 30, ts |-> at]
<1>11. Lone(x.book, "BUY", 2, r) /\ \E t : x.trades = <<t>> /\ t.buy = 5678 /\ t.sell = 1234
  BY <1>3, <1>4, DemoTrade
<1>12. r.id = 5678 /\ r.qty = 30
  OBVIOUS
<1> HIDE DEF x, r
<1>13. Board!Remaining(x.book, 5678) = 30
  BY <1>4, <1>11, <1>12, LoneShows
<1> QED BY <1>10, <1>11, <1>13 DEF x

\* The command is on its way to a board that holds what the demo put there,
DemoAsked ==
    /\ toBoard = <<host.msg>> /\ toHost = <<>> /\ host.got = Nothing
    /\ DemoCommand(host.n, host.msg) /\ Decodes(host.msg) /\ DemoBook(host.n)

\* or the answer the demo asks for is on its way back.
DemoAnswered ==
    /\ toBoard = <<>>
    /\ ack.id = host.msg.id /\ ack.status = "OK" /\ (host.n = 2 => ack.rem = 30)
    /\ host.got = [ack |-> NoAck, reps |-> host.got.reps]
    /\ host.n = 1 => Sold
    /\ \E reps, i : Delivering(reps, i) /\ Len(reps) = IF host.n = 1 THEN 0 ELSE 2

\* A demo that runs well.
GoodDemo ==
    /\ host.verdict # "FAIL" /\ host.phase # "drain"
    /\ host.phase = "send" => Quiet /\ DemoBook(host.n + 1)
    /\ host.phase = "wait" => DemoAsked \/ DemoAnswered

\* The sell goes on resting.
LEMMA SellStays ==
    ASSUME book' = book, Sold
    PROVE  Sold'
<1>1. PICK ts : Lone(book, "SELL", 1, [id |-> 1234, qty |-> 50, ts |-> ts])
  BY DEF Sold
<1> DEFINE d == [id |-> 1234, qty |-> 50, ts |-> ts]
<1>2. Lone(book, "SELL", 1, d)
  BY <1>1
<1> HIDE DEF d
<1>3. Lone(book', "SELL", 1, d)
  BY <1>2
<1>4. Lone(book', "SELL", 1, [id |-> 1234, qty |-> 50, ts |-> ts])
  BY <1>3 DEF d
<1> DEFINE rests(t) == Lone(book', "SELL", 1, [id |-> 1234, qty |-> 50, ts |-> t])
<1>5. rests(ts)
  BY <1>4
<1> HIDE DEF rests
<1>6. \E t : rests(t)
  BY <1>5
<1> QED BY <1>6 DEF Sold, rests

\* It starts on a board that was just programmed.
LEMMA DemoStarts ==
    ASSUME Told, CountInv, NEW prog, Start(prog), host'.fresh
    PROVE  GoodDemo'
<1>1. Started(prog, host')
  BY StartsSo
<1>2. Quiet' /\ UNCHANGED boardVars
  BY DEF Start, Quiet, linkVars
<1>3. Blank
  BY <1>1 DEF Started, Told
<1>4. Blank'
  BY <1>2, <1>3 DEF Blank, boardVars
<1>5. host'.n + 1 = 1 /\ 1 # 2
  <2>1. host'.n = 0
    BY <1>1 DEF Started
  <2>2. 0 + 1 = 1 /\ 1 # 2
    OBVIOUS
  <2> QED BY ONLY <2>1, <2>2
<1>6. DemoBook(host.n + 1)'
  BY <1>4, <1>5 DEF DemoBook
<1>7. host'.phase = "send" /\ host'.verdict = ""
  BY <1>1 DEF Started
<1> QED BY <1>2, <1>6, <1>7 DEF GoodDemo

\* A command goes out.
LEMMA DemoSends ==
    ASSUME Tidy, PairInv, GoodDemo, host.prog = "demo", SendScripted
    PROVE  GoodDemo'
<1>0. PICK n : n = host.n + 1
  OBVIOUS
<1> DEFINE m == Script(host.prog)[n]
           ts == 100 * host.session + host.n
           w == [m EXCEPT !.ts = ts]
<1>1. host.phase = "send" /\ host.prog \in Paired /\ host.prog \notin Stress /\ IsProgram(host)
  BY DEF SendScripted, Paired, Stress, Tidy
<1>2. host' = [host EXCEPT !.phase = "wait", !.n = n, !.msg = w, !.got = Nothing] /\ SendDatagram(w)
  BY <1>0, <1>1 DEF SendScripted
<1>3. n \in {1, 2}
  <2>1. host.n \in {0, 1}
    BY <1>1 DEF PairInv
  <2> QED BY <1>0, <2>1
<1>4. Quiet /\ DemoBook(n) /\ host.verdict # "FAIL"
  BY <1>0, <1>1 DEF GoodDemo
<1>5. m = Script(host.prog)[n]
  OBVIOUS
<1> HIDE DEF m, ts
<1>6. DemoCommand(n, w) /\ Decodes(w)
  <2>1. PICK id, price, qty, side :
             /\ m = AddOf(n, id, price, qty, side) /\ side \in Side
             /\ <<id, price, qty, side>> = IF n = 1 THEN <<1234, 1, 50, "SELL">> ELSE <<5678, 2, 80, "BUY">>
    BY <1>1, <1>3, <1>5, PairSends
  <2>2. /\ w.type = "ADD" /\ w.id = id /\ w.price = price /\ w.qty = qty /\ w.side = side
    BY <2>1 DEF AddOf, Message
  <2> HIDE DEF w
  <2>3. n = 1 => id = 1234 /\ price = 1 /\ qty = 50 /\ side = "SELL"
    BY <2>1
  <2>4. n = 2 => id = 5678 /\ price = 2 /\ qty = 80 /\ side = "BUY"
    BY <2>1
  <2>5. Decodes(w)
    BY <2>1, <2>2 DEF Decodes, MsgType
  <2> QED BY <2>2, <2>3, <2>4, <2>5 DEF DemoCommand
<1> HIDE DEF w
<1>7. host'.phase = "wait" /\ host'.msg = w /\ host'.got = Nothing /\ host'.verdict = host.verdict /\ host'.n = n
  BY <1>1, <1>2 DEF IsProgram, Fields
<1>8. toBoard' = <<w>> /\ toHost' = <<>> /\ UNCHANGED boardVars
  BY <1>2, <1>4 DEF SendDatagram, Quiet
<1>9. DemoBook(n)'
  <2>1. book' = book /\ repSeq' = repSeq
    BY <1>8 DEF boardVars
  <2>2. Blank => Blank'
    BY <2>1 DEF Blank
  <2> QED BY <1>4, <2>1, <2>2, SellStays DEF DemoBook
<1>10. DemoAsked'
  <2>1. DemoBook(host.n)'
    BY <1>7, <1>9 DEF DemoBook
  <2> QED BY <1>6, <1>7, <1>8, <2>1 DEF DemoAsked
<1> QED BY <1>4, <1>7, <1>10 DEF GoodDemo

\* The answer comes, and is what the demo asks for.
LEMMA DemoHears ==
    ASSUME Tidy, PairInv, GoodDemo, host.prog = "demo", Receive
    PROVE  GoodDemo'
<1> DEFINE d == Head(toHost)
           more == CASE d.kind = "ACK" /\ d.ack.id = host.msg.id -> [host.got EXCEPT !.ack = d.ack]
                     [] d.kind = "EXECUTE" -> [host.got EXCEPT !.reps = Append(@, d.report)]
                     [] OTHER -> host.got
           next == [host EXCEPT !.got = more]
<1>1. /\ host.phase = "wait" /\ IsProgram(host) /\ toHost # <<>> /\ toHost' = Tail(toHost)
      /\ host' = ClientReceives(host, d) /\ UNCHANGED boardVars /\ toBoard' = toBoard
  BY DEF Receive, Listening, PairInv, Paired, Stress, Tidy, GoodDemo
<1>2. DemoAnswered /\ host.verdict # "FAIL" /\ host.n \in {1, 2} /\ host.count = 2
  BY <1>1 DEF GoodDemo, DemoAsked, PairInv, Paired
<1>3. /\ toBoard = <<>> /\ ack.id = host.msg.id /\ ack.status = "OK" /\ (host.n = 2 => ack.rem = 30)
      /\ host.got = [ack |-> NoAck, reps |-> host.got.reps]
      /\ host.n = 1 => Sold
  BY <1>2 DEF DemoAnswered
<1>4. PICK reps, i : Delivering(reps, i) /\ Len(reps) = IF host.n = 1 THEN 0 ELSE 2
  BY <1>2 DEF DemoAnswered
<1>5. ack' = ack
  BY <1>1 DEF boardVars
<1>6. \/ /\ i \in 0 .. Len(reps) - 1 /\ d = ReportDatagram(reps[i + 1])
         /\ host'.got.reps = Append(host.got.reps, reps[i + 1]) => Delivering(reps, i + 1)'
      \/ d = AckDatagram(ack) /\ toHost' = <<>> /\ host.got.reps = reps
  BY <1>1, <1>4, <1>5, NextAnswer
<1>7. d.kind # "FOREIGN" =>
        host' = IF more.ack = NoAck THEN next
                ELSE IF Len(more.reps) >= Wanted(host) THEN DemoGoesOn(next) ELSE next
  BY <1>1 DEF ClientReceives
<1>8. ack # NoAck
  BY <1>3 DEF NoAck
<1>9. CASE i \in 0 .. Len(reps) - 1 /\ d = ReportDatagram(reps[i + 1])
  <2> DEFINE r == reps[i + 1]
             q == Append(host.got.reps, r)
  <2>1. d.kind = "EXECUTE" /\ d.report = r
    BY <1>9 DEF ReportDatagram
  <2>2. more = [ack |-> NoAck, reps |-> q]
    <3>1. more = [host.got EXCEPT !.reps = Append(@, d.report)]
      BY <2>1
    <3> HIDE DEF more, d
    <3>2. more = [host.got EXCEPT !.reps = q]
      BY <2>1, <3>1
    <3> HIDE DEF q
    <3> QED BY <1>3, <3>2
  <2> HIDE DEF more, q
  <2>3. host' = next /\ more.reps = q
    BY <1>7, <2>1, <2>2
  <2>4. /\ host'.got = more /\ host'.verdict = host.verdict /\ host'.phase = host.phase
        /\ host'.n = host.n /\ host'.msg = host.msg
    BY <1>1, <2>3 DEF IsProgram, Fields
  <2>5. Delivering(reps, i + 1)'
    <3>1. host'.got.reps = Append(host.got.reps, reps[i + 1])
      BY <2>3, <2>4 DEF q
    <3> QED BY <1>6, <1>9, <2>1, <3>1 DEF AckDatagram
  <2>6. (\E rs, k : Delivering(rs, k) /\ Len(rs) = IF host.n = 1 THEN 0 ELSE 2)'
    BY <1>4, <2>4, <2>5
  <2>7. host'.got = [ack |-> NoAck, reps |-> host'.got.reps]
    BY <2>2, <2>4
  <2>8. host'.n = 1 => Sold'
    BY <1>1, <1>3, <2>4, SellStays DEF boardVars
  <2>9. DemoAnswered'
    BY <1>1, <1>3, <1>5, <2>4, <2>6, <2>7, <2>8 DEF DemoAnswered
  <2> QED BY <1>1, <1>2, <2>4, <2>9 DEF GoodDemo
<1>10. CASE d = AckDatagram(ack) /\ toHost' = <<>> /\ host.got.reps = reps
  <2>1. d.kind = "ACK" /\ d.ack = ack
    BY <1>10 DEF AckDatagram
  <2>2. more = [ack |-> ack, reps |-> reps]
    BY <1>3, <1>10, <2>1
  <2> HIDE DEF more
  <2>3. more.ack = ack /\ more.reps = reps
    BY <2>2
  <2>4. Wanted(host) = Len(reps) /\ Len(reps) \in Nat
    <3>1. Wanted(host) = IF host.n = 1 THEN 0 ELSE 2
      BY DEF Wanted
    <3> QED BY <1>4, <3>1
  <2>5. Len(more.reps) >= Wanted(host)
    <3>1. \A k \in Nat : k >= k
      OBVIOUS
    <3> QED BY <2>3, <2>4, <3>1
  <2>6. host' = DemoGoesOn(next)
    BY <1>7, <1>8, <2>1, <2>3, <2>5
  <2>7. /\ IsProgram(next) /\ next.got = more /\ next.n = host.n /\ next.count = host.count
        /\ next.verdict = host.verdict /\ next.prog = host.prog
    BY <1>1 DEF IsProgram, Fields
  <2> HIDE DEF next
  <2>8. host' = Advance(next)
    <3>1. next.got.ack.status = "OK"
      BY <1>3, <2>3, <2>7
    <3>2. next.n = 2 => next.got.ack.rem = 30 /\ Len(next.got.reps) = 2
      <4>1. 2 # 1
        OBVIOUS
      <4> QED BY <1>3, <1>4, <2>3, <2>7, <4>1
    <3> QED BY <2>6, <3>1, <3>2 DEF DemoGoesOn
  <2>9. CASE host.n = 2
    <3>1. host'.phase = "off" /\ host'.verdict = "PASS"
      BY <1>2, <2>7, <2>8, <2>9, AdvancesKept
    <3> QED BY <3>1 DEF GoodDemo
  <2>10. CASE host.n = 1
    <3>1. host'.phase = "send" /\ host'.verdict = host.verdict /\ host'.n = 1
      BY <1>2, <2>7, <2>8, <2>10, AdvancesKept
    <3>2. Quiet'
      BY <1>1, <1>3, <1>10 DEF Quiet
    <3>3. Sold'
      BY <1>1, <1>3, <2>10, SellStays DEF boardVars
    <3>4. host'.n + 1 = 2 /\ 2 # 1
      BY <3>1
    <3>5. DemoBook(host.n + 1)'
      BY <3>3, <3>4 DEF DemoBook
    <3> QED BY <1>2, <3>1, <3>2, <3>5 DEF GoodDemo
  <2> QED BY <1>2, <2>9, <2>10
<1> QED BY <1>6, <1>9, <1>10

\* It is never left waiting.
LEMMA DemoWaits ==
    ASSUME PairInv, GoodDemo, host.prog = "demo"
    PROVE  ~TimeOut
<1> SUFFICES ASSUME TimeOut PROVE FALSE
  OBVIOUS
<1>1. toBoard = <<>> /\ toHost = <<>> /\ host.phase = "wait"
  BY DEF TimeOut, Listening, PairInv, Paired, Quiet, GoodDemo
<1>2. DemoAnswered
  BY <1>1 DEF GoodDemo, DemoAsked
<1>3. PICK reps, i : Delivering(reps, i)
  BY <1>2 DEF DemoAnswered
<1> DEFINE k == Len(reps)
<1>4. Len(toHost) = k - i + 1 /\ i \in 0 .. k /\ Sequence(reps)
  BY <1>3 DEF Delivering
<1>5. k \in Nat
  BY <1>4, Grows
<1>6. Len(toHost) = 0
  BY <1>1
<1> HIDE DEF k
<1> QED BY <1>4, <1>5, <1>6

\* The board does what the demo asks for.
LEMMA DemoServed ==
    ASSUME PairInv, GoodDemo, host.prog = "demo", BoardStep, UNCHANGED host
    PROVE  GoodDemo'
<1>1. toBoard # <<>> /\ host.phase \in {"send", "wait", "off"} /\ host' = host
  BY DEF BoardStep, PairInv, Paired, GoodDemo
<1>2. CASE host.phase = "off"
  BY <1>1, <1>2 DEF GoodDemo
<1>3. CASE host.phase # "off"
  <2>1. host.phase = "wait" /\ DemoAsked /\ host.verdict # "FAIL" /\ host.n \in {1, 2}
    BY <1>1, <1>3 DEF GoodDemo, Quiet, DemoAnswered, PairInv, Paired
  <2>2. PICK reps : reps = AllReports(trades', repSeq)
    OBVIOUS
  <2>3. Nothing.reps = <<>> /\ Nothing = [ack |-> NoAck, reps |-> Nothing.reps]
    BY DEF Nothing
  <2>4. /\ host.got.reps = <<>> /\ host.got = [ack |-> NoAck, reps |-> host.got.reps]
        /\ toBoard = <<host.msg>> /\ toHost = <<>> /\ Decodes(host.msg)
        /\ DemoCommand(host.n, host.msg) /\ DemoBook(host.n)
    BY <2>1, <2>3 DEF DemoAsked
  <2>5. toBoard' = <<>> /\ Delivering(reps, 0)' /\ Board!Process(Bare(host.msg)) /\ ack'.id = host.msg.id
    BY <1>1, <2>2, <2>4, AnswerSent
  <2>6. /\ ack'.status = "OK" /\ (host.n = 2 => ack'.rem = 30) /\ (host.n = 1 => Sold')
        /\ Len(reps) = IF host.n = 1 THEN 0 ELSE 2
    <3>1. CASE host.n = 1
      <4>1. Blank /\ DemoCommand(1, host.msg)
        BY <2>4, <3>1 DEF DemoBook
      <4>2. Sold' /\ trades' = <<>> /\ ack'.status = "OK"
        BY <2>5, <4>1, DemoRests
      <4>3. Len(reps) = 0
        BY <2>2, <4>2, FewReports
      <4>4. 1 # 2
        OBVIOUS
      <4> QED BY <3>1, <4>2, <4>3, <4>4
    <3>2. CASE host.n = 2
      <4>1. Sold /\ DemoCommand(2, host.msg)
        BY <2>4, <3>2 DEF DemoBook
      <4>2. ack'.status = "OK" /\ ack'.rem = 30 /\ \E t : trades' = <<t>> /\ t.buy = 5678 /\ t.sell = 1234
        BY <2>5, <4>1, DemoTrades
      <4>3. PICK t : trades' = <<t>> /\ t.buy = 5678 /\ t.sell = 1234
        BY <4>2
      <4>4. t.buy # NoId /\ t.sell # NoId
        BY <4>3, ScriptsAssumption
      <4>5. Len(reps) = 2
        BY <2>2, <4>3, <4>4, FewReports
      <4>6. 2 # 1
        OBVIOUS
      <4> QED BY <3>2, <4>2, <4>5, <4>6
    <3> QED BY <2>1, <3>1, <3>2
  <2>7. (\E rs, i : Delivering(rs, i) /\ Len(rs) = IF host.n = 1 THEN 0 ELSE 2)'
    BY <1>1, <2>5, <2>6
  <2>8. DemoAnswered'
    BY <1>1, <2>4, <2>5, <2>6, <2>7 DEF DemoAnswered
  <2> QED BY <1>1, <2>1, <2>8 DEF GoodDemo
<1> QED BY <1>2, <1>3

\* A test goes on as it was when nothing happens.
LEMMA NothingHappens ==
    ASSUME UNCHANGED vars
    PROVE  /\ GoodTest => GoodTest'
           /\ GoodSmoke => GoodSmoke'
           /\ GoodDemo => GoodDemo'
<1>1. /\ host' = host /\ UNCHANGED boardVars /\ toBoard' = toBoard /\ toHost' = toHost
      /\ book' = book /\ repSeq' = repSeq /\ ack' = ack
  BY DEF vars, linkVars, boardVars
<1>2. Quiet' = Quiet
  BY <1>1 DEF Quiet
<1>3. \A reps, i : Delivering(reps, i) => Delivering(reps, i)'
  BY <1>1 DEF Delivering
<1>4. Going => Going'
  BY <1>1 DEF Going, Holding, Staged
<1>5. AskedWell => AskedWell'
  <2>1. Taking(host) => Taking(host)'
    BY <1>1 DEF Taking, Takes, Fills, Holding
  <2> QED BY <1>1, <2>1 DEF AskedWell
<1>6. AnsweredWell => AnsweredWell'
  <2>0. PICK reps : reps = host.want.reps
    OBVIOUS
  <2>1. (\E i : Delivering(host.want.reps, i)) => (\E i : Delivering(host.want.reps, i))'
    <3>1. host'.want.reps = reps
      BY <1>1, <2>0
    <3> QED BY <1>3, <2>0, <3>1
  <2> QED BY <1>1, <2>1 DEF AnsweredWell, Holding
<1>7. GoodTest => GoodTest'
  <2>1. Staged(host) => Staged(host)'
    BY <1>1 DEF Staged
  <2> QED BY <1>1, <1>2, <1>4, <1>5, <1>6, <2>1 DEF GoodTest
<1>8. GoodSmoke => GoodSmoke'
  BY <1>1, <1>2 DEF GoodSmoke, Asking, SmokeAnswered
<1>9. Blank => Blank'
  BY <1>1 DEF Blank
<1>10. Sold => Sold'
  BY <1>1, SellStays
<1>11. DemoAsked => DemoAsked'
  <2>1. DemoBook(host.n) => DemoBook(host.n)'
    BY <1>1, <1>9, <1>10 DEF DemoBook
  <2> QED BY <1>1, <2>1 DEF DemoAsked
<1>12. DemoAnswered => DemoAnswered'
  <2>1. ASSUME NEW reps, NEW i, Delivering(reps, i), Len(reps) = IF host.n = 1 THEN 0 ELSE 2
        PROVE  (\E rs, k : Delivering(rs, k) /\ Len(rs) = IF host.n = 1 THEN 0 ELSE 2)'
    BY <1>1, <1>3, <2>1
  <2> QED BY <1>1, <1>10, <2>1 DEF DemoAnswered
<1>13. GoodDemo => GoodDemo'
  <2>1. DemoBook(host.n + 1) => DemoBook(host.n + 1)'
    BY <1>1, <1>9, <1>10 DEF DemoBook
  <2> QED BY <1>1, <1>2, <1>11, <1>12, <2>1 DEF GoodDemo
<1> QED BY <1>7, <1>8, <1>13

\* A stress test on a new board stays a good test.
LEMMA TestStep ==
    ASSUME AgreeInv, CountInv, Told, Tested => GoodTest, [Next]_vars, faults' = <<>>, Tested'
    PROVE  GoodTest'
<1>1. /\ faults = <<>>
      /\ \/ UNCHANGED vars
         \/ \E prog \in Programs : Start(prog)
         \/ SendPrime \/ SendTyped \/ SendScripted \/ SendRandom \/ Receive \/ Unheard \/ TimeOut
         \/ (BoardStep /\ UNCHANGED host)
  BY Undisturbed DEF AgreeInv, Tidy
<1>2. CASE \E prog \in Programs : Start(prog)
  <2>1. PICK prog \in Programs : Start(prog)
    BY <1>2
  <2> QED BY <2>1, TestStarts
<1>3. CASE ~\E prog \in Programs : Start(prog)
  <2>1. Kept(host, host')
    BY <1>3, StepKeeps DEF AgreeInv, Tidy
  <2>2. Tested
    BY <2>1 DEF Kept, Tested
  <2>3. GoodTest /\ Tidy /\ host.prog \in Stress
    BY <2>2 DEF Tested, AgreeInv
  <2>4. Agreeing
    <3>1. \A x : ~Contains(faults, x)
      BY <1>1 DEF Contains
    <3> QED BY <2>3, <3>1 DEF AgreeInv, Clean
  <2>5. host.phase \in {"prime", "send", "wait", "off"}
    BY <2>4 DEF Agreeing
  <2>6. host.phase # "drain"
    BY <2>5
  <2>7. host.phase = "send" => Running
    BY <2>4 DEF Agreeing
  <2>8. CASE UNCHANGED vars
    BY <2>3, <2>8, NothingHappens
  <2>9. CASE SendPrime
    BY <2>3, <2>9, TestPrimes
  <2>10. ~SendTyped
    BY <2>3, StressPrograms DEF SendTyped
  <2>11. CASE SendScripted
    <3>1. host.prog \in Scripted
      BY <2>3, <2>11, StressPrograms, RandomUnscripted DEF SendScripted
    <3>2. Running
      BY <2>7, <2>11 DEF SendScripted
    <3> QED BY <2>3, <2>11, <3>1, <3>2, TestSendsScripted
  <2>12. CASE SendRandom
    <3>1. Running
      BY <2>7, <2>12 DEF SendRandom
    <3> QED BY <2>3, <2>12, <3>1, TestSendsRandom
  <2>13. CASE Receive
    BY <2>3, <2>6, <2>13, TestReceives
  <2>14. CASE Unheard
    <3>1. host' = host /\ host.phase = "off"
      BY <2>14 DEF Unheard
    <3> QED BY <2>3, <3>1 DEF GoodTest
  <2>15. CASE TimeOut
    BY <2>3, <2>6, <2>15, TestWaits
  <2>16. CASE BoardStep /\ UNCHANGED host
    BY <2>3, <2>5, <2>16, TestServed
  <2> QED BY <1>1, <1>3, <2>8, <2>9, <2>10, <2>11, <2>12, <2>13, <2>14, <2>15, <2>16
<1> QED BY <1>2, <1>3

\* The steps of the smoke test and of the demo.
LEMMA PairSteps ==
    ASSUME Tidy, PairInv, [Next]_vars, faults' = <<>>, host.prog \in Paired,
           ~\E prog \in Programs : Start(prog)
    PROVE  \/ UNCHANGED vars \/ SendScripted \/ Receive \/ TimeOut
           \/ host.phase = "off" /\ host' = host
           \/ (BoardStep /\ UNCHANGED host)
<1>1. \/ UNCHANGED vars
      \/ \E prog \in Programs : Start(prog)
      \/ SendPrime \/ SendTyped \/ SendScripted \/ SendRandom \/ Receive \/ Unheard \/ TimeOut
      \/ (BoardStep /\ UNCHANGED host)
  BY Undisturbed DEF Tidy
<1>2. host.prog \notin Stress /\ host.prog # "random" /\ host.prog # "prompt"
  BY DEF Paired, Stress
<1>3. ~SendPrime /\ ~SendTyped /\ ~SendRandom
  BY <1>2 DEF SendPrime, SendTyped, SendRandom
<1>4. Unheard => host.phase = "off" /\ host' = host
  BY DEF Unheard
<1> QED BY <1>1, <1>3, <1>4

\* The smoke test stays a good one.
LEMMA SmokeStep ==
    ASSUME Tidy, CountInv, PairInv, host.prog = "smoke" => GoodSmoke,
           [Next]_vars, faults' = <<>>, host'.prog = "smoke"
    PROVE  GoodSmoke'
<1>1. CASE \E prog \in Programs : Start(prog)
  <2>1. PICK prog \in Programs : Start(prog)
    BY <1>1
  <2> QED BY <2>1, SmokeStarts
<1>2. CASE ~\E prog \in Programs : Start(prog)
  <2>1. host.prog = "smoke"
    BY <1>2, StepKeeps DEF Tidy, Kept
  <2>2. GoodSmoke /\ host.prog \in Paired
    BY <2>1 DEF Paired
  <2>3. CASE UNCHANGED vars
    BY <2>2, <2>3, NothingHappens
  <2>4. CASE host.phase = "off" /\ host' = host
    BY <2>2, <2>4 DEF GoodSmoke
  <2> QED BY <1>2, <2>1, <2>2, <2>3, <2>4, PairSteps, SmokeSends, SmokeHears, SmokeWaits, SmokeServed
<1> QED BY <1>1, <1>2

\* The demo on a new board stays a good one.
LEMMA DemoStep ==
    ASSUME Tidy, Told, CountInv, PairInv, host.prog = "demo" /\ host.fresh => GoodDemo,
           [Next]_vars, faults' = <<>>, host'.prog = "demo", host'.fresh
    PROVE  GoodDemo'
<1>1. CASE \E prog \in Programs : Start(prog)
  <2>1. PICK prog \in Programs : Start(prog)
    BY <1>1
  <2> QED BY <2>1, DemoStarts
<1>2. CASE ~\E prog \in Programs : Start(prog)
  <2>1. host.prog = "demo" /\ host.fresh
    BY <1>2, StepKeeps DEF Tidy, Kept
  <2>2. GoodDemo /\ host.prog \in Paired
    BY <2>1 DEF Paired
  <2>3. CASE UNCHANGED vars
    BY <2>2, <2>3, NothingHappens
  <2>4. CASE host.phase = "off" /\ host' = host
    BY <2>2, <2>4 DEF GoodDemo
  <2> QED BY <1>2, <2>1, <2>2, <2>3, <2>4, PairSteps, DemoSends, DemoHears, DemoWaits, DemoServed
<1> QED BY <1>1, <1>2

-----------------------------------------------------------------------------
(* A good board passes.                                                      *)

\* All of it together, while the network loses nothing.
GoodInv ==
    /\ AgreeInv /\ CountInv /\ QuietInv /\ PairInv
    /\ faults = <<>> =>
         /\ Told
         /\ Tested => GoodTest
         /\ host.prog = "smoke" => GoodSmoke
         /\ host.prog = "demo" /\ host.fresh => GoodDemo

\* At first no program runs.
LEMMA GoodInit == Init => GoodInv
<1> SUFFICES ASSUME Init PROVE GoodInv
  OBVIOUS
<1>1. AgreeInv /\ CountInv /\ QuietInv /\ PairInv /\ Told
  BY AgreeInit, CountInit, QuietInit, PairInit, ToldInit
<1>2. host.prog = "none"
  BY IdleIs DEF Init
<1>3. ~Tested
  BY <1>2 DEF Tested, Stress
<1> QED BY <1>1, <1>2, <1>3 DEF GoodInv

\* It is kept by every step.
LEMMA GoodStep == GoodInv /\ [Next]_vars => GoodInv'
<1> SUFFICES ASSUME GoodInv, [Next]_vars PROVE GoodInv'
  OBVIOUS
<1>1. AgreeInv /\ CountInv /\ QuietInv /\ PairInv /\ Tidy /\ IsProgram(host)
  BY DEF GoodInv, AgreeInv, Tidy
<1>2. AgreeInv' /\ CountInv' /\ QuietInv' /\ PairInv'
  BY <1>1, AgreeStep, CountStep, QuietStep, PairStep
<1>3. CASE faults' = <<>>
  <2>1. faults = <<>>
    BY <1>1, <1>3, Undisturbed DEF Tidy
  <2>2. /\ Told /\ (Tested => GoodTest) /\ (host.prog = "smoke" => GoodSmoke)
        /\ (host.prog = "demo" /\ host.fresh => GoodDemo)
    BY <2>1 DEF GoodInv
  <2>3. Told'
    BY <1>1, <1>3, <2>2, ToldStep
  <2>4. Tested' => GoodTest'
    BY <1>1, <1>3, <2>2, TestStep
  <2>5. host'.prog = "smoke" => GoodSmoke'
    BY <1>1, <1>3, <2>2, SmokeStep
  <2>6. host'.prog = "demo" /\ host'.fresh => GoodDemo'
    BY <1>1, <1>3, <2>2, DemoStep
  <2> QED BY <1>2, <2>3, <2>4, <2>5, <2>6 DEF GoodInv
<1>4. CASE faults' # <<>>
  BY <1>2, <1>4 DEF GoodInv
<1> QED BY <1>3, <1>4

\* What it says of a test.
LEMMA GoodMeans == GoodInv => GoodBoardPasses
<1> SUFFICES ASSUME GoodInv, host.fresh, faults = <<>>, host.prog = "random" => host.count < BoardOrders
             PROVE  host.verdict # "FAIL"
  BY DEF GoodBoardPasses
<1>1. CASE host.prog \in Stress
  <2>1. Tested
    BY <1>1 DEF Tested
  <2> QED BY <2>1 DEF GoodInv, GoodTest
<1>2. CASE host.prog = "smoke"
  BY <1>2 DEF GoodInv, GoodSmoke
<1>3. CASE host.prog = "demo"
  BY <1>3 DEF GoodInv, GoodDemo
<1>4. CASE host.prog \notin Stress \union {"smoke", "demo"}
  BY <1>4 DEF GoodInv, QuietInv
<1> QED BY <1>1, <1>2, <1>3, <1>4

\* A good board passes: on a board that was just programmed, over a network that loses
\* nothing, no test fails (board_stress.py, board_smoke.py, the demo of video_demo.py).
THEOREM GoodBoardsPass == Spec => []GoodBoardPasses
<1>1. Init => GoodInv
  BY GoodInit
<1>2. GoodInv /\ [Next]_vars => GoodInv'
  BY GoodStep
<1>3. GoodInv => GoodBoardPasses
  BY GoodMeans
<1> QED BY <1>1, <1>2, <1>3, PTL DEF Spec
=============================================================================
