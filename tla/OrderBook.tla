----------------------------- MODULE OrderBook -----------------------------
(***************************************************************************)
(* The class OrderBook of software/lob/orderbook.py as it is built: an index *)
(* of the live orders, per side a dictionary of price levels, and per side a *)
(* heap of prices that is cleaned lazily.  PriceTimeBook says what it is to   *)
(* do; the simulator, the reference consumer and the test hosts hold one.     *)
(*                                                                         *)
(* A book is a record, a method an operator from a book to                   *)
(* [book, trades, err]: err is the exception it raises, "" for none.  A heap  *)
(* is the bag of the prices in it.                                           *)
(***************************************************************************)
EXTENDS LobPkg, Integers, FiniteSets, SequencesExt

CONSTANT NoId       \* 0, the counterparty of an external fill

\* A price is positive: 0 is Python's None.
NoPrice == 0

Order(id, side, price, qty, ts) ==
    [id |-> id, side |-> side, price |-> price, qty |-> qty, ts |-> ts]

EmptyBook ==
    [orders |-> <<>>,                               \* id -> order
     levels |-> [s \in Side |-> <<>>],              \* side -> price -> ids
     heap   |-> [s \in Side |-> EmptyBag]]          \* side -> bag of prices

OrderIds(b) == DOMAIN b.orders

\* The resting orders of a level, oldest first.
Queue(b, s, p) ==
    IF p \in DOMAIN b.levels[s]
    THEN [n \in DOMAIN b.levels[s][p] |-> b.orders[b.levels[s][p][n]]]
    ELSE <<>>

-----------------------------------------------------------------------------
\* Mutation: the heap is ordered the other way round.
BestIsWorst(s, prices) ==
    IF prices = {} THEN NoPrice
    ELSE CHOOSE p \in prices : \A q \in prices : ~Better(s, p, q)

Best(s, prices) ==
    IF prices = {} THEN NoPrice
    ELSE CHOOSE p \in prices : \A q \in prices : ~Better(s, q, p)

\* The heap entries _best_price can stop at.
Standing(b, s) ==
    {p \in BagToSet(b.heap[s]) : p \in DOMAIN b.levels[s] /\ b.levels[s][p] # <<>>}

BestPrice(b, s) == Best(s, Standing(b, s))

\* What _best_price leaves of the heap: it pops every entry in front of the one
\* it stops at, every entry if there is none.
Peek(b, s) ==
    LET best == BestPrice(b, s)
    IN  [b EXCEPT !.heap[s] =
            RestrictDomain(@, LAMBDA p : best # NoPrice /\ ~Better(s, p, best))]

\* dict[key] = value
Put(d, key, value) == [k \in DOMAIN d \union {key} |-> IF k = key THEN value ELSE d[k]]

\* Mutation: a level that comes back is not pushed again.
InsertOnce(b, o) ==
    LET own  == b.levels[o.side]
        more == Append(IF o.price \in DOMAIN own THEN own[o.price] ELSE <<>>, o.id)
    IN  [orders |-> Put(b.orders, o.id, o),
         levels |-> [b.levels EXCEPT ![o.side] = Put(@, o.price, more)],
         heap   |-> IF DOMAIN own # {} THEN b.heap
                    ELSE [b.heap EXCEPT ![o.side] = @ (+) SetToBag({o.price})]]

\* _insert: a heap entry goes with a new level only.
Insert(b, o) ==
    LET own  == b.levels[o.side]
        new  == o.price \notin DOMAIN own
        more == Append(IF new THEN <<>> ELSE own[o.price], o.id)
    IN  [orders |-> Put(b.orders, o.id, o),
         levels |-> [b.levels EXCEPT ![o.side] = Put(@, o.price, more)],
         heap   |-> IF new THEN [b.heap EXCEPT ![o.side] = @ (+) SetToBag({o.price})]
                           ELSE b.heap]

\* Mutation: the level stays.
UnqueueKeepsLevel(b, o) ==
    [b EXCEPT !.levels[o.side][o.price] = RemoveFirst(@, o.id)]

\* PriceLevel.remove, and the level goes with its last order.
Unqueue(b, o) ==
    LET rest == RemoveFirst(b.levels[o.side][o.price], o.id)
    IN  [b EXCEPT !.levels[o.side] =
            IF rest = <<>> THEN RestrictDomain(@, LAMBDA p : p # o.price)
                           ELSE [@ EXCEPT ![o.price] = rest]]

Discard(b, id) ==
    [Unqueue(b, b.orders[id]) EXCEPT
        !.orders = RestrictDomain(@, LAMBDA i : i # id)]

Reduce(b, id, q) ==
    IF b.orders[id].qty = q THEN Discard(b, id)
                            ELSE [b EXCEPT !.orders[id].qty = @ - q]

-----------------------------------------------------------------------------
Trade(buy, sell, price, qty, ts) ==
    [buy |-> buy, sell |-> sell, price |-> price, qty |-> qty, ts |-> ts]

Crossed(b) ==
    LET bid == BestPrice(b, "BUY")
        ask == BestPrice(b, "SELL")
    IN  bid # NoPrice /\ ask # NoPrice /\ bid >= ask

\* Mutation: the trade is at the price of the younger order.
TradeHeadsAtTheYounger(m) ==
    LET bid == m.book.orders[Head(m.book.levels["BUY"][BestPrice(m.book, "BUY")])]
        ask == m.book.orders[Head(m.book.levels["SELL"][BestPrice(m.book, "SELL")])]
        q   == Min({bid.qty, ask.qty})
        px  == IF bid.ts > ask.ts THEN bid.price ELSE ask.price
    IN  [m EXCEPT !.book = Reduce(Reduce(@, bid.id, q), ask.id, q),
                  !.trades = Append(@, Trade(bid.id, ask.id, px, q, Max({bid.ts, ask.ts})))]

\* One turn of the loop of match_orders: the heads of the two best levels trade
\* at the price of the older.
TradeHeads(m) ==
    LET bid == m.book.orders[Head(m.book.levels["BUY"][BestPrice(m.book, "BUY")])]
        ask == m.book.orders[Head(m.book.levels["SELL"][BestPrice(m.book, "SELL")])]
        q   == Min({bid.qty, ask.qty})
        px  == IF bid.ts <= ask.ts THEN bid.price ELSE ask.price
    IN  [m EXCEPT !.book = Reduce(Reduce(@, bid.id, q), ask.id, q),
                  !.trades = Append(@, Trade(bid.id, ask.id, px, q, Max({bid.ts, ask.ts})))]

\* A turn begins by looking for the best prices, and is the last if they do not
\* cross.
Turn(m) ==
    LET seen == [m EXCEPT !.book = Peek(Peek(@, "BUY"), "SELL")]
    IN  IF Crossed(seen.book) THEN TradeHeads(seen) ELSE seen

\* match_orders.  Every turn but the last removes an order.
MatchOrders(b) ==
    LET turns == Cardinality(OrderIds(b)) + 1
        after[n \in 0 .. turns] ==
            IF n = 0 THEN [book |-> b, trades |-> <<>>, err |-> ""] ELSE Turn(after[n - 1])
    IN  after[turns]

-----------------------------------------------------------------------------
Raise(b, err) == [book |-> b, trades |-> <<>>, err |-> err]

Done(b, made) == [book |-> b, trades |-> made, err |-> ""]

AddOrder(b, o) ==
    IF o.price <= 0 \/ o.qty <= 0 THEN Raise(b, "ValueError")
    ELSE IF o.id \in OrderIds(b)  THEN Raise(b, "DuplicateOrderError")
    ELSE MatchOrders(Insert(b, o))

CancelOrder(b, id) ==
    IF id \notin OrderIds(b) THEN Raise(b, "OrderNotFoundError")
                             ELSE Done(Discard(b, id), <<>>)

\* Mutation: a price change keeps the time of the order.
ModifyOrderKeepsTime(b, id, qty, price, ts) ==
    IF id \notin OrderIds(b) THEN Raise(b, "OrderNotFoundError")
    ELSE IF qty <= 0 \/ price <= 0 THEN Raise(b, "ValueError")
    ELSE IF price = b.orders[id].price
         THEN Done([b EXCEPT !.orders[id].qty = qty], <<>>)
    ELSE MatchOrders(Insert(Discard(b, id), [b.orders[id] EXCEPT !.price = price, !.qty = qty]))

\* modify_order: the same price keeps place and time; a new one leaves the level
\* and queues again on the order's own side.
ModifyOrder(b, id, qty, price, ts) ==
    IF id \notin OrderIds(b) THEN Raise(b, "OrderNotFoundError")
    ELSE IF qty <= 0 \/ price <= 0 THEN Raise(b, "ValueError")
    ELSE IF price = b.orders[id].price
         THEN Done([b EXCEPT !.orders[id].qty = qty], <<>>)
    ELSE MatchOrders(Insert(Discard(b, id),
                            Order(id, b.orders[id].side, price, qty, ts)))

\* execute_order: an external fill, with nobody on the other side.
ExecuteOrder(b, id, qty, ts) ==
    IF id \notin OrderIds(b) THEN Raise(b, "OrderNotFoundError")
    ELSE IF qty <= 0 \/ qty > b.orders[id].qty THEN Raise(b, "ValueError")
    ELSE LET o == b.orders[id] IN
         Done(Reduce(b, id, qty),
              <<Trade(IF o.side = "BUY" THEN id ELSE NoId,
                      IF o.side = "SELL" THEN id ELSE NoId, o.price, qty, ts)>>)

-----------------------------------------------------------------------------
\* What two books are compared by.
Snapshot(b) ==
    [levels |-> [s \in Side |-> [p \in DOMAIN b.levels[s] |->
        [n \in DOMAIN Queue(b, s, p) |->
            <<Queue(b, s, p)[n].id, Queue(b, s, p)[n].qty, Queue(b, s, p)[n].ts>>]]],
     best   |-> [s \in Side |-> BestPrice(b, s)],
     n      |-> Cardinality(OrderIds(b))]

\* The book without its indices: side -> price -> the orders of the level.
Resting(b) ==
    [s \in Side |-> [p \in Level |->
        [n \in DOMAIN Queue(b, s, p) |->
            LET o == Queue(b, s, p)[n] IN [id |-> o.id, qty |-> o.qty, ts |-> o.ts]]]]

\* check_invariants raises no AssertionError.
Consistent(b) ==
    LET at == {k \in Side \X (UNION {DOMAIN b.levels[s] : s \in Side})
                          \X (1 .. Cardinality(OrderIds(b)) + 1) :
                 k[2] \in DOMAIN b.levels[k[1]] /\ k[3] \in DOMAIN b.levels[k[1]][k[2]]}
        id(k) == b.levels[k[1]][k[2]][k[3]]
    IN  /\ \A s \in Side : \A p \in DOMAIN b.levels[s] : b.levels[s][p] # <<>>
        /\ {id(k) : k \in at} = OrderIds(b)
        /\ Cardinality(at) = Cardinality(OrderIds(b))
        /\ \A k \in at : /\ b.orders[id(k)].side = k[1] /\ b.orders[id(k)].price = k[2]
                         /\ b.orders[id(k)].qty > 0
        /\ ~Crossed(b)

\* The best price the levels hold, whatever the heap says.
ListedBest(b, s) == Best(s, DOMAIN b.levels[s])
=============================================================================
