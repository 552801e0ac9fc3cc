--------------------------- MODULE PriceTimeBook ---------------------------
(***************************************************************************)
(* What the engine promises: the price-time-priority book of                *)
(* software/lob/orderbook.py, one command at a time, answered the way        *)
(* hardware/tools/golden_check.py expects the engine to answer.              *)
(*                                                                         *)
(* A level is the FIFO of its orders.  The Python book raises an exception   *)
(* where the engine acknowledges with a status; the pool's capacity and the  *)
(* id table's windows are the engine's own limits.                           *)
(***************************************************************************)
EXTENDS LobPkg, Integers, FiniteSets, SequencesExt

CONSTANTS
    Ids, NoId,      \* order ids; the counterparty of an external fill (0)
    Command,        \* the commands a host may send
    Capacity,       \* orders that may rest at once
    WindowFull      \* BOOLEAN: a new id may find no place in the id table

VARIABLES
    book,           \* [Side -> [Level -> Seq of resting orders]]
    cmd,            \* the last command
    trades,         \* the trades it made
    ack             \* its acknowledgement

vars == <<book, cmd, trades, ack>>

Order(id, qty, ts) == [id |-> id, qty |-> qty, ts |-> ts]

\* Every <<side, price, position>> at which the book b holds an order.
Places(b) == {k \in Side \X Level \X (1 .. Capacity) : k[3] \in DOMAIN b[k[1]][k[2]]}

OrderAt(b, k) == b[k[1]][k[2]][k[3]]

Live(b) == {OrderAt(b, k).id : k \in Places(b)}

PlaceOf(b, id) == CHOOSE k \in Places(b) : OrderAt(b, k).id = id

Remaining(b, id) == IF id \in Live(b) THEN OrderAt(b, PlaceOf(b, id)).qty ELSE 0

Prices(b, s) == {l \in Level : b[s][l] # <<>>}

Best(b, s) == CHOOSE l \in Prices(b, s) : \A m \in Prices(b, s) : ~Better(s, m, l)

Shown(b, s) == IF Prices(b, s) = {} THEN 0 ELSE Best(b, s)

Crossed(b) ==
    \E l \in Prices(b, "BUY"), m \in Prices(b, "SELL") : l >= m

-----------------------------------------------------------------------------
Insert(b, s, p, order) == [b EXCEPT ![s][p] = Append(@, order)]

\* The book b without the order at place k.
Without(b, k) == [b EXCEPT ![k[1]][k[2]] = RemoveAt(@, k[3])]

\* Take q from the order at place k, which leaves when nothing is left of it.
Reduce(b, k, q) ==
    LET o == OrderAt(b, k) IN
    IF o.qty = q THEN Without(b, k)
                 ELSE [b EXCEPT ![k[1]][k[2]][k[3]].qty = o.qty - q]

\* One trade between the heads of the two best levels, at the older's price.
TradeOnce(m) ==
    LET at(s) == <<s, Best(m.book, s), 1>>
        bid   == OrderAt(m.book, at("BUY"))
        ask   == OrderAt(m.book, at("SELL"))
        q     == IF bid.qty < ask.qty THEN bid.qty ELSE ask.qty
        older == IF bid.ts <= ask.ts THEN "BUY" ELSE "SELL"
    IN  [book   |-> Reduce(Reduce(m.book, at("BUY"), q), at("SELL"), q),
         trades |-> Append(m.trades,
                      [buy |-> bid.id, sell |-> ask.id,
                       price |-> Best(m.book, older), qty |-> q,
                       ts |-> IF bid.ts >= ask.ts THEN bid.ts ELSE ask.ts])]

\* match_orders: trade until the book is not crossed.  Every trade removes an
\* order, so as many rounds as there are orders are enough.
Round(m) == IF Crossed(m.book) THEN TradeOnce(m) ELSE m

Match(b) ==
    LET rounds == Cardinality(Places(b))
        after[n \in 0 .. rounds] ==
            IF n = 0 THEN [book |-> b, trades |-> <<>>] ELSE Round(after[n - 1])
    IN  after[rounds]

-----------------------------------------------------------------------------
(* The commands.  An acknowledgement carries what is left of the order and    *)
(* the book after the command.                                                *)

Answer(c, status, rem, made, b) ==
    /\ book' = b
    /\ trades' = made
    /\ ack' = [status |-> status, id |-> c.id, rem |-> rem,
               bid |-> Shown(b, "BUY"), ask |-> Shown(b, "SELL"),
               n |-> Cardinality(Places(b))]

Reject(c, status, rem) == Answer(c, status, rem, <<>>, book)

BadField(c) ==
    /\ c.type \in {"ADD", "MODIFY"}
    /\ c.qty = 0 \/ c.price = 0 \/ ~PriceInRange(c.price)

RejectField(c) == BadField(c) /\ Reject(c, "BAD_FIELD", 0)

AddFull(c) ==
    /\ c.type = "ADD" /\ ~BadField(c)
    /\ Cardinality(Places(book)) = Capacity
    /\ Reject(c, "FULL", 0)

AddRefused(c) ==
    /\ c.type = "ADD" /\ ~BadField(c)
    /\ Cardinality(Places(book)) < Capacity
    /\ c.id \in Live(book) \/ WindowFull
    /\ Reject(c, "INTERNAL", 0)

Add(c) ==
    /\ c.type = "ADD" /\ ~BadField(c)
    /\ Cardinality(Places(book)) < Capacity /\ c.id \notin Live(book)
    /\ LET m == Match(Insert(book, c.side, c.price, Order(c.id, c.qty, c.ts)))
       IN  Answer(c, "OK", Remaining(m.book, c.id), m.trades, m.book)

NotLive(c) ==
    /\ c.type # "ADD" /\ ~BadField(c) /\ c.id \notin Live(book)
    /\ Reject(c, "NOT_LIVE", 0)

Cancel(c) ==
    /\ c.type = "CANCEL" /\ c.id \in Live(book)
    /\ Answer(c, "OK", 0, <<>>, Without(book, PlaceOf(book, c.id)))

\* Same price: the order keeps its place and its timestamp.
ModifyQty(c) ==
    LET k == PlaceOf(book, c.id) IN
    /\ c.type = "MODIFY" /\ ~BadField(c) /\ c.id \in Live(book)
    /\ c.price = k[2]
    /\ Answer(c, "OK", c.qty, <<>>,
              [book EXCEPT ![k[1]][k[2]][k[3]].qty = c.qty])

\* New price: the order stays on its side and queues like a fresh one.
ModifyPrice(c) ==
    LET k == PlaceOf(book, c.id) IN
    /\ c.type = "MODIFY" /\ ~BadField(c) /\ c.id \in Live(book)
    /\ c.price # k[2]
    /\ LET m == Match(Insert(Without(book, k), k[1], c.price,
                             Order(c.id, c.qty, c.ts)))
       IN  Answer(c, "OK", Remaining(m.book, c.id), m.trades, m.book)

\* An external fill takes at least one and at most what is left.
ExecuteBad(c) ==
    /\ c.type = "EXECUTE" /\ c.id \in Live(book)
    /\ c.qty = 0 \/ c.qty > Remaining(book, c.id)
    /\ Reject(c, "BAD_FIELD", Remaining(book, c.id))

Execute(c) ==
    LET k == PlaceOf(book, c.id)
        o == OrderAt(book, k)
    IN
    /\ c.type = "EXECUTE" /\ c.id \in Live(book)
    /\ c.qty \in 1 .. o.qty
    /\ Answer(c, "OK", o.qty - c.qty,
              <<[buy  |-> IF k[1] = "BUY" THEN c.id ELSE NoId,
                 sell |-> IF k[1] = "SELL" THEN c.id ELSE NoId,
                 price |-> k[2], qty |-> c.qty, ts |-> c.ts]>>,
              Reduce(book, k, c.qty))

-----------------------------------------------------------------------------
ZeroCmd == [type |-> "ADD", side |-> "BUY", id |-> NoId, price |-> 0,
            qty |-> 0, ts |-> 0]

Init ==
    /\ book = [s \in Side |-> [l \in Level |-> <<>>]]
    /\ cmd = ZeroCmd
    /\ trades = <<>>
    /\ ack = [status |-> "OK", id |-> NoId, rem |-> 0,
              bid |-> 0, ask |-> 0, n |-> 0]

Process(c) ==
    /\ cmd' = c
    /\ \/ RejectField(c) \/ AddFull(c) \/ AddRefused(c) \/ Add(c)
       \/ NotLive(c) \/ Cancel(c) \/ ModifyQty(c) \/ ModifyPrice(c)
       \/ ExecuteBad(c) \/ Execute(c)

\* Timestamps are monotonic per stream.
Next == \E c \in Command : c.ts = cmd.ts + 1 /\ Process(c)

Spec == Init /\ [][Next]_vars

-----------------------------------------------------------------------------
\* Type invariant.
TypeOK ==
    /\ book \in [Side -> [Level -> Seq([id : Ids, qty : Nat \ {0}, ts : Nat])]]
    /\ cmd \in Command \union {ZeroCmd}
    /\ \A n \in DOMAIN trades :
         /\ {trades[n].buy, trades[n].sell} \subseteq Ids \union {NoId}
         /\ trades[n].price \in Level /\ trades[n].qty > 0
    /\ ack.status \in AckStatus /\ ack.rem \in Nat

\* A FIFO position is a time priority: in each level the orders stand in the
\* order of their timestamps, through partial fills, quantity changes that keep
\* the timestamp and price changes that renew it (docs/architecture.md, section 4).
FifoIsTimePriority ==
    \A s \in Side, l \in Level : \A m, n \in DOMAIN book[s][l] :
        m < n => book[s][l][m].ts < book[s][l][n].ts

\* No trade-through: the trades of an aggressive order come at prices that only
\* get worse for it, never beyond its limit, and none is skipped: what is left on
\* the other side is no better than the last trade's price.
NoTradeThrough ==
    [][cmd'.type = "ADD" /\ trades' # <<>> =>
         LET s == cmd'.side
             o == Opposite(s)
         IN  /\ \A n \in DOMAIN trades' :
                  /\ Crosses(s, cmd'.price, trades'[n].price)
                  /\ n > 1 => ~Better(o, trades'[n].price, trades'[n - 1].price)
             /\ \A l \in Prices(book', o) : ~Better(o, l, Last(trades').price)]_vars
=============================================================================
