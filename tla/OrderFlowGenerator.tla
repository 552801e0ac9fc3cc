------------------------- MODULE OrderFlowGenerator -------------------------
(***************************************************************************)
(* The exchange side: the messages of software/lob/protocol.py and the class *)
(* OrderFlowGenerator of software/lob/simulator.py, a random order flow that  *)
(* is consistent because the generator keeps a mirror of the book.           *)
(*                                                                         *)
(* The generator is a record, a batch an operator on it: one order event,     *)
(* then a buy and a sell report per trade the event made in the mirror.       *)
(***************************************************************************)
EXTENDS OrderBook

CONSTANTS
    PriceMin, PriceMax,     \* price_min, price_max
    CrossSpan,              \* how far a crossing price may go past the best (5)
    MaxQuantity             \* max_quantity

ASSUME RangeAssumption ==
    /\ PriceMin \in Nat \ {0} /\ PriceMax \in Level /\ PriceMin <= PriceMax
    /\ CrossSpan \in Nat \ {0} /\ MaxQuantity \in Nat \ {0}

-----------------------------------------------------------------------------
\* external is FLAG_EXTERNAL.
Message(type, side, external, seq, id, price, qty, ts) ==
    [type |-> type, side |-> side, external |-> external, seq |-> seq,
     id |-> id, price |-> price, qty |-> qty, ts |-> ts]

\* A datagram of another size, version, type or side.
Junk == Message("NONE", "BUY", FALSE, 0, NoId, 0, 0, 0)

\* decode_message raises no ValueError.
Decodes(m) == m.type \in MsgType /\ m.side \in Side

-----------------------------------------------------------------------------
NewGenerator ==
    [book |-> EmptyBook, seq |-> 0, nextId |-> 1, live |-> {}, ts |-> 0,
     trades |-> 0, err |-> ""]

\* The prices _pick_price may return.
PickPrice(g, s, crossing) ==
    LET best == BestPrice(g.book, Opposite(s))
        mid  == (PriceMin + PriceMax) \div 2
        half == (PriceMax - PriceMin) \div 4
    IN  IF crossing /\ best # NoPrice
        THEN {IF s = "BUY" THEN Min({best + n, PriceMax}) ELSE Max({best - n, PriceMin}) :
                n \in 1 .. CrossSpan}
        ELSE {Max({PriceMin, Min({IF s = "BUY" THEN mid - n ELSE mid + n, PriceMax})}) :
                n \in 0 .. half}

\* Mutation: the seller's report goes first.
ReportsSellerFirst(t) ==
    <<Message("EXECUTE", "SELL", FALSE, 0, t.sell, t.price, t.qty, t.ts),
      Message("EXECUTE", "BUY", FALSE, 0, t.buy, t.price, t.qty, t.ts)>>

\* The reports of a trade, the buyer's first.
Reports(t) ==
    <<Message("EXECUTE", "BUY", FALSE, 0, t.buy, t.price, t.qty, t.ts),
      Message("EXECUTE", "SELL", FALSE, 0, t.sell, t.price, t.qty, t.ts)>>

\* What each element of s is reported by, two words each.
Pairwise(two(_), s) ==
    [k \in 1 .. 2 * Len(s) |-> two(s[(k + 1) \div 2])[2 - (k % 2)]]

\* Mutation: only the order of the event is noted, not the ones it filled.
BatchKeepsLive(g, m, res) ==
    LET fills == IF m.external THEN <<>> ELSE res.trades
        all   == <<m>> \o Pairwise(Reports, fills)
    IN  [msgs |-> [n \in DOMAIN all |-> [all[n] EXCEPT !.seq = g.seq + n]],
         gen  |-> [g EXCEPT !.book = res.book, !.err = res.err, !.ts = @ + 1,
                            !.seq = @ + Len(all), !.trades = @ + Len(fills),
                            !.live = (@ \ {m.id}) \union ({m.id} \intersect OrderIds(res.book)),
                            !.nextId = IF m.type = "ADD" THEN @ + 1 ELSE @]]

\* A batch: the order event m had the result res in the mirror.
Batch(g, m, res) ==
    LET fills == IF m.external THEN <<>> ELSE res.trades
        all   == <<m>> \o Pairwise(Reports, fills)
    IN  [msgs |-> [n \in DOMAIN all |-> [all[n] EXCEPT !.seq = g.seq + n]],
         gen  |-> [g EXCEPT !.book = res.book, !.err = res.err, !.ts = @ + 1,
                            !.seq = @ + Len(all), !.trades = @ + Len(fills),
                            !.live = OrderIds(res.book),
                            !.nextId = IF m.type = "ADD" THEN @ + 1 ELSE @]]

GenAdd(g, s, price, qty) ==
    LET m == Message("ADD", s, FALSE, 0, g.nextId, price, qty, g.ts + 1)
    IN  <<m, AddOrder(g.book, Order(m.id, s, price, qty, m.ts))>>

GenCancel(g, id) ==
    LET o == g.book.orders[id]
    IN  <<Message("CANCEL", o.side, FALSE, 0, id, o.price, o.qty, g.ts + 1),
          CancelOrder(g.book, id)>>

GenModify(g, id, price, qty) ==
    LET m == Message("MODIFY", g.book.orders[id].side, FALSE, 0, id, price, qty, g.ts + 1)
    IN  <<m, ModifyOrder(g.book, id, qty, price, m.ts)>>

GenExternal(g, id, qty) ==
    LET o == g.book.orders[id]
        m == Message("EXECUTE", o.side, TRUE, 0, id, o.price, qty, g.ts + 1)
    IN  <<m, ExecuteOrder(g.book, id, qty, m.ts)>>

\* The order events the _gen methods may come to, each with its result in the
\* mirror.
AddEvents(g) ==
    UNION {{GenAdd(g, s, p, q) : p \in PickPrice(g, s, TRUE) \union PickPrice(g, s, FALSE),
                                 q \in 1 .. MaxQuantity} : s \in Side}

CancelEvents(g) == {GenCancel(g, id) : id \in g.live}

\* A new price, or its own.
ModifyEvents(g) ==
    UNION {{GenModify(g, id, p, q) :
              p \in PickPrice(g, g.book.orders[id].side, FALSE) \union {g.book.orders[id].price},
              q \in 1 .. MaxQuantity} : id \in g.live}

ExternalEvents(g) ==
    UNION {{GenExternal(g, id, q) : q \in 1 .. g.book.orders[id].qty} : id \in g.live}

\* What _choose_action may choose: only an ADD when nothing is live.
Events(g) == AddEvents(g) \union CancelEvents(g) \union ModifyEvents(g) \union ExternalEvents(g)
=============================================================================
