----------------------------- MODULE OrderFlow -----------------------------
(***************************************************************************)
(* The two ends of the UDP feed: the simulator (simulator.py main) sends the *)
(* generator's batches message by message; the golden reference consumer     *)
(* (software/lob/consumer.py) replays them through a book of its own, expects *)
(* every matched-fill report it derives, and counts gaps in the sequence      *)
(* numbers.                                                                 *)
(*                                                                         *)
(* UDP may lose, duplicate or reorder a datagram, and anybody may send one:   *)
(* MaxSteps bounds batches and faults together, MaxLag the datagrams under    *)
(* way when another batch is sent.                                            *)
(***************************************************************************)
EXTENDS GoldenReference

CONSTANTS MaxSteps, MaxLag

ASSUME StepsAssumption == MaxSteps \in Nat

VARIABLES
    gen,        \* the OrderFlowGenerator
    shown,      \* the mirror after the last order event, and its trades (history)
    sent,       \* batches sent
    feed,       \* datagrams under way, oldest first
    faults,     \* what the network did to them so far
    ref,        \* the GoldenReference
    rx          \* the loop of consumer.py main

vars == <<gen, shown, sent, feed, faults, ref, rx>>

-----------------------------------------------------------------------------
(* The mirror as a price-time book, for the comparison with PriceTimeBook.    *)

\* What order event m made of the book b.
View(m, made, b) ==
    [book   |-> Resting(b),
     cmd    |-> [type |-> m.type, side |-> m.side, id |-> m.id,
                 price |-> m.price, qty |-> m.qty, ts |-> m.ts],
     trades |-> made,
     ack    |-> [status |-> "OK", id |-> m.id,
                 rem |-> IF m.id \in OrderIds(b) THEN b.orders[m.id].qty ELSE 0,
                 bid |-> BestPrice(b, "BUY"), ask |-> BestPrice(b, "SELL"),
                 n |-> Cardinality(OrderIds(b))]]

-----------------------------------------------------------------------------
NoEvent == Message("ADD", "BUY", FALSE, 0, NoId, 0, 0, 0)

Init ==
    /\ gen = NewGenerator
    /\ shown = View(NoEvent, <<>>, EmptyBook)
    /\ sent = 0
    /\ feed = <<>>
    /\ faults = 0
    /\ ref = NewReference
    /\ rx = "listening"

\* The generator does not hear the consumer, so a batch is under way at once.
SendBatch ==
    /\ sent + faults < MaxSteps /\ Len(feed) <= MaxLag
    /\ gen.err = "" /\ rx # "timeout"
    /\ \E e \in Events(gen) :
         LET b == Batch(gen, e[1], e[2]) IN
         /\ gen' = b.gen
         /\ feed' = feed \o b.msgs
         /\ shown' = View(e[1], e[2].trades, e[2].book)
    /\ sent' = sent + 1
    /\ UNCHANGED <<faults, ref, rx>>

\* receive_once: an exception ends the loop.
Receive ==
    /\ rx = "listening" /\ feed # <<>>
    /\ feed' = Tail(feed)
    /\ IF Decodes(Head(feed))
       THEN LET p == ProcessMessage(ref, Head(feed)) IN
            /\ ref' = p.ref
            /\ rx' = IF p.err = "" THEN rx ELSE "raised"
       ELSE ref' = ref /\ rx' = "raised"
    /\ UNCHANGED <<gen, shown, sent, faults>>

\* Thirty seconds of silence, which only a simulator that is done makes.
TimeOut ==
    /\ rx = "listening" /\ feed = <<>> /\ sent > 0
    /\ rx' = "timeout"
    /\ UNCHANGED <<gen, shown, sent, feed, faults, ref>>

Fault(f) ==
    /\ sent + faults < MaxSteps /\ rx = "listening"
    /\ feed' = f
    /\ faults' = faults + 1
    /\ UNCHANGED <<gen, shown, sent, ref, rx>>

Lose == \E n \in DOMAIN feed : Fault(RemoveAt(feed, n))

Duplicate == \E n \in DOMAIN feed : Fault(InsertAt(feed, n, feed[n]))

Reorder ==
    \E n \in 1 .. Len(feed) - 1 :
        Fault([feed EXCEPT ![n] = feed[n + 1], ![n + 1] = feed[n]])

Foreign == Fault(Append(feed, Junk))

Next == SendBatch \/ Receive \/ TimeOut \/ Lose \/ Duplicate \/ Reorder \/ Foreign

Spec == Init /\ [][Next]_vars

-----------------------------------------------------------------------------
AllEvents ==
    [type : MsgType, side : Side, id : 1 .. MaxSteps, price : PriceMin .. PriceMax,
     qty : 1 .. MaxQuantity, ts : 1 .. MaxSteps]

Mirror == INSTANCE PriceTimeBook WITH
    book <- shown.book, cmd <- shown.cmd, trades <- shown.trades, ack <- shown.ack,
    Ids <- 1 .. MaxSteps, Command <- AllEvents, Capacity <- MaxSteps,
    WindowFull <- FALSE

Msg == {NoEvent, Junk} \union
       [type : MsgType, side : Side, external : BOOLEAN, seq : Nat, id : Nat,
        price : PriceMin .. PriceMax, qty : 1 .. MaxQuantity, ts : Nat]

\* Type invariant; the generator's live set is its mirror's orders, its ids and
\* time never go back to ones in the book.
TypeOK ==
    /\ \A n \in DOMAIN feed : feed[n] \in Msg
    /\ sent + faults \in 0 .. MaxSteps
    /\ rx \in {"listening", "raised", "timeout"}
    /\ gen.live = OrderIds(gen.book)
    /\ \A id \in gen.live : id < gen.nextId /\ gen.book.orders[id].ts <= gen.ts
    /\ {ref.gaps, ref.matched, ref.external} \subseteq 0 .. ref.received
    /\ ref.lastSeq \in 0 .. gen.seq
    /\ Mirror!TypeOK

\* "Replaying the stream through the consumer reproduces the exchange's book
\* state exactly and validates every execution report" (simulator.py:14-16): of
\* an undisturbed feed nothing raises, nothing is taken for a gap, and once it is
\* read the books, counts and reports agree.
Reproduces ==
    faults = 0 =>
        /\ gen.err = "" /\ rx # "raised" /\ ref.gaps = 0
        /\ feed = <<>> => /\ Snapshot(ref.book) = Snapshot(gen.book)
                         /\ ref.fills = <<>> /\ ref.matched = 2 * gen.trades
                         /\ ref.received = gen.seq

\* What a run is judged by, the counts main prints, can be trusted: a consumer
\* that read as many messages as were sent, up to the last, without an exception
\* or a gap holds the exchange's book, whatever the network did.
CountsTell ==
    rx # "raised" /\ feed = <<>> /\ ref.gaps = 0
        /\ ref.received = gen.seq /\ ref.lastSeq = gen.seq =>
        /\ Snapshot(ref.book) = Snapshot(gen.book)
        /\ ref.fills = <<>> /\ ref.matched = 2 * gen.trades

\* check_invariants holds of both books after every message, replayed with losses
\* or not: no message, refused or applied to a book that diverged, leaves a level
\* empty, an order in two places or the book crossed.
BooksConsistent == Consistent(gen.book) /\ Consistent(ref.book)

\* The lazy heaps find the best level: no order of pushes, stale entries and
\* levels that come back hides a level from get_best_bid, get_best_ask and the
\* matching loop.
HeapFindsBest ==
    \A b \in {gen.book, ref.book}, s \in Side : BestPrice(b, s) = ListedBest(b, s)

\* OrderBook implements the price-time-priority book: every add, cancel, modify
\* and external execution gives the book, the trades and the best prices that the
\* abstract book gives.
ImplementsBook == Mirror!Spec

\* A FIFO position is a time priority, through partial fills, quantity changes
\* and price changes.
FifoIsTimePriority == Mirror!FifoIsTimePriority

\* An aggressive order never trades through a better price or beyond its limit.
NoTradeThrough == Mirror!NoTradeThrough
=============================================================================
