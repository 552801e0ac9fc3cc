-------------------------- MODULE GoldenReference --------------------------
(***************************************************************************)
(* The class GoldenReference of software/lob/consumer.py: a book of its own   *)
(* to which it applies the order events of a feed, the matched-fill reports   *)
(* it then expects, and the counts it judges the feed by.  The consumer runs  *)
(* one on the simulator's feed, the test hosts one beside the board.          *)
(***************************************************************************)
EXTENDS OrderFlowGenerator

NewReference ==
    [book |-> EmptyBook, fills |-> <<>>, derived |-> 0, matched |-> 0,
     external |-> 0, received |-> 0, gaps |-> 0, lastSeq |-> 0]

-----------------------------------------------------------------------------
(* process_message: the reference after a message, the exception raised and   *)
(* the trades it added to derived_trades.                                     *)

\* Mutation: only a step forward from the highest number seen is a gap.
CountForward(r, m) ==
    [r EXCEPT !.received = @ + 1,
              !.gaps = IF r.lastSeq # 0 /\ m.seq > r.lastSeq + 1 THEN @ + 1 ELSE @,
              !.lastSeq = Max({@, m.seq})]

Count(r, m) ==
    [r EXCEPT !.received = @ + 1,
              !.gaps = IF m.seq # 0 /\ r.lastSeq # 0 /\ m.seq # r.lastSeq + 1
                       THEN @ + 1 ELSE @,
              !.lastSeq = IF m.seq = 0 THEN @ ELSE m.seq]

\* What a report is compared by.
Fill(m) == <<m.id, m.side, m.price, m.qty, m.ts>>

\* _record_fills: two expected reports for every trade of the own book.
RecordFills(r, res) ==
    LET two(t) == <<<<t.buy, "BUY", t.price, t.qty, t.ts>>,
                    <<t.sell, "SELL", t.price, t.qty, t.ts>>>>
    IN  [ref |-> [r EXCEPT !.book = res.book,
                           !.derived = @ + Len(res.trades),
                           !.fills = @ \o Pairwise(two, res.trades)],
         err |-> res.err, made |-> res.trades]

ApplyExternal(r, res) ==
    [ref |-> IF res.err # "" THEN r
             ELSE [r EXCEPT !.book = res.book, !.external = @ + 1, !.derived = @ + 1],
     err |-> res.err, made |-> res.trades]

\* _validate_fill: the expected report is taken before it is compared.
ValidateFill(r, m) ==
    IF r.fills = <<>> THEN [ref |-> r, err |-> "ExecutionMismatchError", made |-> <<>>]
    ELSE IF Head(r.fills) # Fill(m)
         THEN [ref |-> [r EXCEPT !.fills = Tail(@)],
               err |-> "ExecutionMismatchError", made |-> <<>>]
    ELSE [ref |-> [r EXCEPT !.fills = Tail(@), !.matched = @ + 1], err |-> "", made |-> <<>>]

ProcessMessage(r, m) ==
    LET c == Count(r, m) IN
    CASE m.type = "ADD"    -> RecordFills(c, AddOrder(c.book, Order(m.id, m.side, m.price, m.qty, m.ts)))
      [] m.type = "CANCEL" -> RecordFills(c, CancelOrder(c.book, m.id))
      [] m.type = "MODIFY" -> RecordFills(c, ModifyOrder(c.book, m.id, m.qty, m.price, m.ts))
      [] m.type = "EXECUTE" /\ m.external -> ApplyExternal(c, ExecuteOrder(c.book, m.id, m.qty, m.ts))
      [] OTHER             -> ValidateFill(c, m)
=============================================================================
