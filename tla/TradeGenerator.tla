--------------------------- MODULE TradeGenerator ---------------------------
(***************************************************************************)
(* hardware/rtl/trade_generator.sv cycle by cycle, between the FSMs that     *)
(* make trades and acknowledgements (matcher, order manager, engine          *)
(* controller) and board/lob_udp_egress.sv, which takes reports before        *)
(* acknowledgements and sends one datagram at a time.                        *)
(*                                                                         *)
(* Every step is one clock edge.  Trade n is the n-th one made; its number    *)
(* stands for price, quantity and time, acknowledgement n likewise.           *)
(* m_trade_ready is tied to 1, as in the board top and every test bench.      *)
(***************************************************************************)
EXTENDS FifoQueue, FiniteSets

CONSTANTS
    NoId,           \* the order id 0 of an external fill's missing side
    BuyIds, SellIds,    \* the buy_order_id and sell_order_id that trades carry
    TradeGap,       \* the producers work TradeGap + 1 cycles at least after a trade
    AckGap,         \* and AckGap + 1 cycles at least after an acknowledgement
    MaxMade         \* bound: trades and acknowledgements made

ASSUME GapsAssumption == TradeGap \in Nat /\ AckGap \in Nat

VARIABLES
    src,        \* the producers: FSM state, cycles it must still work, m_trade
    tradeFifo, ackFifo, repFifo,
    gen,        \* rstate, t_q, rep_seq, and rep_push with rep_data as one word
    out,        \* the egress: state and word_q
    trades,     \* history: the trades made
    acks,       \* history: for every acknowledgement made, the trades made before it
    reports,    \* history: the reports sent
    answers,    \* history: the acknowledgements sent, and the reports sent before them
    crowded     \* history: R_BUYER has met a report FIFO with one place left

vars == <<src, tradeFifo, ackFifo, repFifo, gen, out, trades, acks, reports, answers, crowded>>

Kind(t) == IF NoId \in {t.buy, t.sell} THEN "EXTERNAL" ELSE "MATCHED"

\* The trades made before the last acknowledgement.
Acknowledged == IF acks = <<>> THEN 0 ELSE acks[Len(acks)]

-----------------------------------------------------------------------------
\* Trades and acknowledgements come from FSMs that work for some cycles, offer
\* one and go on.  The shortest way on from a trade is an EXECUTE's, from EX_TRADE
\* over EX_ACK, C_MGR and C_SETTLE to C_ACK: three cycles of work, TradeGap = 2.
\* The shortest way on from an acknowledgement is that of a next command that
\* C_VALIDATE rejects, from C_ACK over C_IDLE and C_VALIDATE to C_ACK: two cycles
\* of work, AckGap = 1.  A trade after an acknowledgement takes longer in the code;
\* here it may come as soon, which adds behaviours and takes none away.
\* m_trade_valid is a register that is set in every cycle of
\* the offering state, so it is still up in the cycle after the FSM has seen
\* ready and gone on.
TradeReady == Ready(tradeFifo)
AckOffer == IF src.at = "ACK" THEN <<src.word>> ELSE <<>>

Work ==
    /\ src.at = "WORK"
    /\ src' = [src EXCEPT !.wait = IF @ = 0 THEN 0 ELSE @ - 1, !.offer = <<>>]
    /\ UNCHANGED <<trades, acks>>

\* An EXECUTE makes one external fill, any other command matched trades.
OneOfItsCommand(b, s) ==
    Acknowledged < Len(trades)
    => NoId \notin {b, s, trades[Len(trades)].buy, trades[Len(trades)].sell}

BeginTrade ==
    /\ src.at = "WORK" /\ src.wait = 0
    /\ Len(trades) + Len(acks) < MaxMade
    /\ \E b \in BuyIds, s \in SellIds :
          /\ {b, s} # {NoId} /\ OneOfItsCommand(b, s)
          /\ src' = [src EXCEPT !.at = "TRADE", !.offer = <<>>,
                                !.word = [type |-> "TRADE", buy |-> b, sell |-> s,
                                          n |-> Len(trades) + 1]]
    /\ UNCHANGED <<trades, acks>>

\* Mutation: the next offer may follow at once.
OfferTradeNoGap ==
    /\ src.at = "TRADE"
    /\ src' = IF TradeReady
              THEN [src EXCEPT !.at = "WORK", !.offer = <<src.word>>]
              ELSE [src EXCEPT !.offer = <<src.word>>]
    /\ trades' = IF TradeReady THEN Append(trades, src.word) ELSE trades
    /\ UNCHANGED acks

\* F_TRADE, M_TRADE, EX_TRADE.
OfferTrade ==
    /\ src.at = "TRADE"
    /\ src' = IF TradeReady
              THEN [src EXCEPT !.at = "WORK", !.wait = TradeGap, !.offer = <<src.word>>]
              ELSE [src EXCEPT !.offer = <<src.word>>]
    /\ trades' = IF TradeReady THEN Append(trades, src.word) ELSE trades
    /\ UNCHANGED acks

BeginAck ==
    /\ src.at = "WORK" /\ src.wait = 0
    /\ Len(trades) + Len(acks) < MaxMade
    /\ src' = [src EXCEPT !.at = "ACK", !.offer = <<>>,
                          !.word = [type |-> "ACK", n |-> Len(acks) + 1]]
    /\ UNCHANGED <<trades, acks>>

\* C_ACK: s_ack_valid is the state itself.
OfferAck ==
    /\ src.at = "ACK"
    /\ IF Ready(ackFifo)
       THEN /\ src' = [src EXCEPT !.at = "WORK", !.wait = AckGap]
            /\ acks' = Append(acks, Len(trades))
       ELSE UNCHANGED <<src, acks>>
    /\ UNCHANGED trades

SourceEdge == Work \/ BeginTrade \/ OfferTrade \/ BeginAck \/ OfferAck

-----------------------------------------------------------------------------
\* t_pop
TradePop == gen.rstate = "R_IDLE" /\ Valid(tradeFifo)

MakeReport(side, flags, seq, oid, t) ==
    [type |-> "REPORT", side |-> side, flags |-> flags, seq |-> seq,
     oid |-> oid, n |-> t.n]

BuyerReport(t, seq) == MakeReport("BUY", "NONE", seq, t.buy, t)

\* What R_SELLER reports: the second side of a match, or an external fill.
LastReport(t, seq) ==
    IF Kind(t) = "MATCHED" THEN MakeReport("SELL", "NONE", seq, t.sell, t)
    ELSE IF t.buy # NoId THEN MakeReport("BUY", "EXTERNAL", seq, t.buy, t)
         ELSE MakeReport("SELL", "EXTERNAL", seq, t.sell, t)

\* Mutation: the FSM goes on whether there is room or not.
ReportUnasked(report, next) ==
    gen' = [gen EXCEPT !.push = <<report>>, !.rstate = next, !.seq = @ + 1]

\* R_BUYER, R_SELLER: rep_push is set in every cycle of the state, the FSM goes
\* on when the FIFO has room now, a cycle before the push reaches it.
Report(report, next) ==
    gen' = IF Ready(repFifo)
           THEN [gen EXCEPT !.push = <<report>>, !.rstate = next, !.seq = @ + 1]
           ELSE [gen EXCEPT !.push = <<report>>]

TakeTrade ==
    /\ gen.rstate = "R_IDLE"
    /\ gen' = IF TradePop
              THEN LET t == FrontWord(tradeFifo)
                   IN  [gen EXCEPT !.push = <<>>, !.t = t,
                                   !.rstate = IF Kind(t) = "MATCHED" THEN "R_BUYER" ELSE "R_SELLER"]
              ELSE [gen EXCEPT !.push = <<>>]

ReportEdge ==
    \/ TakeTrade
    \/ gen.rstate = "R_BUYER" /\ Report(BuyerReport(gen.t, gen.seq), "R_SELLER")
    \/ gen.rstate = "R_SELLER" /\ Report(LastReport(gen.t, gen.seq), "R_IDLE")

-----------------------------------------------------------------------------
\* Mutation: each kind waits for the other to be absent.
ReportPopAlone == out.state = "E_IDLE" /\ Valid(repFifo) /\ ~Valid(ackFifo)

\* report_ready and ack_ready: the egress is idle; reports go first.
ReportPop == out.state = "E_IDLE" /\ Valid(repFifo)

AckPop == out.state = "E_IDLE" /\ ~Valid(repFifo) /\ Valid(ackFifo)

\* ready is the transmitter's answer: packet_start_ready in E_START,
\* payload_ready on the last byte in E_SEND; E_SEND lasts a cycle or more here, 32
\* or more there.
EgressEdge(ready) ==
    \/ /\ out.state = "E_IDLE"
       /\ out' = IF ReportPop THEN [state |-> "E_START", word |-> <<FrontWord(repFifo)>>]
                 ELSE IF AckPop THEN [state |-> "E_START", word |-> <<FrontWord(ackFifo)>>]
                      ELSE out
       /\ UNCHANGED <<reports, answers>>
    \/ /\ out.state = "E_START"
       /\ out' = IF ready THEN [out EXCEPT !.state = "E_SEND"] ELSE out
       /\ UNCHANGED <<reports, answers>>
    \/ /\ out.state = "E_SEND" /\ ~ready
       /\ UNCHANGED <<out, reports, answers>>
    \/ /\ out.state = "E_SEND" /\ ready
       /\ out' = [state |-> "E_IDLE", word |-> <<>>]
       /\ LET w == out.word[1] IN
          IF w.type = "REPORT"
          THEN reports' = Append(reports, w) /\ UNCHANGED answers
          ELSE /\ answers' = Append(answers, [n |-> w.n, after |-> Len(reports)])
               /\ UNCHANGED reports

-----------------------------------------------------------------------------
Init ==
    /\ src = [at |-> "WORK", wait |-> 0, offer |-> <<>>, word |-> [type |-> "NONE"]]
    /\ tradeFifo = EmptyFifo /\ ackFifo = EmptyFifo /\ repFifo = EmptyFifo
    /\ gen = [rstate |-> "R_IDLE", t |-> [type |-> "NONE"], seq |-> 1, push |-> <<>>]
    /\ out = [state |-> "E_IDLE", word |-> <<>>]
    /\ trades = <<>> /\ acks = <<>> /\ reports = <<>> /\ answers = <<>>
    /\ crowded = FALSE

Tick(ready) ==
    /\ SourceEdge
    /\ tradeFifo' = Clock(tradeFifo, src.offer, TradePop)
    /\ ackFifo' = Clock(ackFifo, AckOffer, AckPop)
    /\ repFifo' = Clock(repFifo, gen.push, ReportPop)
    /\ ReportEdge
    /\ EgressEdge(ready)
    /\ crowded' = (crowded \/ (gen.rstate = "R_BUYER" /\ repFifo.cnt = Depth - 1))

Next == \E ready \in BOOLEAN : Tick(ready)

\* The clock runs and the transmitter is ready again and again.
Spec == Init /\ [][Next]_vars /\ WF_vars(Tick(TRUE))

-----------------------------------------------------------------------------
\* The number of the first report of trade n: an external fill before it has one
\* report, a match two.
FirstReport(n) == n + Cardinality({k \in 1 .. n - 1 : Kind(trades[k]) = "MATCHED"})

\* The reports that trade t calls for, numbered from i.
ReportsOf(t, i) ==
    IF Kind(t) = "MATCHED" THEN {BuyerReport(t, i), LastReport(t, i + 1)}
    ELSE {LastReport(t, i)}

\* What the trades made so far call for.
Expected == UNION {ReportsOf(trades[n], FirstReport(n)) : n \in DOMAIN trades}

\* Every report sent is the one its number promises, and numbers only grow: no
\* report is doubled, reordered or misnumbered, whatever fills up, although
\* both handshakes keep valid up one cycle after they have been answered.
\* Acknowledgements are sent once each and in order.
NumberedAsMade ==
    /\ \A i \in DOMAIN reports : reports[i] \in Expected
    /\ \A i, j \in DOMAIN reports : i < j => reports[i].seq < reports[j].seq
    /\ \A i \in DOMAIN answers : answers[i].n = i

\* Every report the trades call for is sent (what the valid/ready comments of
\* the module promise), so that the n-th report is number n.
NothingLost == \A i \in DOMAIN reports : reports[i].seq = i

\* The numbers of the reports that later ones have overtaken.
Missing ==
    LET numbers == {reports[i].seq : i \in DOMAIN reports}
    IN  {i \in 1 .. gen.seq : \E n \in numbers : i < n} \ numbers

\* Only one thing loses a report: R_BUYER meets a report FIFO with one place
\* left, and then it is the seller's report of that match, never a buyer's and
\* never an external fill's.  A trade FIFO that fills, or a report FIFO that is
\* already full when the FSM gets there, loses none.
LostOnlyWhenCrowded ==
    \A i \in Missing :
        \E r \in Expected : r.seq = i /\ crowded /\ r.side = "SELL" /\ r.flags = "NONE"

\* Trade reports of a command leave before its acknowledgement, although they
\* take a longer way: by the time an acknowledgement leaves, every report of a
\* trade made before it has left (none having been lost).
ReportsBeforeAck ==
    ~crowded => \A i \in DOMAIN answers :
                    FirstReport(acks[answers[i].n] + 1) - 1 <= answers[i].after

\* Nothing waits for ever: a producer that offers a trade or an acknowledgement
\* goes on, although both wait on FIFOs behind an egress that serves reports
\* first, and every acknowledgement made is sent.
ProducersGoOn ==
    /\ (src.at = "TRADE") ~> (src.at # "TRADE")
    /\ (src.at = "ACK") ~> (src.at # "ACK")
    /\ \A k \in 1 .. MaxMade : (k <= Len(acks)) ~> (k <= Len(answers))
=============================================================================
