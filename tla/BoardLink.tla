----------------------------- MODULE BoardLink -----------------------------
(***************************************************************************)
(* The board as a test host meets it: commands go in and reports and          *)
(* acknowledgements come out as UDP datagrams, one command or answer each.     *)
(* Board is the price-time book the engine implements (GoldenCheck); a         *)
(* command's reports leave before its acknowledgement (TradeReports).          *)
(*                                                                         *)
(* Nothing the hosts do resets the board, so book and report numbers go on    *)
(* from one host program to the next.  MaxFaults bounds what the network does. *)
(***************************************************************************)
EXTENDS GoldenReference

CONSTANTS
    BoardOrders,        \* MAX_ORDERS: one more than can rest
    MaxFaults

ASSUME BoardAssumption == BoardOrders \in Nat \ {0}

VARIABLES
    book, cmd, trades, ack,     \* the board's book (PriceTimeBook)
    repSeq,                     \* the number of the next report
    toBoard, toHost,            \* datagrams under way, oldest first
    faults              \* what the network did so far

boardVars == <<book, cmd, trades, ack, repSeq>>
linkVars == <<boardVars, toBoard, toHost, faults>>

AnyCommand == [type : MsgType, side : Side, id : Nat, price : Nat, qty : Nat, ts : Nat]

Board == INSTANCE PriceTimeBook WITH
    Ids <- Nat, Command <- AnyCommand, Capacity <- BoardOrders - 1,
    WindowFull <- FALSE

-----------------------------------------------------------------------------
\* A datagram to the host.  A foreign one is not the board's.
AckDatagram(a) == [kind |-> "ACK", ack |-> a]
ReportDatagram(r) == [kind |-> "EXECUTE", report |-> r]
ForeignDatagram == [kind |-> "FOREIGN"]

Report(side, external, seq, id, t) ==
    [side |-> side, external |-> external, seq |-> seq, id |-> id,
     price |-> t.price, qty |-> t.qty, ts |-> t.ts]

\* The reports of a trade, numbered from seq: one if it is an external fill.
TradeReports(t, seq) ==
    IF t.buy # NoId /\ t.sell # NoId
    THEN <<Report("BUY", FALSE, seq, t.buy, t), Report("SELL", FALSE, seq + 1, t.sell, t)>>
    ELSE <<Report(IF t.buy # NoId THEN "BUY" ELSE "SELL", TRUE, seq,
                  IF t.buy # NoId THEN t.buy ELSE t.sell, t)>>

AllReports(made, first) ==
    LET before[n \in 0 .. Len(made)] ==
            IF n = 0 THEN <<>>
            ELSE LET reps == before[n - 1]
                 IN  reps \o TradeReports(made[n], first + Len(reps))
    IN  before[Len(made)]

-----------------------------------------------------------------------------
LinkInit ==
    /\ Board!Init
    /\ repSeq = 1
    /\ toBoard = <<>> /\ toHost = <<>>
    /\ faults = <<>>

Serve(m) ==
    LET c == [type |-> m.type, side |-> m.side, id |-> m.id, price |-> m.price,
              qty |-> m.qty, ts |-> m.ts]
        reps == AllReports(trades', repSeq)
    IN  /\ Board!Process(c)
        /\ repSeq' = repSeq + Len(reps)
        /\ toHost' = toHost \o [n \in DOMAIN reps |-> ReportDatagram(reps[n])]
                            \o <<AckDatagram(ack')>>

\* The decoder drops a message of another version without an answer.
BoardStep ==
    /\ toBoard # <<>>
    /\ toBoard' = Tail(toBoard)
    /\ IF Decodes(Head(toBoard)) THEN Serve(Head(toBoard))
                                 ELSE UNCHANGED <<boardVars, toHost>>
    /\ UNCHANGED faults

-----------------------------------------------------------------------------
Disturb(what, commands, answers) ==
    /\ Len(faults) < MaxFaults
    /\ faults' = Append(faults, what)
    /\ toBoard' = commands /\ toHost' = answers
    /\ UNCHANGED boardVars

\* The ingress also loses a command that comes while its mailbox is full.
LoseCommand ==
    \E n \in DOMAIN toBoard : Disturb("lost", RemoveAt(toBoard, n), toHost)

DuplicateCommand ==
    \E n \in DOMAIN toBoard : Disturb("doubled", InsertAt(toBoard, n, toBoard[n]), toHost)

LoseAnswer ==
    \E n \in DOMAIN toHost : Disturb("lost", toBoard, RemoveAt(toHost, n))

DuplicateAnswer ==
    \E n \in DOMAIN toHost : Disturb("repeated", toBoard, InsertAt(toHost, n, toHost[n]))

ReorderAnswers ==
    \E n \in 1 .. Len(toHost) - 1 :
        Disturb("reordered", toBoard, [toHost EXCEPT ![n] = toHost[n + 1], ![n + 1] = toHost[n]])

Foreign == Disturb("foreign", toBoard, Append(toHost, ForeignDatagram))

LinkFault ==
    \/ LoseCommand \/ DuplicateCommand
    \/ LoseAnswer \/ DuplicateAnswer \/ ReorderAnswers \/ Foreign
=============================================================================
