------------------------------ MODULE Matcher ------------------------------
(***************************************************************************)
(* hardware/rtl/matcher.sv: the fast path, which sweeps the passive book     *)
(* with an ADD that never enters the pool, and the drain, which matches the  *)
(* two heads of a crossed book.                                              *)
(*                                                                         *)
(* The level addresses are the encoder's best prices at the time of the      *)
(* access, not latched ones.  The trade sink is always ready here.           *)
(***************************************************************************)
EXTENDS BookState

VARIABLES
    mat,        \* state
    xr          \* order: the latched heads; level: their levels;
                \* qty: trade_qty_q, fast_trade_qty_q; rem: fast_rem_q

matVars == <<mat, xr>>

MatState == {"M_IDLE", "M_CHECK", "M_TRADE", "M_UPD_BID", "M_HASH_BID",
             "M_UPD_ASK", "M_HASH_ASK", "M_DONE",
             "F_CHECK", "F_TRADE", "F_UPDATE", "F_HASH"}

MatRegs == [order : [Side -> OrderRec], level : [Side -> LevelRec],
            qty : Qty, rem : Qty]

ZeroMatRegs == [order |-> [s \in Side |-> ZeroRec],
                level |-> [s \in Side |-> ZeroLevel], qty |-> 0, rem |-> 0]

MinQty(a, b) == IF a < b THEN a ELSE b
Later(a, b) == IF a >= b THEN a ELSE b

\* The controller's start pulse in M_IDLE; rem is loaded by the fast path only.
MatStart(st, rem) ==
    /\ mat' = st
    /\ xr' = [ZeroMatRegs EXCEPT !.rem = rem]

MatGoto(st) == mat' = st /\ UNCHANGED <<xr, resp>>

-----------------------------------------------------------------------------
\* A head is filled when the trade takes all it had.
Filled(s) == xr.qty = xr.order[s].qty

\* Mutation: the tail pointer of an emptied level is kept.
LevelAfterKeepsTail(s) ==
    LET o == xr.order[s]
        v == xr.level[s]
    IN  [head |-> IF Filled(s) THEN o.next ELSE v.head,
         tail |-> v.tail, qty |-> LevelMinus(v.qty, xr.qty)]

\* The level once the trade is applied to its head.
LevelAfter(s) ==
    LET o == xr.order[s]
        v == xr.level[s]
    IN  [head |-> IF Filled(s) THEN o.next ELSE v.head,
         tail |-> IF Filled(s) /\ o.next = NULL THEN NULL ELSE v.tail,
         qty  |-> LevelMinus(v.qty, xr.qty)]

\* Mutation: the occupancy bit of the other side is cleared.
ClearIfEmptiedOther(s) ==
    IF Filled(s) /\ xr.order[s].next = NULL
      THEN Bpe!Edge(Bpe!ClearPulse(Opposite(s), BestOf(Opposite(s))))
      ELSE UNCHANGED bpeVars

\* A level whose filled head had no successor loses its occupancy bit.
ClearIfEmptied(s) ==
    IF Filled(s) /\ xr.order[s].next = NULL
      THEN Bpe!Edge(Bpe!ClearPulse(s, BestOf(s)))
      ELSE UNCHANGED bpeVars

\* M_UPD_BID, M_UPD_ASK, F_UPDATE: apply the trade to the head of side s.  The
\* level record at the best price is rewritten; a filled head is unlinked and
\* its slot pushed.  Its successor is not written: it keeps its prev_ptr.
Consume(s) ==
    LET o    == xr.order[s]
        slot == xr.level[s].head
    IN
    /\ WriteLevel(s, BestOf(s), LevelAfter(s))
    /\ IF Filled(s)
         THEN Mem!Push(slot) /\ UNCHANGED pool
         ELSE /\ Mem!Write(slot, [o EXCEPT !.qty = QtyMinus(o.qty, xr.qty)])
              /\ UNCHANGED <<free, initCnt>>
    /\ ClearIfEmptied(s)
    /\ UNCHANGED <<ids, trades>>

\* M_HASH_*, F_HASH_*: delete the mapping of the filled head.
DropMapping(s) ==
    /\ ids' = [i \in Ids |-> IF i = xr.order[s].id THEN NULL ELSE ids[i]]
    /\ UNCHANGED <<memVars, bpeVars, lvl, trades>>

-----------------------------------------------------------------------------
(* Drain.                                                                    *)

Crossed ==
    /\ best["BUY"].valid /\ best["SELL"].valid
    /\ BestOf("BUY") >= BestOf("SELL")

\* Mutation: the crossing test does not wait for the scans.
MCheckEarly ==
    /\ mat = "M_CHECK"
    /\ MatGoto(IF Crossed THEN "M_TRADE" ELSE "M_DONE")
    /\ UNCHANGED <<memVars, bpeVars, lvl, ids, trades>>

MCheck ==
    /\ mat = "M_CHECK" /\ ~Bpe!RefreshBusy
    /\ MatGoto(IF Crossed THEN "M_TRADE" ELSE "M_DONE")
    /\ UNCHANGED <<memVars, bpeVars, lvl, ids, trades>>

\* Mutation: always the bid's price.
DrainPriceOfBid(o) == o["BUY"].price

\* The price of the older head, the bid's on a tie.
DrainPrice(o) ==
    IF o["BUY"].ts <= o["SELL"].ts THEN o["BUY"].price ELSE o["SELL"].price

\* M_LEVELS, M_ORDERS, M_TRADE: both levels, then both heads, then one trade.
MTrade ==
    LET v == [s \in Side |-> lvl[s][BestOf(s)]]
        o == [s \in Side |-> pool[v[s].head]]
        q == MinQty(o["BUY"].qty, o["SELL"].qty)
    IN
    /\ mat = "M_TRADE"
    /\ mat' = "M_UPD_BID"
    /\ xr' = [xr EXCEPT !.order = o, !.level = v, !.qty = q]
    /\ trades' = Append(trades,
         [buy |-> o["BUY"].id, sell |-> o["SELL"].id, price |-> DrainPrice(o),
          qty |-> q, ts |-> Later(o["BUY"].ts, o["SELL"].ts)])
    /\ UNCHANGED <<memVars, bpeVars, lvl, ids, resp>>

MUpdBid ==
    /\ mat = "M_UPD_BID"
    /\ Consume("BUY")
    /\ MatGoto(IF Filled("BUY") THEN "M_HASH_BID" ELSE "M_UPD_ASK")

MHashBid ==
    /\ mat = "M_HASH_BID"
    /\ DropMapping("BUY")
    /\ MatGoto("M_UPD_ASK")

MUpdAsk ==
    /\ mat = "M_UPD_ASK"
    /\ Consume("SELL")
    /\ MatGoto(IF Filled("SELL") THEN "M_HASH_ASK" ELSE "M_CHECK")

MHashAsk ==
    /\ mat = "M_HASH_ASK"
    /\ DropMapping("SELL")
    /\ MatGoto("M_CHECK")

-----------------------------------------------------------------------------
(* Fast path: the command is the aggressor, the other side is passive.       *)

Passive == Opposite(cmd.side)

FastCrosses ==
    best[Passive].valid /\ Crosses(cmd.side, cmd.price, BestOf(Passive))

FCheck ==
    /\ mat = "F_CHECK" /\ ~Bpe!RefreshBusy
    /\ MatGoto(IF xr.rem # 0 /\ FastCrosses THEN "F_TRADE" ELSE "M_DONE")
    /\ UNCHANGED <<memVars, bpeVars, lvl, ids, trades>>

\* F_LEVEL, F_HEAD, F_TRADE: always the passive order's price.
FTrade ==
    LET v == lvl[Passive][BestOf(Passive)]
        o == pool[v.head]
        q == MinQty(xr.rem, o.qty)
    IN
    /\ mat = "F_TRADE"
    /\ mat' = "F_UPDATE"
    /\ xr' = [xr EXCEPT !.order[Passive] = o, !.level[Passive] = v, !.qty = q]
    /\ trades' = Append(trades,
         [buy  |-> IF cmd.side = "BUY" THEN cmd.id ELSE o.id,
          sell |-> IF cmd.side = "SELL" THEN cmd.id ELSE o.id,
          price |-> o.price, qty |-> q, ts |-> Later(cmd.ts, o.ts)])
    /\ UNCHANGED <<memVars, bpeVars, lvl, ids, resp>>

FUpdate ==
    /\ mat = "F_UPDATE"
    /\ Consume(Passive)
    /\ mat' = IF Filled(Passive) THEN "F_HASH" ELSE "F_CHECK"
    /\ xr' = [xr EXCEPT !.rem = QtyMinus(@, xr.qty)]
    /\ UNCHANGED resp

FHash ==
    /\ mat = "F_HASH"
    /\ DropMapping(Passive)
    /\ MatGoto("F_CHECK")

\* match_done with the remainder (0 after a drain, which loads none).
MDone ==
    /\ mat = "M_DONE"
    /\ mat' = "M_IDLE"
    /\ xr' = ZeroMatRegs
    /\ resp' = MatchResp(xr.rem)
    /\ UNCHANGED <<memVars, bpeVars, lvl, ids, trades>>

-----------------------------------------------------------------------------
MatStep ==
    \/ MCheck \/ MTrade \/ MUpdBid \/ MHashBid \/ MUpdAsk \/ MHashAsk
    \/ FCheck \/ FTrade \/ FUpdate \/ FHash \/ MDone
=============================================================================
