----------------------------- MODULE BookState -----------------------------
(***************************************************************************)
(* The memories the order manager and the matcher share, and the registers  *)
(* through which the controller starts them and hears from them.            *)
(*                                                                         *)
(* A resting order is a slot of the pool, linked into the FIFO of its price *)
(* level; the level tables hold the ends of each FIFO, the encoder marks     *)
(* the occupied levels and the id table finds the slot of a live order.      *)
(*                                                                         *)
(* The id table appears here as the map it implements (0: not present).      *)
(***************************************************************************)
EXTENDS LobPkg, Integers, Sequences

CONSTANTS
    MaxOrders,      \* slots of the pool, slot 0 being null
    Ids, NoId,      \* order ids; the id an all-zero record holds
    MaxQty,         \* largest quantity register value (2^32 - 1)
    MaxLevelQty     \* largest level total (2^16 - 1)

ASSUME PoolAssumption == MaxOrders \in Nat \ {0, 1}
ASSUME IdsAssumption == NoId \notin Ids
ASSUME QtyAssumption == MaxQty \in Nat \ {0} /\ MaxLevelQty \in Nat \ {0}

VARIABLES
    pool, free, initCnt,        \* order_memory
    occ, best, initIdx,         \* best_price_encoder
    lvl,                        \* the two price_level tables
    ids,                        \* order_id_table: id -> slot
    cmd,                        \* cmd_q of the controller
    resp,                       \* the completion pulse of manager or matcher
    trades                      \* trades emitted for the current command

Slot == 0 .. MaxOrders - 1
NULL == 0
Qty == 0 .. MaxQty
LevelQty == 0 .. MaxLevelQty

OrderRec == [side : Side, price : Level, qty : Qty, ts : Nat,
             id : Ids \union {NoId}, next : Slot, prev : Slot]
ZeroRec == [side |-> "BUY", price |-> 0, qty |-> 0, ts |-> 0,
            id |-> NoId, next |-> NULL, prev |-> NULL]

LevelRec == [head : Slot, tail : Slot, qty : LevelQty]
ZeroLevel == [head |-> NULL, tail |-> NULL, qty |-> 0]

\* price NumLevels stands for every price above the table.
CmdRec == [type : MsgType, side : Side, id : Ids, price : 0 .. NumLevels,
           qty : Qty, ts : Nat]

TradeRec == [buy : Ids \union {NoId}, sell : Ids \union {NoId},
             price : Level, qty : Qty, ts : Nat]

Mem == INSTANCE OrderMemory
Bpe == INSTANCE BestPriceEncoder

memVars == <<pool, free, initCnt>>
bpeVars == <<occ, best, initIdx>>

-----------------------------------------------------------------------------
(* Register arithmetic: quantities are unsigned and wrap; a level total keeps *)
(* the low bits only.                                                         *)

QtyMinus(a, b) == (a - b) % (MaxQty + 1)
LevelPlus(t, q) == (t + q) % (MaxLevelQty + 1)
LevelMinus(t, q) == (t - q) % (MaxLevelQty + 1)

WriteLevel(s, l, rec) == lvl' = [lvl EXCEPT ![s][l] = rec]

BestOf(s) == best[s].idx

\* What the status ports show for a side: 0 when it has no best price.
StatusBest(s) == IF best[s].valid THEN best[s].idx ELSE 0

-----------------------------------------------------------------------------
(* Completion pulses.  At most one of manager and matcher runs at a time, so *)
(* one register carries the pulse to the controller.                         *)

NoResp == [kind |-> "none"]
EnqResp(status) == [kind |-> "enq", status |-> status]
MovedResp == [kind |-> "moved"]
QueryResp(qty) == [kind |-> "query", qty |-> qty]
AckResp(status, qty) == [kind |-> "ack", status |-> status, qty |-> qty]
MatchResp(rem) == [kind |-> "match", qty |-> rem]

Resp == {NoResp, MovedResp}
          \union {EnqResp(st) : st \in AckStatus}
          \union {QueryResp(q) : q \in Qty}
          \union {AckResp(st, q) : st \in AckStatus, q \in Qty}
          \union {MatchResp(q) : q \in Qty}
=============================================================================
