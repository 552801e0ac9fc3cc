---------------------------- MODULE OrderManager ----------------------------
(***************************************************************************)
(* hardware/rtl/order_manager.sv: the FSM that enqueues an ADD, splices a    *)
(* CANCEL, rewrites or moves a MODIFY, applies an EXECUTE and answers the    *)
(* controller's query for what is left of an order.                          *)
(*                                                                         *)
(* One action per state that reads a decision or writes a memory; the states *)
(* that only let a synchronous RAM deliver its word are merged with the state *)
(* that consumes it.  Registers no later state reads are zeroed at IDLE.     *)
(***************************************************************************)
EXTENDS BookState

CONSTANT WindowFull     \* BOOLEAN: an insertion may find its 32 buckets taken

VARIABLES
    mgr,        \* state
    mr          \* op_q, slot_q, order_q, level_q, prev_order_q, next_order_q,
                \* and in new: new_head_q/new_tail_q/new_qty_q, new_level_q

mgrVars == <<mgr, mr>>

MgrState == {"IDLE", "LU", "LATCH", "CAN_BEGIN", "SP_WR_NEXT", "SP_WR_NEXT2",
             "DEL_HASH", "DEL_COMMIT", "MOD_QTY_WR", "RE_LVL", "LVL_READ",
             "WR_EMPTY", "TAIL", "TAIL2", "EX_PARTIAL", "EX_TRADE", "ACK",
             "ENQ_GET_SLOT", "ENQ_HASH", "ENQ_ROLLBACK", "ENQ_DONE"}

MgrOp == {"ENQ", "CANCEL", "MODIFY", "EXECUTE", "QUERY"}

MgrRegs == [op : MgrOp, slot : Slot, order : OrderRec, level : LevelRec,
            new : LevelRec, prev : OrderRec, next : OrderRec]

ZeroRegs == [op |-> "ENQ", slot |-> NULL, order |-> ZeroRec,
             level |-> ZeroLevel, new |-> ZeroLevel,
             prev |-> ZeroRec, next |-> ZeroRec]

\* The controller's start pulse in MGR_IDLE.
MgrStart(op) ==
    /\ mgr' = IF op = "ENQ" THEN "ENQ_GET_SLOT" ELSE "LU"
    /\ mr' = [ZeroRegs EXCEPT !.op = op]

Goto(st) == mgr' = st /\ UNCHANGED <<mr, resp>>

Finish(r) == mgr' = "IDLE" /\ mr' = ZeroRegs /\ resp' = r

-----------------------------------------------------------------------------
(* Lookup, common to CANCEL, MODIFY, EXECUTE and the query.                  *)

LookupMiss ==
    /\ mgr = "LU" /\ ids[cmd.id] = NULL
    /\ Finish(IF mr.op = "QUERY" THEN QueryResp(0) ELSE AckResp("NOT_LIVE", 0))
    /\ UNCHANGED <<memVars, bpeVars, lvl, ids, trades>>

LookupHit ==
    /\ mgr = "LU" /\ ids[cmd.id] # NULL
    /\ mgr' = "LATCH"
    /\ mr' = [mr EXCEPT !.slot = ids[cmd.id]]
    /\ UNCHANGED <<memVars, bpeVars, lvl, ids, trades, resp>>

\* ORD_LATCH ends the query with the order's remaining quantity.
LatchQuery ==
    /\ mgr = "LATCH" /\ mr.op = "QUERY"
    /\ Finish(QueryResp(pool[mr.slot].qty))
    /\ UNCHANGED <<memVars, bpeVars, lvl, ids, trades>>

\* An EXECUTE may not take more than the order holds, nor nothing.
Overfills(o) == mr.op = "EXECUTE" /\ (cmd.qty = 0 \/ cmd.qty > o.qty)

LatchReject ==
    LET o == pool[mr.slot] IN
    /\ mgr = "LATCH" /\ mr.op # "QUERY" /\ Overfills(o)
    /\ Finish(AckResp("BAD_FIELD", o.qty))
    /\ UNCHANGED <<memVars, bpeVars, lvl, ids, trades>>

\* LVL_LATCH: latch order and level, then choose the operation's first state.
LatchOrder ==
    LET o == pool[mr.slot] IN
    /\ mgr = "LATCH" /\ mr.op # "QUERY" /\ ~Overfills(o)
    /\ mr' = [mr EXCEPT !.order = o, !.level = lvl[o.side][o.price]]
    /\ mgr' = IF mr.op = "MODIFY" /\ cmd.price = o.price THEN "MOD_QTY_WR"
              ELSE IF mr.op = "EXECUTE" /\ cmd.qty # o.qty THEN "EX_PARTIAL"
              ELSE "CAN_BEGIN"
    /\ UNCHANGED <<memVars, bpeVars, lvl, ids, trades, resp>>

-----------------------------------------------------------------------------
(* Splice: unlink order_q from the FIFO of its level.                        *)

\* CAN_BEGIN and SP_NEXT: new ends and total of the level, neighbours read.
CanBegin ==
    LET o == mr.order
        v == mr.level
    IN
    /\ mgr = "CAN_BEGIN"
    /\ mgr' = "SP_WR_NEXT"
    /\ mr' = [mr EXCEPT
         !.new = [head |-> IF o.prev = NULL THEN o.next ELSE v.head,
                  tail |-> IF o.next = NULL THEN o.prev ELSE v.tail,
                  qty  |-> LevelMinus(v.qty, o.qty)],
         !.prev = pool[o.prev],
         !.next = pool[o.next]]
    /\ UNCHANGED <<memVars, bpeVars, lvl, ids, trades, resp>>

\* The level record, the predecessor's link and, when the total reaches zero,
\* the occupancy bit are written in one cycle.
SpWrNext ==
    LET o == mr.order IN
    /\ mgr = "SP_WR_NEXT"
    /\ Goto("SP_WR_NEXT2")
    /\ WriteLevel(o.side, o.price, mr.new)
    /\ IF o.prev # NULL
         THEN Mem!Write(o.prev, [mr.prev EXCEPT !.next = o.next])
         ELSE UNCHANGED pool
    /\ IF mr.new.qty = 0
         THEN Bpe!Edge(Bpe!ClearPulse(o.side, o.price))
         ELSE UNCHANGED bpeVars
    /\ UNCHANGED <<free, initCnt, ids, trades>>

\* Mutation: a removed order's mapping is left in the id table.
AfterSpliceKeepsId == IF mr.op = "MODIFY" THEN "RE_LVL" ELSE "DEL_COMMIT"

\* A MODIFY moves the slot, the others give it up.
AfterSplice == IF mr.op = "MODIFY" THEN "RE_LVL" ELSE "DEL_HASH"

SpWrNext2 ==
    LET o == mr.order IN
    /\ mgr = "SP_WR_NEXT2"
    /\ Goto(AfterSplice)
    /\ IF o.next # NULL
         THEN Mem!Write(o.next, [mr.next EXCEPT !.prev = o.prev])
         ELSE UNCHANGED pool
    /\ UNCHANGED <<free, initCnt, bpeVars, lvl, ids, trades>>

\* The mapping goes before the slot does.
DelHash ==
    /\ mgr = "DEL_HASH"
    /\ Goto("DEL_COMMIT")
    /\ ids' = [i \in Ids |-> IF i = mr.order.id THEN NULL ELSE ids[i]]
    /\ UNCHANGED <<memVars, bpeVars, lvl, trades>>

DelCommit ==
    /\ mgr = "DEL_COMMIT"
    /\ Goto(IF mr.op = "EXECUTE" THEN "EX_TRADE" ELSE "ACK")
    /\ Mem!Push(mr.slot)
    /\ UNCHANGED <<pool, bpeVars, lvl, ids, trades>>

-----------------------------------------------------------------------------
(* MODIFY of the quantity alone, and partial EXECUTE: no pointer changes.    *)

Requantify(q, total) ==
    /\ Mem!Write(mr.slot, [mr.order EXCEPT !.qty = q])
    /\ WriteLevel(mr.order.side, mr.order.price, [mr.level EXCEPT !.qty = total])
    /\ UNCHANGED <<free, initCnt, bpeVars, ids, trades>>

ModQtyWr ==
    /\ mgr = "MOD_QTY_WR"
    /\ Goto("ACK")
    /\ Requantify(cmd.qty,
                  LevelMinus(LevelPlus(mr.level.qty, cmd.qty), mr.order.qty))

ExPartial ==
    /\ mgr = "EX_PARTIAL"
    /\ Goto("EX_TRADE")
    /\ Requantify(QtyMinus(mr.order.qty, cmd.qty),
                  LevelMinus(mr.level.qty, cmd.qty))

\* An external fill has no counterparty in the book.
ExTrade ==
    LET o == mr.order IN
    /\ mgr = "EX_TRADE"
    /\ Goto("ACK")
    /\ trades' = Append(trades,
         [buy  |-> IF o.side = "BUY" THEN o.id ELSE NoId,
          sell |-> IF o.side = "SELL" THEN o.id ELSE NoId,
          price |-> o.price, qty |-> cmd.qty, ts |-> cmd.ts])
    /\ UNCHANGED <<memVars, bpeVars, lvl, ids>>

\* CAN_ACK, MOD_ACK, EX_ACK.  A full fill leaves order_q.qty - cmd_q.qty = 0.
MgrAck ==
    /\ mgr = "ACK"
    /\ Finish(AckResp("OK", CASE mr.op = "CANCEL"  -> 0
                              [] mr.op = "MODIFY"  -> cmd.qty
                              [] mr.op = "EXECUTE" ->
                                   QtyMinus(mr.order.qty, cmd.qty)))
    /\ UNCHANGED <<memVars, bpeVars, lvl, ids, trades>>

-----------------------------------------------------------------------------
(* Linking at the tail of a level: the new slot of an ADD (the ENQ states) or *)
(* the slot a MODIFY moves (the RE states).  Both take side, price, quantity, *)
(* time and id from the command.                                              *)

NewOrder(prev) ==
    [side |-> cmd.side, price |-> cmd.price, qty |-> cmd.qty, ts |-> cmd.ts,
     id |-> cmd.id, next |-> NULL, prev |-> prev]

\* level_q for an ADD, new_level_q for a MODIFY.
Target == IF mr.op = "ENQ" THEN mr.level ELSE mr.new

EnqGetSlot ==
    /\ mgr = "ENQ_GET_SLOT" /\ Mem!InitDone
    /\ IF Mem!FreeEmpty
         THEN Finish(EnqResp("FULL")) /\ UNCHANGED <<pool, free, initCnt>>
         ELSE /\ mgr' = "ENQ_HASH"
              /\ mr' = [mr EXCEPT !.slot = Mem!TopSlot]
              /\ Mem!Alloc
              /\ UNCHANGED resp
    /\ UNCHANGED <<bpeVars, lvl, ids, trades>>

EnqHashHit ==
    /\ mgr = "ENQ_HASH" /\ ids[cmd.id] = NULL
    /\ Goto("LVL_READ")
    /\ ids' = [ids EXCEPT ![cmd.id] = mr.slot]
    /\ UNCHANGED <<memVars, bpeVars, lvl, trades>>

\* A duplicate id, or no empty bucket in the probe window.
EnqHashMiss ==
    /\ mgr = "ENQ_HASH" /\ (ids[cmd.id] # NULL \/ WindowFull)
    /\ Goto("ENQ_ROLLBACK")
    /\ UNCHANGED <<memVars, bpeVars, lvl, ids, trades>>

\* Mutation: the reserved slot is not given back.
EnqRollbackLeaks ==
    /\ mgr = "ENQ_ROLLBACK"
    /\ Finish(EnqResp("INTERNAL"))
    /\ UNCHANGED <<memVars, bpeVars, lvl, ids, trades>>

EnqRollback ==
    /\ mgr = "ENQ_ROLLBACK"
    /\ Finish(EnqResp("INTERNAL"))
    /\ Mem!Push(mr.slot)
    /\ UNCHANGED <<pool, bpeVars, lvl, ids, trades>>

\* RE_LVL rewrites the moved order before its new level is read.
ReLvl ==
    /\ mgr = "RE_LVL"
    /\ Goto("LVL_READ")
    /\ Mem!Write(mr.slot, NewOrder(NULL))
    /\ UNCHANGED <<free, initCnt, bpeVars, lvl, ids, trades>>

\* ENQ_LVL_REQ/ENQ_LVL and RE_LVL2.
LvlRead ==
    LET v == lvl[cmd.side][cmd.price] IN
    /\ mgr = "LVL_READ"
    /\ mgr' = IF v.head = NULL THEN "WR_EMPTY" ELSE "TAIL"
    /\ mr' = IF mr.op = "ENQ" THEN [mr EXCEPT !.level = v]
                              ELSE [mr EXCEPT !.new = v]
    /\ UNCHANGED <<memVars, bpeVars, lvl, ids, trades, resp>>

\* The last step of linking: to ENQ_DONE, or the moved pulse.
Linked ==
    IF mr.op = "ENQ" THEN Goto("ENQ_DONE") ELSE Finish(MovedResp)

\* Only a level whose head is null is marked occupied.
WrEmpty ==
    /\ mgr = "WR_EMPTY"
    /\ Linked
    /\ WriteLevel(cmd.side, cmd.price,
                  [head |-> mr.slot, tail |-> mr.slot,
                   qty |-> LevelPlus(0, cmd.qty)])
    /\ IF mr.op = "ENQ" THEN Mem!Write(mr.slot, NewOrder(NULL))
                        ELSE UNCHANGED pool
    /\ Bpe!Edge(Bpe!SetPulse(cmd.side, cmd.price))
    /\ UNCHANGED <<free, initCnt, ids, trades>>

TailLink ==
    /\ mgr = "TAIL"
    /\ Goto("TAIL2")
    /\ Mem!Write(Target.tail, [pool[Target.tail] EXCEPT !.next = mr.slot])
    /\ UNCHANGED <<free, initCnt, bpeVars, lvl, ids, trades>>

\* Mutation: the new order is linked at the head.
TailLink2AtHead ==
    /\ mgr = "TAIL2"
    /\ Linked
    /\ WriteLevel(cmd.side, cmd.price,
                  [head |-> mr.slot, tail |-> Target.tail,
                   qty |-> LevelPlus(Target.qty, cmd.qty)])
    /\ Mem!Write(mr.slot, NewOrder(Target.tail))
    /\ UNCHANGED <<free, initCnt, bpeVars, ids, trades>>

TailLink2 ==
    /\ mgr = "TAIL2"
    /\ Linked
    /\ WriteLevel(cmd.side, cmd.price,
                  [head |-> Target.head, tail |-> mr.slot,
                   qty |-> LevelPlus(Target.qty, cmd.qty)])
    /\ Mem!Write(mr.slot, NewOrder(Target.tail))
    /\ UNCHANGED <<free, initCnt, bpeVars, ids, trades>>

EnqDone ==
    /\ mgr = "ENQ_DONE"
    /\ Finish(EnqResp("OK"))
    /\ UNCHANGED <<memVars, bpeVars, lvl, ids, trades>>

-----------------------------------------------------------------------------
MgrStep ==
    \/ LookupMiss \/ LookupHit \/ LatchQuery \/ LatchReject \/ LatchOrder
    \/ CanBegin \/ SpWrNext \/ SpWrNext2 \/ DelHash \/ DelCommit
    \/ ModQtyWr \/ ExPartial \/ ExTrade \/ MgrAck
    \/ EnqGetSlot \/ EnqHashHit \/ EnqHashMiss \/ EnqRollback
    \/ ReLvl \/ LvlRead \/ WrEmpty \/ TailLink \/ TailLink2 \/ EnqDone
=============================================================================
