--------------------------- MODULE BookInvariants ---------------------------
(***************************************************************************)
(* What makes the engine's memories an order book: the structural facts the  *)
(* project's docs ask the engine to assert (docs/architecture.md, section 11: *)
(* "no empty level, no crossed book, pool/hash/free-list consistency") and    *)
(* the timing facts its FSMs rely on without checking them.                   *)
(*                                                                         *)
(* The queues and the slots are described at every clock edge, not only      *)
(* between commands: the first definitions say where a slot is while an       *)
(* operation carries it, and which pointer is one write behind its level.     *)
(***************************************************************************)
EXTENDS EngineControl

\* The slots the id table names.
Mapped == {ids[i] : i \in Ids} \ {NULL}

\* The slot the manager carries outside every level: allocated and not linked
\* yet, or unlinked and not yet freed or linked again.
InHand ==
    IF mgr \in {"ENQ_HASH", "ENQ_ROLLBACK", "SP_WR_NEXT2", "RE_LVL"}
                 \union Deleting \union Linking
      THEN {mr.slot} ELSE {}

\* The matcher has freed the filled head of side s and has still to unmap it.
Unmapping(s) ==
    \/ mat = "M_HASH_BID" /\ s = "BUY"
    \/ mat = "M_HASH_ASK" /\ s = "SELL"
    \/ mat = "F_HASH" /\ s = Passive

Dropped == {xr.level[s].head : s \in {t \in Side : Unmapping(t)}}

\* The slots linked into a level.
Resting == Mapped \ (InHand \union Dropped)

\* The pool as the level records describe it: a new order is linked to the old
\* tail one state before its level is written, and the successor of a spliced
\* order is written one state after.
View ==
    IF mgr = "TAIL2" THEN [pool EXCEPT ![Target.tail].next = NULL]
    ELSE IF mgr = "SP_WR_NEXT2" /\ mr.order.next # NULL
      THEN [pool EXCEPT ![mr.order.next].prev = mr.order.prev]
    ELSE pool

-----------------------------------------------------------------------------
(* Levels: p is a pool, r a set of its slots, a the slots of one level and v  *)
(* the level's record.                                                       *)

SlotsAt(r, p, s, l) == {x \in r : p[x].side = s /\ p[x].price = l}

\* The quantity of the orders in a, counted unit by unit.
TotalQty(a, p) == Cardinality({u \in a \X (1 .. MaxQty) : u[2] <= p[u[1]].qty})

\* next_ptr and prev_ptr make one list of the slots of a, from v.head to v.tail
\* and from the oldest order to the youngest; v.qty is the low bits of its total.
\* The head's prev_ptr is left out: the matcher does not maintain it.
IsFifo(a, p, v) ==
    /\ IF a = {} THEN v.head = NULL /\ v.tail = NULL
                 ELSE v.head \in a /\ v.tail \in a
    /\ \A x \in a :
         /\ p[x].qty > 0
         /\ IF x = v.tail
              THEN p[x].next = NULL
              ELSE LET y == p[x].next IN
                   y \in a \ {v.head} /\ p[y].prev = x /\ p[x].ts < p[y].ts
         /\ x # v.head => LET w == p[x].prev IN w \in a /\ p[w].next = x
    /\ v.qty = TotalQty(a, p) % (MaxLevelQty + 1)

AreFifos(r, p, table) ==
    \A s \in Side, l \in Level : IsFifo(SlotsAt(r, p, s, l), p, table[s][l])

\* Every level is a FIFO of its orders in time priority: each is on the level of
\* its side and price, once, with quantity left, and the total is theirs.
QueuesAreFifos == AreFifos(Resting, View, lvl)

\* Pool, id table and free list agree: every slot but 0 is either free, once, or
\* linked into a level, or in the hands of the manager; and the id table finds
\* each order that is linked, under its own id only.
SlotsAccountedFor ==
    /\ Mem!NoSlotTwice /\ NULL \notin Mem!FreeSlots
    /\ Mem!InitDone => Mem!Held = Resting \union InHand
    /\ \A i, j \in Ids : ids[i] = ids[j] /\ ids[i] # NULL => i = j
    /\ \A i \in Ids : ids[i] \in Resting => pool[ids[i]].id = i

\* No level holds more than its total can count (the scope of
\* docs/architecture.md, lines 149-151).
TotalsFit ==
    \A s \in Side, l \in Level :
        TotalQty(SlotsAt(Resting, View, s, l), View) <= MaxLevelQty

\* Between commands and while an acknowledgement is sent, once the memories are
\* initialized.
Quiet == ctl \in {"C_IDLE", "C_ACK"} /\ Mem!InitDone /\ Bpe!InitDone

\* The prices the engine shows and matches on are the book's: while it is quiet
\* no scan is running, the encoder marks exactly the levels that hold orders,
\* reports the best of each side, and the two sides do not cross.
BestIsTheBooks ==
    LET held(s) == {l \in Level : lvl[s][l].head # NULL} IN
    Quiet =>
        /\ ~Bpe!RefreshBusy
        /\ \A s \in Side :
             /\ occ[s] = held(s)
             /\ best[s].valid <=> held(s) # {}
             /\ best[s].valid => /\ BestOf(s) \in held(s)
                                 /\ \A l \in held(s) : ~Better(s, l, BestOf(s))
        /\ \A b \in held("BUY"), a \in held("SELL") : b < a

\* The matcher writes back to the level it read: the best price it addresses
\* is still the price of the order it traded with, although it is not latched
\* and the encoder may be scanning the other side.
WriteBackToTheSameLevel ==
    /\ mat = "M_UPD_BID" =>
         \A s \in Side : best[s].valid /\ BestOf(s) = xr.order[s].price
    /\ mat = "M_UPD_ASK" =>
         best["SELL"].valid /\ BestOf("SELL") = xr.order["SELL"].price
    /\ mat = "F_UPDATE" =>
         best[Passive].valid /\ BestOf(Passive) = xr.order[Passive].price

\* What an acknowledgement shows is the book at that time: as many orders as are
\* linked, although the engine only reads the height of the free stack, and the
\* prices the encoder has settled on, although it samples them earlier.
AcknowledgesTheBook ==
    ctl = "C_ACK" => /\ ack.n = Cardinality(Resting)
                     /\ ack.bid = StatusBest("BUY") /\ ack.ask = StatusBest("SELL")

\* The matcher has latched the head it trades with on side s.
Trading(s) ==
    \/ mat = "M_UPD_BID"
    \/ mat \in {"M_HASH_BID", "M_UPD_ASK"} /\ s = "SELL"
    \/ mat = "F_UPDATE" /\ s = Passive

\* Price-time priority: whoever trades has the best price of its side, and is
\* the oldest order at that price.
PriceTimePriority ==
    \A s \in Side : Trading(s) =>
        LET o == xr.order[s] IN
        \A x \in Resting : pool[x].side = s /\ pool[x] # o =>
            \/ Better(s, o.price, pool[x].price)
            \/ o.price = pool[x].price /\ o.ts < pool[x].ts

\* No operation works on a slot the free stack could hand out: a mapping to a
\* freed slot exists only while the matcher is about to delete it, and the slot
\* the manager works on is not free.
NoUseOfFreedSlot ==
    /\ \A i \in Ids : ids[i] \in Mem!FreeSlots =>
         \E s \in Side : Unmapping(s) /\ i = xr.order[s].id
    /\ mgr \notin {"IDLE", "LU", "ENQ_GET_SLOT", "EX_TRADE", "ACK"} =>
         mr.slot \notin Mem!FreeSlots

\* An ADD is transactional: one that is refused has not traded (and so has not
\* taken quantity from anybody).
RefusedAddLeavesNoTrade ==
    ctl \in {"C_ACK", "C_IDLE"} /\ ack.status \in {"FULL", "INTERNAL"} =>
        trades = <<>>

\* Every slot given back or rewritten is one that is held: neither free nor the
\* null slot.  This is what the free stack relies on and does not check.
OnlyHeldSlots ==
    [][/\ Mem!InitDone /\ Len(free') > Len(free) => free'[Len(free')] \in Mem!Held
       /\ \A slot \in Slot : pool'[slot] # pool[slot] => slot \in Mem!Held]_vars

\* Every accepted command is acknowledged.
EveryCommandCompletes == ctl # "C_IDLE" ~> ctl = "C_IDLE"
-----------------------------------------------------------------------------
(* What the FSMs rely on from one of their states to the next.  With this the *)
(* properties above are inductive, for a host that does not splice stale      *)
(* heads and a reset that finds the book empty.                              *)

\* What the manager has latched is what the memories hold.
ManagerLatches ==
    LET o == mr.order
        v == mr.level
    IN
    /\ mgr \in {"LATCH", "CAN_BEGIN", "MOD_QTY_WR", "EX_PARTIAL", "SP_WR_NEXT",
                "SP_WR_NEXT2", "DEL_HASH", "RE_LVL", "ENQ_DONE"} \union Linking =>
         mr.slot # NULL /\ ids[cmd.id] = mr.slot
    /\ mgr \in {"CAN_BEGIN", "MOD_QTY_WR", "EX_PARTIAL", "SP_WR_NEXT"} =>
         o = pool[mr.slot] /\ v = lvl[o.side][o.price]
    /\ mgr = "EX_PARTIAL" => 0 < cmd.qty /\ cmd.qty < o.qty
    /\ mgr \in {"CAN_BEGIN", "SP_WR_NEXT"} /\ o.prev # NULL =>
         v.head # mr.slot
    /\ mgr = "SP_WR_NEXT" =>
         /\ mr.new = [head |-> IF o.prev = NULL THEN o.next ELSE v.head,
                      tail |-> IF o.next = NULL THEN o.prev ELSE v.tail,
                      qty  |-> LevelMinus(v.qty, o.qty)]
         /\ mr.prev = pool[o.prev] /\ mr.next = pool[o.next]
    /\ mgr = "SP_WR_NEXT2" /\ o.next # NULL =>
         o.next \in Resting /\ mr.next = pool[o.next]
    /\ mgr \in {"SP_WR_NEXT2", "DEL_HASH"} => o.id = cmd.id
    /\ mgr \in {"DEL_COMMIT", "ENQ_HASH", "ENQ_ROLLBACK"} =>
         mr.slot # NULL /\ mr.slot \notin Mapped
    /\ mgr \in {"LVL_READ", "WR_EMPTY"} /\ mr.op = "MODIFY" =>
         pool[mr.slot] = NewOrder(NULL)
    /\ mgr = "WR_EMPTY" => lvl[cmd.side][cmd.price].head = NULL
    /\ mgr \in {"TAIL", "TAIL2"} =>
         Target = lvl[cmd.side][cmd.price] /\ Target.head # NULL
    /\ mgr = "TAIL2" => pool[Target.tail].next = mr.slot

\* The head of side s that the matcher trades with is the head of its best
\* level, and the trade takes some of it and no more than all.
Latched(s) ==
    LET v == xr.level[s] IN
    /\ best[s].valid /\ v = lvl[s][BestOf(s)] /\ v.head # NULL
    /\ xr.order[s] = pool[v.head]
    /\ 0 < xr.qty /\ xr.qty <= xr.order[s].qty

MatcherLatches ==
    /\ mat = "M_TRADE" => \A s \in Side : best[s].valid
    /\ mat = "M_UPD_BID" => Latched("BUY")
    /\ mat \in {"M_UPD_BID", "M_HASH_BID", "M_UPD_ASK"} => Latched("SELL")
    /\ mat = "F_TRADE" => best[Passive].valid /\ xr.rem > 0
    /\ mat = "F_UPDATE" => Latched(Passive) /\ xr.qty <= xr.rem
    /\ \A s \in Side : Unmapping(s) =>
         LET i == xr.order[s].id IN
         i \in Ids /\ ids[i] = xr.level[s].head /\ ids[i] # NULL

\* The command being served may still be linked into the book.
Unlinked ==
    \/ ctl \in {"C_VALIDATE", "C_FAST"}
    \/ mr.op \in {"ENQ", "MODIFY"} /\ mgr \notin {"IDLE", "ENQ_DONE", "ACK"}

\* Orders and the command being served keep the order of their arrival: until
\* the command is linked into the book everything in it is older.
Timely ==
    /\ ctl # "C_IDLE" => cmd.ts = sent
    /\ \A x \in Resting : pool[x].ts <= sent
    /\ Unlinked => \A x \in Resting : pool[x].ts < cmd.ts

\* The host's promise about stale heads still holds when the order is looked up.
NoStaleSplice ==
    LET slot == ids[cmd.id] IN
    (ctl = "C_VALIDATE" \/ (mgr \in {"LU", "LATCH"} /\ mr.op # "QUERY")) =>
        (slot # NULL /\ Splices(cmd, slot) => ~StaleHead(slot))

QuantityGiven == Waiting /\ cmd.type \in {"ADD", "MODIFY"} => cmd.qty > 0

EmptyUntilReady == (Mem!InitDone /\ Bpe!InitDone) \/ BookEmpty

\* Until init_done the stack holds the slots pushed so far, in order.
FilledSoFar == ~Mem!InitDone => free = [n \in 1 .. initCnt - 1 |-> n]

\* The encoder marks only levels that hold orders.
OccupiedAreHeld ==
    Bpe!InitDone => \A s \in Side, l \in Level : l \in occ[s] => lvl[s][l].head # NULL

\* An order was linked and the drain that follows has not finished.
MayCross ==
    \/ ctl = "C_ENQ" /\ (mgr = "ENQ_DONE" \/ resp = EnqResp("OK"))
    \/ ctl = "C_MODIFY" /\ resp = MovedResp
    \/ ctl = "C_DRAIN" /\ mat \notin {"M_IDLE", "M_DONE"}

\* Otherwise the levels the encoder marks do not cross.
Uncrossed ==
    Bpe!InitDone /\ ~MayCross =>
        \A b \in occ["BUY"], a \in occ["SELL"] : b < a

BookInv ==
    /\ Mem!IInv /\ SlotsAccountedFor /\ QueuesAreFifos
    /\ ManagerLatches /\ MatcherLatches /\ Timely /\ NoStaleSplice
    /\ QuantityGiven /\ EmptyUntilReady /\ FilledSoFar
    /\ OccupiedAreHeld /\ Uncrossed

\* An acknowledgement shows what was sampled when the controller reached C_ACK,
\* and nothing has moved since.
AckShows ==
    /\ ctl \in {"C_SETTLE", "C_ACK"} => Mem!InitDone /\ Bpe!InitDone
    /\ ctl = "C_ACK" =>
         /\ ack.n = Mem!NumOrders
         /\ ack.bid = StatusBest("BUY") /\ ack.ask = StatusBest("SELL")

\* It marks all of them, as long as totals fit.
HeldAreOccupied ==
    Bpe!InitDone => \A s \in Side, l \in Level : lvl[s][l].head # NULL => l \in occ[s]
=============================================================================
