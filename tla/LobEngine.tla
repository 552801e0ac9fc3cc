----------------------------- MODULE LobEngine -----------------------------
(***************************************************************************)
(* hardware/rtl/lob_engine_top.sv: the controller that takes one command at *)
(* a time from the command FIFO and drives the order manager and the matcher *)
(* to a single acknowledgement, composed with both, with the order memory    *)
(* and with the best-price encoder.                                          *)
(*                                                                         *)
(* Manager and matcher never run together; what does run concurrently with   *)
(* them is the initialization of the two memories and the encoder's scans,   *)
(* which interleave with their steps at any speed.                           *)
(***************************************************************************)
EXTENDS OrderManager, Matcher, FiniteSets

CONSTANTS
    FastPathEnable,     \* FAST_PATH_ENABLE
    MaxCommands,        \* bound: commands the host sends
    HostPrices,         \* the prices it uses
    \* What the host may do (BOOLEAN each):
    DuplicateAdds,      \* ADD with the id of a live order
    ForeignSideModify,  \* MODIFY naming the other side than the order's
    SpliceStaleHeads,   \* remove or move an order at the head of its level
                        \* whose prev_ptr still names a consumed slot
    WarmReset           \* when rst_n may fall again after power-up

ASSUME BoundAssumption ==
    MaxCommands \in Nat /\ HostPrices \subseteq 0 .. NumLevels
ASSUME HostAssumption ==
    /\ {FastPathEnable, DuplicateAdds, ForeignSideModify, SpliceStaleHeads,
        WindowFull} \subseteq BOOLEAN
    /\ WarmReset \in {"never", "book empty", "any time"}

VARIABLES
    ctl,        \* state of the controller
    ack,        \* ack_q
    sent        \* commands accepted so far: the host's clock

ctlVars == <<ctl, cmd, ack, sent>>
vars == <<memVars, bpeVars, lvl, ids, resp, trades, mgrVars, matVars, ctlVars>>

CtlState == {"C_IDLE", "C_VALIDATE", "C_FAST", "C_ENQ", "C_MGR", "C_MODIFY",
             "C_DRAIN", "C_QUERY", "C_SETTLE", "C_ACK"}

AckRec == [status : AckStatus, id : Ids \union {NoId}, rem : Qty,
           bid : Level, ask : Level, n : Int]

ZeroCmd == [type |-> "ADD", side |-> "BUY", id |-> NoId, price |-> 0,
            qty |-> 0, ts |-> 0]
ZeroAck == [status |-> "OK", id |-> NoId, rem |-> 0, bid |-> 0, ask |-> 0,
            n |-> 0]

AckOf(status, rem) ==
    [status |-> status, id |-> cmd.id, rem |-> rem, bid |-> StatusBest("BUY"),
     ask |-> StatusBest("SELL"), n |-> Mem!NumOrders]

-----------------------------------------------------------------------------
(* The host.                                                                 *)

\* An order that became the head of its level because the one before it was
\* filled: its prev_ptr still names the freed slot.
StaleHead(slot) ==
    LET o == pool[slot] IN
    o.prev # NULL /\ lvl[o.side][o.price].head = slot

\* The command would splice the order out of its level.
Splices(c, slot) ==
    \/ c.type = "CANCEL"
    \/ c.type = "MODIFY" /\ c.price # pool[slot].price
    \/ c.type = "EXECUTE" /\ c.qty = pool[slot].qty

HostMay(c) ==
    LET slot == ids[c.id] IN
    slot # NULL =>
        /\ c.type = "ADD" => DuplicateAdds
        /\ c.type = "MODIFY" /\ c.side # pool[slot].side => ForeignSideModify
        /\ Splices(c, slot) /\ StaleHead(slot) => SpliceStaleHeads

\* Timestamps are strictly increasing.  Fields the engine does not read are
\* sent with one value.
AnyPrice == CHOOSE p \in HostPrices : TRUE

Command ==
    {c \in [type : MsgType, side : Side, id : Ids, price : HostPrices,
            qty : Qty, ts : {sent + 1}] :
        /\ c.type \in {"CANCEL", "EXECUTE"} => c.side = "BUY" /\ c.price = AnyPrice
        /\ c.type = "CANCEL" => c.qty = 0}

-----------------------------------------------------------------------------
(* The controller.                                                           *)

NoStart == UNCHANGED <<mgrVars, matVars>>

\* C_IDLE with a command in the FIFO.
Accept(c) ==
    /\ ctl = "C_IDLE" /\ sent < MaxCommands
    /\ HostMay(c)
    /\ ctl' = "C_VALIDATE"
    /\ cmd' = c
    /\ sent' = c.ts
    /\ trades' = <<>>
    /\ NoStart
    /\ UNCHANGED <<memVars, bpeVars, lvl, ids, resp, ack>>

BadField ==
    cmd.type \in {"ADD", "MODIFY"} /\ (cmd.qty = 0 \/ ~PriceInRange(cmd.price))

\* Mutation: no free slot is asked for.
FastCrossWhenFull ==
    /\ FastPathEnable /\ cmd.type = "ADD"
    /\ ~Bpe!RefreshBusy
    /\ FastCrosses

FastCross ==
    /\ FastPathEnable /\ cmd.type = "ADD"
    /\ ~Bpe!RefreshBusy /\ ~Mem!FreeEmpty
    /\ FastCrosses

Validating == ctl = "C_VALIDATE" /\ Mem!InitDone /\ Bpe!InitDone

ValidateReject ==
    /\ Validating /\ BadField
    /\ ctl' = "C_ACK"
    /\ ack' = AckOf("BAD_FIELD", 0)
    /\ NoStart
    /\ UNCHANGED <<memVars, bpeVars, lvl, ids, resp, trades, cmd, sent>>

ValidateFast ==
    /\ Validating /\ ~BadField /\ FastCross
    /\ ctl' = "C_FAST"
    /\ MatStart("F_CHECK", cmd.qty)
    /\ UNCHANGED <<memVars, bpeVars, lvl, ids, resp, trades, mgrVars,
                   cmd, ack, sent>>

ValidateManager ==
    /\ Validating /\ ~BadField /\ ~FastCross
    /\ ctl' = CASE cmd.type = "ADD"    -> "C_ENQ"
                [] cmd.type = "MODIFY" -> "C_MODIFY"
                [] OTHER               -> "C_MGR"
    /\ MgrStart(IF cmd.type = "ADD" THEN "ENQ" ELSE cmd.type)
    /\ UNCHANGED <<memVars, bpeVars, lvl, ids, resp, trades, matVars,
                   cmd, ack, sent>>

\* Mutation: the completion is a level that stays, not a pulse.
HearsLevel(states, kind) ==
    /\ ctl \in states /\ resp.kind = kind
    /\ UNCHANGED <<memVars, bpeVars, lvl, ids, resp, trades, sent>>

\* A completion pulse of the given kind arrives in one of the given states.
Hears(states, kind) ==
    /\ ctl \in states /\ resp.kind = kind
    /\ resp' = NoResp
    /\ UNCHANGED <<memVars, bpeVars, lvl, ids, trades, sent>>

\* The fast path consumed the whole ADD.
FastFilled ==
    /\ Hears({"C_FAST"}, "match") /\ resp.qty = 0
    /\ ctl' = "C_SETTLE"
    /\ ack' = AckOf("OK", 0)
    /\ NoStart
    /\ UNCHANGED cmd

\* Its unfilled tail becomes an ordinary ADD.
FastRemainder ==
    /\ Hears({"C_FAST"}, "match") /\ resp.qty # 0
    /\ ctl' = "C_ENQ"
    /\ cmd' = [cmd EXCEPT !.qty = resp.qty]
    /\ MgrStart("ENQ")
    /\ UNCHANGED <<matVars, ack>>

EnqRejected ==
    /\ Hears({"C_ENQ"}, "enq") /\ resp.status # "OK"
    /\ ctl' = "C_ACK"
    /\ ack' = AckOf(resp.status, 0)
    /\ NoStart
    /\ UNCHANGED cmd

StartDrain ==
    /\ ctl' = "C_DRAIN"
    /\ MatStart("M_CHECK", 0)
    /\ UNCHANGED <<mgrVars, cmd, ack>>

Enqueued == Hears({"C_ENQ"}, "enq") /\ resp.status = "OK" /\ StartDrain

Moved == Hears({"C_MODIFY"}, "moved") /\ StartDrain

MgrAcked ==
    /\ Hears({"C_MGR", "C_MODIFY"}, "ack")
    /\ ctl' = "C_SETTLE"
    /\ ack' = AckOf(resp.status, resp.qty)
    /\ NoStart
    /\ UNCHANGED cmd

Drained ==
    /\ Hears({"C_DRAIN"}, "match")
    /\ ctl' = "C_QUERY"
    /\ MgrStart("QUERY")
    /\ UNCHANGED <<matVars, cmd, ack>>

Queried ==
    /\ Hears({"C_QUERY"}, "query")
    /\ ctl' = "C_ACK"
    /\ ack' = AckOf("OK", resp.qty)
    /\ NoStart
    /\ UNCHANGED cmd

\* Mutation: the scan is not waited for.
SettleAtOnce ==
    /\ ctl = "C_SETTLE"
    /\ ctl' = "C_ACK"
    /\ ack' = AckOf(ack.status, ack.rem)
    /\ NoStart
    /\ UNCHANGED <<memVars, bpeVars, lvl, ids, resp, trades, cmd, sent>>

\* C_SETTLE: the prices and the count are sampled again once no scan runs.
Settle ==
    /\ ctl = "C_SETTLE" /\ ~Bpe!RefreshBusy
    /\ ctl' = "C_ACK"
    /\ ack' = AckOf(ack.status, ack.rem)
    /\ NoStart
    /\ UNCHANGED <<memVars, bpeVars, lvl, ids, resp, trades, cmd, sent>>

\* C_ACK: the acknowledgement enters its FIFO.
SendAck ==
    /\ ctl = "C_ACK"
    /\ ctl' = "C_IDLE"
    /\ NoStart
    /\ UNCHANGED <<memVars, bpeVars, lvl, ids, resp, trades, cmd, ack, sent>>

CtlStep ==
    \/ ValidateReject \/ ValidateFast \/ ValidateManager
    \/ FastFilled \/ FastRemainder \/ EnqRejected \/ Enqueued
    \/ MgrAcked \/ Moved \/ Drained \/ Queried \/ Settle \/ SendAck

-----------------------------------------------------------------------------
(* The clock edges that no FSM decides.                                      *)

Others == <<lvl, ids, resp, trades, mgrVars, matVars, ctlVars>>

MemInit == Mem!InitEdge /\ UNCHANGED <<bpeVars, Others>>

EncoderInit == Bpe!InitEdge /\ UNCHANGED <<memVars, Others>>

Scan ==
    /\ Bpe!RefreshBusy /\ Bpe!IdleEdge
    /\ UNCHANGED <<memVars, Others>>

Background == MemInit \/ EncoderInit \/ Scan

\* The memories that no reset clears hold nothing.
BookEmpty ==
    /\ \A s \in Side, l \in Level : lvl[s][l] = ZeroLevel
    /\ \A i \in Ids : ids[i] = NULL

\* rst_n: every register and both initialization FSMs restart; the pool, the
\* level tables, the id table and the bitmaps keep their content.
Reset ==
    /\ \/ WarmReset = "any time"
       \/ WarmReset = "book empty" /\ BookEmpty
    /\ Mem!Reset /\ Bpe!Reset
    /\ ctl' = "C_IDLE" /\ cmd' = ZeroCmd /\ ack' = ZeroAck
    /\ mgr' = "IDLE" /\ mr' = ZeroRegs
    /\ mat' = "M_IDLE" /\ xr' = ZeroMatRegs
    /\ resp' = NoResp /\ trades' = <<>>
    /\ UNCHANGED <<lvl, ids, sent>>

-----------------------------------------------------------------------------
Init ==
    /\ Mem!Init
    /\ occ = [s \in Side |-> {}] /\ initIdx = 0
    /\ best = [s \in Side |-> Bpe!ResetRegs]
    /\ lvl = [s \in Side |-> [l \in Level |-> ZeroLevel]]
    /\ ids = [i \in Ids |-> NULL]
    /\ ctl = "C_IDLE" /\ cmd = ZeroCmd /\ ack = ZeroAck /\ sent = 0
    /\ mgr = "IDLE" /\ mr = ZeroRegs
    /\ mat = "M_IDLE" /\ xr = ZeroMatRegs
    /\ resp = NoResp /\ trades = <<>>

\* The hardware's own steps, as opposed to the host's and the reset button's.
EngineStep ==
    \/ CtlStep
    \/ MgrStep /\ UNCHANGED <<matVars, ctlVars>>
    \/ MatStep /\ UNCHANGED <<mgrVars, ctlVars>>
    \/ Background

Next ==
    \/ ctl = "C_IDLE" /\ \E c \in Command : Accept(c)
    \/ EngineStep
    \/ Reset

Spec == Init /\ [][Next]_vars

\* The FSMs and the encoder are clocked; the host need not send.
FairSpec == Spec /\ WF_vars(EngineStep)
=============================================================================
