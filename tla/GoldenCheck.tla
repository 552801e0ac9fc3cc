---------------------------- MODULE GoldenCheck ----------------------------
(***************************************************************************)
(* The comparison of hardware/tools/golden_check.py over every command       *)
(* sequence of the instance: the engine's memories, seen between commands,   *)
(* are the price-time book, and each command's trades and acknowledgement    *)
(* are the ones the book gives for it.                                       *)
(*                                                                         *)
(* Two history variables, which the engine never reads, remember the command *)
(* as it was sent (the engine overwrites its quantity when a fast-path tail is *)
(* enqueued) and what could be observed after the last answered command.      *)
(***************************************************************************)
EXTENDS MCLobEngine

VARIABLES
    in,         \* the last command taken
    shown       \* the book, and the last command with its answer

historyVars == <<in, shown>>

\* The slots of a level in FIFO order: from head_ptr along next_ptr.
Queue(s, l) ==
    LET walk[n \in 1 .. MaxOrders] ==
            IF n = 1 THEN lvl[s][l].head
            ELSE LET slot == walk[n - 1]
                 IN  IF slot = NULL THEN NULL ELSE pool[slot].next
        length == Cardinality({n \in 1 .. MaxOrders : walk[n] # NULL})
    IN  [n \in 1 .. length |-> walk[n]]

\* The book the memories hold: walk each level, keep what an order shows.
BookView ==
    [s \in Side |-> [l \in Level |->
        LET q == Queue(s, l)
        IN  [n \in DOMAIN q |-> [id |-> pool[q[n]].id, qty |-> pool[q[n]].qty,
                                 ts |-> pool[q[n]].ts]]]]

Shown == [book |-> BookView, cmd |-> in, trades |-> trades, ack |-> ack]

-----------------------------------------------------------------------------
CheckInit ==
    /\ Init
    /\ in = ZeroCmd
    /\ shown = Shown

Take(c) == Accept(c) /\ in' = c /\ UNCHANGED shown

Work ==
    /\ EngineStep
    /\ in' = in
    /\ shown' = IF ctl' = "C_IDLE" THEN Shown' ELSE shown

CheckNext == (ctl = "C_IDLE" /\ \E c \in Command : Take(c)) \/ Work

CheckSpec == CheckInit /\ [][CheckNext]_<<vars, historyVars>>

-----------------------------------------------------------------------------
AllCommands ==
    [type : MsgType, side : Side, id : Ids, price : HostPrices,
     qty : Qty, ts : 1 .. MaxCommands]

Golden == INSTANCE PriceTimeBook WITH
    book <- shown.book, cmd <- shown.cmd,
    trades <- shown.trades, ack <- shown.ack,
    Command <- AllCommands, Capacity <- MaxOrders - 1

\* The engine implements the price-time-priority book: each command changes the
\* book, trades and is acknowledged exactly as the reference says, whatever path
\* (fast, enqueue and drain, manager) served it and however the encoder's scans
\* fell (golden_check.py compares them on generated streams).
MatchesGolden == Golden!Spec
=============================================================================
