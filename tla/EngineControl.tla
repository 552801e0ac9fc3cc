--------------------------- MODULE EngineControl ---------------------------
(***************************************************************************)
(* What the control of the engine guarantees, whatever the book holds: who   *)
(* works in which state of the controller, where an encoder scan may still be *)
(* running, and that the encoder is therefore driven only as its own          *)
(* specification allows.                                                     *)
(***************************************************************************)
EXTENDS LobEngine

\* The states in which the controller waits for a completion pulse, and the
\* commands for which it gets there.
Waiting == ctl \in {"C_FAST", "C_ENQ", "C_MGR", "C_MODIFY", "C_DRAIN", "C_QUERY"}

CommandsOf(c) == CASE c \in {"C_FAST", "C_ENQ"}    -> {"ADD"}
                   [] c = "C_MODIFY"               -> {"MODIFY"}
                   [] c = "C_MGR"                  -> {"CANCEL", "EXECUTE"}
                   [] c \in {"C_DRAIN", "C_QUERY"} -> {"ADD", "MODIFY"}

\* The pulses it listens for there.
PulsesOf(c) == CASE c = "C_ENQ"                 -> {"enq"}
                 [] c = "C_MGR"                 -> {"ack"}
                 [] c = "C_MODIFY"              -> {"ack", "moved"}
                 [] c = "C_QUERY"               -> {"query"}
                 [] c \in {"C_FAST", "C_DRAIN"} -> {"match"}

\* The states in which the manager serves an operation, and where the
\* controller waits for it.
Splicing == {"LU", "LATCH", "CAN_BEGIN", "SP_WR_NEXT", "SP_WR_NEXT2", "ACK"}
Linking == {"LVL_READ", "WR_EMPTY", "TAIL", "TAIL2"}
Deleting == {"DEL_HASH", "DEL_COMMIT"}

StatesOf(op) ==
    CASE op = "ENQ"     -> Linking \union {"ENQ_GET_SLOT", "ENQ_HASH",
                                           "ENQ_ROLLBACK", "ENQ_DONE"}
      [] op = "CANCEL"  -> Splicing \union Deleting
      [] op = "MODIFY"  -> Splicing \union Linking \union {"MOD_QTY_WR", "RE_LVL"}
      [] op = "EXECUTE" -> Splicing \union Deleting
                                    \union {"EX_PARTIAL", "EX_TRADE"}
      [] op = "QUERY"   -> {"LU", "LATCH"}

CallerOf(op) == CASE op = "ENQ"                   -> "C_ENQ"
                  [] op = "QUERY"                 -> "C_QUERY"
                  [] op = "MODIFY"                -> "C_MODIFY"
                  [] op \in {"CANCEL", "EXECUTE"} -> "C_MGR"

FastStates == {"F_CHECK", "F_TRADE", "F_UPDATE", "F_HASH", "M_DONE"}
DrainStates == {"M_CHECK", "M_TRADE", "M_UPD_BID", "M_HASH_BID", "M_UPD_ASK",
                "M_HASH_ASK", "M_DONE"}

ManagerAtWork ==
    /\ mgr \in StatesOf(mr.op) /\ ctl = CallerOf(mr.op)
    /\ mr.op \notin {"ENQ", "QUERY"} => mr.op = cmd.type
    /\ mat = "M_IDLE" /\ resp = NoResp

MatcherAtWork ==
    /\ \/ ctl = "C_FAST" /\ mat \in FastStates
       \/ ctl = "C_DRAIN" /\ mat \in DrainStates
    /\ mgr = "IDLE" /\ resp = NoResp

AtRest == mgr = "IDLE" /\ mat = "M_IDLE"

-----------------------------------------------------------------------------
MemoryTypeOK ==
    /\ pool \in [Slot -> OrderRec]
    /\ free \in Seq(Slot) /\ initCnt \in 1 .. MaxOrders
    /\ lvl \in [Side -> [Level -> LevelRec]]
    /\ ids \in [Ids -> Slot]

ManagerTypeOK == mgr \in MgrState /\ mr \in MgrRegs

MatcherTypeOK == mat \in MatState /\ xr \in MatRegs

ControlTypeOK ==
    /\ ctl \in CtlState /\ cmd \in CmdRec \union {ZeroCmd}
    /\ resp \in Resp /\ trades \in Seq(TradeRec)
    /\ ack \in AckRec /\ sent \in 0 .. MaxCommands

\* Type invariant.
TypeOK ==
    Bpe!TypeOK /\ MemoryTypeOK /\ ManagerTypeOK /\ MatcherTypeOK /\ ControlTypeOK

\* Exactly one party acts for the controller.  While it waits, either the
\* manager works on the operation it was started for, or the matcher does, or
\* both rest and the pulse that is pending is one the controller hears in that
\* state: no pulse is lost and none comes from a run that nobody asked for.
\* Otherwise both rest and no pulse is pending.
OneAtATime ==
    IF Waiting
      THEN ManagerAtWork \/ MatcherAtWork
             \/ (AtRest /\ resp.kind \in PulsesOf(ctl))
      ELSE AtRest /\ resp = NoResp

\* Manager and matcher only ever run for a command that was validated after
\* both memories were initialized.
ValidatedFirst ==
    /\ ctl # "C_IDLE" => cmd \in CmdRec
    /\ Waiting => /\ Mem!InitDone /\ Bpe!InitDone
                  /\ cmd.type \in CommandsOf(ctl)
                  /\ cmd.type \in {"ADD", "MODIFY"} => cmd.price \in Level

\* Where a scan of side s may still be running: after the manager's or the
\* matcher's own clear, up to the state that waits for it.
MayScan(s) ==
    \/ ctl = "C_SETTLE"
    \/ /\ ctl \in {"C_MGR", "C_MODIFY"}
       /\ mgr \in {"IDLE", "SP_WR_NEXT2", "RE_LVL", "EX_TRADE", "ACK"}
                     \union Deleting \union Linking
    \/ /\ ctl = "C_DRAIN"
       /\ \/ mat \in {"M_CHECK", "M_HASH_ASK"}
          \/ s = "BUY" /\ mat \in {"M_HASH_BID", "M_UPD_ASK"}
    \/ ctl = "C_FAST" /\ s = Passive /\ mat \in {"F_CHECK", "F_HASH"}

\* Nobody relies on a best price that is being looked for: a scan runs only in
\* states that neither address a level by the encoder, nor compare its prices,
\* nor show them.
SettledWhenUsed == \A s \in Side : Bpe!Busy(s) => MayScan(s)

\* The engine drives the encoder as the encoder's specification allows: at most
\* one pulse per edge, none before init_done, and no clear of a side whose scan
\* is running, which the encoder would drop.
EncoderContract == Bpe!Spec
=============================================================================
