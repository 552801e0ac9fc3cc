-------------------------- MODULE BestPriceEncoder --------------------------
(***************************************************************************)
(* hardware/rtl/best_price_encoder.sv: one occupancy bitmap per side and a  *)
(* registered best price per side.  Emptying the best level starts a scan   *)
(* towards worse prices, one level per clock; while it runs the engine may  *)
(* occupy another level of the same side (the reinsertion of a MODIFY).     *)
(*                                                                         *)
(* Edge(in) is one clock edge.  in is the pulse the engine drives in that  *)
(* cycle; the two sides then advance together, each from its own registers  *)
(* and from the bitmap as it was BEFORE the edge.                           *)
(***************************************************************************)
EXTENDS LobPkg

VARIABLES
    occ,        \* occ_bid, occ_ask: the levels marked occupied, per side
    best,       \* best_*_q, best_*_v_q, *_refresh_busy_q, *_scan_idx, per side
    initIdx     \* init_idx; NumLevels stands for init_done

vars == <<occ, best, initIdx>>

BestRec == [idx : Level, valid : BOOLEAN, busy : BOOLEAN, scan : Level]

ResetRegs == [idx |-> 0, valid |-> FALSE, busy |-> FALSE, scan |-> 0]

NoPulse == [op |-> "none"]
SetPulse(s, l) == [op |-> "set", side |-> s, idx |-> l]
ClearPulse(s, l) == [op |-> "clear", side |-> s, idx |-> l]

InitDone == initIdx = NumLevels
Busy(s) == best[s].busy
RefreshBusy == ~InitDone \/ \E s \in Side : Busy(s)

-----------------------------------------------------------------------------
LastLevel(s) == IF s = "BUY" THEN 0 ELSE NumLevels - 1

NextWorse(s, l) ==
    IF l = LastLevel(s) THEN l ELSE IF s = "BUY" THEN l - 1 ELSE l + 1

Hits(in, op, s) == in.op = op /\ in.side = s

Found(r, l) == [r EXCEPT !.idx = l, !.valid = TRUE, !.busy = FALSE]

\* Mutation: a level set exactly at the scan position is left to the scan.
ScanEdgeStrict(s, in) ==
    LET r == best[s]
    IN  IF Hits(in, "set", s) /\ Better(s, in.idx, r.scan)
          THEN Found(r, in.idx)
        ELSE IF r.scan \in occ[s]
          THEN Found(r, r.scan)
        ELSE IF r.scan = LastLevel(s)
          THEN [r EXCEPT !.busy = FALSE]
        ELSE [r EXCEPT !.scan = NextWorse(s, @)]

\* Mutation: the scan does not stop at the last level.
ScanEdgeEndless(s, in) ==
    LET r == best[s]
    IN  IF Hits(in, "set", s) /\ ~Better(s, r.scan, in.idx)
          THEN Found(r, in.idx)
        ELSE IF r.scan \in occ[s]
          THEN Found(r, r.scan)
        ELSE [r EXCEPT !.scan = NextWorse(s, @)]

\* A clock edge of a side whose scan is running.  A level set at or above the
\* scan position is taken at once, a clear is not looked at.
ScanEdge(s, in) ==
    LET r == best[s]
    IN  IF Hits(in, "set", s) /\ ~Better(s, r.scan, in.idx)
          THEN Found(r, in.idx)
        ELSE IF r.scan \in occ[s]
          THEN Found(r, r.scan)
        ELSE IF r.scan = LastLevel(s)
          THEN [r EXCEPT !.busy = FALSE]
        ELSE [r EXCEPT !.scan = NextWorse(s, @)]

\* Mutation: a level is taken only when it beats the register, valid or not.
SettledEdgeNeedsBetter(s, in) ==
    LET r == best[s]
    IN  IF Hits(in, "set", s) /\ Better(s, in.idx, r.idx)
          THEN [r EXCEPT !.idx = in.idx, !.valid = TRUE]
        ELSE IF Hits(in, "clear", s) /\ r.valid /\ in.idx = r.idx
          THEN [r EXCEPT !.busy = TRUE, !.valid = FALSE,
                         !.scan = NextWorse(s, in.idx)]
        ELSE r

\* A clock edge of a settled side.
SettledEdge(s, in) ==
    LET r == best[s]
    IN  IF Hits(in, "set", s) /\ (~r.valid \/ Better(s, in.idx, r.idx))
          THEN [r EXCEPT !.idx = in.idx, !.valid = TRUE]
        ELSE IF Hits(in, "clear", s) /\ r.valid /\ in.idx = r.idx
          THEN [r EXCEPT !.busy = TRUE, !.valid = FALSE,
                         !.scan = NextWorse(s, in.idx)]
        ELSE r

NextOcc(s, in) ==
    IF Hits(in, "set", s) THEN occ[s] \union {in.idx}
    ELSE IF Hits(in, "clear", s) THEN occ[s] \ {in.idx}
    ELSE occ[s]

\* Serialized clearing of the bitmaps after a reset.
InitEdge ==
    /\ ~InitDone
    /\ occ' = [s \in Side |-> occ[s] \ {initIdx}]
    /\ initIdx' = initIdx + 1
    /\ UNCHANGED best

Edge(in) ==
    /\ InitDone
    /\ occ' = [s \in Side |-> NextOcc(s, in)]
    /\ best' = [s \in Side |-> IF Busy(s) THEN ScanEdge(s, in)
                                          ELSE SettledEdge(s, in)]
    /\ UNCHANGED initIdx

\* rst_n low: the registers are cleared, the bitmaps keep their content.
Reset ==
    /\ best' = [s \in Side |-> ResetRegs]
    /\ initIdx' = 0
    /\ UNCHANGED occ

-----------------------------------------------------------------------------
(* The encoder with every engine it may serve.  The engine drives a pulse    *)
(* only after init_done (C_VALIDATE waits for it), at most one per cycle, and *)
(* empties a level of a side only while that side is settled (the matcher     *)
(* waits in M_CHECK and F_CHECK, the controller in C_SETTLE); LobEngine       *)
(* checks that it keeps to that.                                              *)

Init ==
    /\ occ \in [Side -> SUBSET Level]       \* RAM content is not reset
    /\ best = [s \in Side |-> ResetRegs]
    /\ initIdx = 0

SetLevel(s, l) == Edge(SetPulse(s, l))

ClearLevel(s, l) == ~Busy(s) /\ Edge(ClearPulse(s, l))

IdleEdge == Edge(NoPulse)

\* The clock runs: every cycle is an edge, whatever the engine drives in it.
NextEdge ==
    \/ InitEdge
    \/ IdleEdge
    \/ \E s \in Side, l \in Level : SetLevel(s, l) \/ ClearLevel(s, l)

Next == NextEdge \/ Reset

Spec == Init /\ [][Next]_vars

FairSpec == Spec /\ WF_vars(NextEdge)

-----------------------------------------------------------------------------
\* Type invariant.
TypeOK ==
    /\ occ \in [Side -> SUBSET Level]
    /\ best \in [Side -> BestRec]
    /\ initIdx \in 0 .. NumLevels

\* A settled side reports exactly its best occupied level, and reports none
\* exactly when no level is occupied.
SettledIsBest ==
    \A s \in Side : InitDone /\ ~Busy(s) =>
        IF best[s].valid
          THEN /\ best[s].idx \in occ[s]
               /\ \A l \in occ[s] : ~Better(s, l, best[s].idx)
          ELSE occ[s] = {}

\* While a side is scanning it claims no best price, and the scan has not
\* passed an occupied level: nothing better than the scan position is occupied.
ScanMissesNothing ==
    \A s \in Side : InitDone /\ Busy(s) =>
        /\ ~best[s].valid
        /\ \A l \in occ[s] : ~Better(s, l, best[s].scan)

\* Serialized clearing has emptied every level it has visited, so the bitmaps
\* are empty when init_done rises, whatever they held before the reset.
ClearedSoFar ==
    ~InitDone => /\ \A s \in Side : \A l \in occ[s] : l >= initIdx
                 /\ best = [s \in Side |-> ResetRegs]

IInv == TypeOK /\ SettledIsBest /\ ScanMissesNothing /\ ClearedSoFar

\* Every refresh ends: refresh_busy cannot hold the matcher for ever, even
\* when the engine keeps occupying levels behind the scan.
RefreshEnds == \A s \in Side : Busy(s) ~> ~Busy(s)
=============================================================================
