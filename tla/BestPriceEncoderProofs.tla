----------------------- MODULE BestPriceEncoderProofs -----------------------
(***************************************************************************)
(* Proofs about BestPriceEncoder for every number of price levels.          *)
(***************************************************************************)
EXTENDS BestPriceEncoder, TLAPS

USE NumLevelsAssumption DEF Level, Side, InitDone, Busy

\* The engine's pulses, as the encoder sees them.
Pulse == {NoPulse} \union {SetPulse(s, l) : s \in Side, l \in Level}
                   \union {ClearPulse(s, l) : s \in Side, l \in Level}

\* Stepping towards worse prices stays in range.
LEMMA NextWorseInRange ==
    ASSUME NEW s \in Side, NEW l \in Level
    PROVE  NextWorse(s, l) \in Level
BY DEF NextWorse, LastLevel

\* One edge keeps the registers of a side well typed.
LEMMA EdgeTyped ==
    ASSUME TypeOK, NEW s \in Side, NEW in \in Pulse
    PROVE  /\ ScanEdge(s, in) \in BestRec
           /\ SettledEdge(s, in) \in BestRec
           /\ NextOcc(s, in) \in SUBSET Level
<1>1. best[s] \in BestRec /\ occ[s] \in SUBSET Level
  BY DEF TypeOK
<1>2. in.op \in {"set", "clear"} => in.idx \in Level
  BY DEF Pulse, NoPulse, SetPulse, ClearPulse
<1>3. NextWorse(s, best[s].scan) \in Level
  BY <1>1, NextWorseInRange DEF BestRec
<1>4. in.op = "clear" => NextWorse(s, in.idx) \in Level
  BY <1>2, NextWorseInRange
<1>5. ScanEdge(s, in) \in BestRec
  BY <1>1, <1>2, <1>3 DEF ScanEdge, BestRec, Found, Hits
<1>6. SettledEdge(s, in) \in BestRec
  BY <1>1, <1>2, <1>4 DEF SettledEdge, BestRec, Hits
<1>7. NextOcc(s, in) \in SUBSET Level
  BY <1>1, <1>2 DEF NextOcc, Hits
<1> QED BY <1>5, <1>6, <1>7

\* TypeOK is inductive for one edge.
LEMMA TypeEdge ==
    ASSUME TypeOK, NEW in \in Pulse, Edge(in)
    PROVE  TypeOK'
BY EdgeTyped DEF TypeOK, Edge

\* The pulses of the actions are pulses.
LEMMA PulseTyped ==
    /\ NoPulse \in Pulse
    /\ \A s \in Side, l \in Level : /\ SetPulse(s, l) \in Pulse
                                    /\ ClearPulse(s, l) \in Pulse
BY DEF Pulse

\* The encoder's steps keep the types.
LEMMA TypeInductive == TypeOK /\ [Next]_vars => TypeOK'
<1> SUFFICES ASSUME TypeOK, [Next]_vars PROVE TypeOK'
  OBVIOUS
<1>1. CASE InitEdge
  BY <1>1 DEF InitEdge, TypeOK
<1>2. CASE IdleEdge
  BY <1>2, TypeEdge, PulseTyped DEF IdleEdge
<1>3. ASSUME NEW s \in Side, NEW l \in Level, SetLevel(s, l)
      PROVE  TypeOK'
  BY <1>3, TypeEdge, PulseTyped DEF SetLevel
<1>4. ASSUME NEW s \in Side, NEW l \in Level, ClearLevel(s, l)
      PROVE  TypeOK'
  BY <1>4, TypeEdge, PulseTyped DEF ClearLevel
<1>5. CASE Reset
  BY <1>5 DEF Reset, TypeOK, ResetRegs, BestRec
<1>6. CASE UNCHANGED vars
  BY <1>6 DEF vars, TypeOK
<1> QED BY <1>1, <1>2, <1>3, <1>4, <1>5, <1>6 DEF Next, NextEdge

\* The encoder's registers and bitmaps keep their types.
THEOREM TypeCorrect == Spec => []TypeOK
<1>1. Init => TypeOK
  BY DEF Init, TypeOK, ResetRegs, BestRec
<1> QED BY <1>1, TypeInductive, PTL DEF Spec

-----------------------------------------------------------------------------
\* What the encoder promises about one side, as one predicate of that side's
\* bitmap o and registers r.
SideInv(s, o, r) ==
    IF r.busy
      THEN ~r.valid /\ \A l \in o : ~Better(s, l, r.scan)
    ELSE IF r.valid
      THEN r.idx \in o /\ \A l \in o : ~Better(s, l, r.idx)
    ELSE o = {}

\* The invariant of the module, side by side.
LEMMA SideByside ==
    ASSUME TypeOK, InitDone
    PROVE  SettledIsBest /\ ScanMissesNothing
             <=> \A s \in Side : SideInv(s, occ[s], best[s])
BY DEF SettledIsBest, ScanMissesNothing, SideInv

\* What is no better than l, once l itself is ruled out, is no better than
\* the level the scan moves to; nothing is left at the last level.
LEMMA ScanStep ==
    ASSUME NEW s \in Side, NEW l \in Level, NEW k \in Level,
           ~Better(s, k, l), k # l
    PROVE  l # LastLevel(s) /\ ~Better(s, k, NextWorse(s, l))
BY DEF Better, NextWorse, LastLevel

\* A running scan keeps the promise across one edge, whatever level the
\* engine occupies meanwhile; no level of the side is emptied.
LEMMA ScanEdgeKeeps ==
    ASSUME TypeOK, NEW s \in Side, NEW in \in Pulse,
           Busy(s), SideInv(s, occ[s], best[s]), ~Hits(in, "clear", s)
    PROVE  SideInv(s, NextOcc(s, in), ScanEdge(s, in))
<1> DEFINE r == best[s]
           o == occ[s]
<1>1. r \in BestRec /\ o \in SUBSET Level /\ r.busy /\ ~r.valid
  BY DEF TypeOK, SideInv
<1>2. \A l \in o : ~Better(s, l, r.scan)
  BY <1>1 DEF SideInv
<1>3. NextOcc(s, in) = IF Hits(in, "set", s) THEN o \union {in.idx} ELSE o
  BY DEF NextOcc
<1>4. Hits(in, "set", s) => in.idx \in Level
  BY DEF Hits, Pulse, NoPulse, SetPulse, ClearPulse
<1>5. CASE Hits(in, "set", s) /\ ~Better(s, r.scan, in.idx)
  <2>1. ScanEdge(s, in) = Found(r, in.idx)
    BY <1>5 DEF ScanEdge
  <2>2. \A l \in o : ~Better(s, l, in.idx)
    BY <1>1, <1>2, <1>4, <1>5 DEF Better, BestRec
  <2> QED BY <1>1, <1>3, <1>4, <1>5, <2>1, <2>2
          DEF SideInv, Found, BestRec, Better
<1>6. CASE ~(Hits(in, "set", s) /\ ~Better(s, r.scan, in.idx)) /\ r.scan \in o
  <2>1. ScanEdge(s, in) = Found(r, r.scan)
    BY <1>6 DEF ScanEdge
  <2>2. \A l \in NextOcc(s, in) : ~Better(s, l, r.scan)
    BY <1>1, <1>2, <1>3, <1>4, <1>6 DEF Better, BestRec
  <2> QED BY <1>1, <1>3, <1>6, <2>1, <2>2 DEF SideInv, Found, BestRec
<1>7. CASE ~(Hits(in, "set", s) /\ ~Better(s, r.scan, in.idx)) /\ r.scan \notin o
  <2>1. \A l \in NextOcc(s, in) : ~Better(s, l, r.scan) /\ l # r.scan
    BY <1>1, <1>2, <1>3, <1>4, <1>7 DEF Better, BestRec
  <2>2. NextOcc(s, in) \in SUBSET Level
    BY <1>1, <1>3, <1>4
  <2>3. \A l \in NextOcc(s, in) :
           r.scan # LastLevel(s) /\ ~Better(s, l, NextWorse(s, r.scan))
    BY <1>1, <2>1, <2>2, ScanStep DEF BestRec
  <2>4. CASE r.scan = LastLevel(s)
    <3>1. ScanEdge(s, in) = [r EXCEPT !.busy = FALSE]
      BY <1>7, <2>4 DEF ScanEdge
    <3>2. NextOcc(s, in) = {}
      BY <2>3, <2>4
    <3> QED BY <1>1, <3>1, <3>2 DEF SideInv, BestRec
  <2>5. CASE r.scan # LastLevel(s)
    <3>1. ScanEdge(s, in) = [r EXCEPT !.scan = NextWorse(s, @)]
      BY <1>7, <2>5 DEF ScanEdge
    <3> QED BY <1>1, <2>3, <3>1 DEF SideInv, BestRec
  <2> QED BY <2>4, <2>5
<1> QED BY <1>5, <1>6, <1>7

\* A settled side keeps the promise across one edge.
LEMMA SettledEdgeKeeps ==
    ASSUME TypeOK, NEW s \in Side, NEW in \in Pulse,
           ~Busy(s), SideInv(s, occ[s], best[s])
    PROVE  SideInv(s, NextOcc(s, in), SettledEdge(s, in))
<1> DEFINE r == best[s]
           o == occ[s]
<1>1. r \in BestRec /\ o \in SUBSET Level /\ ~r.busy
  BY DEF TypeOK
<1>2. IF r.valid THEN r.idx \in o /\ \A l \in o : ~Better(s, l, r.idx)
                 ELSE o = {}
  BY <1>1 DEF SideInv
<1>3. in.op \in {"set", "clear"} => in.idx \in Level
  BY DEF Pulse, NoPulse, SetPulse, ClearPulse
<1>4. CASE Hits(in, "set", s)
  <2>1. NextOcc(s, in) = o \union {in.idx} /\ in.idx \in Level
    BY <1>3, <1>4 DEF NextOcc, Hits
  <2>2. CASE ~r.valid \/ Better(s, in.idx, r.idx)
    <3>1. SettledEdge(s, in) = [r EXCEPT !.idx = in.idx, !.valid = TRUE]
      BY <1>4, <2>2 DEF SettledEdge
    <3>2. \A l \in o \union {in.idx} : ~Better(s, l, in.idx)
      BY <1>1, <1>2, <2>1, <2>2 DEF Better, BestRec
    <3> QED BY <1>1, <2>1, <3>1, <3>2 DEF SideInv, BestRec
  <2>3. CASE r.valid /\ ~Better(s, in.idx, r.idx)
    <3>1. SettledEdge(s, in) = r
      BY <1>4, <2>3 DEF SettledEdge, Hits
    <3> QED BY <1>1, <1>2, <2>1, <2>3, <3>1 DEF SideInv
  <2> QED BY <1>1, <2>2, <2>3 DEF BestRec
<1>5. CASE Hits(in, "clear", s)
  <2>1. NextOcc(s, in) = o \ {in.idx} /\ in.idx \in Level
    BY <1>3, <1>5 DEF NextOcc, Hits
  <2>2. CASE r.valid /\ in.idx = r.idx
    <3>1. SettledEdge(s, in) =
            [r EXCEPT !.busy = TRUE, !.valid = FALSE,
                      !.scan = NextWorse(s, in.idx)]
      BY <1>5, <2>2 DEF SettledEdge, Hits
    <3>2. \A l \in o \ {in.idx} : ~Better(s, l, NextWorse(s, in.idx))
      BY <1>1, <1>2, <2>1, <2>2, ScanStep
    <3> QED BY <1>1, <2>1, <3>1, <3>2 DEF SideInv, BestRec
  <2>3. CASE ~(r.valid /\ in.idx = r.idx)
    <3>1. SettledEdge(s, in) = r
      BY <1>5, <2>3 DEF SettledEdge, Hits
    <3> QED BY <1>1, <1>2, <2>1, <2>3, <3>1 DEF SideInv
  <2> QED BY <2>2, <2>3
<1>6. CASE ~Hits(in, "set", s) /\ ~Hits(in, "clear", s)
  <2>1. SettledEdge(s, in) = r /\ NextOcc(s, in) = o
    BY <1>6 DEF SettledEdge, NextOcc
  <2> QED BY <2>1
<1> QED BY <1>4, <1>5, <1>6

-----------------------------------------------------------------------------
\* The promise of both sides survives an edge that empties no level of a
\* scanning side: what ClearLevel's guard asks of the engine.
LEMMA EdgeKeeps ==
    ASSUME IInv, NEW in \in Pulse, Edge(in),
           \A s \in Side : Busy(s) => ~Hits(in, "clear", s)
    PROVE  IInv'
<1>1. TypeOK'
  BY TypeEdge DEF IInv
<1>2. \A s \in Side : SideInv(s, occ[s], best[s])
  BY SideByside DEF IInv, Edge
<1>3. ASSUME NEW s \in Side
      PROVE  SideInv(s, occ'[s], best'[s])
  <2>1. CASE Busy(s)
    BY <1>2, <2>1, ScanEdgeKeeps DEF IInv, Edge
  <2>2. CASE ~Busy(s)
    BY <1>2, <2>2, SettledEdgeKeeps DEF IInv, Edge
  <2> QED BY <2>1, <2>2
<1>4. InitDone'
  BY DEF Edge
<1>5. (SettledIsBest /\ ScanMissesNothing)'
  BY <1>1, <1>3, <1>4 DEF SettledIsBest, ScanMissesNothing, SideInv
<1>6. ClearedSoFar'
  BY <1>4 DEF ClearedSoFar
<1> QED BY <1>1, <1>5, <1>6 DEF IInv

\* The whole invariant is inductive.
LEMMA InvInductive == IInv /\ [Next]_vars => IInv'
<1> SUFFICES ASSUME IInv, [Next]_vars PROVE IInv'
  OBVIOUS
<1>1. CASE InitEdge
  <2>1. TypeOK'
    BY <1>1 DEF InitEdge, IInv, TypeOK
  <2>2. \A s \in Side : \A l \in occ'[s] : l \in Level /\ l >= initIdx'
    BY <1>1 DEF InitEdge, IInv, TypeOK, ClearedSoFar
  <2>3. best' = [s \in Side |-> ResetRegs]
    BY <1>1 DEF InitEdge, IInv, ClearedSoFar
  <2>4. InitDone' => \A s \in Side : occ'[s] = {}
    BY <2>1, <2>2 DEF TypeOK
  <2> QED BY <2>1, <2>2, <2>3, <2>4
      DEF IInv, SettledIsBest, ScanMissesNothing, ClearedSoFar, ResetRegs
<1>2. CASE IdleEdge
  BY <1>2, EdgeKeeps, PulseTyped DEF IdleEdge, Hits, NoPulse
<1>3. ASSUME NEW s \in Side, NEW l \in Level, SetLevel(s, l)
      PROVE  IInv'
  <2>1. \A t \in Side : ~Hits(SetPulse(s, l), "clear", t)
    BY DEF Hits, SetPulse
  <2> QED BY <1>3, <2>1, EdgeKeeps, PulseTyped DEF SetLevel
<1>4. ASSUME NEW s \in Side, NEW l \in Level, ClearLevel(s, l)
      PROVE  IInv'
  <2>1. \A t \in Side : Busy(t) => ~Hits(ClearPulse(s, l), "clear", t)
    BY <1>4 DEF Hits, ClearPulse, ClearLevel
  <2> QED BY <1>4, <2>1, EdgeKeeps, PulseTyped DEF ClearLevel
<1>5. CASE Reset
  BY <1>5 DEF Reset, IInv, TypeOK, ResetRegs, BestRec, SettledIsBest,
              ScanMissesNothing, ClearedSoFar
<1>6. CASE UNCHANGED vars
  BY <1>6 DEF vars, IInv, TypeOK, SettledIsBest, ScanMissesNothing,
              ClearedSoFar
<1> QED BY <1>1, <1>2, <1>3, <1>4, <1>5, <1>6 DEF Next, NextEdge

\* The strengthened invariant holds in every reachable state.
LEMMA InvAlways == Spec => []IInv
<1>1. Init => IInv
  BY DEF Init, IInv, TypeOK, ResetRegs, BestRec, SettledIsBest,
         ScanMissesNothing, ClearedSoFar
<1> QED BY <1>1, InvInductive, PTL DEF Spec

\* A settled encoder reports the best occupied level of each side, for every
\* number of levels and every interleaving of scans and set pulses.
THEOREM BestIsExact == Spec => []SettledIsBest
BY InvAlways, PTL DEF IInv

\* A running scan has passed no occupied level.
THEOREM ScanIsComplete == Spec => []ScanMissesNothing
BY InvAlways, PTL DEF IInv

\* The serialized clearing leaves nothing behind.
THEOREM ResetIsComplete == Spec => []ClearedSoFar
BY InvAlways, PTL DEF IInv
=============================================================================
