------------------------ MODULE TradeGeneratorProofs ------------------------
(***************************************************************************)
(* The trade path, for every depth of its FIFOs, every set of order ids and *)
(* any number of trades.  First the ring of fifo_queue: it is a queue.  Then *)
(* the generator: the reports sent, in the egress and in the FIFO are one    *)
(* sequence (Stream), and every report called for is in it, arrives at it or *)
(* is a seller's that a nearly full FIFO has lost.  Last the race of reports *)
(* and acknowledgements, from the cycles a producer works between two offers.*)
(***************************************************************************)
EXTENDS TradeGenerator, FiniteSetTheorems, SequenceTheorems, TLAPS

\* Pointers stay in the ring.
LEMMA WrapInRing ==
    ASSUME NEW i \in Place, NEW j \in 0 .. Depth
    PROVE  Wrap(i + j) \in Place
  BY DepthAssumption DEF Place, Wrap

\* Stepping a pointer and then going on is going one further.
LEMMA WrapStep ==
    ASSUME NEW i \in Place, NEW j \in 0 .. Depth - 1
    PROVE  Wrap(Wrap(i + 1) + j) = Wrap(i + (j + 1))
  BY DepthAssumption DEF Place, Wrap

\* Fewer than Depth places apart are different places.
LEMMA WrapInjective ==
    ASSUME NEW i \in Place, NEW j \in 0 .. Depth - 1, NEW k \in 0 .. Depth - 1,
           j # k
    PROVE  Wrap(i + j) # Wrap(i + k)
  BY DepthAssumption DEF Place, Wrap

\* The contents of a good FIFO are a sequence of words.
LEMMA ContentsAreWords ==
    ASSUME NEW W, NEW q, FifoOK(q, W)
    PROVE  /\ Contents(q) \in Seq(W)
           /\ Len(Contents(q)) = q.cnt
           /\ \A n \in 1 .. q.cnt : <<Contents(q)[n]>> = q.mem[Wrap(q.rd + (n - 1))]
<1>1. q.cnt \in Nat /\ q.cnt <= Depth /\ q.rd \in Place
  BY DepthAssumption DEF FifoOK, Place
<1>2. ASSUME NEW n \in 1 .. q.cnt
      PROVE  \E w \in W : q.mem[Wrap(q.rd + (n - 1))] = <<w>>
  <2>1. n - 1 \in 0 .. Depth /\ q.rd + n - 1 = q.rd + (n - 1)
    BY <1>1, DepthAssumption DEF Place
  <2>2. Wrap(q.rd + (n - 1)) \in Place
    BY <1>1, <2>1, WrapInRing
  <2>3. q.mem[Wrap(q.rd + (n - 1))] \in {<<>>} \union {<<w>> : w \in W}
    BY <2>2 DEF FifoOK
  <2>4. q.mem[Wrap(q.rd + (n - 1))] # <<>>
    BY <2>1 DEF FifoOK
  <2> QED
    BY <2>3, <2>4
<1>3. ASSUME NEW n \in 1 .. q.cnt
      PROVE  /\ Contents(q)[n] \in W
             /\ <<Contents(q)[n]>> = q.mem[Wrap(q.rd + (n - 1))]
  <2>1. PICK w \in W : q.mem[Wrap(q.rd + (n - 1))] = <<w>>
    BY <1>2
  <2>2. q.rd + n - 1 = q.rd + (n - 1)
    BY <1>1, DepthAssumption DEF Place
  <2>3. Contents(q)[n] = q.mem[Wrap(q.rd + (n - 1))][1]
    BY <2>2 DEF Contents
  <2>4. <<w>>[1] = w
    OBVIOUS
  <2> QED
    BY <2>1, <2>3, <2>4
<1>4. Contents(q) = [n \in 1 .. q.cnt |-> Contents(q)[n]]
  BY DEF Contents
<1>5. Contents(q) \in [1 .. q.cnt -> W]
  BY <1>3, <1>4
<1> QED
  BY <1>1, <1>3, <1>5, LenProperties, SeqDef

-----------------------------------------------------------------------------
\* The count and the pointers after an edge.
LEMMA ClockCounts ==
    ASSUME NEW W, NEW q, FifoOK(q, W), NEW word, NEW pop \in BOOLEAN
    PROVE  LET r == Clock(q, word, pop)
               push == word # <<>> /\ Ready(q)
               take == pop /\ Valid(q)
           IN  /\ r.cnt \in 0 .. Depth
               /\ r.cnt = (q.cnt - (IF take THEN 1 ELSE 0)) + (IF push THEN 1 ELSE 0)
               /\ r.rd \in Place /\ r.wr \in Place
               /\ r.rd = Wrap(q.rd + (IF take THEN 1 ELSE 0))
               /\ r.wr = Wrap(r.rd + r.cnt)
<1> DEFINE r == Clock(q, word, pop)
           push == word # <<>> /\ Ready(q)
           take == pop /\ Valid(q)
<1>1. q.cnt \in 0 .. Depth /\ q.rd \in Place /\ q.wr \in Place /\ q.wr = Wrap(q.rd + q.cnt)
  BY DEF FifoOK
<1>2. /\ r.wr = IF push THEN Wrap(q.wr + 1) ELSE q.wr
      /\ r.rd = IF take THEN Wrap(q.rd + 1) ELSE q.rd
      /\ r.cnt = IF push /\ ~take THEN q.cnt + 1
                  ELSE IF take /\ ~push THEN q.cnt - 1 ELSE q.cnt
  BY DEF Clock
<1>3. (push => q.cnt # Depth) /\ (take => q.cnt # 0) /\ push \in BOOLEAN /\ take \in BOOLEAN
  BY DEF Ready, Valid
<1> HIDE DEF push, take, r
<1>4. /\ r.cnt \in 0 .. Depth
      /\ r.cnt = (q.cnt - (IF take THEN 1 ELSE 0)) + (IF push THEN 1 ELSE 0)
  <2>1. CASE push /\ take
    BY <1>1, <1>2, <1>3, <2>1, DepthAssumption
  <2>2. CASE push /\ ~take
    BY <1>1, <1>2, <1>3, <2>2, DepthAssumption
  <2>3. CASE ~push /\ take
    BY <1>1, <1>2, <1>3, <2>3, DepthAssumption
  <2>4. CASE ~push /\ ~take
    BY <1>1, <1>2, <1>3, <2>4, DepthAssumption
  <2> QED
    BY <1>3, <2>1, <2>2, <2>3, <2>4
<1>5. r.rd = Wrap(q.rd + (IF take THEN 1 ELSE 0)) /\ r.rd \in Place /\ r.wr \in Place
  BY <1>1, <1>2, <1>3, DepthAssumption DEF Wrap, Place
<1>6. r.wr = Wrap(r.rd + r.cnt)
  <2>1. CASE push /\ take
    BY <1>1, <1>2, <1>3, <1>4, <2>1, DepthAssumption DEF Wrap, Place
  <2>2. CASE push /\ ~take
    BY <1>1, <1>2, <1>3, <1>4, <2>2, DepthAssumption DEF Wrap, Place
  <2>3. CASE ~push /\ take
    BY <1>1, <1>2, <1>3, <1>4, <2>3, DepthAssumption DEF Wrap, Place
  <2>4. CASE ~push /\ ~take
    BY <1>1, <1>2, <1>3, <1>4, <2>4, DepthAssumption DEF Wrap, Place
  <2> QED
    BY <1>3, <2>1, <2>2, <2>3, <2>4
<1> QED
  BY <1>4, <1>5, <1>6 DEF push, take, r

\* What each place holds after an edge, counted from the new front.
LEMMA ClockWords ==
    ASSUME NEW W, NEW q, FifoOK(q, W), NEW word, NEW pop \in BOOLEAN
    PROVE  LET r == Clock(q, word, pop)
               push == word # <<>> /\ Ready(q)
               gone == IF pop /\ Valid(q) THEN 1 ELSE 0
           IN  \A n \in 1 .. r.cnt :
                 r.mem[Wrap(r.rd + (n - 1))] =
                   IF n <= q.cnt - gone THEN q.mem[Wrap(q.rd + (n + gone - 1))] ELSE word
<1> DEFINE r == Clock(q, word, pop)
           push == word # <<>> /\ Ready(q)
           gone == IF pop /\ Valid(q) THEN 1 ELSE 0
<1>1. /\ q.cnt \in 0 .. Depth /\ q.rd \in Place /\ q.wr \in Place
      /\ q.wr = Wrap(q.rd + q.cnt) /\ q.mem \in [Place -> {<<>>} \union {<<w>> : w \in W}]
  BY DEF FifoOK
<1>2. r.mem = IF push THEN [q.mem EXCEPT ![q.wr] = word] ELSE q.mem
  BY DEF Clock
<1>3. /\ r.cnt \in 0 .. Depth
      /\ r.cnt = (q.cnt - gone) + (IF push THEN 1 ELSE 0)
      /\ r.rd = Wrap(q.rd + gone)
  BY ClockCounts
<1>4. (push => q.cnt # Depth) /\ (gone = 1 => q.cnt # 0) /\ gone \in {0, 1} /\ push \in BOOLEAN
  BY DEF Ready, Valid
<1> HIDE DEF r, push, gone
<1> SUFFICES ASSUME NEW n \in 1 .. r.cnt
             PROVE  r.mem[Wrap(r.rd + (n - 1))] =
                      IF n <= q.cnt - gone THEN q.mem[Wrap(q.rd + (n + gone - 1))] ELSE word
  BY DEF r, push, gone
<1>5. n \in Nat /\ 1 <= n /\ n <= r.cnt /\ n + gone <= Depth + gone
  BY <1>3, <1>4, DepthAssumption
<1>6. n + gone <= q.cnt \/ (push /\ n + gone = q.cnt + 1)
  BY <1>1, <1>3, <1>4, <1>5, DepthAssumption
<1>7. Wrap(r.rd + (n - 1)) = Wrap(q.rd + (n + gone - 1))
  <2>1. CASE gone = 0
    <3>1. q.rd + gone = q.rd /\ Wrap(q.rd) = q.rd /\ n + gone - 1 = n - 1
      BY <1>1, <1>5, <2>1, DepthAssumption DEF Wrap, Place
    <3> QED
      BY <1>3, <3>1
  <2>2. CASE gone = 1
    <3>1. n - 1 \in 0 .. Depth - 1 /\ n + gone - 1 = (n - 1) + 1
      BY <1>3, <1>5, <2>2, DepthAssumption
    <3> QED
      BY <1>1, <1>3, <2>2, <3>1, WrapStep
  <2> QED
    BY <1>4, <2>1, <2>2
<1>8. CASE n + gone <= q.cnt
  <2>1. n <= q.cnt - gone
    BY <1>1, <1>4, <1>5, <1>8, DepthAssumption
  <2>2. CASE ~push
    BY <1>2, <1>7, <2>1, <2>2
  <2>3. CASE push
    <3>1. n + gone - 1 \in 0 .. Depth - 1 /\ q.cnt \in 0 .. Depth - 1 /\ n + gone - 1 # q.cnt
      BY <1>1, <1>4, <1>5, <1>8, <2>3, DepthAssumption
    <3>2. Wrap(q.rd + (n + gone - 1)) # q.wr
      BY <1>1, <3>1, WrapInjective
    <3>3. n + gone - 1 \in 0 .. Depth
      BY <3>1, DepthAssumption
    <3>4. Wrap(q.rd + (n + gone - 1)) \in Place
      BY <1>1, <3>3, WrapInRing
    <3> QED
      BY <1>1, <1>2, <1>7, <2>1, <2>3, <3>2, <3>4
  <2> QED
    BY <2>2, <2>3
<1>9. CASE push /\ n + gone = q.cnt + 1
  <2>1. n + gone - 1 = q.cnt /\ ~(n <= q.cnt - gone)
    BY <1>1, <1>4, <1>5, <1>9, DepthAssumption
  <2> QED
    BY <1>1, <1>2, <1>7, <1>9, <2>1
<1> QED
  BY <1>6, <1>8, <1>9

-----------------------------------------------------------------------------
\* An edge keeps the registers consistent (fifo_queue.sv, the always_ff), for
\* every depth: the count is the distance of the pointers, and every place
\* between them holds a word.
THEOREM ClockKeepsFifoOK ==
    ASSUME NEW W, NEW q, FifoOK(q, W), NEW pop \in BOOLEAN,
           NEW word \in {<<>>} \union {<<w>> : w \in W}
    PROVE  FifoOK(Clock(q, word, pop), W)
<1> DEFINE r == Clock(q, word, pop)
           gone == IF pop /\ Valid(q) THEN 1 ELSE 0
<1>1. r = [mem |-> r.mem, wr |-> r.wr, rd |-> r.rd, cnt |-> r.cnt]
  BY DEF Clock
<1>2. r.mem \in [Place -> {<<>>} \union {<<w>> : w \in W}]
  <2>1. r.mem = IF word # <<>> /\ Ready(q) THEN [q.mem EXCEPT ![q.wr] = word] ELSE q.mem
    BY DEF Clock
  <2>2. q.mem \in [Place -> {<<>>} \union {<<w>> : w \in W}] /\ q.wr \in Place
    BY DEF FifoOK
  <2> QED
    BY <2>1, <2>2
<1>3. /\ r.cnt \in 0 .. Depth /\ r.rd \in Place /\ r.wr \in Place
      /\ r.wr = Wrap(r.rd + r.cnt)
  BY ClockCounts
<1>4. ASSUME NEW n \in 1 .. r.cnt
      PROVE  r.mem[Wrap(r.rd + n - 1)] # <<>>
  <2>1. /\ q.cnt \in Nat /\ r.cnt \in Nat /\ r.rd \in Nat /\ q.rd \in Nat
        /\ gone \in {0, 1} /\ (gone = 1 => q.cnt # 0)
    BY <1>3, DepthAssumption DEF FifoOK, Place, Valid
  <2>2. r.rd + n - 1 = r.rd + (n - 1)
    BY <2>1
  <2>3. r.mem[Wrap(r.rd + (n - 1))] =
          IF n <= q.cnt - gone THEN q.mem[Wrap(q.rd + (n + gone - 1))] ELSE word
    BY ClockWords
  <2>4. CASE n <= q.cnt - gone
    <3>1. n + gone \in 1 .. q.cnt /\ q.rd + (n + gone) - 1 = q.rd + (n + gone - 1)
      BY <2>1, <2>4
    <3> QED
      BY <2>2, <2>3, <2>4, <3>1 DEF FifoOK
  <2>5. CASE ~(n <= q.cnt - gone)
    <3>1. r.cnt = (q.cnt - gone) + (IF word # <<>> /\ Ready(q) THEN 1 ELSE 0)
      BY ClockCounts
    <3>2. word # <<>>
      <4> DEFINE push == word # <<>> /\ Ready(q)
      <4>1. r.cnt = (q.cnt - gone) + (IF push THEN 1 ELSE 0)
        BY <3>1
      <4> HIDE DEF push, gone, r
      <4>2. push
        BY <2>1, <2>5, <4>1
      <4> QED
        BY <4>2 DEF push
    <3> QED
      BY <2>2, <2>3, <2>5, <3>2
  <2> QED
    BY <2>4, <2>5
<1> QED
  BY <1>1, <1>2, <1>3, <1>4 DEF FifoOK

-----------------------------------------------------------------------------
\* What is left of a queue after its front may have gone.
Kept(s, take) == IF take THEN Tail(s) ELSE s

\* An edge does to the contents what a queue promises (fifo_queue.sv, push and
\* pop), for every depth and set of words: the front goes if it is taken, the
\* word is appended if there is room, and nothing else changes, so no word is
\* lost, doubled or reordered.
THEOREM ClockIsQueue ==
    ASSUME NEW W, NEW q, FifoOK(q, W), NEW pop \in BOOLEAN,
           NEW word \in {<<>>} \union {<<w>> : w \in W}
    PROVE  Contents(Clock(q, word, pop)) =
             LET kept == Kept(Contents(q), pop /\ Valid(q))
             IN  IF word # <<>> /\ Ready(q) THEN Append(kept, word[1]) ELSE kept
<1> DEFINE r == Clock(q, word, pop)
           push == word # <<>> /\ Ready(q)
           take == pop /\ Valid(q)
           gone == IF take THEN 1 ELSE 0
           kept == Kept(Contents(q), take)
<1>1. FifoOK(r, W)
  BY ClockKeepsFifoOK
<1>2. /\ Contents(q) \in Seq(W) /\ Len(Contents(q)) = q.cnt
      /\ \A n \in 1 .. q.cnt : <<Contents(q)[n]>> = q.mem[Wrap(q.rd + (n - 1))]
  BY ContentsAreWords
<1>3. /\ Contents(r) \in Seq(W) /\ Len(Contents(r)) = r.cnt
      /\ \A n \in 1 .. r.cnt : <<Contents(r)[n]>> = r.mem[Wrap(r.rd + (n - 1))]
  BY <1>1, ContentsAreWords
<1>4. /\ q.cnt \in Nat /\ r.cnt \in Nat /\ q.rd \in Nat
      /\ r.cnt = (q.cnt - gone) + (IF push THEN 1 ELSE 0)
      /\ gone \in {0, 1} /\ (take => q.cnt # 0) /\ (gone = 1 <=> take)
  <2>1. q.cnt \in 0 .. Depth /\ q.rd \in Place
    BY DEF FifoOK
  <2>2. /\ r.cnt \in 0 .. Depth
        /\ r.cnt = (q.cnt - gone) + (IF push THEN 1 ELSE 0)
    BY ClockCounts
  <2>3. take => q.cnt # 0
    BY DEF Valid
  <2>4. gone \in {0, 1} /\ (gone = 1 <=> take)
    OBVIOUS
  <2> HIDE DEF r, push, take, gone
  <2> QED
    BY <2>1, <2>2, <2>3, <2>4, DepthAssumption DEF Place
<1>5. ASSUME NEW n \in 1 .. r.cnt
      PROVE  r.mem[Wrap(r.rd + (n - 1))] =
               IF n <= q.cnt - gone THEN q.mem[Wrap(q.rd + (n + gone - 1))] ELSE word
  BY ClockWords
<1>6. push => word = <<word[1]>> /\ word[1] \in W
  OBVIOUS
<1>7. take \in BOOLEAN /\ push \in BOOLEAN
  OBVIOUS
<1> HIDE DEF push, gone, r, take
<1>8. /\ kept \in Seq(W) /\ Len(kept) = q.cnt - gone
      /\ \A n \in 1 .. q.cnt - gone : kept[n] = Contents(q)[n + gone]
  <2>1. CASE take
    <3>1. gone = 1 /\ Contents(q) # <<>> /\ kept = Tail(Contents(q))
      BY <1>2, <1>4, <2>1 DEF Kept
    <3>2. /\ Tail(Contents(q)) \in Seq(W)
          /\ Len(Tail(Contents(q))) = Len(Contents(q)) - 1
          /\ \A i \in 1 .. Len(Tail(Contents(q))) :
                Tail(Contents(q))[i] = Contents(q)[i + 1]
      BY <1>2, <3>1, HeadTailProperties
    <3> QED
      BY <1>2, <3>1, <3>2
  <2>2. CASE ~take
    <3>1. gone = 0 /\ kept = Contents(q)
      BY <1>4, <2>2 DEF Kept
    <3> QED
      BY <1>2, <1>4, <3>1
  <2> QED
    BY <1>7, <2>1, <2>2
<1> HIDE DEF kept
<1>9. ASSUME NEW n \in 1 .. r.cnt
      PROVE  Contents(r)[n] = IF n <= q.cnt - gone THEN kept[n] ELSE word[1]
  <2>1. n \in Nat /\ 1 <= n /\ n <= r.cnt
    BY <1>4
  <2>2. CASE n <= q.cnt - gone
    <3>1. n + gone \in 1 .. q.cnt /\ n \in 1 .. q.cnt - gone
      BY <1>4, <2>1, <2>2
    <3>2. <<Contents(r)[n]>> = <<Contents(q)[n + gone]>>
      <4>1. <<Contents(r)[n]>> = r.mem[Wrap(r.rd + (n - 1))]
        BY <1>3
      <4>2. r.mem[Wrap(r.rd + (n - 1))] = q.mem[Wrap(q.rd + (n + gone - 1))]
        BY <1>5, <2>2
      <4>3. <<Contents(q)[n + gone]>> = q.mem[Wrap(q.rd + (n + gone - 1))]
        <5>1. \A m \in 1 .. q.cnt : <<Contents(q)[m]>> = q.mem[Wrap(q.rd + (m - 1))]
          BY <1>2
        <5>2. (n + gone) - 1 = n + gone - 1
          BY <1>4, <2>1
        <5> QED
          BY <3>1, <5>1, <5>2
      <4> QED
        BY <4>1, <4>2, <4>3
    <3>3. Contents(r)[n] = Contents(q)[n + gone]
      BY <3>2
    <3> QED
      BY <1>8, <2>2, <3>1, <3>3
  <2>3. CASE ~(n <= q.cnt - gone)
    <3>1. push
      BY <1>4, <1>7, <2>1, <2>3
    <3>2. <<Contents(r)[n]>> = <<word[1]>>
      BY <1>3, <1>5, <1>6, <2>3, <3>1
    <3>3. Contents(r)[n] = word[1]
      BY <3>2
    <3> QED
      BY <2>3, <3>3
  <2> QED
    BY <2>2, <2>3
<1>10. CASE push
  <2>1. /\ Append(kept, word[1]) \in Seq(W)
        /\ Len(Append(kept, word[1])) = Len(kept) + 1
        /\ \A i \in 1 .. Len(kept) : Append(kept, word[1])[i] = kept[i]
        /\ Append(kept, word[1])[Len(kept) + 1] = word[1]
    BY <1>6, <1>8, <1>10, AppendProperties
  <2>2. Len(Append(kept, word[1])) = r.cnt
    BY <1>4, <1>8, <1>10, <2>1
  <2>3. ASSUME NEW n \in 1 .. r.cnt
        PROVE  Contents(r)[n] = Append(kept, word[1])[n]
    <3>1. Len(kept) \in Nat /\ r.cnt = Len(kept) + 1
      BY <1>4, <1>8, <1>10
    <3>2. CASE n <= q.cnt - gone
      BY <1>8, <1>9, <2>1, <3>1, <3>2
    <3>3. CASE ~(n <= q.cnt - gone)
      <4>1. n = Len(kept) + 1
        BY <1>4, <1>8, <3>1, <3>3
      <4> QED
        BY <1>9, <2>1, <3>3, <4>1
    <3> QED
      BY <3>2, <3>3
  <2>4. Contents(r) = Append(kept, word[1])
    BY <1>3, <2>1, <2>2, <2>3, SeqEqual
  <2> QED
    BY <1>10, <2>4 DEF r, push, take, kept
<1>11. CASE ~push
  <2>1. r.cnt = q.cnt - gone /\ Len(kept) = r.cnt
    BY <1>4, <1>8, <1>11
  <2>2. \A n \in 1 .. r.cnt : Contents(r)[n] = kept[n]
    BY <1>4, <1>9, <2>1
  <2>3. Contents(r) = kept
    BY <1>3, <1>8, <2>1, <2>2, SeqEqual
  <2> QED
    BY <1>11, <2>3 DEF r, push, take, kept
<1> QED
  BY <1>7, <1>10, <1>11

-----------------------------------------------------------------------------
(* A FIFO word by word, and sequences that a word moves along.               *)

\* What an edge leaves of a FIFO, for compositions to cite: the front goes if it
\* is taken, the word comes if there is room.
LEMMA FifoEdge ==
    ASSUME NEW W, NEW q, FifoOK(q, W), NEW pop \in BOOLEAN,
           NEW word \in {<<>>} \union {<<w>> : w \in W}
    PROVE  LET r == Clock(q, word, pop)
               push == word # <<>> /\ Ready(q)
               gone == IF pop /\ Valid(q) THEN 1 ELSE 0
           IN  /\ FifoOK(r, W)
               /\ q.cnt \in 0 .. Depth /\ r.cnt \in 0 .. Depth
               /\ r.cnt = (q.cnt - gone) + (IF push THEN 1 ELSE 0)
               /\ Contents(q) \in Seq(W) /\ Len(Contents(q)) = q.cnt
               /\ Contents(r) \in Seq(W) /\ Len(Contents(r)) = r.cnt
               /\ \A n \in 1 .. r.cnt :
                    Contents(r)[n] = IF n <= q.cnt - gone THEN Contents(q)[n + gone] ELSE word[1]
<1> DEFINE r == Clock(q, word, pop)
           push == word # <<>> /\ Ready(q)
           take == pop /\ Valid(q)
           gone == IF pop /\ Valid(q) THEN 1 ELSE 0
           kept == Kept(Contents(q), pop /\ Valid(q))
<1>1. FifoOK(r, W)
  BY ClockKeepsFifoOK
<1>2. Contents(q) \in Seq(W) /\ Len(Contents(q)) = q.cnt
  BY ContentsAreWords
<1>3. Contents(r) \in Seq(W) /\ Len(Contents(r)) = r.cnt
  BY <1>1, ContentsAreWords
<1>4. q.cnt \in 0 .. Depth
  BY DEF FifoOK
<1>5. r.cnt \in 0 .. Depth /\ r.cnt = (q.cnt - gone) + (IF push THEN 1 ELSE 0)
  BY ClockCounts
<1>6. Contents(r) = IF push THEN Append(kept, word[1]) ELSE kept
  BY ClockIsQueue
<1>7. kept \in Seq(W) /\ Len(kept) = q.cnt - gone
      /\ \A n \in 1 .. q.cnt - gone : kept[n] = Contents(q)[n + gone]
  <2>1. CASE take
    <3>1. q.cnt # 0 /\ gone = 1 /\ kept = Tail(Contents(q))
      BY <2>1 DEF Valid, Kept
    <3>2. Contents(q) # <<>>
      BY <1>2, <3>1
    <3>3. /\ Tail(Contents(q)) \in Seq(W)
          /\ Len(Tail(Contents(q))) = Len(Contents(q)) - 1
          /\ \A i \in 1 .. Len(Tail(Contents(q))) : Tail(Contents(q))[i] = Contents(q)[i + 1]
      BY <1>2, <3>2, HeadTailProperties
    <3> QED BY <1>2, <3>1, <3>3
  <2>2. CASE ~take
    <3>1. gone = 0 /\ kept = Contents(q)
      BY <2>2 DEF Kept
    <3> QED BY <1>2, <1>4, <3>1, DepthAssumption
  <2> QED BY <2>1, <2>2
<1>8. ASSUME NEW n \in 1 .. r.cnt
      PROVE  Contents(r)[n] = IF n <= q.cnt - gone THEN Contents(q)[n + gone] ELSE word[1]
  <2>1. CASE push
    <3>1. word[1] \in W
      BY <2>1
    <3>2. Contents(r) = Append(kept, word[1])
      BY <1>6, <2>1
    <3>3. r.cnt = q.cnt - gone + 1 /\ gone \in {0, 1} /\ n \in Nat /\ q.cnt \in Nat
      BY <1>4, <1>5, <2>1, DepthAssumption
    <3> HIDE DEF r, push, gone, kept
    <3>4. CASE n <= q.cnt - gone
      <4>1. n \in 1 .. Len(kept) /\ n \in 1 .. q.cnt - gone
        BY <1>7, <3>3, <3>4
      <4>2. Append(kept, word[1])[n] = kept[n]
        BY <1>7, <3>1, <4>1, AppendProperties
      <4> QED BY <1>7, <3>2, <3>4, <4>1, <4>2
    <3>5. CASE ~(n <= q.cnt - gone)
      <4>1. n = Len(kept) + 1
        BY <1>7, <3>3, <3>5
      <4>2. Append(kept, word[1])[Len(kept) + 1] = word[1]
        BY <1>7, <3>1, AppendProperties
      <4> QED BY <3>2, <3>5, <4>1, <4>2
    <3> QED BY <3>4, <3>5
  <2>2. CASE ~push
    <3>1. n \in 1 .. q.cnt - gone /\ n <= q.cnt - gone
      BY <1>4, <1>5, <2>2, DepthAssumption
    <3> QED BY <1>6, <1>7, <2>2, <3>1
  <2> QED BY <2>1, <2>2
<1> QED BY <1>1, <1>2, <1>3, <1>4, <1>5, <1>8

\* Appending behind and then in front is one sequence.
LEMMA AppendBehind ==
    ASSUME NEW W, NEW s \in Seq(W), NEW t \in Seq(W), NEW w \in W
    PROVE  s \o Append(t, w) = Append(s \o t, w)
<1>1. <<w>> \in Seq(W) /\ s \o t \in Seq(W)
  BY ConcatProperties
<1>2. Append(t, w) = t \o <<w>> /\ Append(s \o t, w) = (s \o t) \o <<w>>
  BY <1>1, AppendIsConcat
<1>3. (s \o t) \o <<w>> = s \o (t \o <<w>>)
  BY <1>1, ConcatAssociative
<1> QED BY <1>2, <1>3

\* A front that moves to the sequence before it changes nothing of the whole.
LEMMA FrontMoves ==
    ASSUME NEW W, NEW s \in Seq(W), NEW t \in Seq(W), t # <<>>
    PROVE  /\ Head(t) \in W /\ <<Head(t)>> \in Seq(W) /\ Tail(t) \in Seq(W)
           /\ (s \o <<Head(t)>>) \o Tail(t) = s \o t
<1>1. /\ Head(t) \in W /\ Tail(t) \in Seq(W) /\ Len(Tail(t)) = Len(t) - 1
      /\ \A i \in 1 .. Len(Tail(t)) : Tail(t)[i] = t[i + 1]
  BY HeadTailProperties
<1>2. <<Head(t)>> \in Seq(W) /\ Len(<<Head(t)>>) = 1 /\ <<Head(t)>>[1] = t[1] /\ Len(t) \in Nat
  BY <1>1
<1> DEFINE h == <<Head(t)>>
<1>3. h \o Tail(t) \in Seq(W) /\ Len(h \o Tail(t)) = Len(t)
  BY <1>1, <1>2, ConcatProperties
<1>4. ASSUME NEW i \in 1 .. Len(t) PROVE (h \o Tail(t))[i] = t[i]
  <2>1. (h \o Tail(t))[i] = IF i <= Len(h) THEN h[i] ELSE Tail(t)[i - Len(h)]
    BY <1>1, <1>2, ConcatProperties
  <2>2. CASE i = 1
    BY <2>1, <2>2, <1>2
  <2>3. CASE i # 1
    <3>1. i - 1 \in 1 .. Len(Tail(t)) /\ ~(i <= 1) /\ (i - 1) + 1 = i
      BY <1>1, <1>2, <2>3
    <3> QED BY <1>1, <1>2, <2>1, <3>1
  <2> QED BY <2>2, <2>3
<1>5. h \o Tail(t) = t
  BY <1>3, <1>4, SeqEqual
<1>6. (s \o h) \o Tail(t) = s \o (h \o Tail(t))
  BY <1>1, <1>2, ConcatAssociative
<1> QED BY <1>1, <1>2, <1>5, <1>6

-----------------------------------------------------------------------------
(* The numbers of reports.                                                   *)

MatchedIn(ts, n) == {k \in 1 .. n - 1 : Kind(ts[k]) = "MATCHED"}

\* FirstReport(n), and Expected, of the trades ts.
Number(ts, n) == n + Cardinality(MatchedIn(ts, n))

Calls(ts) == UNION {ReportsOf(ts[n], Number(ts, n)) : n \in DOMAIN ts}

\* The number of the first report of a trade is a number, at least the trade's;
\* trades in order have numbers in order.
LEMMA NumberIs ==
    ASSUME NEW ts
    PROVE  /\ \A n \in Nat : /\ IsFiniteSet(MatchedIn(ts, n)) /\ Cardinality(MatchedIn(ts, n)) \in Nat
                             /\ Number(ts, n) \in Nat /\ Number(ts, n) >= n
           /\ \A m, n \in Nat : m <= n => Number(ts, m) <= Number(ts, n)
<1>1. ASSUME NEW n \in Nat
      PROVE  IsFiniteSet(MatchedIn(ts, n)) /\ Cardinality(MatchedIn(ts, n)) \in Nat
  <2>1. IsFiniteSet(1 .. n - 1)
    BY FS_Interval
  <2>2. IsFiniteSet(MatchedIn(ts, n))
    BY <2>1, FS_Subset DEF MatchedIn
  <2> QED BY <2>2, FS_CardinalityType
<1>2. ASSUME NEW m \in Nat, NEW n \in Nat, m <= n PROVE Number(ts, m) <= Number(ts, n)
  <2>1. MatchedIn(ts, m) \subseteq MatchedIn(ts, n)
    BY <1>2 DEF MatchedIn
  <2>2. Cardinality(MatchedIn(ts, m)) <= Cardinality(MatchedIn(ts, n))
    BY <1>1, <2>1, FS_Subset
  <2> QED BY <1>1, <1>2, <2>2 DEF Number
<1> QED BY <1>1, <1>2 DEF Number

\* A match takes two numbers, an external fill one.
LEMMA NextNumber ==
    ASSUME NEW ts, NEW n \in Nat \ {0}
    PROVE  Number(ts, n + 1) = Number(ts, n) + (IF Kind(ts[n]) = "MATCHED" THEN 2 ELSE 1)
<1>1. n \in Nat /\ n + 1 \in Nat /\ n + 1 - 1 = n
  OBVIOUS
<1>2. IsFiniteSet(MatchedIn(ts, n)) /\ Cardinality(MatchedIn(ts, n)) \in Nat
  BY <1>1, NumberIs
<1>3. CASE Kind(ts[n]) = "MATCHED"
  <2>1. MatchedIn(ts, n + 1) = MatchedIn(ts, n) \union {n} /\ n \notin MatchedIn(ts, n)
    BY <1>1, <1>3 DEF MatchedIn
  <2>2. Cardinality(MatchedIn(ts, n + 1)) = Cardinality(MatchedIn(ts, n)) + 1
    BY <1>2, <2>1, FS_AddElement
  <2> QED BY <1>2, <1>3, <2>2 DEF Number
<1>4. CASE Kind(ts[n]) # "MATCHED"
  <2>1. MatchedIn(ts, n + 1) = MatchedIn(ts, n)
    BY <1>1, <1>4 DEF MatchedIn
  <2> QED BY <1>2, <1>4, <2>1 DEF Number
<1> QED BY <1>3, <1>4

\* Trades keep their numbers and their reports when more are made.
LEMMA NumbersStay ==
    ASSUME NEW W, NEW ts \in Seq(W), NEW us \in Seq(W), Len(ts) <= Len(us),
           \A k \in 1 .. Len(ts) : us[k] = ts[k]
    PROVE  /\ \A n \in 1 .. Len(ts) + 1 : Number(us, n) = Number(ts, n)
           /\ Calls(ts) \subseteq Calls(us)
<1>1. Len(ts) \in Nat /\ Len(us) \in Nat /\ DOMAIN ts = 1 .. Len(ts) /\ DOMAIN us = 1 .. Len(us)
  OBVIOUS
<1>2. ASSUME NEW n \in 1 .. Len(ts) + 1 PROVE Number(us, n) = Number(ts, n)
  <2>1. \A k \in 1 .. n - 1 : us[k] = ts[k]
    BY <1>1
  <2>2. MatchedIn(us, n) = MatchedIn(ts, n)
    BY <2>1 DEF MatchedIn
  <2> QED BY <2>2 DEF Number
<1>3. ASSUME NEW n \in DOMAIN ts
      PROVE  n \in DOMAIN us /\ ReportsOf(us[n], Number(us, n)) = ReportsOf(ts[n], Number(ts, n))
  BY <1>1, <1>2
<1> QED BY <1>2, <1>3 DEF Calls

-----------------------------------------------------------------------------
(* The invariant.                                                            *)

TradeWord == [type : {"TRADE"}, buy : BuyIds, sell : SellIds, n : Nat]

ReportWord ==
    [type : {"REPORT"}, side : {"BUY", "SELL"}, flags : {"NONE", "EXTERNAL"}, seq : Nat,
     oid : BuyIds \union SellIds, n : Nat]

AckWord == [type : {"ACK"}, n : Nat]

NoWord == [type |-> "NONE"]

\* A word that is offered or not.
One(W) == {<<>>} \union {<<w>> : w \in W}

\* The registers, and what each FSM holds in its states.
Typed ==
    /\ FifoOK(tradeFifo, TradeWord) /\ FifoOK(ackFifo, AckWord) /\ FifoOK(repFifo, ReportWord)
    /\ src \in [at : {"WORK", "TRADE", "ACK"}, wait : Nat, offer : One(TradeWord),
                word : TradeWord \union AckWord \union {NoWord}]
    /\ gen \in [rstate : {"R_IDLE", "R_BUYER", "R_SELLER"}, t : TradeWord \union {NoWord},
                seq : Nat \ {0}, push : One(ReportWord)]
    /\ out \in [state : {"E_IDLE", "E_START", "E_SEND"}, word : One(ReportWord \union AckWord)]
    /\ trades \in Seq(TradeWord) /\ acks \in Seq(Nat)
    /\ reports \in Seq(ReportWord) /\ answers \in Seq([n : Nat, after : Nat])
    /\ crowded \in BOOLEAN
    /\ src.at = "TRADE" => src.word \in TradeWord /\ src.word.n = Len(trades) + 1
    /\ src.at = "ACK" => src.word \in AckWord /\ src.word.n = Len(acks) + 1
    /\ gen.rstate # "R_IDLE" => gen.t \in TradeWord
    /\ out.state = "E_IDLE" <=> out.word = <<>>

\* The front of a FIFO is the first of its contents.
LEMMA FrontIsFirst ==
    ASSUME NEW W, NEW q, FifoOK(q, W), Valid(q)
    PROVE  FrontWord(q) \in W /\ FrontWord(q) = Contents(q)[1] /\ 1 \in 1 .. q.cnt
<1>1. q.cnt \in Nat /\ q.cnt > 0 /\ q.rd \in Place
  BY DepthAssumption DEF FifoOK, Valid
<1>2. 1 \in 1 .. q.cnt
  BY <1>1
<1>3. q.rd + 1 - 1 = q.rd /\ Wrap(q.rd) = q.rd
  BY <1>1, DepthAssumption DEF Wrap, Place
<1>4. Contents(q)[1] = q.mem[q.rd][1]
  BY <1>2, <1>3 DEF Contents
<1>5. Contents(q) \in Seq(W) /\ Len(Contents(q)) = q.cnt
  BY ContentsAreWords
<1>6. Contents(q)[1] \in W
  BY <1>2, <1>5
<1> QED BY <1>2, <1>4, <1>6 DEF FrontWord

\* The report of the seller of a match.
Sellers(r) == r.side = "SELL" /\ r.flags = "NONE"

\* What the report FSM pushes is a report.
LEMMA ReportsAreWords ==
    ASSUME NEW t \in TradeWord, NEW i \in Nat
    PROVE  /\ BuyerReport(t, i) \in ReportWord /\ BuyerReport(t, i).seq = i
           /\ LastReport(t, i) \in ReportWord /\ LastReport(t, i).seq = i
           /\ Kind(t) = "MATCHED" => Sellers(LastReport(t, i))
BY DEF TradeWord, ReportWord, BuyerReport, LastReport, MakeReport, Kind, Sellers

\* What happens at the three FIFOs at an edge.
LEMMA TradeFifoEdge ==
    ASSUME Typed, NEW ready, Tick(ready)
    PROVE  LET push == src.offer # <<>> /\ Ready(tradeFifo)
               gone == IF TradePop THEN 1 ELSE 0
           IN  /\ FifoOK(tradeFifo', TradeWord)
               /\ tradeFifo.cnt \in 0 .. Depth /\ tradeFifo'.cnt \in 0 .. Depth
               /\ TradePop => tradeFifo.cnt > 0
               /\ tradeFifo'.cnt = (tradeFifo.cnt - gone) + (IF push THEN 1 ELSE 0)
               /\ \A n \in 1 .. tradeFifo'.cnt :
                    Contents(tradeFifo')[n] =
                      IF n <= tradeFifo.cnt - gone THEN Contents(tradeFifo)[n + gone] ELSE src.offer[1]
<1>1. FifoOK(tradeFifo, TradeWord) /\ src.offer \in {<<>>} \union {<<w>> : w \in TradeWord}
  BY DEF Typed, One
<1>2. tradeFifo' = Clock(tradeFifo, src.offer, TradePop)
  BY DEF Tick
<1>3. TradePop \in BOOLEAN /\ (TradePop <=> TradePop /\ Valid(tradeFifo))
  BY DEF TradePop
<1>4. (IF TradePop /\ Valid(tradeFifo) THEN 1 ELSE 0) = (IF TradePop THEN 1 ELSE 0)
  BY <1>3
<1>5. tradeFifo.cnt \in 0 .. Depth /\ (TradePop => tradeFifo.cnt > 0)
  BY <1>1, DepthAssumption DEF FifoOK, TradePop, Valid
<1> HIDE DEF TradePop
<1> QED BY <1>1, <1>2, <1>3, <1>4, <1>5, FifoEdge

\* The same at the acknowledgements' FIFO, which takes the word of C_ACK itself.
LEMMA AckFifoEdge ==
    ASSUME Typed, NEW ready, Tick(ready)
    PROVE  LET push == src.at = "ACK" /\ Ready(ackFifo)
               gone == IF AckPop THEN 1 ELSE 0
           IN  /\ FifoOK(ackFifo', AckWord)
               /\ ackFifo.cnt \in 0 .. Depth /\ ackFifo'.cnt \in 0 .. Depth
               /\ AckPop => ackFifo.cnt > 0
               /\ ackFifo'.cnt = (ackFifo.cnt - gone) + (IF push THEN 1 ELSE 0)
               /\ \A n \in 1 .. ackFifo'.cnt :
                    Contents(ackFifo')[n] =
                      IF n <= ackFifo.cnt - gone THEN Contents(ackFifo)[n + gone] ELSE src.word
<1>1. FifoOK(ackFifo, AckWord) /\ AckOffer \in {<<>>} \union {<<w>> : w \in AckWord}
  BY DEF Typed, AckOffer
<1>2. ackFifo' = Clock(ackFifo, AckOffer, AckPop)
  BY DEF Tick
<1>3. AckPop \in BOOLEAN /\ (AckPop <=> AckPop /\ Valid(ackFifo))
  BY DEF AckPop
<1>4. (IF AckPop /\ Valid(ackFifo) THEN 1 ELSE 0) = (IF AckPop THEN 1 ELSE 0)
  BY <1>3
<1>5. ackFifo.cnt \in 0 .. Depth /\ (AckPop => ackFifo.cnt > 0)
  BY <1>1, DepthAssumption DEF FifoOK, AckPop, Valid
<1>6. (AckOffer # <<>> <=> src.at = "ACK") /\ (src.at = "ACK" => AckOffer[1] = src.word)
  BY DEF AckOffer
<1> HIDE DEF AckPop, AckOffer
<1> DEFINE push == AckOffer # <<>> /\ Ready(ackFifo)
           gone == IF AckPop THEN 1 ELSE 0
<1>7. /\ FifoOK(ackFifo', AckWord) /\ ackFifo'.cnt \in 0 .. Depth
      /\ ackFifo'.cnt = (ackFifo.cnt - gone) + (IF push THEN 1 ELSE 0)
      /\ \A n \in 1 .. ackFifo'.cnt :
           Contents(ackFifo')[n] =
             IF n <= ackFifo.cnt - gone THEN Contents(ackFifo)[n + gone] ELSE AckOffer[1]
  BY <1>1, <1>2, <1>3, <1>4, FifoEdge
<1>8. push <=> src.at = "ACK" /\ Ready(ackFifo)
  BY <1>6
<1>9. gone \in {0, 1}
  OBVIOUS
<1>10. ASSUME NEW n \in 1 .. ackFifo'.cnt, ~(n <= ackFifo.cnt - gone) PROVE push
  <2> HIDE DEF push, gone
  <2>1. n \in Int /\ n <= ackFifo'.cnt /\ ackFifo.cnt \in Int /\ ackFifo'.cnt \in Int
    BY <1>5, <1>7, DepthAssumption
  <2>2. CASE ~push
    BY <1>7, <1>9, <1>10, <2>1, <2>2
  <2> QED BY <2>2
<1> HIDE DEF push, gone
<1>11. \A n \in 1 .. ackFifo'.cnt :
           Contents(ackFifo')[n] =
             IF n <= ackFifo.cnt - gone THEN Contents(ackFifo)[n + gone] ELSE src.word
  BY <1>6, <1>7, <1>8, <1>10
<1>12. ackFifo'.cnt = (ackFifo.cnt - gone)
          + (IF src.at = "ACK" /\ Ready(ackFifo) THEN 1 ELSE 0)
  BY <1>7, <1>8
<1> QED BY <1>5, <1>7, <1>11, <1>12 DEF gone

\* The same at the reports' FIFO, in terms of Tail and Append as well.
LEMMA ReportFifoEdge ==
    ASSUME Typed, NEW ready, Tick(ready)
    PROVE  LET push == gen.push # <<>> /\ Ready(repFifo)
               gone == IF ReportPop THEN 1 ELSE 0
           IN  /\ FifoOK(repFifo', ReportWord)
               /\ repFifo.cnt \in 0 .. Depth /\ repFifo'.cnt \in 0 .. Depth
               /\ ReportPop => repFifo.cnt > 0
               /\ repFifo'.cnt = (repFifo.cnt - gone) + (IF push THEN 1 ELSE 0)
               /\ Contents(repFifo') =
                    LET kept == IF ReportPop THEN Tail(Contents(repFifo)) ELSE Contents(repFifo)
                    IN  IF push THEN Append(kept, gen.push[1]) ELSE kept
<1>1. FifoOK(repFifo, ReportWord) /\ gen.push \in {<<>>} \union {<<w>> : w \in ReportWord}
  BY DEF Typed, One
<1>2. repFifo' = Clock(repFifo, gen.push, ReportPop)
  BY DEF Tick
<1>3. ReportPop \in BOOLEAN /\ (ReportPop <=> ReportPop /\ Valid(repFifo))
  BY DEF ReportPop
<1>4. (IF ReportPop /\ Valid(repFifo) THEN 1 ELSE 0) = (IF ReportPop THEN 1 ELSE 0)
  BY <1>3
<1>5. repFifo.cnt \in 0 .. Depth /\ (ReportPop => repFifo.cnt > 0)
  BY <1>1, DepthAssumption DEF FifoOK, ReportPop, Valid
<1> HIDE DEF ReportPop
<1>6. /\ FifoOK(repFifo', ReportWord) /\ repFifo'.cnt \in 0 .. Depth
      /\ repFifo'.cnt = (repFifo.cnt - (IF ReportPop THEN 1 ELSE 0))
            + (IF gen.push # <<>> /\ Ready(repFifo) THEN 1 ELSE 0)
  BY <1>1, <1>2, <1>3, <1>4, FifoEdge
<1>7. Contents(repFifo') =
        LET kept == Kept(Contents(repFifo), ReportPop /\ Valid(repFifo))
        IN  IF gen.push # <<>> /\ Ready(repFifo) THEN Append(kept, gen.push[1]) ELSE kept
  BY <1>1, <1>2, <1>3, ClockIsQueue
<1> QED BY <1>3, <1>5, <1>6, <1>7 DEF Kept

-----------------------------------------------------------------------------
\* The registers keep their types.
LEMMA TypesKept ==
    ASSUME Typed, NEW ready \in BOOLEAN, Tick(ready)
    PROVE  Typed'
<1>1. FifoOK(tradeFifo, TradeWord)' /\ FifoOK(ackFifo, AckWord)' /\ FifoOK(repFifo, ReportWord)'
  <2>1. FifoOK(tradeFifo', TradeWord) /\ FifoOK(ackFifo', AckWord) /\ FifoOK(repFifo', ReportWord)
    BY TradeFifoEdge, AckFifoEdge, ReportFifoEdge
  <2> QED BY <2>1 DEF FifoOK, Place, Wrap, TradeWord, AckWord, ReportWord
<1>2. /\ (src \in [at : {"WORK", "TRADE", "ACK"}, wait : Nat, offer : One(TradeWord),
                   word : TradeWord \union AckWord \union {NoWord}])'
      /\ (trades \in Seq(TradeWord) /\ acks \in Seq(Nat))'
      /\ (src.at = "TRADE" => src.word \in TradeWord /\ src.word.n = Len(trades) + 1)'
      /\ (src.at = "ACK" => src.word \in AckWord /\ src.word.n = Len(acks) + 1)'
  <2> DEFINE A == One(TradeWord)
             B == TradeWord \union AckWord \union {NoWord}
  <2>1. /\ src \in [at : {"WORK", "TRADE", "ACK"}, wait : Nat, offer : A, word : B]
        /\ trades \in Seq(TradeWord) /\ acks \in Seq(Nat)
        /\ src.at = "TRADE" => src.word \in TradeWord /\ src.word.n = Len(trades) + 1
        /\ src.at = "ACK" => src.word \in AckWord /\ src.word.n = Len(acks) + 1
        /\ Len(trades) \in Nat /\ Len(acks) \in Nat
    BY DEF Typed
  <2>2. <<>> \in A /\ (\A w \in TradeWord : <<w>> \in A) /\ TradeWord \subseteq B /\ AckWord \subseteq B
    BY DEF One
  <2>3. \A b \in BuyIds, s \in SellIds, n \in Nat :
            [type |-> "TRADE", buy |-> b, sell |-> s, n |-> n] \in TradeWord
    BY DEF TradeWord
  <2>4. \A n \in Nat : [type |-> "ACK", n |-> n] \in AckWord
    BY DEF AckWord
  <2> HIDE DEF A, B
  <2>5. /\ src' \in [at : {"WORK", "TRADE", "ACK"}, wait : Nat, offer : A, word : B]
        /\ trades' \in Seq(TradeWord) /\ acks' \in Seq(Nat)
        /\ src'.at = "TRADE" => src'.word \in TradeWord /\ src'.word.n = Len(trades') + 1
        /\ src'.at = "ACK" => src'.word \in AckWord /\ src'.word.n = Len(acks') + 1
    <3>1. CASE Work
      <4> DEFINE v == IF src.wait = 0 THEN 0 ELSE src.wait - 1
      <4>1. v \in Nat
        BY <2>1
      <4>2. src' = [src EXCEPT !.wait = v, !.offer = <<>>] /\ trades' = trades /\ acks' = acks
        BY <3>1 DEF Work
      <4> HIDE DEF v
      <4> QED BY <2>1, <2>2, <3>1, <4>1, <4>2 DEF Work
    <3>2. CASE BeginTrade
      <4>1. PICK b \in BuyIds, s \in SellIds :
               src' = [src EXCEPT !.at = "TRADE", !.offer = <<>>,
                                  !.word = [type |-> "TRADE", buy |-> b, sell |-> s,
                                            n |-> Len(trades) + 1]]
        BY <3>2 DEF BeginTrade
      <4>2. trades' = trades /\ acks' = acks
        BY <3>2 DEF BeginTrade
      <4> DEFINE w == [type |-> "TRADE", buy |-> b, sell |-> s, n |-> Len(trades) + 1]
      <4>3. w \in TradeWord /\ w.n = Len(trades) + 1
        BY <2>1, <2>3
      <4> HIDE DEF w
      <4>4. src' = [src EXCEPT !.at = "TRADE", !.offer = <<>>, !.word = w]
        BY <4>1 DEF w
      <4> QED BY <2>1, <2>2, <4>2, <4>3, <4>4
    <3>3. CASE OfferTrade
      <4>1. src.at = "TRADE" /\ src.word \in TradeWord /\ <<src.word>> \in A /\ acks' = acks
        BY <2>1, <2>2, <3>3 DEF OfferTrade
      <4>2. CASE TradeReady
        <5>1. /\ src' = [src EXCEPT !.at = "WORK", !.wait = TradeGap, !.offer = <<src.word>>]
              /\ trades' = Append(trades, src.word)
          BY <3>3, <4>2 DEF OfferTrade
        <5>2. Append(trades, src.word) \in Seq(TradeWord)
          BY <2>1, <4>1, AppendProperties
        <5>3. /\ src'.at = "WORK" /\ src'.wait \in Nat /\ src'.offer = <<src.word>>
              /\ src'.word = src.word
              /\ src' = [at |-> src'.at, wait |-> src'.wait, offer |-> src'.offer, word |-> src'.word]
          BY <2>1, <5>1, GapsAssumption
        <5> QED BY <2>1, <4>1, <5>1, <5>2, <5>3
      <4>3. CASE ~TradeReady
        <5>1. src' = [src EXCEPT !.offer = <<src.word>>] /\ trades' = trades
          BY <3>3, <4>3 DEF OfferTrade
        <5> QED BY <2>1, <4>1, <5>1
      <4> QED BY <4>2, <4>3
    <3>4. CASE BeginAck
      <4> DEFINE w == [type |-> "ACK", n |-> Len(acks) + 1]
      <4>1. w \in AckWord /\ w.n = Len(acks) + 1
        BY <2>1, <2>4
      <4>2. /\ src' = [src EXCEPT !.at = "ACK", !.offer = <<>>, !.word = w]
            /\ trades' = trades /\ acks' = acks
        BY <3>4 DEF BeginAck
      <4> HIDE DEF w
      <4> QED BY <2>1, <2>2, <4>1, <4>2
    <3>5. CASE OfferAck
      <4>1. CASE Ready(ackFifo)
        <5>1. /\ src' = [src EXCEPT !.at = "WORK", !.wait = AckGap]
              /\ acks' = Append(acks, Len(trades)) /\ trades' = trades
          BY <3>5, <4>1 DEF OfferAck
        <5>2. Append(acks, Len(trades)) \in Seq(Nat)
          BY <2>1, AppendProperties
        <5>3. /\ src'.at = "WORK" /\ src'.wait \in Nat /\ src'.offer = src.offer
              /\ src'.word = src.word
              /\ src' = [at |-> src'.at, wait |-> src'.wait, offer |-> src'.offer, word |-> src'.word]
          BY <2>1, <5>1, GapsAssumption
        <5> QED BY <2>1, <5>1, <5>2, <5>3
      <4>2. CASE ~Ready(ackFifo)
        BY <2>1, <3>5, <4>2 DEF OfferAck
      <4> QED BY <4>1, <4>2
    <3> QED BY <3>1, <3>2, <3>3, <3>4, <3>5 DEF Tick, SourceEdge
  <2> QED BY <2>5 DEF A, B, One, TradeWord, AckWord, NoWord
<1>3. /\ (gen \in [rstate : {"R_IDLE", "R_BUYER", "R_SELLER"}, t : TradeWord \union {NoWord},
                   seq : Nat \ {0}, push : One(ReportWord)])'
      /\ (gen.rstate # "R_IDLE" => gen.t \in TradeWord)'
  <2> DEFINE A == One(ReportWord)
             B == TradeWord \union {NoWord}
             R == {"R_IDLE", "R_BUYER", "R_SELLER"}
  <2>1. /\ gen \in [rstate : R, t : B, seq : Nat \ {0}, push : A]
        /\ gen.rstate # "R_IDLE" => gen.t \in TradeWord
        /\ gen.seq \in Nat
    BY DEF Typed
  <2>2. <<>> \in A /\ (\A w \in ReportWord : <<w>> \in A) /\ TradeWord \subseteq B
    BY DEF One
  <2> HIDE DEF A, B
  <2>3. /\ gen' \in [rstate : R, t : B, seq : Nat \ {0}, push : A]
        /\ gen'.rstate # "R_IDLE" => gen'.t \in TradeWord
    <3>1. CASE TakeTrade /\ TradePop
      <4>1. FrontWord(tradeFifo) \in TradeWord
        BY <3>1, FrontIsFirst DEF Typed, TradePop
      <4> DEFINE t == FrontWord(tradeFifo)
                 x == IF Kind(t) = "MATCHED" THEN "R_BUYER" ELSE "R_SELLER"
      <4>2. gen' = [gen EXCEPT !.push = <<>>, !.t = t, !.rstate = x]
        BY <3>1 DEF TakeTrade
      <4>3. x \in R
        OBVIOUS
      <4> HIDE DEF t, x
      <4> QED BY <2>1, <2>2, <4>1, <4>2, <4>3 DEF t
    <3>2. CASE TakeTrade /\ ~TradePop
      BY <2>1, <2>2, <3>2 DEF TakeTrade
    <3>3. ASSUME NEW r \in ReportWord, NEW x \in R, Report(r, x), gen.rstate # "R_IDLE"
          PROVE  /\ gen' \in [rstate : R, t : B, seq : Nat \ {0}, push : A]
                 /\ gen'.rstate # "R_IDLE" => gen'.t \in TradeWord
      <4>1. CASE Ready(repFifo)
        <5> DEFINE v == gen.seq + 1
        <5>1. v \in Nat \ {0}
          BY <2>1
        <5>2. gen' = [gen EXCEPT !.push = <<r>>, !.rstate = x, !.seq = v]
          BY <3>3, <4>1 DEF Report
        <5> HIDE DEF v
        <5> QED BY <2>1, <2>2, <3>3, <5>1, <5>2
      <4>2. CASE ~Ready(repFifo)
        BY <2>1, <2>2, <3>3, <4>2 DEF Report
      <4> QED BY <4>1, <4>2
    <3>4. CASE gen.rstate = "R_BUYER" /\ Report(BuyerReport(gen.t, gen.seq), "R_SELLER")
      <4>1. BuyerReport(gen.t, gen.seq) \in ReportWord
        BY <2>1, <3>4, ReportsAreWords
      <4> QED BY <3>3, <3>4, <4>1
    <3>5. CASE gen.rstate = "R_SELLER" /\ Report(LastReport(gen.t, gen.seq), "R_IDLE")
      <4>1. LastReport(gen.t, gen.seq) \in ReportWord
        BY <2>1, <3>5, ReportsAreWords
      <4> QED BY <3>3, <3>5, <4>1
    <3> QED BY <3>1, <3>2, <3>4, <3>5 DEF Tick, ReportEdge
  <2> QED BY <2>3 DEF A, B, One, TradeWord, ReportWord, NoWord
<1>4. /\ (out \in [state : {"E_IDLE", "E_START", "E_SEND"}, word : One(ReportWord \union AckWord)])'
      /\ (reports \in Seq(ReportWord) /\ answers \in Seq([n : Nat, after : Nat]))'
      /\ (out.state = "E_IDLE" <=> out.word = <<>>)'
  <2> DEFINE A == One(ReportWord \union AckWord)
             E == {"E_IDLE", "E_START", "E_SEND"}
  <2>1. /\ out \in [state : E, word : A]
        /\ reports \in Seq(ReportWord) /\ answers \in Seq([n : Nat, after : Nat])
        /\ out.state = "E_IDLE" <=> out.word = <<>>
        /\ Len(reports) \in Nat
    BY DEF Typed
  <2>2. <<>> \in A /\ \A w \in ReportWord \union AckWord : <<w>> \in A /\ <<w>> # <<>>
    BY DEF One
  <2>3. EgressEdge(ready)
    BY DEF Tick
  <2>4. out.word # <<>> => \E w \in ReportWord \union AckWord : out.word = <<w>>
    BY <2>1 DEF One
  <2>5. /\ \A v \in ReportWord \union AckWord : v.type = "REPORT" => v \in ReportWord
        /\ \A v \in ReportWord \union AckWord : v.type # "REPORT" => v \in AckWord
    BY DEF ReportWord, AckWord
  <2>6. \A w \in AckWord, k \in Nat : [n |-> w.n, after |-> k] \in [n : Nat, after : Nat]
    BY DEF AckWord
  <2> HIDE DEF A
  <2>7. /\ out' \in [state : E, word : A]
        /\ reports' \in Seq(ReportWord) /\ answers' \in Seq([n : Nat, after : Nat])
        /\ out'.state = "E_IDLE" <=> out'.word = <<>>
    <3>1. CASE out.state = "E_IDLE"
      <4>1. ReportPop => FrontWord(repFifo) \in ReportWord
        BY FrontIsFirst DEF Typed, ReportPop
      <4>2. AckPop => FrontWord(ackFifo) \in AckWord
        BY FrontIsFirst DEF Typed, AckPop
      <4>3. /\ out' = IF ReportPop THEN [state |-> "E_START", word |-> <<FrontWord(repFifo)>>]
                      ELSE IF AckPop THEN [state |-> "E_START", word |-> <<FrontWord(ackFifo)>>]
                           ELSE out
            /\ reports' = reports /\ answers' = answers
        BY <2>3, <3>1 DEF EgressEdge
      <4> QED BY <2>1, <2>2, <4>1, <4>2, <4>3
    <3>2. CASE out.state = "E_START"
      <4>1. out' = (IF ready THEN [out EXCEPT !.state = "E_SEND"] ELSE out)
            /\ reports' = reports /\ answers' = answers
        BY <2>3, <3>2 DEF EgressEdge
      <4> QED BY <2>1, <3>2, <4>1
    <3>3. CASE out.state = "E_SEND" /\ ~ready
      BY <2>1, <2>3, <3>3 DEF EgressEdge
    <3>4. CASE out.state = "E_SEND" /\ ready
      <4>1. PICK w \in ReportWord \union AckWord : out.word = <<w>>
        BY <2>1, <2>4, <3>4
      <4>2. out.word[1] = w
        BY <4>1
      <4>3. /\ out' = [state |-> "E_IDLE", word |-> <<>>]
            /\ IF w.type = "REPORT"
               THEN reports' = Append(reports, w) /\ answers' = answers
               ELSE /\ answers' = Append(answers, [n |-> w.n, after |-> Len(reports)])
                    /\ reports' = reports
        BY <2>3, <3>4, <4>2 DEF EgressEdge
      <4>4. CASE w.type = "REPORT"
        <5>1. w \in ReportWord /\ reports' = Append(reports, w) /\ answers' = answers
          <6>1. w \in ReportWord
            BY <2>5, <4>1, <4>4
          <6>2. reports' = Append(reports, w) /\ answers' = answers
            BY <4>3, <4>4
          <6> QED BY <6>1, <6>2
        <5>2. Append(reports, w) \in Seq(ReportWord)
          BY <2>1, <5>1, AppendProperties
        <5>3. reports' \in Seq(ReportWord) /\ answers' \in Seq([n : Nat, after : Nat])
          BY <2>1, <5>1, <5>2
        <5>4. out' \in [state : E, word : A] /\ out'.state = "E_IDLE" /\ out'.word = <<>>
          BY <2>2, <4>3
        <5> QED BY <5>3, <5>4
      <4>5. CASE w.type # "REPORT"
        <5>1. [n |-> w.n, after |-> Len(reports)] \in [n : Nat, after : Nat]
          BY <2>1, <2>5, <2>6, <4>5
        <5> DEFINE v == [n |-> w.n, after |-> Len(reports)]
        <5> HIDE DEF v
        <5>2. answers' = Append(answers, v) /\ v \in [n : Nat, after : Nat] /\ reports' = reports
          BY <4>3, <4>5, <5>1 DEF v
        <5> QED BY <2>1, <2>2, <4>3, <5>2
      <4> QED BY <4>4, <4>5
    <3> QED BY <2>1, <3>1, <3>2, <3>3, <3>4
  <2> QED BY <2>7 DEF A, One, ReportWord, AckWord
<1>5. crowded' \in BOOLEAN
  BY DEF Tick, Typed
<1> QED BY <1>1, <1>2, <1>3, <1>4, <1>5 DEF Typed

-----------------------------------------------------------------------------
(* What an edge does, case by case: to the producers, the report FSM, the     *)
(* egress.                                                                   *)

Works ==
    /\ src.at = "WORK" /\ src'.offer = <<>> /\ trades' = trades /\ acks' = acks
    /\ src'.at = "WORK" => src'.wait = IF src.wait = 0 THEN 0 ELSE src.wait - 1
    /\ src'.at = "ACK" => src.wait = 0

TradeMade ==
    /\ src.at = "TRADE" /\ Ready(tradeFifo)
    /\ src'.at = "WORK" /\ src'.wait = TradeGap /\ src'.offer = <<src.word>>
    /\ trades' = Append(trades, src.word) /\ acks' = acks

TradeStays ==
    /\ src.at = "TRADE" /\ ~Ready(tradeFifo)
    /\ src'.at = "TRADE" /\ src'.offer = <<src.word>> /\ src'.word = src.word
    /\ trades' = trades /\ acks' = acks

AckMade ==
    /\ src.at = "ACK" /\ Ready(ackFifo)
    /\ src'.at = "WORK" /\ src'.wait = AckGap /\ src'.offer = src.offer
    /\ trades' = trades /\ acks' = Append(acks, Len(trades))

AckStays ==
    /\ src.at = "ACK" /\ ~Ready(ackFifo)
    /\ src' = src /\ trades' = trades /\ acks' = acks

\* The producers work, or have a trade or an acknowledgement taken or not.
LEMMA SourceMoves ==
    ASSUME Typed, NEW ready, Tick(ready)
    PROVE  Works \/ TradeMade \/ TradeStays \/ AckMade \/ AckStays
<1>1. src = [at |-> src.at, wait |-> src.wait, offer |-> src.offer, word |-> src.word]
  BY DEF Typed
<1>2. SourceEdge
  BY DEF Tick
<1>3. CASE Work
  BY <1>1, <1>3 DEF Work, Works
<1>4. CASE BeginTrade
  <2>1. PICK w : src' = [src EXCEPT !.at = "TRADE", !.offer = <<>>, !.word = w]
    BY <1>4 DEF BeginTrade
  <2>2. src.at = "WORK" /\ trades' = trades /\ acks' = acks
    BY <1>4 DEF BeginTrade
  <2> QED BY <1>1, <2>1, <2>2 DEF Works
<1>5. CASE OfferTrade /\ TradeReady
  BY <1>1, <1>5 DEF OfferTrade, TradeReady, TradeMade
<1>6. CASE OfferTrade /\ ~TradeReady
  BY <1>1, <1>6 DEF OfferTrade, TradeReady, TradeStays
<1>7. CASE BeginAck
  BY <1>1, <1>7 DEF BeginAck, Works
<1>8. CASE OfferAck /\ Ready(ackFifo)
  BY <1>1, <1>8 DEF OfferAck, AckMade
<1>9. CASE OfferAck /\ ~Ready(ackFifo)
  BY <1>1, <1>9 DEF OfferAck, AckStays
<1> QED BY <1>2, <1>3, <1>4, <1>5, <1>6, <1>7, <1>8, <1>9 DEF SourceEdge

\* The report that the FSM pushes in its state.
Current ==
    IF gen.rstate = "R_BUYER" THEN BuyerReport(gen.t, gen.seq) ELSE LastReport(gen.t, gen.seq)

NoTrade ==
    /\ gen.rstate = "R_IDLE" /\ ~TradePop
    /\ gen'.rstate = "R_IDLE" /\ gen'.push = <<>> /\ gen'.t = gen.t /\ gen'.seq = gen.seq

TradeTaken ==
    /\ gen.rstate = "R_IDLE" /\ TradePop
    /\ gen'.rstate = IF Kind(gen'.t) = "MATCHED" THEN "R_BUYER" ELSE "R_SELLER"
    /\ gen'.push = <<>> /\ gen'.t = Contents(tradeFifo)[1] /\ gen'.seq = gen.seq

ReportOn ==
    /\ gen.rstate # "R_IDLE" /\ ~TradePop /\ Ready(repFifo)
    /\ gen'.rstate = IF gen.rstate = "R_BUYER" THEN "R_SELLER" ELSE "R_IDLE"
    /\ gen'.push = <<Current>> /\ gen'.t = gen.t /\ gen'.seq = gen.seq + 1

ReportStays ==
    /\ gen.rstate # "R_IDLE" /\ ~TradePop /\ ~Ready(repFifo)
    /\ gen'.rstate = gen.rstate
    /\ gen'.push = <<Current>> /\ gen'.t = gen.t /\ gen'.seq = gen.seq

\* The report FSM waits for a trade, takes one, or reports and goes on or not.
LEMMA ReportMoves ==
    ASSUME Typed, NEW ready, Tick(ready)
    PROVE  NoTrade \/ TradeTaken \/ ReportOn \/ ReportStays
<1>1. /\ gen = [rstate |-> gen.rstate, t |-> gen.t, seq |-> gen.seq, push |-> gen.push]
      /\ gen.rstate \in {"R_IDLE", "R_BUYER", "R_SELLER"}
  BY DEF Typed
<1>2. ReportEdge
  BY DEF Tick
<1>3. CASE TakeTrade /\ TradePop
  <2>1. FrontWord(tradeFifo) = Contents(tradeFifo)[1]
    BY <1>3, FrontIsFirst DEF TradePop, Typed
  <2> DEFINE t == Contents(tradeFifo)[1]
             x == IF Kind(t) = "MATCHED" THEN "R_BUYER" ELSE "R_SELLER"
  <2>2. gen' = [gen EXCEPT !.push = <<>>, !.t = t, !.rstate = x] /\ gen.rstate = "R_IDLE"
    BY <1>3, <2>1 DEF TakeTrade
  <2> HIDE DEF t, x
  <2>3. gen'.rstate = x /\ gen'.push = <<>> /\ gen'.t = t /\ gen'.seq = gen.seq
    BY <1>1, <2>2
  <2> QED BY <1>3, <2>2, <2>3 DEF TradeTaken, t, x
<1>4. CASE TakeTrade /\ ~TradePop
  BY <1>1, <1>4 DEF TakeTrade, NoTrade
<1>5. ASSUME NEW x, Report(Current, x), gen.rstate # "R_IDLE",
             x = IF gen.rstate = "R_BUYER" THEN "R_SELLER" ELSE "R_IDLE"
      PROVE  ReportOn \/ ReportStays
  <2>1. ~TradePop
    BY <1>5 DEF TradePop
  <2>2. CASE Ready(repFifo)
    BY <1>1, <1>5, <2>1, <2>2 DEF Report, ReportOn
  <2>3. CASE ~Ready(repFifo)
    BY <1>1, <1>5, <2>1, <2>3 DEF Report, ReportStays
  <2> QED BY <2>2, <2>3
<1>6. CASE gen.rstate = "R_BUYER" /\ Report(BuyerReport(gen.t, gen.seq), "R_SELLER")
  BY <1>5, <1>6 DEF Current
<1>7. CASE gen.rstate = "R_SELLER" /\ Report(LastReport(gen.t, gen.seq), "R_IDLE")
  BY <1>5, <1>7 DEF Current
<1> QED BY <1>2, <1>3, <1>4, <1>6, <1>7 DEF ReportEdge

SendsReport ==
    /\ ReportPop /\ ~AckPop /\ out.state = "E_IDLE"
    /\ out'.state = "E_START" /\ out'.word = <<Head(Contents(repFifo))>>
    /\ reports' = reports /\ answers' = answers

SendsAck ==
    /\ AckPop /\ ~ReportPop /\ out.state = "E_IDLE" /\ ~Valid(repFifo)
    /\ out'.state = "E_START" /\ out'.word = <<Contents(ackFifo)[1]>>
    /\ reports' = reports /\ answers' = answers

Keeps ==
    /\ ~AckPop /\ ~ReportPop /\ out'.word = out.word
    /\ \/ out'.state = out.state
       \/ out.state = "E_START" /\ out'.state = "E_SEND"
    /\ out.state = "E_IDLE" => ~Valid(repFifo)
    /\ reports' = reports /\ answers' = answers

Sent ==
    /\ ~AckPop /\ ~ReportPop /\ out.state = "E_SEND"
    /\ out'.state = "E_IDLE" /\ out'.word = <<>>
    /\ IF out.word[1].type = "REPORT"
       THEN reports' = Append(reports, out.word[1]) /\ answers' = answers
       ELSE /\ answers' = Append(answers, [n |-> out.word[1].n, after |-> Len(reports)])
            /\ reports' = reports

\* The egress takes a report or an acknowledgement, works on it, has sent it.
LEMMA EgressMoves ==
    ASSUME Typed, NEW ready, Tick(ready)
    PROVE  SendsReport \/ SendsAck \/ Keeps \/ Sent
<1>1. /\ out = [state |-> out.state, word |-> out.word]
      /\ out.state \in {"E_IDLE", "E_START", "E_SEND"}
  BY DEF Typed
<1>2. EgressEdge(ready)
  BY DEF Tick
<1>3. out.state # "E_IDLE" => ~AckPop /\ ~ReportPop
  BY DEF AckPop, ReportPop
<1>4. CASE out.state = "E_IDLE"
  <2>1. /\ out' = IF ReportPop THEN [state |-> "E_START", word |-> <<FrontWord(repFifo)>>]
                  ELSE IF AckPop THEN [state |-> "E_START", word |-> <<FrontWord(ackFifo)>>]
                       ELSE out
        /\ reports' = reports /\ answers' = answers
    BY <1>2, <1>4 DEF EgressEdge
  <2>2. CASE ReportPop
    <3>1. ~AckPop
      BY <2>2 DEF ReportPop, AckPop
    <3>2. FrontWord(repFifo) = Contents(repFifo)[1]
      BY <2>2, FrontIsFirst DEF ReportPop, Typed
    <3> QED BY <1>4, <2>1, <2>2, <3>1, <3>2 DEF SendsReport
  <2>3. CASE ~ReportPop /\ AckPop
    <3>1. FrontWord(ackFifo) = Contents(ackFifo)[1] /\ ~Valid(repFifo)
      BY <2>3, FrontIsFirst DEF AckPop, Typed
    <3> QED BY <1>4, <2>1, <2>3, <3>1 DEF SendsAck
  <2>4. CASE ~ReportPop /\ ~AckPop
    <3>1. ~Valid(repFifo)
      BY <1>4, <2>4 DEF ReportPop
    <3> QED BY <1>4, <2>1, <2>4, <3>1 DEF Keeps
  <2> QED BY <2>2, <2>3, <2>4
<1>5. CASE out.state = "E_START"
  <2>1. /\ out' = IF ready THEN [out EXCEPT !.state = "E_SEND"] ELSE out
        /\ reports' = reports /\ answers' = answers
    BY <1>2, <1>5 DEF EgressEdge
  <2> QED BY <1>1, <1>3, <1>5, <2>1 DEF Keeps
<1>6. CASE out.state = "E_SEND" /\ ~ready
  BY <1>2, <1>3, <1>6 DEF EgressEdge, Keeps
<1>7. CASE out.state = "E_SEND" /\ ready
  BY <1>2, <1>3, <1>7 DEF EgressEdge, Sent
<1> QED BY <1>1, <1>4, <1>5, <1>6, <1>7

-----------------------------------------------------------------------------
(* Trades, from their producer to the report FSM.                            *)

\* Acknowledgements are made of the trades there are, in order.
Ordered ==
    /\ Acknowledged \in Nat /\ Acknowledged <= Len(trades)
    /\ \A n \in 1 .. Len(acks) : acks[n] <= Acknowledged

\* A trade has been made and is offered, and will be in the FIFO after the edge.
OnTheWire == src.offer # <<>> /\ src.at # "TRADE" /\ Ready(tradeFifo)

\* The trades the report FSM has taken so far.
Taken == Len(trades) - tradeFifo.cnt - (IF OnTheWire THEN 1 ELSE 0)

\* The FIFO holds the trades after those taken.  An offer is of the last trade
\* made, or one that found the FIFO full an edge ago: at most one of the two edges
\* at which it is up finds room.
Offered ==
    /\ \A n \in 1 .. Len(trades) : trades[n].n = n
    /\ Taken \in Nat
    /\ \A i \in 1 .. tradeFifo.cnt : Contents(tradeFifo)[i] = trades[Taken + i]
    /\ src.at = "ACK" => src.offer = <<>>
    /\ src.at = "WORK" /\ src.offer # <<>> =>
          /\ Acknowledged < Len(trades) /\ src.offer = <<trades[Len(trades)]>>
          /\ src.wait = TradeGap
    /\ src.at = "TRADE" /\ src.offer # <<>> =>
          /\ src.offer = <<src.word>>
          /\ \/ tradeFifo.cnt = Depth
             \/ tradeFifo.cnt = Depth - 1 /\ gen.rstate # "R_IDLE"

\* Whatever happens, the trades there are stay.
LEMMA TradesStay ==
    ASSUME Typed, NEW ready, Tick(ready)
    PROVE  /\ Len(trades) \in Nat /\ Len(trades') \in Nat
           /\ Len(trades) <= Len(trades')
           /\ \A k \in 1 .. Len(trades) : trades'[k] = trades[k]
           /\ trades' # trades => TradeMade
           /\ trades' \in Seq(TradeWord)
<1>1. trades \in Seq(TradeWord) /\ Len(trades) \in Nat
  BY DEF Typed
<1>2. trades' = trades \/ TradeMade
  BY SourceMoves DEF Works, TradeStays, AckMade, AckStays
<1>3. CASE trades' = trades
  BY <1>1, <1>3
<1>4. CASE TradeMade
  <2>1. src.word \in TradeWord /\ trades' = Append(trades, src.word)
    BY <1>4 DEF TradeMade, Typed
  <2>2. /\ Append(trades, src.word) \in Seq(TradeWord)
        /\ Len(Append(trades, src.word)) = Len(trades) + 1
        /\ \A k \in 1 .. Len(trades) : Append(trades, src.word)[k] = trades[k]
    BY <1>1, <2>1, AppendProperties
  <2> QED BY <1>1, <1>4, <2>1, <2>2
<1> QED BY <1>2, <1>3, <1>4

\* Acknowledgements go on counting the trades made before them.
LEMMA OrderKept ==
    ASSUME Typed, Ordered, NEW ready, Tick(ready)
    PROVE  Ordered' /\ (Acknowledged' = Acknowledged \/ (AckMade /\ Acknowledged' = Len(trades)))
<1>1. acks \in Seq(Nat) /\ Len(acks) \in Nat /\ Len(trades) \in Nat /\ Len(trades) <= Len(trades')
      /\ Len(trades') \in Nat
  BY TradesStay DEF Typed
<1>2. acks' = acks \/ AckMade
  BY SourceMoves DEF Works, TradeStays, TradeMade, AckStays
<1>3. CASE acks' = acks
  BY <1>1, <1>3 DEF Ordered, Acknowledged
<1>4. CASE AckMade
  <2>1. acks' = Append(acks, Len(trades)) /\ trades' = trades
    BY <1>4 DEF AckMade
  <2>2. /\ Len(acks') = Len(acks) + 1 /\ acks' # <<>>
        /\ acks'[Len(acks) + 1] = Len(trades)
        /\ \A n \in 1 .. Len(acks) : acks'[n] = acks[n]
    BY <1>1, <2>1, AppendProperties
  <2>3. Acknowledged' = Len(trades)
    BY <2>2 DEF Acknowledged
  <2>4. ASSUME NEW n \in 1 .. Len(acks') PROVE acks'[n] <= Acknowledged'
    <3>1. CASE n = Len(acks) + 1
      BY <1>1, <2>2, <2>3, <3>1
    <3>2. CASE n # Len(acks) + 1
      <4>1. n \in 1 .. Len(acks)
        BY <1>1, <2>2, <3>2
      <4>2. acks[n] <= Acknowledged /\ acks[n] \in Nat /\ Acknowledged \in Nat
            /\ Acknowledged <= Len(trades)
        BY <1>1, <4>1 DEF Ordered
      <4> QED BY <1>1, <2>2, <2>3, <4>1, <4>2
    <3> QED BY <3>1, <3>2
  <2> QED BY <1>1, <1>4, <2>1, <2>3, <2>4 DEF Ordered
<1> QED BY <1>2, <1>3, <1>4

\* The report FSM takes the trades in order, each once.
LEMMA TakenMoves ==
    ASSUME Typed, Ordered, Offered, NEW ready, Tick(ready)
    PROVE  Taken' = Taken + (IF TradePop THEN 1 ELSE 0)
<1> DEFINE gone == IF TradePop THEN 1 ELSE 0
           push == src.offer # <<>> /\ Ready(tradeFifo)
           c == tradeFifo.cnt
           L == Len(trades)
<1>1. /\ c \in 0 .. Depth /\ tradeFifo'.cnt \in 0 .. Depth /\ (TradePop => c > 0)
      /\ tradeFifo'.cnt = (c - gone) + (IF push THEN 1 ELSE 0)
  BY TradeFifoEdge
<1>2. L \in Nat /\ Len(trades') \in Nat
  BY TradesStay
<1>3. (Ready(tradeFifo) <=> c # Depth) /\ (Ready(tradeFifo)' <=> tradeFifo'.cnt # Depth)
  BY DEF Ready
<1>4. gone \in {0, 1} /\ (TradePop => gen.rstate = "R_IDLE")
  BY DEF TradePop
<1>5. CASE Works
  <2>1. (OnTheWire <=> push) /\ ~OnTheWire' /\ Len(trades') = L
    BY <1>5 DEF Works, OnTheWire
  <2> QED BY <1>1, <1>2, <1>4, <2>1, DepthAssumption DEF Taken
<1>6. CASE TradeMade
  <2>1. ~OnTheWire /\ Len(trades') = L + 1 /\ src.at = "TRADE" /\ c # Depth
        /\ (OnTheWire' <=> tradeFifo'.cnt # Depth)
    <3>1. trades' = Append(trades, src.word) /\ trades \in Seq(TradeWord) /\ src.word \in TradeWord
      BY <1>6 DEF TradeMade, Typed
    <3>2. Len(trades') = L + 1
      BY <3>1, AppendProperties
    <3>3. src'.offer # <<>> /\ src'.at # "TRADE"
      BY <1>6 DEF TradeMade
    <3> QED BY <1>3, <1>6, <3>2, <3>3 DEF TradeMade, OnTheWire
  <2>2. CASE src.offer = <<>>
    <3>1. tradeFifo'.cnt = c - gone /\ tradeFifo'.cnt # Depth
      BY <1>1, <1>4, <2>1, <2>2, DepthAssumption
    <3> QED BY <1>1, <1>2, <1>4, <2>1, <3>1, DepthAssumption DEF Taken
  <2>3. CASE src.offer # <<>>
    <3>1. c = Depth - 1 /\ gen.rstate # "R_IDLE"
      BY <2>1, <2>3 DEF Offered
    <3>2. gone = 0 /\ ~TradePop /\ push
      BY <1>3, <1>4, <2>1, <2>3, <3>1
    <3>3. tradeFifo'.cnt = Depth
      BY <1>1, <3>1, <3>2, DepthAssumption
    <3> QED BY <1>1, <1>2, <2>1, <3>1, <3>2, <3>3, DepthAssumption DEF Taken
  <2> QED BY <2>2, <2>3
<1>7. CASE TradeStays
  <2>1. ~OnTheWire /\ ~OnTheWire' /\ Len(trades') = L /\ ~push
    BY <1>7 DEF TradeStays, OnTheWire
  <2> QED BY <1>1, <1>2, <1>4, <2>1, DepthAssumption DEF Taken
<1>8. CASE AckMade \/ AckStays
  <2>1. src.offer = <<>> /\ src'.offer = <<>> /\ Len(trades') = L
    BY <1>8 DEF AckMade, AckStays, Offered
  <2>2. ~OnTheWire /\ ~OnTheWire' /\ ~push
    BY <2>1 DEF OnTheWire
  <2> QED BY <1>1, <1>2, <1>4, <2>1, <2>2, DepthAssumption DEF Taken
<1> QED BY SourceMoves, <1>5, <1>6, <1>7, <1>8

\* A trade is taken from its producer once, although its valid is up a cycle longer.
LEMMA OffersKept ==
    ASSUME Typed, Ordered, Offered, NEW ready, Tick(ready)
    PROVE  Offered'
<1> DEFINE gone == IF TradePop THEN 1 ELSE 0
           push == src.offer # <<>> /\ Ready(tradeFifo)
           c == tradeFifo.cnt
           L == Len(trades)
<1>1. /\ c \in 0 .. Depth /\ tradeFifo'.cnt \in 0 .. Depth /\ (TradePop => c > 0)
      /\ tradeFifo'.cnt = (c - gone) + (IF push THEN 1 ELSE 0)
      /\ \A n \in 1 .. tradeFifo'.cnt :
            Contents(tradeFifo')[n] =
               IF n <= c - gone THEN Contents(tradeFifo)[n + gone] ELSE src.offer[1]
  BY TradeFifoEdge
<1>2. /\ L \in Nat /\ Len(trades') \in Nat /\ L <= Len(trades')
      /\ \A k \in 1 .. L : trades'[k] = trades[k]
      /\ trades' # trades => TradeMade
  BY TradesStay
<1>3. Taken \in Nat /\ Taken' = Taken + gone /\ gone \in {0, 1}
  BY TakenMoves DEF Offered
<1>4. TradeMade => /\ Len(trades') = L + 1 /\ trades'[L + 1] = src.word /\ src.word.n = L + 1
                   /\ src.at = "TRADE"
  <2> SUFFICES ASSUME TradeMade PROVE Len(trades') = L + 1 /\ trades'[L + 1] = src.word
                                      /\ src.word.n = L + 1 /\ src.at = "TRADE"
    OBVIOUS
  <2>1. /\ trades' = Append(trades, src.word) /\ trades \in Seq(TradeWord) /\ src.word \in TradeWord
        /\ src.word.n = L + 1 /\ src.at = "TRADE"
    BY DEF TradeMade, Typed
  <2> QED BY <2>1, AppendProperties
<1>5. \A n \in 1 .. Len(trades') : trades'[n].n = n
  <2> SUFFICES ASSUME NEW n \in 1 .. Len(trades') PROVE trades'[n].n = n
    OBVIOUS
  <2>1. CASE n \in 1 .. L
    BY <1>2, <2>1 DEF Offered
  <2>2. CASE n \notin 1 .. L
    <3>1. Len(trades') # L
      BY <1>2, <2>2
    <3>2. TradeMade
      BY <1>2, <3>1
    <3>3. n = L + 1
      BY <1>2, <1>4, <2>2, <3>2
    <3> QED BY <1>4, <3>2, <3>3
  <2> QED BY <2>1, <2>2
<1>6. \A i \in 1 .. tradeFifo'.cnt : Contents(tradeFifo')[i] = trades'[Taken' + i]
  <2> SUFFICES ASSUME NEW n \in 1 .. tradeFifo'.cnt
               PROVE  Contents(tradeFifo')[n] = trades'[Taken' + n]
    OBVIOUS
  <2>1. n \in Nat /\ n >= 1 /\ n <= tradeFifo'.cnt /\ c \in Nat /\ tradeFifo'.cnt \in Nat
    BY <1>1, DepthAssumption
  <2>2. Taken + c <= L /\ Taken \in Nat
    BY <1>2, <1>3, <2>1 DEF Taken
  <2> HIDE DEF c, L, gone, push
  <2>3. CASE n <= c - gone
    <3>1. n + gone \in 1 .. c /\ Taken + (n + gone) = Taken' + n /\ Taken + (n + gone) \in 1 .. L
      BY <1>1, <1>2, <1>3, <2>1, <2>2, <2>3
    <3>2. Contents(tradeFifo)[n + gone] = trades[Taken + (n + gone)]
      BY <3>1 DEF Offered, c
    <3>3. Contents(tradeFifo')[n] = Contents(tradeFifo)[n + gone]
      BY <1>1, <2>3
    <3>4. trades'[Taken + (n + gone)] = trades[Taken + (n + gone)]
      BY <1>2, <3>1
    <3> QED BY <3>1, <3>2, <3>3, <3>4
  <2>4. CASE ~(n <= c - gone)
    <3>1. push /\ n = c - gone + 1
      BY <1>1, <1>3, <2>1, <2>4
    <3>2. Contents(tradeFifo')[n] = src.offer[1] /\ Taken' + n = Taken + c + 1
      BY <1>1, <1>3, <2>1, <2>2, <2>4, <3>1
    <3>3. CASE src.at = "TRADE"
      <4>1. TradeMade
        BY SourceMoves, <3>1, <3>3 DEF push, Works, TradeStays, AckMade, AckStays
      <4>2. ~OnTheWire /\ src.offer = <<src.word>>
        BY <3>1, <3>3 DEF OnTheWire, Offered, push
      <4>3. Taken + c = L
        BY <1>1, <1>2, <2>1, <4>2 DEF Taken, c, L
      <4> QED BY <1>2, <1>4, <2>1, <2>2, <3>2, <4>1, <4>2, <4>3
    <3>4. CASE src.at # "TRADE"
      <4>1. OnTheWire
        BY <3>1, <3>4 DEF OnTheWire, push
      <4>2. src.at = "WORK"
        BY <3>1, <3>4 DEF Offered, push, Typed
      <4>3. src.offer = <<trades[L]>>
        BY <3>1, <4>2 DEF Offered, push, L
      <4>4. Taken + c + 1 = L
        BY <1>1, <1>2, <2>1, <4>1 DEF Taken, c, L
      <4>5. L \in 1 .. L
        BY <1>2, <2>1, <2>2, <4>4
      <4> QED BY <1>2, <3>2, <4>3, <4>4, <4>5
    <3> QED BY <3>3, <3>4
  <2> QED BY <2>3, <2>4
<1>7. src'.at = "ACK" => src'.offer = <<>>
  BY SourceMoves DEF Works, TradeMade, TradeStays, AckMade, AckStays, Offered
<1>8. src'.at = "WORK" /\ src'.offer # <<>> =>
          /\ Acknowledged' < Len(trades') /\ src'.offer = <<trades'[Len(trades')]>>
          /\ src'.wait = TradeGap
  <2> SUFFICES ASSUME src'.at = "WORK", src'.offer # <<>>
               PROVE  /\ Acknowledged' < Len(trades') /\ src'.offer = <<trades'[Len(trades')]>>
                      /\ src'.wait = TradeGap
    OBVIOUS
  <2>1. TradeMade
    BY SourceMoves DEF Works, TradeStays, AckMade, AckStays, Offered
  <2>2. acks' = acks /\ src'.offer = <<src.word>> /\ src'.wait = TradeGap
    BY <2>1 DEF TradeMade
  <2>3. Acknowledged' = Acknowledged /\ Acknowledged \in Nat /\ Acknowledged <= L
    BY <2>2 DEF Acknowledged, Ordered
  <2> QED BY <1>2, <1>4, <2>1, <2>2, <2>3
<1>9. src'.at = "TRADE" /\ src'.offer # <<>> =>
          /\ src'.offer = <<src'.word>>
          /\ \/ tradeFifo'.cnt = Depth
             \/ tradeFifo'.cnt = Depth - 1 /\ gen'.rstate # "R_IDLE"
  <2> SUFFICES ASSUME src'.at = "TRADE", src'.offer # <<>>
               PROVE  /\ src'.offer = <<src'.word>>
                      /\ \/ tradeFifo'.cnt = Depth
                         \/ tradeFifo'.cnt = Depth - 1 /\ gen'.rstate # "R_IDLE"
    OBVIOUS
  <2>1. TradeStays
    BY SourceMoves DEF Works, TradeMade, AckMade, AckStays
  <2>2. src'.offer = <<src'.word>> /\ c = Depth /\ ~push
    BY <2>1 DEF TradeStays, Ready
  <2>3. tradeFifo'.cnt = Depth - gone
    BY <1>1, <2>2, DepthAssumption
  <2>4. TradePop => gen'.rstate # "R_IDLE"
    BY ReportMoves DEF NoTrade, TradeTaken, ReportOn, ReportStays
  <2> QED BY <2>2, <2>3, <2>4, DepthAssumption
<1>10. Taken' \in Nat
  BY <1>3
<1> QED BY <1>5, <1>6, <1>7, <1>8, <1>9, <1>10 DEF Offered, Contents, Wrap

-----------------------------------------------------------------------------
(* The report FSM, and what its number stands for.                           *)

Reporting ==
    /\ gen.rstate = "R_IDLE" => gen.seq = Number(trades, Taken + 1)
    /\ gen.rstate # "R_IDLE" => Taken > 0 /\ gen.t = trades[Taken]
    /\ gen.rstate = "R_BUYER" => Kind(gen.t) = "MATCHED" /\ gen.seq = Number(trades, Taken)
    /\ gen.rstate = "R_SELLER" =>
          gen.seq = Number(trades, Taken) + (IF Kind(gen.t) = "MATCHED" THEN 1 ELSE 0)

\* The model's numbers and reports are those of the trades.
LEMMA Numbered ==
    /\ \A n : FirstReport(n) = Number(trades, n)
    /\ Expected = Calls(trades) /\ Expected' = Calls(trades')
BY DEF FirstReport, Number, MatchedIn, Expected, Calls, Kind, ReportsOf, BuyerReport, LastReport,
       MakeReport

\* The trades taken are trades made; their numbers do not change.
LEMMA TakenIs ==
    ASSUME Typed, Ordered, Offered, NEW ready, Tick(ready)
    PROVE  /\ Taken \in 0 .. Len(trades) /\ Taken' \in 0 .. Len(trades')
           /\ Len(trades) \in Nat /\ Len(trades') \in Nat
           /\ TradePop => Taken' \in 1 .. Len(trades) /\ Contents(tradeFifo)[1] = trades'[Taken']
           /\ ~TradePop => Taken' = Taken
           /\ \A n \in 1 .. Len(trades) + 1 : Number(trades', n) = Number(trades, n)
           /\ Calls(trades) \subseteq Calls(trades')
           /\ \A k \in 1 .. Len(trades) : trades'[k] = trades[k]
<1>1. /\ trades \in Seq(TradeWord) /\ trades' \in Seq(TradeWord)
      /\ Len(trades) \in Nat /\ Len(trades') \in Nat /\ Len(trades) <= Len(trades')
      /\ \A k \in 1 .. Len(trades) : trades'[k] = trades[k]
  BY TradesStay DEF Typed
<1>2. /\ \A n \in 1 .. Len(trades) + 1 : Number(trades', n) = Number(trades, n)
      /\ Calls(trades) \subseteq Calls(trades')
  BY <1>1, NumbersStay
<1>3. tradeFifo.cnt \in 0 .. Depth /\ (TradePop => tradeFifo.cnt > 0)
  BY TradeFifoEdge
<1>4. Taken \in Nat /\ Taken + tradeFifo.cnt <= Len(trades) /\ tradeFifo.cnt \in Nat
  BY <1>1, <1>3, DepthAssumption DEF Offered, Taken
<1>5. Taken' = Taken + (IF TradePop THEN 1 ELSE 0)
  BY TakenMoves
<1>6. TradePop => Taken' = Taken + 1 /\ Taken' \in 1 .. Len(trades)
  BY <1>1, <1>3, <1>4, <1>5
<1>7. ~TradePop => Taken' = Taken
  BY <1>4, <1>5
<1>8. TradePop => Contents(tradeFifo)[1] = trades'[Taken']
  <2> SUFFICES ASSUME TradePop PROVE Contents(tradeFifo)[1] = trades'[Taken']
    OBVIOUS
  <2>1. 1 \in 1 .. tradeFifo.cnt
    BY <1>3, <1>4
  <2>2. Contents(tradeFifo)[1] = trades[Taken + 1]
    BY <2>1 DEF Offered
  <2> QED BY <1>1, <1>6, <2>2
<1>9. Taken \in 0 .. Len(trades) /\ Taken' \in 0 .. Len(trades')
  BY <1>1, <1>4, <1>6, <1>7
<1> QED BY <1>1, <1>2, <1>6, <1>7, <1>8, <1>9

\* The FSM's number stays the one of the trade and the side it is at.
LEMMA ReportingKept ==
    ASSUME Typed, Ordered, Offered, Reporting, NEW ready, Tick(ready)
    PROVE  Reporting'
<1>1. /\ Taken \in 0 .. Len(trades) /\ Taken' \in 0 .. Len(trades')
      /\ Len(trades) \in Nat /\ Len(trades') \in Nat
      /\ TradePop => Taken' \in 1 .. Len(trades) /\ Contents(tradeFifo)[1] = trades'[Taken']
      /\ ~TradePop => Taken' = Taken
      /\ \A n \in 1 .. Len(trades) + 1 : Number(trades', n) = Number(trades, n)
      /\ \A k \in 1 .. Len(trades) : trades'[k] = trades[k]
  BY TakenIs
<1>2. TradePop => Taken' = Taken + 1
  BY TakenMoves
<1> SUFFICES /\ gen'.rstate = "R_IDLE" => gen'.seq = Number(trades', Taken' + 1)
             /\ gen'.rstate # "R_IDLE" => Taken' > 0 /\ gen'.t = trades'[Taken']
             /\ gen'.rstate = "R_BUYER" => Kind(gen'.t) = "MATCHED" /\ gen'.seq = Number(trades', Taken')
             /\ gen'.rstate = "R_SELLER" =>
                  gen'.seq = Number(trades', Taken') + (IF Kind(gen'.t) = "MATCHED" THEN 1 ELSE 0)
  BY DEF Reporting, Number, MatchedIn, Kind, Taken, OnTheWire, Ready
<1>3. CASE NoTrade
  <2>1. gen.rstate = "R_IDLE" /\ gen'.rstate = "R_IDLE" /\ gen'.seq = gen.seq /\ Taken' = Taken
    BY <1>1, <1>3 DEF NoTrade
  <2>2. Taken + 1 \in 1 .. Len(trades) + 1
    BY <1>1
  <2> QED BY <1>1, <2>1, <2>2 DEF Reporting
<1>4. CASE TradeTaken
  <2>1. /\ gen.rstate = "R_IDLE" /\ TradePop /\ gen'.seq = gen.seq
        /\ gen'.t = trades'[Taken'] /\ gen'.rstate # "R_IDLE"
        /\ gen'.rstate = "R_BUYER" <=> Kind(gen'.t) = "MATCHED"
    BY <1>1, <1>4 DEF TradeTaken
  <2>2. Taken + 1 \in 1 .. Len(trades) + 1 /\ Taken' = Taken + 1 /\ Taken' > 0
    BY <1>1, <1>2, <2>1
  <2>3. gen'.seq = Number(trades', Taken')
    BY <1>1, <2>1, <2>2 DEF Reporting
  <2>4. Number(trades', Taken') \in Nat
    BY <2>2, <1>1, NumberIs
  <2> QED BY <2>1, <2>2, <2>3, <2>4
<1>5. CASE ReportOn
  <2>1. /\ gen.rstate # "R_IDLE" /\ gen'.t = gen.t /\ gen'.seq = gen.seq + 1
        /\ gen'.rstate = IF gen.rstate = "R_BUYER" THEN "R_SELLER" ELSE "R_IDLE"
        /\ Taken' = Taken /\ Taken > 0 /\ gen.t = trades[Taken]
        /\ gen.rstate \in {"R_BUYER", "R_SELLER"}
    BY <1>1, <1>5 DEF ReportOn, Reporting, Typed
  <2>2. Taken \in Nat \ {0} /\ Taken \in 1 .. Len(trades) /\ Taken + 1 \in 1 .. Len(trades) + 1
        /\ Taken \in 1 .. Len(trades) + 1
    BY <1>1, <2>1
  <2>3. /\ trades'[Taken] = trades[Taken]
        /\ Number(trades', Taken) = Number(trades, Taken)
        /\ Number(trades', Taken + 1) = Number(trades, Taken + 1)
        /\ Number(trades, Taken) \in Nat
        /\ Number(trades, Taken + 1) = Number(trades, Taken) + (IF Kind(trades[Taken]) = "MATCHED" THEN 2 ELSE 1)
    BY <1>1, <2>2, NumberIs, NextNumber
  <2>4. CASE gen.rstate = "R_BUYER"
    BY <2>1, <2>3, <2>4 DEF Reporting
  <2>5. CASE gen.rstate = "R_SELLER"
    BY <2>1, <2>3, <2>5 DEF Reporting
  <2> QED BY <2>1, <2>4, <2>5
<1>6. CASE ReportStays
  <2>1. /\ gen.rstate # "R_IDLE" /\ gen'.t = gen.t /\ gen'.seq = gen.seq /\ gen'.rstate = gen.rstate
        /\ Taken' = Taken /\ Taken > 0 /\ gen.t = trades[Taken]
    BY <1>1, <1>6 DEF ReportStays, Reporting
  <2>2. Taken \in 1 .. Len(trades) /\ Taken \in 1 .. Len(trades) + 1
    BY <1>1, <2>1
  <2>3. trades'[Taken] = trades[Taken] /\ Number(trades', Taken) = Number(trades, Taken)
    BY <1>1, <2>2
  <2> QED BY <2>1, <2>3 DEF Reporting
<1> QED BY ReportMoves, <1>3, <1>4, <1>5, <1>6

\* The report the FSM is at is one that its trade calls for.
LEMMA CurrentIsExpected ==
    ASSUME Typed, Ordered, Offered, Reporting, NEW ready, Tick(ready), gen.rstate # "R_IDLE"
    PROVE  /\ Current \in Calls(trades) /\ Current.seq = gen.seq /\ Current \in ReportWord
           /\ gen.rstate = "R_SELLER" /\ Kind(gen.t) = "MATCHED" => Sellers(Current)
<1>1. /\ Taken \in 1 .. Len(trades) /\ gen.t = trades[Taken] /\ Taken \in DOMAIN trades
      /\ gen.t \in TradeWord /\ gen.seq \in Nat /\ gen.rstate \in {"R_BUYER", "R_SELLER"}
      /\ Taken \in Nat
  BY TakenIs DEF Reporting, Typed
<1>2. ReportsOf(gen.t, Number(trades, Taken)) \subseteq Calls(trades)
  BY <1>1 DEF Calls
<1>3. Number(trades, Taken) \in Nat
  BY <1>1, NumberIs
<1>4. CASE gen.rstate = "R_BUYER"
  BY <1>1, <1>2, <1>4, ReportsAreWords DEF Current, Reporting, ReportsOf
<1>5. CASE gen.rstate = "R_SELLER" /\ Kind(gen.t) = "MATCHED"
  BY <1>1, <1>2, <1>5, ReportsAreWords DEF Current, Reporting, ReportsOf
<1>6. CASE gen.rstate = "R_SELLER" /\ Kind(gen.t) # "MATCHED"
  <2>1. gen.seq = Number(trades, Taken)
    BY <1>3, <1>6 DEF Reporting
  <2>2. Current = LastReport(gen.t, gen.seq)
    BY <1>6 DEF Current
  <2> QED BY <1>1, <1>2, <1>6, <2>1, <2>2, ReportsAreWords DEF ReportsOf
<1> QED BY <1>1, <1>4, <1>5, <1>6

-----------------------------------------------------------------------------
(* The reports sent, being sent and waiting to be sent: one sequence.        *)

OutReport == IF out.word # <<>> /\ out.word[1].type = "REPORT" THEN out.word ELSE <<>>

Stream == (reports \o OutReport) \o Contents(repFifo)

\* A word in the egress is a report or an acknowledgement.
LEMMA WordInEgress ==
    ASSUME Typed, out.word # <<>>
    PROVE  /\ out.word = <<out.word[1]>>
           /\ out.word[1].type = "REPORT" => out.word[1] \in ReportWord
           /\ out.word[1].type # "REPORT" => out.word[1] \in AckWord
<1>1. out.word \in One(ReportWord \union AckWord)
  BY DEF Typed
<1>2. PICK w \in ReportWord \union AckWord : out.word = <<w>>
  BY <1>1 DEF One
<1>3. out.word[1] = w
  BY <1>2
<1> QED BY <1>2, <1>3 DEF ReportWord, AckWord

\* The sequence is of reports.
LEMMA StreamIsWords ==
    ASSUME Typed
    PROVE  Stream \in Seq(ReportWord) /\ OutReport \in Seq(ReportWord)
           /\ Contents(repFifo) \in Seq(ReportWord) /\ Len(Contents(repFifo)) = repFifo.cnt
<1>1. /\ Contents(repFifo) \in Seq(ReportWord) /\ Len(Contents(repFifo)) = repFifo.cnt
      /\ reports \in Seq(ReportWord)
  BY ContentsAreWords DEF Typed
<1>2. OutReport \in Seq(ReportWord)
  <2>1. CASE out.word # <<>> /\ out.word[1].type = "REPORT"
    <3>1. OutReport = <<out.word[1]>> /\ out.word[1] \in ReportWord
      BY <2>1, WordInEgress DEF OutReport
    <3> QED BY <3>1
  <2>2. CASE ~(out.word # <<>> /\ out.word[1].type = "REPORT")
    BY <2>2 DEF OutReport
  <2> QED BY <2>1, <2>2
<1>3. reports \o OutReport \in Seq(ReportWord)
  BY <1>1, <1>2, ConcatProperties
<1>4. (reports \o OutReport) \o Contents(repFifo) \in Seq(ReportWord)
  BY <1>1, <1>3, ConcatProperties
<1> QED BY <1>1, <1>2, <1>4 DEF Stream

\* An edge leaves the sequence or appends what the report FSM pushes.
LEMMA StreamMoves ==
    ASSUME Typed, NEW ready, Tick(ready)
    PROVE  /\ Stream \in Seq(ReportWord)
           /\ gen.push = <<>> \/ ~Ready(repFifo) => Stream' = Stream
           /\ gen.push # <<>> /\ Ready(repFifo) => Stream' = Append(Stream, gen.push[1])
<1> DEFINE C == Contents(repFifo)
           D == Contents(repFifo')
           push == gen.push # <<>> /\ Ready(repFifo)
           kept == IF ReportPop THEN Tail(C) ELSE C
           O == OutReport
           P == OutReport'
<1>1. /\ C \in Seq(ReportWord) /\ Len(C) = repFifo.cnt /\ reports \in Seq(ReportWord)
      /\ gen.push # <<>> => gen.push[1] \in ReportWord
  <2>1. FifoOK(repFifo, ReportWord) /\ reports \in Seq(ReportWord)
        /\ gen.push \in One(ReportWord)
    BY DEF Typed
  <2> QED BY <2>1, ContentsAreWords DEF One
<1>2. /\ ReportPop => repFifo.cnt > 0
      /\ D = IF push THEN Append(kept, gen.push[1]) ELSE kept
      /\ repFifo.cnt \in Nat
  BY ReportFifoEdge, DepthAssumption
<1>3. O \in Seq(ReportWord)
  BY StreamIsWords
<1>4. Stream' = (reports' \o P) \o D
  BY DEF Stream, Contents, Wrap
<1>5. kept \in Seq(ReportWord) /\ (reports' \o P) \in Seq(ReportWord)
      /\ (reports' \o P) \o kept = (reports \o O) \o C
  <2>1. reports \o O \in Seq(ReportWord)
    BY <1>1, <1>3, ConcatProperties
  <2>2. CASE SendsReport
    <3>1. C # <<>>
      BY <1>1, <1>2, <2>2 DEF SendsReport
    <3>2. /\ Head(C) \in ReportWord /\ <<Head(C)>> \in Seq(ReportWord) /\ Tail(C) \in Seq(ReportWord)
          /\ ((reports \o O) \o <<Head(C)>>) \o Tail(C) = (reports \o O) \o C
      BY <1>1, <2>1, <3>1, FrontMoves
    <3>3. O = <<>> /\ kept = Tail(C) /\ reports' = reports
      BY <2>2 DEF SendsReport, OutReport, Typed
    <3>4. P = <<Head(C)>>
      BY <2>2, <3>2 DEF SendsReport, OutReport, ReportWord
    <3>5. reports \o <<>> = reports
      BY <1>1, ConcatEmptySeq
    <3> QED BY <1>1, <3>2, <3>3, <3>4, <3>5, ConcatProperties
  <2>3. CASE SendsAck
    <3>1. O = <<>> /\ kept = C /\ reports' = reports
      BY <2>3 DEF SendsAck, OutReport, Typed
    <3>2. Contents(ackFifo)[1] \in AckWord
      BY <2>3, FrontIsFirst DEF SendsAck, AckPop, Typed
    <3>3. P = <<>>
      BY <2>3, <3>2 DEF SendsAck, OutReport, AckWord
    <3> QED BY <1>1, <2>1, <3>1, <3>3
  <2>4. CASE Keeps
    <3>1. P = O /\ kept = C /\ reports' = reports
      BY <2>4 DEF Keeps, OutReport
    <3> QED BY <1>1, <2>1, <3>1
  <2>5. CASE Sent
    <3>1. kept = C /\ out.word # <<>> /\ P = <<>>
      BY <2>5 DEF Sent, OutReport, Typed
    <3>2. CASE out.word[1].type = "REPORT"
      <4>1. O = <<out.word[1]>> /\ out.word[1] \in ReportWord /\ reports' = Append(reports, out.word[1])
        BY <2>5, <3>1, <3>2, WordInEgress DEF Sent, OutReport
      <4>2. reports' \in Seq(ReportWord) /\ reports' = reports \o O
        BY <1>1, <4>1, AppendProperties, AppendIsConcat
      <4>3. reports' \o <<>> = reports'
        BY <4>2, ConcatEmptySeq
      <4> QED BY <1>1, <2>1, <3>1, <4>2, <4>3
    <3>3. CASE out.word[1].type # "REPORT"
      <4>1. O = <<>> /\ reports' = reports
        BY <2>5, <3>1, <3>3 DEF Sent, OutReport
      <4> QED BY <1>1, <2>1, <3>1, <4>1
    <3> QED BY <3>2, <3>3
  <2> QED BY EgressMoves, <2>2, <2>3, <2>4, <2>5
<1>6. (reports \o O) \o C \in Seq(ReportWord)
  BY <1>1, <1>3, ConcatProperties
<1>7. Stream = (reports \o O) \o C
  BY DEF Stream
<1> HIDE DEF C, D, kept, O, P
<1>8. CASE push
  <2> DEFINE s == reports' \o P
             w == gen.push[1]
  <2>1. s \in Seq(ReportWord) /\ kept \in Seq(ReportWord) /\ w \in ReportWord
    BY <1>1, <1>5, <1>8
  <2> HIDE DEF s, w
  <2>2. s \o Append(kept, w) = Append(s \o kept, w)
    BY <2>1, AppendBehind
  <2> USE DEF s, w
  <2>3. D = Append(kept, gen.push[1])
    BY <1>2, <1>8
  <2>4. Stream' = Append(Stream, gen.push[1])
    BY <1>4, <1>5, <1>7, <2>2, <2>3
  <2> QED BY <1>6, <1>7, <1>8, <2>4
<1>9. CASE ~push
  BY <1>2, <1>4, <1>5, <1>6, <1>7, <1>9
<1> QED BY <1>8, <1>9

-----------------------------------------------------------------------------
(* What the report FSM pushes, and what becomes of it.                       *)

\* It found the FIFO full an edge ago.
Stalled ==
    /\ gen.rstate # "R_IDLE" /\ gen.push = <<Current>>
    /\ repFifo.cnt = Depth \/ (repFifo.cnt = Depth - 1 /\ out.state = "E_START")

\* The report is not in the sequence yet.  In R_SELLER there is a second place for
\* the seller's, or R_BUYER has met a FIFO with only one.
Fresh ==
    /\ \A i \in DOMAIN Stream : Stream[i].seq < gen.seq - 1
    /\ gen.rstate = "R_SELLER" => repFifo.cnt < Depth - 1 \/ crowded

\* The FSM has gone on: the push is the last report but for its number, and
\* reaches a full FIFO or is fresh.
Behind ==
    /\ gen.rstate # "R_BUYER" /\ gen.push # <<>>
    /\ gen.push[1].seq = gen.seq - 1 /\ gen.push[1] \in Calls(trades)
    /\ gen.rstate = "R_SELLER" => Kind(gen.t) = "MATCHED"
    /\ repFifo.cnt = Depth \/ Fresh

Pushing == gen.push = <<>> \/ Stalled \/ Behind

Arriving == gen.push # <<>> /\ gen.push[1].seq = gen.seq - 1 /\ Ready(repFifo)

\* The trades call for report k, it is the seller's of a match, and R_BUYER has met
\* a FIFO with one place left.
Lost(k) == crowded /\ \E r \in Calls(trades) : r.seq = k /\ Sellers(r)

\* The sequence is of reports called for, in order, and of all up to the FSM's
\* number but those lost and one that arrives now.
Streaming ==
    /\ \A i \in DOMAIN Stream : Stream[i] \in Calls(trades) /\ Stream[i].seq \in 1 .. gen.seq - 1
    /\ \A i, j \in DOMAIN Stream : i < j => Stream[i].seq < Stream[j].seq
    /\ \A k \in 1 .. gen.seq - 1 :
          (\E i \in DOMAIN Stream : Stream[i].seq = k) \/ (Arriving /\ k = gen.seq - 1) \/ Lost(k)
    /\ ~crowded => /\ \A i \in DOMAIN Stream : Stream[i].seq = i
                   /\ Len(Stream) + (IF Arriving THEN 1 ELSE 0) = gen.seq - 1

\* The sequence before and after an edge, word by word.
LEMMA StreamWords ==
    ASSUME Typed, NEW ready, Tick(ready)
    PROVE  LET push == gen.push # <<>> /\ Ready(repFifo)
           IN  /\ Len(Stream) \in Nat /\ DOMAIN Stream = 1 .. Len(Stream)
               /\ DOMAIN Stream' = 1 .. Len(Stream')
               /\ Len(Stream') = Len(Stream) + (IF push THEN 1 ELSE 0)
               /\ \A i \in 1 .. Len(Stream) : Stream'[i] = Stream[i]
               /\ push => Stream'[Len(Stream) + 1] = gen.push[1] /\ gen.push[1] \in ReportWord
<1>1. /\ Stream \in Seq(ReportWord) /\ Len(Stream) \in Nat /\ DOMAIN Stream = 1 .. Len(Stream)
      /\ gen.push = <<>> \/ ~Ready(repFifo) => Stream' = Stream
      /\ gen.push # <<>> /\ Ready(repFifo) => Stream' = Append(Stream, gen.push[1])
  BY StreamMoves
<1>2. CASE gen.push # <<>> /\ Ready(repFifo)
  <2>1. gen.push \in One(ReportWord)
    BY DEF Typed
  <2>2. gen.push[1] \in ReportWord
    BY <1>2, <2>1 DEF One
  <2> DEFINE S == Append(Stream, gen.push[1])
  <2>3. /\ S \in Seq(ReportWord) /\ Len(S) = Len(Stream) + 1 /\ S[Len(Stream) + 1] = gen.push[1]
        /\ \A i \in 1 .. Len(Stream) : S[i] = Stream[i]
    BY <1>1, <2>2, AppendProperties
  <2>4. Stream' = S /\ DOMAIN S = 1 .. Len(S)
    BY <1>1, <1>2, <2>3
  <2> HIDE DEF S
  <2> QED BY <1>1, <1>2, <2>2, <2>3, <2>4
<1>3. CASE ~(gen.push # <<>> /\ Ready(repFifo))
  BY <1>1, <1>3
<1> QED BY <1>2, <1>3

\* The FIFO at an edge: what the FSM's push needs of it.
LEMMA RoomMoves ==
    ASSUME Typed, NEW ready, Tick(ready)
    PROVE  LET push == gen.push # <<>> /\ Ready(repFifo)
           IN  /\ repFifo.cnt \in 0 .. Depth /\ repFifo'.cnt \in 0 .. Depth
               /\ (Ready(repFifo) <=> repFifo.cnt # Depth) /\ (Ready(repFifo)' <=> repFifo'.cnt # Depth)
               /\ \/ repFifo'.cnt = repFifo.cnt + (IF push THEN 1 ELSE 0)
                  \/ /\ repFifo'.cnt = repFifo.cnt - 1 + (IF push THEN 1 ELSE 0)
                     /\ out.state = "E_IDLE" /\ out'.state = "E_START" /\ repFifo.cnt > 0
               /\ crowded => crowded'
               /\ gen.rstate = "R_BUYER" /\ repFifo.cnt = Depth - 1 => crowded'
<1>1. /\ repFifo.cnt \in 0 .. Depth /\ repFifo'.cnt \in 0 .. Depth
      /\ ReportPop => repFifo.cnt > 0
      /\ repFifo'.cnt = (repFifo.cnt - (IF ReportPop THEN 1 ELSE 0))
            + (IF gen.push # <<>> /\ Ready(repFifo) THEN 1 ELSE 0)
  BY ReportFifoEdge
<1>2. ReportPop => out.state = "E_IDLE" /\ out'.state = "E_START"
  BY EgressMoves DEF SendsReport, SendsAck, Keeps, Sent
<1>3. /\ crowded => crowded'
      /\ gen.rstate = "R_BUYER" /\ repFifo.cnt = Depth - 1 => crowded'
  BY DEF Tick
<1>4. (Ready(repFifo) <=> repFifo.cnt # Depth) /\ (Ready(repFifo)' <=> repFifo'.cnt # Depth)
  BY DEF Ready
<1> QED BY <1>1, <1>2, <1>3, <1>4, DepthAssumption

\* Reports are numbered from 1.
LEMMA CalledIsPositive ==
    ASSUME NEW ts \in Seq(TradeWord), NEW r \in Calls(ts)
    PROVE  r.seq # 0
<1>1. PICK n \in DOMAIN ts : r \in ReportsOf(ts[n], Number(ts, n))
  BY DEF Calls
<1>2. n \in Nat \ {0} /\ ts[n] \in TradeWord
  BY <1>1
<1>3. Number(ts, n) \in Nat /\ Number(ts, n) >= n
  BY <1>2, NumberIs
<1>4. Number(ts, n) \in Nat \ {0} /\ Number(ts, n) + 1 \in Nat \ {0}
  BY <1>2, <1>3
<1>5. \/ r = BuyerReport(ts[n], Number(ts, n))
      \/ r = LastReport(ts[n], Number(ts, n))
      \/ r = LastReport(ts[n], Number(ts, n) + 1)
  BY <1>1 DEF ReportsOf
<1> QED BY <1>2, <1>4, <1>5, ReportsAreWords

\* When the FSM goes on, its report is stalled and leaves now, or is new to the
\* sequence.
LEMMA GoesOn ==
    ASSUME Typed, Ordered, Offered, Reporting, Pushing, Streaming, NEW ready, Tick(ready), ReportOn
    PROVE  /\ gen'.push[1] = Current /\ Current.seq = gen.seq /\ gen'.seq = gen.seq + 1
           /\ Current \in Calls(trades) /\ gen.seq \in Nat \ {0} /\ gen'.rstate # "R_BUYER"
           /\ \/ Stalled /\ repFifo'.cnt = Depth /\ Stream'[Len(Stream) + 1] = Current
                 /\ Len(Stream') = Len(Stream) + 1
              \/ /\ gen.push = <<>> \/ (Behind /\ Fresh /\ gen.rstate = "R_SELLER")
                 /\ \A i \in DOMAIN Stream' : Stream'[i].seq < gen.seq
                 /\ repFifo'.cnt = Depth => crowded /\ Sellers(Current) /\ gen'.rstate = "R_IDLE"
                 /\ gen'.rstate = "R_SELLER" => repFifo'.cnt < Depth - 1 \/ crowded'
<1>1. /\ Current \in Calls(trades) /\ Current.seq = gen.seq /\ gen.rstate # "R_IDLE"
      /\ gen.rstate = "R_SELLER" /\ Kind(gen.t) = "MATCHED" => Sellers(Current)
  BY CurrentIsExpected DEF ReportOn
<1>2. /\ gen'.push = <<Current>> /\ gen'.seq = gen.seq + 1 /\ Ready(repFifo) /\ gen.seq \in Nat \ {0}
      /\ gen'.rstate = (IF gen.rstate = "R_BUYER" THEN "R_SELLER" ELSE "R_IDLE")
      /\ gen.rstate \in {"R_BUYER", "R_SELLER"}
  BY <1>1 DEF ReportOn, Typed
<1>3. /\ repFifo.cnt \in Nat /\ repFifo'.cnt \in Nat /\ repFifo.cnt # Depth
      /\ repFifo.cnt <= Depth /\ repFifo'.cnt <= Depth
      /\ crowded => crowded'
      /\ gen.rstate = "R_BUYER" /\ repFifo.cnt = Depth - 1 => crowded'
      /\ \/ repFifo'.cnt = repFifo.cnt + (IF gen.push # <<>> THEN 1 ELSE 0)
         \/ /\ repFifo'.cnt = repFifo.cnt - 1 + (IF gen.push # <<>> THEN 1 ELSE 0)
            /\ out.state = "E_IDLE"
  BY <1>2, RoomMoves, DepthAssumption
<1>4. /\ Len(Stream) \in Nat /\ DOMAIN Stream = 1 .. Len(Stream)
      /\ DOMAIN Stream' = 1 .. Len(Stream')
      /\ Len(Stream') = Len(Stream) + (IF gen.push # <<>> THEN 1 ELSE 0)
      /\ \A i \in 1 .. Len(Stream) : Stream'[i] = Stream[i]
      /\ gen.push # <<>> => Stream'[Len(Stream) + 1] = gen.push[1]
  BY <1>2, StreamWords
<1>5. gen'.push[1] = Current /\ gen'.rstate # "R_BUYER"
  BY <1>2
<1>6. CASE Stalled
  <2>1. gen.push # <<>> /\ gen.push[1] = Current /\ repFifo'.cnt = Depth
    BY <1>3, <1>6, DepthAssumption DEF Stalled
  <2> QED BY <1>1, <1>2, <1>4, <1>5, <1>6, <2>1
<1>7. CASE gen.push = <<>>
  <2>1. /\ repFifo'.cnt <= repFifo.cnt /\ repFifo'.cnt # Depth
        /\ repFifo.cnt < Depth - 1 \/ repFifo.cnt = Depth - 1
    BY <1>3, <1>7, DepthAssumption
  <2>2. gen'.rstate = "R_SELLER" => repFifo'.cnt < Depth - 1 \/ crowded'
    BY <1>2, <1>3, <2>1, DepthAssumption
  <2>3. \A i \in DOMAIN Stream' : Stream'[i].seq < gen.seq
    <3> SUFFICES ASSUME NEW i \in DOMAIN Stream' PROVE Stream'[i].seq < gen.seq
      OBVIOUS
    <3>1. i \in 1 .. Len(Stream) /\ Stream'[i] = Stream[i]
      BY <1>4, <1>7
    <3>2. Stream[i].seq \in 1 .. gen.seq - 1
      BY <1>4, <3>1 DEF Streaming
    <3> QED BY <1>2, <3>1, <3>2
  <2> QED BY <1>1, <1>2, <1>5, <1>7, <2>1, <2>2, <2>3
<1>8. CASE gen.push # <<>> /\ Behind
  <2>1. /\ gen.rstate = "R_SELLER" /\ Kind(gen.t) = "MATCHED" /\ gen.push[1].seq = gen.seq - 1 /\ Fresh
        /\ repFifo.cnt < Depth - 1 \/ crowded
    BY <1>2, <1>3, <1>8 DEF Behind, Fresh
  <2>2. repFifo'.cnt = Depth => crowded
    BY <1>3, <1>8, <2>1, DepthAssumption
  <2>3. ASSUME NEW i \in DOMAIN Stream' PROVE Stream'[i].seq < gen.seq
    <3>1. CASE i = Len(Stream) + 1
      BY <1>2, <1>4, <1>8, <2>1, <3>1
    <3>2. CASE i # Len(Stream) + 1
      <4>1. i \in 1 .. Len(Stream)
        BY <1>4, <1>8, <3>2
      <4>2. Stream[i].seq \in 1 .. gen.seq - 1
        BY <1>4, <4>1 DEF Streaming
      <4> QED BY <1>2, <1>4, <4>1, <4>2
    <3> QED BY <3>1, <3>2
  <2> QED BY <1>1, <1>2, <1>5, <1>8, <2>1, <2>2, <2>3
<1> QED BY <1>6, <1>7, <1>8 DEF Pushing

\* What the FSM pushes stays stalled or behind it.
LEMMA PushesKept ==
    ASSUME Typed, Ordered, Offered, Reporting, Pushing, Streaming, NEW ready, Tick(ready)
    PROVE  Pushing'
<1>1. Calls(trades) \subseteq Calls(trades')
  BY TakenIs
<1>2. CASE NoTrade \/ TradeTaken
  BY <1>2 DEF NoTrade, TradeTaken, Pushing
<1>3. CASE ReportOn
  <2>1. /\ gen'.push[1] = Current /\ Current.seq = gen.seq /\ gen'.seq = gen.seq + 1
        /\ Current \in Calls(trades') /\ gen.seq \in Nat \ {0} /\ gen'.rstate # "R_BUYER"
        /\ gen'.seq - 1 = gen.seq /\ gen'.push # <<>>
    BY <1>1, <1>3, GoesOn DEF ReportOn
  <2>2. gen'.rstate = "R_SELLER" => Kind(gen'.t) = "MATCHED"
    BY <1>3 DEF ReportOn, Reporting
  <2>3. \/ repFifo'.cnt = Depth
        \/ /\ \A i \in DOMAIN Stream' : Stream'[i].seq < gen'.seq - 1
           /\ gen'.rstate = "R_SELLER" => repFifo'.cnt < Depth - 1 \/ crowded'
    BY <1>3, <2>1, GoesOn
  <2>4. Behind'
    BY <2>1, <2>2, <2>3 DEF Behind, Fresh, Calls, Number, MatchedIn, Kind
  <2> QED BY <2>4 DEF Pushing
<1>4. CASE ReportStays
  <2>1. /\ gen'.rstate # "R_IDLE" /\ gen'.push = <<Current>> /\ gen'.t = gen.t /\ gen'.seq = gen.seq
        /\ gen'.rstate = gen.rstate /\ repFifo.cnt = Depth /\ ~Ready(repFifo)
    BY <1>4, RoomMoves DEF ReportStays
  <2>2. Current' = Current
    BY <2>1 DEF Current, BuyerReport, LastReport, MakeReport, Kind
  <2>3. repFifo'.cnt = Depth \/ (repFifo'.cnt = Depth - 1 /\ out'.state = "E_START")
    BY <2>1, RoomMoves, DepthAssumption
  <2> QED BY <2>1, <2>2, <2>3 DEF Pushing, Stalled
<1> QED BY ReportMoves, <1>2, <1>3, <1>4

\* The pushes that reach the FIFO come behind the words there are.
LEMMA OrderedStream ==
    ASSUME Typed, Ordered, Offered, Reporting, Pushing, Streaming, NEW ready, Tick(ready)
    PROVE  /\ \A i \in DOMAIN Stream' :
                 Stream'[i] \in Calls(trades') /\ Stream'[i].seq \in 1 .. gen'.seq - 1
           /\ \A i, j \in DOMAIN Stream' : i < j => Stream'[i].seq < Stream'[j].seq
           /\ gen.push # <<>> /\ Ready(repFifo) =>
                 \/ gen.push[1].seq = gen.seq /\ gen'.seq = gen.seq + 1 /\ Stalled
                 \/ gen.push[1].seq = gen.seq - 1 /\ Behind /\ Fresh
           /\ gen.seq \in Nat \ {0} /\ (gen'.seq = gen.seq \/ gen'.seq = gen.seq + 1)
<1> DEFINE push == gen.push # <<>> /\ Ready(repFifo)
           S == Stream
           T == Stream'
           L == Len(Stream)
<1>1. /\ L \in Nat /\ DOMAIN S = 1 .. L /\ DOMAIN T = 1 .. Len(T)
      /\ Len(T) = L + (IF push THEN 1 ELSE 0)
      /\ \A i \in 1 .. L : T[i] = S[i]
      /\ push => T[L + 1] = gen.push[1]
  BY StreamWords
<1>2. Len(T) = L \/ (push /\ Len(T) = L + 1)
  <2> HIDE DEF push, S, T, L
  <2>1. CASE push
    BY <1>1, <2>1
  <2>2. CASE ~push
    BY <1>1, <2>2
  <2> QED BY <2>1, <2>2
<1>3. gen.seq \in Nat \ {0} /\ (gen'.seq = gen.seq \/ gen'.seq = gen.seq + 1)
  BY ReportMoves DEF Typed, NoTrade, TradeTaken, ReportOn, ReportStays
<1>4. Calls(trades) \subseteq Calls(trades')
  BY TakenIs
<1>5. ASSUME push
      PROVE  /\ \/ gen.push[1].seq = gen.seq /\ gen'.seq = gen.seq + 1 /\ Stalled
                \/ gen.push[1].seq = gen.seq - 1 /\ Behind /\ Fresh /\ gen.seq - 1 \in Nat \ {0}
             /\ gen.push[1] \in Calls(trades)
             /\ \A i \in 1 .. L : S[i].seq < gen.push[1].seq
  <2>1. CASE Stalled
    <3>1. gen.rstate # "R_IDLE" /\ gen.push[1] = Current
      BY <2>1 DEF Stalled
    <3>2. Current \in Calls(trades) /\ Current.seq = gen.seq
      BY <3>1, CurrentIsExpected
    <3>3. ReportOn
      BY <1>5, <3>1, ReportMoves DEF NoTrade, TradeTaken, ReportStays
    <3>4. gen'.seq = gen.seq + 1
      BY <3>3 DEF ReportOn
    <3>5. ASSUME NEW i \in 1 .. L PROVE S[i].seq < gen.seq
      <4>1. S[i].seq \in 1 .. gen.seq - 1
        BY <1>1 DEF Streaming
      <4> QED BY <1>3, <4>1
    <3> QED BY <2>1, <3>1, <3>2, <3>4, <3>5
  <2>2. CASE Behind
    <3>1. /\ gen.push[1].seq = gen.seq - 1 /\ Fresh /\ gen.push[1] \in Calls(trades)
      BY <1>5, <2>2 DEF Behind, Ready
    <3>2. gen.push[1] \in ReportWord /\ gen.push[1].seq \in Nat
      BY <1>5, StreamWords DEF ReportWord
    <3>3. \A i \in 1 .. L : S[i].seq < gen.push[1].seq
      BY <1>1, <3>1 DEF Fresh
    <3>4. gen.seq - 1 \in Nat \ {0}
      <4>1. gen.push[1].seq # 0
        BY <3>1, CalledIsPositive DEF Typed
      <4> QED BY <3>1, <3>2, <4>1
    <3> QED BY <2>2, <3>1, <3>3, <3>4
  <2> QED BY <1>5, <2>1, <2>2 DEF Pushing
<1>6. ASSUME NEW i \in DOMAIN T PROVE T[i] \in Calls(trades') /\ T[i].seq \in 1 .. gen'.seq - 1
  <2>1. CASE i \in 1 .. L
    <3>1. S[i] \in Calls(trades) /\ S[i].seq \in 1 .. gen.seq - 1 /\ T[i] = S[i]
      BY <1>1, <2>1 DEF Streaming
    <3> QED BY <1>3, <1>4, <3>1
  <2>2. CASE i \notin 1 .. L
    <3>1. push /\ i = L + 1 /\ T[i] = gen.push[1]
      <4> HIDE DEF push, T, L
      <4> QED BY <1>2, <1>1, <2>2
    <3>2. gen.push[1] \in Calls(trades) /\ gen.push[1].seq \in 1 .. gen'.seq - 1
      BY <1>3, <1>5, <3>1
    <3> QED BY <1>4, <3>1, <3>2
  <2> QED BY <2>1, <2>2
<1>7. ASSUME NEW i \in DOMAIN T, NEW j \in DOMAIN T, i < j PROVE T[i].seq < T[j].seq
  <2>1. i \in 1 .. L /\ T[i] = S[i]
    <3> HIDE DEF push, S, T, L
    <3> QED BY <1>2, <1>1, <1>7
  <2>2. CASE j \in 1 .. L
    BY <1>1, <1>7, <2>1, <2>2 DEF Streaming
  <2>3. CASE j \notin 1 .. L
    <3>1. push /\ j = L + 1 /\ T[j] = gen.push[1]
      <4> HIDE DEF push, T, L
      <4> QED BY <1>2, <1>1, <2>3
    <3> QED BY <1>5, <2>1, <3>1
  <2> QED BY <2>2, <2>3
<1> HIDE DEF S, T, L
<1>8. push => \/ gen.push[1].seq = gen.seq /\ gen'.seq = gen.seq + 1 /\ Stalled
              \/ gen.push[1].seq = gen.seq - 1 /\ Behind /\ Fresh
  BY <1>5
<1> QED BY <1>3, <1>6, <1>7, <1>8 DEF T

\* Every number is in the sequence, arrives or is lost.
LEMMA AllAccounted ==
    ASSUME Typed, Ordered, Offered, Reporting, Pushing, Streaming, NEW ready, Tick(ready),
           NEW k \in 1 .. gen'.seq - 1
    PROVE  (\E i \in DOMAIN Stream' : Stream'[i].seq = k) \/ (Arriving' /\ k = gen'.seq - 1) \/ Lost(k)'
<1>1. /\ gen.seq \in Nat \ {0} /\ (gen'.seq = gen.seq \/ gen'.seq = gen.seq + 1)
  BY OrderedStream
<1>2. /\ Len(Stream) \in Nat /\ DOMAIN Stream = 1 .. Len(Stream)
      /\ DOMAIN Stream' = 1 .. Len(Stream')
      /\ \A i \in 1 .. Len(Stream) : Stream'[i] = Stream[i]
      /\ Len(Stream) <= Len(Stream')
      /\ gen.push # <<>> /\ Ready(repFifo) =>
            Stream'[Len(Stream) + 1] = gen.push[1] /\ Len(Stream) + 1 \in DOMAIN Stream'
  BY StreamWords
<1>3. Calls(trades) \subseteq Calls(trades')
  BY TakenIs
<1>4. crowded => crowded'
  BY RoomMoves
<1>5. \A r \in Calls(trades) : r.seq = k /\ Sellers(r) /\ crowded => Lost(k)'
  <2>1. \A r \in Calls(trades') : r.seq = k /\ Sellers(r) /\ crowded' => Lost(k)'
    BY DEF Lost, Sellers, Calls, Number, MatchedIn, Kind, ReportsOf, BuyerReport, LastReport, MakeReport
  <2> QED BY <1>3, <1>4, <2>1
<1>6. CASE k \in 1 .. gen.seq - 1
  <2>1. CASE \E i \in DOMAIN Stream : Stream[i].seq = k
    <3>1. PICK i \in DOMAIN Stream : Stream[i].seq = k
      BY <2>1
    <3>2. i \in DOMAIN Stream' /\ Stream'[i].seq = k
      BY <1>2, <3>1
    <3> QED BY <3>2
  <2>2. CASE Arriving /\ k = gen.seq - 1
    <3>1. Stream'[Len(Stream) + 1].seq = k /\ Len(Stream) + 1 \in DOMAIN Stream'
      BY <1>2, <2>2 DEF Arriving
    <3> QED BY <3>1
  <2>3. CASE Lost(k)
    BY <1>5, <2>3 DEF Lost
  <2> QED BY <1>6, <2>1, <2>2, <2>3 DEF Streaming
<1>7. CASE k \notin 1 .. gen.seq - 1
  <2>1. k = gen.seq /\ gen'.seq = gen.seq + 1 /\ k = gen'.seq - 1
    BY <1>1, <1>7
  <2>2. ReportOn
    BY <1>1, <2>1, ReportMoves DEF NoTrade, TradeTaken, ReportStays
  <2>3. gen'.push[1] = Current /\ Current.seq = gen.seq /\ Current \in Calls(trades) /\ gen'.push # <<>>
    BY <2>2, GoesOn DEF ReportOn
  <2>4. CASE Stalled /\ repFifo'.cnt = Depth /\ Stream'[Len(Stream) + 1] = Current
             /\ Len(Stream') = Len(Stream) + 1
    <3>1. Len(Stream) + 1 \in DOMAIN Stream' /\ Stream'[Len(Stream) + 1].seq = k
      BY <1>2, <2>1, <2>3, <2>4
    <3> QED BY <3>1
  <2>5. CASE repFifo'.cnt # Depth
    <3>1. Ready(repFifo)'
      BY <2>5, RoomMoves
    <3>2. gen'.push[1].seq = gen'.seq - 1
      BY <2>1, <2>3
    <3>3. Arriving'
      BY <2>3, <3>1, <3>2 DEF Arriving
    <3> QED BY <2>1, <3>3
  <2>6. CASE crowded /\ Sellers(Current)
    BY <1>5, <2>1, <2>3, <2>6
  <2> QED BY <2>2, <2>4, <2>5, <2>6, GoesOn
<1> QED BY <1>6, <1>7

\* Until R_BUYER meets a FIFO with one place left, nothing is lost.
LEMMA AllThere ==
    ASSUME Typed, Ordered, Offered, Reporting, Pushing, Streaming, NEW ready, Tick(ready), ~crowded'
    PROVE  /\ \A i \in DOMAIN Stream' : Stream'[i].seq = i
           /\ Len(Stream') + (IF Arriving' THEN 1 ELSE 0) = gen'.seq - 1
<1> DEFINE L == Len(Stream)
           M == Len(Stream')
           N == gen.seq
           push == gen.push # <<>> /\ Ready(repFifo)
           r == gen.push[1].seq
<1>1. ~crowded
  BY RoomMoves
<1>2. L \in Int /\ M \in Int /\ N \in Int /\ (push => M = L + 1) /\ (~push => M = L)
  BY StreamWords, OrderedStream
<1>3. (Arriving => L + 1 = N - 1) /\ (~Arriving => L = N - 1)
  <2>1. L + (IF Arriving THEN 1 ELSE 0) = N - 1
    BY <1>1 DEF Streaming
  <2> QED BY <1>2, <2>1
<1>4. push => (r = N /\ gen'.seq = N + 1) \/ r = N - 1
  BY OrderedStream
<1>5. (Arriving => push /\ r = N - 1) /\ (push /\ r = N - 1 => Arriving)
  BY DEF Arriving
<1>6. /\ push => r = L + 1
      /\ push /\ ~Arriving => gen'.seq = N + 1
  <2> HIDE DEF L, M, N, push, r
  <2> QED BY <1>2, <1>3, <1>4, <1>5
<1>7. ASSUME NEW i \in DOMAIN Stream' PROVE Stream'[i].seq = i
  <2>1. /\ DOMAIN Stream = 1 .. L /\ DOMAIN Stream' = 1 .. M
        /\ \A j \in 1 .. L : Stream'[j] = Stream[j]
        /\ push => Stream'[L + 1] = gen.push[1]
    BY StreamWords
  <2>2. \A j \in DOMAIN Stream : Stream[j].seq = j
    BY <1>1 DEF Streaming
  <2> HIDE DEF L, M, push
  <2>3. CASE i \in 1 .. L
    BY <2>1, <2>2, <2>3
  <2>4. CASE i \notin 1 .. L
    <3>1. push /\ i = L + 1
      BY <1>2, <2>1, <2>4
    <3> QED BY <1>6, <2>1, <3>1
  <2> QED BY <2>3, <2>4
<1>8. (Arriving' => M + 1 = gen'.seq - 1) /\ (~Arriving' => M = gen'.seq - 1)
  <2>1. CASE NoTrade \/ TradeTaken
    <3>1. gen'.seq = N /\ gen'.push = <<>> /\ ~Arriving'
      BY <2>1 DEF NoTrade, TradeTaken, Arriving
    <3> HIDE DEF L, M, N, push, r
    <3>2. push => Arriving
      BY <1>2, <1>6, <3>1
    <3> QED BY <1>2, <1>3, <1>5, <3>1, <3>2
  <2>2. CASE ReportStays
    <3>1. gen'.push[1] = Current /\ gen'.seq = N /\ ~push
      BY <2>2 DEF ReportStays
    <3>2. Current.seq = N
      BY <2>2, CurrentIsExpected DEF ReportStays
    <3>3. ~Arriving'
      BY <1>2, <3>1, <3>2 DEF Arriving
    <3> HIDE DEF L, M, N, push, r
    <3> QED BY <1>2, <1>3, <1>5, <3>1, <3>3
  <2>3. CASE ReportOn
    <3>1. /\ gen'.push[1] = Current /\ gen'.seq = N + 1 /\ gen'.push # <<>>
          /\ Ready(repFifo) /\ Current.seq = N
      BY <2>3, GoesOn DEF ReportOn
    <3>2. gen'.push[1].seq = gen'.seq - 1
      <4> HIDE DEF N
      <4> QED BY <1>2, <3>1
    <3>3. (Arriving' => repFifo'.cnt # Depth) /\ (repFifo'.cnt # Depth => Arriving')
      BY <3>1, <3>2, RoomMoves DEF Arriving
    <3>4. CASE Stalled /\ repFifo'.cnt = Depth
      <4>1. r = N /\ push
        BY <3>1, <3>4 DEF Stalled
      <4> HIDE DEF L, M, N, push, r
      <4>2. ~Arriving
        BY <1>2, <1>5, <4>1
      <4> QED BY <1>2, <1>3, <3>1, <3>3, <3>4, <4>1, <4>2
    <3>5. CASE repFifo'.cnt # Depth /\ gen.push = <<>>
      <4>1. ~push
        BY <3>5
      <4> HIDE DEF L, M, N, push, r
      <4> QED BY <1>2, <1>3, <1>5, <3>1, <3>3, <3>5, <4>1
    <3>6. CASE repFifo'.cnt # Depth /\ Behind
      <4>1. push /\ r = N - 1
        BY <3>1, <3>6 DEF Behind
      <4> HIDE DEF L, M, N, push, r
      <4> QED BY <1>2, <1>3, <1>5, <3>1, <3>3, <3>6, <4>1
    <3> QED BY <1>1, <2>3, <3>4, <3>5, <3>6, GoesOn
  <2> QED BY ReportMoves, <2>1, <2>2, <2>3
<1> QED BY <1>2, <1>7, <1>8

\* The sequence stays ordered and complete but for the lost.
LEMMA StreamKept ==
    ASSUME Typed, Ordered, Offered, Reporting, Pushing, Streaming, NEW ready, Tick(ready)
    PROVE  Streaming'
<1>1. /\ \A i \in DOMAIN Stream' :
            Stream'[i] \in Calls(trades') /\ Stream'[i].seq \in 1 .. gen'.seq - 1
      /\ \A i, j \in DOMAIN Stream' : i < j => Stream'[i].seq < Stream'[j].seq
  BY OrderedStream
<1>2. \A k \in 1 .. gen'.seq - 1 :
          (\E i \in DOMAIN Stream' : Stream'[i].seq = k) \/ (Arriving' /\ k = gen'.seq - 1) \/ Lost(k)'
  BY AllAccounted
<1>3. ~crowded' => /\ \A i \in DOMAIN Stream' : Stream'[i].seq = i
                   /\ Len(Stream') + (IF Arriving' THEN 1 ELSE 0) = gen'.seq - 1
  BY AllThere
<1>4. Calls(trades)' = Calls(trades')
  BY DEF Calls, Number, MatchedIn, Kind, ReportsOf, BuyerReport, LastReport, MakeReport
<1> QED BY <1>1, <1>2, <1>3, <1>4 DEF Streaming

-----------------------------------------------------------------------------
(* Acknowledgements.                                                         *)

OutAck == out.word # <<>> /\ out.word[1].type = "ACK"

\* The acknowledgements sent, the one in the egress and those in the FIFO are
\* those made, in order.
Answering ==
    /\ \A i \in 1 .. ackFifo.cnt : Contents(ackFifo)[i].n = Len(acks) - ackFifo.cnt + i
    /\ Len(answers) = Len(acks) - ackFifo.cnt - (IF OutAck THEN 1 ELSE 0)
    /\ OutAck => out.word[1].n = Len(answers) + 1
    /\ \A i \in 1 .. Len(answers) : answers[i].n = i

\* What an edge does to the acknowledgements made.
LEMMA AcksStay ==
    ASSUME Typed, NEW ready, Tick(ready)
    PROVE  /\ Len(acks) \in Nat /\ Len(acks') \in Nat /\ Len(acks) <= Len(acks')
           /\ \A k \in 1 .. Len(acks) : acks'[k] = acks[k] /\ acks[k] \in Nat
           /\ src.at = "ACK" /\ Ready(ackFifo) => Len(acks') = Len(acks) + 1
           /\ ~(src.at = "ACK" /\ Ready(ackFifo)) => acks' = acks
<1>1. acks \in Seq(Nat) /\ Len(acks) \in Nat /\ Len(trades) \in Nat
  BY DEF Typed
<1>2. CASE AckMade
  <2>1. acks' = Append(acks, Len(trades)) /\ src.at = "ACK" /\ Ready(ackFifo)
    BY <1>2 DEF AckMade
  <2>2. /\ Len(acks') = Len(acks) + 1
        /\ \A k \in 1 .. Len(acks) : acks'[k] = acks[k]
    BY <1>1, <2>1, AppendProperties
  <2> QED BY <1>1, <2>1, <2>2
<1>3. CASE ~AckMade
  <2>1. acks' = acks /\ ~(src.at = "ACK" /\ Ready(ackFifo))
    BY <1>3, SourceMoves DEF Works, TradeMade, TradeStays, AckMade, AckStays
  <2> QED BY <1>1, <2>1
<1> QED BY <1>2, <1>3

\* What an edge does to the acknowledgements sent.
LEMMA AnswersStay ==
    ASSUME Typed, NEW ready, Tick(ready)
    PROVE  /\ Len(answers) \in Nat /\ Len(reports) \in Nat
           /\ OutAck => out.word[1] \in AckWord
           /\ \/ AckPop /\ ~OutAck /\ OutAck' /\ out'.word[1] = Contents(ackFifo)[1]
                 /\ answers' = answers /\ reports' = reports
              \/ ~AckPop /\ ~OutAck /\ ~OutAck' /\ answers' = answers
              \/ ~AckPop /\ OutAck /\ OutAck' /\ out'.word = out.word
                 /\ answers' = answers /\ reports' = reports
              \/ /\ ~AckPop /\ OutAck /\ ~OutAck' /\ reports' = reports
                 /\ answers' \in Seq([n : Nat, after : Nat]) /\ Len(answers') = Len(answers) + 1
                 /\ answers'[Len(answers) + 1] = [n |-> out.word[1].n, after |-> Len(reports)]
                 /\ \A i \in 1 .. Len(answers) : answers'[i] = answers[i]
<1>1. /\ answers \in Seq([n : Nat, after : Nat]) /\ Len(answers) \in Nat
      /\ Len(reports) \in Nat
  BY DEF Typed
<1>2. OutAck => out.word[1] \in AckWord
  BY WordInEgress DEF OutAck
<1>3. CASE SendsReport
  <2>1. Head(Contents(repFifo)) \in ReportWord
    <3>1. Contents(repFifo) \in Seq(ReportWord) /\ Len(Contents(repFifo)) = repFifo.cnt
      BY ContentsAreWords DEF Typed
    <3>2. repFifo.cnt > 0 /\ repFifo.cnt \in Nat
      BY <1>3, ReportFifoEdge, DepthAssumption DEF SendsReport
    <3> QED BY <3>1, <3>2
  <2>2. out'.word # <<>> /\ out'.word[1] \in ReportWord
    BY <1>3, <2>1 DEF SendsReport
  <2>3. ~OutAck /\ ~OutAck'
    BY <1>3, <2>2 DEF SendsReport, OutAck, ReportWord, Typed
  <2> QED BY <1>1, <1>2, <1>3, <2>3 DEF SendsReport
<1>4. CASE SendsAck
  <2>1. Contents(ackFifo)[1] \in AckWord
    BY <1>4, FrontIsFirst DEF SendsAck, AckPop, Typed
  <2>2. out'.word # <<>> /\ out'.word[1] = Contents(ackFifo)[1]
    BY <1>4 DEF SendsAck
  <2>3. ~OutAck /\ OutAck'
    BY <1>4, <2>1, <2>2 DEF SendsAck, OutAck, AckWord, Typed
  <2> QED BY <1>1, <1>2, <1>4, <2>2, <2>3 DEF SendsAck
<1>5. CASE Keeps
  BY <1>1, <1>2, <1>5 DEF Keeps, OutAck
<1>6. CASE Sent
  <2>1. out.word # <<>> /\ ~OutAck' /\ ~AckPop
    BY <1>6 DEF Sent, OutAck, Typed
  <2>2. CASE OutAck
    <3> DEFINE w == [n |-> out.word[1].n, after |-> Len(reports)]
    <3>1. answers' = Append(answers, w) /\ reports' = reports
      BY <1>6, <2>2 DEF Sent, OutAck
    <3>2. w \in [n : Nat, after : Nat]
      BY <1>1, <1>2, <2>2 DEF AckWord
    <3> HIDE DEF w
    <3>3. /\ answers' \in Seq([n : Nat, after : Nat]) /\ Len(answers') = Len(answers) + 1
          /\ answers'[Len(answers) + 1] = w
          /\ \A i \in 1 .. Len(answers) : answers'[i] = answers[i]
      BY <1>1, <3>1, <3>2, AppendProperties
    <3> QED BY <1>1, <1>2, <2>1, <2>2, <3>1, <3>3 DEF w
  <2>3. CASE ~OutAck
    <3>1. out.word[1].type = "REPORT"
      BY <2>1, <2>3, WordInEgress DEF OutAck, AckWord
    <3> QED BY <1>1, <1>2, <1>6, <2>1, <2>3, <3>1 DEF Sent
  <2> QED BY <2>2, <2>3
<1> QED BY EgressMoves, <1>3, <1>4, <1>5, <1>6

\* Acknowledgements made stay numbered from 1 on their way out.
LEMMA AnswersKept ==
    ASSUME Typed, Answering, NEW ready, Tick(ready)
    PROVE  Answering'
<1> DEFINE c == ackFifo.cnt
           d == ackFifo'.cnt
           A == Len(acks)
           B == Len(acks')
           gone == IF AckPop THEN 1 ELSE 0
           push == src.at = "ACK" /\ Ready(ackFifo)
           n == Len(answers)
<1>1. /\ c \in Nat /\ d \in Nat /\ A \in Nat /\ B \in Nat /\ n \in Nat /\ gone \in {0, 1}
      /\ (push => B = A + 1) /\ (~push => B = A)
      /\ (push => d = c - gone + 1) /\ (~push => d = c - gone) /\ gone <= c
  BY AckFifoEdge, AcksStay, AnswersStay, DepthAssumption
<1>2. \A i \in 1 .. d : Contents(ackFifo')[i] = IF i <= c - gone THEN Contents(ackFifo)[i + gone] ELSE src.word
  BY AckFifoEdge
<1>3. ASSUME NEW i \in 1 .. d PROVE Contents(ackFifo')[i].n = B - d + i
  <2> HIDE DEF c, d, A, B, gone, push
  <2>1. CASE i <= c - gone
    <3>1. i + gone \in 1 .. c /\ Contents(ackFifo')[i] = Contents(ackFifo)[i + gone]
      BY <1>1, <1>2, <2>1
    <3>2. Contents(ackFifo)[i + gone].n = A - c + (i + gone)
      BY <3>1 DEF Answering, A, c
    <3> QED BY <1>1, <3>1, <3>2
  <2>2. CASE ~(i <= c - gone)
    <3>1. push /\ i = d /\ Contents(ackFifo')[i] = src.word
      BY <1>1, <1>2, <2>2
    <3>2. src.word.n = A + 1
      BY <3>1 DEF Typed, A, push
    <3> QED BY <1>1, <3>1, <3>2
  <2> QED BY <2>1, <2>2
<1>4. n = A - c - (IF OutAck THEN 1 ELSE 0)
  BY DEF Answering
<1>5. /\ Len(answers') = B - d - (IF OutAck' THEN 1 ELSE 0)
      /\ OutAck' => out'.word[1].n = Len(answers') + 1
      /\ \A i \in 1 .. Len(answers') : answers'[i].n = i
  <2>1. CASE /\ AckPop /\ ~OutAck /\ OutAck' /\ out'.word[1] = Contents(ackFifo)[1]
             /\ answers' = answers /\ reports' = reports
    <3>1. 1 \in 1 .. c /\ gone = 1
      BY <1>1, <2>1
    <3>2. Contents(ackFifo)[1].n = A - c + 1
      BY <3>1 DEF Answering
    <3>3. \A i \in 1 .. Len(answers') : answers'[i].n = i
      BY <2>1 DEF Answering
    <3>4. Len(answers') = n
      BY <2>1
    <3> HIDE DEF c, d, A, B, gone, push, n
    <3> QED BY <1>1, <1>4, <2>1, <3>1, <3>2, <3>3, <3>4
  <2>2. CASE ~AckPop /\ ~OutAck /\ ~OutAck' /\ answers' = answers
    <3>1. \A i \in 1 .. Len(answers') : answers'[i].n = i
      BY <2>2 DEF Answering
    <3>2. Len(answers') = n /\ gone = 0
      BY <2>2
    <3> HIDE DEF c, d, A, B, gone, push, n
    <3> QED BY <1>1, <1>4, <2>2, <3>1, <3>2
  <2>3. CASE ~AckPop /\ OutAck /\ OutAck' /\ out'.word = out.word
                 /\ answers' = answers /\ reports' = reports
    <3>1. /\ \A i \in 1 .. Len(answers') : answers'[i].n = i
          /\ out'.word[1].n = Len(answers') + 1
      BY <2>3 DEF Answering
    <3>2. Len(answers') = n /\ gone = 0
      BY <2>3
    <3> HIDE DEF c, d, A, B, gone, push, n
    <3> QED BY <1>1, <1>4, <2>3, <3>1, <3>2
  <2>4. CASE /\ ~AckPop /\ OutAck /\ ~OutAck' /\ reports' = reports
             /\ answers' \in Seq([n : Nat, after : Nat]) /\ Len(answers') = Len(answers) + 1
             /\ answers'[Len(answers) + 1] = [n |-> out.word[1].n, after |-> Len(reports)]
             /\ \A i \in 1 .. Len(answers) : answers'[i] = answers[i]
    <3>1. gone = 0 /\ answers'[n + 1].n = n + 1 /\ Len(answers') = n + 1
      BY <2>4 DEF Answering
    <3>2. \A i \in 1 .. n : answers'[i].n = i
      BY <2>4 DEF Answering
    <3> HIDE DEF c, d, A, B, gone, push, n
    <3>3. \A i \in 1 .. Len(answers') : answers'[i].n = i
      BY <1>1, <3>1, <3>2
    <3>4. ~OutAck' /\ n = A - c - 1
      BY <1>4, <2>4
    <3>5. n + 1 = B - d - 0
      BY <1>1, <3>1, <3>4
    <3> QED BY <3>1, <3>3, <3>4, <3>5
  <2> QED BY AnswersStay, <2>1, <2>2, <2>3, <2>4
<1> QED BY <1>3, <1>5 DEF Answering, Contents, Wrap

-----------------------------------------------------------------------------
(* Reports leave before the acknowledgement of their command.                *)

\* Edges until the next report is in the FIFO, at most, and until the egress
\* looks for a word again, at least.
Due == IF gen.push # <<>> THEN 1
       ELSE IF gen.rstate # "R_IDLE" THEN 2
       ELSE IF Valid(tradeFifo) THEN 3 ELSE 4

IdleIn == IF out.state = "E_IDLE" THEN 0 ELSE IF out.state = "E_SEND" THEN 1 ELSE 2

\* If a report of the first a trades is not in the sequence, there is one for the
\* egress, or there will be in c edges or when it looks.
Prompt(a, c) ==
    Len(Stream) < Number(trades, a + 1) - 1 => Valid(repFifo) \/ Due <= IdleIn \/ Due <= c

\* While nothing is lost: the reports of what has been acknowledged come before
\* an acknowledgement is looked for, and those of the command at work will when
\* its acknowledgement is made.
Timely ==
    ~crowded =>
        /\ Prompt(Acknowledged, 0)
        /\ src.at = "WORK" => Prompt(Len(trades), src.wait + 2)
        /\ src.at = "ACK" => Prompt(Len(trades), 1)
        /\ OutAck => Number(trades, acks[out.word[1].n] + 1) - 1 <= Len(reports)
        /\ \A i \in DOMAIN answers : Number(trades, acks[i] + 1) - 1 <= answers[i].after

\* When the report FSM waits for a trade and pushes nothing, the reports of the
\* trades it has taken are in the sequence.
LEMMA TakenAreThere ==
    ASSUME Typed, Offered, Reporting, Streaming, ~crowded, gen.rstate = "R_IDLE", ~Arriving
    PROVE  \A a \in 0 .. Taken : Number(trades, a + 1) - 1 <= Len(Stream)
<1>1. Len(Stream) = gen.seq - 1
  <2>1. Len(Stream) + (IF Arriving THEN 1 ELSE 0) = gen.seq - 1 /\ Stream \in Seq(ReportWord)
    <3>1. Stream \in Seq(ReportWord)
      BY StreamIsWords
    <3> QED BY <3>1 DEF Streaming
  <2>2. Len(Stream) \in Nat
    BY <2>1
  <2> QED BY <2>1, <2>2
<1>2. gen.seq = Number(trades, Taken + 1) /\ Taken \in Nat
  BY DEF Reporting, Offered
<1> SUFFICES ASSUME NEW a \in 0 .. Taken PROVE Number(trades, a + 1) - 1 <= Len(Stream)
  OBVIOUS
<1>3. a + 1 \in Nat /\ Taken + 1 \in Nat /\ a + 1 <= Taken + 1
  BY <1>2
<1>4. /\ Number(trades, a + 1) \in Nat /\ Number(trades, Taken + 1) \in Nat
      /\ Number(trades, a + 1) <= Number(trades, Taken + 1)
  BY <1>3, NumberIs
<1> QED BY <1>1, <1>2, <1>4

\* Numbers of trades made stay at an edge.
LEMMA ShortStays ==
    ASSUME Typed, Ordered, Offered, NEW ready, Tick(ready), NEW a \in 0 .. Len(trades)
    PROVE  /\ Number(trades', a + 1) = Number(trades, a + 1) /\ Number(trades, a + 1) \in Nat
           /\ Len(Stream) \in Nat /\ Len(Stream') \in Nat /\ Len(Stream) <= Len(Stream')
           /\ Len(trades) \in Nat
<1>1. Len(trades) \in Nat /\ \A n \in 1 .. Len(trades) + 1 : Number(trades', n) = Number(trades, n)
  BY TakenIs
<1>2. a + 1 \in 1 .. Len(trades) + 1 /\ a + 1 \in Nat
  BY <1>1
<1>3. Number(trades', a + 1) = Number(trades, a + 1) /\ Number(trades, a + 1) \in Nat
  BY <1>1, <1>2, NumberIs
<1>4. Len(Stream) \in Nat /\ Len(Stream') \in Nat /\ Len(Stream) <= Len(Stream')
  BY StreamWords
<1> QED BY <1>1, <1>3, <1>4

\* The egress empties the FIFO: two edges until it looks, and the report FSM
\* needs no more, unless the last trade is just on its way.
LEMMA AfterTheLast ==
    ASSUME Typed, Ordered, Offered, Reporting, Pushing, Streaming, NEW ready, Tick(ready), ~crowded,
           NEW a \in 0 .. Len(trades), Len(Stream') < Number(trades', a + 1) - 1,
           Valid(repFifo), ~Valid(repFifo')
    PROVE  IdleIn' = 2 /\ (Due' <= 2 \/ (OnTheWire /\ a = Len(trades) /\ Due' <= 3))
<1>1. /\ repFifo.cnt # 0 /\ repFifo'.cnt = 0 /\ repFifo.cnt \in Nat
      /\ \/ repFifo'.cnt = repFifo.cnt + (IF gen.push # <<>> /\ Ready(repFifo) THEN 1 ELSE 0)
         \/ /\ repFifo'.cnt = repFifo.cnt - 1 + (IF gen.push # <<>> /\ Ready(repFifo) THEN 1 ELSE 0)
            /\ out'.state = "E_START"
  BY RoomMoves, DepthAssumption DEF Valid
<1>2. out'.state = "E_START" /\ ~(gen.push # <<>> /\ Ready(repFifo))
  BY <1>1
<1>3. IdleIn' = 2
  BY <1>2 DEF IdleIn
<1>4. CASE gen'.push # <<>> \/ gen'.rstate # "R_IDLE"
  BY <1>3, <1>4 DEF Due
<1>5. CASE gen'.push = <<>> /\ gen'.rstate = "R_IDLE"
  <2>1. NoTrade
    BY <1>5, ReportMoves DEF TradeTaken, ReportOn, ReportStays
  <2>2. gen.rstate = "R_IDLE" /\ ~Valid(tradeFifo) /\ ~Arriving
    BY <1>2, <2>1 DEF NoTrade, TradePop, Arriving
  <2>3. \A b \in 0 .. Taken : Number(trades, b + 1) - 1 <= Len(Stream)
    BY <2>2, TakenAreThere
  <2>4. a \notin 0 .. Taken
    <3>1. ~(Number(trades, a + 1) - 1 <= Len(Stream))
      BY ShortStays
    <3> QED BY <2>3, <3>1
  <2>5. OnTheWire /\ a = Len(trades)
    <3>1. tradeFifo.cnt = 0 /\ Len(trades) \in Nat
      BY <2>2, ShortStays DEF Valid
    <3>2. (~OnTheWire => Taken = Len(trades)) /\ (OnTheWire => Taken = Len(trades) - 1)
      BY <3>1 DEF Taken
    <3>3. CASE OnTheWire
      BY <2>4, <3>1, <3>2, <3>3
    <3>4. CASE ~OnTheWire
      BY <2>4, <3>2, <3>4
    <3> QED BY <3>3, <3>4
  <2>6. Valid(tradeFifo')
    <3>1. ~TradePop /\ src.offer # <<>> /\ Ready(tradeFifo)
      BY <2>1, <2>5 DEF NoTrade, OnTheWire
    <3>2. tradeFifo'.cnt = tradeFifo.cnt + 1 /\ tradeFifo.cnt \in Nat
      BY <3>1, TradeFifoEdge, DepthAssumption
    <3> QED BY <3>2 DEF Valid
  <2>7. Due' = 3
    BY <1>5, <2>6 DEF Due, Valid
  <2> QED BY <1>3, <2>5, <2>7
<1> QED BY <1>4, <1>5

\* The FIFO is empty: the report FSM gets an edge nearer.
LEMMA Nearer ==
    ASSUME Typed, Ordered, Offered, Reporting, Pushing, Streaming, NEW ready, Tick(ready), ~crowded,
           NEW a \in 0 .. Len(trades), Len(Stream') < Number(trades', a + 1) - 1,
           ~Valid(repFifo), ~Valid(repFifo')
    PROVE  Due' + 1 <= Due /\ IdleIn <= IdleIn' + 1
<1>1. /\ repFifo.cnt = 0 /\ repFifo'.cnt = 0 /\ Ready(repFifo)
      /\ repFifo'.cnt = repFifo.cnt + (IF gen.push # <<>> THEN 1 ELSE 0)
  BY RoomMoves, DepthAssumption DEF Valid
<1>2. gen.push = <<>>
  BY <1>1
<1>3. IdleIn <= IdleIn' + 1
  BY EgressMoves DEF IdleIn, SendsReport, SendsAck, Keeps, Sent, Typed
<1>4. CASE gen.rstate # "R_IDLE"
  <2>1. ReportOn
    BY <1>1, <1>4, ReportMoves DEF NoTrade, TradeTaken, ReportStays
  <2>2. Due = 2 /\ Due' = 1
    BY <1>2, <1>4, <2>1 DEF Due, ReportOn
  <2> QED BY <1>3, <2>2
<1>5. CASE gen.rstate = "R_IDLE" /\ Valid(tradeFifo)
  <2>1. TradeTaken
    BY <1>5, ReportMoves DEF NoTrade, ReportOn, ReportStays, TradePop
  <2>2. Due = 3 /\ Due' = 2
    BY <1>2, <1>5, <2>1 DEF Due, TradeTaken
  <2> QED BY <1>3, <2>2
<1>6. CASE gen.rstate = "R_IDLE" /\ ~Valid(tradeFifo)
  <2>1. NoTrade /\ Due = 4
    BY <1>2, <1>6, ReportMoves DEF TradeTaken, ReportOn, ReportStays, TradePop, Due
  <2>2. \A b \in 0 .. Taken : Number(trades, b + 1) - 1 <= Len(Stream)
    BY <1>2, <1>6, TakenAreThere DEF Arriving
  <2>3. a \notin 0 .. Taken
    <3>1. ~(Number(trades, a + 1) - 1 <= Len(Stream))
      BY ShortStays
    <3> QED BY <2>2, <3>1
  <2>4. OnTheWire
    <3>1. tradeFifo.cnt = 0 /\ Len(trades) \in Nat
      BY <1>6, ShortStays DEF Valid
    <3>2. ~OnTheWire => Taken = Len(trades)
      BY <3>1 DEF Taken
    <3> QED BY <2>3, <3>2
  <2>5. Valid(tradeFifo')
    <3>1. ~TradePop /\ src.offer # <<>> /\ Ready(tradeFifo)
      BY <2>1, <2>4 DEF NoTrade, OnTheWire
    <3>2. tradeFifo'.cnt = tradeFifo.cnt + 1 /\ tradeFifo.cnt \in Nat
      BY <3>1, TradeFifoEdge, DepthAssumption
    <3> QED BY <3>2 DEF Valid
  <2>6. Due' = 3
    BY <2>1, <2>5 DEF Due, Valid, NoTrade
  <2> QED BY <1>3, <2>1, <2>6
<1> QED BY <1>4, <1>5, <1>6

\* A report that must come in time moves up at every edge.
LEMMA PromptMoves ==
    ASSUME Typed, Ordered, Offered, Reporting, Pushing, Streaming, NEW ready, Tick(ready), ~crowded,
           NEW a \in 0 .. Len(trades), NEW c \in Nat, Prompt(a, c),
           Len(Stream') < Number(trades', a + 1) - 1, ~Valid(repFifo')
    PROVE  Due' <= IdleIn' \/ Due' + 1 <= c \/ (OnTheWire /\ a = Len(trades) /\ Due' <= 3)
<1>1. Due \in 1 .. 4 /\ Due' \in 1 .. 4 /\ IdleIn \in 0 .. 2 /\ IdleIn' \in 0 .. 2
  BY DEF Due, IdleIn
<1>2. Len(Stream) < Number(trades, a + 1) - 1
  BY ShortStays
<1>3. CASE Valid(repFifo)
  BY <1>1, <1>3, AfterTheLast
<1>4. CASE ~Valid(repFifo)
  <2>1. Due' + 1 <= Due /\ IdleIn <= IdleIn' + 1
    BY <1>4, Nearer
  <2>2. Due <= IdleIn \/ Due <= c
    BY <1>2, <1>4 DEF Prompt
  <2> QED BY <1>1, <2>1, <2>2 DEF Due, IdleIn
<1> QED BY <1>3, <1>4

\* Reports stay in time while a producer works towards its acknowledgement.
LEMMA TimesKept ==
    ASSUME Typed, Ordered, Offered, Reporting, Pushing, Streaming, Timely,
           NEW ready, Tick(ready), ~crowded', TradeGap >= 2
    PROVE  /\ Prompt(Acknowledged, 0)'
           /\ src'.at = "WORK" => Prompt(Len(trades), src.wait + 2)'
           /\ src'.at = "ACK" => Prompt(Len(trades), 1)'
<1>1. /\ Len(trades) \in Nat /\ Len(trades) \in 0 .. Len(trades)
      /\ Acknowledged \in 0 .. Len(trades) /\ src.wait \in Nat /\ ~crowded /\ Due' \in 1 .. 4
  BY TradesStay, RoomMoves DEF Ordered, Typed, Due
<1>2. /\ Prompt(Acknowledged, 0)
      /\ src.at = "WORK" => Prompt(Len(trades), src.wait + 2)
      /\ src.at = "ACK" => Prompt(Len(trades), 1)
  BY <1>1 DEF Timely
<1>3. OnTheWire => src.at = "WORK" /\ src.wait = TradeGap /\ Acknowledged # Len(trades)
  BY <1>1 DEF OnTheWire, Offered, Typed
<1> DEFINE Soon(c) == Due' <= IdleIn' \/ Due' + 1 <= c
           Short(a) == Len(Stream') < Number(trades', a + 1) - 1 /\ ~Valid(repFifo')
<1>4. \A a \in 0 .. Len(trades), c \in Nat :
         Prompt(a, c) /\ Short(a) => Soon(c) \/ (OnTheWire /\ a = Len(trades) /\ Due' <= 3)
  BY <1>1, PromptMoves
<1>5. Prompt(Acknowledged, 0)'
  <2> SUFFICES ASSUME Len(Stream') < Number(trades', Acknowledged' + 1) - 1, ~Valid(repFifo')
               PROVE  Due' <= IdleIn'
    BY DEF Prompt, Valid, Number, MatchedIn, Kind
  <2>1. CASE Acknowledged' = Acknowledged
    <3>1. Short(Acknowledged)
      BY <2>1
    <3> HIDE DEF Soon, Short
    <3>2. Soon(0)
      BY <1>1, <1>2, <1>3, <1>4, <3>1
    <3> QED BY <1>1, <3>2 DEF Soon, Due, IdleIn
  <2>2. CASE AckMade /\ Acknowledged' = Len(trades)
    <3>1. src.at = "ACK" /\ Prompt(Len(trades), 1) /\ ~OnTheWire
      BY <1>2, <1>3, <2>2 DEF AckMade
    <3>2. Short(Len(trades))
      BY <2>2
    <3> HIDE DEF Soon, Short
    <3>3. Soon(1)
      BY <1>1, <1>4, <3>1, <3>2
    <3> QED BY <1>1, <3>3 DEF Soon, Due, IdleIn
  <2> QED BY <2>1, <2>2, OrderKept
<1>6. ASSUME src'.at = "WORK" PROVE Prompt(Len(trades), src.wait + 2)'
  <2> SUFFICES ASSUME Len(Stream') < Number(trades', Len(trades') + 1) - 1, ~Valid(repFifo')
               PROVE  Due' <= IdleIn' \/ Due' <= src'.wait + 2
    BY DEF Prompt, Valid, Number, MatchedIn, Kind
  <2>1. CASE TradeMade
    <3>1. src'.wait = TradeGap
      BY <2>1 DEF TradeMade
    <3> QED BY <1>1, <3>1, GapsAssumption
  <2>2. CASE AckMade
    <3>1. /\ src.at = "ACK" /\ trades' = trades /\ src'.wait = AckGap
          /\ Prompt(Len(trades), 1) /\ ~OnTheWire
      BY <1>2, <1>3, <2>2 DEF AckMade
    <3>2. Short(Len(trades))
      BY <3>1
    <3> HIDE DEF Soon, Short
    <3>3. Soon(1)
      BY <1>1, <1>4, <3>1, <3>2
    <3> QED BY <1>1, <3>3 DEF Soon, Due, IdleIn
  <2>3. CASE Works
    <3>1. /\ src.at = "WORK" /\ trades' = trades
          /\ src'.wait = IF src.wait = 0 THEN 0 ELSE src.wait - 1
      BY <1>6, <2>3 DEF Works
    <3>2. src.wait <= src'.wait + 1 /\ src'.wait \in Nat /\ src.wait + 2 \in Nat
      BY <1>1, <3>1
    <3>3. Due' <= IdleIn' \/ Due' + 1 <= src.wait + 2 \/ (OnTheWire /\ Due' <= 3)
      <4>1. Short(Len(trades))
        BY <3>1
      <4> HIDE DEF Soon, Short
      <4>2. Soon(src.wait + 2) \/ (OnTheWire /\ Due' <= 3)
        BY <1>1, <1>2, <1>4, <3>1, <3>2, <4>1
      <4> QED BY <4>2 DEF Soon, Due, IdleIn
    <3>4. OnTheWire => src'.wait + 2 >= 3
      BY <1>3, <3>2, GapsAssumption
    <3> QED BY <1>1, <3>2, <3>3, <3>4
  <2> QED BY <1>6, <2>1, <2>2, <2>3, SourceMoves DEF TradeStays, AckStays
<1>7. ASSUME src'.at = "ACK" PROVE Prompt(Len(trades), 1)'
  <2> SUFFICES ASSUME Len(Stream') < Number(trades', Len(trades') + 1) - 1, ~Valid(repFifo')
               PROVE  Due' <= IdleIn' \/ Due' <= 1
    BY DEF Prompt, Valid, Number, MatchedIn, Kind
  <2>1. CASE Works
    <3>1. src.at = "WORK" /\ src.wait = 0 /\ trades' = trades
      BY <1>7, <2>1 DEF Works
    <3>2. ~OnTheWire /\ Prompt(Len(trades), 2)
      BY <1>2, <1>3, <3>1, GapsAssumption
    <3>3. Short(Len(trades))
      BY <3>1
    <3> HIDE DEF Soon, Short
    <3>4. Soon(2)
      BY <1>1, <1>4, <3>2, <3>3
    <3> QED BY <1>1, <3>4 DEF Soon, Due, IdleIn
  <2>2. CASE AckStays
    <3>1. src.at = "ACK" /\ trades' = trades
      BY <1>7, <2>2 DEF AckStays
    <3>2. ~OnTheWire /\ Prompt(Len(trades), 1)
      BY <1>2, <1>3, <3>1
    <3>3. Short(Len(trades))
      BY <3>1
    <3> HIDE DEF Soon, Short
    <3>4. Soon(1)
      BY <1>1, <1>4, <3>2, <3>3
    <3> QED BY <1>1, <3>4 DEF Soon, Due, IdleIn
  <2> QED BY <1>7, <2>1, <2>2, SourceMoves DEF TradeMade, TradeStays, AckMade
<1> QED BY <1>5, <1>6, <1>7

\* The acknowledgement the egress has, and those sent, came after their reports.
LEMMA AnswersInTime ==
    ASSUME Typed, Ordered, Offered, Reporting, Pushing, Streaming, Answering, Timely,
           NEW ready, Tick(ready), ~crowded'
    PROVE  /\ OutAck' => Number(trades', acks'[out'.word[1].n] + 1) - 1 <= Len(reports')
           /\ \A i \in DOMAIN answers' : Number(trades', acks'[i] + 1) - 1 <= answers'[i].after
<1>1. ~crowded
  BY RoomMoves
<1>2. /\ OutAck => Number(trades, acks[out.word[1].n] + 1) - 1 <= Len(reports)
      /\ \A i \in 1 .. Len(answers) : Number(trades, acks[i] + 1) - 1 <= answers[i].after
      /\ Prompt(Acknowledged, 0)
      /\ Len(answers) \in Nat /\ answers \in Seq([n : Nat, after : Nat])
      /\ DOMAIN answers = 1 .. Len(answers)
  BY <1>1 DEF Timely, Typed
<1>3. /\ Len(acks) \in Nat /\ ackFifo.cnt \in Nat
      /\ Len(answers) = Len(acks) - ackFifo.cnt - (IF OutAck THEN 1 ELSE 0)
      /\ OutAck => out.word[1].n = Len(answers) + 1
  BY AcksStay, AckFifoEdge, DepthAssumption DEF Answering
<1>4. /\ \A k \in 1 .. Len(answers) : k \in 1 .. Len(acks)
      /\ OutAck => out.word[1].n \in 1 .. Len(acks)
  <2>1. CASE OutAck
    BY <1>2, <1>3, <2>1
  <2>2. CASE ~OutAck
    BY <1>2, <1>3, <2>2
  <2> QED BY <2>1, <2>2
<1>5. ASSUME NEW k \in 1 .. Len(acks)
      PROVE  /\ acks[k] \in 0 .. Len(trades) /\ acks[k] <= Acknowledged
             /\ Number(trades', acks'[k] + 1) = Number(trades, acks[k] + 1)
  <2>1. acks'[k] = acks[k] /\ acks[k] \in Nat /\ acks[k] <= Acknowledged
        /\ Acknowledged <= Len(trades) /\ Acknowledged \in Nat
    BY AcksStay DEF Ordered
  <2>2. acks[k] \in 0 .. Len(trades)
    BY <2>1, TradesStay
  <2> QED BY <2>1, <2>2, ShortStays
<1>6. CASE /\ AckPop /\ ~OutAck /\ OutAck' /\ out'.word[1] = Contents(ackFifo)[1]
           /\ answers' = answers /\ reports' = reports
  <2> DEFINE k == out'.word[1].n
  <2>1. k \in 1 .. Len(acks)
    <3>1. 1 \in 1 .. ackFifo.cnt
      BY <1>3, <1>6, AckFifoEdge
    <3>2. k = Len(acks) - ackFifo.cnt + 1
      BY <1>6, <3>1 DEF Answering
    <3>3. Len(acks) - ackFifo.cnt = Len(answers)
      BY <1>2, <1>3, <1>6
    <3> QED BY <1>2, <1>3, <3>1, <3>2, <3>3
  <2>2. out.state = "E_IDLE" /\ ~Valid(repFifo)
    BY <1>6 DEF AckPop
  <2>3. Len(Stream) = Len(reports) /\ Len(reports) \in Nat
    <3>1. OutReport = <<>> /\ Len(Contents(repFifo)) = 0 /\ Contents(repFifo) \in Seq(ReportWord)
          /\ reports \in Seq(ReportWord)
      BY <2>2, StreamIsWords DEF OutReport, Typed, Valid
    <3>2. Contents(repFifo) = <<>> /\ reports \o <<>> = reports
      BY <3>1, ConcatEmptySeq
    <3> QED BY <3>1, <3>2 DEF Stream
  <2>4. Acknowledged \in 0 .. Len(trades) /\ acks[k] \in 0 .. Len(trades) /\ acks[k] <= Acknowledged
        /\ Acknowledged \in Nat
    BY <1>5, <2>1, TradesStay DEF Ordered
  <2>5. Number(trades, Acknowledged + 1) - 1 <= Len(reports) /\ Number(trades, Acknowledged + 1) \in Nat
    <3>1. ~(Len(Stream) < Number(trades, Acknowledged + 1) - 1)
      BY <1>2, <2>2 DEF Prompt, Due, IdleIn
    <3>2. Number(trades, Acknowledged + 1) \in Nat
      BY <2>4, ShortStays
    <3> QED BY <2>3, <3>1, <3>2
  <2>6. acks[k] + 1 \in Nat /\ Acknowledged + 1 \in Nat /\ acks[k] + 1 <= Acknowledged + 1
    BY <2>4
  <2>7. Number(trades, acks[k] + 1) <= Number(trades, Acknowledged + 1) /\ Number(trades, acks[k] + 1) \in Nat
    BY <2>6, NumberIs
  <2>8. Number(trades', acks'[k] + 1) - 1 <= Len(reports')
    BY <1>5, <1>6, <2>1, <2>3, <2>5, <2>7
  <2>9. \A i \in DOMAIN answers' : Number(trades', acks'[i] + 1) - 1 <= answers'[i].after
    BY <1>2, <1>4, <1>5, <1>6
  <2> QED BY <2>8, <2>9
<1>7. CASE ~AckPop /\ ~OutAck /\ ~OutAck' /\ answers' = answers
  BY <1>2, <1>4, <1>5, <1>7
<1>8. CASE ~AckPop /\ OutAck /\ OutAck' /\ out'.word = out.word /\ answers' = answers /\ reports' = reports
  BY <1>2, <1>4, <1>5, <1>8
<1>9. CASE /\ ~AckPop /\ OutAck /\ ~OutAck' /\ reports' = reports
           /\ answers' \in Seq([n : Nat, after : Nat]) /\ Len(answers') = Len(answers) + 1
           /\ answers'[Len(answers) + 1] = [n |-> out.word[1].n, after |-> Len(reports)]
           /\ \A i \in 1 .. Len(answers) : answers'[i] = answers[i]
  <2>1. out.word[1].n = Len(answers) + 1 /\ answers'[Len(answers) + 1].after = Len(reports)
        /\ Len(answers) + 1 \in 1 .. Len(acks)
    <3>1. out.word[1].n = Len(answers) + 1 /\ out.word[1].n \in 1 .. Len(acks)
      BY <1>3, <1>4, <1>9
    <3>2. answers'[Len(answers) + 1].after = Len(reports)
      BY <1>9
    <3> QED
      BY <3>1, <3>2
  <2>2. Number(trades', acks'[Len(answers) + 1] + 1) - 1 <= answers'[Len(answers) + 1].after
    BY <1>2, <1>5, <1>9, <2>1
  <2>3. ASSUME NEW i \in 1 .. Len(answers) PROVE Number(trades', acks'[i] + 1) - 1 <= answers'[i].after
    BY <1>2, <1>4, <1>5, <1>9
  <2>4. DOMAIN answers' = 1 .. Len(answers) + 1
    BY <1>9
  <2>5. \A i \in DOMAIN answers' : i \in 1 .. Len(answers) \/ i = Len(answers) + 1
    BY <1>2, <2>4
  <2> QED BY <1>9, <2>2, <2>3, <2>5
<1> QED BY AnswersStay, <1>6, <1>7, <1>8, <1>9

\* Both halves of Timely are kept.
LEMMA TimelyKept ==
    ASSUME Typed, Ordered, Offered, Reporting, Pushing, Streaming, Answering, Timely,
           NEW ready, Tick(ready), TradeGap >= 2
    PROVE  Timely'
BY TimesKept, AnswersInTime DEF Timely, Number, MatchedIn, Kind

-----------------------------------------------------------------------------
(* The theorems.                                                             *)

TradesInv ==
    Typed /\ Ordered /\ Offered /\ Reporting /\ Pushing /\ Streaming /\ Answering

\* An empty FIFO is good, and holds nothing.
LEMMA EmptyIsOK ==
    ASSUME NEW W
    PROVE  FifoOK(EmptyFifo, W) /\ Contents(EmptyFifo) = <<>> /\ EmptyFifo.cnt = 0
<1>1. FifoOK(EmptyFifo, W)
  BY DepthAssumption DEF FifoOK, EmptyFifo, Place, Wrap
<1>2. Contents(EmptyFifo) \in Seq(W) /\ Len(Contents(EmptyFifo)) = EmptyFifo.cnt
  BY <1>1, ContentsAreWords
<1>3. EmptyFifo.cnt = 0
  BY DEF EmptyFifo
<1> QED BY <1>1, <1>2, <1>3

\* The first report is number 1.
LEMMA FirstNumber ==
    ASSUME NEW ts
    PROVE  Number(ts, 1) = 1
<1>1. MatchedIn(ts, 1) = {}
  BY DEF MatchedIn
<1> QED BY <1>1, FS_EmptySet DEF Number

\* The invariant holds when the registers are reset.
LEMMA InvAtStart ==
    ASSUME Init
    PROVE  TradesInv
<1> USE DEF Init
<1>1. /\ FifoOK(tradeFifo, TradeWord) /\ FifoOK(ackFifo, AckWord) /\ FifoOK(repFifo, ReportWord)
      /\ Contents(repFifo) = <<>> /\ tradeFifo.cnt = 0 /\ ackFifo.cnt = 0 /\ repFifo.cnt = 0
  BY EmptyIsOK
<1>2. Typed
  <2>1. /\ src.at = "WORK" /\ src.wait = 0 /\ src.offer = <<>> /\ src.word = NoWord
        /\ src = [at |-> src.at, wait |-> src.wait, offer |-> src.offer, word |-> src.word]
    BY DEF NoWord
  <2>2. src \in [at : {"WORK", "TRADE", "ACK"}, wait : Nat, offer : One(TradeWord),
                word : TradeWord \union AckWord \union {NoWord}]
    BY <2>1 DEF One
  <2>3. gen \in [rstate : {"R_IDLE", "R_BUYER", "R_SELLER"}, t : TradeWord \union {NoWord},
                seq : Nat \ {0}, push : One(ReportWord)]
    BY DEF One, NoWord
  <2>4. out \in [state : {"E_IDLE", "E_START", "E_SEND"}, word : One(ReportWord \union AckWord)]
    BY DEF One
  <2>5. /\ trades \in Seq(TradeWord) /\ acks \in Seq(Nat)
        /\ reports \in Seq(ReportWord) /\ answers \in Seq([n : Nat, after : Nat])
    OBVIOUS
  <2>6. src.at = "WORK" /\ gen.rstate = "R_IDLE" /\ out.state = "E_IDLE" /\ out.word = <<>> /\ crowded = FALSE
    OBVIOUS
  <2> QED BY <1>1, <2>2, <2>3, <2>4, <2>5, <2>6 DEF Typed
<1>3. Ordered
  BY DEF Ordered, Acknowledged
<1>4. Taken = 0 /\ ~OnTheWire /\ Len(trades) = 0
  BY <1>1 DEF Taken, OnTheWire
<1>5. Offered
  BY <1>1, <1>4 DEF Offered
<1>6. Number(trades, 1) = 1
  BY FirstNumber
<1>7. Reporting
  BY <1>4, <1>6 DEF Reporting
<1>8. Stream = <<>> /\ ~Arriving /\ gen.push = <<>>
  <2>1. OutReport = <<>>
    BY DEF OutReport
  <2>2. reports \o <<>> = <<>>
    BY ConcatEmptySeq
  <2> QED BY <1>1, <2>1, <2>2, ConcatEmptySeq DEF Stream, Arriving
<1>9. Streaming
  BY <1>8 DEF Streaming
<1>10. Answering
  BY <1>1 DEF Answering, OutAck
<1> QED BY <1>2, <1>3, <1>5, <1>7, <1>8, <1>9, <1>10 DEF TradesInv, Pushing

\* Every edge keeps the invariant.
LEMMA InvKept ==
    ASSUME TradesInv, [Next]_vars
    PROVE  TradesInv'
<1>1. CASE Next
  <2>1. PICK ready \in BOOLEAN : Tick(ready)
    BY <1>1 DEF Next
  <2>2. Typed /\ Ordered /\ Offered /\ Reporting /\ Pushing /\ Streaming /\ Answering
    BY DEF TradesInv
  <2>3. Typed' /\ Ordered' /\ Offered' /\ Reporting' /\ Pushing' /\ Streaming' /\ Answering'
    BY <2>1, <2>2, TypesKept, OrderKept, OffersKept, ReportingKept, PushesKept, StreamKept, AnswersKept
  <2> QED BY <2>3 DEF TradesInv
<1>2. CASE UNCHANGED vars
  <2> USE <1>2 DEF vars
  <2>1. Typed /\ Ordered /\ Offered /\ Reporting /\ Pushing /\ Streaming /\ Answering
    BY DEF TradesInv
  <2>2. Typed'
    BY <2>1 DEF Typed
  <2>3. Ordered'
    BY <2>1 DEF Ordered, Acknowledged
  <2>4. Taken' = Taken
    BY DEF Taken, OnTheWire, Ready
  <2>5. Offered'
    BY <2>1, <2>4 DEF Offered, Contents, Acknowledged
  <2>6. Reporting'
    BY <2>1, <2>4 DEF Reporting
  <2>7. Stream' = Stream
    BY DEF Stream, OutReport, Contents
  <2>8. (Stalled => Stalled') /\ (Behind => Behind') /\ (Arriving => Arriving') /\ (~Arriving => ~Arriving')
    BY <2>7 DEF Stalled, Behind, Fresh, Arriving, Ready, Current
  <2>9. Pushing'
    BY <2>1, <2>8 DEF Pushing
  <2>10. \A k : Lost(k) => Lost(k)'
    BY DEF Lost
  <2>11. Streaming'
    BY <2>1, <2>7, <2>8, <2>10 DEF Streaming
  <2>12. Answering'
    BY <2>1 DEF Answering, OutAck, Contents
  <2> QED BY <2>2, <2>3, <2>5, <2>6, <2>9, <2>11, <2>12 DEF TradesInv
<1> QED BY <1>1, <1>2

\* The inductive invariant holds of every behaviour: the registers, the three
\* FIFOs, and one sequence of the reports sent, being sent and waiting.
THEOREM TradesInvHolds == Spec => []TradesInv
<1>1. Init => TradesInv
  BY InvAtStart
<1>2. TradesInv /\ [Next]_vars => TradesInv'
  BY InvKept
<1> QED BY <1>1, <1>2, PTL DEF Spec

\* The reports sent are the first of the sequence.
LEMMA ReportsFirst ==
    ASSUME Typed
    PROVE  /\ DOMAIN reports = 1 .. Len(reports) /\ Len(reports) \in Nat /\ Len(reports) <= Len(Stream)
           /\ Len(Stream) \in Nat /\ DOMAIN Stream = 1 .. Len(Stream)
           /\ \A i \in DOMAIN reports : i \in DOMAIN Stream /\ Stream[i] = reports[i]
<1> DEFINE O == OutReport
           C == Contents(repFifo)
           R == reports \o O
<1>1. O \in Seq(ReportWord) /\ C \in Seq(ReportWord) /\ Stream \in Seq(ReportWord)
      /\ reports \in Seq(ReportWord)
  BY StreamIsWords DEF Typed
<1>2. Stream = R \o C
  BY DEF Stream
<1> HIDE DEF O, C
<1>3. R \in Seq(ReportWord)
  BY <1>1, ConcatProperties
<1>4. /\ Len(R) = Len(reports) + Len(O)
      /\ \A i \in 1 .. Len(R) : R[i] = IF i <= Len(reports) THEN reports[i] ELSE O[i - Len(reports)]
  BY <1>1, ConcatProperties
<1> HIDE DEF R
<1>5. /\ Len(R \o C) = Len(R) + Len(C)
      /\ \A i \in 1 .. Len(R) + Len(C) : (R \o C)[i] = IF i <= Len(R) THEN R[i] ELSE C[i - Len(R)]
  BY <1>1, <1>3, ConcatProperties
<1>6. /\ Len(reports) \in Nat /\ Len(O) \in Nat /\ Len(C) \in Nat /\ Len(Stream) \in Nat
      /\ DOMAIN reports = 1 .. Len(reports) /\ DOMAIN Stream = 1 .. Len(Stream)
  BY <1>1
<1>7. Len(Stream) = Len(reports) + Len(O) + Len(C)
  BY <1>2, <1>4, <1>5
<1>8. ASSUME NEW i \in DOMAIN reports PROVE i \in DOMAIN Stream /\ Stream[i] = reports[i]
  <2>1. i \in 1 .. Len(R) /\ i <= Len(reports) /\ i <= Len(R) /\ i \in 1 .. Len(R) + Len(C)
    BY <1>4, <1>6
  <2>2. (R \o C)[i] = R[i] /\ R[i] = reports[i]
    BY <1>4, <1>5, <2>1
  <2> QED BY <1>2, <1>4, <1>6, <1>7, <2>1, <2>2
<1> QED BY <1>6, <1>7, <1>8

\* Every report sent is the one its number promises, numbers only grow, and
\* acknowledgements are sent once each and in order: no report is doubled,
\* reordered or misnumbered, whatever fills up.
THEOREM Numbers == Spec => []NumberedAsMade
<1>1. TradesInv => NumberedAsMade
  <2> SUFFICES ASSUME TradesInv PROVE NumberedAsMade
    OBVIOUS
  <2>1. Typed /\ Streaming /\ Answering
    BY DEF TradesInv
  <2>2. ASSUME NEW i \in DOMAIN reports PROVE reports[i] \in Expected
    BY <2>1, ReportsFirst, Numbered DEF Streaming
  <2>3. ASSUME NEW i \in DOMAIN reports, NEW j \in DOMAIN reports, i < j
        PROVE  reports[i].seq < reports[j].seq
    BY <2>1, <2>3, ReportsFirst DEF Streaming
  <2>4. ASSUME NEW i \in DOMAIN answers PROVE answers[i].n = i
    BY <2>1 DEF Answering, Typed
  <2> QED BY <2>2, <2>3, <2>4 DEF NumberedAsMade
<1> QED BY <1>1, TradesInvHolds, PTL

\* A report is lost only when R_BUYER meets a report FIFO with one place left, and
\* then it is the seller's report of a match.
THEOREM LossIsTheSellers == Spec => []LostOnlyWhenCrowded
<1>1. TradesInv => LostOnlyWhenCrowded
  <2> SUFFICES ASSUME TradesInv, NEW i \in Missing
               PROVE  \E r \in Expected : r.seq = i /\ crowded /\ r.side = "SELL" /\ r.flags = "NONE"
    BY DEF LostOnlyWhenCrowded
  <2>1. Typed /\ Streaming
    BY DEF TradesInv
  <2>2. /\ i \in 1 .. gen.seq /\ gen.seq \in Nat
        /\ \A j \in DOMAIN reports : reports[j].seq # i
        /\ \E j \in DOMAIN reports : i < reports[j].seq
    BY <2>1 DEF Missing, Typed
  <2>3. PICK j \in DOMAIN reports : i < reports[j].seq
    BY <2>2
  <2>4. j \in DOMAIN Stream /\ i < Stream[j].seq /\ Stream[j].seq \in 1 .. gen.seq - 1
    BY <2>1, <2>3, ReportsFirst DEF Streaming
  <2>5. i \in 1 .. gen.seq - 1 /\ i < gen.seq - 1
    BY <2>2, <2>4
  <2>6. ASSUME NEW m \in DOMAIN Stream PROVE Stream[m].seq # i
    <3>1. CASE m \in DOMAIN reports
      BY <2>1, <2>2, <3>1, ReportsFirst
    <3>2. CASE m \notin DOMAIN reports
      <4>1. j < m
        BY <2>1, <3>2, ReportsFirst
      <4>2. Stream[j].seq < Stream[m].seq /\ Stream[m].seq \in 1 .. gen.seq - 1
        BY <2>1, <2>4, <4>1 DEF Streaming
      <4> QED BY <2>2, <2>4, <4>2
    <3> QED BY <3>1, <3>2
  <2>7. Lost(i)
    BY <2>1, <2>2, <2>5, <2>6 DEF Streaming
  <2> QED BY <2>7, Numbered DEF Lost, Sellers
<1> QED BY <1>1, TradesInvHolds, PTL

\* When the producers work three cycles or more after a trade, however soon they
\* go on after an acknowledgement, by the time an acknowledgement leaves, every
\* report of a trade made before it has left, none having been lost.
THEOREM ReportsComeFirst ==
    ASSUME TradeGap >= 2
    PROVE  Spec => []ReportsBeforeAck
<1>1. Init => TradesInv /\ Timely
  <2> SUFFICES ASSUME Init PROVE TradesInv /\ Timely
    OBVIOUS
  <2>1. TradesInv
    BY InvAtStart
  <2>2. Acknowledged = 0 /\ Len(trades) = 0 /\ src.at = "WORK" /\ ~OutAck /\ DOMAIN answers = {}
    BY DEF Init, Acknowledged, OutAck
  <2>3. Number(trades, 0 + 1) = 1
    BY FirstNumber
  <2>4. Len(Stream) \in Nat
    BY <2>1, StreamIsWords DEF TradesInv
  <2>5. \A c : Prompt(0, c)
    BY <2>3, <2>4 DEF Prompt
  <2> QED BY <2>1, <2>2, <2>5 DEF Timely
<1>2. TradesInv /\ Timely /\ [Next]_vars => TradesInv' /\ Timely'
  <2> SUFFICES ASSUME TradesInv, Timely, [Next]_vars PROVE TradesInv' /\ Timely'
    OBVIOUS
  <2>1. TradesInv'
    BY InvKept
  <2>2. CASE Next
    <3>1. PICK ready \in BOOLEAN : Tick(ready)
      BY <2>2 DEF Next
    <3>2. Typed /\ Ordered /\ Offered /\ Reporting /\ Pushing /\ Streaming /\ Answering
      BY DEF TradesInv
    <3> QED BY <2>1, <3>1, <3>2, TimelyKept
  <2>3. CASE UNCHANGED vars
    <3>1. Timely'
      BY <2>3 DEF vars, Timely, Prompt, Due, IdleIn, Acknowledged, Number, MatchedIn, Kind, Stream,
         OutReport, OutAck, Contents, Wrap, Valid
    <3> QED BY <2>1, <3>1
  <2> QED BY <2>2, <2>3
<1>3. TradesInv /\ Timely => ReportsBeforeAck
  <2> SUFFICES ASSUME TradesInv, Timely, ~crowded, NEW i \in DOMAIN answers
               PROVE  FirstReport(acks[answers[i].n] + 1) - 1 <= answers[i].after
    BY DEF ReportsBeforeAck
  <2>1. answers[i].n = i
    BY DEF TradesInv, Answering, Typed
  <2>2. Number(trades, acks[i] + 1) - 1 <= answers[i].after
    BY DEF Timely
  <2> QED BY <2>1, <2>2, Numbered
<1> QED BY <1>1, <1>2, <1>3, PTL DEF Spec
=============================================================================
