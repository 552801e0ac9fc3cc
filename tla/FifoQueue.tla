----------------------------- MODULE FifoQueue -----------------------------
(***************************************************************************)
(* hardware/rtl/fifo_queue.sv: the synchronous first-word-fall-through FIFO *)
(* used for commands, trades, reports and acknowledgements.  A FIFO is a      *)
(* record of the ring's registers; Clock gives its registers after an edge.  *)
(* A word that is offered or not is a sequence of one word or none.          *)
(***************************************************************************)
EXTENDS Naturals, Sequences

CONSTANT Depth      \* DEPTH, 64 in the trade generator

ASSUME DepthAssumption == Depth \in Nat \ {0}

Place == 0 .. Depth - 1

EmptyFifo == [mem |-> [i \in Place |-> <<>>], wr |-> 0, rd |-> 0, cnt |-> 0]

\* s_ready and m_valid come from the count register, so a FIFO that is full
\* refuses a word even on the edge at which it gives one away.
Ready(q) == q.cnt # Depth
Valid(q) == q.cnt # 0

\* m_data, meaningful while Valid.
FrontWord(q) == q.mem[q.rd][1]

\* Pointer arithmetic wraps at DEPTH, a power of two in the code.
Wrap(i) == IF i >= Depth THEN i - Depth ELSE i

\* Mutation: a full FIFO takes a word while it gives one away.
ClockThrough(q, word, pop) ==
    LET take == pop /\ Valid(q)
        push == word # <<>> /\ (Ready(q) \/ take)
    IN  [mem |-> IF push THEN [q.mem EXCEPT ![q.wr] = word] ELSE q.mem,
         wr  |-> IF push THEN Wrap(q.wr + 1) ELSE q.wr,
         rd  |-> IF take THEN Wrap(q.rd + 1) ELSE q.rd,
         cnt |-> IF push /\ ~take THEN q.cnt + 1
                 ELSE IF take /\ ~push THEN q.cnt - 1 ELSE q.cnt]

\* One edge: word is pushed if it is one and there is room, the front is
\* popped if pop is raised and there is one.
Clock(q, word, pop) ==
    LET push == word # <<>> /\ Ready(q)
        take == pop /\ Valid(q)
    IN  [mem |-> IF push THEN [q.mem EXCEPT ![q.wr] = word] ELSE q.mem,
         wr  |-> IF push THEN Wrap(q.wr + 1) ELSE q.wr,
         rd  |-> IF take THEN Wrap(q.rd + 1) ELSE q.rd,
         cnt |-> IF push /\ ~take THEN q.cnt + 1
                 ELSE IF take /\ ~push THEN q.cnt - 1 ELSE q.cnt]

-----------------------------------------------------------------------------
\* What a FIFO holds, oldest first.
Contents(q) == [n \in 1 .. q.cnt |-> q.mem[Wrap(q.rd + n - 1)][1]]

\* The words are of the set W, and the two pointers and the count agree.
FifoOK(q, W) ==
    /\ q = [mem |-> q.mem, wr |-> q.wr, rd |-> q.rd, cnt |-> q.cnt]
    /\ q.mem \in [Place -> {<<>>} \union {<<w>> : w \in W}]
    /\ q.wr \in Place /\ q.rd \in Place /\ q.cnt \in 0 .. Depth
    /\ q.wr = Wrap(q.rd + q.cnt)
    /\ \A n \in 1 .. q.cnt : q.mem[Wrap(q.rd + n - 1)] # <<>>
=============================================================================
