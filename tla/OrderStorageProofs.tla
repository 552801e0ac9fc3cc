------------------------- MODULE OrderStorageProofs -------------------------
(***************************************************************************)
(* The order pool with its free stack, the order id table, and then all of   *)
(* them together, for every size of each.                                    *)
(*                                                                           *)
(* The first part is about the free stack alone: no slot is ever on it twice,*)
(* and num_orders counts the slots in use.                                   *)
(*                                                                           *)
(* The second part is about the table alone, for every number of sets and    *)
(* ways, every probe window and every hash function: it implements the map of*)
(* IdMap.  The invariant TabInv relates the registers of a search in progress*)
(* to the rows: what has been searched, the empty bucket remembered, the row *)
(* to be written.                                                            *)
(*                                                                           *)
(* The third part is about their users: manager and matcher are the          *)
(* environment that the theorems about the order memory and the table assume,*)
(* and the three memories agree.  Of the table only its map is used there    *)
(* (StepMaps).                                                               *)
(***************************************************************************)
EXTENDS OrderStorage, FiniteSetTheorems, SequenceTheorems, TLAPS

-----------------------------------------------------------------------------
(* The free stack.                                                           *)

\* A stack of distinct slots that is not yet full of slot x: pushing x keeps
\* them distinct.
LEMMA PushDistinct ==
    ASSUME NEW f \in Seq(Slot \ {NULL}), NEW x \in Slot \ {NULL},
           \A m, n \in 1 .. Len(f) : f[m] = f[n] => m = n,
           \A n \in 1 .. Len(f) : f[n] # x
    PROVE  /\ Append(f, x) \in Seq(Slot \ {NULL})
           /\ \A m, n \in 1 .. Len(Append(f, x)) :
                Append(f, x)[m] = Append(f, x)[n] => m = n
PROOF OBVIOUS

\* Popping keeps the rest as it was.
LEMMA PopIsPrefix ==
    ASSUME NEW f \in Seq(Slot \ {NULL}), f # <<>>
    PROVE  LET p == SubSeq(f, 1, Len(f) - 1)
           IN  /\ p \in Seq(Slot \ {NULL})
               /\ Len(p) = Len(f) - 1
               /\ \A n \in 1 .. Len(p) : p[n] = f[n]
<1> DEFINE p == SubSeq(f, 1, Len(f) - 1)
<1>1. Len(f) \in Nat \ {0}
  OBVIOUS
<1>2. \A n \in 1 .. Len(f) - 1 : f[n] \in Slot \ {NULL}
  OBVIOUS
<1>3. /\ p \in Seq(Slot \ {NULL})
      /\ Len(p) = IF 1 <= Len(f) - 1 THEN Len(f) - 1 - 1 + 1 ELSE 0
      /\ \A n \in 1 .. Len(f) - 1 - 1 + 1 : p[n] = f[1 + n - 1]
  BY <1>1, <1>2, SubSeqProperties
<1>4. Len(p) = Len(f) - 1
  <2> DEFINE len == Len(p)
             k   == Len(f)
  <2>1. k \in Nat \ {0} /\ len = IF 1 <= k - 1 THEN k - 1 - 1 + 1 ELSE 0
    BY <1>1, <1>3
  <2> HIDE DEF len, k
  <2>2. len = k - 1
    BY <2>1
  <2> QED
    BY <2>2 DEF len, k
<1>5. ASSUME NEW n \in 1 .. Len(p)
      PROVE  p[n] = f[n]
  <2>1. n \in 1 .. Len(f) - 1 - 1 + 1 /\ 1 + n - 1 = n
    BY <1>1, <1>4
  <2> QED
    BY <2>1, <1>3
<1> QED
  BY <1>3, <1>4, <1>5

-----------------------------------------------------------------------------
\* After power-up the invariant holds: the stack is empty.
LEMMA InitIInv == Init => IInv
<1>1. 0 \in Slot
  BY MaxOrdersAssumption DEF Slot
<1> QED
  BY <1>1, MaxOrdersAssumption, ZeroRecAssumption
  DEF Init, IInv, TypeOK, NoSlotTwice, InitInOrder, Slot, NULL

\* Every clock edge keeps the invariant: the initialization pushes a slot above
\* all earlier ones, an allocation shortens the stack, a push returns a slot
\* that is not on it.
LEMMA NextIInv == IInv /\ [Next]_vars => IInv'
<1> SUFFICES ASSUME IInv, [Next]_vars
             PROVE  IInv'
  OBVIOUS
<1> USE DEF IInv
<1>m. MaxOrders \in Nat /\ MaxOrders > 1
  BY MaxOrdersAssumption
<1>1. CASE InitEdge
  <2>1. initCnt \in Slot \ {NULL} /\ initCnt' \in 1 .. MaxOrders
    BY <1>1, <1>m DEF InitEdge, InitDone, TypeOK, Slot, NULL
  <2>2. \A n \in 1 .. Len(free) : free[n] # initCnt
    BY <1>m DEF InitInOrder, TypeOK, Slot, NULL
  <2>3. NoSlotTwice' /\ free' \in Seq(Slot \ {NULL})
    BY <1>1, <2>1, <2>2, PushDistinct DEF InitEdge, NoSlotTwice, TypeOK
  <2>4. InitInOrder'
    <3> SUFFICES ASSUME NEW n \in 1 .. Len(free')
                 PROVE  free'[n] < initCnt'
      BY DEF InitInOrder
    <3>1. free' = Append(free, initCnt) /\ initCnt' = initCnt + 1
      BY <1>1 DEF InitEdge
    <3>2. CASE n = Len(free) + 1
      BY <3>1, <3>2, <1>m DEF TypeOK
    <3>3. CASE n \in 1 .. Len(free)
      <4>1. free'[n] = free[n] /\ free[n] < initCnt /\ free[n] \in Slot
        BY <3>1, <3>3 DEF InitInOrder, TypeOK
      <4> QED
        BY <4>1, <3>1, <1>m DEF TypeOK, Slot
    <3> QED
      BY <3>1, <3>2, <3>3 DEF TypeOK
  <2> QED
    BY <1>1, <2>1, <2>3, <2>4 DEF InitEdge, TypeOK
<1>2. CASE Alloc
  <2>1. free # <<>>
    BY <1>2 DEF Alloc, FreeEmpty
  <2>2. /\ free' \in Seq(Slot \ {NULL})
        /\ Len(free') = Len(free) - 1
        /\ \A n \in 1 .. Len(free') : free'[n] = free[n]
    BY <1>2, <2>1, PopIsPrefix DEF Alloc, TypeOK
  <2>3. \A n \in 1 .. Len(free') : n \in 1 .. Len(free)
    BY <2>2 DEF TypeOK
  <2> QED
    BY <1>2, <2>2, <2>3 DEF Alloc, TypeOK, NoSlotTwice, InitInOrder
<1>3. ASSUME NEW slot \in Held, Push(slot), UNCHANGED pool
      PROVE  IInv'
  <2>1. slot \in Slot \ {NULL} /\ \A n \in 1 .. Len(free) : free[n] # slot
    BY DEF Held, FreeSlots
  <2>2. NoSlotTwice' /\ free' \in Seq(Slot \ {NULL})
    BY <1>3, <2>1, PushDistinct DEF Push, NoSlotTwice, TypeOK
  <2>3. InitInOrder'
    <3>1. initCnt' = MaxOrders
      BY <1>3 DEF Push, InitDone
    <3>2. \A n \in 1 .. Len(free') : free'[n] \in Slot
      BY <2>2
    <3> QED
      BY <3>1, <3>2, <1>m DEF InitInOrder, Slot
  <2> QED
    BY <1>3, <2>2, <2>3 DEF Push, TypeOK
<1>4. ASSUME NEW slot \in Held, NEW rec \in OrderRec,
             Write(slot, rec), UNCHANGED <<free, initCnt>>
      PROVE  IInv'
  BY <1>4 DEF Held, Write, TypeOK, NoSlotTwice, InitInOrder
<1>5. CASE Reset
  BY <1>5, <1>m DEF Reset, TypeOK, NoSlotTwice, InitInOrder
<1>6. CASE UNCHANGED vars
  BY <1>6 DEF vars, TypeOK, NoSlotTwice, InitInOrder
<1> QED
  BY <1>1, <1>2, <1>3, <1>4, <1>5, <1>6 DEF Next

\* A stack of distinct slots is as high as the set of its slots is large.
LEMMA HeightIsSize ==
    ASSUME IInv
    PROVE  /\ IsFiniteSet(FreeSlots)
           /\ Cardinality(FreeSlots) = Len(free)
<1>1. Len(free) \in Nat
  BY DEF IInv, TypeOK
<1>2. IsFiniteSet(1 .. Len(free)) /\ Cardinality(1 .. Len(free)) = Len(free)
  BY <1>1, FS_Interval
<1>3. free \in Bijection(1 .. Len(free), FreeSlots)
  <2>1. free \in [1 .. Len(free) -> FreeSlots]
    BY DEF IInv, TypeOK, FreeSlots
  <2>2. free \in Injection(1 .. Len(free), FreeSlots)
    BY <2>1 DEF IInv, NoSlotTwice, Injection, IsInjective
  <2>3. free \in Surjection(1 .. Len(free), FreeSlots)
    BY <2>1 DEF Surjection, FreeSlots
  <2> QED
    BY <2>2, <2>3 DEF Bijection
<1>4. ExistsBijection(1 .. Len(free), FreeSlots)
  BY <1>3 DEF ExistsBijection
<1> QED
  BY <1>2, <1>4, FS_Bijection

\* num_orders follows from the invariant by counting.
LEMMA CountFollows == IInv => NumOrdersIsHeld
<1> SUFFICES ASSUME IInv, InitDone
             PROVE  NumOrders = Cardinality(Held)
  BY DEF NumOrdersIsHeld
<1>m. MaxOrders \in Nat /\ MaxOrders > 1
  BY MaxOrdersAssumption
<1>1. IsFiniteSet(1 .. MaxOrders - 1) /\ Cardinality(1 .. MaxOrders - 1) = MaxOrders - 1
  BY <1>m, FS_Interval
<1>2. FreeSlots \subseteq 1 .. MaxOrders - 1
  BY <1>m DEF IInv, TypeOK, FreeSlots, Slot, NULL
<1>3. Held = (1 .. MaxOrders - 1) \ FreeSlots
  BY <1>m DEF Held, Slot, NULL
<1>4. (1 .. MaxOrders - 1) \cap FreeSlots = FreeSlots
  BY <1>2
<1>5. Cardinality((1 .. MaxOrders - 1) \ FreeSlots)
        = Cardinality(1 .. MaxOrders - 1)
            - Cardinality((1 .. MaxOrders - 1) \cap FreeSlots)
  BY <1>1, FS_Difference
<1> QED
  BY <1>1, <1>3, <1>4, <1>5, HeightIsSize DEF NumOrders

-----------------------------------------------------------------------------
\* The inductive invariant holds in every reachable state.
THEOREM Invariance == Spec => []IInv
  BY InitIInv, NextIInv, PTL DEF Spec

\* The free stack holds only real slots and the pool only order records.
THEOREM TypeCorrect == Spec => []TypeOK
<1>1. IInv => TypeOK
  BY DEF IInv
<1> QED
  BY <1>1, Invariance, PTL

\* No slot is on the free stack twice: an allocation never delivers a slot that
\* another order holds.
THEOREM NeverTwice == Spec => []NoSlotTwice
<1>1. IInv => NoSlotTwice
  BY DEF IInv
<1> QED
  BY <1>1, Invariance, PTL

\* Whatever resets come, the slot the initialization pushes next is above every
\* slot on the stack: it pushes none twice.
THEOREM FilledInOrder == Spec => []InitInOrder
<1>1. IInv => InitInOrder
  BY DEF IInv
<1> QED
  BY <1>1, Invariance, PTL

\* num_orders, which the acknowledgements report, counts the slots in use.
THEOREM CountIsExact == Spec => []NumOrdersIsHeld
  BY CountFollows, Invariance, PTL

-----------------------------------------------------------------------------
(* The id table.                                                             *)

\* The row being evaluated is the memory's: nothing is written in between.
RowIsFresh == state = "EVAL" => row = rows[ProbeSet]

\* The sets searched before this one do not hold the id.
SearchedWithout ==
    state \in {"READ", "EVAL"} =>
        \A k \in 0 .. probe - 1, w \in Way : ~Holds(SetAt(req.id, k), w, req.id)

\* An insertion that remembers no place has seen only buckets in use.
SearchedFull ==
    state \in {"READ", "EVAL"} /\ req.op = "INSERT" /\ ~empty.valid =>
        \A k \in 0 .. probe - 1, w \in Way : rows[SetAt(req.id, k)][w].valid

\* The place remembered is an empty bucket of the window, with its row as the
\* memory has it.
EmptyIsRemembered ==
    empty.valid =>
        /\ req.op = "INSERT"
        /\ \E k \in 0 .. MaxSetProbe - 1 : empty.set = SetAt(req.id, k)
        /\ empty.row = rows[empty.set]
        /\ ~empty.row[empty.way].valid

\* The bucket a deletion clears is the id's.
PutDeletes ==
    /\ put.bucket = EmptyBucket
    /\ Holds(put.set, put.way, req.id)
    /\ put.result = rows[put.set][put.way].slot

\* The bucket an insertion takes is empty, in the window, and no other set of
\* the window holds the id.
PutInserts ==
    /\ put.bucket = [valid |-> TRUE, id |-> req.id, slot |-> req.slot]
    /\ put.result = req.slot
    /\ ~rows[put.set][put.way].valid
    /\ \E k \in 0 .. MaxSetProbe - 1 : put.set = SetAt(req.id, k)
    /\ \A k \in 0 .. MaxSetProbe - 1, w \in Way : ~Holds(SetAt(req.id, k), w, req.id)

PutIsDue ==
    state \in {"PREP", "WRITE"} =>
        /\ put.row = IF state = "PREP" THEN rows[put.set]
                     ELSE [rows[put.set] EXCEPT ![put.way] = put.bucket]
        /\ \/ req.op = "DELETE" /\ PutDeletes
           \/ req.op = "INSERT" /\ PutInserts

\* A request starts a search from its first set.
IdleIsClear == state = "IDLE" => probe = 0 /\ empty = NoPlace

\* The inductive invariant.
TabInv ==
    /\ TabTypeOK /\ NoIdTwice /\ WithinWindow
    /\ IdleIsClear /\ RowIsFresh /\ SearchedWithout /\ SearchedFull /\ EmptyIsRemembered /\ PutIsDue

-----------------------------------------------------------------------------
\* The address of a set of the window is an address of the table.
LEMMA SetAtTyped ==
    ASSUME TabTypeOK, NEW i \in TabIds, NEW k \in 0 .. MaxSetProbe - 1
    PROVE  SetAt(i, k) \in Set
<1>1. hash[i] \in 0 .. Sets - 1
  BY DEF TabTypeOK, Set
<1> QED
  BY <1>1, TableAssumption DEF SetAt, Wrap, Set

\* A set of numbers that is not empty has a least one.
LEMMA LeastExists ==
    ASSUME NEW S \in SUBSET Nat, S # {}
    PROVE  \E x \in S : \A y \in S : x <= y
<1> DEFINE Upto == {0 .. n : n \in S}
<1>1. IsWellFoundedOn(StrictSubsetOrdering(Nat), FiniteSubsetsOf(Nat))
  BY FS_StrictSubsetOrderingWellFounded
<1>2. Upto \subseteq FiniteSubsetsOf(Nat) /\ Upto # {}
  <2>1. \A n \in S : 0 .. n \in SUBSET Nat /\ IsFiniteSet(0 .. n)
    BY FS_Interval
  <2> QED
    BY <2>1 DEF FiniteSubsetsOf
<1>3. \E A \in Upto : \A B \in Upto : ~(<<B, A>> \in StrictSubsetOrdering(Nat))
  <2> HIDE DEF Upto
  <2> QED
    BY <1>1, <1>2, WFMin
<1>4. PICK m \in S : \A n \in S : ~(<<0 .. n, 0 .. m>> \in StrictSubsetOrdering(Nat))
  BY <1>3
<1>5. ASSUME NEW n \in S, n < m
      PROVE  FALSE
  <2>1. 0 .. n \subseteq 0 .. m /\ 0 .. n # 0 .. m /\ 0 .. m \subseteq Nat
    BY <1>5
  <2> QED
    BY <1>4, <2>1 DEF StrictSubsetOrdering
<1> QED
  BY <1>5

\* The comparison finds a bucket of the row that holds the id.
LEMMA MatchFound ==
    ASSUME RowMatch
    PROVE  MatchWay \in Way /\ Matches(row, MatchWay)
<1> DEFINE S == {w \in Way : Matches(row, w)}
<1>1. S \in SUBSET Nat /\ S # {}
  BY DEF RowMatch, Way
<1>2. \E w \in S : \A v \in S : w <= v
  <2> HIDE DEF S
  <2> QED
    BY <1>1, LeastExists
<1>3. \E w \in Way : Matches(row, w) /\ \A v \in Way : Matches(row, v) => w <= v
  BY <1>2
<1> QED
  BY <1>3 DEF MatchWay

\* The selection finds an empty bucket of the row.
LEMMA EmptyFound ==
    ASSUME RowEmpty
    PROVE  EmptyWay \in Way /\ ~row[EmptyWay].valid
<1> DEFINE S == {w \in Way : ~row[w].valid}
<1>1. S \in SUBSET Nat /\ S # {}
  BY DEF RowEmpty, Way
<1>2. \E w \in S : \A v \in S : w <= v
  <2> HIDE DEF S
  <2> QED
    BY <1>1, LeastExists
<1>3. \E w \in Way : ~row[w].valid /\ \A v \in Way : ~row[v].valid => w <= v
  BY <1>2
<1> QED
  BY <1>3 DEF EmptyWay

\* The optional registers tell their empty value from the others.
LEMMA Registers ==
    /\ EmptyBucket \in Bucket /\ ~EmptyBucket.valid /\ ZeroRow \in Row
    /\ \A b \in Bucket : b.valid => b.id \in TabIds /\ b.slot \in TabSlots
    /\ NoReq \notin Req /\ NoReq.op = "NONE"
    /\ ~NoPlace.valid
    /\ \A p \in Place : p.valid /\ p.set \in Set /\ p.way \in Way /\ p.row \in Row
    /\ NoPut \notin Put
<1>1. EmptyBucket \in Bucket /\ ~EmptyBucket.valid /\ ZeroRow \in Row
  BY DEF EmptyBucket, Bucket, ZeroRow, Row
<1>2. ASSUME NEW b \in Bucket, b.valid
      PROVE  b.id \in TabIds /\ b.slot \in TabSlots
  <2>1. b # EmptyBucket
    BY <1>1, <1>2
  <2>2. b \in [valid : {TRUE}, id : TabIds, slot : TabSlots]
    BY <2>1 DEF Bucket
  <2> QED
    BY <2>2
<1>3. NoReq \notin Req /\ NoReq.op = "NONE"
  <2>1. NoReq.op = "NONE" /\ \A r \in Req : r.op \in Op
    BY DEF NoReq, Req
  <2> QED
    BY <2>1 DEF Op
<1>4. ~NoPlace.valid
  BY DEF NoPlace
<1>5. \A p \in Place : p.valid /\ p.set \in Set /\ p.way \in Way /\ p.row \in Row
  BY DEF Place
<1>6. NoPut \notin Put
  <2>1. NoPut.result = 0 /\ \A p \in Put : p.result \in TabSlots
    BY DEF NoPut, Put
  <2> QED
    BY <2>1, TableAssumption
<1> QED
  BY <1>1, <1>2, <1>3, <1>4, <1>5, <1>6

\* While a request is in progress its id is an id and its step a step.
LEMMA InProgress ==
    ASSUME TabTypeOK, state # "IDLE"
    PROVE  /\ req \in Req /\ ProperRequest(req)
           /\ req.op \in Op /\ req.id \in TabIds
           /\ ProbeSet \in Set
<1>1. req \in Req /\ ProperRequest(req)
  BY DEF TabTypeOK
<1>2. req.op \in Op /\ req.id \in TabIds
  BY <1>1 DEF Req
<1>3. ProbeSet \in Set
  BY <1>2, SetAtTyped DEF ProbeSet, TabTypeOK
<1> QED
  BY <1>1, <1>2, <1>3

\* An FSM that goes idle without a write keeps the invariant.
LEMMA DoneKeeps ==
    ASSUME TabInv, NEW a, Done(a), UNCHANGED <<hash, rows>>
    PROVE  TabInv'
<1>1. TabTypeOK'
  BY Registers, TableAssumption DEF TabInv, TabTypeOK, Done, Way
<1>2. NoIdTwice' /\ WithinWindow'
  BY DEF TabInv, NoIdTwice, WithinWindow, SetAt, Done
<1>3. IdleIsClear' /\ RowIsFresh' /\ SearchedWithout' /\ SearchedFull' /\ PutIsDue'
  BY DEF Done, IdleIsClear, RowIsFresh, SearchedWithout, SearchedFull, PutIsDue
<1>4. EmptyIsRemembered'
  BY Registers DEF Done, EmptyIsRemembered
<1> QED
  BY <1>1, <1>2, <1>3, <1>4 DEF TabInv

\* So does a step that leaves the memory alone, as far as the memory goes.
LEMMA MemoryKept ==
    ASSUME TabInv, UNCHANGED <<hash, rows>>
    PROVE  /\ NoIdTwice' /\ WithinWindow'
           /\ \A i, k : SetAt(i, k)' = SetAt(i, k)
           /\ \A s, w, i : Holds(s, w, i)' = Holds(s, w, i)
  BY DEF TabInv, NoIdTwice, WithinWindow, SetAt, Holds

LEMMA AskKeeps ==
    ASSUME TabInv, NEW r \in Req, ProperRequest(r), Ask(r)
    PROVE  TabInv'
<1>1. state = "IDLE" /\ put = NoPut /\ probe = 0 /\ empty = NoPlace
  BY DEF Ask, TabInv, TabTypeOK, IdleIsClear
<1>2. TabTypeOK'
  BY <1>1, Registers DEF TabInv, TabTypeOK, Ask, regs, ProperRequest
<1>3. NoIdTwice' /\ WithinWindow'
  BY MemoryKept DEF Ask
<1>4. IdleIsClear' /\ RowIsFresh' /\ PutIsDue'
  BY DEF Ask, IdleIsClear, RowIsFresh, PutIsDue
<1>5. SearchedWithout' /\ SearchedFull' /\ EmptyIsRemembered'
  BY <1>1, Registers DEF Ask, regs, SearchedWithout, SearchedFull, EmptyIsRemembered
<1> QED
  BY <1>2, <1>3, <1>4, <1>5 DEF TabInv

LEMMA ReadRowKeeps ==
    ASSUME TabInv, ReadRow
    PROVE  TabInv'
<1>1. ProbeSet \in Set /\ req \in Req /\ req # NoReq /\ state = "READ" /\ state' = "EVAL"
  BY InProgress, Registers DEF TabInv, ReadRow
<1>2. TabTypeOK'
  BY <1>1 DEF TabInv, TabTypeOK, ReadRow, ProperRequest
<1>3. NoIdTwice' /\ WithinWindow'
  BY MemoryKept DEF ReadRow
<1>4. RowIsFresh' /\ IdleIsClear' /\ PutIsDue'
  BY <1>1 DEF ReadRow, RowIsFresh, IdleIsClear, PutIsDue, ProbeSet, SetAt
<1>5. SearchedWithout' /\ SearchedFull'
  BY <1>1 DEF TabInv, ReadRow, SearchedWithout, SearchedFull, SetAt, Holds
<1>6. EmptyIsRemembered'
  BY DEF TabInv, ReadRow, EmptyIsRemembered, SetAt
<1> QED
  BY <1>2, <1>3, <1>4, <1>5, <1>6 DEF TabInv

\* The place an insertion has after a row without its id is an empty bucket of
\* the window.
LEMMA RememberedPlace ==
    ASSUME TabInv, state = "EVAL", Remembered.valid
    PROVE  /\ Remembered \in Place
           /\ req.op = "INSERT"
           /\ \E k \in 0 .. MaxSetProbe - 1 : Remembered.set = SetAt(req.id, k)
           /\ Remembered.row = rows[Remembered.set]
           /\ ~Remembered.row[Remembered.way].valid
<1>1. CASE req.op = "INSERT" /\ ~empty.valid /\ RowEmpty
  <2>1. Remembered = Here
    BY <1>1 DEF Remembered
  <2>2. ProbeSet \in Set /\ probe \in 0 .. MaxSetProbe - 1 /\ row \in Row /\ row = rows[ProbeSet]
    BY InProgress DEF TabInv, TabTypeOK, RowIsFresh
  <2>3. EmptyWay \in Way /\ ~row[EmptyWay].valid
    BY <1>1, EmptyFound
  <2>4. Here \in Place
    BY <2>2, <2>3 DEF Here, Place
  <2>5. /\ Here.set = SetAt(req.id, probe) /\ Here.row = rows[Here.set]
        /\ Here.way = EmptyWay /\ Here.row = row
    BY <2>2 DEF Here, ProbeSet
  <2> QED
    BY <1>1, <2>1, <2>2, <2>3, <2>4, <2>5
<1>2. CASE ~(req.op = "INSERT" /\ ~empty.valid /\ RowEmpty)
  <2>1. Remembered = empty /\ empty.valid
    BY <1>2 DEF Remembered
  <2>2. empty \in Place
    BY <2>1, Registers DEF TabInv, TabTypeOK
  <2> QED
    BY <2>1, <2>2 DEF TabInv, EmptyIsRemembered
<1> QED
  BY <1>1, <1>2

\* The row evaluated adds its set to the sets without the id.
LEMMA RowWithout ==
    ASSUME TabInv, state = "EVAL", ~RowMatch, NEW k \in 0 .. probe, NEW w \in Way
    PROVE  ~Holds(SetAt(req.id, k), w, req.id)
<1>0. probe \in Nat
  BY DEF TabInv, TabTypeOK
<1>1. CASE k = probe
  <2>1. row = rows[SetAt(req.id, k)]
    BY <1>1 DEF TabInv, RowIsFresh, ProbeSet
  <2> QED
    BY <2>1 DEF RowMatch, Matches, Holds
<1>2. CASE k # probe
  BY <1>0, <1>2 DEF TabInv, SearchedWithout
<1> QED
  BY <1>1, <1>2

LEMMA GoOnKeeps ==
    ASSUME TabInv, GoOn
    PROVE  TabInv'
<1>1. /\ state = "EVAL" /\ state' = "READ" /\ ~RowMatch
      /\ probe' = probe + 1 /\ req' = req /\ empty' = Remembered
      /\ UNCHANGED <<hash, rows, row, put>>
  BY DEF GoOn
<1>2. req \in Req /\ req # NoReq /\ put = NoPut
  BY <1>1, InProgress, Registers DEF TabInv, TabTypeOK
<1>3. probe' \in 0 .. MaxSetProbe - 1
  BY <1>1, TableAssumption DEF TabInv, TabTypeOK, GoOn, LastProbe
<1>4. Remembered \in Place \union {NoPlace}
  <2>1. CASE Remembered.valid
    BY <1>1, <2>1, RememberedPlace
  <2>2. CASE ~Remembered.valid
    BY <2>2, Registers DEF Remembered, Here, TabInv, TabTypeOK
  <2> QED
    BY <2>1, <2>2
<1>5. TabTypeOK'
  BY <1>1, <1>2, <1>3, <1>4 DEF TabInv, TabTypeOK, ProperRequest
<1>6. NoIdTwice' /\ WithinWindow'
  BY <1>1, MemoryKept
<1>7. RowIsFresh' /\ IdleIsClear' /\ PutIsDue'
  BY <1>1 DEF RowIsFresh, IdleIsClear, PutIsDue
<1>8. SearchedWithout'
  <2>1. \A k \in 0 .. probe, w \in Way : ~Holds(SetAt(req.id, k), w, req.id)
    BY <1>1, RowWithout
  <2>2. 0 .. probe' - 1 = 0 .. probe
    BY <1>1 DEF TabInv, TabTypeOK
  <2> QED
    BY <1>1, <2>1, <2>2 DEF SearchedWithout, Holds, SetAt
<1>9. EmptyIsRemembered'
  <2> SUFFICES ASSUME Remembered.valid
               PROVE  EmptyIsRemembered'
    BY <1>1 DEF EmptyIsRemembered
  <2> QED
    BY <1>1, RememberedPlace DEF EmptyIsRemembered, SetAt
<1>10. SearchedFull'
  <2> SUFFICES ASSUME req.op = "INSERT", ~Remembered.valid
               PROVE  \A k \in 0 .. probe, w \in Way : rows[SetAt(req.id, k)][w].valid
    <3>1. 0 .. probe' - 1 = 0 .. probe
      BY <1>1 DEF TabInv, TabTypeOK
    <3> QED
      BY <1>1, <3>1 DEF SearchedFull, SetAt
  <2>1. ~empty.valid /\ ~RowEmpty
    BY DEF Remembered, Here
  <2>2. \A w \in Way : rows[SetAt(req.id, probe)][w].valid
    BY <1>1, <2>1 DEF TabInv, RowIsFresh, RowEmpty, ProbeSet
  <2>3. \A k \in 0 .. probe - 1, w \in Way : rows[SetAt(req.id, k)][w].valid
    BY <1>1, <2>1 DEF TabInv, SearchedFull
  <2>4. \A k \in 0 .. probe : k = probe \/ k \in 0 .. probe - 1
    BY DEF TabInv, TabTypeOK
  <2> QED
    BY <2>2, <2>3, <2>4
<1> QED
  BY <1>5, <1>6, <1>7, <1>8, <1>9, <1>10 DEF TabInv

\* The bucket found by the comparison, in the memory.
LEMMA MatchInMemory ==
    ASSUME TabInv, state = "EVAL", RowMatch
    PROVE  /\ MatchWay \in Way
           /\ Holds(ProbeSet, MatchWay, req.id)
           /\ row = rows[ProbeSet]
           /\ row[MatchWay] = rows[ProbeSet][MatchWay]
           /\ row[MatchWay].slot \in TabSlots
<1>1. MatchWay \in Way /\ Matches(row, MatchWay)
  BY MatchFound
<1>2. row = rows[ProbeSet] /\ row \in Row
  BY DEF TabInv, RowIsFresh, TabTypeOK
<1>3. row[MatchWay] \in Bucket
  BY <1>1, <1>2 DEF Row
<1>4. row[MatchWay].slot \in TabSlots
  BY <1>1, <1>3, Registers DEF Matches
<1> QED
  BY <1>1, <1>2, <1>4 DEF Matches, Holds

LEMMA FindDeleteKeeps ==
    ASSUME TabInv, FindDelete
    PROVE  TabInv'
<1>1. /\ state = "EVAL" /\ state' = "PREP" /\ RowMatch /\ req.op = "DELETE"
      /\ UNCHANGED <<hash, rows, req, probe, row, empty>>
  BY DEF FindDelete
<1>2. /\ put'.set = ProbeSet /\ put'.way = MatchWay /\ put'.row = row
      /\ put'.bucket = EmptyBucket /\ put'.result = row[MatchWay].slot
  BY DEF FindDelete
<1>3. put' \in Put
  BY <1>1, MatchInMemory, InProgress, Registers DEF FindDelete, Put, TabInv, TabTypeOK
<1>4. req \in Req /\ req # NoReq /\ put' # NoPut
  BY <1>1, <1>3, InProgress, Registers DEF TabInv
<1>5. TabTypeOK'
  BY <1>1, <1>3, <1>4 DEF TabInv, TabTypeOK, ProperRequest
<1>6. NoIdTwice' /\ WithinWindow'
  BY <1>1, MemoryKept
<1>7. RowIsFresh' /\ IdleIsClear' /\ SearchedWithout' /\ SearchedFull'
  BY <1>1 DEF RowIsFresh, IdleIsClear, SearchedWithout, SearchedFull
<1>8. EmptyIsRemembered'
  BY <1>1 DEF TabInv, EmptyIsRemembered, SetAt
<1>9. PutIsDue'
  <2>1. PutDeletes'
    BY <1>1, <1>2, MatchInMemory DEF PutDeletes, Holds
  <2> QED
    BY <1>1, <1>2, <2>1, MatchInMemory DEF PutIsDue
<1> QED
  BY <1>5, <1>6, <1>7, <1>8, <1>9 DEF TabInv

LEMMA InsertHereKeeps ==
    ASSUME TabInv, InsertHere
    PROVE  TabInv'
<1>1. /\ state = "EVAL" /\ state' = "PREP" /\ ~RowMatch /\ probe = MaxSetProbe - 1
      /\ req.op = "INSERT" /\ Remembered.valid /\ empty' = Remembered
      /\ UNCHANGED <<hash, rows, req, probe, row>>
  BY DEF InsertHere, LastProbe
<1> DEFINE b == [valid |-> TRUE, id |-> req.id, slot |-> req.slot]
<1>2. /\ put'.set = Remembered.set /\ put'.way = Remembered.way
      /\ put'.row = Remembered.row /\ put'.bucket = b /\ put'.result = req.slot
  BY DEF InsertHere
<1>3. req \in Req /\ req # NoReq /\ req.id \in TabIds /\ req.slot \in TabSlots
  BY <1>1, InProgress, Registers DEF TabInv, ProperRequest
<1>4. Remembered \in Place
  BY <1>1, RememberedPlace
<1>5. b \in Bucket
  BY <1>3 DEF Bucket
<1>6. put' \in Put /\ put' # NoPut
  <2>1. put' = [set |-> Remembered.set, way |-> Remembered.way,
                row |-> Remembered.row, bucket |-> b, result |-> req.slot]
    BY DEF InsertHere
  <2> HIDE DEF b
  <2> QED
    BY <1>3, <1>4, <1>5, <2>1, Registers DEF Put
<1>7. TabTypeOK'
  BY <1>1, <1>3, <1>4, <1>6 DEF TabInv, TabTypeOK, ProperRequest
<1>8. NoIdTwice' /\ WithinWindow'
  BY <1>1, MemoryKept
<1>9. RowIsFresh' /\ IdleIsClear' /\ SearchedWithout' /\ SearchedFull'
  BY <1>1 DEF RowIsFresh, IdleIsClear, SearchedWithout, SearchedFull
<1>10. EmptyIsRemembered'
  BY <1>1, RememberedPlace DEF EmptyIsRemembered, SetAt
<1>11. PutInserts'
  <2>1. \A k \in 0 .. MaxSetProbe - 1, w \in Way : ~Holds(SetAt(req.id, k), w, req.id)
    BY <1>1, RowWithout
  <2>2. ~rows[Remembered.set][Remembered.way].valid
    BY <1>1, RememberedPlace
  <2>3. \E k \in 0 .. MaxSetProbe - 1 : Remembered.set = SetAt(req.id, k)
    BY <1>1, RememberedPlace
  <2> QED
    BY <1>1, <1>2, <2>1, <2>2, <2>3 DEF PutInserts, Holds, SetAt
<1>12. PutIsDue'
  BY <1>1, <1>2, <1>11, RememberedPlace DEF PutIsDue
<1> QED
  BY <1>7, <1>8, <1>9, <1>10, <1>12 DEF TabInv

LEMMA PrepKeeps ==
    ASSUME TabInv, Prep
    PROVE  TabInv'
<1>1. /\ state = "PREP" /\ state' = "WRITE"
      /\ UNCHANGED <<hash, rows, req, probe, row, empty>>
  BY DEF Prep
<1>2. put \in Put /\ put # NoPut
  BY <1>1, Registers DEF TabInv, TabTypeOK
<1>3. /\ put.set \in Set /\ put.way \in Way /\ put.row \in Row
      /\ put.bucket \in Bucket /\ put.result \in TabSlots
  BY <1>2 DEF Put
<1> DEFINE r == [put.row EXCEPT ![put.way] = put.bucket]
<1>4. r \in Row
  BY <1>3 DEF Row
<1>5. put' = [put EXCEPT !.row = r]
  BY DEF Prep
<1>6. /\ put' \in Put /\ put'.set = put.set /\ put'.way = put.way /\ put'.row = r
      /\ put'.bucket = put.bucket /\ put'.result = put.result
  <2> HIDE DEF r
  <2> QED
    BY <1>2, <1>3, <1>4, <1>5 DEF Put
<1>7. req \in Req /\ req # NoReq /\ put' # NoPut
  BY <1>1, <1>6, InProgress, Registers DEF TabInv
<1>8. TabTypeOK'
  BY <1>1, <1>6, <1>7 DEF TabInv, TabTypeOK, ProperRequest
<1>9. NoIdTwice' /\ WithinWindow'
  BY <1>1, MemoryKept
<1>10. RowIsFresh' /\ IdleIsClear' /\ SearchedWithout' /\ SearchedFull'
  BY <1>1 DEF RowIsFresh, IdleIsClear, SearchedWithout, SearchedFull
<1>11. EmptyIsRemembered'
  BY <1>1 DEF TabInv, EmptyIsRemembered, SetAt
<1>12. PutIsDue'
  <2>1. put'.row = [rows[put.set] EXCEPT ![put.way] = put.bucket]
    BY <1>1, <1>6 DEF TabInv, PutIsDue
  <2>2. (PutDeletes => PutDeletes') /\ (PutInserts => PutInserts')
    BY <1>1, <1>6 DEF PutDeletes, PutInserts, Holds, SetAt
  <2> QED
    BY <1>1, <1>6, <2>1, <2>2 DEF TabInv, PutIsDue
<1> QED
  BY <1>8, <1>9, <1>10, <1>11, <1>12 DEF TabInv

\* What a deletion or an insertion writes: one bucket.
LEMMA WriteEffect ==
    ASSUME TabInv, WriteRow
    PROVE  /\ put.set \in Set /\ put.way \in Way /\ put.bucket \in Bucket
           /\ rows' \in [Set -> Row]
           /\ \A s \in Set, w \in Way :
                 rows'[s][w] = IF s = put.set /\ w = put.way THEN put.bucket ELSE rows[s][w]
<1>1. state = "WRITE" /\ rows' = [rows EXCEPT ![put.set] = put.row]
  BY DEF WriteRow
<1>2. put \in Put
  BY <1>1 DEF TabInv, TabTypeOK
<1>3. /\ put.set \in Set /\ put.way \in Way /\ put.row \in Row /\ put.bucket \in Bucket
  BY <1>2 DEF Put
<1>4. rows \in [Set -> Row]
  BY DEF TabInv, TabTypeOK
<1>5. put.row = [rows[put.set] EXCEPT ![put.way] = put.bucket]
  BY <1>1 DEF TabInv, PutIsDue
<1>6. \A w \in Way : put.row[w] = IF w = put.way THEN put.bucket ELSE rows[put.set][w]
  BY <1>3, <1>4, <1>5 DEF Row
<1> QED
  BY <1>1, <1>3, <1>4, <1>6

\* An id that an insertion is about to write is nowhere in the table.
LEMMA InsertedIsNew ==
    ASSUME TabInv, PutInserts, NEW s \in Set, NEW w \in Way
    PROVE  ~Holds(s, w, req.id)
<1> SUFFICES ASSUME Holds(s, w, req.id)
             PROVE  FALSE
  OBVIOUS
<1>1. PICK k \in 0 .. MaxSetProbe - 1 : s = SetAt(req.id, k)
  BY DEF TabInv, WithinWindow, Holds
<1> QED
  BY <1>1 DEF PutInserts

LEMMA WriteRowKeeps ==
    ASSUME TabInv, WriteRow
    PROVE  TabInv'
<1>1. state = "WRITE" /\ state' = "IDLE" /\ hash' = hash
  BY DEF WriteRow, Done
<1>2. TabTypeOK'
  BY <1>1, WriteEffect, Registers, TableAssumption DEF TabInv, TabTypeOK, WriteRow, Done, Way
<1>3. NoIdTwice' /\ WithinWindow'
  <2>1. CASE PutDeletes
    <3>1. \A s \in Set, w \in Way : rows'[s][w].valid =>
              rows[s][w].valid /\ rows'[s][w] = rows[s][w]
      BY <2>1, WriteEffect, Registers DEF PutDeletes
    <3>2. NoIdTwice'
      BY <3>1 DEF TabInv, NoIdTwice
    <3>3. WithinWindow'
      BY <1>1, <3>1 DEF TabInv, WithinWindow, SetAt
    <3> QED
      BY <3>2, <3>3
  <2>2. CASE PutInserts
    <3>1. /\ put.bucket.id = req.id
          /\ \A s \in Set, w \in Way : rows'[s][w].valid =>
              \/ s = put.set /\ w = put.way /\ rows'[s][w].id = req.id
              \/ rows[s][w].valid /\ rows'[s][w] = rows[s][w] /\ rows[s][w].id # req.id
      BY <2>2, WriteEffect, InsertedIsNew DEF PutInserts, Holds
    <3>2. NoIdTwice'
      BY <3>1 DEF TabInv, NoIdTwice
    <3>3. WithinWindow'
      BY <1>1, <2>2, <3>1 DEF TabInv, WithinWindow, SetAt, PutInserts
    <3> QED
      BY <3>2, <3>3
  <2> QED
    BY <1>1, <2>1, <2>2 DEF TabInv, PutIsDue
<1>4. IdleIsClear' /\ RowIsFresh' /\ SearchedWithout' /\ SearchedFull' /\ PutIsDue'
  BY DEF WriteRow, Done, IdleIsClear, RowIsFresh, SearchedWithout, SearchedFull, PutIsDue
<1>5. EmptyIsRemembered'
  BY Registers DEF WriteRow, Done, EmptyIsRemembered
<1> QED
  BY <1>2, <1>3, <1>4, <1>5 DEF TabInv

LEMMA TabInitInv == TabInit => TabInv
<1> SUFFICES ASSUME TabInit
             PROVE  TabInv
  OBVIOUS
<1>1. TabTypeOK
  BY Registers, TableAssumption DEF TabInit, TabTypeOK
<1>2. \A s \in Set, w \in Way : ~rows[s][w].valid
  BY Registers DEF TabInit, ZeroRow
<1>3. NoIdTwice /\ WithinWindow
  BY <1>2 DEF NoIdTwice, WithinWindow
<1>4. IdleIsClear /\ RowIsFresh /\ SearchedWithout /\ SearchedFull /\ PutIsDue
  BY DEF TabInit, IdleIsClear, RowIsFresh, SearchedWithout, SearchedFull, PutIsDue
<1>5. EmptyIsRemembered
  BY Registers DEF TabInit, EmptyIsRemembered
<1> QED
  BY <1>1, <1>3, <1>4, <1>5 DEF TabInv

LEMMA TabNextInv == TabInv /\ [TabNext]_tabVars => TabInv'
<1> SUFFICES ASSUME TabInv, [TabNext]_tabVars
             PROVE  TabInv'
  OBVIOUS
<1>1. ASSUME NEW r \in Req, ProperRequest(r), Ask(r)
      PROVE  TabInv'
  BY <1>1, AskKeeps
<1>2. CASE ReadRow \/ GoOn \/ FindDelete \/ InsertHere \/ Prep \/ WriteRow
  BY <1>2, ReadRowKeeps, GoOnKeeps, FindDeleteKeeps, InsertHereKeeps, PrepKeeps, WriteRowKeeps
<1>3. CASE FindLookup
  BY <1>3, DoneKeeps DEF FindLookup
<1>4. CASE FindDuplicate
  BY <1>4, DoneKeeps DEF FindDuplicate
<1>5. CASE NotFound
  BY <1>5, DoneKeeps DEF NotFound
<1>6. CASE TabReset
  BY <1>6, DoneKeeps DEF TabReset
<1>7. CASE UNCHANGED tabVars
  BY <1>7 DEF tabVars, regs, TabInv, TabTypeOK, NoIdTwice, WithinWindow, IdleIsClear,
              RowIsFresh, SearchedWithout, SearchedFull, EmptyIsRemembered, PutIsDue,
              PutDeletes, PutInserts, Holds, SetAt, ProbeSet, ProperRequest
<1> QED
  BY <1>1, <1>2, <1>3, <1>4, <1>5, <1>6, <1>7 DEF TabNext, TabStep

-----------------------------------------------------------------------------
\* In a table without duplicates an id is mapped to the slot of its bucket.
LEMMA SlotInFound ==
    ASSUME NEW t \in [Set -> Row],
           \A s1, s2 \in Set, v1, v2 \in Way :
               t[s1][v1].valid /\ t[s2][v2].valid /\ t[s1][v1].id = t[s2][v2].id
               => s1 = s2 /\ v1 = v2,
           NEW s \in Set, NEW w \in Way, t[s][w].valid
    PROVE  /\ SlotIn(t, t[s][w].id) = t[s][w].slot
           /\ t[s][w].slot \in TabSlots /\ t[s][w].slot # 0
<1> DEFINE Found(p) == t[p[1]][p[2]].valid /\ t[p[1]][p[2]].id = t[s][w].id
           place == CHOOSE p \in Set \X Way : Found(p)
<1>1. place \in Set \X Way /\ Found(place)
  <2>1. <<s, w>> \in Set \X Way /\ Found(<<s, w>>)
    OBVIOUS
  <2> HIDE DEF Found
  <2> QED
    BY <2>1, Zenon
<1>2. place[1] = s /\ place[2] = w
  <2>1. place[1] \in Set /\ place[2] \in Way
    <3> HIDE DEF place
    <3> QED
      BY <1>1
  <2>2. t[place[1]][place[2]].valid /\ t[place[1]][place[2]].id = t[s][w].id
    BY <1>1
  <2> HIDE DEF place
  <2> QED
    BY <2>1, <2>2
<1>3. SlotIn(t, t[s][w].id) = t[place[1]][place[2]].slot
  BY <1>1 DEF SlotIn
<1>4. t[s][w] \in Bucket
  BY DEF Row
<1>5. t[s][w].slot \in TabSlots
  BY <1>4, Registers
<1> HIDE DEF place
<1> QED
  BY <1>2, <1>3, <1>5, TableAssumption

LEMMA SlotInMissing ==
    ASSUME NEW t, NEW i, \A s \in Set, w \in Way : ~(t[s][w].valid /\ t[s][w].id = i)
    PROVE  SlotIn(t, i) = 0
  BY DEF SlotIn

LEMMA SlotFound ==
    ASSUME TabTypeOK, NoIdTwice, NEW s \in Set, NEW w \in Way, NEW i, Holds(s, w, i)
    PROVE  /\ SlotOf(i) = rows[s][w].slot
           /\ SlotOf(i) \in TabSlots /\ SlotOf(i) # 0
  BY SlotInFound DEF TabTypeOK, NoIdTwice, Holds, SlotOf

\* A whole window searched in vain: the id is nowhere.
LEMMA NotFoundIsMissing ==
    ASSUME TabInv, state = "EVAL", ~RowMatch, LastProbe
    PROVE  SlotOf(req.id) = 0
<1>0. MaxSetProbe - 1 = probe
  BY DEF LastProbe
<1>1. \A k \in 0 .. MaxSetProbe - 1, w \in Way : ~Holds(SetAt(req.id, k), w, req.id)
  BY <1>0, RowWithout
<1>2. \A s \in Set, w \in Way : ~Holds(s, w, req.id)
  BY <1>1 DEF TabInv, WithinWindow, Holds
<1> QED
  BY <1>2, SlotInMissing DEF Holds, SlotOf

\* Two tables that agree on an id's buckets map it alike.
LEMMA SameSlot ==
    ASSUME NEW t, NEW u, NEW i,
           \A s \in Set, w \in Way :
               /\ t[s][w].valid /\ t[s][w].id = i <=> u[s][w].valid /\ u[s][w].id = i
               /\ t[s][w].valid /\ t[s][w].id = i => t[s][w] = u[s][w]
    PROVE  SlotIn(t, i) = SlotIn(u, i)
<1> DEFINE F(p) == t[p[1]][p[2]].valid /\ t[p[1]][p[2]].id = i
           G(p) == u[p[1]][p[2]].valid /\ u[p[1]][p[2]].id = i
           f == CHOOSE p \in Set \X Way : F(p)
           g == CHOOSE p \in Set \X Way : G(p)
<1>1. \A p \in Set \X Way : F(p) <=> G(p)
  OBVIOUS
<1>2. f = g
  <2> HIDE DEF F, G
  <2> QED
    BY <1>1
<1>3. CASE \E p \in Set \X Way : F(p)
  <2>1. f \in Set \X Way /\ F(f)
    <3> HIDE DEF F
    <3> QED
      BY <1>3, Zenon
  <2>2. t[f[1]][f[2]] = u[g[1]][g[2]]
    <3>1. f[1] \in Set /\ f[2] \in Way /\ t[f[1]][f[2]].valid /\ t[f[1]][f[2]].id = i
      <4> HIDE DEF f
      <4> QED
        BY <2>1
    <3> HIDE DEF f, g
    <3> QED
      BY <1>2, <3>1
  <2> QED
    BY <1>1, <1>3, <2>2 DEF SlotIn
<1>4. CASE ~ \E p \in Set \X Way : F(p)
  BY <1>1, <1>4 DEF SlotIn
<1> QED
  BY <1>3, <1>4

\* What a write does to the map.
LEMMA DeleteMaps ==
    ASSUME TabInv, WriteRow, req.op = "DELETE"
    PROVE  /\ SlotOf(req.id) = put.result /\ put.result # 0
           /\ \A i : SlotIn(rows', i) = IF i = req.id THEN 0 ELSE SlotOf(i)
<1>1. PutDeletes /\ put.set \in Set /\ put.way \in Way
  BY WriteEffect DEF TabInv, PutIsDue, WriteRow
<1>2. SlotOf(req.id) = put.result /\ put.result # 0
  BY <1>1, SlotFound DEF PutDeletes, TabInv
<1>3. \A s \in Set, w \in Way :
          \/ ~rows'[s][w].valid /\ Holds(s, w, req.id)
          \/ rows'[s][w] = rows[s][w] /\ ~Holds(s, w, req.id)
  BY <1>1, WriteEffect, Registers DEF TabInv, PutDeletes, Holds, NoIdTwice
<1>4. SlotIn(rows', req.id) = 0
  BY <1>3, SlotInMissing DEF Holds
<1>5. \A i : i # req.id => SlotIn(rows', i) = SlotIn(rows, i)
  BY <1>3, SameSlot DEF Holds
<1> QED
  BY <1>2, <1>4, <1>5 DEF SlotOf

LEMMA InsertMaps ==
    ASSUME TabInv, WriteRow, req.op = "INSERT"
    PROVE  /\ SlotOf(req.id) = 0 /\ put.result = req.slot
           /\ \A i : SlotIn(rows', i) = IF i = req.id THEN req.slot ELSE SlotOf(i)
<1>1. PutInserts /\ put.set \in Set /\ put.way \in Way
  BY WriteEffect DEF TabInv, PutIsDue, WriteRow
<1>2. SlotOf(req.id) = 0 /\ put.result = req.slot
  BY <1>1, InsertedIsNew, SlotInMissing DEF PutInserts, Holds, SlotOf
<1>3. SlotIn(rows', req.id) = req.slot
  <2>1. /\ rows'[put.set][put.way].valid /\ rows'[put.set][put.way].id = req.id
        /\ rows'[put.set][put.way].slot = req.slot
    BY <1>1, WriteEffect DEF PutInserts
  <2>2. rows' \in [Set -> Row] /\ NoIdTwice'
    BY WriteEffect, WriteRowKeeps DEF TabInv
  <2> QED
    BY <1>1, <2>1, <2>2, SlotInFound DEF NoIdTwice
<1>4. \A i : i # req.id => SlotIn(rows', i) = SlotIn(rows, i)
  <2>1. put.bucket.id = req.id /\ ~rows[put.set][put.way].valid
    BY <1>1 DEF PutInserts
  <2> QED
    BY <1>1, <2>1, WriteEffect, SameSlot
<1> QED
  BY <1>2, <1>3, <1>4 DEF SlotOf

-----------------------------------------------------------------------------
\* The map after a step.
LEMMA MapAfter == SlotMap' = [i \in TabIds |-> SlotIn(rows', i)]
  BY DEF SlotMap, SlotOf

LEMMA MapKept == UNCHANGED rows => SlotMap' = SlotMap
  BY MapAfter DEF SlotMap, SlotOf

\* What an answer that leaves the memory alone is, to the map.
LEMMA AnswerMaps ==
    ASSUME TabInv, UNCHANGED rows,
           \/ FindLookup
           \/ FindDuplicate
           \/ NotFound
    PROVE  Map!Reply
<1>1. state = "EVAL" /\ req' = NoReq /\ SlotMap' = SlotMap
  BY MapKept DEF FindLookup, FindDuplicate, NotFound, Done
<1>2. req.id \in TabIds /\ SlotMap[req.id] = SlotOf(req.id) /\ req.op \in Op
  BY <1>1, InProgress DEF SlotMap, TabInv
<1>3. CASE FindLookup
  <2>1. SlotOf(req.id) = row[MatchWay].slot /\ SlotOf(req.id) # 0
    BY <1>1, <1>3, InProgress, MatchInMemory, SlotFound DEF FindLookup, TabInv
  <2>2. req.op = "LOOKUP" /\ answer' = Hit(row[MatchWay].slot)
    BY <1>3 DEF FindLookup, Done
  <2> QED
    BY <1>1, <1>2, <2>1, <2>2 DEF Map!Reply, Map!Lookup, Map!Hit, Hit, Map!NoRequest, NoReq
<1>4. CASE FindDuplicate
  BY <1>1, <1>4 DEF FindDuplicate, Done, Map!Reply, Map!Insert, Map!Miss, Miss, Map!NoRequest, NoReq
<1>5. CASE NotFound
  <2>1. SlotOf(req.id) = 0
    BY <1>1, <1>5, NotFoundIsMissing DEF NotFound
  <2>2. answer' = Miss
    BY <1>5 DEF NotFound, Done
  <2>3. SlotMap = [SlotMap EXCEPT ![req.id] = 0]
    BY <1>2, <2>1 DEF SlotMap
  <2>4. Map!Lookup \/ Map!Insert \/ Map!Delete
    BY <1>1, <1>2, <2>1, <2>2, <2>3
       DEF Op, Map!Lookup, Map!Insert, Map!Delete, Map!Miss, Miss
  <2> QED
    BY <1>1, <2>4 DEF Map!Reply, Map!NoRequest, NoReq
<1> QED
  BY <1>3, <1>4, <1>5

\* A row written is an insertion or a deletion in the map, and disturbs no
\* other id of its row.
LEMMA WriteIsReply ==
    ASSUME TabInv, WriteRow
    PROVE  Map!Reply
<1>1. state = "WRITE" /\ req' = NoReq /\ answer' = Hit(put.result)
  BY DEF WriteRow, Done
<1>2. req.id \in TabIds /\ SlotMap[req.id] = SlotOf(req.id)
  BY <1>1, InProgress DEF SlotMap, TabInv
<1>3. CASE req.op = "DELETE"
  <2>1. SlotMap' = [SlotMap EXCEPT ![req.id] = 0]
    BY <1>3, DeleteMaps, MapAfter DEF SlotMap
  <2> QED
    BY <1>1, <1>2, <1>3, <2>1, DeleteMaps
       DEF Map!Reply, Map!Delete, Map!Hit, Hit, Map!NoRequest, NoReq
<1>4. CASE req.op = "INSERT"
  <2>1. SlotMap' = [SlotMap EXCEPT ![req.id] = req.slot]
    BY <1>4, InsertMaps, MapAfter DEF SlotMap
  <2> QED
    BY <1>1, <1>2, <1>4, <2>1, InsertMaps
       DEF Map!Reply, Map!Insert, Map!Hit, Hit, Map!NoRequest, NoReq
<1> QED
  BY <1>1, <1>3, <1>4 DEF TabInv, PutIsDue

LEMMA StepMaps == TabInv /\ [TabNext]_tabVars => [Map!Next]_(Map!vars)
<1> SUFFICES ASSUME TabInv, [TabNext]_tabVars
             PROVE  Map!Next \/ UNCHANGED <<SlotMap, req, answer>>
  BY DEF Map!vars
<1>1. ASSUME NEW r \in Req, Ask(r)
      PROVE  Map!Ask
  <2>1. r \in Map!Request
    BY DEF Req, Op, Map!Request
  <2>2. req = Map!NoRequest
    BY <1>1, Registers DEF Ask, TabInv, TabTypeOK, NoReq, Map!NoRequest
  <2> QED
    BY <1>1, <2>1, <2>2, MapKept DEF Ask, Map!Ask
<1>2. CASE ReadRow \/ GoOn \/ FindDelete \/ InsertHere \/ Prep
  BY <1>2, MapKept DEF ReadRow, GoOn, FindDelete, InsertHere, Prep
<1>3. CASE FindLookup \/ FindDuplicate \/ NotFound
  <2>1. UNCHANGED rows
    BY <1>3 DEF FindLookup, FindDuplicate, NotFound
  <2> QED
    BY <1>3, <2>1, AnswerMaps DEF Map!Next
<1>4. CASE WriteRow
  BY <1>4, WriteIsReply DEF Map!Next
<1>5. CASE TabReset
  BY <1>5, MapKept DEF TabReset, Done, Map!Next, Map!Forget, Map!NoRequest, NoReq
<1>6. CASE UNCHANGED tabVars
  BY <1>6, MapKept DEF tabVars
<1> QED
  BY <1>1, <1>2, <1>3, <1>4, <1>5, <1>6 DEF TabNext, TabStep, Map!Next

LEMMA InitMaps == TabInit => Map!Init
<1> SUFFICES ASSUME TabInit
             PROVE  Map!Init
  OBVIOUS
<1>1. \A s \in Set, w \in Way : ~rows[s][w].valid
  BY Registers DEF TabInit, ZeroRow
<1>2. \A i \in TabIds : SlotOf(i) = 0
  BY <1>1, SlotInMissing DEF SlotOf
<1> QED
  BY <1>2 DEF TabInit, Map!Init, SlotMap, Map!NoRequest, NoReq

\* A request that goes idle unanswered by a hit was refused for a reason.
LEMMA RefusalHasReason ==
    ASSUME TabInv, [TabNext]_tabVars,
           req.op = "INSERT", state = "EVAL", state' = "IDLE", answer'.by = "mgr"
    PROVE  \/ SlotOf(req.id) # 0
           \/ \A k \in 0 .. MaxSetProbe - 1, w \in Way : rows[SetAt(req.id, k)][w].valid
<1>1. FindDuplicate \/ NotFound
  <2>1. ~TabReset
    BY DEF TabReset, Done
  <2>2. ~FindLookup
    BY DEF FindLookup
  <2>3. ~GoOn /\ ~InsertHere /\ ~FindDelete /\ ~ReadRow /\ ~Prep /\ ~WriteRow
    BY DEF GoOn, InsertHere, FindDelete, ReadRow, Prep, WriteRow
  <2>4. \A r \in Req : ~Ask(r)
    BY DEF Ask
  <2>5. ~UNCHANGED tabVars
    BY DEF tabVars
  <2> QED
    BY <2>1, <2>2, <2>3, <2>4, <2>5 DEF TabNext, TabStep
<1>2. CASE FindDuplicate
  BY <1>2, InProgress, MatchInMemory, SlotFound DEF FindDuplicate, TabInv
<1>3. CASE NotFound
  <2>1. LastProbe /\ ~Remembered.valid
    BY <1>3 DEF NotFound
  <2>2. ~empty.valid /\ ~RowEmpty
    BY <2>1 DEF Remembered, Here
  <2>3. \A k \in 0 .. MaxSetProbe - 1 : k = probe \/ k \in 0 .. probe - 1
    BY <2>1, TableAssumption DEF LastProbe
  <2>4. \A w \in Way : rows[SetAt(req.id, probe)][w].valid
    BY <2>2 DEF TabInv, RowIsFresh, RowEmpty, ProbeSet
  <2>5. \A k \in 0 .. probe - 1, w \in Way : rows[SetAt(req.id, k)][w].valid
    BY <2>2 DEF TabInv, SearchedFull
  <2> QED
    BY <2>3, <2>4, <2>5
<1> QED
  BY <1>1, <1>2, <1>3

-----------------------------------------------------------------------------
\* The invariant holds in every reachable state.
THEOREM TableInvariance == TabSpec => []TabInv
  BY TabInitInv, TabNextInv, PTL DEF TabSpec

\* The registers and rows of the table keep their types; every address formed
\* from a hash and a probe index is in range.
THEOREM TableTyped == TabSpec => []TabTypeOK
<1>1. TabInv => TabTypeOK
  BY DEF TabInv
<1> QED
  BY <1>1, TableInvariance, PTL

\* No history of insertions and deletions makes a second entry for an id.
THEOREM NeverTwiceInTable == TabSpec => []NoIdTwice
<1>1. TabInv => NoIdTwice
  BY DEF TabInv
<1> QED
  BY <1>1, TableInvariance, PTL

\* Every entry is where a lookup of its id searches.
THEOREM AlwaysWithinWindow == TabSpec => []WithinWindow
<1>1. TabInv => WithinWindow
  BY DEF TabInv
<1> QED
  BY <1>1, TableInvariance, PTL

\* Every history of the probe FSM, resets included, is one of the map.
THEOREM TableIsMap == TabSpec => ImplementsMap
  BY TableInvariance, InitMaps, StepMaps, PTL DEF TabSpec, ImplementsMap, Map!Spec

\* An insertion is refused only for a duplicate or a full window.
THEOREM RefusalsAreJustified == TabSpec => RefusedOnlyWhenFull
<1>1. TabInv /\ [TabNext]_tabVars =>
        [ (req.op = "INSERT" /\ state = "EVAL" /\ state' = "IDLE" /\ answer'.by = "mgr")
          => \/ SlotOf(req.id) # 0
             \/ \A k \in 0 .. MaxSetProbe - 1, w \in Way : rows[SetAt(req.id, k)][w].valid ]_tabVars
  BY RefusalHasReason
<1> QED
  BY <1>1, TableInvariance, PTL DEF TabSpec, RefusedOnlyWhenFull

-----------------------------------------------------------------------------
(* The storage.                                                             *)

Working == {"INSERT", "INSERTING", "LOOKING", "DELETE", "DELETING", "FILLED", "CLEARING"}

UserTyped ==
    \/ user = Idle
    \/ user \in [at : Working, id : TabIds, slot : Slot]

\* Orders that rest hold their slots and are found under their ids.
RestingMapped ==
    /\ resting \in [Slot -> TabIds \union {NoOrder}]
    /\ \A s \in Resting : s \in Held /\ SlotMap[resting[s]] = s

\* The manager holds a slot that no order has.
HasSlot == user.slot \in Held /\ user.slot \notin Resting

\* The id of the order that is worked on is mapped though the order does not
\* rest: not yet, or no more.
Pending ==
    \/ user.at = "INSERTING" /\ state = "IDLE" /\ answer.hit
    \/ user.at \in {"DELETE", "FILLED"}
    \/ user.at \in {"DELETING", "CLEARING"} /\ state # "IDLE"

MappedRest ==
    \A i \in TabIds :
        SlotMap[i] # 0 =>
            \/ resting[SlotMap[i]] = i
            \/ Pending /\ user.id = i /\ SlotMap[i] = user.slot

Accounted ==
    InitDone =>
        \A s \in Held :
            \/ s \in Resting
            \/ user.at \in {"INSERT", "INSERTING", "DELETE", "DELETING"} /\ s = user.slot

\* Until the stack is built nobody works and nothing rests.
Starting ==
    ~InitDone =>
        /\ user = Idle /\ Resting = {} /\ \A i \in TabIds : SlotMap[i] = 0
        /\ \A s \in 1 .. initCnt - 1 : s \in FreeSlots

\* What each state of the manager or matcher knows.
Asked(op, slot, by) == state # "IDLE" => req = Request(op, user.id, slot, by)

Knows ==
    /\ user.at \in {"IDLE", "INSERT", "DELETE", "FILLED"} => state = "IDLE"
    /\ user.at = "INSERT" => HasSlot
    /\ user.at = "INSERTING" =>
        /\ HasSlot /\ Asked("INSERT", user.slot, "mgr")
        /\ state = "IDLE" /\ answer.hit => SlotMap[user.id] = user.slot
    /\ user.at = "LOOKING" =>
        /\ Asked("LOOKUP", NULL, "mgr")
        /\ state = "IDLE" /\ answer.hit =>
             SlotMap[user.id] # 0 /\ answer.slot = SlotMap[user.id]
    /\ user.at \in {"DELETE", "DELETING"} => HasSlot
    /\ user.at \in {"FILLED", "CLEARING"} /\ Pending => user.slot \in FreeSlots
    /\ user.at = "DELETING" => Asked("DELETE", NULL, "mgr")
    /\ user.at = "CLEARING" => Asked("DELETE", NULL, "mat")
    /\ user.at \in {"DELETE", "FILLED", "DELETING", "CLEARING"} =>
        SlotMap[user.id] = IF Pending THEN user.slot ELSE 0

StorageInv ==
    /\ IInv /\ TabInv /\ UserTyped
    /\ RestingMapped /\ MappedRest /\ Accounted /\ Starting /\ Knows

-----------------------------------------------------------------------------
\* A slot in use is a slot the table may map to.
LEMMA HeldSlots ==
    /\ \A s \in Held : s \in Slot /\ s \in TabSlots /\ s # NULL /\ s \notin FreeSlots
    /\ \A s \in TabSlots : s \in Slot /\ s # 0
    /\ NULL \in Slot
<1>1. MaxOrders \in Nat /\ MaxOrders > 1
  BY MaxOrdersAssumption
<1> QED
  BY <1>1, StorageAssumption DEF Held, Slot, NULL

LEMMA AskIsRequest ==
    ASSUME NEW i \in TabIds, NEW slot \in Slot
    PROVE  /\ slot \in TabSlots =>
                /\ Request("INSERT", i, slot, "mgr") \in Req
                /\ ProperRequest(Request("INSERT", i, slot, "mgr"))
           /\ Request("LOOKUP", i, NULL, "mgr") \in Req
           /\ ProperRequest(Request("LOOKUP", i, NULL, "mgr"))
           /\ \A by \in {"mgr", "mat"} :
                /\ Request("DELETE", i, NULL, by) \in Req
                /\ ProperRequest(Request("DELETE", i, NULL, by))
  BY DEF Request, Req, Op, ProperRequest, NULL

\* Who works has an id and a slot.
LEMMA UserFields ==
    ASSUME UserTyped, user.at # "IDLE"
    PROVE  user.at \in Working /\ user.id \in TabIds /\ user.slot \in Slot
  BY DEF UserTyped, Idle

\* Manager and matcher use the order memory and the id table as these require.
LEMMA StepIsDisciplined ==
    StorageInv /\ [StorageNext]_storageVars => [Next]_vars /\ [TabNext]_tabVars
<1> SUFFICES ASSUME StorageInv, [StorageNext]_storageVars
             PROVE  [Next]_vars /\ [TabNext]_tabVars
  OBVIOUS
<1>1. ASSUME NEW i \in TabIds, AddGetsSlot(i)
      PROVE  Alloc /\ UNCHANGED tabVars
  BY <1>1 DEF AddGetsSlot
<1>2. ASSUME NEW i \in TabIds, RemovalAsks(i)
      PROVE  UNCHANGED vars /\ \E r \in Req : ProperRequest(r) /\ Ask(r)
  BY <1>2, AskIsRequest, HeldSlots DEF RemovalAsks
<1>3. ASSUME NEW slot \in Resting, MatchFrees(slot)
      PROVE  slot \in Held /\ Push(slot) /\ UNCHANGED pool /\ UNCHANGED tabVars
  BY <1>3 DEF MatchFrees, StorageInv, RestingMapped
<1>4. CASE AddAsks
  <2>1. At("INSERT") /\ UNCHANGED vars /\ Ask(Request("INSERT", user.id, user.slot, "mgr"))
    BY <1>4 DEF AddAsks, AskFor
  <2>2. user.id \in TabIds /\ user.slot \in Slot /\ user.slot \in TabSlots
    BY <2>1, UserFields, HeldSlots DEF StorageInv, At, Knows, HasSlot
  <2> QED
    BY <2>1, <2>2, AskIsRequest DEF TabNext
<1>5. CASE RemovalDeletes \/ MatchDeletes
  <2>1. /\ user.at # "IDLE" /\ UNCHANGED vars
        /\ \E by \in {"mgr", "mat"} : Ask(Request("DELETE", user.id, NULL, by))
    BY <1>5 DEF RemovalDeletes, MatchDeletes, AskFor, At
  <2>2. user.id \in TabIds
    BY <2>1, UserFields DEF StorageInv
  <2> QED
    BY <2>1, <2>2, AskIsRequest, HeldSlots DEF TabNext
<1>6. CASE AddRollsBack \/ RemovalEnds
  <2>1. user.at \in {"INSERTING", "DELETING"} /\ Push(user.slot) /\ UNCHANGED pool /\ UNCHANGED tabVars
    BY <1>6 DEF AddRollsBack, RemovalEnds, At
  <2>2. user.slot \in Held
    BY <2>1 DEF StorageInv, Knows, HasSlot
  <2> QED
    BY <2>1, <2>2 DEF Next
<1>7. CASE AddLinks \/ RemovalMisses \/ RemovalUnlinks \/ MatchEnds
  BY <1>7 DEF AddLinks, RemovalMisses, RemovalUnlinks, MatchEnds
<1>8. CASE StorageReset
  BY <1>8 DEF StorageReset, Next, TabNext
<1>9. CASE Background
  BY <1>9 DEF Background, Next, TabNext
<1>10. CASE UNCHANGED storageVars
  BY <1>10 DEF storageVars
<1> QED
  BY <1>1, <1>2, <1>3, <1>4, <1>5, <1>6, <1>7, <1>8, <1>9, <1>10
     DEF StorageNext, Starts, Continues, Next, TabNext

-----------------------------------------------------------------------------
\* What the memory's steps do to the set of free slots.
LEMMA PushFrees ==
    ASSUME TypeOK, NEW slot \in Slot, Push(slot)
    PROVE  /\ FreeSlots' = FreeSlots \union {slot} /\ Held' = Held \ {slot}
           /\ InitDone /\ InitDone'
<1>1. free' = Append(free, slot) /\ free \in Seq(Slot)
  BY DEF Push, TypeOK
<1>2. FreeSlots' = FreeSlots \union {slot}
  <2>1. Len(free') = Len(free) + 1 /\ Len(free) \in Nat
    BY <1>1
  <2>2. \A n \in 1 .. Len(free') : free'[n] = IF n = Len(free) + 1 THEN slot ELSE free[n]
    BY <1>1
  <2>3. \A n \in 1 .. Len(free') : n = Len(free) + 1 \/ n \in 1 .. Len(free)
    BY <2>1
  <2>4. Len(free) + 1 \in 1 .. Len(free') /\ \A n \in 1 .. Len(free) : n \in 1 .. Len(free') /\ n # Len(free) + 1
    BY <2>1
  <2> QED
    BY <2>2, <2>3, <2>4 DEF FreeSlots
<1> QED
  BY <1>2 DEF Held, Push, InitDone

LEMMA AllocTakes ==
    ASSUME IInv, Alloc
    PROVE  /\ TopSlot \in FreeSlots /\ TopSlot \in Slot \ {NULL}
           /\ FreeSlots' = FreeSlots \ {TopSlot} /\ Held' = Held \union {TopSlot}
           /\ InitDone /\ InitDone'
<1>1. free \in Seq(Slot \ {NULL}) /\ free # <<>> /\ free' = SubSeq(free, 1, Len(free) - 1)
  BY DEF Alloc, FreeEmpty, IInv, TypeOK
<1>2. Len(free) \in 1 .. Len(free) /\ Len(free) \in Nat
  BY <1>1
<1>3. TopSlot \in FreeSlots /\ TopSlot \in Slot \ {NULL}
  BY <1>1, <1>2 DEF TopSlot, FreeSlots
<1>4. Len(free') = Len(free) - 1 /\ \A n \in 1 .. Len(free') : free'[n] = free[n]
  BY <1>1, PopIsPrefix
<1>5. FreeSlots' = FreeSlots \ {TopSlot}
  <2>1. \A n \in 1 .. Len(free) : n = Len(free) \/ n \in 1 .. Len(free')
    BY <1>2, <1>4
  <2>2. \A n \in 1 .. Len(free') : n \in 1 .. Len(free) /\ n # Len(free)
    BY <1>2, <1>4
  <2>3. \A n \in 1 .. Len(free') : free[n] # TopSlot
    BY <1>2, <2>2 DEF IInv, NoSlotTwice, TopSlot
  <2> QED
    BY <1>2, <1>4, <2>1, <2>2, <2>3 DEF FreeSlots, TopSlot
<1> QED
  BY <1>3, <1>5 DEF Held, Alloc, InitDone

LEMMA InitEdgeFills ==
    ASSUME IInv, InitEdge
    PROVE  /\ FreeSlots' = FreeSlots \union {initCnt} /\ initCnt' = initCnt + 1
           /\ ~InitDone
<1>1. free' = Append(free, initCnt) /\ free \in Seq(Slot) /\ initCnt \in Int
  BY DEF InitEdge, IInv, TypeOK
<1>2. Len(free') = Len(free) + 1 /\ Len(free) \in Nat
  BY <1>1
<1>3. \A n \in 1 .. Len(free') : free'[n] = IF n = Len(free) + 1 THEN initCnt ELSE free[n]
  BY <1>1
<1>4. \A n \in 1 .. Len(free') : n = Len(free) + 1 \/ n \in 1 .. Len(free)
  BY <1>2
<1>5. Len(free) + 1 \in 1 .. Len(free') /\ \A n \in 1 .. Len(free) : n \in 1 .. Len(free') /\ n # Len(free) + 1
  BY <1>2
<1> QED
  BY <1>3, <1>4, <1>5 DEF FreeSlots, InitEdge

LEMMA FreeKept ==
    UNCHANGED vars => FreeSlots' = FreeSlots /\ Held' = Held /\ (InitDone' <=> InitDone)
  BY DEF vars, FreeSlots, Held, InitDone

\* While the map is unchanged so are the ids mapped.
LEMMA TableKept ==
    UNCHANGED tabVars => SlotMap' = SlotMap /\ state' = state /\ req' = req /\ answer' = answer
  BY MapKept DEF tabVars

\* A request changes nothing but the FSM.
LEMMA AskChanges ==
    ASSUME NEW r, Ask(r)
    PROVE  SlotMap' = SlotMap /\ state = "IDLE" /\ state' = "READ" /\ req' = r /\ answer' = answer
  BY MapKept DEF Ask

\* Every step of the search stutters or gives the map's answer.
LEMMA SearchAnswers ==
    ASSUME TabInv, TabStep
    PROVE  /\ state # "IDLE"
           /\ \/ state' # "IDLE" /\ UNCHANGED <<SlotMap, req, answer>>
              \/ state' = "IDLE" /\ Map!Reply
<1>1. CASE ReadRow \/ GoOn \/ FindDelete \/ InsertHere \/ Prep
  BY <1>1, MapKept DEF ReadRow, GoOn, FindDelete, InsertHere, Prep
<1>2. CASE FindLookup \/ FindDuplicate \/ NotFound
  <2>1. UNCHANGED rows /\ state = "EVAL" /\ state' = "IDLE"
    BY <1>2 DEF FindLookup, FindDuplicate, NotFound, Done
  <2> QED
    BY <1>2, <2>1, AnswerMaps
<1>3. CASE WriteRow
  BY <1>3, WriteIsReply DEF WriteRow, Done
<1> QED
  BY <1>1, <1>2, <1>3 DEF TabStep

-----------------------------------------------------------------------------
\* The states the manager and the matcher go to.
LEMMA Goes ==
    ASSUME UserTyped, user.at # "IDLE", NEW st \in Working, Goto(st)
    PROVE  /\ UserTyped'
           /\ user'.at = st /\ user'.id = user.id /\ user'.slot = user.slot
<1>1. user \in [at : Working, id : TabIds, slot : Slot]
  BY DEF UserTyped, Idle
<1> QED
  BY <1>1 DEF Goto, UserTyped

LEMMA GoesIdle ==
    user' = Idle => UserTyped' /\ user'.at = "IDLE"
  BY DEF UserTyped, Idle

\* ENQ_GET_SLOT
LEMMA AddGetsSlotKeeps ==
    ASSUME StorageInv, NEW i \in TabIds, AddGetsSlot(i), IInv', TabInv'
    PROVE  StorageInv'
<1>1. /\ user.at = "IDLE" /\ user'.at = "INSERT" /\ user'.slot = TopSlot
      /\ resting' = resting /\ state' = state /\ SlotMap' = SlotMap /\ Alloc
  BY TableKept DEF AddGetsSlot, At
<1>2. /\ TopSlot \in FreeSlots /\ TopSlot \in Slot
      /\ Held' = Held \union {TopSlot} /\ InitDone /\ InitDone'
  BY <1>1, AllocTakes DEF StorageInv
<1>3. UserTyped'
  BY <1>2 DEF AddGetsSlot, UserTyped, Working
<1>4. TopSlot \notin Resting /\ Resting' = Resting
  BY <1>1, <1>2, HeldSlots DEF StorageInv, RestingMapped, Resting
<1>5. RestingMapped'
  BY <1>1, <1>2, <1>4 DEF StorageInv, RestingMapped
<1>6. MappedRest'
  BY <1>1 DEF StorageInv, MappedRest, Pending
<1>7. Accounted' /\ Starting'
  BY <1>1, <1>2, <1>4 DEF StorageInv, Accounted, Starting
<1>8. Knows'
  BY <1>1, <1>2, <1>4 DEF StorageInv, Knows, HasSlot, Pending
<1> QED
  BY <1>3, <1>5, <1>6, <1>7, <1>8 DEF StorageInv

\* ENQ_HASH: the insertion is asked for.
LEMMA AddAsksKeeps ==
    ASSUME StorageInv, AddAsks, IInv', TabInv'
    PROVE  StorageInv'
<1>1. /\ user.at = "INSERT" /\ Goto("INSERTING") /\ resting' = resting
      /\ Ask(Request("INSERT", user.id, user.slot, "mgr"))
  BY DEF AddAsks, AskFor, At
<1>2. /\ UserTyped' /\ user'.at = "INSERTING" /\ user'.id = user.id /\ user'.slot = user.slot
  BY <1>1, Goes DEF StorageInv, Working
<1>3. /\ SlotMap' = SlotMap /\ state' = "READ" /\ answer' = answer
      /\ req' = Request("INSERT", user.id, user.slot, "mgr")
  BY <1>1, AskChanges
<1>4. FreeSlots' = FreeSlots /\ Held' = Held /\ (InitDone' <=> InitDone) /\ InitDone
  BY <1>1, FreeKept DEF AddAsks, AskFor, StorageInv, Starting, Idle
<1>5. Resting' = Resting
  BY <1>1 DEF Resting
<1>6. RestingMapped' /\ MappedRest' /\ Accounted' /\ Starting'
  BY <1>1, <1>2, <1>3, <1>4, <1>5 DEF StorageInv, RestingMapped, MappedRest, Accounted, Starting, Pending
<1>7. Knows'
  BY <1>1, <1>2, <1>3, <1>4, <1>5 DEF StorageInv, Knows, HasSlot, Asked, Pending, Request
<1> QED
  BY <1>2, <1>6, <1>7 DEF StorageInv

\* LU_START: the lookup is asked for.
LEMMA RemovalAsksKeeps ==
    ASSUME StorageInv, NEW i \in TabIds, RemovalAsks(i), IInv', TabInv'
    PROVE  StorageInv'
<1>1. /\ user.at = "IDLE" /\ user'.at = "LOOKING" /\ user'.id = i /\ resting' = resting
      /\ Ask(Request("LOOKUP", i, NULL, "mgr"))
  BY DEF RemovalAsks, At
<1>2. UserTyped'
  BY HeldSlots DEF RemovalAsks, UserTyped, Working
<1>3. /\ SlotMap' = SlotMap /\ state' = "READ" /\ answer' = answer
      /\ req' = Request("LOOKUP", i, NULL, "mgr")
  BY <1>1, AskChanges
<1>4. FreeSlots' = FreeSlots /\ Held' = Held /\ (InitDone' <=> InitDone) /\ InitDone
  BY FreeKept DEF RemovalAsks
<1>5. Resting' = Resting
  BY <1>1 DEF Resting
<1>6. RestingMapped' /\ MappedRest' /\ Accounted' /\ Starting'
  BY <1>1, <1>3, <1>4, <1>5 DEF StorageInv, RestingMapped, MappedRest, Accounted, Starting, Pending
<1>7. Knows'
  BY <1>1, <1>3 DEF Knows, Asked, Request
<1> QED
  BY <1>2, <1>6, <1>7 DEF StorageInv

\* DEL_HASH and the matcher's request: a deletion is asked for.
LEMMA DeletionAskedKeeps ==
    ASSUME StorageInv, RemovalDeletes \/ MatchDeletes, IInv', TabInv'
    PROVE  StorageInv'
<1> DEFINE by == IF user.at = "DELETE" THEN "mgr" ELSE "mat"
           st == IF user.at = "DELETE" THEN "DELETING" ELSE "CLEARING"
<1>1. /\ user.at \in {"DELETE", "FILLED"} /\ Goto(st) /\ UNCHANGED vars /\ resting' = resting
      /\ Ask(Request("DELETE", user.id, NULL, by))
  BY DEF RemovalDeletes, MatchDeletes, AskFor, At
<1>2. /\ UserTyped' /\ user'.at = st /\ user'.id = user.id /\ user'.slot = user.slot
  BY <1>1, Goes DEF StorageInv, Working
<1>3. /\ SlotMap' = SlotMap /\ state = "IDLE" /\ state' = "READ" /\ answer' = answer
      /\ req' = Request("DELETE", user.id, NULL, by)
  BY <1>1, AskChanges
<1>4. FreeSlots' = FreeSlots /\ Held' = Held /\ (InitDone' <=> InitDone) /\ InitDone
  BY <1>1, FreeKept DEF StorageInv, Starting, Idle
<1>5. Resting' = Resting
  BY <1>1 DEF Resting
<1>6. Pending /\ Pending'
  BY <1>1, <1>2, <1>3 DEF Pending
<1>7. RestingMapped' /\ MappedRest' /\ Accounted' /\ Starting'
  BY <1>1, <1>2, <1>3, <1>4, <1>5, <1>6
     DEF StorageInv, RestingMapped, MappedRest, Accounted, Starting
<1>8. Knows'
  BY <1>1, <1>2, <1>3, <1>4, <1>5, <1>6 DEF StorageInv, Knows, HasSlot, Asked, Request
<1> QED
  BY <1>2, <1>7, <1>8 DEF StorageInv

\* ENQ_DONE: the order rests under the id the table now maps.
LEMMA AddLinksKeeps ==
    ASSUME StorageInv, AddLinks, IInv', TabInv'
    PROVE  StorageInv'
<1>1. /\ user.at = "INSERTING" /\ state = "IDLE" /\ answer.hit /\ user'.at = "IDLE" /\ UserTyped'
      /\ resting' = [resting EXCEPT ![user.slot] = user.id]
      /\ UNCHANGED vars /\ UNCHANGED tabVars
  BY GoesIdle DEF AddLinks, At, Answered
<1>2. user.id \in TabIds /\ user.slot \in Slot
  BY <1>1, UserFields DEF StorageInv
<1>3. HasSlot /\ SlotMap[user.id] = user.slot
  BY <1>1 DEF StorageInv, Knows
<1>4. SlotMap' = SlotMap /\ state' = "IDLE"
  BY <1>1, TableKept
<1>5. FreeSlots' = FreeSlots /\ Held' = Held /\ (InitDone' <=> InitDone) /\ InitDone
  BY <1>1, FreeKept DEF StorageInv, Starting, Idle
<1>6. Resting' = Resting \union {user.slot}
  BY <1>1, <1>2, StorageAssumption DEF StorageInv, RestingMapped, Resting, NoOrder
<1>7. RestingMapped'
  BY <1>1, <1>2, <1>3, <1>4, <1>5, <1>6 DEF StorageInv, RestingMapped, HasSlot
<1>8. MappedRest'
  <2> SUFFICES ASSUME NEW i \in TabIds, SlotMap[i] # 0
               PROVE  resting'[SlotMap[i]] = i
    BY <1>4 DEF MappedRest
  <2>1. CASE i = user.id
    BY <1>1, <1>2, <1>3, <2>1 DEF StorageInv, RestingMapped
  <2>2. CASE i # user.id
    <3>1. resting[SlotMap[i]] = i
      BY <2>2 DEF StorageInv, MappedRest
    <3>2. resting[user.slot] = NoOrder /\ i # NoOrder
      BY <1>2, <1>3, StorageAssumption DEF HasSlot, Resting, NoOrder
    <3>3. SlotMap[i] # user.slot
      BY <3>1, <3>2
    <3> QED
      BY <1>1, <3>1, <3>3 DEF StorageInv, RestingMapped
  <2> QED
    BY <2>1, <2>2
<1>9. Accounted' /\ Starting'
  BY <1>1, <1>5, <1>6 DEF StorageInv, Accounted, Starting
<1>10. Knows'
  BY <1>1, <1>4 DEF Knows, Pending
<1> QED
  BY <1>1, <1>7, <1>8, <1>9, <1>10 DEF StorageInv

\* ENQ_ROLLBACK and DEL_COMMIT: the manager gives its slot back.
LEMMA GivesBackKeeps ==
    ASSUME StorageInv, AddRollsBack \/ RemovalEnds, IInv', TabInv'
    PROVE  StorageInv'
<1>1. /\ user.at \in {"INSERTING", "DELETING"} /\ state = "IDLE" /\ ~Pending
      /\ user'.at = "IDLE" /\ UserTyped' /\ resting' = resting
      /\ Push(user.slot) /\ UNCHANGED tabVars
  BY GoesIdle DEF AddRollsBack, RemovalEnds, At, Answered, Pending
<1>2. HasSlot /\ user.slot \in Slot
  BY <1>1, UserFields DEF StorageInv, Knows
<1>3. SlotMap' = SlotMap /\ state' = "IDLE"
  BY <1>1, TableKept
<1>4. FreeSlots' = FreeSlots \union {user.slot} /\ Held' = Held \ {user.slot} /\ InitDone /\ InitDone'
  BY <1>1, <1>2, PushFrees DEF StorageInv, IInv
<1>5. Resting' = Resting
  BY <1>1 DEF Resting
<1>6. RestingMapped'
  BY <1>1, <1>2, <1>3, <1>4, <1>5 DEF StorageInv, RestingMapped, HasSlot
<1>7. MappedRest'
  BY <1>1, <1>3 DEF StorageInv, MappedRest
<1>8. Accounted' /\ Starting'
  BY <1>1, <1>4, <1>5 DEF StorageInv, Accounted, Starting
<1>9. Knows'
  BY <1>1, <1>3 DEF Knows, Pending
<1> QED
  BY <1>1, <1>6, <1>7, <1>8, <1>9 DEF StorageInv

\* A lookup that misses, and a deletion of the matcher that is done.
LEMMA EndsKeeps ==
    ASSUME StorageInv, RemovalMisses \/ MatchEnds, IInv', TabInv'
    PROVE  StorageInv'
<1>1. /\ user.at \in {"LOOKING", "CLEARING"} /\ state = "IDLE" /\ ~Pending
      /\ user'.at = "IDLE" /\ UserTyped' /\ resting' = resting
      /\ UNCHANGED vars /\ UNCHANGED tabVars
  BY GoesIdle DEF RemovalMisses, MatchEnds, At, Answered, Pending
<1>2. SlotMap' = SlotMap /\ state' = "IDLE"
  BY <1>1, TableKept
<1>3. FreeSlots' = FreeSlots /\ Held' = Held /\ (InitDone' <=> InitDone) /\ InitDone
  BY <1>1, FreeKept DEF StorageInv, Starting, Idle
<1>4. Resting' = Resting
  BY <1>1 DEF Resting
<1>5. RestingMapped' /\ MappedRest' /\ Accounted' /\ Starting'
  BY <1>1, <1>2, <1>3, <1>4 DEF StorageInv, RestingMapped, MappedRest, Accounted, Starting
<1>6. Knows'
  BY <1>1, <1>2 DEF Knows, Pending
<1> QED
  BY <1>1, <1>5, <1>6 DEF StorageInv

\* An order that leaves its level, others keeping their slots.
LEMMA LeavesKeeps ==
    ASSUME RestingMapped, NEW slot \in Slot, resting' = [resting EXCEPT ![slot] = NoOrder],
           SlotMap' = SlotMap, \A s \in Held : s # slot => s \in Held'
    PROVE  RestingMapped' /\ Resting' = Resting \ {slot}
<1>1. resting' \in [Slot -> TabIds \union {NoOrder}]
  BY DEF RestingMapped
<1>2. \A s \in Slot : resting'[s] = IF s = slot THEN NoOrder ELSE resting[s]
  BY DEF RestingMapped
<1>3. Resting' = Resting \ {slot}
  BY <1>2 DEF Resting
<1>4. \A s \in Resting' : s \in Held' /\ SlotMap'[resting'[s]] = s
  <2> SUFFICES ASSUME NEW s \in Resting, s # slot
               PROVE  s \in Held' /\ SlotMap'[resting'[s]] = s
    BY <1>3
  <2>1. resting'[s] = resting[s]
    BY <1>2 DEF Resting
  <2> QED
    BY <2>1 DEF RestingMapped
<1> QED
  BY <1>1, <1>3, <1>4 DEF RestingMapped

\* LU_WAIT to SP_WR_NEXT2: the order found leaves its level.
LEMMA RemovalUnlinksKeeps ==
    ASSUME StorageInv, RemovalUnlinks, IInv', TabInv'
    PROVE  StorageInv'
<1>1. /\ user.at = "LOOKING" /\ state = "IDLE" /\ answer.hit /\ ~Pending
      /\ resting' = [resting EXCEPT ![answer.slot] = NoOrder]
      /\ UNCHANGED vars /\ UNCHANGED tabVars
  BY DEF RemovalUnlinks, At, Answered, Pending
<1>2. user \in [at : Working, id : TabIds, slot : Slot]
  BY <1>1 DEF StorageInv, UserTyped, Idle
<1>3. SlotMap[user.id] # 0 /\ answer.slot = SlotMap[user.id]
  BY <1>1 DEF StorageInv, Knows
<1>4. SlotMap[user.id] \in TabSlots /\ SlotMap[user.id] \in Slot
  <2>1. SlotMap[user.id] = SlotOf(user.id)
    BY <1>2 DEF SlotMap
  <2>2. \E s \in Set, w \in Way : Holds(s, w, user.id)
    BY <1>3, <2>1, SlotInMissing DEF SlotOf, Holds
  <2>3. SlotOf(user.id) \in TabSlots
    BY <2>2, SlotFound DEF StorageInv, TabInv
  <2> QED
    BY <2>1, <2>3, HeldSlots
<1>5. /\ user'.at = "DELETE" /\ user'.id = user.id /\ user'.slot = SlotMap[user.id] /\ UserTyped'
  BY <1>2, <1>3, <1>4 DEF RemovalUnlinks, UserTyped, Working
<1>6. resting[SlotMap[user.id]] = user.id
  BY <1>1, <1>2, <1>3 DEF StorageInv, MappedRest
<1>7. SlotMap[user.id] \in Resting /\ SlotMap[user.id] \in Held
  BY <1>2, <1>4, <1>6, StorageAssumption DEF StorageInv, RestingMapped, Resting, NoOrder
<1>8. SlotMap' = SlotMap /\ state' = "IDLE"
  BY <1>1, TableKept
<1>9. FreeSlots' = FreeSlots /\ Held' = Held /\ (InitDone' <=> InitDone) /\ InitDone
  BY <1>1, FreeKept DEF StorageInv, Starting, Idle
<1>10. Resting' = Resting \ {SlotMap[user.id]} /\ RestingMapped'
  BY <1>1, <1>3, <1>4, <1>8, <1>9, LeavesKeeps DEF StorageInv
<1>11. RestingMapped'
  BY <1>10
<1>12. MappedRest'
  <2> SUFFICES ASSUME NEW i \in TabIds, SlotMap[i] # 0
               PROVE  \/ resting'[SlotMap[i]] = i
                      \/ Pending' /\ user.id = i
    BY <1>5, <1>8 DEF MappedRest
  <2>1. CASE i = user.id
    BY <1>5, <2>1 DEF Pending
  <2>2. CASE i # user.id
    <3>1. resting[SlotMap[i]] = i /\ SlotMap[i] # SlotMap[user.id]
      BY <1>1, <1>6, <2>2 DEF StorageInv, MappedRest
    <3> QED
      BY <1>1, <1>3, <3>1 DEF StorageInv, RestingMapped
  <2> QED
    BY <2>1, <2>2
<1>13. Accounted' /\ Starting'
  BY <1>1, <1>5, <1>9, <1>10 DEF StorageInv, Accounted, Starting
<1>14. Knows'
  BY <1>5, <1>7, <1>8, <1>9, <1>10 DEF Knows, HasSlot, Pending
<1> QED
  BY <1>5, <1>11, <1>12, <1>13, <1>14 DEF StorageInv

\* M_UPD_BID, M_UPD_ASK, F_UPDATE: a filled head gives its slot back.
LEMMA MatchFreesKeeps ==
    ASSUME StorageInv, NEW slot \in Resting, MatchFrees(slot), IInv', TabInv'
    PROVE  StorageInv'
<1>1. /\ user.at = "IDLE" /\ ~Pending /\ Push(slot) /\ UNCHANGED tabVars
      /\ resting' = [resting EXCEPT ![slot] = NoOrder]
      /\ user' = [at |-> "FILLED", id |-> resting[slot], slot |-> slot]
  BY DEF MatchFrees, At, Pending
<1>2. /\ slot \in Slot /\ slot \in Held /\ resting[slot] \in TabIds
      /\ SlotMap[resting[slot]] = slot
  BY HeldSlots DEF StorageInv, RestingMapped, Resting
<1>3. /\ user'.at = "FILLED" /\ user'.id = resting[slot] /\ user'.slot = slot /\ UserTyped'
  BY <1>1, <1>2 DEF UserTyped, Working
<1>4. SlotMap' = SlotMap /\ state' = state
  BY <1>1, TableKept
<1>5. FreeSlots' = FreeSlots \union {slot} /\ Held' = Held \ {slot} /\ InitDone /\ InitDone'
  BY <1>1, <1>2, PushFrees DEF StorageInv, IInv
<1>6. \A s \in Held : s # slot => s \in Held'
  BY <1>5
<1>7. Resting' = Resting \ {slot} /\ RestingMapped'
  BY <1>1, <1>2, <1>4, <1>6, LeavesKeeps DEF StorageInv
<1>8. MappedRest'
  <2> SUFFICES ASSUME NEW i \in TabIds, SlotMap[i] # 0
               PROVE  \/ resting'[SlotMap[i]] = i
                      \/ Pending' /\ resting[slot] = i /\ SlotMap[i] = slot
    BY <1>3, <1>4 DEF MappedRest
  <2>1. resting[SlotMap[i]] = i
    BY <1>1 DEF StorageInv, MappedRest
  <2>2. CASE SlotMap[i] = slot
    BY <1>3, <2>1, <2>2 DEF Pending
  <2>3. CASE SlotMap[i] # slot
    BY <1>1, <2>1, <2>3 DEF StorageInv, RestingMapped
  <2> QED
    BY <2>2, <2>3
<1>9. Accounted' /\ Starting'
  BY <1>1, <1>5, <1>7 DEF StorageInv, Accounted, Starting
<1>10. Knows'
  BY <1>1, <1>2, <1>3, <1>4, <1>5 DEF StorageInv, Knows, Pending
<1> QED
  BY <1>3, <1>7, <1>8, <1>9, <1>10 DEF StorageInv

-----------------------------------------------------------------------------
\* A request in progress is the user's.
LEMMA AskedByUser ==
    ASSUME StorageInv, state # "IDLE"
    PROVE  /\ user.at \in {"INSERTING", "LOOKING", "DELETING", "CLEARING"}
           /\ user.id \in TabIds /\ user.slot \in Slot /\ req.id = user.id
           /\ user.at = "INSERTING" => req.op = "INSERT" /\ req.slot = user.slot
           /\ user.at = "LOOKING" => req.op = "LOOKUP"
           /\ user.at \in {"DELETING", "CLEARING"} => req.op = "DELETE"
           /\ InitDone
<1>1. user.at \notin {"IDLE", "INSERT", "DELETE", "FILLED"}
  BY DEF StorageInv, Knows
<1>2. user.at \in {"INSERTING", "LOOKING", "DELETING", "CLEARING"}
      /\ user.id \in TabIds /\ user.slot \in Slot
  BY <1>1, UserFields DEF StorageInv, Working
<1>3. InitDone
  BY <1>2 DEF StorageInv, Starting, Idle
<1> QED
  BY <1>2, <1>3 DEF StorageInv, Knows, Asked, Request

\* The map after an answer, and what the answer says.
LEMMA AnswerSays ==
    ASSUME StorageInv, state # "IDLE", Map!Reply, SlotMap \in [TabIds -> TabSlots \union {0}]
    PROVE  /\ req.op = "LOOKUP" =>
                /\ SlotMap' = SlotMap
                /\ answer'.hit => SlotMap[user.id] # 0 /\ answer'.slot = SlotMap[user.id]
           /\ req.op = "INSERT" =>
                \/ /\ answer'.hit /\ SlotMap[user.id] = 0
                   /\ SlotMap' = [SlotMap EXCEPT ![user.id] = user.slot]
                \/ ~answer'.hit /\ SlotMap' = SlotMap
           /\ req.op = "DELETE" => SlotMap' = [SlotMap EXCEPT ![user.id] = 0]
<1>1. req.id = user.id /\ (req.op = "INSERT" => req.slot = user.slot)
  BY AskedByUser
<1>2. CASE Map!Lookup
  BY <1>1, <1>2 DEF Map!Lookup, Map!Hit, Map!Miss
<1>3. CASE Map!Insert
  BY <1>1, <1>3 DEF Map!Insert, Map!Hit, Map!Miss
<1>4. CASE Map!Delete
  BY <1>1, <1>4 DEF Map!Delete
<1> QED
  BY <1>2, <1>3, <1>4 DEF Map!Reply

LEMMA MapTyped == TabInv => SlotMap \in [TabIds -> TabSlots \union {0}]
<1> SUFFICES ASSUME TabInv, NEW i \in TabIds
             PROVE  SlotOf(i) \in TabSlots \union {0}
  BY DEF SlotMap
<1>1. CASE \E s \in Set, w \in Way : Holds(s, w, i)
  BY <1>1, SlotFound DEF TabInv
<1>2. CASE \A s \in Set, w \in Way : ~Holds(s, w, i)
  BY <1>2, SlotInMissing DEF Holds, SlotOf
<1> QED
  BY <1>1, <1>2

LEMMA SearchKeeps ==
    ASSUME StorageInv, TabStep, UNCHANGED <<vars, user, resting>>, IInv', TabInv'
    PROVE  StorageInv'
<1>1. state # "IDLE"
  BY SearchAnswers DEF StorageInv
<1>2. /\ user.at \in {"INSERTING", "LOOKING", "DELETING", "CLEARING"}
      /\ user.id \in TabIds /\ user.slot \in Slot /\ InitDone
  BY <1>1, AskedByUser
<1>3. /\ FreeSlots' = FreeSlots /\ Held' = Held /\ (InitDone' <=> InitDone) /\ Resting' = Resting
  BY FreeKept DEF Resting
<1>4. UserTyped' /\ Accounted' /\ Starting'
  BY <1>2, <1>3 DEF StorageInv, UserTyped, Accounted, Starting
<1>5. SlotMap \in [TabIds -> TabSlots \union {0}]
  BY MapTyped DEF StorageInv
<1>6. CASE state' # "IDLE" /\ UNCHANGED <<SlotMap, req, answer>>
  <2>1. Pending' <=> Pending
    BY <1>1, <1>6 DEF Pending
  <2>2. RestingMapped' /\ MappedRest'
    BY <1>3, <1>6, <2>1 DEF StorageInv, RestingMapped, MappedRest
  <2>3. Knows'
    BY <1>1, <1>2, <1>3, <1>6, <2>1 DEF StorageInv, Knows, HasSlot, Asked
  <2> QED
    BY <1>4, <2>2, <2>3 DEF StorageInv
<1>7. CASE state' = "IDLE" /\ Map!Reply /\ user.at = "LOOKING"
  <2>1. /\ SlotMap' = SlotMap
        /\ answer'.hit => SlotMap[user.id] # 0 /\ answer'.slot = SlotMap[user.id]
    BY <1>1, <1>5, <1>7, AskedByUser, AnswerSays
  <2>2. RestingMapped' /\ MappedRest'
    BY <1>3, <1>7, <2>1 DEF StorageInv, RestingMapped, MappedRest, Pending
  <2>3. Knows'
    BY <1>7, <2>1 DEF Knows, Asked
  <2> QED
    BY <1>4, <2>2, <2>3 DEF StorageInv
<1>8. CASE state' = "IDLE" /\ Map!Reply /\ user.at = "INSERTING"
  <2>1. \/ /\ answer'.hit /\ SlotMap[user.id] = 0
           /\ SlotMap' = [SlotMap EXCEPT ![user.id] = user.slot]
        \/ ~answer'.hit /\ SlotMap' = SlotMap
    BY <1>1, <1>5, <1>8, AskedByUser, AnswerSays
  <2>2. ~Pending /\ HasSlot
    BY <1>1, <1>8 DEF Pending, StorageInv, Knows
  <2>3. RestingMapped'
    <3>1. \A s \in Resting : SlotMap'[resting[s]] = s
      <4>1. \A s \in Resting : /\ resting[s] \in TabIds
                               /\ SlotMap[resting[s]] = s /\ s # 0
        BY HeldSlots DEF StorageInv, RestingMapped, Resting, NULL
      <4> QED
        BY <1>5, <2>1, <4>1
    <3> QED
      BY <1>3, <3>1 DEF StorageInv, RestingMapped
  <2>4. MappedRest'
    <3> SUFFICES ASSUME NEW i \in TabIds, SlotMap'[i] # 0
                 PROVE  \/ resting[SlotMap'[i]] = i
                        \/ Pending' /\ user.id = i /\ SlotMap'[i] = user.slot
      BY DEF MappedRest
    <3>1. CASE SlotMap'[i] = SlotMap[i]
      BY <2>2, <3>1 DEF StorageInv, MappedRest
    <3>2. CASE SlotMap'[i] # SlotMap[i]
      BY <1>2, <1>5, <1>8, <2>1, <3>2 DEF Pending
    <3> QED
      BY <3>1, <3>2
  <2>5. Knows'
    BY <1>2, <1>3, <1>5, <1>8, <2>1, <2>2 DEF Knows, HasSlot, Asked
  <2> QED
    BY <1>4, <2>3, <2>4, <2>5 DEF StorageInv
<1>9. CASE state' = "IDLE" /\ Map!Reply /\ user.at \in {"DELETING", "CLEARING"}
  <2>1. SlotMap' = [SlotMap EXCEPT ![user.id] = 0]
    BY <1>1, <1>5, <1>9, AskedByUser, AnswerSays
  <2>2. Pending /\ ~Pending' /\ SlotMap[user.id] = user.slot
    BY <1>1, <1>9 DEF Pending, StorageInv, Knows
  <2>3. user.slot \notin Resting
    BY <1>9, <2>2 DEF StorageInv, Knows, HasSlot, RestingMapped, Held
  <2>4. RestingMapped'
    <3>1. \A s \in Resting : resting[s] # user.id
      BY <2>2, <2>3 DEF StorageInv, RestingMapped
    <3>2. \A s \in Resting : SlotMap'[resting[s]] = s
      BY <1>5, <2>1, <3>1, StorageAssumption DEF StorageInv, RestingMapped, Resting, NoOrder
    <3> QED
      BY <1>3, <3>2 DEF StorageInv, RestingMapped
  <2>5. MappedRest'
    <3> SUFFICES ASSUME NEW i \in TabIds, SlotMap'[i] # 0
                 PROVE  resting[SlotMap'[i]] = i
      BY DEF MappedRest
    <3>1. i # user.id /\ SlotMap'[i] = SlotMap[i]
      BY <1>2, <1>5, <2>1
    <3> QED
      BY <3>1 DEF StorageInv, MappedRest
  <2>6. Knows'
    BY <1>2, <1>3, <1>5, <1>9, <2>1, <2>2 DEF StorageInv, Knows, HasSlot, Asked
  <2> QED
    BY <1>4, <2>4, <2>5, <2>6 DEF StorageInv
<1> QED
  BY <1>2, <1>6, <1>7, <1>8, <1>9, SearchAnswers DEF StorageInv

LEMMA InitEdgeKeeps ==
    ASSUME StorageInv, InitEdge, UNCHANGED <<tabVars, user, resting>>, IInv', TabInv'
    PROVE  StorageInv'
<1>1. FreeSlots' = FreeSlots \union {initCnt} /\ initCnt' = initCnt + 1 /\ ~InitDone
  BY InitEdgeFills DEF StorageInv
<1>2. /\ SlotMap' = SlotMap /\ user' = user /\ resting' = resting /\ Resting' = Resting
      /\ state' = state /\ answer' = answer
  BY TableKept DEF Resting
<1>3. /\ user.at = "IDLE" /\ user = Idle /\ Resting = {} /\ \A i \in TabIds : SlotMap[i] = 0
      /\ \A s \in 1 .. initCnt - 1 : s \in FreeSlots
  BY <1>1 DEF StorageInv, Starting, Idle
<1>4. initCnt \in 1 .. MaxOrders
  BY DEF StorageInv, IInv, TypeOK
<1>5. \A s \in 1 .. initCnt' - 1 : s \in FreeSlots'
  BY <1>1, <1>3, <1>4
<1>6. UserTyped' /\ RestingMapped' /\ MappedRest'
  BY <1>2, <1>3 DEF StorageInv, UserTyped, RestingMapped, MappedRest
<1>7. Accounted'
  <2> SUFFICES ASSUME InitDone'
               PROVE  Held' = {}
    BY DEF Accounted
  <2>1. initCnt' - 1 = MaxOrders - 1
    BY DEF InitDone
  <2>2. \A s \in 1 .. MaxOrders - 1 : s \in FreeSlots'
    BY <1>5, <2>1
  <2> QED
    BY <2>2, MaxOrdersAssumption DEF Held, Slot, NULL
<1>8. Starting'
  BY <1>2, <1>3, <1>5 DEF Starting
<1>9. Knows'
  BY <1>2, <1>3 DEF StorageInv, Knows, Pending
<1> QED
  BY <1>6, <1>7, <1>8, <1>9 DEF StorageInv

LEMMA ResetKeeps ==
    ASSUME StorageInv, StorageReset, IInv', TabInv'
    PROVE  StorageInv'
<1>1. /\ initCnt' = 1 /\ FreeSlots' = {} /\ user' = Idle /\ user'.at = "IDLE" /\ state' = "IDLE"
      /\ UNCHANGED <<resting, rows>>
  BY DEF StorageReset, Reset, TabReset, Done, FreeSlots, Idle
<1>2. /\ SlotMap' = SlotMap /\ Resting' = Resting
  BY <1>1, MapKept DEF Resting
<1>3. \A i \in TabIds : SlotMap[i] = 0
  BY DEF StorageReset, SlotMap
<1>4. Resting = {}
  <2> SUFFICES ASSUME NEW s \in Resting
               PROVE  FALSE
    OBVIOUS
  <2>1. resting[s] \in TabIds /\ SlotMap[resting[s]] = s /\ s # 0
    BY HeldSlots DEF StorageInv, RestingMapped, Resting, NULL
  <2> QED
    BY <1>3, <2>1
<1>5. UserTyped' /\ RestingMapped' /\ MappedRest'
  BY <1>1, <1>2, <1>3, <1>4 DEF StorageInv, UserTyped, RestingMapped, MappedRest
<1>6. ~InitDone' /\ Accounted' /\ Starting'
  BY <1>1, <1>2, <1>3, <1>4, MaxOrdersAssumption DEF Accounted, Starting, InitDone
<1>7. Knows'
  BY <1>1 DEF Knows, Pending
<1> QED
  BY <1>5, <1>6, <1>7 DEF StorageInv

LEMMA StorageBegins == StorageInit => StorageInv
<1> SUFFICES ASSUME StorageInit
             PROVE  StorageInv
  OBVIOUS
<1>1. IInv /\ TabInv
  BY InitIInv, TabInitInv DEF StorageInit
<1>2. \A i \in TabIds : SlotMap[i] = 0
  BY InitMaps DEF StorageInit, Map!Init
<1>3. user = Idle /\ user.at = "IDLE" /\ resting = [s \in Slot |-> NoOrder] /\ Resting = {}
  BY DEF StorageInit, Resting, Idle
<1>4. UserTyped /\ RestingMapped /\ MappedRest
  BY <1>2, <1>3 DEF UserTyped, RestingMapped, MappedRest
<1>5. initCnt = 1 /\ ~InitDone /\ Accounted /\ Starting
  BY <1>2, <1>3, MaxOrdersAssumption DEF StorageInit, Init, InitDone, Accounted, Starting
<1>6. Knows
  BY <1>3 DEF StorageInit, TabInit, Knows, Pending
<1> QED
  BY <1>1, <1>4, <1>5, <1>6 DEF StorageInv

LEMMA StorageKeeps == StorageInv /\ [StorageNext]_storageVars => StorageInv'
<1> SUFFICES ASSUME StorageInv, [StorageNext]_storageVars
             PROVE  StorageInv'
  OBVIOUS
<1>0. IInv' /\ TabInv'
  BY StepIsDisciplined, NextIInv, TabNextInv DEF StorageInv
<1>1. ASSUME NEW i \in TabIds, AddGetsSlot(i) \/ RemovalAsks(i)
      PROVE  StorageInv'
  BY <1>0, <1>1, AddGetsSlotKeeps, RemovalAsksKeeps
<1>2. ASSUME NEW slot \in Resting, MatchFrees(slot)
      PROVE  StorageInv'
  BY <1>0, <1>2, MatchFreesKeeps
<1>3. CASE Continues
  BY <1>0, <1>3, AddAsksKeeps, AddLinksKeeps, GivesBackKeeps, EndsKeeps, RemovalUnlinksKeeps,
     DeletionAskedKeeps DEF Continues
<1>4. CASE Background
  BY <1>0, <1>4, InitEdgeKeeps, SearchKeeps DEF Background
<1>5. CASE StorageReset
  BY <1>0, <1>5, ResetKeeps
<1>6. CASE UNCHANGED storageVars
  <2>1. UNCHANGED vars /\ UNCHANGED tabVars /\ user' = user /\ resting' = resting
    BY <1>6 DEF storageVars
  <2>2. /\ SlotMap' = SlotMap /\ state' = state /\ req' = req /\ answer' = answer
    BY <2>1, TableKept
  <2>3. FreeSlots' = FreeSlots /\ Held' = Held /\ (InitDone' <=> InitDone) /\ Resting' = Resting
        /\ initCnt' = initCnt
    BY <2>1, FreeKept DEF Resting, vars
  <2>4. UserTyped' /\ RestingMapped' /\ MappedRest' /\ Accounted' /\ Starting'
    BY <2>1, <2>2, <2>3 DEF StorageInv, UserTyped, RestingMapped, MappedRest, Pending,
                           Accounted, Starting
  <2>5. Knows'
    BY <2>1, <2>2, <2>3 DEF StorageInv, Knows, HasSlot, Asked, Pending
  <2> QED
    BY <1>0, <2>4, <2>5 DEF StorageInv
<1> QED
  BY <1>1, <1>2, <1>3, <1>4, <1>5, <1>6 DEF StorageNext, Starts

-----------------------------------------------------------------------------
THEOREM StorageInvariance == StorageSpec => []StorageInv
  BY StorageBegins, StorageKeeps, PTL DEF StorageSpec

\* Order manager and matcher are the environment the order memory's theorems
\* assume: they give back only slots in use and leave the stack alone otherwise.
THEOREM UsersAreDisciplined == StorageSpec => SlotDiscipline
<1>1. StorageInit => Init
  BY DEF StorageInit
<1>2. StorageInv /\ [StorageNext]_storageVars => [Next]_vars
  BY StepIsDisciplined
<1> QED
  BY <1>1, <1>2, StorageInvariance, PTL DEF StorageSpec, SlotDiscipline, Spec

\* And the one the id table's theorems assume: under their requests too the
\* table is the map.
THEOREM UsersSeeTheMap == StorageSpec => ImplementsMap
<1>1. StorageInit => TabInit
  BY DEF StorageInit
<1>2. StorageInv /\ [StorageNext]_storageVars => [TabNext]_tabVars
  BY StepIsDisciplined
<1> QED
  BY <1>1, <1>2, StorageInvariance, TableIsMap, PTL DEF StorageSpec, TabSpec

LEMMA NoSlotShared ==
    ASSUME StorageInv, NEW i \in TabIds, NEW j \in TabIds,
           SlotMap[i] # 0, SlotMap[i] = SlotMap[j]
    PROVE  i = j
<1>1. CASE resting[SlotMap[i]] = i /\ resting[SlotMap[j]] = j
  BY <1>1
<1>2. CASE Pending /\ user.id = i /\ SlotMap[i] = user.slot
  <2>1. user.slot \notin Resting
    BY <1>2 DEF StorageInv, Knows, HasSlot, Pending, RestingMapped, Held
  <2>2. resting[SlotMap[j]] # j
    <3>1. user.slot \in Slot
      BY <1>2, UserFields DEF StorageInv, Pending
    <3> QED
      BY <1>2, <2>1, <3>1, StorageAssumption DEF Resting, NoOrder
  <2> QED
    BY <1>2, <2>2 DEF StorageInv, MappedRest
<1>3. CASE Pending /\ user.id = j /\ SlotMap[j] = user.slot
  <2>1. user.slot \notin Resting
    BY <1>3 DEF StorageInv, Knows, HasSlot, Pending, RestingMapped, Held
  <2>2. resting[SlotMap[i]] # i
    <3>1. user.slot \in Slot
      BY <1>3, UserFields DEF StorageInv, Pending
    <3> QED
      BY <1>3, <2>1, <3>1, StorageAssumption DEF Resting, NoOrder
  <2> QED
    BY <1>3, <2>2 DEF StorageInv, MappedRest
<1> QED
  BY <1>1, <1>2, <1>3 DEF StorageInv, MappedRest

\* Pool, stack and table agree in every state of every operation.
THEOREM AlwaysAgree == StorageSpec => []MemoriesAgree
<1>1. StorageInv => MemoriesAgree
  <2> SUFFICES ASSUME StorageInv
               PROVE  MemoriesAgree
    OBVIOUS
  <2>0. \A i \in TabIds : SlotMap[i] = SlotOf(i)
    BY DEF SlotMap
  <2>1. \A i, j \in TabIds : SlotOf(i) # 0 /\ SlotOf(i) = SlotOf(j) => i = j
    BY <2>0, NoSlotShared
  <2>2. \A s \in Resting : resting[s] \in TabIds /\ SlotOf(resting[s]) = s
    BY <2>0 DEF StorageInv, RestingMapped, Resting
  <2>3. ASSUME NEW i \in TabIds, SlotOf(i) \in FreeSlots
        PROVE  user.at \in {"FILLED", "CLEARING"} /\ user.id = i /\ user.slot = SlotOf(i)
    <3>1. SlotMap[i] # 0 /\ SlotMap[i] \in Slot /\ SlotMap[i] \notin Held
      BY <2>0, <2>3 DEF StorageInv, IInv, TypeOK, FreeSlots, Held, NULL
    <3>2. resting[SlotMap[i]] # i
      BY <3>1, StorageAssumption DEF StorageInv, RestingMapped, Resting, NoOrder
    <3>3. Pending /\ user.id = i /\ SlotMap[i] = user.slot
      BY <3>1, <3>2 DEF StorageInv, MappedRest
    <3>4. user.at \notin {"INSERTING", "DELETE", "DELETING"}
      BY <3>1, <3>3 DEF StorageInv, Knows, HasSlot
    <3> QED
      BY <2>0, <3>3, <3>4 DEF Pending
  <2> QED
    BY <2>1, <2>2, <2>3 DEF MemoriesAgree
<1> QED
  BY <1>1, StorageInvariance, PTL

\* Between commands the orders that rest, the ids mapped and the slots in use
\* are the same orders.
THEOREM NothingIsLost == StorageSpec => []AtRestAllAgree
<1>1. StorageInv => AtRestAllAgree
  <2> SUFFICES ASSUME StorageInv, user.at = "IDLE", InitDone
               PROVE  Held = Resting /\ {SlotOf(i) : i \in TabIds} \ {0} = Resting
    BY DEF AtRestAllAgree, At
  <2>0. \A i \in TabIds : SlotMap[i] = SlotOf(i)
    BY DEF SlotMap
  <2>1. Held = Resting
    BY DEF StorageInv, Accounted, RestingMapped
  <2>2. \A s \in Resting : resting[s] \in TabIds /\ SlotOf(resting[s]) = s /\ s # 0
    BY <2>0, HeldSlots DEF StorageInv, RestingMapped, Resting, NULL
  <2>3. ASSUME NEW i \in TabIds, SlotOf(i) # 0
        PROVE  SlotOf(i) \in Resting
    <3>1. resting[SlotOf(i)] = i
      BY <2>0, <2>3 DEF StorageInv, MappedRest, Pending
    <3>2. SlotOf(i) \in Slot
      BY <2>0, <2>3, MapTyped, HeldSlots DEF StorageInv
    <3> QED
      BY <3>1, <3>2, StorageAssumption DEF Resting, NoOrder
  <2> QED
    BY <2>1, <2>2, <2>3
<1> QED
  BY <1>1, StorageInvariance, PTL
=============================================================================
