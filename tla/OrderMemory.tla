---------------------------- MODULE OrderMemory ----------------------------
(***************************************************************************)
(* hardware/rtl/order_memory.sv: the pool of order records and the LIFO     *)
(* stack of free slots.  Slot 0 is the null pointer and is never on the     *)
(* stack.  free is free_mem[0 .. free_top-1], its last element the top.     *)
(*                                                                         *)
(* The actions are the effects of one clock edge; the engine performs at     *)
(* most one allocation or one push per edge.  Nothing checks a push against   *)
(* the stack: that a slot is pushed only by whom it was delivered to is the   *)
(* discipline of the order manager and the matcher (checked there), and is    *)
(* the environment of this module's own specification.                       *)
(***************************************************************************)
EXTENDS Integers, Sequences, FiniteSets

CONSTANTS
    MaxOrders,      \* MAX_ORDERS: slots in the pool, 8192 in the hardware
    OrderRec,       \* the records a slot holds (order_rec_t)
    ZeroRec         \* the all-zero record the pool is initialized with

ASSUME MaxOrdersAssumption == MaxOrders \in Nat \ {0, 1}
ASSUME ZeroRecAssumption == ZeroRec \in OrderRec

VARIABLES
    pool,       \* mem
    free,       \* the free stack
    initCnt     \* init_cnt; MaxOrders stands for init_done

vars == <<pool, free, initCnt>>

Slot == 0 .. MaxOrders - 1
NULL == 0

InitDone == initCnt = MaxOrders
FreeEmpty == free = <<>>

\* The slot on top of the stack, which an allocation delivers.
TopSlot == free[Len(free)]

\* num_orders, the engine's live-order count, is derived from the stack.
NumOrders == IF InitDone THEN MaxOrders - 1 - Len(free) ELSE 0

-----------------------------------------------------------------------------
InitEdge ==
    /\ ~InitDone
    /\ free' = Append(free, initCnt)
    /\ initCnt' = initCnt + 1
    /\ UNCHANGED pool

\* free_alloc_b: ignored while the stack is empty.
Alloc ==
    /\ InitDone /\ ~FreeEmpty
    /\ free' = SubSeq(free, 1, Len(free) - 1)
    /\ UNCHANGED <<pool, initCnt>>

\* Mutation: both ports push the slot.
PushBothPorts(slot) ==
    /\ InitDone
    /\ free' = free \o <<slot, slot>>
    /\ UNCHANGED initCnt

\* free_push_a, free_push_b: not checked against the stack's content.
Push(slot) ==
    /\ InitDone
    /\ free' = Append(free, slot)
    /\ UNCHANGED initCnt

Write(slot, rec) == pool' = [pool EXCEPT ![slot] = rec]

\* rst_n low: the stack is rebuilt.
Reset ==
    /\ free' = <<>>
    /\ initCnt' = 1
    /\ UNCHANGED pool           \* the pool keeps its content

Init ==
    /\ pool = [s \in Slot |-> ZeroRec]
    /\ free = <<>>
    /\ initCnt = 1

-----------------------------------------------------------------------------
FreeSlots == {free[n] : n \in 1 .. Len(free)}

\* The slots delivered and not yet given back.
Held == Slot \ ({NULL} \union FreeSlots)

Next ==
    \/ InitEdge
    \/ Alloc
    \/ \E slot \in Held : Push(slot) /\ UNCHANGED pool
    \/ \E slot \in Held, rec \in OrderRec :
          Write(slot, rec) /\ UNCHANGED <<free, initCnt>>
    \/ Reset

Spec == Init /\ [][Next]_vars

-----------------------------------------------------------------------------
\* Type invariant: in particular the null slot is never on the stack.
TypeOK ==
    /\ pool \in [Slot -> OrderRec]
    /\ free \in Seq(Slot \ {NULL})
    /\ initCnt \in 1 .. MaxOrders

\* No slot is on the stack twice, so none is ever delivered to two orders.
NoSlotTwice ==
    \A m, n \in 1 .. Len(free) : free[m] = free[n] => m = n

\* The initialization pushes the slots in order, so the one it pushes next is
\* not on the stack.
InitInOrder ==
    \A n \in 1 .. Len(free) : free[n] < initCnt

\* num_orders, computed from the height of the stack alone, is the number of
\* slots in use: no slot is lost or counted twice, whatever the order in which
\* they were allocated and freed, and through resets.
NumOrdersIsHeld == InitDone => NumOrders = Cardinality(Held)

IInv == TypeOK /\ NoSlotTwice /\ InitInOrder
=============================================================================
