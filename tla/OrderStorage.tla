---------------------------- MODULE OrderStorage ----------------------------
(***************************************************************************)
(* The order pool, its free stack and the id table together, used in the      *)
(* sequences in which the order manager and the matcher use them: an ADD      *)
(* takes a slot, inserts its id and gives the slot back when the table        *)
(* refuses; a removal looks the id up, deletes it and gives the slot back;    *)
(* the matcher gives the slot of a filled head back first and deletes its id  *)
(* afterwards.                                                               *)
(*                                                                         *)
(* Of a pool record only the order's id is told apart, and only while price   *)
(* levels link it: resting maps slots to those ids, and pool is left alone.   *)
(***************************************************************************)
EXTENDS OrderMemory, OrderIdTable

VARIABLES
    user,       \* the state of manager or matcher, the id and the slot it works on
    resting     \* slot -> id of the order linked there, or NoOrder

\* The slots the table maps to are the pool's.  resting writes 0 for no order, so
\* ids are named by anything else.
ASSUME StorageAssumption == TabSlots = 1 .. MaxOrders - 1 /\ 0 \notin TabIds

storageVars == <<vars, tabVars, user, resting>>

NoOrder == 0
Resting == {s \in Slot : resting[s] # NoOrder}

Idle == [at |-> "IDLE", slot |-> NULL]

At(st) == user.at = st
Goto(st) == user' = [user EXCEPT !.at = st]

Request(op, i, slot, by) == [op |-> op, id |-> i, slot |-> slot, by |-> by]

\* A request is made in one cycle and answered in a later one; the FSM waits.
AskFor(op, st, by) ==
    /\ Ask(Request(op, user.id, IF op = "INSERT" THEN user.slot ELSE NULL, by))
    /\ Goto(st)
    /\ UNCHANGED <<vars, resting>>

Answered == state = "IDLE"

-----------------------------------------------------------------------------
\* ENQ_GET_SLOT
AddGetsSlot(i) ==
    /\ At("IDLE") /\ Alloc
    /\ user' = [at |-> "INSERT", id |-> i, slot |-> TopSlot]
    /\ UNCHANGED <<tabVars, resting>>

AddAsks == At("INSERT") /\ AskFor("INSERT", "INSERTING", "mgr")

\* ENQ_HASH to ENQ_DONE: the order is written and linked.
AddLinks ==
    /\ At("INSERTING") /\ Answered /\ answer.hit
    /\ resting' = [resting EXCEPT ![user.slot] = user.id]
    /\ user' = Idle
    /\ UNCHANGED <<vars, tabVars>>

\* Mutation: the reserved slot is kept.
AddRollsBackKeeping ==
    /\ At("INSERTING") /\ Answered /\ ~answer.hit
    /\ user' = Idle
    /\ UNCHANGED <<vars, tabVars, resting>>

\* ENQ_ROLLBACK
AddRollsBack ==
    /\ At("INSERTING") /\ Answered /\ ~answer.hit
    /\ Push(user.slot)
    /\ user' = Idle
    /\ UNCHANGED <<pool, tabVars, resting>>

\* LU_START
RemovalAsks(i) ==
    /\ At("IDLE") /\ InitDone
    /\ Ask(Request("LOOKUP", i, NULL, "mgr"))
    /\ user' = [at |-> "LOOKING", id |-> i, slot |-> NULL]
    /\ UNCHANGED <<vars, resting>>

RemovalMisses ==
    /\ At("LOOKING") /\ Answered /\ ~answer.hit
    /\ user' = Idle
    /\ UNCHANGED <<vars, tabVars, resting>>

\* LU_WAIT to SP_WR_NEXT2: the order found is unlinked.
RemovalUnlinks ==
    /\ At("LOOKING") /\ Answered /\ answer.hit
    /\ user' = [user EXCEPT !.at = "DELETE", !.slot = answer.slot]
    /\ resting' = [resting EXCEPT ![answer.slot] = NoOrder]
    /\ UNCHANGED <<vars, tabVars>>

\* DEL_HASH, DEL_WAIT, DEL_COMMIT
RemovalDeletes == At("DELETE") /\ AskFor("DELETE", "DELETING", "mgr")

RemovalEnds ==
    /\ At("DELETING") /\ Answered
    /\ Push(user.slot)
    /\ user' = Idle
    /\ UNCHANGED <<pool, tabVars, resting>>

\* M_UPD_BID, M_UPD_ASK, F_UPDATE with a filled head.
MatchFrees(slot) ==
    /\ At("IDLE")
    /\ Push(slot)
    /\ resting' = [resting EXCEPT ![slot] = NoOrder]
    /\ user' = [at |-> "FILLED", id |-> resting[slot], slot |-> slot]
    /\ UNCHANGED <<pool, tabVars>>

\* M_HASH_BID_REQ, M_HASH_ASK_REQ, F_HASH_REQ and the states that wait.
MatchDeletes == At("FILLED") /\ AskFor("DELETE", "CLEARING", "mat")

\* Mutation: the matcher goes on without waiting for the deletion.
MatchEndsEarly ==
    /\ At("CLEARING")
    /\ user' = Idle
    /\ UNCHANGED <<vars, tabVars, resting>>

\* Mutation: the slot is given back again after the deletion.
MatchEndsFreeing ==
    /\ At("CLEARING") /\ Answered
    /\ Push(user.slot)
    /\ user' = Idle
    /\ UNCHANGED <<pool, tabVars, resting>>

MatchEnds ==
    /\ At("CLEARING") /\ Answered
    /\ user' = Idle
    /\ UNCHANGED <<vars, tabVars, resting>>

\* rst_n, with no order mapped: a reset with orders resting leaves them mapped.
StorageReset ==
    /\ \A i \in TabIds : SlotOf(i) = 0
    /\ Reset /\ TabReset
    /\ user' = Idle
    /\ UNCHANGED resting

StorageInit ==
    /\ Init /\ TabInit /\ user = Idle
    /\ resting = [s \in Slot |-> NoOrder]

Background ==
    \/ InitEdge /\ UNCHANGED <<tabVars, user, resting>>
    \/ TabStep /\ UNCHANGED <<vars, user, resting>>

Starts ==
    \/ \E i \in TabIds : AddGetsSlot(i) \/ RemovalAsks(i)
    \/ \E slot \in Resting : MatchFrees(slot)

Continues ==
    \/ AddAsks \/ AddLinks \/ AddRollsBack
    \/ RemovalMisses \/ RemovalUnlinks \/ RemovalDeletes \/ RemovalEnds
    \/ MatchDeletes \/ MatchEnds

StorageNext == Background \/ Starts \/ Continues \/ StorageReset

\* FSMs are clocked; nobody need send commands, or raise the reset.
StorageSpec ==
    /\ StorageInit /\ [][StorageNext]_storageVars
    /\ WF_storageVars(Background) /\ WF_storageVars(Continues)

-----------------------------------------------------------------------------
\* The three memories agree in every state.  No two ids share a slot; an order
\* that rests is found under its id; and only while the matcher waits for its
\* deletion is a slot both free and mapped, and then no other slot is.
MemoriesAgree ==
    /\ \A i, j \in TabIds : SlotOf(i) # 0 /\ SlotOf(i) = SlotOf(j) => i = j
    /\ \A s \in Resting : SlotOf(resting[s]) = s
    /\ \A i \in TabIds :
          SlotOf(i) \in FreeSlots =>
            /\ user.at \in {"FILLED", "CLEARING"}
            /\ user.id = i /\ user.slot = SlotOf(i)

\* Between commands the orders that rest, the ids that are mapped and the slots
\* in use are the same orders: no slot is lost by a refused ADD or a removal,
\* and no id outlives its order.
AtRestAllAgree ==
    At("IDLE") /\ InitDone =>
        /\ Held = Resting
        /\ {SlotOf(i) : i \in TabIds} \ {0} = Resting

\* Manager and matcher give back only slots they hold and otherwise leave the
\* free stack alone: the environment the order memory's theorems assume.
SlotDiscipline == Spec

\* Every request is answered and every operation ends, unless a reset comes.
OperationsEnd == ~At("IDLE") ~> At("IDLE")
=============================================================================
