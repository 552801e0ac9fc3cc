------------------------------- MODULE IdMap -------------------------------
(***************************************************************************)
(* What the order id table promises the order manager and the matcher: a map *)
(* from live order ids to slots, changed and read by one request at a time.   *)
(* This is the table as BookState has it; an insertion may be refused because *)
(* the places it may use are taken, which the map does not show.             *)
(***************************************************************************)
CONSTANTS
    Ids,        \* order ids
    Slots,      \* slots other than the null slot
    NULL        \* the null slot: not mapped

VARIABLES
    ids,        \* the map
    asked,      \* the request in progress, or NoRequest
    answer      \* the last completion pulse

Request == [op : {"LOOKUP", "INSERT", "DELETE"}, id : Ids,
            slot : Slots \union {NULL}, by : {"mgr", "mat"}]
NoRequest == [op |-> "NONE"]

Hit(r, slot) == [by |-> r.by, hit |-> TRUE, slot |-> slot]
Miss(r) == [by |-> r.by, hit |-> FALSE, slot |-> NULL]

Init ==
    /\ ids = [i \in Ids |-> NULL]
    /\ asked = NoRequest
    /\ answer = [by |-> "none"]

Ask ==
    /\ asked = NoRequest
    /\ asked' \in Request
    /\ UNCHANGED <<ids, answer>>

Lookup ==
    /\ asked.op = "LOOKUP"
    /\ answer' = IF ids[asked.id] # NULL THEN Hit(asked, ids[asked.id]) ELSE Miss(asked)
    /\ UNCHANGED ids

Insert ==
    /\ asked.op = "INSERT"
    /\ \/ /\ ids[asked.id] = NULL
          /\ ids' = [ids EXCEPT ![asked.id] = asked.slot]
          /\ answer' = Hit(asked, asked.slot)
       \/ /\ answer' = Miss(asked)
          /\ UNCHANGED ids

Delete ==
    /\ asked.op = "DELETE"
    /\ ids' = [ids EXCEPT ![asked.id] = NULL]
    /\ answer' = IF ids[asked.id] # NULL THEN Hit(asked, ids[asked.id]) ELSE Miss(asked)

Reply == (Lookup \/ Insert \/ Delete) /\ asked' = NoRequest

\* A reset drops the request; the map stays.
Forget ==
    /\ asked' = NoRequest
    /\ answer' = [by |-> "none"]
    /\ UNCHANGED ids

Next == Ask \/ Reply \/ Forget

vars == <<ids, asked, answer>>

Spec == Init /\ [][Next]_vars
=============================================================================
