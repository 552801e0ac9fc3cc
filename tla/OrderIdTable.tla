---------------------------- MODULE OrderIdTable ----------------------------
(***************************************************************************)
(* hardware/rtl/order_id_table.sv: the set-associative index from order ids   *)
(* to slots.  A request hashes to a set and inspects MaxSetProbe consecutive  *)
(* sets, reading one row of Ways buckets at a time; an insertion remembers    *)
(* the first empty bucket it saw and commits only after the whole window has  *)
(* been searched for a duplicate.                                            *)
(*                                                                         *)
(* hash64 is any function from ids to sets, chosen once.  rst_n stops the     *)
(* FSM and leaves the rows as they are.  Registers no later state reads are    *)
(* zeroed when the FSM goes idle.                                            *)
(***************************************************************************)
EXTENDS Naturals

CONSTANTS
    TabIds,         \* order ids
    TabSlots,       \* slots, other than the null slot 0
    Sets, Ways,     \* SETS and WAYS, 4096 and 4 in the hardware
    MaxSetProbe     \* MAX_SET_PROBE, 8

ASSUME TableAssumption ==
    /\ Sets \in Nat \ {0} /\ Ways \in Nat \ {0}
    /\ MaxSetProbe \in 1 .. Sets
    /\ 0 \notin TabSlots

VARIABLES
    hash,       \* hash64
    rows,       \* mem
    state,      \* state
    req,        \* cur_op, cur_id, cur_slot, cur_is_mat
    probe,      \* probe_idx
    row,        \* row_q
    empty,      \* first_empty_valid, _set, _way, _row
    put,        \* write_set_q, write_base_row_q/write_row_q, write_way_q,
                \* write_bucket_q, write_result_slot_q
    answer      \* mgr_done, mat_done with mgr_hit/mgr_miss and mgr_hit_slot

tabVars == <<hash, rows, state, req, probe, row, empty, put, answer>>
regs == <<probe, row, empty, put>>

Set == 0 .. Sets - 1
Way == 0 .. Ways - 1

EmptyBucket == [valid |-> FALSE]
Bucket == {EmptyBucket} \union [valid : {TRUE}, id : TabIds, slot : TabSlots]
Row == [Way -> Bucket]
ZeroRow == [w \in Way |-> EmptyBucket]

NoPlace == [valid |-> FALSE]
Place == [valid : {TRUE}, set : Set, way : Way, row : Row]
NoPut == [result |-> 0]
Put == [set : Set, way : Way, row : Row, bucket : Bucket, result : TabSlots]

Op == {"LOOKUP", "INSERT", "DELETE"}
NoReq == [op |-> "NONE"]
Req == [op : Op, id : TabIds, slot : TabSlots \union {0}, by : {"mgr", "mat"}]

Hit(slot) == [by |-> req.by, hit |-> TRUE, slot |-> slot]
Miss == [by |-> req.by, hit |-> FALSE, slot |-> 0]

-----------------------------------------------------------------------------
\* The set inspected at step k for id i; the address wraps around the table.
Wrap(n) == IF n >= Sets THEN n - Sets ELSE n
SetAt(i, k) == Wrap(hash[i] + k)
ProbeSet == SetAt(req.id, probe)

\* Four-way comparison and first-empty selection of the row read.
Matches(r, w) == r[w].valid /\ r[w].id = req.id
RowMatch == \E w \in Way : Matches(row, w)
RowEmpty == \E w \in Way : ~row[w].valid
MatchWay ==
    CHOOSE w \in Way : Matches(row, w) /\ \A v \in Way : Matches(row, v) => w <= v
EmptyWay ==
    CHOOSE w \in Way : ~row[w].valid /\ \A v \in Way : ~row[v].valid => w <= v

\* Mutation: a row with an empty bucket ends the search.
LastProbeOrHole == probe = MaxSetProbe - 1 \/ RowEmpty

LastProbe == probe = MaxSetProbe - 1

Done(a) ==
    /\ state' = "IDLE"
    /\ answer' = a
    /\ req' = NoReq /\ probe' = 0 /\ row' = ZeroRow /\ empty' = NoPlace /\ put' = NoPut

\* The manager asks for anything, and inserts slots it was given; the matcher
\* asks for deletions.
ProperRequest(r) ==
    /\ r.op = "INSERT" => r.slot \in TabSlots
    /\ r.by = "mat" => r.op = "DELETE"

\* S_IDLE: one request at a time.
Ask(r) ==
    /\ state = "IDLE"
    /\ state' = "READ"
    /\ req' = r
    /\ UNCHANGED <<hash, rows, regs, answer>>

ReadRow ==
    /\ state = "READ"
    /\ state' = "EVAL"
    /\ row' = rows[ProbeSet]
    /\ UNCHANGED <<hash, rows, req, probe, empty, put, answer>>

FindLookup ==
    /\ state = "EVAL" /\ RowMatch /\ req.op = "LOOKUP"
    /\ Done(Hit(row[MatchWay].slot))
    /\ UNCHANGED <<hash, rows>>

FindDuplicate ==
    /\ state = "EVAL" /\ RowMatch /\ req.op = "INSERT"
    /\ Done(Miss)
    /\ UNCHANGED <<hash, rows>>

FindDelete ==
    /\ state = "EVAL" /\ RowMatch /\ req.op = "DELETE"
    /\ state' = "PREP"
    /\ put' = [set |-> ProbeSet, way |-> MatchWay, row |-> row,
               bucket |-> EmptyBucket, result |-> row[MatchWay].slot]
    /\ UNCHANGED <<hash, rows, req, probe, row, empty, answer>>

\* The empty bucket an insertion will use: the first one seen, or this row's.
Here == [valid |-> TRUE, set |-> ProbeSet, way |-> EmptyWay, row |-> row]

\* Mutation: the last row of the window is not used.
RememberedBeforeLast ==
    IF req.op = "INSERT" /\ ~empty.valid /\ RowEmpty /\ ~LastProbe THEN Here ELSE empty

Remembered ==
    IF req.op = "INSERT" /\ ~empty.valid /\ RowEmpty THEN Here ELSE empty

\* Mutation: the probe does not advance.
GoOnHere ==
    /\ state = "EVAL" /\ ~RowMatch /\ ~LastProbe
    /\ state' = "READ"
    /\ empty' = Remembered
    /\ UNCHANGED <<hash, rows, req, probe, row, put, answer>>

\* Every row of the window is searched, also past an empty bucket.
GoOn ==
    /\ state = "EVAL" /\ ~RowMatch /\ ~LastProbe
    /\ state' = "READ"
    /\ probe' = probe + 1
    /\ empty' = Remembered
    /\ UNCHANGED <<hash, rows, req, row, put, answer>>

InsertHere ==
    /\ state = "EVAL" /\ ~RowMatch /\ LastProbe
    /\ req.op = "INSERT" /\ Remembered.valid
    /\ state' = "PREP"
    /\ empty' = Remembered
    /\ put' = [set |-> Remembered.set, way |-> Remembered.way,
               row |-> Remembered.row,
               bucket |-> [valid |-> TRUE, id |-> req.id, slot |-> req.slot],
               result |-> req.slot]
    /\ UNCHANGED <<hash, rows, req, probe, row, answer>>

NotFound ==
    /\ state = "EVAL" /\ ~RowMatch /\ LastProbe
    /\ ~(req.op = "INSERT" /\ Remembered.valid)
    /\ Done(Miss)
    /\ UNCHANGED <<hash, rows>>

Prep ==
    /\ state = "PREP"
    /\ state' = "WRITE"
    /\ put' = [put EXCEPT !.row = [@ EXCEPT ![put.way] = put.bucket]]
    /\ UNCHANGED <<hash, rows, req, probe, row, empty, answer>>

WriteRow ==
    /\ state = "WRITE"
    /\ rows' = [rows EXCEPT ![put.set] = put.row]
    /\ Done(Hit(put.result))
    /\ UNCHANGED hash

TabStep ==
    \/ ReadRow \/ FindLookup \/ FindDuplicate \/ FindDelete
    \/ GoOn \/ InsertHere \/ NotFound \/ Prep \/ WriteRow

\* rst_n: the FSM goes idle without an answer.
TabReset ==
    /\ Done([by |-> "none"])
    /\ UNCHANGED <<hash, rows>>

TabInit ==
    /\ hash \in [TabIds -> Set]
    /\ rows = [s \in Set |-> ZeroRow]
    /\ state = "IDLE" /\ req = NoReq /\ probe = 0 /\ row = ZeroRow
    /\ empty = NoPlace /\ put = NoPut /\ answer = [by |-> "none"]

TabNext ==
    \/ \E r \in Req : ProperRequest(r) /\ Ask(r)
    \/ TabStep
    \/ TabReset

TabSpec == TabInit /\ [][TabNext]_tabVars

-----------------------------------------------------------------------------
\* Bucket w of set s holds id i.
Holds(s, w, i) == rows[s][w].valid /\ rows[s][w].id = i

\* The slot a table maps id i to, or 0: the map the table stands for.
SlotIn(table, i) ==
    LET Found(p) == table[p[1]][p[2]].valid /\ table[p[1]][p[2]].id = i
        place == CHOOSE p \in Set \X Way : Found(p)
    IN  IF \E p \in Set \X Way : Found(p) THEN table[place[1]][place[2]].slot ELSE 0
SlotOf(i) == SlotIn(rows, i)
SlotMap == [i \in TabIds |-> SlotOf(i)]

\* Type invariant of the table.
TabTypeOK ==
    /\ hash \in [TabIds -> Set]
    /\ rows \in [Set -> Row]
    /\ state \in {"IDLE", "READ", "EVAL", "PREP", "WRITE"}
    /\ req \in Req \union {NoReq} /\ (req = NoReq <=> state = "IDLE")
    /\ probe \in 0 .. MaxSetProbe - 1
    /\ row \in Row
    /\ empty \in Place \union {NoPlace}
    /\ put \in Put \union {NoPut} /\ (put = NoPut <=> state \notin {"PREP", "WRITE"})
    /\ req # NoReq => ProperRequest(req)

\* No id is in the table twice, however insertions and deletions left holes.
NoIdTwice ==
    \A s, t \in Set, v, w \in Way :
        rows[s][v].valid /\ rows[t][w].valid /\ rows[s][v].id = rows[t][w].id
        => s = t /\ v = w

\* Every id is inside the window a lookup searches.
WithinWindow ==
    \A s \in Set, w \in Way :
        rows[s][w].valid => \E k \in 0 .. MaxSetProbe - 1 : s = SetAt(rows[s][w].id, k)

Map == INSTANCE IdMap WITH
    Ids <- TabIds, Slots <- TabSlots, NULL <- 0,
    ids <- SlotMap,
    asked <- req, answer <- answer

\* The table implements the map: whatever holes deletions leave in front of an
\* id, a lookup finds it, an insertion never makes a second entry, and a row
\* write disturbs no other id of its row.
ImplementsMap == Map!Spec

\* An insertion is refused only for a duplicate or because every bucket of the
\* window is taken.
RefusedOnlyWhenFull ==
    [][ (req.op = "INSERT" /\ state = "EVAL" /\ state' = "IDLE" /\ answer'.by = "mgr")
        => \/ SlotOf(req.id) # 0
           \/ \A k \in 0 .. MaxSetProbe - 1, w \in Way : rows[SetAt(req.id, k)][w].valid ]_tabVars
=============================================================================
