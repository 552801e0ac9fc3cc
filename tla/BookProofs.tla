----------------------------- MODULE BookProofs -----------------------------
(***************************************************************************)
(* The engine keeps an order book, for every number of levels, slots and ids *)
(* and every bound on the host: theorems about the properties of             *)
(* BookInvariants, for a host that does not splice stale heads and a reset   *)
(* that finds the book empty (ScopeOfBook).                                  *)
(*                                                                         *)
(* The argument, in the order of the sections: register arithmetic and       *)
(* totals; what a linked list of slots is and how it changes when a slot is  *)
(* resized, unlinked or linked at the tail; the same for the whole table of  *)
(* levels; who may work when (the control invariant IInv and the theorems     *)
(* about EngineControl, in no scope at all); then, step by step, that         *)
(* manager, matcher, controller and initialization change the book in the     *)
(* ways shown first only, and that what the FSMs have latched stays true      *)
(* until they use it.  Together with the control invariant and the encoder's  *)
(* own, this is the inductive invariant Sound, from which the theorems follow. *)
(***************************************************************************)
EXTENDS BookInvariants, FiniteSetTheorems, WellFoundedInduction,
        SequenceTheorems, TLAPS

-----------------------------------------------------------------------------
(* Arithmetic.                                                               *)

\* A number is its quotient and its remainder.
LEMMA QuotientRemainder ==
    ASSUME NEW a \in Int, NEW m \in Nat \ {0}
    PROVE  \E q \in Int, r \in 0 .. m - 1 : a = q * m + r /\ a % m = r
<1>1. a = (a \div m) * m + (a % m) /\ a % m \in 0 .. m - 1 /\ a \div m \in Int
  OBVIOUS
<1> QED BY <1>1

\* Multiples of the modulus do not count.
LEMMA ModShift ==
    ASSUME NEW a \in Int, NEW k \in Int, NEW m \in Nat \ {0}
    PROVE  (a + k * m) % m = a % m
<1>1. PICK q \in Int, r \in 0 .. m - 1 : a = q * m + r /\ a % m = r
  BY QuotientRemainder
<1>2. a + k * m = (q + k) * m + r /\ q + k \in Int
  BY <1>1
<1>3. ((q + k) * m + r) % m = r
  BY <1>2
<1> QED BY <1>1, <1>2, <1>3

\* A sum may be reduced before or after a term is added.
LEMMA ModSum ==
    ASSUME NEW a \in Int, NEW b \in Int, NEW m \in Nat \ {0}
    PROVE  ((a % m) + b) % m = (a + b) % m
<1>1. PICK q \in Int, r \in 0 .. m - 1 : a = q * m + r /\ a % m = r
  BY QuotientRemainder
<1>2. a + b = (r + b) + q * m /\ r + b \in Int
  BY <1>1
<1>3. ((r + b) + q * m) % m = (r + b) % m
  BY <1>2, ModShift
<1>4. ((a % m) + b) % m = (r + b) % m
  BY <1>1
<1>5. (a + b) % m = ((r + b) + q * m) % m
  BY <1>2
<1> QED BY <1>3, <1>4, <1>5, Zenon

\* A level total may be reduced before or after.
LEMMA LevelSum ==
    \A t, d \in Int : ((t % (MaxLevelQty + 1)) + d) % (MaxLevelQty + 1)
                         = (t + d) % (MaxLevelQty + 1)
<1>1. MaxLevelQty + 1 \in Nat \ {0}
  BY QtyAssumption
<1> QED BY <1>1, ModSum

\* A nonempty set of naturals has a least element.
LEMMA LeastOf ==
    ASSUME NEW T, T \subseteq Nat, T # {}
    PROVE  \E m \in T : \A n \in T : m <= n
<1> DEFINE R == OpToRel(<, Nat)
<1>1. IsWellFoundedOn(R, Nat)
  BY NatLessThanWellFounded
<1>2. PICK m \in T : \A n \in T : <<n, m>> \notin R
  <2> HIDE DEF R
  <2> QED BY <1>1, WFMin
<1>3. ASSUME NEW n \in T PROVE m <= n
  <2>1. <<n, m>> \notin R
    BY <1>2
  <2>2. ~(n < m)
    BY <2>1 DEF OpToRel
  <2> QED BY <2>2
<1> QED BY <1>2, <1>3

-----------------------------------------------------------------------------
(* Totals.                                                                   *)

\* A total is a natural number, and nothing totals nothing.
LEMMA TotalTyped ==
    ASSUME NEW a, IsFiniteSet(a), NEW p
    PROVE  /\ TotalQty(a, p) \in Nat
           /\ IsFiniteSet({u \in a \X (1 .. MaxQty) : u[2] <= p[u[1]].qty})
           /\ a = {} => TotalQty(a, p) = 0
<1> DEFINE U == {u \in a \X (1 .. MaxQty) : u[2] <= p[u[1]].qty}
<1>1. IsFiniteSet(1 .. MaxQty)
  BY FS_Interval, QtyAssumption
<1>2. IsFiniteSet(a \X (1 .. MaxQty))
  BY <1>1, FS_Product
<1>3. IsFiniteSet(U)
  <2>1. U \in SUBSET (a \X (1 .. MaxQty))
    OBVIOUS
  <2> QED BY <1>2, <2>1, FS_Subset
<1>4. Cardinality(U) \in Nat
  BY <1>3, FS_CardinalityType
<1>5. a = {} => U = {}
  OBVIOUS
<1> QED BY <1>3, <1>4, <1>5, FS_EmptySet DEF TotalQty

\* A total depends on the quantities only.
LEMMA TotalSame ==
    ASSUME NEW a, NEW p, NEW q, \A x \in a : p[x].qty = q[x].qty
    PROVE  TotalQty(a, p) = TotalQty(a, q)
<1>1. {u \in a \X (1 .. MaxQty) : u[2] <= p[u[1]].qty}
        = {u \in a \X (1 .. MaxQty) : u[2] <= q[u[1]].qty}
  OBVIOUS
<1> QED BY <1>1 DEF TotalQty

\* An order that joins adds its quantity.
LEMMA TotalPlus ==
    ASSUME NEW a, IsFiniteSet(a), NEW p, NEW x, x \notin a, p[x].qty \in Qty
    PROVE  TotalQty(a \union {x}, p) = TotalQty(a, p) + p[x].qty
<1> DEFINE n == p[x].qty
<1> DEFINE U(b) == {u \in b \X (1 .. MaxQty) : u[2] <= p[u[1]].qty}
           D == {<<x, k>> : k \in 1 .. n}
<1>1. n \in Nat /\ n <= MaxQty /\ 1 .. n \subseteq 1 .. MaxQty
  BY QtyAssumption DEF Qty
<1>2. IsFiniteSet(1 .. n) /\ Cardinality(1 .. n) = n
  <2> HIDE DEF n
  <2>1. IsFiniteSet(1 .. n) /\ Cardinality(1 .. n) = IF 1 > n THEN 0 ELSE n - 1 + 1
    BY <1>1, FS_Interval
  <2> QED BY <1>1, <2>1
<1>3. IsFiniteSet(D) /\ Cardinality(D) = n
  <2> DEFINE f == [k \in 1 .. n |-> <<x, k>>]
  <2>1. f \in Bijection(1 .. n, D)
    BY DEF Bijection, Injection, Surjection, IsInjective
  <2>2. ExistsBijection(1 .. n, D)
    BY <2>1 DEF ExistsBijection
  <2> HIDE DEF D
  <2> QED BY <1>2, <2>2, FS_Bijection
<1>4. U(a \union {x}) = U(a) \union D
  <2>1. ASSUME NEW u \in U(a \union {x}) PROVE u \in U(a) \union D
    <3>1. u[1] \in a \union {x} /\ u[2] \in 1 .. MaxQty /\ u[2] <= p[u[1]].qty
          /\ u = <<u[1], u[2]>>
      OBVIOUS
    <3>2. CASE u[1] \in a
      BY <3>1, <3>2
    <3>3. CASE u[1] = x
      <4>1. u[2] \in 1 .. n
        BY <3>1, <3>3, <1>1
      <4> QED BY <3>1, <3>3, <4>1
    <3> QED BY <3>1, <3>2, <3>3
  <2>2. ASSUME NEW u \in D PROVE u \in U(a \union {x})
    <3>1. PICK k \in 1 .. n : u = <<x, k>>
      OBVIOUS
    <3> QED BY <3>1, <1>1
  <2>3. U(a) \subseteq U(a \union {x})
    OBVIOUS
  <2> QED BY <2>1, <2>2, <2>3
<1>5. U(a) \cap D = {}
  OBVIOUS
<1>6. IsFiniteSet(U(a)) /\ Cardinality(U(a)) \in Nat
  BY TotalTyped DEF TotalQty
<1>7. Cardinality(U(a) \union D)
        = Cardinality(U(a)) + Cardinality(D) - Cardinality(U(a) \cap D)
  <2> HIDE DEF D, U
  <2> QED BY <1>3, <1>6, FS_Union
<1>8. Cardinality(U(a) \union D) = Cardinality(U(a)) + n
  <2> HIDE DEF n, D, U
  <2>1. Cardinality(U(a) \cap D) = 0
    BY <1>5, FS_EmptySet
  <2> QED BY <1>1, <1>3, <1>6, <1>7, <2>1
<1> QED BY <1>4, <1>8 DEF TotalQty

\* An order that leaves takes its quantity along; what it had is no more than
\* the total.
LEMMA TotalMinus ==
    ASSUME NEW a, IsFiniteSet(a), NEW p, NEW x \in a, p[x].qty \in Qty
    PROVE  /\ TotalQty(a, p) = TotalQty(a \ {x}, p) + p[x].qty
           /\ TotalQty(a \ {x}, p) = TotalQty(a, p) - p[x].qty
<1>1. IsFiniteSet(a \ {x})
  BY FS_RemoveElement
<1>2. (a \ {x}) \union {x} = a
  OBVIOUS
<1>3. TotalQty(a, p) = TotalQty(a \ {x}, p) + p[x].qty
  BY <1>1, <1>2, TotalPlus
<1>4. TotalQty(a \ {x}, p) \in Nat
  BY <1>1, TotalTyped
<1>5. p[x].qty \in Nat
  BY QtyAssumption DEF Qty
<1> QED BY <1>3, <1>4, <1>5

-----------------------------------------------------------------------------
(* The FIFO of a level.                                                      *)

\* Sets of slots, and pools restricted to what the lemmas below use.
Slots(a) == a \in SUBSET (Slot \ {NULL})
Records(a, p) == \A x \in a : p[x].qty \in Qty /\ p[x].ts \in Nat

\* There are finitely many slots.
LEMMA SlotsFinite == ASSUME NEW a, Slots(a) PROVE IsFiniteSet(a)
<1>1. IsFiniteSet(Slot)
  BY FS_Interval, PoolAssumption DEF Slot
<1>2. a \in SUBSET Slot
  BY DEF Slots
<1> QED BY <1>1, <1>2, FS_Subset

\* The order before another one is older.
LEMMA Before ==
    ASSUME NEW a, Slots(a), NEW p, NEW v, IsFifo(a, p, v),
           NEW x \in a, x # v.head
    PROVE  LET w == p[x].prev IN
           w \in a /\ w # v.tail /\ p[w].next = x /\ p[w].ts < p[x].ts
<1>1. x # NULL
  BY DEF Slots
<1> QED BY <1>1 DEF IsFifo

\* The order after another one is younger.
LEMMA After ==
    ASSUME NEW a, Slots(a), NEW p, NEW v, IsFifo(a, p, v),
           NEW x \in a, x # v.tail
    PROVE  LET y == p[x].next IN
           y \in a /\ y # v.head /\ p[y].prev = x /\ p[x].ts < p[y].ts
BY DEF IsFifo

\* The head is the oldest order of its level.
LEMMA HeadIsOldest ==
    ASSUME NEW a, Slots(a), NEW p, Records(a, p), NEW v, IsFifo(a, p, v),
           NEW x \in a, x # v.head
    PROVE  p[v.head].ts < p[x].ts
<1> DEFINE T == {p[z].ts : z \in a}
<1>1. T \subseteq Nat /\ T # {}
  BY DEF Records
<1>2. PICK m \in T : \A n \in T : m <= n
  <2> HIDE DEF T
  <2> QED BY <1>1, LeastOf
<1>3. \A z \in a : p[z].ts \in Nat /\ m <= p[z].ts
  BY <1>2 DEF Records
<1>4. \A z \in a : p[z].ts = m => z = v.head
  <2> SUFFICES ASSUME NEW z \in a, p[z].ts = m, z # v.head PROVE FALSE
    OBVIOUS
  <2>1. p[z].prev \in a /\ p[p[z].prev].ts < p[z].ts
    BY Before
  <2> QED BY <1>3, <2>1
<1>5. PICK z \in a : p[z].ts = m
  OBVIOUS
<1>6. z = v.head
  BY <1>4, <1>5
<1> QED BY <1>3, <1>4, <1>5, <1>6

\* A level whose head is its tail holds one order.
LEMMA OneEnd ==
    ASSUME NEW a, Slots(a), NEW p, Records(a, p), NEW v, IsFifo(a, p, v),
           a # {}, v.head = v.tail
    PROVE  a = {v.head}
<1> SUFFICES ASSUME a \ {v.head} # {} PROVE FALSE
  BY DEF IsFifo
<1> DEFINE T == {p[z].ts : z \in a \ {v.head}}
<1>1. T \subseteq Nat /\ T # {}
  BY DEF Records
<1>2. PICK m \in T : \A n \in T : m <= n
  <2> HIDE DEF T
  <2> QED BY <1>1, LeastOf
<1>3. PICK z \in a \ {v.head} : p[z].ts = m
  OBVIOUS
<1>4. p[z].prev \in a /\ p[z].prev # v.tail /\ p[p[z].prev].ts < p[z].ts
  BY Before
<1>5. p[p[z].prev].ts \in T
  BY <1>4
<1>6. m <= p[p[z].prev].ts
  BY <1>2, <1>5
<1>7. p[z].ts \in Nat /\ p[p[z].prev].ts \in Nat
  BY <1>1, <1>5
<1> QED BY <1>3, <1>4, <1>6, <1>7

\* A level's FIFO is a matter of its own orders only.
LEMMA FifoSame ==
    ASSUME NEW a, NEW p, NEW q, NEW v, IsFifo(a, p, v), \A x \in a : q[x] = p[x]
    PROVE  IsFifo(a, q, v)
<1>1. TotalQty(a, q) = TotalQty(a, p)
  BY TotalSame
<1>2. ASSUME NEW x \in a
      PROVE  /\ q[x].qty > 0
             /\ IF x = v.tail
                  THEN q[x].next = NULL
                  ELSE LET y == q[x].next IN
                       y \in a \ {v.head} /\ q[y].prev = x /\ q[x].ts < q[y].ts
             /\ x # v.head => LET w == q[x].prev IN w \in a /\ q[w].next = x
  BY DEF IsFifo
<1> QED BY <1>1, <1>2 DEF IsFifo

\* An empty level.
LEMMA FifoEmpty ==
    ASSUME NEW p, NEW v
    PROVE  IsFifo({}, p, v) <=> v.head = NULL /\ v.tail = NULL /\ v.qty = 0
<1>1. TotalQty({}, p) = 0
  BY TotalTyped, FS_EmptySet
<1>2. 0 % (MaxLevelQty + 1) = 0
  BY QtyAssumption
<1> QED BY <1>1, <1>2 DEF IsFifo

\* q and u are pool and record of the level once x holds the quantity n.
Requantifies(a, p, v, x, n, q, u) ==
    /\ \A z \in a : /\ q[z].next = p[z].next /\ q[z].prev = p[z].prev
                    /\ q[z].ts = p[z].ts
                    /\ q[z].qty = IF z = x THEN n ELSE p[z].qty
    /\ u.head = v.head /\ u.tail = v.tail
    /\ u.qty = (TotalQty(a, p) + (n - p[x].qty)) % (MaxLevelQty + 1)

\* Another quantity for one order.
LEMMA FifoRequantified ==
    ASSUME NEW a, Slots(a), NEW p, Records(a, p), NEW v, IsFifo(a, p, v),
           NEW x \in a, NEW n \in Qty, n > 0,
           NEW q, NEW u, Requantifies(a, p, v, x, n, q, u)
    PROVE  IsFifo(a, q, u)
<1>1. IsFiniteSet(a)
  BY SlotsFinite
<1>2. TotalQty(a, p) = TotalQty(a \ {x}, p) + p[x].qty
  BY <1>1, TotalMinus DEF Records
<1>3. TotalQty(a, q) = TotalQty(a \ {x}, q) + n
  BY <1>1, TotalMinus DEF Requantifies
<1>4. TotalQty(a \ {x}, q) = TotalQty(a \ {x}, p)
  BY TotalSame DEF Requantifies
<1>5. TotalQty(a \ {x}, p) \in Nat
  BY <1>1, FS_RemoveElement, TotalTyped
<1>6. p[x].qty \in Int /\ n \in Int
  BY QtyAssumption DEF Qty, Records
<1>7. TotalQty(a, q) = TotalQty(a, p) + (n - p[x].qty)
  BY <1>2, <1>3, <1>4, <1>5, <1>6
<1>8. ASSUME NEW z \in a
      PROVE  /\ q[z].qty > 0
             /\ IF z = u.tail
                  THEN q[z].next = NULL
                  ELSE LET y == q[z].next IN
                       y \in a \ {u.head} /\ q[y].prev = z /\ q[z].ts < q[y].ts
             /\ z # u.head => LET k == q[z].prev IN k \in a /\ q[k].next = z
  BY DEF IsFifo, Requantifies
<1> QED BY <1>7, <1>8 DEF IsFifo, Requantifies

\* q and u are pool and record of the level once x is taken out of it.
Unlinks(a, p, v, x, q, u) ==
    LET y == p[x].next
        w == p[x].prev
    IN
    /\ \A z \in a \ {x} :
         /\ q[z].qty = p[z].qty /\ q[z].ts = p[z].ts
         /\ q[z].next = IF x # v.head /\ z = w THEN y ELSE p[z].next
         /\ z # v.head /\ (z = y => x # v.head) =>
              q[z].prev = IF z = y THEN w ELSE p[z].prev
    /\ u.head = IF x = v.head THEN y ELSE v.head
    /\ u.tail = IF x # v.tail THEN v.tail ELSE IF x = v.head THEN NULL ELSE w
    /\ u.qty = LevelMinus(v.qty, p[x].qty)

\* An order leaves its level: the links around it are joined.
LEMMA FifoWithout ==
    ASSUME NEW a, Slots(a), NEW p, Records(a, p), NEW v, IsFifo(a, p, v),
           NEW x \in a, NEW q, NEW u, Unlinks(a, p, v, x, q, u)
    PROVE  IsFifo(a \ {x}, q, u)
<1> DEFINE y == p[x].next
           w == p[x].prev
<1>0. /\ \A z \in a \ {x} :
           /\ q[z].qty = p[z].qty /\ q[z].ts = p[z].ts
           /\ q[z].next = IF x # v.head /\ z = w THEN y ELSE p[z].next
           /\ z # v.head /\ (z = y => x # v.head) =>
                q[z].prev = IF z = y THEN w ELSE p[z].prev
      /\ u.head = IF x = v.head THEN y ELSE v.head
      /\ u.tail = IF x # v.tail THEN v.tail ELSE IF x = v.head THEN NULL ELSE w
      /\ u.qty = LevelMinus(v.qty, p[x].qty)
  BY DEF Unlinks
<1> DEFINE b == a \ {x}
<1>1. IsFiniteSet(a) /\ IsFiniteSet(b) /\ \A z \in a : z # NULL
  BY SlotsFinite, FS_RemoveElement DEF Slots
<1>2. \A z \in a : p[z].ts \in Int
  BY DEF Records
<1>3. /\ v.head \in a /\ v.tail \in a
      /\ x # v.tail => y \in b /\ y # v.head /\ p[y].prev = x /\ p[x].ts < p[y].ts
      /\ x = v.tail => y = NULL
      /\ x # v.head => w \in b /\ w # v.tail /\ p[w].next = x /\ p[w].ts < p[x].ts
  <2>1. v.head \in a /\ v.tail \in a /\ (x = v.tail => y = NULL)
    BY DEF IsFifo
  <2> QED BY <1>2, <2>1, Before, After
<1>4. u.qty = TotalQty(b, q) % (MaxLevelQty + 1)
  <2> DEFINE t == TotalQty(a, p)
             d == -p[x].qty
  <2>1. TotalQty(b, p) = t - p[x].qty /\ p[x].qty \in Int /\ d \in Int
    <3>1. p[x].qty \in Int
      BY QtyAssumption DEF Qty, Records
    <3> QED BY <1>1, <3>1, TotalMinus DEF Records
  <2>2. TotalQty(b, q) = TotalQty(b, p)
    BY <1>0, TotalSame
  <2>3. t \in Nat
    BY <1>1, TotalTyped
  <2>4. v.qty = t % (MaxLevelQty + 1)
    BY DEF IsFifo
  <2>5. (v.qty + d) % (MaxLevelQty + 1) = (t + d) % (MaxLevelQty + 1)
    <3> HIDE DEF t, d
    <3> QED BY <2>1, <2>3, <2>4, LevelSum
  <2>6. u.qty = (v.qty + d) % (MaxLevelQty + 1)
    <3>1. v.qty \in Int
      BY <2>3, <2>4, QtyAssumption
    <3>2. v.qty - p[x].qty = v.qty + d
      BY <2>1, <3>1
    <3> QED BY <1>0, <3>2 DEF LevelMinus
  <2>7. TotalQty(b, q) = t + d
    <3> HIDE DEF t
    <3> QED BY <2>1, <2>2, <2>3
  <2> QED BY <2>5, <2>6, <2>7
<1>5. CASE v.head = v.tail
  <2>1. a = {v.head} /\ x = v.head
    BY <1>5, OneEnd
  <2>2. b = {} /\ u.head = NULL /\ u.tail = NULL
    BY <1>0, <1>3, <1>5, <2>1
  <2> QED BY <1>4, <2>2 DEF IsFifo
<1>6. CASE v.head # v.tail
  <2>1. u.head \in b /\ u.tail \in b
    BY <1>0, <1>3, <1>6
  <2>2. ASSUME NEW z \in b, z = u.tail PROVE q[z].next = NULL
    <3>1. x # v.tail => p[z].next = NULL
      BY <1>0, <2>2 DEF IsFifo
    <3> QED BY <1>0, <1>1, <1>3, <2>2, <3>1, <1>6
  <2>3. ASSUME NEW z \in b, z # u.tail, NEW n, n = q[z].next
        PROVE  n \in b \ {u.head} /\ q[n].prev = z /\ q[z].ts < q[n].ts
    <3>1. CASE x # v.head /\ z = w
      BY <1>0, <1>2, <1>3, <2>3, <3>1
    <3>2. CASE ~(x # v.head /\ z = w)
      <4>1. n = p[z].next /\ z # v.tail
        BY <1>0, <1>3, <1>6, <2>3, <3>2
      <4>2. n \in a /\ n # v.head /\ p[n].prev = z /\ p[z].ts < p[n].ts
        BY <4>1, After
      <4>3. n # x
        BY <3>2, <4>2
      <4>4. n # y
        BY <1>1, <1>3, <4>2
      <4> QED BY <1>0, <4>2, <4>3, <4>4, <2>3
    <3> QED BY <3>1, <3>2
  <2>4. ASSUME NEW z \in b, z # u.head, NEW n, n = q[z].prev
        PROVE  n \in b /\ q[n].next = z
    <3>1. CASE z = y
      BY <1>0, <1>3, <2>4, <3>1
    <3>2. CASE z # y
      <4>1. z # v.head
        BY <1>0, <2>4
      <4>2. n = p[z].prev
        BY <1>0, <2>4, <3>2, <4>1
      <4>3. n \in a /\ p[n].next = z
        BY <4>1, <4>2, Before
      <4>4. n # x
        BY <3>2, <4>3
      <4> QED BY <1>0, <1>3, <4>3, <4>4
    <3> QED BY <3>1, <3>2
  <2>5. \A z \in b : q[z].qty > 0
    BY <1>0 DEF IsFifo
  <2> QED BY <1>4, <2>1, <2>2, <2>3, <2>4, <2>5 DEF IsFifo
<1> QED BY <1>5, <1>6

\* q and u are pool and record of the level once x is linked behind its tail.
Links(a, p, v, x, q, u) ==
    /\ \A z \in a :
         /\ q[z].qty = p[z].qty /\ q[z].ts = p[z].ts /\ q[z].prev = p[z].prev
         /\ q[z].next = IF z = v.tail THEN x ELSE p[z].next
         /\ p[z].ts < q[x].ts
    /\ q[x].qty \in Qty /\ q[x].qty > 0 /\ q[x].next = NULL
    /\ a # {} => q[x].prev = v.tail
    /\ u.head = IF a = {} THEN x ELSE v.head
    /\ u.tail = x
    /\ u.qty = LevelPlus(v.qty, q[x].qty)

\* An order joins its level behind the tail.
LEMMA FifoWith ==
    ASSUME NEW a, Slots(a), NEW p, Records(a, p), NEW v, IsFifo(a, p, v),
           NEW x \in Slot \ {NULL}, x \notin a,
           NEW q, NEW u, Links(a, p, v, x, q, u)
    PROVE  IsFifo(a \union {x}, q, u)
<1> DEFINE b == a \union {x}
<1>1. IsFiniteSet(a) /\ \A z \in a : z # NULL
  BY SlotsFinite DEF Slots
<1>2. u.qty = TotalQty(b, q) % (MaxLevelQty + 1)
  <2>1. TotalQty(b, q) = TotalQty(a, q) + q[x].qty
    BY <1>1, TotalPlus DEF Links
  <2>2. TotalQty(a, q) = TotalQty(a, p) /\ TotalQty(a, p) \in Nat
    <3>1. TotalQty(a, q) = TotalQty(a, p)
      BY TotalSame DEF Links
    <3>2. TotalQty(a, p) \in Nat
      BY <1>1, TotalTyped
    <3> QED BY <3>1, <3>2
  <2>3. q[x].qty \in Int
    BY QtyAssumption DEF Qty, Links
  <2>4. v.qty = TotalQty(a, p) % (MaxLevelQty + 1)
    BY DEF IsFifo
  <2>5. (v.qty + q[x].qty) % (MaxLevelQty + 1)
          = (TotalQty(a, p) + q[x].qty) % (MaxLevelQty + 1)
    <3> DEFINE t == TotalQty(a, p)
               d == q[x].qty
    <3>1. t \in Int /\ d \in Int /\ v.qty = t % (MaxLevelQty + 1)
      BY <2>2, <2>3, <2>4
    <3> HIDE DEF t, d
    <3>2. (v.qty + d) % (MaxLevelQty + 1) = (t + d) % (MaxLevelQty + 1)
      BY <3>1, LevelSum
    <3> QED BY <3>2 DEF t, d
  <2> QED BY <2>1, <2>2, <2>5 DEF LevelPlus, Links
<1>3. u.head \in b /\ u.tail \in b
  BY DEF IsFifo, Links
<1>4. ASSUME NEW z \in b
      PROVE  /\ q[z].qty > 0
             /\ z = u.tail => q[z].next = NULL
             /\ z # u.tail => LET n == q[z].next IN
                  n \in b \ {u.head} /\ q[n].prev = z /\ q[z].ts < q[n].ts
             /\ z # u.head => LET n == q[z].prev IN n \in b /\ q[n].next = z
  <2>1. CASE z = x
    <3>1. a # {} => v.tail \in a
      BY DEF IsFifo
    <3> QED BY <2>1, <3>1 DEF Links
  <2>2. CASE z \in a
    <3>1. z # x /\ a # {}
      BY <2>2
    <3>2. q[z].qty > 0
      BY <2>2 DEF IsFifo, Links
    <3>3. LET n == q[z].next IN
            n \in b \ {u.head} /\ q[n].prev = z /\ q[z].ts < q[n].ts
      <4>1. CASE z = v.tail
        <5>1. v.head \in a
          BY <3>1 DEF IsFifo
        <5> QED BY <2>2, <3>1, <4>1, <5>1 DEF Links
      <4>2. CASE z # v.tail
        BY <2>2, <3>1, <4>2, After DEF Links
      <4> QED BY <4>1, <4>2
    <3>4. z # u.head => LET n == q[z].prev IN n \in b /\ q[n].next = z
      BY <2>2, <3>1, Before DEF Links
    <3> QED BY <3>1, <3>2, <3>3, <3>4 DEF Links
  <2> QED BY <2>1, <2>2
<1> QED BY <1>2, <1>3, <1>4 DEF IsFifo

-----------------------------------------------------------------------------
(* The FIFOs of all levels.                                                  *)

Pools == [Slot -> OrderRec]
Tables == [Side -> [Level -> LevelRec]]

\* What the lemmas about one level ask of its slots.
LEMMA LevelSlots ==
    ASSUME NEW r, Slots(r), NEW p \in Pools, NEW s, NEW l
    PROVE  Slots(SlotsAt(r, p, s, l)) /\ Records(SlotsAt(r, p, s, l), p)
BY DEF Slots, Records, SlotsAt, Pools, OrderRec

\* A pool that has the same records for the linked slots.
LEMMA FifosSame ==
    ASSUME NEW r, NEW p, NEW t, AreFifos(r, p, t), NEW q, \A x \in r : q[x] = p[x]
    PROVE  AreFifos(r, q, t)
<1> SUFFICES ASSUME NEW s \in Side, NEW l \in Level
             PROVE  IsFifo(SlotsAt(r, q, s, l), q, t[s][l])
  BY DEF AreFifos
<1>1. SlotsAt(r, q, s, l) = SlotsAt(r, p, s, l)
  BY DEF SlotsAt
<1>2. IsFifo(SlotsAt(r, p, s, l), p, t[s][l])
  BY DEF AreFifos
<1>3. \A x \in SlotsAt(r, p, s, l) : q[x] = p[x]
  BY DEF SlotsAt
<1> QED BY <1>1, <1>2, <1>3, FifoSame

\* One level changes.
LEMMA FifosUpdated ==
    ASSUME NEW r, NEW p, NEW t \in Tables, AreFifos(r, p, t),
           NEW s \in Side, NEW l \in Level, NEW r2, NEW q, NEW u,
           IsFifo(SlotsAt(r2, q, s, l), q, u),
           \A z \in r2 : ~(q[z].side = s /\ q[z].price = l) => z \in r /\ q[z] = p[z],
           \A z \in r : ~(p[z].side = s /\ p[z].price = l) => z \in r2 /\ q[z] = p[z]
    PROVE  AreFifos(r2, q, [t EXCEPT ![s][l] = u])
<1> SUFFICES ASSUME NEW s1 \in Side, NEW l1 \in Level
             PROVE  IsFifo(SlotsAt(r2, q, s1, l1), q, [t EXCEPT ![s][l] = u][s1][l1])
  BY DEF AreFifos
<1>1. CASE s1 = s /\ l1 = l
  <2>1. [t EXCEPT ![s][l] = u][s1][l1] = u
    BY <1>1 DEF Tables
  <2> QED BY <1>1, <2>1
<1>2. CASE ~(s1 = s /\ l1 = l)
  <2>1. [t EXCEPT ![s][l] = u][s1][l1] = t[s1][l1]
    BY <1>2 DEF Tables
  <2>2. SlotsAt(r2, q, s1, l1) = SlotsAt(r, p, s1, l1)
    BY <1>2 DEF SlotsAt
  <2>3. \A x \in SlotsAt(r, p, s1, l1) : q[x] = p[x]
    BY <1>2 DEF SlotsAt
  <2>4. IsFifo(SlotsAt(r, p, s1, l1), p, t[s1][l1])
    BY DEF AreFifos
  <2> QED BY <2>1, <2>2, <2>3, <2>4, FifoSame
<1> QED BY <1>1, <1>2

\* q and u are the pool and the record of x's level once x is taken out of it.
Removes(r, p, t, x, q, u) ==
    LET v == t[p[x].side][p[x].price]
        y == p[x].next
        w == p[x].prev
    IN
    /\ \A z \in r \ {x} :
         /\ x # v.head /\ z = w => q[z] = [p[z] EXCEPT !.next = y]
         /\ z = y => \/ q[z] = [p[z] EXCEPT !.prev = w]
                     \/ x = v.head /\ q[z] = p[z]
         /\ (x = v.head \/ z # w) /\ z # y => q[z] = p[z]
    /\ u.head = IF x = v.head THEN y ELSE v.head
    /\ u.tail = IF x # v.tail THEN v.tail ELSE IF x = v.head THEN NULL ELSE w
    /\ u.qty = LevelMinus(v.qty, p[x].qty)

\* An order leaves its level.
LEMMA FifosWithout ==
    ASSUME NEW r, Slots(r), NEW p \in Pools, NEW t \in Tables, AreFifos(r, p, t),
           NEW x \in r, NEW q, NEW u, Removes(r, p, t, x, q, u)
    PROVE  AreFifos(r \ {x}, q, [t EXCEPT ![p[x].side][p[x].price] = u])
<1> DEFINE s == p[x].side
           l == p[x].price
           a == SlotsAt(r, p, s, l)
           b == SlotsAt(r \ {x}, q, s, l)
           v == t[s][l]
           y == p[x].next
           w == p[x].prev
<1>1. x \in Slot /\ p[x] \in OrderRec /\ s \in Side /\ l \in Level
  BY DEF Slots, Pools, OrderRec
<1>2. x \in a /\ Slots(a) /\ Records(a, p) /\ IsFifo(a, p, v)
  <2>1. x \in a
    BY DEF SlotsAt
  <2> QED BY <1>1, <2>1, LevelSlots DEF AreFifos
<1>3. \A z \in r : z \in Slot /\ z # NULL /\ p[z] \in OrderRec
  BY DEF Slots, Pools
<1>4. /\ x # v.tail => y \in a /\ y # x /\ p[y].prev = x
      /\ x = v.tail => y = NULL
      /\ x # v.head => w \in a /\ w # x /\ p[w].next = x
  <2>1. x = v.tail => y = NULL
    BY <1>2 DEF IsFifo
  <2>2. x # v.tail => y \in a /\ y # v.head /\ p[y].prev = x /\ p[x].ts < p[y].ts
    BY <1>2, After
  <2>3. x # v.head => w \in a /\ w # v.tail /\ p[w].next = x /\ p[w].ts < p[x].ts
    BY <1>2, Before
  <2>4. p[x].ts \in Nat
    BY <1>1 DEF OrderRec
  <2> QED BY <2>1, <2>2, <2>3, <2>4
<1>5. \A z \in r \ {x} :
        /\ q[z].side = p[z].side /\ q[z].price = p[z].price
        /\ q[z].qty = p[z].qty /\ q[z].ts = p[z].ts
        /\ ~(p[z].side = s /\ p[z].price = l) => q[z] = p[z]
  <2> SUFFICES ASSUME NEW z \in r \ {x}
               PROVE  /\ q[z].side = p[z].side /\ q[z].price = p[z].price
                      /\ q[z].qty = p[z].qty /\ q[z].ts = p[z].ts
                      /\ ~(p[z].side = s /\ p[z].price = l) => q[z] = p[z]
    OBVIOUS
  <2>1. CASE x # v.head /\ z = w
    <3>1. q[z] = [p[z] EXCEPT !.next = y] /\ z \in a
      BY <1>4, <2>1 DEF Removes
    <3> QED BY <1>3, <3>1 DEF OrderRec, SlotsAt
  <2>2. CASE z = y
    <3>1. q[z] = [p[z] EXCEPT !.prev = w] \/ q[z] = p[z]
      BY <2>2 DEF Removes
    <3>2. z \in a
      BY <1>3, <1>4, <2>2
    <3> QED BY <1>3, <3>1, <3>2 DEF OrderRec, SlotsAt
  <2>3. CASE (x = v.head \/ z # w) /\ z # y
    BY <2>3 DEF Removes
  <2> QED BY <2>1, <2>2, <2>3
<1>6. b = a \ {x}
  BY <1>5 DEF SlotsAt
<1>7. \A z \in a \ {x} :
        /\ q[z].qty = p[z].qty /\ q[z].ts = p[z].ts
        /\ q[z].next = IF x # v.head /\ z = w THEN y ELSE p[z].next
        /\ z # v.head /\ (z = y => x # v.head) =>
             q[z].prev = IF z = y THEN w ELSE p[z].prev
  <2> SUFFICES ASSUME NEW z \in a \ {x}
               PROVE  /\ q[z].next = IF x # v.head /\ z = w THEN y ELSE p[z].next
                      /\ z # v.head /\ (z = y => x # v.head) =>
                           q[z].prev = IF z = y THEN w ELSE p[z].prev
    BY <1>5 DEF SlotsAt
  <2>1. z \in r \ {x} /\ p[z] \in OrderRec
    BY <1>3 DEF SlotsAt
  <2>2. CASE x # v.head /\ z = w
    <3>1. q[z] = [p[z] EXCEPT !.next = y]
      BY <2>1, <2>2 DEF Removes
    <3>2. z # y
      <4>1. w \in a /\ p[w].ts < p[x].ts
        BY <1>2, <2>2, Before
      <4>2. x # v.tail => p[x].ts < p[y].ts
        BY <1>2, After
      <4>3. x = v.tail => z # y
        BY <1>3, <1>4, <2>1
      <4>4. p[x].ts \in Nat /\ p[z].ts \in Nat
        BY <1>1, <2>1 DEF OrderRec
      <4> QED BY <2>2, <4>1, <4>2, <4>3, <4>4
    <3> QED BY <2>1, <2>2, <3>1, <3>2 DEF OrderRec
  <2>3. CASE z = y /\ ~(x # v.head /\ z = w)
    <3>1. q[z] = [p[z] EXCEPT !.prev = w] \/ (x = v.head /\ q[z] = p[z])
      BY <2>1, <2>3 DEF Removes
    <3> QED BY <2>1, <2>3, <3>1 DEF OrderRec
  <2>4. CASE z # y /\ ~(x # v.head /\ z = w)
    BY <2>1, <2>4 DEF Removes
  <2> QED BY <2>2, <2>3, <2>4
<1>8. IsFifo(b, q, u)
  <2>1. Unlinks(a, p, v, x, q, u)
    BY <1>7 DEF Unlinks, Removes
  <2> HIDE DEF a, b, v
  <2>2. IsFifo(a \ {x}, q, u)
    BY <1>2, <2>1, FifoWithout
  <2> QED BY <1>6, <2>2
<1> HIDE DEF s, l, a, v, y, w
<1>9. IsFifo(SlotsAt(r \ {x}, q, s, l), q, u)
  BY <1>8
<1>10. /\ \A z \in r \ {x} : ~(q[z].side = s /\ q[z].price = l) => z \in r /\ q[z] = p[z]
       /\ \A z \in r : ~(p[z].side = s /\ p[z].price = l) => z \in r \ {x} /\ q[z] = p[z]
  BY <1>5 DEF s, l
<1>11. AreFifos(r \ {x}, q, [t EXCEPT ![s][l] = u])
  BY <1>1, <1>9, <1>10, FifosUpdated
<1> QED BY <1>11 DEF s, l

\* q and u are the pool and the record of x's level once x is linked at its tail.
Adds(r, p, t, x, q, u) ==
    LET v == t[q[x].side][q[x].price] IN
    /\ q[x] \in OrderRec /\ q[x].qty > 0 /\ q[x].next = NULL
    /\ v.head # NULL => q[x].prev = v.tail
    /\ \A z \in r :
         /\ p[z].ts < q[x].ts
         /\ q[z] = IF z = v.tail THEN [p[z] EXCEPT !.next = x] ELSE p[z]
    /\ u.head = IF v.head = NULL THEN x ELSE v.head
    /\ u.tail = x
    /\ u.qty = LevelPlus(v.qty, q[x].qty)

\* An order joins a level.
LEMMA FifosWith ==
    ASSUME NEW r, Slots(r), NEW p \in Pools, NEW t \in Tables, AreFifos(r, p, t),
           NEW x \in Slot \ {NULL}, x \notin r,
           NEW q, NEW u, Adds(r, p, t, x, q, u)
    PROVE  AreFifos(r \union {x}, q, [t EXCEPT ![q[x].side][q[x].price] = u])
<1> DEFINE s == q[x].side
           l == q[x].price
           a == SlotsAt(r, p, s, l)
           b == SlotsAt(r \union {x}, q, s, l)
           v == t[s][l]
<1>1. s \in Side /\ l \in Level /\ q[x].qty \in Qty
  BY DEF Adds, OrderRec
<1>2. Slots(a) /\ Records(a, p) /\ IsFifo(a, p, v)
  BY <1>1, LevelSlots DEF AreFifos
<1>3. \A z \in r : z \in Slot /\ z # NULL /\ p[z] \in OrderRec
  BY DEF Slots, Pools
<1>4. (a = {} <=> v.head = NULL) /\ (a = {} => v.tail = NULL) /\ (a # {} => v.tail \in a)
  BY <1>2 DEF IsFifo, Slots
<1>5. \A z \in r :
        /\ q[z].side = p[z].side /\ q[z].price = p[z].price
        /\ q[z].qty = p[z].qty /\ q[z].ts = p[z].ts /\ q[z].prev = p[z].prev
        /\ q[z].next = IF z = v.tail THEN x ELSE p[z].next
        /\ ~(p[z].side = s /\ p[z].price = l) => q[z] = p[z]
  <2> SUFFICES ASSUME NEW z \in r
               PROVE  /\ q[z].side = p[z].side /\ q[z].price = p[z].price
                      /\ q[z].qty = p[z].qty /\ q[z].ts = p[z].ts
                      /\ q[z].prev = p[z].prev
                      /\ q[z].next = IF z = v.tail THEN x ELSE p[z].next
                      /\ ~(p[z].side = s /\ p[z].price = l) => q[z] = p[z]
    OBVIOUS
  <2>1. CASE z = v.tail
    <3>1. z \in a
      BY <1>3, <1>4, <2>1
    <3>2. q[z] = [p[z] EXCEPT !.next = x]
      BY <2>1 DEF Adds
    <3> QED BY <1>3, <2>1, <3>1, <3>2 DEF OrderRec, SlotsAt
  <2>2. CASE z # v.tail
    BY <2>2 DEF Adds
  <2> QED BY <2>1, <2>2
<1>6. b = a \union {x} /\ x \notin a
  BY <1>5 DEF SlotsAt
<1>7. IsFifo(b, q, u)
  <2>1. Links(a, p, v, x, q, u)
    <3>1. \A z \in a : z \in r
      BY DEF SlotsAt
    <3> QED BY <1>1, <1>4, <1>5, <3>1 DEF Links, Adds
  <2> HIDE DEF a, b, v
  <2>2. IsFifo(a \union {x}, q, u)
    BY <1>2, <1>6, <2>1, FifoWith
  <2> QED BY <1>6, <2>2
<1> HIDE DEF s, l, a, v
<1>8. IsFifo(SlotsAt(r \union {x}, q, s, l), q, u)
  BY <1>7
<1>9. /\ \A z \in r \union {x} : ~(q[z].side = s /\ q[z].price = l) => z \in r /\ q[z] = p[z]
      /\ \A z \in r : ~(p[z].side = s /\ p[z].price = l) => z \in r \union {x} /\ q[z] = p[z]
  BY <1>5 DEF s, l
<1>10. AreFifos(r \union {x}, q, [t EXCEPT ![s][l] = u])
  BY <1>1, <1>8, <1>9, FifosUpdated
<1> QED BY <1>10 DEF s, l

\* q and u are the pool and the record of x's level once x holds n.
Resizes(r, p, t, x, n, q, u) ==
    LET v == t[p[x].side][p[x].price] IN
    /\ \A z \in r : q[z] = IF z = x THEN [p[z] EXCEPT !.qty = n] ELSE p[z]
    /\ u.head = v.head /\ u.tail = v.tail
    /\ u.qty = LevelMinus(v.qty + n, p[x].qty)

\* An order gets another quantity.
LEMMA FifosResized ==
    ASSUME NEW r, Slots(r), NEW p \in Pools, NEW t \in Tables, AreFifos(r, p, t),
           NEW x \in r, NEW n \in Qty, n > 0,
           NEW q, NEW u, Resizes(r, p, t, x, n, q, u)
    PROVE  AreFifos(r, q, [t EXCEPT ![p[x].side][p[x].price] = u])
<1> DEFINE s == p[x].side
           l == p[x].price
           a == SlotsAt(r, p, s, l)
           v == t[s][l]
           d == n - p[x].qty
<1>1. p[x] \in OrderRec /\ s \in Side /\ l \in Level /\ n \in Int /\ d \in Int
      /\ p[x].qty \in Int
  BY QtyAssumption DEF Slots, Pools, OrderRec, Qty
<1>2. x \in a /\ Slots(a) /\ Records(a, p) /\ IsFifo(a, p, v)
  <2>1. x \in a
    BY DEF SlotsAt
  <2> QED BY <1>1, <2>1, LevelSlots DEF AreFifos
<1>3. \A z \in r : z \in Slot /\ z # NULL /\ p[z] \in OrderRec
  BY DEF Slots, Pools
<1>4. \A z \in r :
        /\ q[z].side = p[z].side /\ q[z].price = p[z].price
        /\ q[z].next = p[z].next /\ q[z].prev = p[z].prev /\ q[z].ts = p[z].ts
        /\ q[z].qty = IF z = x THEN n ELSE p[z].qty
        /\ z # x => q[z] = p[z]
  BY <1>3 DEF Resizes, OrderRec
<1>5. SlotsAt(r, q, s, l) = a
  BY <1>4 DEF SlotsAt
<1>6. u.qty = (TotalQty(a, p) + d) % (MaxLevelQty + 1)
  <2> DEFINE k == TotalQty(a, p)
  <2>1. k \in Int
    <3>1. IsFiniteSet(a)
      BY <1>2, SlotsFinite
    <3>2. k \in Nat
      BY <3>1, TotalTyped
    <3> QED BY <3>2
  <2>2. v.qty = k % (MaxLevelQty + 1)
    BY <1>2 DEF IsFifo
  <2>3. v.qty \in Int
    BY <2>1, <2>2, QtyAssumption
  <2>4. u.qty = (v.qty + d) % (MaxLevelQty + 1)
    <3>1. (v.qty + n) - p[x].qty = v.qty + d
      BY <1>1, <2>3
    <3> QED BY <3>1 DEF Resizes, LevelMinus
  <2> HIDE DEF k, d, v
  <2>5. ((k % (MaxLevelQty + 1)) + d) % (MaxLevelQty + 1) = (k + d) % (MaxLevelQty + 1)
    BY <1>1, <2>1, LevelSum
  <2> QED BY <2>2, <2>4, <2>5 DEF k
<1>7. Requantifies(a, p, v, x, n, q, u)
  <2>1. u.head = v.head /\ u.tail = v.tail
    BY DEF Resizes
  <2>2. \A z \in a : z \in r
    BY DEF SlotsAt
  <2> QED BY <1>4, <1>6, <2>1, <2>2 DEF Requantifies
<1> HIDE DEF s, l, a, v
<1>8. IsFifo(SlotsAt(r, q, s, l), q, u)
  BY <1>2, <1>5, <1>7, FifoRequantified
<1>9. /\ \A z \in r : ~(q[z].side = s /\ q[z].price = l) => z \in r /\ q[z] = p[z]
      /\ \A z \in r : ~(p[z].side = s /\ p[z].price = l) => z \in r /\ q[z] = p[z]
  BY <1>4 DEF s, l
<1>10. AreFifos(r, q, [t EXCEPT ![s][l] = u])
  BY <1>1, <1>8, <1>9, FifosUpdated
<1> QED BY <1>10 DEF s, l

Encoder == INSTANCE BestPriceEncoderProofs

USE NumLevelsAssumption, PoolAssumption, IdsAssumption, QtyAssumption
    DEF Level, Side, Slot, NULL, Bpe!Level, Bpe!Side, Mem!Slot, Mem!NULL

-----------------------------------------------------------------------------
(* Types.                                                                    *)

\* The remainder of a division by a positive number.
LEMMA ModTyped == \A a \in Int, n \in Nat : a % (n + 1) \in 0 .. n
OBVIOUS

\* Register arithmetic stays within the register.
LEMMA ArithTyped ==
    /\ \A a, b \in Qty : QtyMinus(a, b) \in Qty
    /\ \A t \in LevelQty \union Qty, q \in Qty :
          LevelPlus(t, q) \in LevelQty /\ LevelMinus(t, q) \in LevelQty
BY ModTyped DEF Qty, LevelQty, QtyMinus, LevelPlus, LevelMinus

\* The completion pulses are pulses.
LEMMA RespTyped ==
    /\ NoResp \in Resp /\ MovedResp \in Resp
    /\ \A st \in AckStatus : EnqResp(st) \in Resp
    /\ \A q \in Qty : QueryResp(q) \in Resp /\ MatchResp(q) \in Resp
    /\ \A st \in AckStatus, q \in Qty : AckResp(st, q) \in Resp
BY DEF Resp

\* The all-zero records are records.
LEMMA ZeroTyped ==
    /\ ZeroRec \in OrderRec /\ ZeroLevel \in LevelRec
    /\ ZeroRegs \in MgrRegs /\ ZeroMatRegs \in MatRegs
<1>1. 0 \in Qty /\ 0 \in LevelQty /\ 0 \in Level /\ 0 \in Slot
  BY DEF Qty, LevelQty
<1>2. ZeroRec \in OrderRec /\ ZeroLevel \in LevelRec
  BY <1>1 DEF ZeroRec, OrderRec, ZeroLevel, LevelRec
<1> QED BY <1>1, <1>2 DEF ZeroRegs, MgrRegs, ZeroMatRegs, MatRegs, MgrOp

\* The engine starts well typed.
LEMMA TypeInit == Init => TypeOK
<1> SUFFICES ASSUME Init PROVE TypeOK
  OBVIOUS
<1>1. pool \in [Slot -> OrderRec] /\ free \in Seq(Slot) /\ initCnt \in 1 .. MaxOrders
  BY ZeroTyped DEF Init, Mem!Init, Mem!Slot
<1>2. Bpe!TypeOK
  BY DEF Init, Bpe!TypeOK, Bpe!ResetRegs, Bpe!BestRec
<1> QED BY <1>1, <1>2, ZeroTyped, RespTyped, BoundAssumption
    DEF Init, TypeOK, MemoryTypeOK, ManagerTypeOK, MatcherTypeOK, ControlTypeOK,
        MgrState, MatState, CtlState, ZeroAck, AckRec, AckStatus, Qty

\* The engine's encoder is the encoder that the proofs are about.
LEMMA EncoderSame ==
    /\ Bpe!Init => Encoder!Init
    /\ [Bpe!Next]_(Bpe!vars) => [Encoder!Next]_(Encoder!vars)
BY DEF Encoder!Init, Bpe!Init, Encoder!Next, Bpe!Next, Encoder!vars, Bpe!vars,
   Encoder!NextEdge, Bpe!NextEdge, Encoder!InitEdge, Bpe!InitEdge,
   Encoder!IdleEdge, Bpe!IdleEdge, Encoder!SetLevel, Bpe!SetLevel,
   Encoder!ClearLevel, Bpe!ClearLevel, Encoder!Reset, Bpe!Reset, Encoder!Edge,
   Bpe!Edge, Encoder!NextOcc, Bpe!NextOcc, Encoder!ScanEdge, Bpe!ScanEdge,
   Encoder!SettledEdge, Bpe!SettledEdge, Encoder!Hits, Bpe!Hits, Encoder!Found,
   Bpe!Found, Encoder!LastLevel, Bpe!LastLevel, Encoder!NextWorse, Bpe!NextWorse,
   Encoder!InitDone, Bpe!InitDone, Encoder!Busy, Bpe!Busy, Encoder!SetPulse,
   Bpe!SetPulse, Encoder!ClearPulse, Bpe!ClearPulse, Encoder!NoPulse,
   Bpe!NoPulse, Encoder!Better, Bpe!Better, Encoder!ResetRegs, Bpe!ResetRegs,
   Encoder!Side, Bpe!Side, Encoder!Level, Bpe!Level

\* Its steps keep its types.
LEMMA EncoderTyped ==
    ASSUME Bpe!TypeOK, [Bpe!Next]_(Bpe!vars) PROVE Bpe!TypeOK'
<1>1. Encoder!TypeOK
  BY DEF Encoder!TypeOK, Bpe!TypeOK, Encoder!BestRec, Bpe!BestRec,
     Encoder!Side, Encoder!Level
<1>2. Encoder!TypeOK'
  BY <1>1, EncoderSame, Encoder!TypeInductive
<1> QED BY <1>2 DEF Encoder!TypeOK, Bpe!TypeOK, Encoder!BestRec, Bpe!BestRec,
   Encoder!Side, Encoder!Level

-----------------------------------------------------------------------------
\* The inductive invariant: types and control together, neither of which is
\* inductive alone.
IInv == TypeOK /\ OneAtATime /\ ValidatedFirst /\ SettledWhenUsed

\* What is known while the manager works.
LEMMA ManagerFacts ==
    ASSUME IInv, mgr # "IDLE"
    PROVE  /\ ManagerAtWork /\ Waiting
           /\ Mem!InitDone /\ Bpe!InitDone
           /\ cmd \in CmdRec /\ cmd.type \in CommandsOf(ctl)
           /\ cmd.type \in {"ADD", "MODIFY"} => cmd.price \in Level
BY DEF IInv, OneAtATime, AtRest, MatcherAtWork, ValidatedFirst, Waiting

\* What is known while the matcher works.
LEMMA MatcherFacts ==
    ASSUME IInv, mat # "M_IDLE"
    PROVE  /\ MatcherAtWork /\ Waiting
           /\ Mem!InitDone /\ Bpe!InitDone
           /\ cmd \in CmdRec /\ cmd.type \in CommandsOf(ctl)
           /\ cmd.type \in {"ADD", "MODIFY"} => cmd.price \in Level
BY DEF IInv, OneAtATime, AtRest, ManagerAtWork, ValidatedFirst, Waiting

\* The manager's operation and the command it serves.
LEMMA ManagerServes ==
    ASSUME IInv, mgr # "IDLE"
    PROVE  /\ mr.op \in MgrOp /\ mgr \in StatesOf(mr.op)
           /\ mr.op \in {"ENQ", "MODIFY"} => cmd.price \in Level
BY ManagerFacts DEF IInv, TypeOK, ManagerTypeOK, ManagerAtWork, MgrRegs, MgrOp,
   CallerOf, CommandsOf

\* The records the manager links into a level.
LEMMA LinkTyped ==
    ASSUME cmd \in CmdRec, cmd.price \in Level, NEW prev \in Slot
    PROVE  NewOrder(prev) \in OrderRec
BY DEF CmdRec, NewOrder, OrderRec

\* A slot of the pool is overwritten with a record.
LEMMA WriteTyped ==
    ASSUME pool \in [Slot -> OrderRec], NEW slot \in Slot, NEW r \in OrderRec,
           Mem!Write(slot, r)
    PROVE  pool' \in [Slot -> OrderRec]
BY DEF Mem!Write

\* A level is overwritten with a record.
LEMMA LevelTyped ==
    ASSUME lvl \in [Side -> [Level -> LevelRec]], NEW s \in Side,
           NEW l \in Level, NEW v \in LevelRec, WriteLevel(s, l, v)
    PROVE  lvl' \in [Side -> [Level -> LevelRec]]
BY DEF WriteLevel

\* A step of the manager is taken by a manager at work.
LEMMA ManagerSteps == MgrStep => mgr # "IDLE"
BY DEF MgrStep, LookupMiss, LookupHit, LatchQuery, LatchReject, LatchOrder,
       CanBegin, SpWrNext, SpWrNext2, DelHash, DelCommit, ModQtyWr, ExPartial,
       ExTrade, MgrAck, EnqGetSlot, EnqHashHit, EnqHashMiss, EnqRollback, ReLvl,
       LvlRead, WrEmpty, TailLink, TailLink2, EnqDone

\* The registers of the manager after each of its steps.
LEMMA ManagerRegsTyped ==
    ASSUME IInv, MgrStep
    PROVE  ManagerTypeOK'
<1> USE DEF Goto, Finish
<1>1. mgr # "IDLE" /\ MemoryTypeOK /\ ManagerTypeOK /\ cmd \in CmdRec
  BY ManagerSteps, ManagerFacts DEF IInv, TypeOK
<1>2. CASE LookupMiss
  BY <1>1, <1>2, ZeroTyped, ArithTyped
     DEF LookupMiss, MemoryTypeOK, ManagerTypeOK, MgrState, MgrRegs
<1>3. CASE LookupHit
  <2>1. ids[cmd.id] \in Slot
    BY <1>1 DEF MemoryTypeOK, CmdRec
  <2> QED BY <1>1, <2>1, <1>3 DEF LookupHit, ManagerTypeOK, MgrState, MgrRegs
<1>4. CASE LatchQuery
  BY <1>1, <1>4, ZeroTyped, ArithTyped
     DEF LatchQuery, MemoryTypeOK, ManagerTypeOK, MgrState, MgrRegs
<1>5. CASE LatchReject
  BY <1>1, <1>5, ZeroTyped, ArithTyped
     DEF LatchReject, Overfills, MemoryTypeOK, ManagerTypeOK, MgrState, MgrRegs
<1>6. CASE LatchOrder
  <2> DEFINE o == pool[mr.slot]
  <2>1. o \in OrderRec
    BY <1>1 DEF MemoryTypeOK, ManagerTypeOK, MgrRegs
  <2>2. lvl[o.side][o.price] \in LevelRec
    <3>1. o.side \in Side /\ o.price \in Level
      BY <2>1 DEF OrderRec
    <3> QED BY <1>1, <3>1 DEF MemoryTypeOK
  <2>3. mr' \in MgrRegs
    BY <1>1, <2>1, <2>2, <1>6 DEF LatchOrder, ManagerTypeOK, MgrRegs
  <2> QED BY <2>3, <1>6 DEF LatchOrder, ManagerTypeOK, MgrState
<1>7. CASE CanBegin
  <2> DEFINE o == mr.order
             v == mr.level
             new == [head |-> IF o.prev = NULL THEN o.next ELSE v.head,
                     tail |-> IF o.next = NULL THEN o.prev ELSE v.tail,
                     qty  |-> LevelMinus(v.qty, o.qty)]
  <2>1. o \in OrderRec /\ v \in LevelRec
    BY <1>1 DEF ManagerTypeOK, MgrRegs
  <2>2. new \in LevelRec
    BY <2>1, ArithTyped DEF OrderRec, LevelRec
  <2>3. pool[o.prev] \in OrderRec /\ pool[o.next] \in OrderRec
    BY <1>1, <2>1 DEF MemoryTypeOK, OrderRec
  <2>4. mr' = [mr EXCEPT !.new = new, !.prev = pool[o.prev],
                         !.next = pool[o.next]]
    BY <1>7 DEF CanBegin
  <2>5. mr' \in MgrRegs
    BY <1>1, <2>2, <2>3, <2>4 DEF ManagerTypeOK, MgrRegs
  <2> QED BY <2>5, <1>7 DEF CanBegin, ManagerTypeOK, MgrState
<1>8. CASE SpWrNext
  BY <1>1, <1>8, ZeroTyped, ArithTyped
     DEF SpWrNext, MemoryTypeOK, ManagerTypeOK, MgrState, MgrRegs
<1>9. CASE SpWrNext2
  BY <1>1, <1>9, ZeroTyped, ArithTyped
     DEF SpWrNext2, AfterSplice, MemoryTypeOK, ManagerTypeOK, MgrState, MgrRegs
<1>10. CASE DelHash
  BY <1>1, <1>10, ZeroTyped, ArithTyped
     DEF DelHash, MemoryTypeOK, ManagerTypeOK, MgrState, MgrRegs
<1>11. CASE DelCommit
  BY <1>1, <1>11, ZeroTyped, ArithTyped
     DEF DelCommit, Mem!Push, MemoryTypeOK, ManagerTypeOK, MgrState, MgrRegs
<1>12. CASE ModQtyWr
  BY <1>1, <1>12, ZeroTyped, ArithTyped
     DEF ModQtyWr, Requantify, MemoryTypeOK, ManagerTypeOK, MgrState, MgrRegs
<1>13. CASE ExPartial
  BY <1>1, <1>13, ZeroTyped, ArithTyped
     DEF ExPartial, Requantify, MemoryTypeOK, ManagerTypeOK, MgrState, MgrRegs
<1>14. CASE ExTrade
  BY <1>1, <1>14, ZeroTyped, ArithTyped
     DEF ExTrade, MemoryTypeOK, ManagerTypeOK, MgrState, MgrRegs
<1>15. CASE MgrAck
  BY <1>1, <1>15, ZeroTyped, ArithTyped
     DEF MgrAck, MemoryTypeOK, ManagerTypeOK, MgrState, MgrRegs
<1>16. CASE EnqGetSlot
  <2>1. ~Mem!FreeEmpty => Mem!TopSlot \in Slot
    BY <1>1 DEF MemoryTypeOK, Mem!FreeEmpty, Mem!TopSlot
  <2> QED BY <1>1, <2>1, <1>16, ZeroTyped
          DEF EnqGetSlot, ManagerTypeOK, MgrState, MgrRegs
<1>17. CASE EnqHashHit
  BY <1>1, <1>17, ZeroTyped, ArithTyped
     DEF EnqHashHit, MemoryTypeOK, ManagerTypeOK, MgrState, MgrRegs
<1>18. CASE EnqHashMiss
  BY <1>1, <1>18, ZeroTyped, ArithTyped
     DEF EnqHashMiss, MemoryTypeOK, ManagerTypeOK, MgrState, MgrRegs
<1>19. CASE EnqRollback
  BY <1>1, <1>19, ZeroTyped, ArithTyped
     DEF EnqRollback, Mem!Push, MemoryTypeOK, ManagerTypeOK, MgrState, MgrRegs
<1>20. CASE ReLvl
  BY <1>1, <1>20, ZeroTyped, ArithTyped
     DEF ReLvl, MemoryTypeOK, ManagerTypeOK, MgrState, MgrRegs
<1>21. CASE LvlRead
  <2>1. mr.op \in {"ENQ", "MODIFY"}
    BY <1>1, <1>21, ManagerServes DEF LvlRead, StatesOf, Splicing, Linking,
       Deleting, MgrOp
  <2>2. lvl[cmd.side][cmd.price] \in LevelRec
    BY <1>1, <2>1, ManagerServes DEF MemoryTypeOK, CmdRec
  <2> QED BY <1>1, <2>2, <1>21 DEF LvlRead, ManagerTypeOK, MgrState, MgrRegs
<1>22. CASE WrEmpty
  BY <1>1, <1>22, ZeroTyped, ArithTyped
     DEF WrEmpty, Linked, MemoryTypeOK, ManagerTypeOK, MgrState, MgrRegs
<1>23. CASE TailLink
  BY <1>1, <1>23, ZeroTyped, ArithTyped
     DEF TailLink, Target, MemoryTypeOK, ManagerTypeOK, MgrState, MgrRegs
<1>24. CASE TailLink2
  BY <1>1, <1>24, ZeroTyped, ArithTyped
     DEF TailLink2, Target, Linked, MemoryTypeOK, ManagerTypeOK, MgrState, MgrRegs
<1>25. CASE EnqDone
  BY <1>1, <1>25, ZeroTyped, ArithTyped
     DEF EnqDone, MemoryTypeOK, ManagerTypeOK, MgrState, MgrRegs
<1> QED BY <1>2, <1>3, <1>4, <1>5, <1>6, <1>7, <1>8, <1>9, <1>10, <1>11, <1>12,
   <1>13, <1>14, <1>15, <1>16, <1>17, <1>18, <1>19, <1>20, <1>21, <1>22, <1>23,
   <1>24, <1>25 DEF MgrStep

\* The memories after each step of the manager.
LEMMA ManagerMemoryTyped ==
    ASSUME IInv, MgrStep
    PROVE  MemoryTypeOK'
<1> DEFINE o == mr.order
<1>1. mgr # "IDLE" /\ MemoryTypeOK /\ ManagerTypeOK /\ cmd \in CmdRec
  BY ManagerSteps, ManagerFacts DEF IInv, TypeOK
<1>2. /\ o \in OrderRec /\ mr.level \in LevelRec /\ mr.new \in LevelRec
      /\ mr.prev \in OrderRec /\ mr.next \in OrderRec /\ mr.slot \in Slot
  BY <1>1 DEF ManagerTypeOK, MgrRegs
<1>3. /\ o.side \in Side /\ o.price \in Level /\ o.qty \in Qty
      /\ o.prev \in Slot /\ o.next \in Slot
  BY <1>2 DEF OrderRec
<1>4. cmd.id \in Ids /\ cmd.side \in Side /\ cmd.qty \in Qty
  BY <1>1 DEF CmdRec
<1>5. Target \in LevelRec /\ Target.head \in Slot /\ Target.tail \in Slot
      /\ Target.qty \in LevelQty
  BY <1>2 DEF Target, LevelRec
<1>6. \A q \in Qty, total \in LevelQty : Requantify(q, total) => MemoryTypeOK'
  <2> SUFFICES ASSUME NEW q \in Qty, NEW total \in LevelQty, Requantify(q, total)
               PROVE  MemoryTypeOK'
    OBVIOUS
  <2>1. [o EXCEPT !.qty = q] \in OrderRec
    BY <1>2 DEF OrderRec
  <2>2. [mr.level EXCEPT !.qty = total] \in LevelRec
    BY <1>2 DEF LevelRec
  <2>3. pool' \in [Slot -> OrderRec]
    BY <1>1, <1>2, <2>1, WriteTyped DEF MemoryTypeOK, Requantify
  <2>4. lvl' \in [Side -> [Level -> LevelRec]]
    BY <1>1, <1>3, <2>2, LevelTyped DEF MemoryTypeOK, Requantify
  <2> QED BY <1>1, <2>3, <2>4 DEF MemoryTypeOK, Requantify
<1>7. CASE \/ LookupMiss \/ LookupHit \/ LatchQuery \/ LatchReject \/ LatchOrder
             \/ CanBegin \/ ExTrade \/ MgrAck \/ EnqHashMiss \/ LvlRead \/ EnqDone
  BY <1>1, <1>7 DEF MemoryTypeOK, memVars, LookupMiss, LookupHit, LatchQuery,
     LatchReject, LatchOrder, CanBegin, ExTrade, MgrAck, EnqHashMiss, LvlRead,
     EnqDone
<1>8. CASE SpWrNext
  <2>1. [mr.prev EXCEPT !.next = o.next] \in OrderRec
    BY <1>2, <1>3 DEF OrderRec
  <2>2. pool' \in [Slot -> OrderRec]
    BY <1>1, <1>3, <2>1, <1>8, WriteTyped DEF MemoryTypeOK, SpWrNext
  <2>3. lvl' \in [Side -> [Level -> LevelRec]]
    BY <1>1, <1>2, <1>3, <1>8, LevelTyped DEF MemoryTypeOK, SpWrNext
  <2> QED BY <1>1, <2>2, <2>3, <1>8 DEF MemoryTypeOK, SpWrNext
<1>9. CASE SpWrNext2
  <2>1. [mr.next EXCEPT !.prev = o.prev] \in OrderRec
    BY <1>2, <1>3 DEF OrderRec
  <2>2. pool' \in [Slot -> OrderRec]
    BY <1>1, <1>3, <2>1, <1>9, WriteTyped DEF MemoryTypeOK, SpWrNext2
  <2> QED BY <1>1, <2>2, <1>9 DEF MemoryTypeOK, SpWrNext2
<1>10. CASE DelHash
  BY <1>1, <1>10 DEF MemoryTypeOK, DelHash, memVars
<1>11. CASE DelCommit \/ EnqRollback
  <2>1. free' = Append(free, mr.slot) /\ initCnt' = initCnt
    BY <1>11 DEF DelCommit, EnqRollback, Mem!Push
  <2>2. free' \in Seq(Slot)
    BY <1>1, <1>2, <2>1 DEF MemoryTypeOK
  <2> QED BY <1>1, <2>1, <2>2, <1>11 DEF MemoryTypeOK, DelCommit, EnqRollback,
     memVars
<1>12. CASE ModQtyWr
  BY <1>2, <1>3, <1>4, <1>6, <1>12, ArithTyped DEF ModQtyWr, LevelRec
<1>13. CASE ExPartial
  BY <1>2, <1>3, <1>4, <1>6, <1>13, ArithTyped DEF ExPartial, LevelRec
<1>14. CASE EnqGetSlot
  <2>1. free # <<>> => SubSeq(free, 1, Len(free) - 1) \in Seq(Slot)
    BY <1>1 DEF MemoryTypeOK
  <2>2. free' \in Seq(Slot) /\ initCnt' = initCnt /\ pool' = pool
    BY <1>1, <2>1, <1>14 DEF MemoryTypeOK, EnqGetSlot, Mem!Alloc, Mem!FreeEmpty
  <2> QED BY <1>1, <2>2, <1>14 DEF MemoryTypeOK, EnqGetSlot
<1>15. CASE EnqHashHit
  BY <1>1, <1>2, <1>4, <1>15 DEF MemoryTypeOK, EnqHashHit, memVars
<1>16. CASE ReLvl
  <2>1. cmd.price \in Level
    BY <1>1, <1>16, ManagerServes DEF ReLvl, StatesOf, Splicing, Linking,
       Deleting, MgrOp
  <2>2. pool' \in [Slot -> OrderRec]
    BY <1>1, <1>2, <2>1, <1>16, LinkTyped, WriteTyped DEF MemoryTypeOK, ReLvl
  <2> QED BY <1>1, <2>2, <1>16 DEF MemoryTypeOK, ReLvl
<1>17. CASE WrEmpty
  <2> DEFINE v == [head |-> mr.slot, tail |-> mr.slot, qty |-> LevelPlus(0, cmd.qty)]
  <2>1. cmd.price \in Level
    BY <1>1, <1>17, ManagerServes DEF WrEmpty, StatesOf, Splicing, Linking,
       Deleting, MgrOp
  <2>2. pool' \in [Slot -> OrderRec]
    BY <1>1, <1>2, <2>1, <1>17, LinkTyped, WriteTyped DEF MemoryTypeOK, WrEmpty
  <2>3. v \in LevelRec
    <3>1. 0 \in Qty
      BY DEF Qty
    <3> QED BY <1>2, <1>4, <3>1, ArithTyped DEF LevelRec
  <2>4. lvl' \in [Side -> [Level -> LevelRec]]
    BY <1>1, <1>4, <2>1, <2>3, <1>17, LevelTyped DEF MemoryTypeOK, WrEmpty
  <2> QED BY <1>1, <2>2, <2>4, <1>17 DEF MemoryTypeOK, WrEmpty
<1>18. CASE TailLink
  <2>1. [pool[Target.tail] EXCEPT !.next = mr.slot] \in OrderRec
    BY <1>1, <1>2, <1>5 DEF MemoryTypeOK, OrderRec
  <2>2. pool' \in [Slot -> OrderRec]
    BY <1>1, <1>5, <2>1, <1>18, WriteTyped DEF MemoryTypeOK, TailLink
  <2> QED BY <1>1, <2>2, <1>18 DEF MemoryTypeOK, TailLink
<1>19. CASE TailLink2
  <2> DEFINE v == [head |-> Target.head, tail |-> mr.slot,
                   qty |-> LevelPlus(Target.qty, cmd.qty)]
  <2>1. cmd.price \in Level
    BY <1>1, <1>19, ManagerServes DEF TailLink2, StatesOf, Splicing, Linking,
       Deleting, MgrOp
  <2>2. pool' \in [Slot -> OrderRec]
    BY <1>1, <1>2, <1>5, <2>1, <1>19, LinkTyped, WriteTyped DEF MemoryTypeOK,
       TailLink2
  <2>3. v \in LevelRec
    BY <1>2, <1>4, <1>5, ArithTyped DEF LevelRec
  <2>4. lvl' \in [Side -> [Level -> LevelRec]]
    BY <1>1, <1>4, <2>1, <2>3, <1>19, LevelTyped DEF MemoryTypeOK, TailLink2
  <2> QED BY <1>1, <2>2, <2>4, <1>19 DEF MemoryTypeOK, TailLink2
<1> QED BY <1>7, <1>8, <1>9, <1>10, <1>11, <1>12, <1>13, <1>14, <1>15, <1>16,
   <1>17, <1>18, <1>19 DEF MgrStep

\* The pulse and the trades after each step of the manager.
LEMMA ManagerWordsTyped ==
    ASSUME IInv, MgrStep
    PROVE  resp' \in Resp /\ trades' \in Seq(TradeRec)
<1> USE DEF Goto, Finish
<1>1. /\ mgr # "IDLE" /\ MemoryTypeOK /\ ManagerTypeOK /\ cmd \in CmdRec
      /\ resp \in Resp /\ trades \in Seq(TradeRec)
  BY ManagerSteps, ManagerFacts DEF IInv, TypeOK, ControlTypeOK
<1>2. /\ mr.order \in OrderRec /\ pool[mr.slot] \in OrderRec
      /\ cmd.qty \in Qty /\ cmd.ts \in Nat /\ 0 \in Qty
  BY <1>1 DEF ManagerTypeOK, MemoryTypeOK, MgrRegs, CmdRec, Qty
<1>3. /\ mr.order.side \in Side /\ mr.order.price \in Level
      /\ mr.order.qty \in Qty /\ mr.order.id \in Ids \union {NoId}
      /\ pool[mr.slot].qty \in Qty
  BY <1>2 DEF OrderRec
<1>4. CASE ExTrade
  <2> DEFINE o == mr.order
             trade == [buy  |-> IF o.side = "BUY" THEN o.id ELSE NoId,
                       sell |-> IF o.side = "SELL" THEN o.id ELSE NoId,
                       price |-> o.price, qty |-> cmd.qty, ts |-> cmd.ts]
  <2>1. trade \in TradeRec
    BY <1>2, <1>3 DEF TradeRec
  <2>2. trades' = Append(trades, trade) /\ resp' = resp
    BY <1>4 DEF ExTrade
  <2> QED BY <1>1, <2>1, <2>2
<1>5. CASE MgrAck
  <2>1. mr.op \in {"CANCEL", "MODIFY", "EXECUTE"}
    BY <1>1, <1>5, ManagerServes
       DEF MgrAck, StatesOf, Splicing, Linking, Deleting, MgrOp
  <2> QED BY <1>1, <1>2, <1>3, <1>5, <2>1, RespTyped, ArithTyped
          DEF MgrAck, AckStatus
<1>6. ASSUME MgrStep, ~ExTrade, ~MgrAck
      PROVE  resp' \in Resp /\ trades' = trades
  BY <1>1, <1>2, <1>3, <1>6, RespTyped
  DEF MgrStep, AckStatus, Requantify, Linked, LookupMiss, LookupHit,
     LatchQuery, LatchReject, LatchOrder,
     CanBegin, SpWrNext, SpWrNext2, DelHash, DelCommit, ModQtyWr, ExPartial,
     ExTrade, MgrAck, EnqGetSlot, EnqHashHit, EnqHashMiss, EnqRollback, ReLvl,
     LvlRead, WrEmpty, TailLink, TailLink2, EnqDone
<1> QED BY <1>1, <1>4, <1>5, <1>6

\* Every step of the manager leaves the encoder alone or drives it as it may.
LEMMA ManagerDrivesEncoder ==
    ASSUME IInv, MgrStep
    PROVE  [Bpe!Next]_(Bpe!vars)
<1>1. mgr # "IDLE" /\ ManagerTypeOK /\ cmd \in CmdRec
  BY ManagerSteps, ManagerFacts DEF IInv, TypeOK
<1>2. CASE SpWrNext
  <2>1. mr.order.side \in Side /\ mr.order.price \in Level
    BY <1>1 DEF ManagerTypeOK, MgrRegs, OrderRec
  <2>2. ctl \in {"C_MGR", "C_MODIFY"}
    BY <1>1, <1>2, ManagerFacts, ManagerServes
       DEF SpWrNext, ManagerAtWork, CallerOf, StatesOf, Splicing, Linking,
          Deleting, MgrOp
  <2>3. \A s \in Side : ~Bpe!Busy(s)
    BY <1>2, <2>2 DEF SpWrNext, IInv, SettledWhenUsed, MayScan, Deleting, Linking
  <2> QED BY <1>2, <2>1, <2>3
          DEF SpWrNext, Bpe!Next, Bpe!NextEdge, Bpe!ClearLevel, bpeVars, Bpe!vars
<1>3. CASE WrEmpty
  <2>1. cmd.price \in Level /\ cmd.side \in Side
    BY <1>1, <1>3, ManagerServes
       DEF WrEmpty, CmdRec, StatesOf, Splicing, Linking, Deleting, MgrOp
  <2> QED BY <1>3, <2>1 DEF WrEmpty, Bpe!Next, Bpe!NextEdge, Bpe!SetLevel
<1>4. ASSUME ~SpWrNext, ~WrEmpty
      PROVE  UNCHANGED bpeVars
  BY <1>4 DEF MgrStep, Requantify, LookupMiss, LookupHit, LatchQuery,
     LatchReject, LatchOrder,
     CanBegin, SpWrNext, SpWrNext2, DelHash, DelCommit, ModQtyWr, ExPartial,
     ExTrade, MgrAck, EnqGetSlot, EnqHashHit, EnqHashMiss, EnqRollback, ReLvl,
     LvlRead, WrEmpty, TailLink, TailLink2, EnqDone
<1> QED BY <1>2, <1>3, <1>4 DEF bpeVars, Bpe!vars

\* The manager does not touch the initialization counters.
LEMMA ManagerKeepsMemories ==
    ASSUME MgrStep
    PROVE  initCnt' = initCnt /\ initIdx' = initIdx
BY DEF MgrStep, memVars, bpeVars, Requantify, Mem!Alloc, Mem!Push, Mem!Write,
   Bpe!Edge,
     LookupMiss, LookupHit, LatchQuery, LatchReject, LatchOrder,
     CanBegin, SpWrNext, SpWrNext2, DelHash, DelCommit, ModQtyWr, ExPartial,
     ExTrade, MgrAck, EnqGetSlot, EnqHashHit, EnqHashMiss, EnqRollback, ReLvl,
     LvlRead, WrEmpty, TailLink, TailLink2, EnqDone

\* After a step of the manager it is still at work on the same operation, or it
\* rests and a pulse the controller awaits is pending.
LEMMA ManagerKeepsTurn ==
    ASSUME IInv, MgrStep, UNCHANGED <<matVars, ctlVars>>
    PROVE  OneAtATime' /\ ValidatedFirst'
<1> USE DEF Goto, Finish
<1>1. /\ mgr # "IDLE" /\ mr.op \in MgrOp /\ mgr \in StatesOf(mr.op)
      /\ ctl = CallerOf(mr.op) /\ Waiting /\ mat = "M_IDLE" /\ resp = NoResp
      /\ mr.op \notin {"ENQ", "QUERY"} => mr.op = cmd.type
      /\ mr \in MgrRegs
  BY ManagerSteps, ManagerFacts, ManagerServes
     DEF ManagerAtWork, IInv, TypeOK, ManagerTypeOK
<1>2. ctl' = ctl /\ cmd' = cmd /\ mat' = mat
  BY DEF ctlVars, matVars
<1>3. \/ mr'.op = mr.op /\ mgr' \in StatesOf(mr.op) /\ resp' = resp
      \/ mgr' = "IDLE" /\ resp'.kind \in PulsesOf(ctl)
  <2> USE <1>1 DEF StatesOf, Splicing, Linking, Deleting, MgrOp, CallerOf, PulsesOf
  <2>1. CASE LookupMiss
    BY <2>1 DEF QueryResp, AckResp, LookupMiss
  <2>2. CASE LookupHit
    BY <2>2 DEF LookupHit, MgrRegs
  <2>3. CASE LatchQuery
    BY <2>3 DEF QueryResp, LatchQuery
  <2>4. CASE LatchReject
    BY <2>4 DEF AckResp, LatchReject
  <2>5. CASE LatchOrder
    BY <2>5 DEF LatchOrder, MgrRegs
  <2>6. CASE CanBegin
    BY <2>6 DEF CanBegin, MgrRegs
  <2>7. CASE SpWrNext
    BY <2>7 DEF SpWrNext
  <2>8. CASE SpWrNext2
    BY <2>8 DEF AfterSplice, SpWrNext2
  <2>9. CASE DelHash
    BY <2>9 DEF DelHash
  <2>10. CASE DelCommit
    BY <2>10 DEF DelCommit
  <2>11. CASE ModQtyWr
    BY <2>11 DEF ModQtyWr
  <2>12. CASE ExPartial
    BY <2>12 DEF ExPartial
  <2>13. CASE ExTrade
    BY <2>13 DEF ExTrade
  <2>14. CASE MgrAck
    BY <2>14 DEF AckResp, MgrAck
  <2>15. CASE EnqGetSlot
    BY <2>15 DEF EnqResp, EnqGetSlot, MgrRegs
  <2>16. CASE EnqHashHit
    BY <2>16 DEF EnqHashHit
  <2>17. CASE EnqHashMiss
    BY <2>17 DEF EnqHashMiss
  <2>18. CASE EnqRollback
    BY <2>18 DEF EnqResp, EnqRollback
  <2>19. CASE ReLvl
    BY <2>19 DEF ReLvl
  <2>20. CASE LvlRead
    BY <2>20 DEF LvlRead, MgrRegs
  <2>21. CASE WrEmpty
    BY <2>21 DEF Linked, MovedResp, WrEmpty
  <2>22. CASE TailLink
    BY <2>22 DEF TailLink
  <2>23. CASE TailLink2
    BY <2>23 DEF Linked, MovedResp, TailLink2
  <2>24. CASE EnqDone
    BY <2>24 DEF EnqResp, EnqDone
  <2> QED BY <2>1, <2>2, <2>3, <2>4, <2>5, <2>6, <2>7, <2>8, <2>9, <2>10,
     <2>11, <2>12, <2>13, <2>14, <2>15, <2>16, <2>17, <2>18, <2>19, <2>20,
     <2>21, <2>22, <2>23, <2>24 DEF MgrStep
<1>4. OneAtATime'
  BY <1>1, <1>2, <1>3
     DEF OneAtATime, ManagerAtWork, AtRest, Waiting, PulsesOf
<1>5. ValidatedFirst'
  <2>1. initCnt' = initCnt
    BY ManagerKeepsMemories
  <2>2. initIdx' = initIdx
    BY ManagerKeepsMemories
  <2> QED BY <1>1, <1>2, <2>1, <2>2
          DEF IInv, ValidatedFirst, Waiting, Mem!InitDone, Bpe!InitDone
<1> QED BY <1>4, <1>5

-----------------------------------------------------------------------------
(* Scans.                                                                    *)

\* Only a clear starts a scan, and only of its own side.
LEMMA BusyEdge ==
    ASSUME Bpe!TypeOK, NEW s \in Side
    PROVE  /\ \A t \in Side, l \in Level :
                Bpe!Edge(Bpe!ClearPulse(t, l)) /\ Bpe!Busy(s)' => Bpe!Busy(s) \/ s = t
           /\ \A t \in Side, l \in Level :
                Bpe!Edge(Bpe!SetPulse(t, l)) /\ Bpe!Busy(s)' => Bpe!Busy(s)
           /\ (Bpe!IdleEdge \/ Bpe!InitEdge \/ Bpe!Reset) /\ Bpe!Busy(s)' => Bpe!Busy(s)
<1> USE DEF Bpe!Busy, Bpe!TypeOK, Bpe!BestRec
<1>1. ASSUME NEW in, Bpe!Edge(in), Bpe!Busy(s)', ~Bpe!Busy(s)
      PROVE  Bpe!Hits(in, "clear", s)
  BY <1>1 DEF Bpe!Edge, Bpe!SettledEdge
<1>2. \A t \in Side, l \in Level :
         /\ Bpe!Hits(Bpe!ClearPulse(t, l), "clear", s) => s = t
         /\ ~Bpe!Hits(Bpe!SetPulse(t, l), "clear", s)
  BY DEF Bpe!Hits, Bpe!ClearPulse, Bpe!SetPulse
<1>3. ~Bpe!Hits(Bpe!NoPulse, "clear", s)
  BY DEF Bpe!Hits, Bpe!NoPulse
<1>4. (Bpe!InitEdge \/ Bpe!Reset) /\ Bpe!Busy(s)' => Bpe!Busy(s)
  BY DEF Bpe!InitEdge, Bpe!Reset, Bpe!ResetRegs
<1> QED BY <1>1, <1>2, <1>3, <1>4 DEF Bpe!IdleEdge

\* The manager starts a scan only on the way to C_SETTLE or to the drain.
LEMMA ManagerSettled ==
    ASSUME IInv, MgrStep, UNCHANGED <<matVars, ctlVars>>
    PROVE  SettledWhenUsed'
<1>1. /\ mgr # "IDLE" /\ mr.op \in MgrOp /\ mgr \in StatesOf(mr.op)
      /\ ctl = CallerOf(mr.op) /\ cmd \in CmdRec
      /\ mr \in MgrRegs /\ Bpe!TypeOK
      /\ mr.op \in {"ENQ", "MODIFY"} => cmd.price \in Level
  BY ManagerSteps, ManagerFacts, ManagerServes
     DEF ManagerAtWork, IInv, TypeOK, ManagerTypeOK
<1>2. ctl' = ctl /\ cmd' = cmd /\ mat' = mat
  BY DEF ctlVars, matVars
<1>3. CASE SpWrNext
  <2>1. mgr' = "SP_WR_NEXT2"
    BY <1>3 DEF SpWrNext, Goto
  <2>2. ctl \in {"C_MGR", "C_MODIFY"}
    BY <1>1, <1>3 DEF SpWrNext, CallerOf, StatesOf, Splicing, Linking,
       Deleting, MgrOp
  <2> QED BY <1>2, <2>1, <2>2 DEF SettledWhenUsed, MayScan
<1>4. CASE ~SpWrNext
  <2> SUFFICES ASSUME NEW s \in Side, Bpe!Busy(s)'
               PROVE  MayScan(s)'
    BY DEF SettledWhenUsed
  <2>1. Bpe!Busy(s)
    <3>1. CASE WrEmpty
      <4>1. cmd.price \in Level /\ cmd.side \in Side
        BY <1>1, <3>1 DEF WrEmpty, CmdRec, StatesOf, Splicing, Linking,
           Deleting, MgrOp
      <4> QED BY <1>1, <3>1, <4>1, BusyEdge DEF WrEmpty
    <3>2. CASE ~WrEmpty
      <4>1. best' = best
        BY <1>4, <3>2 DEF MgrStep, Requantify, bpeVars, LookupMiss, LookupHit,
           LatchQuery, LatchReject, LatchOrder,
     CanBegin, SpWrNext2, DelHash, DelCommit, ModQtyWr, ExPartial,
     ExTrade, MgrAck, EnqGetSlot, EnqHashHit, EnqHashMiss, EnqRollback, ReLvl,
     LvlRead, TailLink, TailLink2, EnqDone
      <4> QED BY <4>1 DEF Bpe!Busy
    <3> QED BY <3>1, <3>2
  <2>2. /\ ctl \in {"C_MGR", "C_MODIFY"} /\ mr.op # "ENQ"
        /\ mgr \in {"SP_WR_NEXT2", "RE_LVL", "EX_TRADE", "ACK"}
                       \union Deleting \union Linking
    BY <1>1, <2>1 DEF IInv, SettledWhenUsed, MayScan, CallerOf, MgrOp
  <2>3. mgr' \in {"IDLE", "RE_LVL", "EX_TRADE", "ACK"} \union Deleting \union Linking
    BY <2>2 DEF MgrStep, Deleting, Linking, Goto, Finish, Linked, AfterSplice,
       LookupMiss, LookupHit, LatchQuery, LatchReject, LatchOrder,
     CanBegin, SpWrNext, SpWrNext2, DelHash, DelCommit, ModQtyWr, ExPartial,
     ExTrade, MgrAck, EnqGetSlot, EnqHashHit, EnqHashMiss, EnqRollback, ReLvl,
     LvlRead, WrEmpty, TailLink, TailLink2, EnqDone
  <2> QED BY <1>2, <2>2, <2>3 DEF MayScan
<1> QED BY <1>3, <1>4

-----------------------------------------------------------------------------
(* The matcher.                                                              *)

\* A step of the matcher is taken by a matcher at work.
LEMMA MatcherSteps == MatStep => mat # "M_IDLE"
BY DEF MatStep, MCheck, MTrade, MUpdBid, MHashBid, MUpdAsk, MHashAsk, FCheck,
       FTrade, FUpdate, FHash, MDone

\* Applying a trade to the head of a level.
LEMMA ConsumeTyped ==
    ASSUME MemoryTypeOK, Bpe!TypeOK, MatcherTypeOK, NEW s \in Side, Consume(s)
    PROVE  MemoryTypeOK'
<1> DEFINE o == xr.order[s]
           v == xr.level[s]
<1>1. o \in OrderRec /\ v \in LevelRec /\ xr.qty \in Qty
  BY DEF MatcherTypeOK, MatRegs
<1>2. /\ o.qty \in Qty /\ o.next \in Slot
      /\ v.head \in Slot /\ v.tail \in Slot /\ v.qty \in LevelQty
  BY <1>1 DEF OrderRec, LevelRec
<1>3. LevelAfter(s) \in LevelRec
  BY <1>1, <1>2, ArithTyped DEF LevelAfter, LevelRec
<1>4. [o EXCEPT !.qty = QtyMinus(o.qty, xr.qty)] \in OrderRec
  BY <1>1, <1>2, ArithTyped DEF OrderRec
<1>5. BestOf(s) \in Level
  BY DEF Bpe!TypeOK, Bpe!BestRec, BestOf
<1>6. lvl' \in [Side -> [Level -> LevelRec]]
  BY <1>3, <1>5, LevelTyped DEF MemoryTypeOK, Consume
<1>7. CASE Filled(s)
  <2>1. free' = Append(free, v.head) /\ UNCHANGED <<pool, initCnt, ids>>
    BY <1>7 DEF Consume, Mem!Push
  <2>2. free' \in Seq(Slot)
    BY <1>2, <2>1 DEF MemoryTypeOK
  <2> QED BY <1>6, <2>1, <2>2 DEF MemoryTypeOK
<1>8. CASE ~Filled(s)
  <2>1. pool' \in [Slot -> OrderRec]
    BY <1>2, <1>4, <1>8, WriteTyped DEF MemoryTypeOK, Consume
  <2> QED BY <1>6, <1>8, <2>1 DEF MemoryTypeOK, Consume
<1> QED BY <1>7, <1>8

\* The memories after each step of the matcher.
LEMMA MatcherMemoryTyped ==
    ASSUME IInv, MatStep
    PROVE  MemoryTypeOK'
<1>1. MemoryTypeOK /\ Bpe!TypeOK /\ MatcherTypeOK /\ cmd \in CmdRec
  BY MatcherSteps, MatcherFacts DEF IInv, TypeOK
<1>2. Passive \in Side
  BY DEF Passive, Opposite
<1>3. CASE MUpdBid \/ MUpdAsk \/ FUpdate
  BY <1>1, <1>2, <1>3, ConsumeTyped DEF MUpdBid, MUpdAsk, FUpdate
<1>4. CASE MHashBid \/ MHashAsk \/ FHash
  BY <1>1, <1>4 DEF MHashBid, MHashAsk, FHash, DropMapping, MemoryTypeOK, memVars
<1>5. CASE MCheck \/ MTrade \/ FCheck \/ FTrade \/ MDone
  BY <1>1, <1>5 DEF MCheck, MTrade, FCheck, FTrade, MDone, MemoryTypeOK, memVars
<1> QED BY <1>3, <1>4, <1>5 DEF MatStep

\* The registers, the pulse and the trades after each step of the matcher.
LEMMA MatcherRegsTyped ==
    ASSUME IInv, MatStep
    PROVE  MatcherTypeOK' /\ resp' \in Resp /\ trades' \in Seq(TradeRec)
<1> USE DEF MatGoto, MatState
<1>1. /\ MemoryTypeOK /\ Bpe!TypeOK /\ mat \in MatState /\ xr \in MatRegs
      /\ cmd \in CmdRec /\ resp \in Resp /\ trades \in Seq(TradeRec)
  BY MatcherSteps, MatcherFacts DEF IInv, TypeOK, ControlTypeOK, MatcherTypeOK
<1>2. \A s \in Side : BestOf(s) \in Level
  BY <1>1 DEF Bpe!TypeOK, Bpe!BestRec, BestOf
<1>3. \A s \in Side : lvl[s][BestOf(s)] \in LevelRec
  BY <1>1, <1>2 DEF MemoryTypeOK
<1>4. \A s \in Side : pool[lvl[s][BestOf(s)].head] \in OrderRec
  BY <1>1, <1>3 DEF MemoryTypeOK, LevelRec
<1>5. Passive \in Side /\ cmd.id \in Ids /\ cmd.ts \in Nat
  BY <1>1 DEF Passive, Opposite, CmdRec
<1>6. xr.rem \in Qty /\ xr.qty \in Qty
  BY <1>1 DEF MatRegs
<1>7. CASE MTrade
  <2> DEFINE v == [s \in Side |-> lvl[s][BestOf(s)]]
             o == [s \in Side |-> pool[v[s].head]]
             q == MinQty(o["BUY"].qty, o["SELL"].qty)
             trade == [buy |-> o["BUY"].id, sell |-> o["SELL"].id,
                       price |-> DrainPrice(o), qty |-> q,
                       ts |-> Later(o["BUY"].ts, o["SELL"].ts)]
  <2>1. v \in [Side -> LevelRec] /\ o \in [Side -> OrderRec]
    BY <1>3, <1>4
  <2>2. \A s \in Side : /\ o[s].qty \in Qty /\ o[s].ts \in Nat /\ o[s].price \in Level
                        /\ o[s].id \in Ids \union {NoId}
    BY <2>1 DEF OrderRec
  <2>3. q \in Qty /\ trade \in TradeRec
    BY <2>2 DEF MinQty, Later, DrainPrice, TradeRec
  <2>4. /\ trades' = Append(trades, trade) /\ mat' = "M_UPD_BID" /\ resp' = resp
        /\ xr' = [xr EXCEPT !.order = o, !.level = v, !.qty = q]
    BY <1>7 DEF MTrade
  <2>5. xr' \in MatRegs
    BY <1>1, <2>1, <2>3, <2>4 DEF MatRegs
  <2> HIDE DEF trade, o, q, v
  <2>6. trades' \in Seq(TradeRec)
    BY <1>1, <2>3, <2>4
  <2> QED BY <1>1, <2>4, <2>5, <2>6 DEF MatcherTypeOK
<1>8. CASE FTrade
  <2> DEFINE v == lvl[Passive][BestOf(Passive)]
             o == pool[v.head]
             q == MinQty(xr.rem, o.qty)
             trade == [buy  |-> IF cmd.side = "BUY" THEN cmd.id ELSE o.id,
                       sell |-> IF cmd.side = "SELL" THEN cmd.id ELSE o.id,
                       price |-> o.price, qty |-> q, ts |-> Later(cmd.ts, o.ts)]
  <2>1. v \in LevelRec /\ o \in OrderRec
    BY <1>3, <1>4, <1>5
  <2>2. /\ o.qty \in Qty /\ o.ts \in Nat /\ o.price \in Level
        /\ o.id \in Ids \union {NoId}
    BY <2>1 DEF OrderRec
  <2>3. q \in Qty /\ trade \in TradeRec
    BY <1>5, <1>6, <2>2 DEF MinQty, Later, TradeRec
  <2>4. /\ trades' = Append(trades, trade) /\ mat' = "F_UPDATE" /\ resp' = resp
        /\ xr' = [xr EXCEPT !.order[Passive] = o, !.level[Passive] = v, !.qty = q]
    BY <1>8 DEF FTrade
  <2>5. xr' \in MatRegs
    BY <1>1, <1>5, <2>1, <2>3, <2>4 DEF MatRegs
  <2> QED BY <1>1, <2>3, <2>4, <2>5 DEF MatcherTypeOK
<1>9. CASE FUpdate
  <2>1. QtyMinus(xr.rem, xr.qty) \in Qty
    BY <1>6, ArithTyped
  <2>2. xr' \in MatRegs
    BY <1>1, <1>9, <2>1 DEF FUpdate, MatRegs
  <2>3. mat' \in MatState /\ resp' = resp /\ trades' = trades
    BY <1>9 DEF FUpdate, Consume
  <2> QED BY <1>1, <2>2, <2>3 DEF MatcherTypeOK
<1>10. CASE MDone
  BY <1>1, <1>6, <1>10, RespTyped, ZeroTyped DEF MDone, MatcherTypeOK
<1>11. CASE MCheck \/ FCheck \/ MHashBid \/ MHashAsk \/ FHash
  BY <1>1, <1>11
     DEF MCheck, FCheck, MHashBid, MHashAsk, FHash, DropMapping, MatcherTypeOK
<1>12. CASE MUpdBid \/ MUpdAsk
  BY <1>1, <1>12 DEF MUpdBid, MUpdAsk, Consume, MatcherTypeOK
<1> QED BY <1>7, <1>8, <1>9, <1>10, <1>11, <1>12 DEF MatStep

\* A clear by the matcher: only of a side that is settled.
LEMMA ConsumeDrivesEncoder ==
    ASSUME Bpe!TypeOK, NEW s \in Side, Consume(s), ~Bpe!Busy(s)
    PROVE  /\ [Bpe!Next]_(Bpe!vars)
           /\ \A t \in Side : Bpe!Busy(t)' => Bpe!Busy(t) \/ t = s
           /\ initIdx' = initIdx /\ initCnt' = initCnt
<1>1. BestOf(s) \in Level
  BY DEF Bpe!TypeOK, Bpe!BestRec, BestOf
<1>2. initCnt' = initCnt
  BY DEF Consume, Mem!Push
<1>3. CASE Filled(s) /\ xr.order[s].next = NULL
  <2>1. Bpe!Edge(Bpe!ClearPulse(s, BestOf(s)))
    BY <1>3 DEF Consume, ClearIfEmptied
  <2>2. [Bpe!Next]_(Bpe!vars)
    BY <1>1, <2>1 DEF Bpe!Next, Bpe!NextEdge, Bpe!ClearLevel
  <2> QED BY <1>1, <1>2, <2>1, <2>2, BusyEdge DEF Bpe!Edge
<1>4. CASE ~(Filled(s) /\ xr.order[s].next = NULL)
  <2>1. UNCHANGED bpeVars
    BY <1>4 DEF Consume, ClearIfEmptied
  <2> QED BY <1>2, <2>1 DEF bpeVars, Bpe!vars, Bpe!Busy
<1> QED BY <1>3, <1>4

\* Every step of the matcher leaves the encoder alone or drives it as it may,
\* and stays where its scans are waited for.
LEMMA MatcherSettled ==
    ASSUME IInv, MatStep, UNCHANGED <<mgrVars, ctlVars>>
    PROVE  [Bpe!Next]_(Bpe!vars) /\ SettledWhenUsed'
<1> USE DEF MatGoto
<1>1. /\ mat # "M_IDLE" /\ Bpe!TypeOK /\ SettledWhenUsed
      /\ \/ ctl = "C_FAST" /\ mat \in FastStates
         \/ ctl = "C_DRAIN" /\ mat \in DrainStates
  BY MatcherSteps, MatcherFacts DEF IInv, TypeOK, MatcherAtWork
<1>2. ctl' = ctl /\ cmd' = cmd /\ mgr' = mgr /\ Passive' = Passive
  BY DEF ctlVars, mgrVars, Passive
<1>3. Passive \in Side
  BY DEF Passive, Opposite
<1>4. \A s \in Side : Bpe!Busy(s) =>
         \/ /\ ctl = "C_DRAIN"
            /\ \/ mat \in {"M_CHECK", "M_HASH_ASK"}
               \/ s = "BUY" /\ mat \in {"M_HASH_BID", "M_UPD_ASK"}
         \/ ctl = "C_FAST" /\ s = Passive /\ mat \in {"F_CHECK", "F_HASH"}
  BY <1>1 DEF SettledWhenUsed, MayScan
<1>5. CASE MUpdBid
  <2>1. /\ [Bpe!Next]_(Bpe!vars)
        /\ \A t \in Side : Bpe!Busy(t)' => t = "BUY"
    BY <1>1, <1>4, <1>5, ConsumeDrivesEncoder DEF MUpdBid, FastStates
  <2>2. ctl' = "C_DRAIN" /\ mat' \in {"M_HASH_BID", "M_UPD_ASK"}
    BY <1>1, <1>2, <1>5 DEF MUpdBid, FastStates
  <2> QED BY <2>1, <2>2 DEF SettledWhenUsed, MayScan
<1>6. CASE MUpdAsk
  <2>1. [Bpe!Next]_(Bpe!vars)
    BY <1>1, <1>4, <1>6, ConsumeDrivesEncoder DEF MUpdAsk, FastStates
  <2>2. ctl' = "C_DRAIN" /\ mat' \in {"M_HASH_ASK", "M_CHECK"}
    BY <1>1, <1>2, <1>6 DEF MUpdAsk, FastStates
  <2> QED BY <2>1, <2>2 DEF SettledWhenUsed, MayScan
<1>7. CASE FUpdate
  <2>1. /\ [Bpe!Next]_(Bpe!vars)
        /\ \A t \in Side : Bpe!Busy(t)' => t = Passive
    BY <1>1, <1>3, <1>4, <1>7, ConsumeDrivesEncoder DEF FUpdate, DrainStates
  <2>2. ctl' = "C_FAST" /\ mat' \in {"F_CHECK", "F_HASH"}
    BY <1>1, <1>2, <1>7 DEF FUpdate, DrainStates
  <2> QED BY <1>2, <2>1, <2>2 DEF SettledWhenUsed, MayScan
<1>8. CASE ~MUpdBid /\ ~MUpdAsk /\ ~FUpdate
  <2>1. UNCHANGED bpeVars
    BY <1>8 DEF MatStep, MCheck, MTrade, MHashBid, MHashAsk, FCheck, FTrade,
       FHash, MDone, DropMapping
  <2>2. [Bpe!Next]_(Bpe!vars) /\ \A s \in Side : Bpe!Busy(s)' <=> Bpe!Busy(s)
    BY <2>1 DEF bpeVars, Bpe!vars, Bpe!Busy
  <2>3. \A s \in Side : Bpe!Busy(s) => MayScan(s)'
    BY <1>1, <1>2, <1>4, <1>8
       DEF MatStep, MCheck, MTrade, MHashBid, MHashAsk, FCheck, FTrade, FHash,
           MDone, MayScan, FastStates, DrainStates, Bpe!RefreshBusy, Bpe!Busy
  <2> QED BY <2>2, <2>3 DEF SettledWhenUsed
<1> QED BY <1>5, <1>6, <1>7, <1>8

\* After a step of the matcher it is still at work, or it rests and its pulse is
\* pending.
LEMMA MatcherKeepsTurn ==
    ASSUME IInv, MatStep, UNCHANGED <<mgrVars, ctlVars>>
    PROVE  OneAtATime' /\ ValidatedFirst'
<1> USE DEF MatGoto
<1>1. /\ mat # "M_IDLE" /\ MatcherAtWork /\ Waiting /\ Bpe!TypeOK
  BY MatcherSteps, MatcherFacts DEF IInv, TypeOK
<1>2. ctl' = ctl /\ cmd' = cmd /\ mgr' = mgr
  BY DEF ctlVars, mgrVars
<1>3. \/ MatcherAtWork'
      \/ mat' = "M_IDLE" /\ resp'.kind \in PulsesOf(ctl)
  BY <1>1, <1>2
     DEF MatStep, MCheck, MTrade, MUpdBid, MHashBid, MUpdAsk, MHashAsk, FCheck,
         FTrade, FUpdate, FHash, MDone, MatcherAtWork, FastStates, DrainStates,
         MatchResp, PulsesOf
<1>4. OneAtATime'
  BY <1>1, <1>2, <1>3 DEF OneAtATime, MatcherAtWork, AtRest, Waiting, PulsesOf
<1>5. initCnt' = initCnt /\ initIdx' = initIdx
  BY DEF MatStep, MCheck, MTrade, MUpdBid, MHashBid, MUpdAsk, MHashAsk, FCheck,
         FTrade, FUpdate, FHash, MDone, Consume, ClearIfEmptied, DropMapping,
         Mem!Push, Bpe!Edge, memVars, bpeVars
<1>6. ValidatedFirst'
  BY <1>1, <1>2, <1>5
     DEF IInv, ValidatedFirst, Waiting, Mem!InitDone, Bpe!InitDone
<1> QED BY <1>4, <1>6

-----------------------------------------------------------------------------
(* The controller.                                                           *)

\* What a pulse carries.
LEMMA RespFields ==
    ASSUME resp \in Resp
    PROVE  /\ resp.kind \in {"match", "query", "ack"} => resp.qty \in Qty
           /\ resp.kind \in {"enq", "ack"} => resp.status \in AckStatus
           /\ resp.kind = "none" => resp = NoResp
BY DEF Resp, NoResp, MovedResp, EnqResp, QueryResp, AckResp, MatchResp

\* The acknowledgement the controller composes.
LEMMA AckTyped ==
    ASSUME TypeOK, NEW status \in AckStatus, NEW rem \in Qty
    PROVE  AckOf(status, rem) \in AckRec
<1>1. \A s \in Side : StatusBest(s) \in Level
  BY DEF TypeOK, Bpe!TypeOK, Bpe!BestRec, StatusBest
<1>2. cmd.id \in Ids \union {NoId}
  BY DEF TypeOK, ControlTypeOK, CmdRec, ZeroCmd
<1>3. Mem!NumOrders \in Int
  BY DEF TypeOK, MemoryTypeOK, Mem!NumOrders
<1> QED BY <1>1, <1>2, <1>3 DEF AckOf, AckRec

\* A step of the controller touches neither the book nor the encoder.
LEMMA ControllerKeepsBook ==
    ASSUME CtlStep
    PROVE  UNCHANGED <<memVars, bpeVars, lvl, ids, trades, sent>>
BY DEF CtlStep, Hears, StartDrain, ValidateReject, ValidateFast,
   ValidateManager, FastFilled, FastRemainder,
         EnqRejected, Enqueued, MgrAcked, Moved, Drained, Queried, Settle, SendAck

\* Every step of the controller keeps the types.
LEMMA ControllerTyped ==
    ASSUME IInv, CtlStep
    PROVE  TypeOK'
<1>1. TypeOK
  BY DEF IInv
<1>2. Bpe!TypeOK' /\ MemoryTypeOK' /\ trades' \in Seq(TradeRec)
      /\ sent' \in 0 .. MaxCommands
  BY <1>1, ControllerKeepsBook, EncoderTyped
     DEF TypeOK, MemoryTypeOK, ControlTypeOK, memVars, bpeVars, Bpe!vars
<1>3. /\ resp \in Resp /\ ctl \in CtlState /\ ack \in AckRec
      /\ 0 \in Qty /\ cmd \in CmdRec \union {ZeroCmd}
      /\ ctl # "C_IDLE" => cmd \in CmdRec
  BY DEF IInv, TypeOK, ControlTypeOK, ValidatedFirst, Qty
<1>4. cmd.qty \in Qty /\ (ctl # "C_IDLE" => cmd.type \in MsgType)
      /\ ack.status \in AckStatus /\ ack.rem \in Qty
  BY <1>3 DEF CmdRec, ZeroCmd, AckRec
<1>5. resp' \in Resp
  BY <1>3, RespTyped DEF CtlStep, Hears, StartDrain,
         ValidateReject, ValidateFast, ValidateManager, FastFilled, FastRemainder,
         EnqRejected, Enqueued, MgrAcked, Moved, Drained, Queried, Settle, SendAck
<1>6. ctl' \in CtlState
  BY DEF CtlState, CtlStep, Hears, StartDrain,
         ValidateReject, ValidateFast, ValidateManager, FastFilled, FastRemainder,
         EnqRejected, Enqueued, MgrAcked, Moved, Drained, Queried, Settle, SendAck
<1>7. cmd' \in CmdRec \union {ZeroCmd}
  <2>1. CASE FastRemainder
    BY <1>3, <2>1, RespFields DEF FastRemainder, Hears, CmdRec
  <2>2. CASE ~FastRemainder
    BY <1>3, <2>2 DEF CtlStep, Hears, StartDrain,
         ValidateReject, ValidateFast, ValidateManager, FastFilled, FastRemainder,
         EnqRejected, Enqueued, MgrAcked, Moved, Drained, Queried, Settle, SendAck
  <2> QED BY <2>1, <2>2
<1>8. ack' \in AckRec
  <2> USE DEF AckStatus
  <2>1. CASE ValidateReject
    BY <1>1, <1>3, <2>1, AckTyped DEF ValidateReject
  <2>2. CASE FastFilled
    BY <1>1, <1>3, <2>2, AckTyped DEF FastFilled
  <2>3. CASE EnqRejected
    BY <1>1, <1>3, <2>3, AckTyped, RespFields DEF EnqRejected, Hears
  <2>4. CASE MgrAcked
    BY <1>1, <1>3, <2>4, AckTyped, RespFields DEF MgrAcked, Hears
  <2>5. CASE Queried
    BY <1>1, <1>3, <2>5, AckTyped, RespFields DEF Queried, Hears
  <2>6. CASE Settle
    BY <1>1, <1>4, <2>6, AckTyped DEF Settle
  <2>7. CASE \/ ValidateFast \/ ValidateManager \/ FastRemainder \/ Enqueued
             \/ Moved \/ Drained \/ SendAck
    BY <1>3, <2>7 DEF ValidateFast, ValidateManager, FastRemainder, Enqueued,
       Moved, Drained, SendAck, StartDrain
  <2> QED BY <2>1, <2>2, <2>3, <2>4, <2>5, <2>6, <2>7 DEF CtlStep
<1>9. ManagerTypeOK'
  <2>1. \A op \in MgrOp : MgrStart(op) => ManagerTypeOK'
    BY ZeroTyped DEF MgrStart, ManagerTypeOK, MgrState, MgrRegs, MgrOp
  <2>2. CASE ValidateManager
    BY <1>4, <2>1, <2>2 DEF ValidateManager, Validating, MsgType, MgrOp
  <2>3. CASE FastRemainder \/ Drained
    BY <2>1, <2>3 DEF FastRemainder, Drained, MgrOp
  <2>4. CASE ~ValidateManager /\ ~FastRemainder /\ ~Drained
    <3>1. UNCHANGED mgrVars
      BY <2>4 DEF CtlStep, StartDrain, NoStart,
         ValidateReject, ValidateFast, ValidateManager, FastFilled, FastRemainder,
         EnqRejected, Enqueued, MgrAcked, Moved, Drained, Queried, Settle, SendAck
    <3> QED BY <1>1, <3>1 DEF TypeOK, ManagerTypeOK, mgrVars
  <2> QED BY <2>2, <2>3, <2>4
<1>10. MatcherTypeOK'
  <2>1. \A st \in MatState, rem \in Qty : MatStart(st, rem) => MatcherTypeOK'
    BY ZeroTyped DEF MatStart, MatcherTypeOK, MatRegs
  <2>2. CASE ValidateFast
    BY <1>4, <2>1, <2>2 DEF ValidateFast, MatState
  <2>3. CASE Enqueued \/ Moved
    BY <1>3, <2>1, <2>3 DEF Enqueued, Moved, StartDrain, MatState
  <2>4. CASE ~ValidateFast /\ ~Enqueued /\ ~Moved
    <3>1. UNCHANGED matVars
      BY <2>4 DEF CtlStep, NoStart,
         ValidateReject, ValidateFast, ValidateManager, FastFilled, FastRemainder,
         EnqRejected, Enqueued, MgrAcked, Moved, Drained, Queried, Settle, SendAck
    <3> QED BY <1>1, <3>1 DEF TypeOK, MatcherTypeOK, matVars
  <2> QED BY <2>2, <2>3, <2>4
<1> QED BY <1>2, <1>5, <1>6, <1>7, <1>8, <1>9, <1>10 DEF TypeOK, ControlTypeOK

\* A pulse the controller hears comes from a party that now rests.
LEMMA HeardAtRest ==
    ASSUME IInv, resp # NoResp
    PROVE  AtRest /\ Waiting /\ resp.kind \in PulsesOf(ctl)
BY DEF IInv, OneAtATime, ManagerAtWork, MatcherAtWork

\* After a step of the controller either nobody works, or the one it started.
LEMMA ControllerKeepsTurn ==
    ASSUME IInv, CtlStep
    PROVE  OneAtATime' /\ ValidatedFirst'
<1> USE DEF Waiting, AtRest
<1>1. /\ cmd \in CmdRec \union {ZeroCmd} /\ mr \in MgrRegs
      /\ ctl # "C_IDLE" => cmd \in CmdRec
      /\ Waiting => /\ Mem!InitDone /\ Bpe!InitDone
                    /\ cmd.type \in CommandsOf(ctl)
                    /\ cmd.type \in {"ADD", "MODIFY"} => cmd.price \in Level
      /\ ~Waiting => AtRest /\ resp = NoResp
      /\ resp \in Resp
  BY DEF IInv, TypeOK, ManagerTypeOK, ControlTypeOK, ValidatedFirst, OneAtATime
<1>2. UNCHANGED <<initCnt, initIdx>>
  BY ControllerKeepsBook DEF memVars, bpeVars
<1>3. /\ Mem!InitDone' <=> Mem!InitDone
      /\ Bpe!InitDone' <=> Bpe!InitDone
  BY <1>2 DEF Mem!InitDone, Bpe!InitDone
<1>4. CASE ValidateReject \/ Settle \/ SendAck
  <2>1. /\ ~Waiting /\ ~Waiting' /\ ctl # "C_IDLE"
        /\ UNCHANGED <<mgr, mat, resp, cmd>>
    BY <1>4 DEF ValidateReject, Validating, Settle, SendAck, NoStart, mgrVars,
       matVars
  <2> QED BY <1>1, <2>1 DEF OneAtATime, ValidatedFirst
<1>5. CASE ValidateFast
  <2>1. /\ ctl = "C_VALIDATE" /\ ctl' = "C_FAST" /\ mat' = "F_CHECK"
        /\ UNCHANGED <<mgr, resp, cmd>> /\ Mem!InitDone /\ Bpe!InitDone
        /\ cmd.type = "ADD" /\ PriceInRange(cmd.price)
    BY <1>5 DEF ValidateFast, Validating, MatStart, mgrVars, FastCross, BadField
  <2>2. cmd.price \in Level
    BY <1>1, <2>1 DEF PriceInRange, CmdRec
  <2>3. ValidatedFirst'
    BY <1>1, <1>3, <2>1, <2>2 DEF ValidatedFirst, CommandsOf
  <2>4. OneAtATime'
    BY <1>1, <2>1 DEF OneAtATime, MatcherAtWork, FastStates
  <2> QED BY <2>3, <2>4
<1>6. CASE ValidateManager
  <2> DEFINE op == IF cmd.type = "ADD" THEN "ENQ" ELSE cmd.type
  <2>1. /\ ctl = "C_VALIDATE" /\ UNCHANGED <<mat, resp, cmd>>
        /\ Mem!InitDone /\ Bpe!InitDone
        /\ cmd.type \in {"ADD", "MODIFY"} => PriceInRange(cmd.price)
        /\ MgrStart(op)
        /\ ctl' = CASE cmd.type = "ADD" -> "C_ENQ"
                     [] cmd.type = "MODIFY" -> "C_MODIFY"
                     [] OTHER -> "C_MGR"
    BY <1>6 DEF ValidateManager, Validating, matVars, BadField
  <2>2. cmd \in CmdRec /\ cmd.type \in MsgType /\ cmd.price \in 0 .. NumLevels
    BY <1>1, <2>1 DEF CmdRec
  <2>3. cmd.type \in {"ADD", "MODIFY"} => cmd.price \in Level
    BY <2>1, <2>2 DEF PriceInRange
  <2>4. /\ mr'.op = op
        /\ mgr' = IF op = "ENQ" THEN "ENQ_GET_SLOT" ELSE "LU"
    BY <2>1, ZeroTyped DEF MgrStart, ZeroRegs
  <2>5. ctl' = CallerOf(op) /\ mgr' \in StatesOf(op)
        /\ cmd.type \in CommandsOf(ctl')
        /\ ctl' \in {"C_ENQ", "C_MODIFY", "C_MGR"}
    BY <2>1, <2>2, <2>4
       DEF CallerOf, StatesOf, Splicing, Linking, Deleting, CommandsOf, MsgType
  <2>6. ValidatedFirst'
    BY <1>3, <2>1, <2>2, <2>3, <2>5 DEF ValidatedFirst
  <2>7. ManagerAtWork'
    BY <1>1, <2>1, <2>4, <2>5 DEF ManagerAtWork, Waiting
  <2> QED BY <2>5, <2>6, <2>7 DEF OneAtATime
<1>7. CASE FastFilled \/ EnqRejected \/ MgrAcked \/ Queried
  <2>1. resp # NoResp /\ resp' = NoResp /\ ctl' \in {"C_SETTLE", "C_ACK"}
        /\ UNCHANGED <<mgr, mat, cmd>>
    BY <1>7 DEF FastFilled, EnqRejected, MgrAcked, Queried, Hears, NoStart,
                mgrVars, matVars, NoResp
  <2> QED BY <1>1, <2>1, HeardAtRest DEF OneAtATime, ValidatedFirst
<1>8. CASE FastRemainder
  <2>1. /\ resp # NoResp /\ resp.kind = "match" /\ resp' = NoResp
        /\ ctl = "C_FAST" /\ ctl' = "C_ENQ"
        /\ mat' = mat /\ cmd' = [cmd EXCEPT !.qty = resp.qty] /\ MgrStart("ENQ")
    BY <1>8 DEF FastRemainder, Hears, matVars, NoResp
  <2>2. cmd \in CmdRec /\ cmd.type = "ADD" /\ cmd.price \in Level
        /\ Mem!InitDone /\ Bpe!InitDone
    BY <1>1, <2>1 DEF CommandsOf
  <2>3. cmd' \in CmdRec /\ cmd'.type = "ADD" /\ cmd'.price \in Level
    BY <1>1, <2>1, <2>2, RespFields DEF CmdRec
  <2>4. mr'.op = "ENQ" /\ mgr' = "ENQ_GET_SLOT"
    BY <2>1, ZeroTyped DEF MgrStart, ZeroRegs
  <2>5. ValidatedFirst'
    BY <1>3, <2>1, <2>2, <2>3 DEF ValidatedFirst, CommandsOf
  <2>6. ManagerAtWork'
    BY <2>1, <2>4, HeardAtRest DEF ManagerAtWork, StatesOf, CallerOf
  <2> QED BY <2>1, <2>5, <2>6 DEF OneAtATime
<1>9. CASE Enqueued \/ Moved
  <2>1. /\ resp # NoResp /\ resp' = NoResp /\ ctl \in {"C_ENQ", "C_MODIFY"}
        /\ ctl' = "C_DRAIN" /\ mat' = "M_CHECK" /\ UNCHANGED <<mgr, cmd>>
    BY <1>9 DEF Enqueued, Moved, Hears, StartDrain, MatStart, mgrVars, NoResp
  <2>2. ValidatedFirst'
    BY <1>1, <1>3, <2>1 DEF ValidatedFirst, CommandsOf
  <2>3. MatcherAtWork'
    BY <2>1, HeardAtRest DEF MatcherAtWork, DrainStates
  <2> QED BY <2>1, <2>2, <2>3 DEF OneAtATime
<1>10. CASE Drained
  <2>1. /\ resp # NoResp /\ resp' = NoResp /\ ctl = "C_DRAIN"
        /\ ctl' = "C_QUERY" /\ MgrStart("QUERY") /\ UNCHANGED <<mat, cmd>>
    BY <1>10 DEF Drained, Hears, matVars, NoResp
  <2>2. mr'.op = "QUERY" /\ mgr' = "LU"
    BY <2>1, ZeroTyped DEF MgrStart, ZeroRegs
  <2>3. ValidatedFirst'
    BY <1>1, <1>3, <2>1 DEF ValidatedFirst, CommandsOf
  <2>4. ManagerAtWork'
    BY <2>1, <2>2, HeardAtRest DEF ManagerAtWork, StatesOf, CallerOf
  <2> QED BY <2>1, <2>3, <2>4 DEF OneAtATime
<1> QED BY <1>4, <1>5, <1>6, <1>7, <1>8, <1>9, <1>10 DEF CtlStep

\* The controller goes on only where no scan can be running, or to a state that
\* waits for it.
LEMMA ControllerSettled ==
    ASSUME IInv, CtlStep
    PROVE  SettledWhenUsed'
<1>1. best' = best /\ initIdx' = initIdx
  BY ControllerKeepsBook DEF bpeVars
<1>2. SUFFICES ASSUME NEW s \in Side, Bpe!Busy(s)
               PROVE  MayScan(s)'
  BY <1>1 DEF SettledWhenUsed, Bpe!Busy
<1>3. MayScan(s)
  BY <1>2 DEF IInv, SettledWhenUsed
<1>4. CASE MgrAcked
  BY <1>4 DEF MgrAcked, MayScan
<1>5. CASE Moved
  BY <1>5 DEF Moved, StartDrain, MatStart, MayScan
<1>6. CASE Settle
  BY <1>2, <1>6 DEF Settle, Bpe!RefreshBusy
<1>7. CASE FastFilled \/ FastRemainder \/ Drained
  <2>1. ctl \in {"C_FAST", "C_DRAIN"} /\ mat = "M_IDLE"
    BY <1>7, HeardAtRest DEF FastFilled, FastRemainder, Drained, Hears, NoResp,
       AtRest
  <2> QED BY <1>3, <2>1 DEF MayScan
<1>8. CASE \/ ValidateReject \/ ValidateFast \/ ValidateManager \/ EnqRejected
           \/ Enqueued \/ Queried \/ SendAck
  BY <1>3, <1>8
     DEF ValidateReject, ValidateFast, ValidateManager, Validating, EnqRejected,
         Enqueued, Queried, SendAck, Hears, MayScan
<1> QED BY <1>4, <1>5, <1>6, <1>7, <1>8 DEF CtlStep

-----------------------------------------------------------------------------
(* The host, the clock edges no FSM decides, the reset button.               *)

\* A command is taken from the host only between commands.
LEMMA AcceptKeeps ==
    ASSUME IInv, NEW c \in Command, Accept(c)
    PROVE  IInv'
<1>1. /\ ctl = "C_IDLE" /\ ctl' = "C_VALIDATE" /\ cmd' = c /\ sent' = c.ts
      /\ trades' = <<>> /\ sent < MaxCommands
      /\ UNCHANGED <<memVars, bpeVars, lvl, ids, resp, ack, mgrVars, matVars>>
  BY DEF Accept, NoStart
<1>2. TypeOK /\ sent \in 0 .. MaxCommands /\ AtRest /\ resp = NoResp
  BY <1>1 DEF IInv, TypeOK, ControlTypeOK, OneAtATime, Waiting
<1>3. c.ts = sent + 1 /\ c \in CmdRec
  <2>1. c \in [type : MsgType, side : Side, id : Ids, price : HostPrices,
               qty : Qty, ts : {sent + 1}]
    BY DEF Command
  <2>2. sent + 1 \in Nat
    BY <1>2, BoundAssumption
  <2>3. c.price \in 0 .. NumLevels
    BY <2>1, BoundAssumption
  <2>4. c = [type |-> c.type, side |-> c.side, id |-> c.id, price |-> c.price,
             qty |-> c.qty, ts |-> c.ts]
    BY <2>1
  <2> QED BY <2>1, <2>2, <2>3, <2>4 DEF CmdRec
<1>4. Bpe!TypeOK'
  BY <1>1, <1>2, EncoderTyped DEF TypeOK, bpeVars, Bpe!vars
<1>5. TypeOK'
  BY <1>1, <1>2, <1>3, <1>4, BoundAssumption
     DEF TypeOK, MemoryTypeOK, ManagerTypeOK, MatcherTypeOK, ControlTypeOK,
         memVars, mgrVars, matVars, CtlState
<1>6. OneAtATime'
  BY <1>1, <1>2 DEF OneAtATime, AtRest, Waiting, mgrVars, matVars
<1>7. ValidatedFirst'
  BY <1>1, <1>3 DEF ValidatedFirst, Waiting
<1>8. SettledWhenUsed'
  <2>1. \A s \in Side : ~Bpe!Busy(s)
    BY <1>1 DEF IInv, SettledWhenUsed, MayScan
  <2> QED BY <1>1, <2>1 DEF SettledWhenUsed, bpeVars, Bpe!Busy
<1> QED BY <1>5, <1>6, <1>7, <1>8 DEF IInv

\* Initialization and scan edges change neither who works nor what is awaited.
LEMMA BackgroundKeeps ==
    ASSUME IInv, Background
    PROVE  IInv' /\ [Bpe!Next]_(Bpe!vars)
<1>1. UNCHANGED Others
  BY DEF Background, MemInit, EncoderInit, Scan, Others
<1>2. /\ UNCHANGED <<lvl, ids, resp, trades, mgr, mr, mat, xr, ctl, cmd, ack, sent>>
  BY <1>1 DEF Others, mgrVars, matVars, ctlVars
<1>3. [Bpe!Next]_(Bpe!vars)
  BY DEF Background, MemInit, EncoderInit, Scan, Bpe!Next, Bpe!NextEdge,
     bpeVars, Bpe!vars
<1>4. Bpe!TypeOK /\ Bpe!TypeOK' /\ MemoryTypeOK
  BY <1>3, EncoderTyped DEF IInv, TypeOK
<1>5. /\ MemoryTypeOK' /\ (Mem!InitDone => Mem!InitDone')
  <2>1. CASE MemInit
    <3>1. free' = Append(free, initCnt) /\ initCnt' = initCnt + 1 /\ pool' = pool
          /\ initCnt # MaxOrders
      BY <2>1 DEF MemInit, Mem!InitEdge, Mem!InitDone
    <3>2. initCnt \in Slot /\ initCnt' \in 1 .. MaxOrders
      BY <1>4, <3>1 DEF MemoryTypeOK
    <3>3. free' \in Seq(Slot)
      BY <1>4, <3>1, <3>2 DEF MemoryTypeOK
    <3> QED BY <1>2, <1>4, <3>1, <3>2, <3>3 DEF MemoryTypeOK, Mem!InitDone
  <2>2. CASE ~MemInit
    <3>1. UNCHANGED memVars
      BY <2>2 DEF Background, EncoderInit, Scan
    <3> QED BY <1>2, <1>4, <3>1 DEF MemoryTypeOK, Mem!InitDone, memVars
  <2> QED BY <2>1, <2>2
<1>6. Bpe!InitDone => Bpe!InitDone'
  BY DEF Background, MemInit, EncoderInit, Scan, Bpe!InitEdge, Bpe!IdleEdge,
         Bpe!Edge, Bpe!InitDone, bpeVars
<1>7. TypeOK'
  BY <1>2, <1>4, <1>5
     DEF IInv, TypeOK, ManagerTypeOK, MatcherTypeOK, ControlTypeOK
<1>8. OneAtATime' /\ ValidatedFirst'
  BY <1>2, <1>5, <1>6
     DEF IInv, OneAtATime, ValidatedFirst, Waiting, ManagerAtWork,
        MatcherAtWork, AtRest
<1>9. SettledWhenUsed'
  <2>1. \A s \in Side : Bpe!Busy(s)' => Bpe!Busy(s)
    BY <1>4, BusyEdge
       DEF Background, MemInit, EncoderInit, Scan, bpeVars, Bpe!Busy
  <2>2. \A s \in Side : MayScan(s) => MayScan(s)'
    BY <1>2 DEF MayScan, Passive
  <2> QED BY <2>1, <2>2 DEF IInv, SettledWhenUsed
<1> QED BY <1>3, <1>7, <1>8, <1>9 DEF IInv

\* A reset stops everybody, whatever was going on.
LEMMA ResetKeeps ==
    ASSUME IInv, Reset
    PROVE  IInv' /\ [Bpe!Next]_(Bpe!vars)
<1>1. [Bpe!Next]_(Bpe!vars)
  BY DEF Reset, Bpe!Next
<1>2. Bpe!TypeOK' /\ TypeOK
  BY <1>1, EncoderTyped DEF IInv, TypeOK
<1>3. MemoryTypeOK'
  <2>1. pool' = pool /\ free' = <<>> /\ initCnt' = 1 /\ lvl' = lvl /\ ids' = ids
    BY DEF Reset, Mem!Reset
  <2> QED BY <1>2, <2>1 DEF TypeOK, MemoryTypeOK
<1>4. TypeOK'
  <2>1. ManagerTypeOK' /\ MatcherTypeOK'
    BY ZeroTyped DEF Reset, ManagerTypeOK, MatcherTypeOK, MgrState, MatState
  <2>2. sent' \in 0 .. MaxCommands
    BY <1>2 DEF Reset, TypeOK, ControlTypeOK
  <2>3. ZeroAck \in AckRec
    BY DEF ZeroAck, AckRec, AckStatus, Qty
  <2>4. ControlTypeOK'
    <3>1. /\ ctl' = "C_IDLE" /\ cmd' = ZeroCmd /\ ack' = ZeroAck
          /\ resp' = NoResp /\ trades' = <<>>
      BY DEF Reset
    <3>2. trades' \in Seq(TradeRec)
      BY <3>1
    <3> QED BY <2>2, <2>3, <3>1, <3>2, RespTyped DEF ControlTypeOK, CtlState
  <2> QED BY <1>2, <1>3, <2>1, <2>4 DEF TypeOK
<1>5. OneAtATime' /\ ValidatedFirst'
  BY DEF Reset, OneAtATime, ValidatedFirst, Waiting, AtRest
<1>6. SettledWhenUsed'
  BY DEF Reset, Bpe!Reset, Bpe!ResetRegs, Bpe!Busy, SettledWhenUsed
<1> QED BY <1>1, <1>4, <1>5, <1>6 DEF IInv

-----------------------------------------------------------------------------
(* The engine.                                                               *)

\* Every step of the engine keeps the invariant and uses the encoder as the
\* encoder's specification allows.
LEMMA EngineKeeps ==
    ASSUME IInv, [Next]_vars
    PROVE  IInv' /\ [Bpe!Next]_(Bpe!vars)
<1>1. ASSUME NEW c \in Command, Accept(c)
      PROVE  IInv' /\ [Bpe!Next]_(Bpe!vars)
  BY <1>1, AcceptKeeps DEF Accept, bpeVars, Bpe!vars
<1>2. CASE CtlStep
  BY <1>2, ControllerTyped, ControllerKeepsTurn, ControllerSettled,
     ControllerKeepsBook DEF IInv, bpeVars, Bpe!vars
<1>3. CASE MgrStep /\ UNCHANGED <<matVars, ctlVars>>
  <2>1. [Bpe!Next]_(Bpe!vars) /\ Bpe!TypeOK'
    BY <1>3, ManagerDrivesEncoder, EncoderTyped DEF IInv, TypeOK
  <2>2. TypeOK'
    <3>1. UNCHANGED <<mat, xr, ctl, cmd, ack, sent>>
      BY <1>3 DEF matVars, ctlVars
    <3> QED BY <1>3, <2>1, <3>1, ManagerMemoryTyped, ManagerRegsTyped,
       ManagerWordsTyped
            DEF IInv, TypeOK, MatcherTypeOK, ControlTypeOK
  <2> QED BY <1>3, <2>1, <2>2, ManagerKeepsTurn, ManagerSettled DEF IInv
<1>4. CASE MatStep /\ UNCHANGED <<mgrVars, ctlVars>>
  <2>1. [Bpe!Next]_(Bpe!vars) /\ Bpe!TypeOK' /\ SettledWhenUsed'
    BY <1>4, MatcherSettled, EncoderTyped DEF IInv, TypeOK
  <2>2. TypeOK'
    <3>1. UNCHANGED <<mgr, mr, ctl, cmd, ack, sent>>
      BY <1>4 DEF mgrVars, ctlVars
    <3> QED BY <1>4, <2>1, <3>1, MatcherMemoryTyped, MatcherRegsTyped
            DEF IInv, TypeOK, ManagerTypeOK, ControlTypeOK
  <2> QED BY <1>4, <2>1, <2>2, MatcherKeepsTurn DEF IInv
<1>5. CASE Background
  BY <1>5, BackgroundKeeps
<1>6. CASE Reset
  BY <1>6, ResetKeeps
<1>7. CASE UNCHANGED vars
  <2>1. UNCHANGED <<pool, free, initCnt, occ, best, initIdx, lvl, ids, resp, trades,
                    mgr, mr, mat, xr, ctl, cmd, ack, sent>>
    BY <1>7 DEF vars, memVars, bpeVars, mgrVars, matVars, ctlVars
  <2>2. [Bpe!Next]_(Bpe!vars) /\ Bpe!TypeOK'
    BY <2>1, EncoderTyped DEF IInv, TypeOK, Bpe!vars
  <2>3. TypeOK'
    BY <2>1, <2>2 DEF IInv, TypeOK, MemoryTypeOK, ManagerTypeOK, MatcherTypeOK,
                      ControlTypeOK
  <2>4. OneAtATime' /\ ValidatedFirst'
    BY <2>1 DEF IInv, OneAtATime, ValidatedFirst, Waiting, ManagerAtWork,
                MatcherAtWork, AtRest, Mem!InitDone, Bpe!InitDone
  <2>5. SettledWhenUsed'
    BY <2>1 DEF IInv, SettledWhenUsed, MayScan, Bpe!Busy, Passive
  <2> QED BY <2>2, <2>3, <2>4, <2>5 DEF IInv
<1> QED BY <1>1, <1>2, <1>3, <1>4, <1>5, <1>6, <1>7 DEF Next, EngineStep

\* The invariant holds of every initial state.
LEMMA EngineInit == Init => IInv /\ Bpe!Init
<1>1. Init => OneAtATime /\ ValidatedFirst /\ SettledWhenUsed
  BY DEF Init, OneAtATime, ValidatedFirst, SettledWhenUsed, Waiting, AtRest,
         Bpe!Busy, Bpe!ResetRegs
<1>2. Init => Bpe!Init
  BY DEF Init, Bpe!Init
<1> QED BY <1>1, <1>2, TypeInit DEF IInv

\* The inductive invariant of the engine.
LEMMA Invariance == Spec => []IInv
BY EngineInit, EngineKeeps, PTL DEF Spec

\* Registers and memories keep their types: every slot, level and price the
\* engine uses as an address is in range.
THEOREM TypeCorrect == Spec => []TypeOK
BY Invariance, PTL DEF IInv

\* Manager and matcher never run together, and while the controller waits
\* somebody works for it or the pulse it listens for is pending.
THEOREM OneActor == Spec => []OneAtATime
BY Invariance, PTL DEF IInv

\* Nobody works for a command that was not validated after initialization.
THEOREM ValidatedBeforeUse == Spec => []ValidatedFirst
BY Invariance, PTL DEF IInv

\* A scan runs only where nobody relies on the prices.
THEOREM ScansAreWaitedFor == Spec => []SettledWhenUsed
BY Invariance, PTL DEF IInv

\* The engine is an environment the encoder's specification allows.
THEOREM EncoderUsedAsSpecified == Spec => EncoderContract
BY EngineInit, EngineKeeps, Invariance, PTL DEF Spec, EncoderContract, Bpe!Spec

\* So in the engine, too, a settled side reports its best occupied level, for
\* every number of levels, orders and ids, through every command and reset.
THEOREM EngineBestIsExact == Spec => []Bpe!SettledIsBest
<1>1. Spec => Encoder!Spec
  BY EncoderUsedAsSpecified, EncoderSame, PTL
     DEF EncoderContract, Bpe!Spec, Encoder!Spec
<1>2. Encoder!SettledIsBest => Bpe!SettledIsBest
  BY DEF Encoder!SettledIsBest, Bpe!SettledIsBest, Encoder!InitDone, Bpe!InitDone,
         Encoder!Busy, Bpe!Busy, Encoder!Better, Bpe!Better, Encoder!Side
<1> QED BY <1>1, <1>2, Encoder!BestIsExact, PTL

-----------------------------------------------------------------------------
(* The state of the book.                                                    *)

\* A host that does not splice stale heads, and resets of an empty book.
ScopeOfBook == ~SpliceStaleHeads /\ WarmReset # "any time"

\* What the steps below start from.
Sound == IInv /\ Bpe!IInv /\ BookInv

\* What a sound state says about memories, slots and orders.
LEMMA Facts ==
    ASSUME Sound
    PROVE  /\ pool \in Pools /\ lvl \in Tables /\ View \in Pools
           /\ Slots(Mapped) /\ Slots(Resting) /\ Resting \subseteq Mapped
           /\ AreFifos(Resting, View, lvl)
           /\ Mem!InitDone => Mem!Held = Resting \union InHand
           /\ \A i \in Ids : ids[i] \in Slot
           /\ \A i, j \in Ids : ids[i] = ids[j] /\ ids[i] # NULL => i = j
           /\ \A i \in Ids : ids[i] \in Resting => pool[ids[i]].id = i
           /\ \A x \in Mapped : x \in Slot \ {NULL} /\ \E i \in Ids : ids[i] = x
           /\ \A x \in Resting : /\ x \in Slot \ {NULL} /\ pool[x] \in OrderRec
                                 /\ \E i \in Ids : ids[i] = x /\ pool[x].id = i
<1>1. /\ pool \in Pools /\ lvl \in Tables /\ ids \in [Ids -> Slot]
      /\ mr \in MgrRegs /\ mat \in MatState
  BY DEF Sound, IInv, TypeOK, MemoryTypeOK, ManagerTypeOK, MatcherTypeOK, Pools, Tables
<1>2. SlotsAccountedFor /\ QueuesAreFifos
  BY DEF Sound, BookInv
<1>3. View \in Pools
  <2>1. mr.order \in OrderRec /\ mr.level \in LevelRec /\ mr.new \in LevelRec
    BY <1>1 DEF MgrRegs
  <2>2. /\ Target.tail \in Slot /\ mr.order.next \in Slot /\ mr.order.prev \in Slot
        /\ 0 \in Slot
    BY <2>1 DEF Target, LevelRec, OrderRec
  <2>3. \A x \in Slot, y \in Slot :
          /\ [pool EXCEPT ![x].next = y] \in Pools
          /\ [pool EXCEPT ![x].prev = y] \in Pools
    BY <1>1 DEF Pools, OrderRec
  <2> QED BY <1>1, <2>2, <2>3 DEF View
<1>4. Mapped \subseteq Slot \ {NULL} /\ Resting \subseteq Mapped
  BY <1>1 DEF Mapped, Resting
<1>5. \A x \in Mapped : x \in Slot \ {NULL} /\ \E i \in Ids : ids[i] = x
  BY <1>1 DEF Mapped
<1>6. \A i \in Ids : ids[i] \in Resting => pool[ids[i]].id = i
  BY <1>2 DEF SlotsAccountedFor
<1>7. \A x \in Resting : pool[x] \in OrderRec
  BY <1>1, <1>4 DEF Pools
<1>8. Slots(Mapped) /\ Slots(Resting)
  BY <1>4 DEF Slots
<1>9. /\ AreFifos(Resting, View, lvl)
      /\ Mem!InitDone => Mem!Held = Resting \union InHand
      /\ \A i, j \in Ids : ids[i] = ids[j] /\ ids[i] # NULL => i = j
  BY <1>2 DEF QueuesAreFifos, SlotsAccountedFor
<1>10. \A i \in Ids : ids[i] \in Slot
  BY <1>1
<1>11. ASSUME NEW x \in Resting
       PROVE  /\ x \in Slot \ {NULL} /\ pool[x] \in OrderRec
              /\ \E i \in Ids : ids[i] = x /\ pool[x].id = i
  <2>1. x \in Mapped
    BY <1>4
  <2>2. PICK i \in Ids : ids[i] = x
    BY <1>5, <2>1
  <2>3. pool[x].id = i
    BY <1>6, <2>2
  <2> QED BY <1>5, <1>7, <2>1, <2>2, <2>3
<1> QED BY <1>1, <1>3, <1>4, <1>5, <1>6, <1>8, <1>9, <1>10, <1>11

-----------------------------------------------------------------------------
(* The free stack, as the order memory alone keeps it (OrderStorageProofs).    *)

\* A stack of distinct slots that is not yet full of slot x: pushing x keeps
\* them distinct.
LEMMA PushDistinct ==
    ASSUME NEW f \in Seq(Slot \ {NULL}), NEW x \in Slot \ {NULL},
           \A m, n \in 1 .. Len(f) : f[m] = f[n] => m = n,
           \A n \in 1 .. Len(f) : f[n] # x
    PROVE  /\ Append(f, x) \in Seq(Slot \ {NULL})
           /\ \A m, n \in 1 .. Len(Append(f, x)) :
                Append(f, x)[m] = Append(f, x)[n] => m = n
PROOF OBVIOUS

\* Popping keeps the rest as it was.
LEMMA PopIsPrefix ==
    ASSUME NEW f \in Seq(Slot \ {NULL}), f # <<>>
    PROVE  LET p == SubSeq(f, 1, Len(f) - 1)
           IN  /\ p \in Seq(Slot \ {NULL})
               /\ Len(p) = Len(f) - 1
               /\ \A n \in 1 .. Len(p) : p[n] = f[n]
<1> DEFINE p == SubSeq(f, 1, Len(f) - 1)
<1>1. Len(f) \in Nat \ {0}
  OBVIOUS
<1>2. \A n \in 1 .. Len(f) - 1 : f[n] \in Slot \ {NULL}
  OBVIOUS
<1>3. /\ p \in Seq(Slot \ {NULL})
      /\ Len(p) = IF 1 <= Len(f) - 1 THEN Len(f) - 1 - 1 + 1 ELSE 0
      /\ \A n \in 1 .. Len(f) - 1 - 1 + 1 : p[n] = f[1 + n - 1]
  BY <1>1, <1>2, SubSeqProperties
<1>4. Len(p) = Len(f) - 1
  <2> DEFINE len == Len(p)
             k   == Len(f)
  <2>1. k \in Nat \ {0} /\ len = IF 1 <= k - 1 THEN k - 1 - 1 + 1 ELSE 0
    BY <1>1, <1>3
  <2> HIDE DEF len, k
  <2>2. len = k - 1
    BY <2>1
  <2> QED
    BY <2>2 DEF len, k
<1>5. ASSUME NEW n \in 1 .. Len(p)
      PROVE  p[n] = f[n]
  <2>1. n \in 1 .. Len(f) - 1 - 1 + 1 /\ 1 + n - 1 = n
    BY <1>1, <1>4
  <2> QED
    BY <2>1, <1>3
<1> QED
  BY <1>3, <1>4, <1>5

\* Every clock edge keeps the invariant: the initialization pushes a slot above
\* all earlier ones, an allocation shortens the stack, a push returns a slot
\* that is not on it.
LEMMA MemoryInductive == Mem!IInv /\ [Mem!Next]_memVars => Mem!IInv'
<1> SUFFICES ASSUME Mem!IInv, [Mem!Next]_memVars
             PROVE  Mem!IInv'
  OBVIOUS
<1> USE DEF Mem!IInv
<1>m. MaxOrders \in Nat /\ MaxOrders > 1
  BY PoolAssumption
<1>1. CASE Mem!InitEdge
  <2>1. initCnt \in Slot \ {NULL} /\ initCnt' \in 1 .. MaxOrders
    BY <1>1, <1>m DEF Mem!InitEdge, Mem!InitDone, Mem!TypeOK, Slot, NULL
  <2>2. \A n \in 1 .. Len(free) : free[n] # initCnt
    BY <1>m DEF Mem!InitInOrder, Mem!TypeOK, Slot, NULL
  <2>3. Mem!NoSlotTwice' /\ free' \in Seq(Slot \ {NULL})
    BY <1>1, <2>1, <2>2, PushDistinct DEF Mem!InitEdge, Mem!NoSlotTwice, Mem!TypeOK
  <2>4. Mem!InitInOrder'
    <3> SUFFICES ASSUME NEW n \in 1 .. Len(free')
                 PROVE  free'[n] < initCnt'
      BY DEF Mem!InitInOrder
    <3>1. free' = Append(free, initCnt) /\ initCnt' = initCnt + 1
      BY <1>1 DEF Mem!InitEdge
    <3>2. CASE n = Len(free) + 1
      BY <3>1, <3>2, <1>m DEF Mem!TypeOK
    <3>3. CASE n \in 1 .. Len(free)
      <4>1. free'[n] = free[n] /\ free[n] < initCnt /\ free[n] \in Slot
        BY <3>1, <3>3 DEF Mem!InitInOrder, Mem!TypeOK
      <4> QED
        BY <4>1, <3>1, <1>m DEF Mem!TypeOK, Slot
    <3> QED
      BY <3>1, <3>2, <3>3 DEF Mem!TypeOK
  <2> QED
    BY <1>1, <2>1, <2>3, <2>4 DEF Mem!InitEdge, Mem!TypeOK
<1>2. CASE Mem!Alloc
  <2>1. free # <<>>
    BY <1>2 DEF Mem!Alloc, Mem!FreeEmpty
  <2>2. /\ free' \in Seq(Slot \ {NULL})
        /\ Len(free') = Len(free) - 1
        /\ \A n \in 1 .. Len(free') : free'[n] = free[n]
    BY <1>2, <2>1, PopIsPrefix DEF Mem!Alloc, Mem!TypeOK
  <2>3. \A n \in 1 .. Len(free') : n \in 1 .. Len(free)
    BY <2>2 DEF Mem!TypeOK
  <2> QED
    BY <1>2, <2>2, <2>3 DEF Mem!Alloc, Mem!TypeOK, Mem!NoSlotTwice, Mem!InitInOrder
<1>3. ASSUME NEW slot \in Mem!Held, Mem!Push(slot), UNCHANGED pool
      PROVE  Mem!IInv'
  <2>1. slot \in Slot \ {NULL} /\ \A n \in 1 .. Len(free) : free[n] # slot
    BY DEF Mem!Held, Mem!FreeSlots
  <2>2. Mem!NoSlotTwice' /\ free' \in Seq(Slot \ {NULL})
    BY <1>3, <2>1, PushDistinct DEF Mem!Push, Mem!NoSlotTwice, Mem!TypeOK
  <2>3. Mem!InitInOrder'
    <3>1. initCnt' = MaxOrders
      BY <1>3 DEF Mem!Push, Mem!InitDone
    <3>2. \A n \in 1 .. Len(free') : free'[n] \in Slot
      BY <2>2
    <3> QED
      BY <3>1, <3>2, <1>m DEF Mem!InitInOrder, Slot
  <2> QED
    BY <1>3, <2>2, <2>3 DEF Mem!Push, Mem!TypeOK
<1>4. ASSUME NEW slot \in Mem!Held, NEW rec \in OrderRec,
             Mem!Write(slot, rec), UNCHANGED <<free, initCnt>>
      PROVE  Mem!IInv'
  BY <1>4 DEF Mem!Held, Mem!Write, Mem!TypeOK, Mem!NoSlotTwice, Mem!InitInOrder
<1>5. CASE Mem!Reset
  BY <1>5, <1>m DEF Mem!Reset, Mem!TypeOK, Mem!NoSlotTwice, Mem!InitInOrder
<1>6. CASE UNCHANGED memVars
  BY <1>6 DEF memVars, Mem!TypeOK, Mem!NoSlotTwice, Mem!InitInOrder
<1> QED
  BY <1>1, <1>2, <1>3, <1>4, <1>5, <1>6 DEF Mem!Next

\* A stack of distinct slots is as high as the set of its slots is large.
LEMMA StackHeight ==
    ASSUME Mem!IInv
    PROVE  /\ IsFiniteSet(Mem!FreeSlots)
           /\ Cardinality(Mem!FreeSlots) = Len(free)
<1>1. Len(free) \in Nat
  BY DEF Mem!IInv, Mem!TypeOK
<1>2. IsFiniteSet(1 .. Len(free)) /\ Cardinality(1 .. Len(free)) = Len(free)
  BY <1>1, FS_Interval
<1>3. free \in Bijection(1 .. Len(free), Mem!FreeSlots)
  <2>1. free \in [1 .. Len(free) -> Mem!FreeSlots]
    BY DEF Mem!IInv, Mem!TypeOK, Mem!FreeSlots
  <2>2. free \in Injection(1 .. Len(free), Mem!FreeSlots)
    BY <2>1 DEF Mem!IInv, Mem!NoSlotTwice, Injection, IsInjective
  <2>3. free \in Surjection(1 .. Len(free), Mem!FreeSlots)
    BY <2>1 DEF Surjection, Mem!FreeSlots
  <2> QED
    BY <2>2, <2>3 DEF Bijection
<1>4. ExistsBijection(1 .. Len(free), Mem!FreeSlots)
  BY <1>3 DEF ExistsBijection
<1> QED
  BY <1>2, <1>4, FS_Bijection

\* num_orders follows from the invariant by counting.
LEMMA StackCounts ==
    ASSUME Mem!IInv, Mem!InitDone
    PROVE  Mem!NumOrders = Cardinality(Mem!Held)
<1>m. MaxOrders \in Nat /\ MaxOrders > 1
  BY PoolAssumption
<1>1. IsFiniteSet(1 .. MaxOrders - 1) /\ Cardinality(1 .. MaxOrders - 1) = MaxOrders - 1
  BY <1>m, FS_Interval
<1>2. Mem!FreeSlots \subseteq 1 .. MaxOrders - 1
  BY <1>m DEF Mem!IInv, Mem!TypeOK, Mem!FreeSlots, Slot, NULL
<1>3. Mem!Held = (1 .. MaxOrders - 1) \ Mem!FreeSlots
  BY <1>m DEF Mem!Held, Slot, NULL
<1>4. (1 .. MaxOrders - 1) \cap Mem!FreeSlots = Mem!FreeSlots
  BY <1>2
<1>5. Cardinality((1 .. MaxOrders - 1) \ Mem!FreeSlots)
        = Cardinality(1 .. MaxOrders - 1)
            - Cardinality((1 .. MaxOrders - 1) \cap Mem!FreeSlots)
  BY <1>1, FS_Difference
<1> QED
  BY <1>1, <1>3, <1>4, <1>5, StackHeight DEF Mem!NumOrders

\* What the invariant of the order memory says about the stack.
LEMMA StackFacts ==
    ASSUME Mem!IInv
    PROVE  /\ free \in Seq(Slot \ {NULL}) /\ Len(free) \in Nat
           /\ \A n \in 1 .. Len(free) : free[n] \in Slot \ {NULL}
           /\ \A m, n \in 1 .. Len(free) : free[m] = free[n] => m = n
           /\ Mem!NoSlotTwice /\ NULL \notin Mem!FreeSlots
           /\ Mem!FreeSlots \subseteq Slot
<1>1. free \in Seq(Slot \ {NULL})
  BY DEF Mem!IInv, Mem!TypeOK
<1>2. Len(free) \in Nat /\ \A n \in 1 .. Len(free) : free[n] \in Slot \ {NULL}
  BY <1>1
<1>3. Mem!NoSlotTwice
  BY DEF Mem!IInv
<1> QED BY <1>1, <1>2, <1>3 DEF Mem!NoSlotTwice, Mem!FreeSlots

\* A step that the order memory allows keeps its invariant.
LEMMA MemoryKept ==
    ASSUME Mem!IInv, [Mem!Next]_memVars
    PROVE  Mem!IInv' /\ Mem!NoSlotTwice' /\ NULL \notin Mem!FreeSlots'
<1>1. Mem!IInv'
  BY MemoryInductive
<1>2. free' \in Seq(Slot \ {NULL}) /\ Mem!NoSlotTwice'
  BY <1>1 DEF Mem!IInv, Mem!TypeOK
<1>3. \A n \in 1 .. Len(free') : free'[n] \in Slot \ {NULL}
  BY <1>2
<1> QED BY <1>1, <1>2, <1>3 DEF Mem!FreeSlots

\* A slot that is given back is no longer held.
LEMMA PushGives ==
    ASSUME Mem!IInv, NEW x \in Slot, Mem!Push(x)
    PROVE  /\ Mem!FreeSlots' = Mem!FreeSlots \union {x}
           /\ Mem!Held' = Mem!Held \ {x}
           /\ Mem!InitDone /\ Mem!InitDone'
<1>1. free' = Append(free, x) /\ Mem!InitDone /\ initCnt' = initCnt
  BY DEF Mem!Push
<1>2. /\ Len(free') = Len(free) + 1 /\ free'[Len(free) + 1] = x
      /\ \A n \in 1 .. Len(free) : free'[n] = free[n]
  BY <1>1, StackFacts
<1>3. Mem!FreeSlots' = Mem!FreeSlots \union {x}
  <2>1. ASSUME NEW n \in 1 .. Len(free') PROVE free'[n] \in Mem!FreeSlots \union {x}
    <3>1. n \in 1 .. Len(free) \/ n = Len(free) + 1
      BY <1>2, StackFacts
    <3> QED BY <1>2, <3>1 DEF Mem!FreeSlots
  <2>2. ASSUME NEW n \in 1 .. Len(free) PROVE free[n] \in Mem!FreeSlots'
    <3>1. n \in 1 .. Len(free') /\ free'[n] = free[n]
      BY <1>2, StackFacts
    <3> QED BY <3>1 DEF Mem!FreeSlots
  <2>3. x \in Mem!FreeSlots'
    <3>1. Len(free) + 1 \in 1 .. Len(free')
      BY <1>2, StackFacts
    <3> QED BY <1>2, <3>1 DEF Mem!FreeSlots
  <2> QED BY <2>1, <2>2, <2>3 DEF Mem!FreeSlots
<1> QED BY <1>1, <1>3 DEF Mem!Held, Mem!InitDone

\* A slot that is allocated was free and is held from now on.
LEMMA AllocTakes ==
    ASSUME Mem!IInv, Mem!Alloc
    PROVE  /\ Mem!TopSlot \in Slot \ {NULL} /\ Mem!TopSlot \notin Mem!Held
           /\ Mem!Held' = Mem!Held \union {Mem!TopSlot}
           /\ Mem!InitDone /\ Mem!InitDone'
<1>1. /\ free # <<>> /\ free' = SubSeq(free, 1, Len(free) - 1)
      /\ Mem!InitDone /\ initCnt' = initCnt
  BY DEF Mem!Alloc, Mem!FreeEmpty
<1>2. /\ Len(free') = Len(free) - 1
      /\ \A n \in 1 .. Len(free') : free'[n] = free[n]
  BY <1>1, StackFacts, PopIsPrefix
<1>3. Len(free) \in 1 .. Len(free)
  BY <1>1, StackFacts
<1>4. Mem!TopSlot \in Slot \ {NULL} /\ Mem!TopSlot \in Mem!FreeSlots
  BY <1>3, StackFacts DEF Mem!TopSlot, Mem!FreeSlots
<1>5. Mem!FreeSlots' = Mem!FreeSlots \ {Mem!TopSlot}
  <2>1. ASSUME NEW n \in 1 .. Len(free')
        PROVE  free'[n] \in Mem!FreeSlots \ {Mem!TopSlot}
    <3>1. n \in 1 .. Len(free) /\ n # Len(free)
      BY <1>2, StackFacts
    <3>2. free[n] # free[Len(free)]
      BY <1>3, <3>1, StackFacts
    <3>3. free'[n] = free[n] /\ free[n] \in Mem!FreeSlots
      BY <1>2, <3>1 DEF Mem!FreeSlots
    <3> QED BY <3>2, <3>3 DEF Mem!TopSlot
  <2>2. ASSUME NEW n \in 1 .. Len(free), free[n] # Mem!TopSlot
        PROVE  free[n] \in Mem!FreeSlots'
    <3>1. n # Len(free)
      BY <2>2 DEF Mem!TopSlot
    <3>2. n \in 1 .. Len(free')
      BY <1>2, <3>1, StackFacts
    <3> QED BY <1>2, <3>2 DEF Mem!FreeSlots
  <2> QED BY <2>1, <2>2 DEF Mem!FreeSlots
<1> QED BY <1>1, <1>4, <1>5 DEF Mem!Held, Mem!InitDone

-----------------------------------------------------------------------------
(* The book through each step of the manager.                                *)

\* What every step of the engine keeps of the book, as the lemmas below show.
BookKept == QueuesAreFifos' /\ SlotsAccountedFor' /\ [Mem!Next]_memVars

\* No order becomes younger, and none joins.
NoneJoins == \A z \in Resting' : z \in Resting /\ pool'[z].ts = pool[z].ts

\* Which slots rest while the manager works.
LEMMA ManagerRests ==
    ASSUME Sound, mgr # "IDLE"
    PROVE  /\ Mem!InitDone /\ Mem!IInv /\ mat = "M_IDLE"
           /\ Dropped = {} /\ Resting = Mapped \ InHand
           /\ cmd \in CmdRec /\ mr \in MgrRegs /\ mr.op \in MgrOp
           /\ mgr \in StatesOf(mr.op) /\ ManagerLatches
<1>1. mat = "M_IDLE" /\ Mem!InitDone /\ cmd \in CmdRec
  BY ManagerFacts DEF Sound, ManagerAtWork
<1>2. Dropped = {}
  BY <1>1 DEF Dropped, Unmapping
<1>3. Resting = Mapped \ InHand
  BY <1>2 DEF Resting
<1> QED BY <1>1, <1>2, <1>3, ManagerServes
     DEF Sound, BookInv, IInv, TypeOK, ManagerTypeOK

\* And after its step.
LEMMA ManagerLeaves ==
    ASSUME Sound, mgr # "IDLE", UNCHANGED <<matVars, ctlVars>>
    PROVE  Dropped' = {} /\ Resting' = Mapped' \ InHand'
<1>1. mat' = "M_IDLE"
  BY ManagerRests DEF matVars
<1>2. Dropped' = {}
  BY <1>1 DEF Dropped, Unmapping
<1> QED BY <1>2 DEF Resting

\* A step that changes neither memories nor what is linked.
LEMMA BookSame ==
    ASSUME Sound, UNCHANGED <<pool, free, initCnt, lvl, ids, Resting, InHand, View>>
    PROVE  BookKept /\ NoneJoins
<1>1. QueuesAreFifos /\ SlotsAccountedFor
  BY DEF Sound, BookInv
<1>2. QueuesAreFifos'
  BY <1>1 DEF QueuesAreFifos
<1>3. SlotsAccountedFor'
  BY <1>1 DEF SlotsAccountedFor, Mem!NoSlotTwice, Mem!FreeSlots, Mem!InitDone, Mem!Held
<1> QED BY <1>2, <1>3 DEF BookKept, NoneJoins, memVars

\* When the id table stays, the accounts are those of the slots.
LEMMA AccountsKept ==
    ASSUME Sound, [Mem!Next]_memVars, ids' = ids, Resting' \subseteq Mapped,
           Mem!InitDone' => Mem!Held' = Resting' \union InHand',
           \A i \in Ids : ids[i] \in Resting' => pool'[ids[i]].id = i
    PROVE  SlotsAccountedFor'
<1>1. Mem!NoSlotTwice' /\ NULL \notin Mem!FreeSlots'
  BY MemoryKept DEF Sound, BookInv
<1>2. \A i, j \in Ids : ids[i] = ids[j] /\ ids[i] # NULL => i = j
  BY Facts
<1> QED BY <1>1, <1>2 DEF SlotsAccountedFor

\* A step of the manager that writes no memory.
LEMMA ManagerReads ==
    ASSUME Sound, MgrStep, UNCHANGED <<matVars, ctlVars>>,
           UNCHANGED <<pool, free, initCnt, lvl, ids>>,
           InHand' = InHand, mgr \notin {"TAIL2", "SP_WR_NEXT2"},
           mgr' \notin {"TAIL2", "SP_WR_NEXT2"}
    PROVE  BookKept /\ NoneJoins
<1>1. mgr # "IDLE"
  BY ManagerSteps
<1>2. Resting' = Resting
  BY <1>1, ManagerRests, ManagerLeaves DEF Mapped
<1>3. View' = View
  BY DEF View
<1> QED BY <1>2, <1>3, BookSame

\* The states that only read or answer.
LEMMA ManagerLooks ==
    ASSUME Sound, UNCHANGED <<matVars, ctlVars>>,
           \/ LookupMiss \/ LookupHit \/ LatchQuery \/ LatchReject
           \/ LatchOrder \/ CanBegin \/ ExTrade \/ MgrAck
           \/ EnqHashMiss \/ LvlRead \/ EnqDone
    PROVE  BookKept /\ NoneJoins
<1> USE DEF Goto, Finish, InHand, Deleting, Linking
<1>1. MgrStep
  BY DEF MgrStep
<1>2. UNCHANGED <<pool, free, initCnt, lvl, ids>>
  BY DEF LookupMiss, LookupHit, LatchQuery, LatchReject, LatchOrder, CanBegin,
         ExTrade, MgrAck, EnqHashMiss, LvlRead, EnqDone, memVars
<1>3. mr \in MgrRegs
  BY <1>1, ManagerSteps, ManagerRests
<1>4. /\ InHand' = InHand /\ mgr \notin {"TAIL2", "SP_WR_NEXT2"}
      /\ mgr' \notin {"TAIL2", "SP_WR_NEXT2"}
  <2>1. CASE LookupMiss \/ LookupHit \/ LatchQuery \/ LatchReject
    BY <2>1 DEF LookupMiss, LookupHit, LatchQuery, LatchReject
  <2>2. CASE LatchOrder \/ CanBegin \/ ExTrade \/ MgrAck
    BY <2>2 DEF LatchOrder, CanBegin, ExTrade, MgrAck
  <2>3. CASE EnqHashMiss \/ EnqDone
    BY <2>3 DEF EnqHashMiss, EnqDone
  <2>4. CASE LvlRead
    <3>1. mr'.slot = mr.slot
      BY <1>3, <2>4 DEF LvlRead, MgrRegs
    <3> QED BY <2>4, <3>1 DEF LvlRead
  <2> QED BY <2>1, <2>2, <2>3, <2>4
<1> QED BY <1>1, <1>2, <1>4, ManagerReads

\* SP_WR_NEXT: the order leaves its level.
LEMMA SpliceUnlinks ==
    ASSUME Sound, UNCHANGED <<matVars, ctlVars>>, SpWrNext
    PROVE  /\ BookKept /\ NoneJoins
           /\ Resting' = Resting \ {mr.slot}
           /\ mr.order.next # NULL => /\ mr.order.next \in Resting'
                                      /\ pool'[mr.order.next] = pool[mr.order.next]
<1> DEFINE x == mr.slot
           o == pool[x]
           y == o.next
           w == o.prev
           v == lvl[o.side][o.price]
           a == SlotsAt(Resting, pool, o.side, o.price)
<1>1. /\ mgr = "SP_WR_NEXT" /\ mgr' = "SP_WR_NEXT2" /\ mr' = mr /\ ids' = ids
      /\ free' = free /\ initCnt' = initCnt
  BY DEF SpWrNext, Goto
<1>2. /\ x # NULL /\ ids[cmd.id] = x
      /\ mr.order = o /\ mr.level = v
      /\ w # NULL => v.head # x
      /\ mr.new = [head |-> IF w = NULL THEN y ELSE v.head,
                   tail |-> IF y = NULL THEN w ELSE v.tail,
                   qty  |-> LevelMinus(v.qty, o.qty)]
      /\ mr.prev = pool[w] /\ mr.next = pool[y]
  BY <1>1, ManagerRests DEF ManagerLatches
<1>3. /\ InHand = {} /\ InHand' = {x} /\ Resting = Mapped /\ View = pool
      /\ Resting' = Resting \ {x} /\ x \in Resting
  <2>1. InHand = {} /\ InHand' = {x} /\ View = pool
    BY <1>1 DEF InHand, Deleting, Linking, View
  <2>2. Mapped' = Mapped
    BY <1>1 DEF Mapped
  <2>3. x \in Mapped
    BY <1>2, ManagerRests, <1>1 DEF Mapped, CmdRec
  <2> QED BY <1>1, <2>1, <2>2, <2>3, ManagerRests, ManagerLeaves
<1>4. /\ AreFifos(Resting, pool, lvl) /\ pool \in Pools /\ lvl \in Tables
      /\ Slots(Resting)
      /\ \A z \in Resting : z \in Slot \ {NULL} /\ pool[z] \in OrderRec
  BY <1>3, Facts
<1>5. o \in OrderRec /\ o.side \in Side /\ o.price \in Level /\ w \in Slot /\ y \in Slot
      /\ o.ts \in Nat
  BY <1>3, <1>4 DEF OrderRec
<1>6. x \in a /\ Slots(a) /\ Records(a, pool) /\ IsFifo(a, pool, v)
  <2>1. x \in a
    BY <1>3 DEF SlotsAt
  <2>2. Slots(a) /\ Records(a, pool)
    BY <1>4, LevelSlots
  <2> QED BY <1>4, <1>5, <2>1, <2>2 DEF AreFifos
<1>7. /\ x # v.tail => y \in a /\ y # v.head /\ o.ts < pool[y].ts
      /\ x = v.tail => y = NULL
      /\ x # v.head => w \in a /\ pool[w].ts < o.ts
      /\ x = v.head <=> w = NULL
      /\ \A z \in a : z \in Resting /\ z # NULL
  <2>1. \A z \in a : z \in Resting /\ z # NULL
    BY <1>6 DEF SlotsAt, Slots
  <2>2. x = v.tail => y = NULL
    BY <1>6 DEF IsFifo
  <2>3. x # v.tail => y \in a /\ y # v.head /\ o.ts < pool[y].ts
    BY <1>6, After
  <2>4. x # v.head => w \in a /\ pool[w].ts < o.ts
    BY <1>6, Before
  <2> QED BY <1>2, <2>1, <2>2, <2>3, <2>4
<1>8. y # NULL => y \in Resting /\ y # x /\ y # w
  <2>1. CASE w = NULL
    BY <1>5, <1>7, <2>1
  <2>2. CASE w # NULL /\ y # NULL
    <3>1. y \in a /\ o.ts < pool[y].ts /\ pool[w].ts < o.ts /\ w \in a
      BY <1>7, <2>2
    <3>2. pool[w].ts \in Nat /\ pool[y].ts \in Nat
      BY <1>6, <3>1 DEF Records
    <3> QED BY <1>5, <1>7, <3>1, <3>2
  <2> QED BY <2>1, <2>2
<1>9. w # NULL => w \in Resting /\ w # x
  <2>1. CASE w # NULL
    <3>1. w \in a /\ pool[w].ts < o.ts
      BY <1>7, <2>1
    <3> QED BY <1>5, <1>7, <3>1
  <2> QED BY <2>1
<1>10. /\ pool' = IF w # NULL THEN [pool EXCEPT ![w] = [pool[w] EXCEPT !.next = y]]
                             ELSE pool
       /\ lvl' = [lvl EXCEPT ![o.side][o.price] = mr.new]
  BY <1>2 DEF SpWrNext, Mem!Write, WriteLevel
<1>11. View' = IF y # NULL THEN [pool' EXCEPT ![y].prev = w] ELSE pool'
  BY <1>1, <1>2 DEF View
<1>12. \A z \in Slot : pool'[z] = IF w # NULL /\ z = w
                                  THEN [pool[z] EXCEPT !.next = y] ELSE pool[z]
  BY <1>4, <1>10 DEF Pools
<1>13. pool' \in Pools
  <2>1. w # NULL => [pool[w] EXCEPT !.next = y] \in OrderRec
    BY <1>4, <1>5, <1>9 DEF OrderRec
  <2> QED BY <1>4, <1>5, <1>10, <2>1 DEF Pools
<1>14. \A z \in Slot : View'[z] = IF y # NULL /\ z = y
                                  THEN [pool'[z] EXCEPT !.prev = w] ELSE pool'[z]
  BY <1>11, <1>13 DEF Pools
<1> HIDE DEF a, v, y, w, o, x
<1>15. Removes(Resting, pool, lvl, x, View', mr.new)
  <2>1. \A z \in Resting \ {x} :
          /\ x # v.head /\ z = w => View'[z] = [pool[z] EXCEPT !.next = y]
          /\ z = y => View'[z] = [pool[z] EXCEPT !.prev = w]
          /\ (x = v.head \/ z # w) /\ z # y => View'[z] = pool[z]
    BY <1>4, <1>7, <1>8, <1>9, <1>12, <1>14
  <2>2. /\ mr.new.head = IF x = v.head THEN y ELSE v.head
        /\ mr.new.tail = IF x # v.tail THEN v.tail ELSE IF x = v.head THEN NULL ELSE w
        /\ mr.new.qty = LevelMinus(v.qty, o.qty)
    BY <1>2, <1>7
  <2> QED BY <2>1, <2>2 DEF Removes, v, y, w, o
<1>16. AreFifos(Resting', View', lvl')
  <2>1. AreFifos(Resting \ {x}, View',
                 [lvl EXCEPT ![pool[x].side][pool[x].price] = mr.new])
    BY <1>3, <1>4, <1>15, FifosWithout
  <2> QED BY <1>3, <1>10, <2>1 DEF o
<1>17. \A z \in Resting : /\ pool'[z].id = pool[z].id /\ pool'[z].ts = pool[z].ts
  BY <1>4, <1>12 DEF OrderRec
<1>18. [Mem!Next]_memVars
  <2>1. CASE w = NULL
    BY <1>1, <1>10, <2>1 DEF memVars
  <2>2. CASE w # NULL
    <3>1. w \in Mem!Held
      BY <1>1, <1>3, <1>9, <2>2, Facts, ManagerRests
    <3>2. [pool[w] EXCEPT !.next = y] \in OrderRec
      BY <1>4, <1>5, <1>9, <2>2 DEF OrderRec
    <3>3. Mem!Write(w, [pool[w] EXCEPT !.next = y])
      BY <1>10, <2>2 DEF Mem!Write
    <3> QED BY <1>1, <3>1, <3>2, <3>3 DEF Mem!Next
  <2> QED BY <2>1, <2>2
<1>19. SlotsAccountedFor'
  <2>1. Mem!Held' = Resting' \union InHand'
    <3>1. Mem!Held' = Mem!Held
      BY <1>1 DEF Mem!Held, Mem!FreeSlots
    <3>2. Mem!Held = Resting
      BY <1>1, <1>3, Facts, ManagerRests
    <3> QED BY <1>3, <3>1, <3>2
  <2>2. \A i \in Ids : ids[i] \in Resting' => pool'[ids[i]].id = i
    BY <1>3, <1>17, Facts
  <2> QED BY <1>1, <1>3, <1>18, <2>1, <2>2, AccountsKept
<1> QED BY <1>2, <1>3, <1>8, <1>12, <1>4, <1>16, <1>17, <1>18, <1>19
     DEF BookKept, NoneJoins, QueuesAreFifos, x, y, o

\* SP_WR_NEXT2: its successor's link follows.
LEMMA SpliceRelinks ==
    ASSUME Sound, UNCHANGED <<matVars, ctlVars>>, SpWrNext2
    PROVE  BookKept /\ NoneJoins
<1> DEFINE y == mr.order.next
           w == mr.order.prev
<1>1. /\ mgr = "SP_WR_NEXT2" /\ mgr' \in {"RE_LVL", "DEL_HASH"} /\ mr' = mr
      /\ ids' = ids /\ lvl' = lvl /\ free' = free /\ initCnt' = initCnt
  BY DEF SpWrNext2, Goto, AfterSplice
<1>2. y # NULL => y \in Resting /\ mr.next = pool[y]
  BY <1>1, ManagerRests DEF ManagerLatches
<1>3. w \in Slot /\ y \in Slot
  BY <1>1, ManagerRests DEF MgrRegs, OrderRec
<1>4. /\ InHand' = InHand /\ Resting' = Resting
  <2>1. InHand' = InHand
    BY <1>1 DEF InHand, Deleting, Linking
  <2>2. Mapped' = Mapped
    BY <1>1 DEF Mapped
  <2> QED BY <1>1, <2>1, <2>2, ManagerRests, ManagerLeaves
<1>5. /\ pool \in Pools /\ AreFifos(Resting, View, lvl)
      /\ \A z \in Resting : z \in Slot \ {NULL} /\ pool[z] \in OrderRec
  BY Facts
<1>6. pool' = IF y # NULL THEN [pool EXCEPT ![y] = [pool[y] EXCEPT !.prev = w]]
                          ELSE pool
  BY <1>2 DEF SpWrNext2, Mem!Write
<1>7. View' = pool' /\ View = pool'
  <2>1. View' = pool'
    BY <1>1 DEF View
  <2>2. View = IF y # NULL THEN [pool EXCEPT ![y].prev = w] ELSE pool
    BY <1>1 DEF View
  <2> QED BY <1>6, <2>1, <2>2
<1>8. \A z \in Resting : pool'[z].id = pool[z].id /\ pool'[z].ts = pool[z].ts
  BY <1>5, <1>6 DEF Pools, OrderRec
<1>9. [Mem!Next]_memVars
  <2>1. CASE y = NULL
    BY <1>1, <1>6, <2>1 DEF memVars
  <2>2. CASE y # NULL
    <3>1. y \in Mem!Held
      BY <1>1, <1>2, <2>2, Facts, ManagerRests
    <3>2. [pool[y] EXCEPT !.prev = w] \in OrderRec
      BY <1>2, <1>3, <1>5, <2>2 DEF OrderRec
    <3>3. Mem!Write(y, [pool[y] EXCEPT !.prev = w])
      BY <1>6, <2>2 DEF Mem!Write
    <3> QED BY <1>1, <3>1, <3>2, <3>3 DEF Mem!Next
  <2> QED BY <2>1, <2>2
<1>10. SlotsAccountedFor'
  <2>1. Mem!Held' = Resting' \union InHand'
    <3>1. Mem!Held' = Mem!Held
      BY <1>1 DEF Mem!Held, Mem!FreeSlots
    <3> QED BY <1>1, <1>4, <3>1, Facts, ManagerRests
  <2>2. \A i \in Ids : ids[i] \in Resting' => pool'[ids[i]].id = i
    BY <1>4, <1>8, Facts
  <2>3. Resting' \subseteq Mapped
    BY <1>4, Facts
  <2> QED BY <1>1, <1>9, <2>1, <2>2, <2>3, AccountsKept
<1> QED BY <1>1, <1>4, <1>5, <1>7, <1>8, <1>9, <1>10
     DEF BookKept, NoneJoins, QueuesAreFifos

\* CAN_DEL_HASH: the removed order loses its name.
LEMMA NameGoes ==
    ASSUME Sound, UNCHANGED <<matVars, ctlVars>>, DelHash
    PROVE  BookKept /\ NoneJoins /\ mr.slot # NULL /\ mr.slot \notin Mapped'
<1>1. /\ mgr = "DEL_HASH" /\ mgr' = "DEL_COMMIT" /\ mr' = mr
      /\ ids' = [i \in Ids |-> IF i = mr.order.id THEN NULL ELSE ids[i]]
      /\ lvl' = lvl /\ pool' = pool /\ free' = free /\ initCnt' = initCnt
  BY DEF DelHash, Goto, memVars
<1>2. mr.slot # NULL /\ ids[cmd.id] = mr.slot /\ mr.order.id = cmd.id /\ cmd.id \in Ids
  BY <1>1, ManagerRests DEF ManagerLatches, CmdRec
<1>3. InHand = {mr.slot} /\ InHand' = {mr.slot} /\ View = pool /\ View' = pool
  BY <1>1 DEF InHand, Deleting, Linking, View
<1>4. Mapped' = Mapped \ {mr.slot}
  <2>1. \A i \in Ids : ids'[i] = IF i = cmd.id THEN NULL ELSE ids[i]
    BY <1>1, <1>2
  <2>2. \A i \in Ids : i # cmd.id => ids[i] # mr.slot
    BY <1>2, Facts
  <2> QED BY <1>2, <2>1, <2>2 DEF Mapped
<1>5. Resting' = Resting
  BY <1>1, <1>3, <1>4, ManagerRests, ManagerLeaves
<1>6. QueuesAreFifos'
  BY <1>1, <1>3, <1>5, Facts DEF QueuesAreFifos
<1>7. [Mem!Next]_memVars
  BY <1>1 DEF memVars
<1>8. SlotsAccountedFor'
  <2>1. Mem!NoSlotTwice' /\ NULL \notin Mem!FreeSlots'
    BY <1>7, MemoryKept, ManagerRests, <1>1
  <2>2. Mem!Held' = Resting' \union InHand'
    <3>1. Mem!Held' = Mem!Held
      BY <1>1 DEF Mem!Held, Mem!FreeSlots
    <3> QED BY <1>1, <1>3, <1>5, <3>1, Facts, ManagerRests
  <2>3. \A i \in Ids : ids'[i] = NULL \/ ids'[i] = ids[i]
    BY <1>1
  <2>4. \A i, j \in Ids : ids'[i] = ids'[j] /\ ids'[i] # NULL => i = j
    BY <2>3, Facts
  <2>5. \A i \in Ids : ids'[i] \in Resting' => pool'[ids'[i]].id = i
    <3>1. NULL \notin Resting
      BY Facts DEF Slots
    <3> QED BY <1>1, <1>5, <2>3, <3>1, Facts
  <2> QED BY <2>1, <2>2, <2>4, <2>5 DEF SlotsAccountedFor
<1> QED BY <1>1, <1>2, <1>4, <1>5, <1>6, <1>7, <1>8 DEF BookKept, NoneJoins

\* CAN_COMMIT and the rollback: the slot is given back.
LEMMA SlotGoes ==
    ASSUME Sound, UNCHANGED <<matVars, ctlVars>>, DelCommit \/ EnqRollback
    PROVE  BookKept /\ NoneJoins
<1>1. /\ mgr \in {"DEL_COMMIT", "ENQ_ROLLBACK"}
      /\ mgr' \in {"EX_TRADE", "ACK", "IDLE"}
      /\ Mem!Push(mr.slot) /\ pool' = pool /\ ids' = ids /\ lvl' = lvl
  BY DEF DelCommit, EnqRollback, Goto, Finish
<1>2. mr.slot # NULL /\ mr.slot \notin Mapped /\ mr.slot \in Slot
  BY <1>1, ManagerRests DEF ManagerLatches, MgrRegs
<1>3. InHand = {mr.slot} /\ InHand' = {} /\ View = pool /\ View' = pool
  BY <1>1 DEF InHand, Deleting, Linking, View
<1>4. Resting = Mapped /\ Resting' = Mapped
  <2>1. Mapped' = Mapped
    BY <1>1 DEF Mapped
  <2> QED BY <1>1, <1>2, <1>3, <2>1, ManagerRests, ManagerLeaves
<1>5. QueuesAreFifos'
  BY <1>1, <1>3, <1>4, Facts DEF QueuesAreFifos
<1>6. Mem!Held = Resting \union {mr.slot}
  BY <1>1, <1>3, ManagerRests, Facts
<1>7. [Mem!Next]_memVars
  BY <1>1, <1>6 DEF Mem!Next
<1>8. Mem!Held' = Mem!Held \ {mr.slot}
  BY <1>1, <1>2, PushGives, ManagerRests
<1>9. SlotsAccountedFor'
  <2>1. Mem!Held' = Resting' \union InHand'
    BY <1>2, <1>3, <1>4, <1>6, <1>8
  <2>2. \A i \in Ids : ids[i] \in Resting' => pool'[ids[i]].id = i
    BY <1>1, <1>4, Facts
  <2> QED BY <1>1, <1>4, <1>7, <2>1, <2>2, AccountsKept
<1> QED BY <1>1, <1>4, <1>5, <1>7, <1>9 DEF BookKept, NoneJoins

\* Another quantity for the order the manager has latched, and the total that
\* goes with it.
LEMMA QuantityRewritten ==
    ASSUME Sound, UNCHANGED <<matVars, ctlVars>>,
           mgr \in {"MOD_QTY_WR", "EX_PARTIAL"}, mgr' \in {"ACK", "EX_TRADE"},
           NEW n \in Qty, n > 0, NEW total, Requantify(n, total),
           total = LevelMinus(mr.level.qty + n, mr.order.qty)
    PROVE  BookKept /\ NoneJoins
<1> DEFINE x == mr.slot
           o == pool[x]
           v == lvl[o.side][o.price]
           u == [v EXCEPT !.qty = total]
<1>1. /\ ids' = ids /\ free' = free /\ initCnt' = initCnt
  BY DEF Requantify
<1>2. x # NULL /\ ids[cmd.id] = x /\ mr.order = o /\ mr.level = v /\ cmd.id \in Ids
  BY ManagerRests DEF ManagerLatches, CmdRec
<1>3. /\ InHand = {} /\ InHand' = {} /\ View = pool /\ View' = pool'
  BY DEF InHand, Deleting, Linking, View
<1>4. Resting = Mapped /\ Resting' = Resting /\ x \in Resting
  <2>1. Mapped' = Mapped /\ x \in Mapped
    BY <1>1, <1>2 DEF Mapped
  <2> QED BY <1>3, <2>1, ManagerRests, ManagerLeaves
<1>5. /\ AreFifos(Resting, pool, lvl) /\ pool \in Pools /\ lvl \in Tables
      /\ Slots(Resting)
      /\ \A z \in Resting : z \in Slot \ {NULL} /\ pool[z] \in OrderRec
  BY <1>3, Facts
<1>6. o \in OrderRec /\ v \in LevelRec
  BY <1>4, <1>5 DEF OrderRec, Tables
<1>7. /\ pool' = [pool EXCEPT ![x] = [o EXCEPT !.qty = n]]
      /\ lvl' = [lvl EXCEPT ![o.side][o.price] = u]
  BY <1>2 DEF Requantify, Mem!Write, WriteLevel
<1>8. \A z \in Resting : pool'[z] = IF z = x THEN [pool[z] EXCEPT !.qty = n] ELSE pool[z]
  BY <1>5, <1>7 DEF Pools
<1>9. u.head = v.head /\ u.tail = v.tail /\ u.qty = LevelMinus(v.qty + n, o.qty)
  BY <1>2, <1>6 DEF LevelRec
<1> HIDE DEF x, u
<1>10. AreFifos(Resting, pool', [lvl EXCEPT ![pool[x].side][pool[x].price] = u])
  <2>1. Resizes(Resting, pool, lvl, x, n, pool', u)
    BY <1>8, <1>9 DEF Resizes
  <2> QED BY <1>4, <1>5, <2>1, FifosResized
<1>11. QueuesAreFifos'
  BY <1>3, <1>4, <1>7, <1>10 DEF QueuesAreFifos
<1>12. \A z \in Resting : pool'[z].id = pool[z].id /\ pool'[z].ts = pool[z].ts
  BY <1>5, <1>8 DEF OrderRec
<1>13. Mem!InitDone /\ mgr # "IDLE"
  BY ManagerRests
<1>14. [Mem!Next]_memVars
  <2>1. x \in Mem!Held
    BY <1>4, <1>13, Facts
  <2>2. [o EXCEPT !.qty = n] \in OrderRec
    BY <1>6 DEF OrderRec
  <2>3. Mem!Write(x, [o EXCEPT !.qty = n])
    BY <1>7 DEF Mem!Write
  <2> QED BY <1>1, <2>1, <2>2, <2>3 DEF Mem!Next
<1>15. SlotsAccountedFor'
  <2>1. Mem!Held' = Resting' \union InHand'
    <3>1. Mem!Held' = Mem!Held
      BY <1>1 DEF Mem!Held, Mem!FreeSlots
    <3> QED BY <1>3, <1>4, <1>13, <3>1, Facts
  <2>2. \A i \in Ids : ids[i] \in Resting' => pool'[ids[i]].id = i
    BY <1>4, <1>12, Facts
  <2>3. Resting' \subseteq Mapped
    BY <1>4
  <2> QED BY <1>1, <1>14, <2>1, <2>2, <2>3, AccountsKept
<1> QED BY <1>4, <1>11, <1>12, <1>14, <1>15 DEF BookKept, NoneJoins

\* MOD_QTY_WR, EX_PARTIAL: the two cases.
LEMMA QuantityChanges ==
    ASSUME Sound, UNCHANGED <<matVars, ctlVars>>, ModQtyWr \/ ExPartial
    PROVE  BookKept /\ NoneJoins
<1> DEFINE o == mr.order
           v == mr.level
<1>0. mgr \in {"MOD_QTY_WR", "EX_PARTIAL"}
  BY DEF ModQtyWr, ExPartial
<1>1. o \in OrderRec /\ v \in LevelRec /\ cmd \in CmdRec /\ mr.op \in MgrOp
      /\ mgr \in StatesOf(mr.op)
  BY <1>0, ManagerRests DEF MgrRegs
<1>2. o.qty \in Int /\ o.qty \in Qty /\ cmd.qty \in Qty /\ cmd.qty \in Int /\ v.qty \in Int
  BY <1>1 DEF OrderRec, CmdRec, LevelRec, Qty, LevelQty
<1>3. CASE ModQtyWr
  <2>1. cmd.qty > 0
    <3>1. mr.op = "MODIFY"
      BY <1>1, <1>3 DEF ModQtyWr, StatesOf, MgrOp, Splicing, Linking, Deleting
    <3>2. cmd.type = "MODIFY" /\ Waiting
      BY <1>0, <3>1, ManagerFacts DEF Sound, ManagerAtWork
    <3> QED BY <3>2 DEF Sound, BookInv, QuantityGiven
  <2>2. LevelMinus(LevelPlus(v.qty, cmd.qty), o.qty) = LevelMinus(v.qty + cmd.qty, o.qty)
    <3> DEFINE t == v.qty + cmd.qty
               d == -o.qty
    <3>1. t \in Int /\ d \in Int /\ (t % (MaxLevelQty + 1)) \in Int
      BY <1>2
    <3>2. LevelMinus(t, o.qty) = (t + d) % (MaxLevelQty + 1)
      BY <1>2, <3>1 DEF LevelMinus
    <3>3. LevelMinus(LevelPlus(v.qty, cmd.qty), o.qty)
            = ((t % (MaxLevelQty + 1)) + d) % (MaxLevelQty + 1)
      <4>1. (t % (MaxLevelQty + 1)) - o.qty = (t % (MaxLevelQty + 1)) + d
        BY <1>2, <3>1
      <4> QED BY <4>1 DEF LevelMinus, LevelPlus
    <3> HIDE DEF t, d
    <3>4. ((t % (MaxLevelQty + 1)) + d) % (MaxLevelQty + 1) = (t + d) % (MaxLevelQty + 1)
      BY <3>1, LevelSum
    <3> QED BY <3>2, <3>3, <3>4 DEF t
  <2> QED BY <1>2, <1>3, <2>1, <2>2, QuantityRewritten DEF ModQtyWr, Goto
<1>4. CASE ExPartial
  <2>1. 0 < cmd.qty /\ cmd.qty < o.qty
    BY <1>4, ManagerRests DEF ExPartial, ManagerLatches
  <2>2. QtyMinus(o.qty, cmd.qty) = o.qty - cmd.qty /\ o.qty - cmd.qty \in Qty
        /\ o.qty - cmd.qty > 0
    BY <1>2, <2>1 DEF QtyMinus, Qty
  <2>3. LevelMinus(v.qty, cmd.qty) = LevelMinus(v.qty + (o.qty - cmd.qty), o.qty)
    <3>1. (v.qty + (o.qty - cmd.qty)) - o.qty = v.qty - cmd.qty
      BY <1>2
    <3> QED BY <3>1 DEF LevelMinus
  <2>4. mgr' = "EX_TRADE" /\ Requantify(o.qty - cmd.qty, LevelMinus(v.qty, cmd.qty))
    BY <1>4, <2>2 DEF ExPartial, Goto
  <2> QED BY <1>0, <2>2, <2>3, <2>4, QuantityRewritten
<1> QED BY <1>3, <1>4

\* ENQ_GET_SLOT: a slot is allocated, or the ADD is refused.
LEMMA SlotComes ==
    ASSUME Sound, UNCHANGED <<matVars, ctlVars>>, EnqGetSlot
    PROVE  /\ BookKept /\ NoneJoins
           /\ mgr' = "ENQ_HASH" => mr'.slot # NULL /\ mr'.slot \notin Mapped'
<1>1. mgr = "ENQ_GET_SLOT" /\ mr \in MgrRegs /\ ids' = ids /\ lvl' = lvl
  BY ManagerRests DEF EnqGetSlot
<1>2. CASE Mem!FreeEmpty
  <2>1. mgr' = "IDLE" /\ UNCHANGED <<pool, free, initCnt>>
    BY <1>2 DEF EnqGetSlot, Finish
  <2>2. InHand' = InHand
    BY <1>1, <2>1 DEF InHand, Deleting, Linking
  <2>3. MgrStep
    BY DEF MgrStep
  <2> QED BY <1>1, <2>1, <2>2, <2>3, ManagerReads
<1>3. CASE ~Mem!FreeEmpty
  <2> DEFINE x == Mem!TopSlot
  <2>1. mgr' = "ENQ_HASH" /\ mr' = [mr EXCEPT !.slot = x] /\ Mem!Alloc
    BY <1>3 DEF EnqGetSlot
  <2>2. mr'.slot = x
    BY <1>1, <2>1 DEF MgrRegs
  <2>3. InHand = {} /\ InHand' = {x} /\ View = pool /\ View' = pool'
    BY <1>1, <2>1, <2>2 DEF InHand, Deleting, Linking, View
  <2>4. x \in Slot \ {NULL} /\ x \notin Mem!Held /\ Mem!Held' = Mem!Held \union {x}
    BY <1>1, <2>1, AllocTakes, ManagerRests
  <2>5. Resting = Mapped /\ Mapped' = Mapped /\ Mem!Held = Resting
    <3>1. Resting = Mapped
      BY <1>1, <2>3, ManagerRests
    <3>2. Mem!Held = Resting
      BY <1>1, <2>3, ManagerRests, Facts
    <3> QED BY <1>1, <3>1, <3>2 DEF Mapped
  <2>6. Resting' = Resting
    BY <1>1, <2>3, <2>4, <2>5, ManagerLeaves
  <2>7. pool' = pool
    BY <2>1 DEF Mem!Alloc
  <2>8. QueuesAreFifos'
    BY <1>1, <2>3, <2>6, <2>7, Facts DEF QueuesAreFifos
  <2>9. [Mem!Next]_memVars
    BY <2>1 DEF Mem!Next
  <2>10. SlotsAccountedFor'
    <3>1. Mem!Held' = Resting' \union InHand'
      BY <2>3, <2>4, <2>5, <2>6
    <3>2. \A i \in Ids : ids[i] \in Resting' => pool'[ids[i]].id = i
      BY <2>6, <2>7, Facts
    <3> QED BY <1>1, <2>5, <2>6, <2>9, <3>1, <3>2, AccountsKept
  <2> QED BY <2>2, <2>4, <2>5, <2>6, <2>7, <2>8, <2>9, <2>10 DEF BookKept, NoneJoins
<1> QED BY <1>2, <1>3

\* ENQ_HASH: the new slot gets its name, before it is linked.
LEMMA NameComes ==
    ASSUME Sound, UNCHANGED <<matVars, ctlVars>>, EnqHashHit
    PROVE  BookKept /\ NoneJoins /\ mr.slot # NULL /\ ids'[cmd.id] = mr.slot
<1> DEFINE x == mr.slot
<1>1. /\ mgr = "ENQ_HASH" /\ mgr' = "LVL_READ" /\ mr' = mr
      /\ ids[cmd.id] = NULL /\ ids' = [ids EXCEPT ![cmd.id] = x]
      /\ lvl' = lvl /\ pool' = pool /\ free' = free /\ initCnt' = initCnt
  BY DEF EnqHashHit, Goto, memVars
<1>2. x # NULL /\ x \notin Mapped /\ x \in Slot /\ cmd.id \in Ids
  BY <1>1, ManagerRests DEF ManagerLatches, MgrRegs, CmdRec
<1>3. InHand = {x} /\ InHand' = {x} /\ View = pool /\ View' = pool
  BY <1>1 DEF InHand, Deleting, Linking, View
<1>4. ids \in [Ids -> Slot]
  BY DEF Sound, IInv, TypeOK, MemoryTypeOK
<1>5. \A i \in Ids : ids'[i] = IF i = cmd.id THEN x ELSE ids[i]
  BY <1>1, <1>4
<1>6. Mapped' = Mapped \union {x}
  BY <1>1, <1>2, <1>5 DEF Mapped
<1>7. Resting' = Resting /\ Resting = Mapped
  BY <1>1, <1>2, <1>3, <1>6, ManagerRests, ManagerLeaves
<1>8. QueuesAreFifos'
  BY <1>1, <1>3, <1>7, Facts DEF QueuesAreFifos
<1>9. [Mem!Next]_memVars
  BY <1>1 DEF memVars
<1>10. SlotsAccountedFor'
  <2>1. Mem!NoSlotTwice' /\ NULL \notin Mem!FreeSlots'
    BY <1>9, MemoryKept, ManagerRests, <1>1
  <2>2. Mem!Held' = Resting' \union InHand'
    <3>1. Mem!Held' = Mem!Held
      BY <1>1 DEF Mem!Held, Mem!FreeSlots
    <3> QED BY <1>1, <1>3, <1>7, <3>1, Facts, ManagerRests
  <2>3. \A i \in Ids : ids[i] # x
    BY <1>2 DEF Mapped
  <2>4. \A i, j \in Ids : ids'[i] = ids'[j] /\ ids'[i] # NULL => i = j
    BY <1>5, <2>3, Facts
  <2>5. \A i \in Ids : ids'[i] \in Resting' => pool'[ids'[i]].id = i
    BY <1>1, <1>2, <1>5, <1>7, Facts
  <2> QED BY <2>1, <2>2, <2>4, <2>5 DEF SlotsAccountedFor
<1> QED BY <1>1, <1>2, <1>5, <1>7, <1>8, <1>9, <1>10 DEF BookKept, NoneJoins

\* The record of a slot that is not linked is written.
LEMMA OutsideWritten ==
    ASSUME Sound, UNCHANGED <<free, initCnt, lvl, ids>>, NEW x \in InHand \ Resting,
           Mem!InitDone, x \in Slot, NEW r \in OrderRec, Mem!Write(x, r),
           View = pool, View' = pool', Resting' = Resting, InHand' = InHand
    PROVE  BookKept /\ NoneJoins
<1>1. \A z \in Resting : pool'[z] = pool[z]
  BY Facts DEF Mem!Write, Pools
<1>2. QueuesAreFifos'
  BY <1>1, Facts, FifosSame DEF QueuesAreFifos
<1>3. [Mem!Next]_memVars
  <2>1. x \in Mem!Held
    BY Facts
  <2> QED BY <2>1 DEF Mem!Next
<1>4. SlotsAccountedFor'
  <2>1. Mem!Held' = Resting' \union InHand'
    <3>1. Mem!Held' = Mem!Held
      BY DEF Mem!Held, Mem!FreeSlots
    <3> QED BY <3>1, Facts
  <2>2. \A i \in Ids : ids[i] \in Resting' => pool'[ids[i]].id = i
    BY <1>1, Facts
  <2> QED BY <1>3, <2>1, <2>2, Facts, AccountsKept
<1> QED BY <1>1, <1>2, <1>3, <1>4 DEF BookKept, NoneJoins

\* RE_LVL: the moved order is rewritten while it is unlinked.
LEMMA MovedRewritten ==
    ASSUME Sound, UNCHANGED <<matVars, ctlVars>>, ReLvl
    PROVE  BookKept /\ NoneJoins
<1>1. /\ mgr = "RE_LVL" /\ mgr' = "LVL_READ" /\ mr' = mr
      /\ UNCHANGED <<free, initCnt, lvl, ids>> /\ Mem!Write(mr.slot, NewOrder(NULL))
  BY DEF ReLvl, Goto
<1>2. /\ InHand = {mr.slot} /\ InHand' = InHand /\ View = pool /\ View' = pool'
  BY <1>1 DEF InHand, Deleting, Linking, View
<1>3. Resting' = Resting /\ Resting = Mapped \ {mr.slot} /\ mr.slot \in Slot
  BY <1>1, <1>2, ManagerRests, ManagerLeaves DEF Mapped, MgrRegs
<1>4. NewOrder(NULL) \in OrderRec
  <2>1. mr.op = "MODIFY"
    BY <1>1, ManagerRests DEF StatesOf, MgrOp, Splicing, Linking, Deleting
  <2>2. cmd \in CmdRec /\ cmd.price \in Level
    BY <1>1, <2>1, ManagerServes, ManagerFacts DEF Sound
  <2> QED BY <2>2, LinkTyped
<1> QED BY <1>1, <1>2, <1>3, <1>4, ManagerRests, OutsideWritten

\* What is known while a slot is linked.
LEMMA LinkFacts ==
    ASSUME Sound, mgr \in Linking
    PROVE  /\ mr.op \in {"ENQ", "MODIFY"} /\ cmd \in CmdRec /\ cmd.price \in Level
           /\ cmd.qty > 0 /\ cmd.qty \in Qty /\ Mem!InitDone /\ mr \in MgrRegs
           /\ mr.slot \in Slot \ {NULL} /\ ids[cmd.id] = mr.slot /\ cmd.id \in Ids
           /\ InHand = {mr.slot} /\ Resting = Mapped \ {mr.slot}
           /\ mr.slot \in Mapped /\ ManagerLatches
           /\ Mem!Held = Resting \union {mr.slot}
           /\ \A z \in Resting : pool[z].ts < cmd.ts
<1>1. mgr # "IDLE" /\ mgr \notin {"ENQ_DONE", "ACK"}
  BY DEF Linking
<1>2. mr.op \in {"ENQ", "MODIFY"}
  BY ManagerRests, <1>1 DEF StatesOf, MgrOp, Splicing, Linking, Deleting
<1>3. cmd \in CmdRec /\ cmd.price \in Level /\ cmd.qty \in Qty /\ cmd.id \in Ids
  BY <1>1, <1>2, ManagerServes, ManagerFacts DEF Sound, CmdRec
<1>4. cmd.type \in {"ADD", "MODIFY"} /\ Waiting
  BY <1>1, <1>2, ManagerFacts DEF Sound, ManagerAtWork, CallerOf, CommandsOf
<1>5. cmd.qty > 0
  BY <1>4 DEF Sound, BookInv, QuantityGiven
<1>6. mr.slot # NULL /\ ids[cmd.id] = mr.slot /\ mr.slot \in Slot
  BY <1>1, ManagerRests DEF ManagerLatches, MgrRegs
<1>7. InHand = {mr.slot} /\ mr.slot \in Mapped
  BY <1>3, <1>6 DEF InHand, Mapped
<1>8. Unlinked
  BY <1>1, <1>2 DEF Unlinked
<1>9. \A z \in Resting : pool[z].ts < cmd.ts
  BY <1>8 DEF Sound, BookInv, Timely
<1> QED BY <1>1, <1>2, <1>3, <1>5, <1>6, <1>7, <1>9, ManagerRests, Facts

\* After the last step of linking nothing is in the manager's hands.
LEMMA LinkedRests ==
    ASSUME Sound, UNCHANGED <<matVars, ctlVars>>, mgr \in Linking, Linked, ids' = ids
    PROVE  /\ InHand' = {} /\ Resting' = Resting \union {mr.slot} /\ View' = pool'
           /\ mgr' \in {"ENQ_DONE", "IDLE"}
<1>1. mgr' \in {"ENQ_DONE", "IDLE"}
  BY DEF Linked, Goto, Finish
<1>2. InHand' = {} /\ View' = pool'
  BY <1>1 DEF InHand, View, Deleting, Linking
<1>3. mgr # "IDLE" /\ Mapped' = Mapped
  BY DEF Linking, Mapped
<1> QED BY <1>1, <1>2, <1>3, ManagerLeaves, LinkFacts

\* A slot is linked at the tail of the command's level.
LEMMA BookLinked ==
    ASSUME Sound, UNCHANGED <<matVars, ctlVars>>, mgr \in Linking, Linked,
           UNCHANGED <<ids, free, initCnt>>, NEW u,
           lvl' = [lvl EXCEPT ![cmd.side][cmd.price] = u],
           NEW w \in Slot,
           pool'[mr.slot] = NewOrder(w),
           \A z \in Resting : pool'[z] = pool[z],
           Adds(Resting, View, lvl, mr.slot, pool', u),
           [Mem!Next]_memVars
    PROVE  /\ BookKept
           /\ Resting' = Resting \union {mr.slot}
           /\ \A z \in Resting : pool'[z].ts = pool[z].ts
           /\ pool'[mr.slot].ts = cmd.ts
<1> DEFINE x == mr.slot
<1>1. /\ InHand' = {} /\ Resting' = Resting \union {x} /\ View' = pool'
  BY LinkedRests
<1>2. /\ x \in Slot \ {NULL} /\ x \notin Resting /\ cmd.id \in Ids /\ ids[cmd.id] = x
      /\ Resting \union {x} = Mapped /\ Mem!Held = Resting \union {x} /\ Mem!InitDone
  BY LinkFacts, Facts
<1>3. pool'[x].side = cmd.side /\ pool'[x].price = cmd.price /\ pool'[x].id = cmd.id
      /\ pool'[x].ts = cmd.ts
  BY DEF NewOrder
<1>4. AreFifos(Resting', View', lvl')
  <2>1. AreFifos(Resting \union {x}, pool',
                 [lvl EXCEPT ![pool'[x].side][pool'[x].price] = u])
    BY <1>2, Facts, FifosWith
  <2> QED BY <1>1, <1>3, <2>1
<1>5. SlotsAccountedFor'
  <2>1. Mem!Held' = Resting' \union InHand'
    <3>1. Mem!Held' = Mem!Held
      BY DEF Mem!Held, Mem!FreeSlots
    <3> QED BY <1>1, <1>2, <3>1
  <2>2. \A i \in Ids : ids[i] \in Resting' => pool'[ids[i]].id = i
    <3>1. \A i \in Ids : ids[i] = x => i = cmd.id
      BY <1>2, Facts
    <3> QED BY <1>1, <1>3, <3>1, Facts
  <2> QED BY <1>1, <1>2, <2>1, <2>2, AccountsKept
<1> QED BY <1>1, <1>3, <1>4, <1>5 DEF BookKept, QueuesAreFifos

\* ENQ_WR_EMPTY, RE_WR_EMPTY: the first order of its level.
LEMMA FirstLinked ==
    ASSUME Sound, UNCHANGED <<matVars, ctlVars>>, WrEmpty
    PROVE  /\ BookKept
           /\ Resting' = Resting \union {mr.slot}
           /\ \A z \in Resting : pool'[z].ts = pool[z].ts
           /\ pool'[mr.slot].ts = cmd.ts
<1> DEFINE x == mr.slot
           u == [head |-> x, tail |-> x, qty |-> LevelPlus(0, cmd.qty)]
           v == lvl[cmd.side][cmd.price]
           a == SlotsAt(Resting, pool, cmd.side, cmd.price)
<1>1. /\ mgr = "WR_EMPTY" /\ mgr \in Linking /\ Linked
      /\ UNCHANGED <<ids, free, initCnt>>
      /\ lvl' = [lvl EXCEPT ![cmd.side][cmd.price] = u]
  BY DEF WrEmpty, Linking, WriteLevel
<1>2. /\ mr.op \in {"ENQ", "MODIFY"} /\ cmd \in CmdRec /\ cmd.side \in Side
      /\ cmd.price \in Level /\ cmd.qty > 0 /\ x \in Slot \ {NULL} /\ x \notin Resting
      /\ v.head = NULL /\ x \in Mem!Held
  BY <1>1, LinkFacts DEF ManagerLatches, CmdRec
<1>3. View = pool /\ pool \in Pools
  BY <1>1, Facts DEF View
<1>4. pool' = [pool EXCEPT ![x] = NewOrder(NULL)]
  <2>1. CASE mr.op = "ENQ"
    BY <2>1 DEF WrEmpty, Mem!Write
  <2>2. CASE mr.op = "MODIFY"
    <3>1. pool' = pool /\ pool[x] = NewOrder(NULL)
      BY <1>1, <2>2, LinkFacts DEF WrEmpty, ManagerLatches
    <3> QED BY <1>2, <1>3, <3>1 DEF Pools
  <2> QED BY <1>2, <2>1, <2>2
<1>5. pool'[x] = NewOrder(NULL) /\ \A z \in Resting : pool'[z] = pool[z]
  BY <1>2, <1>3, <1>4, Facts DEF Pools
<1>6. v.tail = NULL /\ v.qty = 0
  <2>1. IsFifo(a, pool, v) /\ Slots(a)
    BY <1>2, <1>3, Facts, LevelSlots DEF AreFifos
  <2>2. a = {}
    BY <1>2, <2>1 DEF IsFifo, Slots
  <2> QED BY <2>1, <2>2, FifoEmpty
<1>7. NewOrder(NULL) \in OrderRec /\ NULL \in Slot
  BY <1>2, LinkTyped
<1>8. Adds(Resting, View, lvl, x, pool', u)
  <2>1. \A z \in Resting : pool[z].ts < cmd.ts /\ z # NULL
    BY <1>1, LinkFacts, Facts
  <2>2. \A z \in Resting : pool'[z] = IF z = v.tail THEN [pool[z] EXCEPT !.next = x] ELSE pool[z]
    BY <1>5, <1>6, <2>1
  <2>3. /\ NewOrder(NULL).side = cmd.side /\ NewOrder(NULL).price = cmd.price
        /\ NewOrder(NULL).qty = cmd.qty /\ NewOrder(NULL).ts = cmd.ts
        /\ NewOrder(NULL).next = NULL /\ NewOrder(NULL).prev = NULL
    BY DEF NewOrder
  <2> HIDE DEF v, x
  <2>4. u.head = x /\ u.tail = x /\ u.qty = LevelPlus(v.qty, cmd.qty)
    BY <1>6
  <2> QED BY <1>2, <1>3, <1>5, <1>6, <1>7, <2>1, <2>2, <2>3, <2>4 DEF Adds, v
<1>9. [Mem!Next]_memVars
  <2>1. Mem!Write(x, NewOrder(NULL))
    BY <1>4 DEF Mem!Write
  <2> QED BY <1>1, <1>2, <1>7, <2>1 DEF Mem!Next
<1> HIDE DEF u
<1> QED BY <1>1, <1>5, <1>7, <1>8, <1>9, BookLinked

\* ENQ_TAIL, RE_TAIL: the old tail points to the new one, which the level does
\* not know yet.
LEMMA TailReaches ==
    ASSUME Sound, UNCHANGED <<matVars, ctlVars>>, TailLink
    PROVE  /\ BookKept /\ NoneJoins
           /\ Target.tail \in Slot /\ pool'[Target.tail].next = mr.slot
<1> DEFINE x == mr.slot
           v == lvl[cmd.side][cmd.price]
           t == Target.tail
           a == SlotsAt(Resting, pool, cmd.side, cmd.price)
<1>1. /\ mgr = "TAIL" /\ mgr' = "TAIL2" /\ mgr \in Linking /\ mr' = mr
      /\ UNCHANGED <<ids, free, initCnt, lvl>>
      /\ pool' = [pool EXCEPT ![t] = [pool[t] EXCEPT !.next = x]]
  BY DEF TailLink, Linking, Goto, Mem!Write
<1>2. /\ Target = v /\ v.head # NULL /\ x \in Slot \ {NULL}
      /\ cmd.side \in Side /\ cmd.price \in Level
      /\ Mem!InitDone /\ Mem!Held = Resting \union {x} /\ InHand = {x}
  BY <1>1, LinkFacts DEF ManagerLatches, CmdRec
<1>3. View = pool /\ pool \in Pools
  BY <1>1, Facts DEF View
<1>4. t \in Resting /\ pool[t].next = NULL /\ pool[t] \in OrderRec /\ t \in Slot
  <2>1. IsFifo(a, pool, v) /\ Slots(a)
    BY <1>2, <1>3, Facts, LevelSlots DEF AreFifos
  <2>2. a # {}
    BY <1>2, <2>1 DEF IsFifo
  <2>3. t \in a /\ pool[t].next = NULL
    BY <1>2, <2>1, <2>2 DEF IsFifo
  <2>4. t \in Resting
    BY <2>3 DEF SlotsAt
  <2> QED BY <2>3, <2>4, Facts
<1>5. InHand' = InHand /\ Resting' = Resting
  <2>1. InHand' = {x}
    BY <1>1 DEF InHand, Deleting, Linking
  <2> QED BY <1>1, <1>2, <2>1, ManagerLeaves, ManagerRests DEF Mapped
<1> HIDE DEF x, t, v
<1>6. View' = pool
  <2>1. View' = [pool' EXCEPT ![t].next = NULL]
    BY <1>1 DEF View, t, Target
  <2>2. pool'[t] = [pool[t] EXCEPT !.next = x]
    BY <1>1, <1>3, <1>4 DEF Pools
  <2>3. View'[t] = pool[t]
    <3>1. View'[t] = [pool'[t] EXCEPT !.next = NULL]
      BY <1>1, <1>3, <1>4, <2>1 DEF Pools
    <3>2. [[pool[t] EXCEPT !.next = x] EXCEPT !.next = NULL] = pool[t]
      BY <1>4 DEF OrderRec
    <3> QED BY <2>2, <3>1, <3>2
  <2>4. \A z \in Slot : z # t => View'[z] = pool[z]
    BY <1>1, <1>3, <2>1 DEF Pools
  <2>5. DOMAIN View' = Slot /\ DOMAIN pool = Slot
        /\ View' = [z \in Slot |-> View'[z]] /\ pool = [z \in Slot |-> pool[z]]
    BY <1>1, <1>3, <2>1 DEF Pools
  <2> QED BY <2>3, <2>4, <2>5
<1>7. QueuesAreFifos'
  BY <1>1, <1>3, <1>5, <1>6, Facts DEF QueuesAreFifos
<1>8. /\ pool'[t].next = x
      /\ \A z \in Resting : pool'[z].id = pool[z].id /\ pool'[z].ts = pool[z].ts
  <2>1. pool'[t] = [pool[t] EXCEPT !.next = x]
    BY <1>1, <1>3, <1>4 DEF Pools
  <2>2. \A z \in Resting : z # t => pool'[z] = pool[z]
    BY <1>1, <1>3, Facts DEF Pools
  <2> QED BY <1>4, <2>1, <2>2 DEF OrderRec
<1>9. [Mem!Next]_memVars
  <2>1. t \in Mem!Held
    BY <1>2, <1>4
  <2>2. [pool[t] EXCEPT !.next = x] \in OrderRec
    BY <1>2, <1>4 DEF OrderRec
  <2>3. Mem!Write(t, [pool[t] EXCEPT !.next = x])
    BY <1>1 DEF Mem!Write
  <2> QED BY <1>1, <2>1, <2>2, <2>3 DEF Mem!Next
<1>10. SlotsAccountedFor'
  <2>1. Mem!Held' = Resting' \union InHand'
    <3>1. Mem!Held' = Mem!Held
      BY <1>1 DEF Mem!Held, Mem!FreeSlots
    <3> QED BY <1>2, <1>5, <3>1
  <2>2. \A i \in Ids : ids[i] \in Resting' => pool'[ids[i]].id = i
    BY <1>5, <1>8, Facts
  <2>3. Resting' \subseteq Mapped
    BY <1>5, Facts
  <2> QED BY <1>1, <1>9, <2>1, <2>2, <2>3, AccountsKept
<1> QED BY <1>4, <1>5, <1>7, <1>8, <1>9, <1>10 DEF BookKept, NoneJoins, t, x

\* ENQ_TAIL2, RE_TAIL2: level and order follow.
LEMMA TailLinked ==
    ASSUME Sound, UNCHANGED <<matVars, ctlVars>>, TailLink2
    PROVE  /\ BookKept
           /\ Resting' = Resting \union {mr.slot}
           /\ \A z \in Resting : pool'[z].ts = pool[z].ts
           /\ pool'[mr.slot].ts = cmd.ts
<1> DEFINE x == mr.slot
           v == lvl[cmd.side][cmd.price]
           t == v.tail
           u == [head |-> v.head, tail |-> x, qty |-> LevelPlus(v.qty, cmd.qty)]
<1>1. /\ mgr = "TAIL2" /\ mgr \in Linking /\ Linked
      /\ UNCHANGED <<ids, free, initCnt>>
  BY DEF TailLink2, Linking
<1>2. /\ cmd \in CmdRec /\ cmd.side \in Side
      /\ cmd.price \in Level /\ cmd.qty > 0 /\ x \in Slot \ {NULL} /\ x \notin Resting
      /\ v.head # NULL /\ x \in Mem!Held /\ Target = v /\ pool[t].next = x
  BY <1>1, LinkFacts DEF ManagerLatches, CmdRec
<1>3. /\ lvl' = [lvl EXCEPT ![cmd.side][cmd.price] = u]
      /\ pool' = [pool EXCEPT ![x] = NewOrder(t)]
  BY <1>2 DEF TailLink2, WriteLevel, Mem!Write
<1>4. /\ pool \in Pools /\ v \in LevelRec /\ t \in Slot
      /\ \A z \in Resting : z \in Slot \ {NULL} /\ pool[z] \in OrderRec
  BY <1>2, Facts DEF Tables, LevelRec
<1>5. pool'[x] = NewOrder(t) /\ \A z \in Resting : pool'[z] = pool[z]
  BY <1>2, <1>3, <1>4 DEF Pools
<1>6. NewOrder(t) \in OrderRec
  BY <1>2, <1>4, LinkTyped
<1>7. View = [pool EXCEPT ![t].next = NULL]
  BY <1>1, <1>2 DEF View
<1> HIDE DEF x, t, v
<1>8. Adds(Resting, View, lvl, x, pool', u)
  <2>1. \A z \in Resting : pool[z].ts < cmd.ts
    BY <1>1, LinkFacts
  <2>2. \A z \in Resting : View[z] = IF z = t THEN [pool[z] EXCEPT !.next = NULL] ELSE pool[z]
    BY <1>4, <1>7 DEF Pools
  <2>3. \A z \in Resting : View[z].ts = pool[z].ts
    BY <1>4, <2>2 DEF OrderRec
  <2>4. \A z \in Resting : pool'[z] = IF z = t THEN [View[z] EXCEPT !.next = x] ELSE View[z]
    <3>1. \A z \in Resting : z = t =>
            [[pool[z] EXCEPT !.next = NULL] EXCEPT !.next = x] = pool[z]
      BY <1>2, <1>4 DEF OrderRec
    <3> QED BY <1>5, <2>2, <3>1
  <2>5. /\ NewOrder(t).side = cmd.side /\ NewOrder(t).price = cmd.price
        /\ NewOrder(t).qty = cmd.qty /\ NewOrder(t).ts = cmd.ts
        /\ NewOrder(t).next = NULL /\ NewOrder(t).prev = t
    BY DEF NewOrder
  <2>6. u.head = v.head /\ u.tail = x /\ u.qty = LevelPlus(v.qty, cmd.qty)
    OBVIOUS
  <2> HIDE DEF u
  <2> QED BY <1>2, <1>5, <1>6, <2>1, <2>3, <2>4, <2>5, <2>6 DEF Adds, v, t
<1>9. [Mem!Next]_memVars
  <2>1. Mem!Write(x, NewOrder(t))
    BY <1>3 DEF Mem!Write
  <2> QED BY <1>1, <1>2, <1>6, <2>1 DEF Mem!Next
<1> HIDE DEF u
<1> QED BY <1>1, <1>3, <1>4, <1>5, <1>8, <1>9, BookLinked DEF x

-----------------------------------------------------------------------------
(* The book through each step of the matcher.                                *)

\* Which slots rest while the matcher works.
LEMMA MatcherRests ==
    ASSUME Sound, mat # "M_IDLE"
    PROVE  /\ Mem!InitDone /\ Bpe!InitDone /\ Mem!IInv /\ mgr = "IDLE"
           /\ InHand = {} /\ Resting = Mapped \ Dropped /\ View = pool
           /\ Mem!Held = Resting
           /\ cmd \in CmdRec /\ xr \in MatRegs /\ Passive \in Side /\ MatcherLatches
           /\ \/ ctl = "C_FAST" /\ mat \in FastStates
              \/ ctl = "C_DRAIN" /\ mat \in DrainStates
<1>1. /\ mgr = "IDLE" /\ Mem!InitDone /\ Bpe!InitDone /\ cmd \in CmdRec
      /\ \/ ctl = "C_FAST" /\ mat \in FastStates
         \/ ctl = "C_DRAIN" /\ mat \in DrainStates
  BY MatcherFacts DEF Sound, MatcherAtWork
<1>2. InHand = {} /\ View = pool
  BY <1>1 DEF InHand, View, Deleting, Linking
<1>3. Resting = Mapped \ Dropped /\ Mem!Held = Resting
  BY <1>1, <1>2, Facts DEF Resting
<1>4. xr \in MatRegs /\ Mem!IInv /\ MatcherLatches
  BY DEF Sound, BookInv, IInv, TypeOK, MatcherTypeOK
<1>5. Passive \in Side
  BY DEF Passive, Opposite
<1> QED BY <1>1, <1>2, <1>3, <1>4, <1>5

\* And after its step.
LEMMA MatcherLeaves ==
    ASSUME Sound, mat # "M_IDLE", UNCHANGED <<mgrVars, ctlVars>>
    PROVE  InHand' = {} /\ Resting' = Mapped' \ Dropped' /\ View' = pool' /\ Passive' = Passive
<1>1. mgr' = "IDLE"
  BY MatcherRests DEF mgrVars
<1>2. InHand' = {} /\ View' = pool'
  BY <1>1 DEF InHand, View, Deleting, Linking
<1>3. Passive' = Passive
  BY DEF Passive, ctlVars
<1> QED BY <1>2, <1>3 DEF Resting

\* The states that only read or answer.
LEMMA MatcherLooks ==
    ASSUME Sound, UNCHANGED <<mgrVars, ctlVars>>,
           MCheck \/ MTrade \/ FCheck \/ FTrade \/ MDone
    PROVE  BookKept /\ NoneJoins
<1>1. /\ mat \in {"M_CHECK", "M_TRADE", "F_CHECK", "F_TRADE", "M_DONE"}
      /\ mat' \in {"M_DONE", "M_TRADE", "M_UPD_BID", "F_TRADE", "F_UPDATE", "M_IDLE"}
      /\ UNCHANGED <<pool, free, initCnt, lvl, ids>>
  BY DEF MCheck, MTrade, FCheck, FTrade, MDone, MatGoto, memVars
<1>2. Dropped = {} /\ Dropped' = {}
  BY <1>1 DEF Dropped, Unmapping
<1>3. UNCHANGED <<Resting, InHand, View>>
  BY <1>1, <1>2, MatcherRests, MatcherLeaves DEF Mapped
<1> QED BY <1>1, <1>3, BookSame

\* The order at the head of the level the matcher has latched.
LEMMA LatchedFacts ==
    ASSUME Sound, mat # "M_IDLE", NEW s \in Side, Latched(s)
    PROVE  LET x == xr.level[s].head
               l == BestOf(s)
           IN
           /\ l \in Level /\ xr.level[s] = lvl[s][l] /\ xr.level[s] \in LevelRec
           /\ xr.order[s] = pool[x] /\ pool[x] \in OrderRec
           /\ x \in Resting /\ x \in Slot \ {NULL} /\ x \in Mapped
           /\ pool[x].side = s /\ pool[x].price = l
           /\ x = xr.level[s].tail <=> pool[x].next = NULL
           /\ xr.qty \in Qty /\ xr.qty > 0 /\ xr.qty <= pool[x].qty
           /\ pool[x].id \in Ids /\ ids[pool[x].id] = x
<1> DEFINE x == xr.level[s].head
           l == BestOf(s)
           a == SlotsAt(Resting, pool, s, l)
           v == lvl[s][l]
<1>1. /\ xr.level[s] = v /\ x # NULL /\ xr.order[s] = pool[x]
      /\ 0 < xr.qty /\ xr.qty <= pool[x].qty
  BY DEF Latched
<1>2. l \in Level
  BY DEF Sound, IInv, TypeOK, Bpe!TypeOK, Bpe!BestRec, BestOf
<1>3. IsFifo(a, pool, v) /\ Slots(a) /\ Records(a, pool) /\ v \in LevelRec
  BY <1>2, MatcherRests, Facts, LevelSlots DEF AreFifos, Tables
<1>4. x \in a
  BY <1>1, <1>3 DEF IsFifo
<1>5. x \in Resting /\ pool[x].side = s /\ pool[x].price = l
  BY <1>4 DEF SlotsAt
<1>6. /\ x \in Slot \ {NULL} /\ pool[x] \in OrderRec /\ x \in Mapped
      /\ \E i \in Ids : ids[i] = x /\ pool[x].id = i
  BY <1>5, Facts
<1>7. x = v.tail <=> pool[x].next = NULL
  BY <1>3, <1>4 DEF IsFifo, Slots
<1>8. xr.qty \in Qty
  BY MatcherRests DEF MatRegs
<1> QED BY <1>1, <1>2, <1>3, <1>5, <1>6, <1>7, <1>8

\* M_UPD_BID, M_UPD_ASK, F_UPDATE: the trade is applied to the head, which
\* leaves the book when it is filled.
LEMMA HeadConsumed ==
    ASSUME Sound, mat # "M_IDLE", UNCHANGED <<mgrVars, ctlVars>>,
           NEW s \in Side, Latched(s), Consume(s), Dropped = {},
           Dropped' = IF Filled(s) THEN {xr.level[s].head} ELSE {}
    PROVE  /\ BookKept /\ NoneJoins
           /\ Filled(s) => pool' = pool
           /\ \A z \in Slot : z # xr.level[s].head => pool'[z] = pool[z]
<1> DEFINE x == xr.level[s].head
           o == pool[x]
           l == BestOf(s)
           v == lvl[s][l]
           u == LevelAfter(s)
<1>1. /\ l \in Level /\ xr.level[s] = v /\ v \in LevelRec
      /\ xr.order[s] = o /\ o \in OrderRec
      /\ x \in Resting /\ x \in Slot \ {NULL} /\ x \in Mapped
      /\ o.side = s /\ o.price = l
      /\ x = v.tail <=> o.next = NULL
      /\ xr.qty \in Qty /\ xr.qty > 0 /\ xr.qty <= o.qty
      /\ v.head = x
  BY LatchedFacts
<1>2. ids' = ids /\ lvl' = [lvl EXCEPT ![s][l] = u] /\ Mapped' = Mapped
  BY DEF Consume, WriteLevel, Mapped
<1>3. /\ pool \in Pools /\ lvl \in Tables /\ AreFifos(Resting, pool, lvl)
      /\ Slots(Resting) /\ Resting = Mapped /\ InHand = {} /\ InHand' = {}
      /\ View' = pool' /\ Resting' = Mapped \ Dropped'
      /\ Mem!Held = Resting /\ Mem!InitDone /\ Mem!IInv
      /\ \A z \in Resting : z \in Slot \ {NULL} /\ pool[z] \in OrderRec
  BY <1>2, Facts, MatcherRests, MatcherLeaves
<1>4. CASE Filled(s)
  <2>1. /\ Mem!Push(x) /\ pool' = pool /\ xr.qty = o.qty
    BY <1>1, <1>4 DEF Consume, Filled
  <2>2. Resting' = Resting \ {x}
    BY <1>3, <1>4
  <2>3. Removes(Resting, pool, lvl, x, pool, u)
    <3>1. /\ u.head = o.next /\ u.tail = IF x # v.tail THEN v.tail ELSE NULL
          /\ u.qty = LevelMinus(v.qty, o.qty)
      BY <1>1, <1>4, <2>1 DEF LevelAfter
    <3> HIDE DEF u
    <3> QED BY <1>1, <3>1 DEF Removes
  <2>4. QueuesAreFifos'
    <3> HIDE DEF u, x
    <3>1. AreFifos(Resting \ {x}, pool, [lvl EXCEPT ![pool[x].side][pool[x].price] = u])
      BY <1>1, <1>3, <2>3, FifosWithout
    <3> QED BY <1>1, <1>2, <1>3, <2>1, <2>2, <3>1 DEF QueuesAreFifos
  <2>5. [Mem!Next]_memVars
    BY <1>1, <1>3, <2>1 DEF Mem!Next
  <2>6. SlotsAccountedFor'
    <3>1. Mem!Held' = Mem!Held \ {x}
      BY <1>1, <1>3, <2>1, PushGives
    <3>2. Mem!Held' = Resting' \union InHand'
      BY <1>3, <2>2, <3>1
    <3>3. \A i \in Ids : ids[i] \in Resting' => pool'[ids[i]].id = i
      BY <2>1, <2>2, Facts
    <3> QED BY <1>2, <1>3, <2>2, <2>5, <3>2, <3>3, AccountsKept
  <2> QED BY <2>1, <2>2, <2>4, <2>5, <2>6 DEF BookKept, NoneJoins
<1>5. CASE ~Filled(s)
  <2> DEFINE n == o.qty - xr.qty
  <2>1. n \in Qty /\ n > 0 /\ QtyMinus(o.qty, xr.qty) = n
    <3>1. o.qty \in Qty /\ xr.qty # o.qty
      BY <1>1, <1>5 DEF OrderRec, Filled
    <3> QED BY <1>1, <3>1 DEF Qty, QtyMinus
  <2>2. /\ Mem!Write(x, [o EXCEPT !.qty = n]) /\ free' = free /\ initCnt' = initCnt
    BY <1>1, <1>5, <2>1 DEF Consume
  <2>3. Resting' = Resting
    BY <1>3, <1>5
  <2>4. \A z \in Slot : pool'[z] = IF z = x THEN [pool[z] EXCEPT !.qty = n] ELSE pool[z]
    BY <1>1, <1>3, <2>2 DEF Mem!Write, Pools
  <2>5. u.head = v.head /\ u.tail = v.tail /\ u.qty = LevelMinus(v.qty + n, o.qty)
    <3>1. v.qty \in Int /\ o.qty \in Int /\ xr.qty \in Int
      BY <1>1 DEF LevelRec, OrderRec, Qty, LevelQty
    <3>2. (v.qty + n) - o.qty = v.qty - xr.qty
      BY <3>1
    <3>3. u.head = v.head /\ u.tail = v.tail /\ u.qty = LevelMinus(v.qty, xr.qty)
      BY <1>1, <1>5 DEF LevelAfter
    <3> QED BY <3>2, <3>3 DEF LevelMinus
  <2> HIDE DEF u, x, n
  <2>6. Resizes(Resting, pool, lvl, x, n, pool', u)
    BY <1>1, <1>3, <2>4, <2>5 DEF Resizes
  <2>7. QueuesAreFifos'
    <3>1. AreFifos(Resting, pool', [lvl EXCEPT ![pool[x].side][pool[x].price] = u])
      BY <1>1, <1>3, <2>1, <2>6, FifosResized
    <3> QED BY <1>1, <1>2, <1>3, <2>3, <3>1 DEF QueuesAreFifos
  <2>8. [Mem!Next]_memVars
    <3>1. [o EXCEPT !.qty = n] \in OrderRec
      BY <1>1, <2>1 DEF OrderRec
    <3> QED BY <1>1, <1>3, <2>2, <3>1 DEF Mem!Next
  <2>9. \A z \in Resting : pool'[z].id = pool[z].id /\ pool'[z].ts = pool[z].ts
    BY <1>3, <2>4 DEF OrderRec
  <2>10. SlotsAccountedFor'
    <3>1. Mem!Held' = Resting' \union InHand'
      <4>1. Mem!Held' = Mem!Held
        BY <2>2 DEF Mem!Held, Mem!FreeSlots
      <4> QED BY <1>3, <2>3, <4>1
    <3>2. \A i \in Ids : ids[i] \in Resting' => pool'[ids[i]].id = i
      BY <2>3, <2>9, Facts
    <3> QED BY <1>2, <1>3, <2>3, <2>8, <3>1, <3>2, AccountsKept
  <2> QED BY <1>5, <2>3, <2>4, <2>7, <2>8, <2>9, <2>10 DEF BookKept, NoneJoins, x
<1> QED BY <1>4, <1>5

\* M_HASH_BID, M_HASH_ASK, F_HASH: the filled order loses its name.
LEMMA FilledForgotten ==
    ASSUME Sound, mat # "M_IDLE", UNCHANGED <<mgrVars, ctlVars>>,
           NEW s \in Side, DropMapping(s), Unmapping(s),
           Dropped = {xr.level[s].head}, Dropped' = {}
    PROVE  BookKept /\ NoneJoins
<1> DEFINE x == xr.level[s].head
           k == xr.order[s].id
<1>1. /\ ids' = [i \in Ids |-> IF i = k THEN NULL ELSE ids[i]]
      /\ lvl' = lvl /\ pool' = pool /\ free' = free /\ initCnt' = initCnt
  BY DEF DropMapping, memVars
<1>2. k \in Ids /\ ids[k] = x /\ x # NULL
  BY MatcherRests DEF MatcherLatches
<1>3. Mapped' = Mapped \ {x}
  <2>1. \A i \in Ids : i # k => ids[i] # x
    BY <1>2, Facts
  <2> QED BY <1>1, <1>2, <2>1 DEF Mapped
<1>4. /\ Resting' = Resting /\ InHand = {} /\ InHand' = {}
      /\ View = pool /\ View' = pool' /\ Mem!Held = Resting
  BY <1>3, MatcherRests, MatcherLeaves
<1>5. QueuesAreFifos'
  BY <1>1, <1>4, Facts DEF QueuesAreFifos
<1>6. [Mem!Next]_memVars
  BY <1>1 DEF memVars
<1>7. SlotsAccountedFor'
  <2>1. Mem!NoSlotTwice' /\ NULL \notin Mem!FreeSlots'
    BY <1>6, MemoryKept, MatcherRests
  <2>2. Mem!Held' = Resting' \union InHand'
    <3>1. Mem!Held' = Mem!Held
      BY <1>1 DEF Mem!Held, Mem!FreeSlots
    <3> QED BY <1>4, <3>1
  <2>3. \A i \in Ids : ids'[i] = NULL \/ ids'[i] = ids[i]
    BY <1>1
  <2>4. \A i, j \in Ids : ids'[i] = ids'[j] /\ ids'[i] # NULL => i = j
    BY <2>3, Facts
  <2>5. \A i \in Ids : ids'[i] \in Resting' => pool'[ids'[i]].id = i
    <3>1. NULL \notin Resting
      BY Facts DEF Slots
    <3> QED BY <1>1, <1>4, <2>3, <3>1, Facts
  <2> QED BY <2>1, <2>2, <2>4, <2>5 DEF SlotsAccountedFor
<1> QED BY <1>1, <1>4, <1>5, <1>6, <1>7 DEF BookKept, NoneJoins

\* A consuming state of the matcher.
Consumes(s) ==
    \/ s = "BUY" /\ MUpdBid
    \/ s = "SELL" /\ MUpdAsk
    \/ s = Passive /\ FUpdate

\* What the three consuming states have in common.
LEMMA ConsumingFacts ==
    ASSUME Sound, UNCHANGED <<mgrVars, ctlVars>>, NEW s \in Side, Consumes(s)
    PROVE  /\ mat # "M_IDLE" /\ Latched(s) /\ Consume(s) /\ Dropped = {}
           /\ Dropped' = IF Filled(s) THEN {xr.level[s].head} ELSE {}
           /\ xr'.order = xr.order /\ xr'.level = xr.level
           /\ \A t \in Side : Unmapping(t)' <=> t = s /\ Filled(s)
<1>1. /\ mat \in {"M_UPD_BID", "M_UPD_ASK", "F_UPDATE"} /\ Consume(s)
      /\ mat = "M_UPD_BID" => s = "BUY"
      /\ mat = "M_UPD_ASK" => s = "SELL"
      /\ mat = "F_UPDATE" => s = Passive
      /\ mat' = CASE mat = "M_UPD_BID" -> IF Filled(s) THEN "M_HASH_BID" ELSE "M_UPD_ASK"
                  [] mat = "M_UPD_ASK" -> IF Filled(s) THEN "M_HASH_ASK" ELSE "M_CHECK"
                  [] mat = "F_UPDATE"  -> IF Filled(s) THEN "F_HASH" ELSE "F_CHECK"
  BY DEF Consumes, MUpdBid, MUpdAsk, FUpdate, MatGoto
<1>2. /\ mat # "M_IDLE" /\ xr \in MatRegs /\ MatcherLatches /\ Passive' = Passive
  BY <1>1, MatcherRests, MatcherLeaves
<1>3. Latched(s)
  BY <1>1, <1>2 DEF MatcherLatches
<1>4. xr'.order = xr.order /\ xr'.level = xr.level
  BY <1>2 DEF Consumes, MUpdBid, MUpdAsk, FUpdate, MatGoto, MatRegs
<1>5. \A t \in Side : ~Unmapping(t)
  BY <1>1 DEF Unmapping
<1>6. \A t \in Side : Unmapping(t)' <=> t = s /\ Filled(s)
  BY <1>1, <1>2 DEF Unmapping
<1>7. Dropped = {}
  BY <1>5 DEF Dropped
<1>8. Dropped' = IF Filled(s) THEN {xr.level[s].head} ELSE {}
  BY <1>4, <1>6 DEF Dropped
<1> QED BY <1>1, <1>2, <1>3, <1>4, <1>6, <1>7, <1>8

\* A state of the matcher that deletes a mapping.
Forgets(s) ==
    \/ s = "BUY" /\ MHashBid
    \/ s = "SELL" /\ MHashAsk
    \/ s = Passive /\ FHash

\* What the three have in common.
LEMMA ForgettingFacts ==
    ASSUME Sound, UNCHANGED <<mgrVars, ctlVars>>, NEW s \in Side, Forgets(s)
    PROVE  /\ mat # "M_IDLE" /\ DropMapping(s) /\ Unmapping(s)
           /\ Dropped = {xr.level[s].head} /\ Dropped' = {} /\ xr' = xr
           /\ \A t \in Side : ~Unmapping(t)'
<1>1. /\ mat \in {"M_HASH_BID", "M_HASH_ASK", "F_HASH"} /\ DropMapping(s) /\ xr' = xr
      /\ mat = "M_HASH_BID" <=> (s = "BUY" /\ mat # "F_HASH")
      /\ mat = "M_HASH_ASK" <=> (s = "SELL" /\ mat # "F_HASH")
      /\ mat = "F_HASH" => s = Passive
      /\ mat' \in {"M_UPD_ASK", "M_CHECK", "F_CHECK"}
  BY DEF Forgets, MHashBid, MHashAsk, FHash, MatGoto
<1>2. \A t \in Side : Unmapping(t) <=> t = s
  BY <1>1 DEF Unmapping
<1>3. \A t \in Side : ~Unmapping(t)'
  BY <1>1 DEF Unmapping
<1> QED BY <1>1, <1>2, <1>3 DEF Dropped

\* The matcher's steps, grouped.
LEMMA MatcherCases ==
    ASSUME MatStep
    PROVE  \/ MCheck \/ MTrade \/ FCheck \/ FTrade \/ MDone
           \/ \E s \in Side : Consumes(s)
           \/ \E s \in Side : Forgets(s)
<1>1. Passive \in Side
  BY DEF Passive, Opposite
<1> QED BY <1>1 DEF MatStep, Consumes, Forgets

\* The matcher keeps the book, and nothing joins it.
LEMMA MatcherKeepsBook ==
    ASSUME Sound, MatStep, UNCHANGED <<mgrVars, ctlVars>>
    PROVE  BookKept /\ NoneJoins
<1>1. CASE MCheck \/ MTrade \/ FCheck \/ FTrade \/ MDone
  BY <1>1, MatcherLooks
<1>2. ASSUME NEW s \in Side, Consumes(s) PROVE BookKept /\ NoneJoins
  BY <1>2, ConsumingFacts, HeadConsumed
<1>3. ASSUME NEW s \in Side, Forgets(s) PROVE BookKept /\ NoneJoins
  BY <1>3, ForgettingFacts, FilledForgotten
<1> QED BY <1>1, <1>2, <1>3, MatcherCases

\* The last step of linking: the command's order joins the book.
Joins ==
    /\ WrEmpty \/ TailLink2
    /\ Resting' = Resting \union {mr.slot}
    /\ \A z \in Resting : pool'[z].ts = pool[z].ts
    /\ pool'[mr.slot].ts = cmd.ts

\* The manager keeps the book; only its last linking step adds to it.
LEMMA ManagerKeepsBook ==
    ASSUME Sound, MgrStep, UNCHANGED <<matVars, ctlVars>>
    PROVE  BookKept /\ (NoneJoins \/ Joins)
<1>1. CASE LookupMiss \/ LookupHit \/ LatchQuery \/ LatchReject \/ LatchOrder
             \/ CanBegin \/ ExTrade \/ MgrAck \/ EnqHashMiss \/ LvlRead \/ EnqDone
  BY <1>1, ManagerLooks
<1>2. CASE SpWrNext
  BY <1>2, SpliceUnlinks
<1>3. CASE SpWrNext2
  BY <1>3, SpliceRelinks
<1>4. CASE DelHash
  BY <1>4, NameGoes
<1>5. CASE DelCommit \/ EnqRollback
  BY <1>5, SlotGoes
<1>6. CASE ModQtyWr \/ ExPartial
  BY <1>6, QuantityChanges
<1>7. CASE EnqGetSlot
  BY <1>7, SlotComes
<1>8. CASE EnqHashHit
  BY <1>8, NameComes
<1>9. CASE ReLvl
  BY <1>9, MovedRewritten
<1>10. CASE WrEmpty
  BY <1>10, FirstLinked DEF Joins
<1>11. CASE TailLink
  BY <1>11, TailReaches
<1>12. CASE TailLink2
  BY <1>12, TailLinked DEF Joins
<1> QED BY <1>1, <1>2, <1>3, <1>4, <1>5, <1>6, <1>7, <1>8, <1>9, <1>10, <1>11, <1>12
     DEF MgrStep

-----------------------------------------------------------------------------
(* The other steps.                                                          *)

\* Nothing is carried while manager and matcher rest.
LEMMA RestsWhenIdle ==
    ASSUME mgr \in {"IDLE", "LU", "ENQ_GET_SLOT"},
           mat \in {"M_IDLE", "M_CHECK", "F_CHECK"}
    PROVE  InHand = {} /\ Dropped = {} /\ View = pool /\ Resting = Mapped
<1>1. InHand = {} /\ View = pool
  BY DEF InHand, View, Deleting, Linking
<1>2. Dropped = {}
  BY DEF Dropped, Unmapping
<1> QED BY <1>1, <1>2 DEF Resting

\* The same after a step.
LEMMA RestsWhenIdleNext ==
    ASSUME mgr' \in {"IDLE", "LU", "ENQ_GET_SLOT"},
           mat' \in {"M_IDLE", "M_CHECK", "F_CHECK"}
    PROVE  InHand' = {} /\ Dropped' = {} /\ View' = pool' /\ Resting' = Mapped'
<1>1. InHand' = {} /\ View' = pool'
  BY DEF InHand, View, Deleting, Linking
<1>2. Dropped' = {}
  BY DEF Dropped, Unmapping
<1> QED BY <1>1, <1>2 DEF Resting

\* The controller moves while both rest, and at most starts one.
LEMMA ControllerStarts ==
    ASSUME IInv, CtlStep
    PROVE  /\ AtRest /\ ctl # "C_IDLE" /\ ctl' # "C_VALIDATE"
           /\ mgr' \in {"IDLE", "LU", "ENQ_GET_SLOT"}
           /\ mat' \in {"M_IDLE", "M_CHECK", "F_CHECK"}
           /\ cmd'.ts = cmd.ts
<1> USE DEF MgrStart, MatStart, NoStart, mgrVars, matVars
<1>1. cmd \in CmdRec \union {ZeroCmd}
  BY DEF IInv, TypeOK, ControlTypeOK
<1>2. CASE ValidateReject \/ ValidateFast \/ ValidateManager \/ Settle \/ SendAck
  <2>1. AtRest
    BY <1>2 DEF IInv, OneAtATime, Waiting, ValidateReject, ValidateFast,
                ValidateManager, Settle, SendAck, Validating
  <2> QED BY <1>2, <2>1 DEF AtRest, ValidateReject, ValidateFast,
                ValidateManager, Settle, SendAck, Validating
<1>3. CASE FastFilled \/ FastRemainder \/ EnqRejected \/ Enqueued
             \/ MgrAcked \/ Moved \/ Drained \/ Queried
  <2>1. resp # NoResp
    BY <1>3 DEF FastFilled, FastRemainder, EnqRejected, Enqueued, MgrAcked, Moved,
                Drained, Queried, Hears, NoResp
  <2>2. AtRest
    BY <2>1, HeardAtRest
  <2>3. [cmd EXCEPT !.qty = resp.qty].ts = cmd.ts
    BY <1>1 DEF CmdRec, ZeroCmd
  <2> QED BY <1>3, <2>2, <2>3 DEF AtRest, FastFilled, FastRemainder, EnqRejected,
                Enqueued, MgrAcked, Moved, Drained, Queried, Hears, StartDrain
<1> QED BY <1>2, <1>3 DEF CtlStep

\* The controller and the arrival of a command leave the book as it is.
LEMMA ControllerKeepsTheBook ==
    ASSUME Sound, CtlStep \/ \E c \in Command : Accept(c)
    PROVE  BookKept /\ NoneJoins
<1>1. /\ AtRest
      /\ mgr' \in {"IDLE", "LU", "ENQ_GET_SLOT"}
      /\ mat' \in {"M_IDLE", "M_CHECK", "F_CHECK"}
      /\ UNCHANGED <<pool, free, initCnt, lvl, ids>>
  <2>1. CASE CtlStep
    BY <2>1, ControllerStarts, ControllerKeepsBook DEF Sound, memVars
  <2>2. ASSUME NEW c \in Command, Accept(c)
        PROVE  /\ AtRest /\ mgr' = mgr /\ mat' = mat
               /\ UNCHANGED <<pool, free, initCnt, lvl, ids>>
    BY <2>2 DEF Sound, IInv, OneAtATime, Waiting, Accept, NoStart, mgrVars, matVars, memVars
  <2> QED BY <2>1, <2>2 DEF AtRest
<1>2. UNCHANGED <<Resting, InHand, View>>
  BY <1>1, RestsWhenIdle, RestsWhenIdleNext DEF AtRest, Mapped
<1> QED BY <1>1, <1>2, BookSame

\* What stays while no FSM moves.
LEMMA OthersKeepCarried ==
    ASSUME UNCHANGED <<pool, Others>>
    PROVE  UNCHANGED <<Resting, InHand, View, Mapped>>
<1>1. UNCHANGED <<pool, ids, mgr, mr, mat, xr, cmd>>
  BY DEF Others, mgrVars, matVars, ctlVars
<1>2. InHand' = InHand /\ View' = View /\ Mapped' = Mapped
  BY <1>1 DEF InHand, View, Target, Mapped
<1>3. Dropped' = Dropped
  BY <1>1 DEF Dropped, Unmapping, Passive
<1> QED BY <1>2, <1>3 DEF Resting

\* An empty book has nothing in it.
LEMMA EmptyRests == BookEmpty => Mapped = {} /\ Resting = {}
BY DEF BookEmpty, Mapped, Resting

\* A reset of an empty book.
LEMMA ResetKeepsBook ==
    ASSUME Sound, ScopeOfBook, Reset
    PROVE  BookKept /\ NoneJoins /\ Resting' = {}
<1>1. /\ BookEmpty /\ Mem!Reset /\ pool' = pool /\ lvl' = lvl /\ ids' = ids
      /\ mgr' = "IDLE" /\ mat' = "M_IDLE" /\ free' = <<>> /\ initCnt' = 1
  BY DEF Reset, ScopeOfBook, Mem!Reset
<1>2. InHand' = {} /\ View' = pool' /\ Resting' = {}
  <2>1. Mapped' = Mapped
    BY <1>1 DEF Mapped
  <2> QED BY <1>1, <2>1, EmptyRests, RestsWhenIdleNext
<1>3. QueuesAreFifos'
  <2>1. ASSUME NEW s \in Side, NEW l \in Level
        PROVE  IsFifo(SlotsAt({}, pool, s, l), pool, lvl[s][l])
    <3>1. SlotsAt({}, pool, s, l) = {}
      BY DEF SlotsAt
    <3>2. lvl[s][l] = ZeroLevel
      BY <1>1 DEF BookEmpty
    <3> QED BY <3>1, <3>2, FifoEmpty DEF ZeroLevel
  <2> QED BY <1>1, <1>2, <2>1 DEF QueuesAreFifos, AreFifos
<1>4. [Mem!Next]_memVars
  BY <1>1 DEF Mem!Next
<1>5. SlotsAccountedFor'
  <2>1. Mem!NoSlotTwice' /\ NULL \notin Mem!FreeSlots'
    BY <1>4, MemoryKept DEF Sound, BookInv
  <2>2. ~Mem!InitDone'
    BY <1>1 DEF Mem!InitDone
  <2>3. \A i, j \in Ids : ids'[i] = ids'[j] /\ ids'[i] # NULL => i = j
    BY <1>1, Facts
  <2> QED BY <1>2, <2>1, <2>2, <2>3 DEF SlotsAccountedFor
<1> QED BY <1>2, <1>3, <1>4, <1>5 DEF BookKept, NoneJoins

\* One slot is pushed by the initialization; after the last one, every slot but
\* 0 is free, which is right for the empty book the initialization works under.
LEMMA InitKeepsBook ==
    ASSUME Sound, MemInit
    PROVE  BookKept /\ NoneJoins /\ FilledSoFar'
<1>1. /\ ~Mem!InitDone /\ free' = Append(free, initCnt) /\ initCnt' = initCnt + 1
      /\ pool' = pool /\ UNCHANGED Others /\ lvl' = lvl /\ ids' = ids
  BY DEF MemInit, Mem!InitEdge, Others
<1>2. /\ BookEmpty /\ free = [n \in 1 .. initCnt - 1 |-> n] /\ initCnt \in 1 .. MaxOrders
      /\ initCnt # MaxOrders /\ Mem!IInv
  BY <1>1 DEF Sound, BookInv, EmptyUntilReady, FilledSoFar, Mem!InitDone, IInv, TypeOK,
              MemoryTypeOK
<1>3. UNCHANGED <<Resting, InHand, View>> /\ Resting = {}
  BY <1>1, <1>2, OthersKeepCarried, EmptyRests
<1>4. InHand = {}
  <2>1. ~Waiting
    BY <1>1 DEF Sound, IInv, ValidatedFirst
  <2>2. mgr = "IDLE"
    BY <2>1 DEF Sound, IInv, OneAtATime, AtRest
  <2> QED BY <2>2 DEF InHand, Deleting, Linking
<1>5. free' = [n \in 1 .. initCnt |-> n] /\ Len(free) = initCnt - 1
  <2>1. Len(free) = initCnt - 1 /\ free \in Seq(Nat)
    BY <1>2
  <2>2. /\ Append(free, initCnt) \in Seq(Nat) /\ Len(Append(free, initCnt)) = initCnt
        /\ \A n \in 1 .. initCnt : Append(free, initCnt)[n] = n
    BY <1>2, <2>1
  <2>3. Append(free, initCnt)
          = [n \in 1 .. Len(Append(free, initCnt)) |-> Append(free, initCnt)[n]]
    <3> DEFINE f == Append(free, initCnt)
    <3>1. f \in [1 .. Len(f) -> Nat]
      BY <2>2, LenProperties
    <3> HIDE DEF f
    <3>2. f = [n \in 1 .. Len(f) |-> f[n]]
      BY <3>1
    <3> QED BY <3>2 DEF f
  <2> QED BY <1>1, <2>1, <2>2, <2>3
<1>6. FilledSoFar'
  <2>1. initCnt' - 1 = initCnt
    BY <1>1, <1>2
  <2> QED BY <1>5, <2>1 DEF FilledSoFar
<1>7. QueuesAreFifos'
  BY <1>1, <1>3, Facts DEF QueuesAreFifos
<1>8. [Mem!Next]_memVars
  BY DEF MemInit, Mem!Next
<1>9. SlotsAccountedFor'
  <2>1. Mem!InitDone' => Mem!Held' = {}
    <3> SUFFICES ASSUME initCnt' = MaxOrders PROVE Mem!Held' = {}
      BY DEF Mem!InitDone
    <3>1. free' = [n \in 1 .. MaxOrders - 1 |-> n] /\ Len(free') = MaxOrders - 1
      BY <1>1, <1>2, <1>5
    <3>2. \A n \in 1 .. MaxOrders - 1 : n \in 1 .. Len(free') /\ free'[n] = n
      BY <3>1
    <3>3. 1 .. MaxOrders - 1 \subseteq Mem!FreeSlots'
      BY <3>2 DEF Mem!FreeSlots
    <3> QED BY <3>3 DEF Mem!Held
  <2>2. \A i \in Ids : ids[i] \in Resting' => pool'[ids[i]].id = i
    BY <1>3
  <2>3. Resting' \subseteq Mapped
    BY <1>3
  <2> QED BY <1>1, <1>3, <1>4, <1>8, <2>1, <2>2, <2>3, AccountsKept
<1> QED BY <1>1, <1>3, <1>6, <1>7, <1>8, <1>9 DEF BookKept, NoneJoins

\* An edge on which at most the encoder moves.
EncoderOnly == UNCHANGED <<memVars, Others>>

\* The steps of the engine.
LEMMA StepCases ==
    ASSUME [Next]_vars
    PROVE  \/ \E c \in Command : Accept(c)
           \/ CtlStep
           \/ MgrStep /\ UNCHANGED <<matVars, ctlVars>>
           \/ MatStep /\ UNCHANGED <<mgrVars, ctlVars>>
           \/ MemInit
           \/ EncoderOnly
           \/ Reset
<1>1. EncoderInit \/ Scan \/ UNCHANGED vars => EncoderOnly
  BY DEF EncoderInit, Scan, vars, EncoderOnly, Others
<1> QED BY <1>1 DEF Next, EngineStep, Background

\* Every step of the engine keeps the book: the queues are FIFOs, the slots are
\* accounted for, and the order memory is used as it specifies.
LEMMA EngineKeepsBook ==
    ASSUME Sound, ScopeOfBook, [Next]_vars
    PROVE  BookKept /\ (NoneJoins \/ (Joins /\ UNCHANGED <<matVars, ctlVars>>))
<1>1. CASE EncoderOnly
  <2>1. UNCHANGED <<pool, free, initCnt, lvl, ids>>
    BY <1>1 DEF EncoderOnly, Others, memVars
  <2>2. UNCHANGED <<Resting, InHand, View>>
    BY <1>1, <2>1, OthersKeepCarried DEF EncoderOnly
  <2> QED BY <2>1, <2>2, BookSame
<1> QED BY <1>1, StepCases, ControllerKeepsTheBook, ManagerKeepsBook, MatcherKeepsBook,
           InitKeepsBook, ResetKeepsBook

\* Only the manager makes orders join.
LEMMA JoiningIsLinking ==
    ASSUME Sound, Joins
    PROVE  /\ mgr \in Linking /\ Linked /\ ctl # "C_IDLE"
           /\ mgr' \in {"ENQ_DONE", "IDLE"}
           /\ cmd.ts \in Nat
BY LinkFacts, ManagerFacts
   DEF Joins, WrEmpty, TailLink2, Linking, Linked, Goto, Finish, Sound, Waiting, CmdRec

\* Whoever may still be linked had arrived before the step, or arrives now.
LEMMA UnlinkedBefore ==
    ASSUME Sound, [Next]_vars, Unlinked', ~\E c \in Command : Accept(c)
    PROVE  Unlinked /\ ctl # "C_IDLE"
<1>1. CASE CtlStep
  <2>1. ctl # "C_IDLE" /\ mgr = "IDLE" /\ ctl' # "C_VALIDATE"
    BY <1>1, ControllerStarts DEF Sound, AtRest
  <2>2. ctl \in {"C_VALIDATE", "C_FAST"}
    <3> USE DEF MgrStart, MatStart, NoStart, mgrVars, matVars, Unlinked
    <3>1. CASE ValidateReject \/ ValidateFast \/ ValidateManager
      BY <3>1 DEF ValidateReject, ValidateFast, ValidateManager, Validating
    <3>2. CASE Settle \/ SendAck \/ FastFilled
      BY <2>1, <3>2 DEF Settle, SendAck, FastFilled, Hears
    <3>3. CASE FastRemainder
      BY <3>3 DEF FastRemainder, Hears
    <3>4. CASE EnqRejected \/ Enqueued \/ MgrAcked
      BY <2>1, <3>4 DEF EnqRejected, Enqueued, MgrAcked, StartDrain
    <3>5. CASE Moved \/ Queried
      BY <2>1, <3>5 DEF Moved, Queried, StartDrain
    <3>6. CASE Drained
      <4>1. mr' = [ZeroRegs EXCEPT !.op = "QUERY"] /\ ctl' = "C_QUERY"
        BY <3>6 DEF Drained
      <4>2. mr'.op = "QUERY"
        BY <4>1 DEF ZeroRegs
      <4> QED BY <4>1, <4>2
    <3> QED BY <1>1, <3>1, <3>2, <3>3, <3>4, <3>5, <3>6 DEF CtlStep
  <2> QED BY <2>1, <2>2 DEF Unlinked
<1>2. CASE MgrStep /\ UNCHANGED <<matVars, ctlVars>>
  <2>1. /\ mgr # "IDLE" /\ ctl' = ctl /\ Waiting /\ mr \in MgrRegs
        /\ ctl \notin {"C_IDLE", "C_VALIDATE", "C_FAST"}
    BY <1>2, ManagerSteps, ManagerFacts, ManagerRests
       DEF ctlVars, Sound, ManagerAtWork, CallerOf, MgrOp, Waiting
  <2>2. mgr' # "IDLE" /\ mgr' # "ACK"
    BY <2>1 DEF Unlinked
  <2>3. mr'.op = mr.op /\ mgr \notin {"ENQ_DONE", "ACK"}
    <3> USE <2>1, <2>2 DEF Goto, Finish, Linked, MgrRegs
    <3>1. CASE LookupMiss \/ LookupHit \/ LatchQuery \/ LatchReject \/ LatchOrder \/ CanBegin
      BY <3>1 DEF LookupMiss, LookupHit, LatchQuery, LatchReject, LatchOrder, CanBegin
    <3>2. CASE SpWrNext \/ SpWrNext2 \/ DelHash \/ DelCommit \/ ModQtyWr \/ ExPartial
      BY <3>2 DEF SpWrNext, SpWrNext2, DelHash, DelCommit, ModQtyWr, ExPartial
    <3>3. CASE ExTrade \/ MgrAck \/ EnqHashHit \/ EnqHashMiss \/ EnqRollback
      BY <3>3 DEF ExTrade, MgrAck, EnqHashHit, EnqHashMiss, EnqRollback
    <3>4. CASE EnqGetSlot \/ ReLvl \/ LvlRead
      BY <3>4 DEF EnqGetSlot, ReLvl, LvlRead
    <3>5. CASE WrEmpty \/ TailLink \/ TailLink2 \/ EnqDone
      BY <3>5 DEF WrEmpty, TailLink, TailLink2, EnqDone
    <3> QED BY <1>2, <3>1, <3>2, <3>3, <3>4, <3>5 DEF MgrStep
  <2> QED BY <2>1, <2>3 DEF Unlinked
<1>3. CASE MatStep /\ UNCHANGED <<mgrVars, ctlVars>>
  <2>1. ctl # "C_IDLE"
    BY <1>3, MatcherSteps, MatcherRests
  <2> QED BY <1>3, <2>1 DEF Unlinked, mgrVars, ctlVars
<1>4. CASE MemInit \/ EncoderOnly
  <2>1. UNCHANGED <<ctl, mgr, mr>>
    BY <1>4 DEF MemInit, EncoderOnly, Others, ctlVars, mgrVars
  <2>2. Unlinked
    BY <2>1 DEF Unlinked
  <2>3. ctl = "C_IDLE" => mgr = "IDLE"
    BY DEF Sound, IInv, OneAtATime, Waiting, AtRest
  <2> QED BY <2>2, <2>3 DEF Unlinked
<1>5. CASE Reset
  BY <1>5 DEF Reset, Unlinked
<1> QED BY <1>1, <1>2, <1>3, <1>4, <1>5, StepCases

\* Arrival order.
LEMMA TimelyKept ==
    ASSUME Sound, ScopeOfBook, [Next]_vars
    PROVE  Timely'
<1>1. /\ ctl # "C_IDLE" => cmd.ts = sent
      /\ \A x \in Resting : pool[x].ts <= sent
      /\ Unlinked => \A x \in Resting : pool[x].ts < cmd.ts
      /\ \A x \in Resting : pool[x].ts \in Nat
      /\ sent \in Nat
  <2>1. sent \in Nat
    BY BoundAssumption DEF Sound, IInv, TypeOK, ControlTypeOK
  <2>2. \A x \in Resting : pool[x].ts \in Nat
    BY Facts DEF OrderRec
  <2> QED BY <2>1, <2>2 DEF Sound, BookInv, Timely
<1>2. CASE \E c \in Command : Accept(c)
  <2>1. PICK c \in Command : Accept(c)
    BY <1>2
  <2>2. c.ts = sent + 1 /\ cmd' = c /\ sent' = c.ts
    BY <2>1 DEF Accept, Command
  <2>3. NoneJoins
    BY <1>2, ControllerKeepsTheBook
  <2> QED BY <1>1, <2>2, <2>3 DEF Timely, NoneJoins
<1>3. CASE ~\E c \in Command : Accept(c)
  <2>1. /\ sent' = sent
        /\ ctl' # "C_IDLE" => ctl # "C_IDLE" /\ cmd'.ts = cmd.ts
    <3>1. CASE CtlStep
      BY <3>1, ControllerStarts, ControllerKeepsBook DEF Sound
    <3>2. CASE Reset
      BY <3>2 DEF Reset
    <3>3. CASE MemInit \/ EncoderOnly
      BY <3>3 DEF MemInit, EncoderOnly, Others, ctlVars
    <3> QED BY <1>3, <3>1, <3>2, <3>3, StepCases DEF ctlVars
  <2>2. Unlinked' => Unlinked /\ ctl # "C_IDLE"
    BY <1>3, UnlinkedBefore
  <2>3. CASE NoneJoins
    <3>1. Unlinked' => ctl' # "C_IDLE"
      <4>1. CASE Unlinked' /\ ctl' = "C_IDLE"
        <5>1. IInv'
          BY EngineKeeps DEF Sound
        <5>2. mgr' = "IDLE"
          BY <4>1, <5>1 DEF IInv, OneAtATime, Waiting, AtRest
        <5> QED BY <4>1, <5>2 DEF Unlinked
      <4> QED BY <4>1
    <3> QED BY <1>1, <2>1, <2>2, <2>3, <3>1 DEF Timely, NoneJoins
  <2>4. CASE Joins /\ UNCHANGED <<matVars, ctlVars>>
    <3>1. /\ mgr \in Linking /\ ctl # "C_IDLE" /\ mgr' \in {"ENQ_DONE", "IDLE"}
          /\ cmd.ts = sent /\ cmd' = cmd /\ ctl' = ctl
      BY <1>1, <2>4, JoiningIsLinking DEF ctlVars
    <3>2. Resting' = Resting \union {mr.slot} /\ pool'[mr.slot].ts = cmd.ts
          /\ \A z \in Resting : pool'[z].ts = pool[z].ts
      BY <2>4 DEF Joins
    <3>3. ~Unlinked'
      <4>1. ctl \notin {"C_VALIDATE", "C_FAST"}
        <5>1. mgr # "IDLE"
          BY <3>1 DEF Linking
        <5> QED BY <5>1, ManagerRests, ManagerFacts
                DEF Sound, ManagerAtWork, CallerOf, MgrOp
      <4> QED BY <3>1, <4>1 DEF Unlinked
    <3> QED BY <1>1, <2>1, <3>1, <3>2, <3>3 DEF Timely
  <2> QED BY <2>3, <2>4, EngineKeepsBook
<1> QED BY <1>2, <1>3

-----------------------------------------------------------------------------
(* What the host and the controller contribute.                              *)

\* A host that does not splice stale heads has not done so when the order is
\* looked up: nothing moves in between.
LEMMA NoStaleKept ==
    ASSUME Sound, ScopeOfBook, [Next]_vars
    PROVE  NoStaleSplice'
<1> DEFINE Fine(c, i, p, t) ==
             LET slot == i[c.id]
                 o == p[slot]
             IN  (slot # NULL /\ (\/ c.type = "CANCEL"
                                  \/ c.type = "MODIFY" /\ c.price # o.price
                                  \/ c.type = "EXECUTE" /\ c.qty = o.qty))
                   => ~(o.prev # NULL /\ t[o.side][o.price].head = slot)
           Asked == ctl = "C_VALIDATE" \/ (mgr \in {"LU", "LATCH"} /\ mr.op # "QUERY")
<1>0. NoStaleSplice
  BY DEF Sound, BookInv
<1>1. Asked => Fine(cmd, ids, pool, lvl)
  BY <1>0 DEF NoStaleSplice, Splices, StaleHead
<1> SUFFICES ASSUME Asked' PROVE Fine(cmd, ids, pool, lvl)'
  BY DEF NoStaleSplice, Splices, StaleHead
<1>2. ASSUME NEW c \in Command, Accept(c) PROVE Fine(cmd, ids, pool, lvl)'
  <2>1. cmd' = c /\ pool' = pool /\ ids' = ids /\ lvl' = lvl /\ HostMay(c)
    BY <1>2 DEF Accept, memVars
  <2>2. Fine(c, ids, pool, lvl)
    BY <2>1 DEF HostMay, Splices, StaleHead, ScopeOfBook
  <2> QED BY <2>1, <2>2
<1>3. ASSUME UNCHANGED <<pool, ids, lvl, cmd>>, Asked PROVE Fine(cmd, ids, pool, lvl)'
  BY <1>1, <1>3
<1>4. CASE CtlStep
  <2>1. mgr' = "LU" /\ mr'.op # "QUERY" /\ mgr = "IDLE" /\ ctl' # "C_VALIDATE"
    BY <1>4, ControllerStarts DEF Sound, AtRest
  <2>2. CASE ValidateManager
    <3>1. ctl = "C_VALIDATE" /\ cmd' = cmd
      BY <2>2 DEF ValidateManager, Validating
    <3> QED BY <1>3, <1>4, <3>1, ControllerKeepsBook DEF memVars
  <2>3. CASE Drained \/ FastRemainder
    <3>1. mr' = [ZeroRegs EXCEPT !.op = "QUERY"] \/ mgr' = "ENQ_GET_SLOT"
      BY <2>3 DEF Drained, FastRemainder, MgrStart
    <3>2. [ZeroRegs EXCEPT !.op = "QUERY"].op = "QUERY"
      BY DEF ZeroRegs
    <3> QED BY <2>1, <3>1, <3>2
  <2>4. CASE ValidateReject \/ ValidateFast \/ FastFilled \/ EnqRejected \/ Enqueued
               \/ MgrAcked \/ Moved \/ Queried \/ Settle \/ SendAck
    <3>1. mgr' = mgr
      BY <2>4 DEF NoStart, mgrVars, StartDrain, ValidateReject, ValidateFast, FastFilled,
                  EnqRejected, Enqueued, MgrAcked, Moved, Queried, Settle, SendAck
    <3> QED BY <2>1, <3>1
  <2> QED BY <1>4, <2>2, <2>3, <2>4 DEF CtlStep
<1>5. CASE MgrStep /\ UNCHANGED <<matVars, ctlVars>>
  <2>1. mgr # "IDLE" /\ ctl' = ctl /\ cmd' = cmd /\ ctl # "C_VALIDATE" /\ mr \in MgrRegs
    BY <1>5, ManagerSteps, ManagerFacts, ManagerRests DEF Sound, Waiting, ctlVars
  <2>2. mgr' \in {"LU", "LATCH"} /\ mr'.op # "QUERY"
    BY <2>1
  <2>3. LookupHit
    BY <1>5, <2>2
       DEF MgrStep, LookupMiss, LatchQuery, LatchReject, LatchOrder,
           CanBegin, SpWrNext, SpWrNext2, DelHash, DelCommit, ModQtyWr, ExPartial,
           ExTrade, MgrAck, EnqGetSlot, EnqHashHit, EnqHashMiss, EnqRollback, ReLvl,
           LvlRead, WrEmpty, TailLink, TailLink2, EnqDone, Goto, Finish, Linked,
           AfterSplice
  <2>4. mgr = "LU" /\ mr'.op = mr.op /\ UNCHANGED <<pool, ids, lvl>>
    BY <2>1, <2>3 DEF LookupHit, MgrRegs, memVars
  <2> QED BY <1>3, <2>1, <2>2, <2>4
<1>6. CASE MatStep /\ UNCHANGED <<mgrVars, ctlVars>>
  <2>1. ctl # "C_VALIDATE" /\ mgr = "IDLE"
    BY <1>6, MatcherSteps, MatcherRests
  <2> QED BY <1>6, <2>1 DEF mgrVars, ctlVars
<1>7. CASE MemInit \/ EncoderOnly
  <2>1. UNCHANGED <<pool, ids, lvl, cmd, ctl, mgr, mr>>
    BY <1>7 DEF MemInit, Mem!InitEdge, EncoderOnly, Others, ctlVars, mgrVars, memVars
  <2> QED BY <1>3, <2>1
<1>8. CASE Reset
  BY <1>8 DEF Reset
<1> QED BY <1>2, <1>4, <1>5, <1>6, <1>7, <1>8, StepCases

\* Who waits had been waiting, or was validated or asked for the rest just now.
LEMMA QuantityKept ==
    ASSUME Sound, [Next]_vars
    PROVE  QuantityGiven'
<1>1. cmd \in CmdRec \union {ZeroCmd} /\ QuantityGiven /\ resp \in Resp
  BY DEF Sound, BookInv, IInv, TypeOK, ControlTypeOK
<1>2. CASE CtlStep
  <2> USE DEF QuantityGiven, Waiting
  <2>1. CASE ValidateReject \/ FastFilled \/ EnqRejected \/ MgrAcked \/ Queried
               \/ Settle \/ SendAck
    BY <2>1 DEF ValidateReject, FastFilled, EnqRejected, MgrAcked, Queried, Settle, SendAck
  <2>2. CASE ValidateFast \/ ValidateManager
    <3>1. ctl = "C_VALIDATE" /\ ~BadField /\ cmd' = cmd
      BY <2>2 DEF ValidateFast, ValidateManager, Validating
    <3>2. cmd \in CmdRec
      BY <3>1 DEF Sound, IInv, ValidatedFirst
    <3>3. cmd.qty \in Nat
      BY <3>2 DEF CmdRec, Qty
    <3> QED BY <3>1, <3>3 DEF BadField
  <2>3. CASE FastRemainder
    <3>1. cmd' = [cmd EXCEPT !.qty = resp.qty] /\ resp.qty # 0 /\ resp.kind = "match"
      BY <2>3 DEF FastRemainder, Hears
    <3>2. resp.qty \in Qty
      BY <1>1, <3>1, RespFields
    <3>3. cmd'.qty = resp.qty
      BY <1>1, <3>1 DEF CmdRec, ZeroCmd
    <3> QED BY <3>1, <3>2, <3>3 DEF Qty
  <2>4. CASE Enqueued \/ Moved \/ Drained
    BY <1>1, <2>4 DEF Enqueued, Moved, Drained, Hears, StartDrain
  <2> QED BY <1>2, <2>1, <2>2, <2>3, <2>4 DEF CtlStep
<1>3. CASE \E c \in Command : Accept(c)
  BY <1>3 DEF Accept, QuantityGiven, Waiting
<1>4. CASE Reset
  BY <1>4 DEF Reset, QuantityGiven, Waiting
<1>5. CASE UNCHANGED ctlVars
  BY <1>1, <1>5 DEF ctlVars, QuantityGiven, Waiting
<1> QED BY <1>2, <1>3, <1>4, <1>5, StepCases DEF MemInit, EncoderOnly, Others

\* Until both memories are initialized the book stays empty.
LEMMA ReadyKept ==
    ASSUME Sound, ScopeOfBook, [Next]_vars
    PROVE  EmptyUntilReady' /\ FilledSoFar'
<1>1. EmptyUntilReady /\ FilledSoFar
  BY DEF Sound, BookInv
<1>2. ASSUME UNCHANGED <<initCnt, initIdx, lvl, ids, free>>
      PROVE  EmptyUntilReady' /\ FilledSoFar'
  BY <1>1, <1>2 DEF EmptyUntilReady, FilledSoFar, BookEmpty, Mem!InitDone, Bpe!InitDone
<1>3. ASSUME Mem!InitDone, Bpe!InitDone, UNCHANGED <<initCnt, initIdx>>
      PROVE  EmptyUntilReady' /\ FilledSoFar'
  BY <1>3 DEF EmptyUntilReady, FilledSoFar, Mem!InitDone, Bpe!InitDone
<1>4. CASE CtlStep \/ \E c \in Command : Accept(c)
  <2>1. UNCHANGED <<initCnt, initIdx, lvl, ids, free>>
    BY <1>4, ControllerKeepsBook DEF Accept, memVars, bpeVars
  <2> QED BY <1>2, <2>1
<1>5. CASE MgrStep
  BY <1>3, <1>5, ManagerSteps, ManagerFacts, ManagerKeepsMemories DEF Sound
<1>6. CASE MatStep
  <2>1. Mem!InitDone /\ Bpe!InitDone
    BY <1>6, MatcherSteps, MatcherRests
  <2>2. UNCHANGED <<initCnt, initIdx>>
    BY <1>6 DEF MatStep, MCheck, MTrade, MUpdBid, MHashBid, MUpdAsk, MHashAsk, FCheck,
                FTrade, FUpdate, FHash, MDone, Consume, ClearIfEmptied, DropMapping,
                memVars, bpeVars, Mem!Push, Bpe!Edge
  <2> QED BY <1>3, <2>1, <2>2
<1>7. CASE MemInit
  <2>1. ~Mem!InitDone /\ lvl' = lvl /\ ids' = ids
    BY <1>7 DEF MemInit, Mem!InitEdge, Others
  <2> QED BY <1>1, <1>7, <2>1, InitKeepsBook DEF EmptyUntilReady, BookEmpty
<1>8. CASE EncoderOnly
  <2>1. UNCHANGED <<initCnt, lvl, ids, free>>
    BY <1>8 DEF EncoderOnly, Others, memVars
  <2>2. Mem!InitDone /\ Bpe!InitDone => initIdx' = initIdx
    <3>1. Bpe!TypeOK' /\ Bpe!TypeOK /\ [Bpe!Next]_(Bpe!vars)
      BY EngineKeeps DEF Sound, IInv, TypeOK
    <3>2. EncoderInit \/ Scan \/ initIdx' = initIdx \/ Reset
      <4>1. CtlStep => initIdx' = initIdx
        BY ControllerKeepsBook DEF bpeVars
      <4>2. MgrStep => initIdx' = initIdx
        BY ManagerKeepsMemories
      <4>3. MatStep => initIdx' = initIdx
        BY DEF MatStep, MCheck, MTrade, MUpdBid, MHashBid, MUpdAsk, MHashAsk, FCheck,
                FTrade, FUpdate, FHash, MDone, Consume, ClearIfEmptied, DropMapping,
                bpeVars, Bpe!Edge
      <4> QED BY <4>1, <4>2, <4>3 DEF Next, EngineStep, Background, Accept, MemInit,
                 vars, bpeVars
    <3>3. Mem!InitDone => ~Reset
      BY <2>1 DEF Reset, Mem!Reset, Mem!InitDone
    <3>4. Bpe!InitDone => ~EncoderInit
      BY DEF EncoderInit, Bpe!InitEdge
    <3>5. Scan => initIdx' = initIdx
      BY DEF Scan, Bpe!IdleEdge, Bpe!Edge
    <3> QED BY <3>2, <3>3, <3>4, <3>5
  <2>3. FilledSoFar'
    BY <1>1, <2>1 DEF FilledSoFar, Mem!InitDone
  <2>4. EmptyUntilReady'
    BY <1>1, <2>1, <2>2 DEF EmptyUntilReady, BookEmpty, Mem!InitDone, Bpe!InitDone
  <2> QED BY <2>3, <2>4
<1>9. CASE Reset
  <2>1. free' = <<>> /\ initCnt' = 1 /\ lvl' = lvl /\ ids' = ids /\ BookEmpty
    BY <1>9 DEF Reset, Mem!Reset, ScopeOfBook
  <2>2. <<>> = [n \in 1 .. 1 - 1 |-> n]
    OBVIOUS
  <2> QED BY <2>1, <2>2 DEF EmptyUntilReady, FilledSoFar, BookEmpty
<1> QED BY <1>4, <1>5, <1>6, <1>7, <1>8, <1>9, StepCases

-----------------------------------------------------------------------------
(* What the manager latches.                                                 *)

\* The states in which the manager relies on nothing it has latched.
Careless == {"IDLE", "LU", "ENQ_GET_SLOT", "EX_TRADE", "ACK"}

\* There is nothing to show when the manager comes to rely on nothing.
LEMMA CarelessNext == mgr' \in Careless => ManagerLatches'
BY DEF Careless, ManagerLatches, Linking

\* The lookup finds the order the command names; what is latched is what the
\* memories hold, and not a stale head.
LEMMA LookupLatches ==
    ASSUME Sound, UNCHANGED <<matVars, ctlVars>>, LookupHit \/ LatchOrder \/ CanBegin
    PROVE  ManagerLatches'
<1>1. mgr # "IDLE" /\ cmd' = cmd /\ pool' = pool /\ ids' = ids /\ lvl' = lvl
  BY DEF LookupHit, LatchOrder, CanBegin, ctlVars, memVars
<1>2. /\ cmd \in CmdRec /\ mr \in MgrRegs /\ mgr \in StatesOf(mr.op)
      /\ ManagerLatches /\ mr.op \in MgrOp /\ pool \in Pools
      /\ mr.op \notin {"ENQ", "QUERY"} => mr.op = cmd.type
  BY <1>1, ManagerRests, ManagerFacts, Facts DEF Sound, ManagerAtWork
<1>3. CASE LookupHit
  <2>1. mgr' = "LATCH" /\ mr'.slot = ids[cmd.id] /\ ids[cmd.id] # NULL
    BY <1>2, <1>3 DEF LookupHit, MgrRegs
  <2> QED BY <1>1, <2>1 DEF ManagerLatches, Linking
<1>4. CASE LatchOrder
  <2> DEFINE o == pool[mr.slot]
  <2>1. /\ mgr = "LATCH" /\ mr.op # "QUERY" /\ ~Overfills(o)
        /\ mr'.slot = mr.slot /\ mr'.op = mr.op
        /\ mr'.order = o /\ mr'.level = lvl[o.side][o.price]
        /\ mgr' = IF mr.op = "MODIFY" /\ cmd.price = o.price THEN "MOD_QTY_WR"
                  ELSE IF mr.op = "EXECUTE" /\ cmd.qty # o.qty THEN "EX_PARTIAL"
                  ELSE "CAN_BEGIN"
    BY <1>2, <1>4 DEF LatchOrder, MgrRegs
  <2>2. mr.slot # NULL /\ ids[cmd.id] = mr.slot
    BY <1>2, <2>1 DEF ManagerLatches
  <2>3. mr.op = cmd.type /\ mr.op \in {"CANCEL", "MODIFY", "EXECUTE"}
    BY <1>2, <2>1 DEF StatesOf, MgrOp, Linking
  <2>4. mgr' = "CAN_BEGIN" /\ o.prev # NULL => lvl[o.side][o.price].head # mr.slot
    <3>1. Splices(cmd, ids[cmd.id]) => ~StaleHead(ids[cmd.id])
      BY <2>1, <2>2 DEF Sound, BookInv, NoStaleSplice
    <3>2. mgr' = "CAN_BEGIN" => Splices(cmd, mr.slot)
      BY <2>1, <2>3 DEF Splices
    <3> QED BY <2>2, <3>1, <3>2 DEF StaleHead
  <2>5. mgr' = "EX_PARTIAL" => 0 < cmd.qty /\ cmd.qty < o.qty
    <3>1. mr.slot \in Slot
      BY <1>2 DEF MgrRegs
    <3>2. o \in OrderRec
      BY <1>2, <3>1 DEF Pools
    <3>3. o.qty \in Nat
      BY <3>2 DEF OrderRec, Qty
    <3>4. cmd.qty \in Nat
      BY <1>2 DEF CmdRec, Qty
    <3> QED BY <2>1, <3>3, <3>4 DEF Overfills
  <2> HIDE DEF o
  <2>6. pool'[mr'.slot] = o
    BY <1>1, <2>1 DEF o
  <2>7. mgr' \in {"CAN_BEGIN", "MOD_QTY_WR", "EX_PARTIAL"}
    BY <2>1
  <2> QED BY <1>1, <2>1, <2>2, <2>4, <2>5, <2>6, <2>7 DEF ManagerLatches, Linking
<1>5. CASE CanBegin
  <2>1. /\ mgr = "CAN_BEGIN" /\ mgr' = "SP_WR_NEXT"
        /\ mr'.slot = mr.slot /\ mr'.order = mr.order /\ mr'.level = mr.level
        /\ mr'.new = [head |-> IF mr.order.prev = NULL THEN mr.order.next ELSE mr.level.head,
                      tail |-> IF mr.order.next = NULL THEN mr.order.prev ELSE mr.level.tail,
                      qty  |-> LevelMinus(mr.level.qty, mr.order.qty)]
        /\ mr'.prev = pool[mr.order.prev] /\ mr'.next = pool[mr.order.next]
    BY <1>2, <1>5 DEF CanBegin, MgrRegs
  <2>2. /\ mr.slot # NULL /\ ids[cmd.id] = mr.slot
        /\ mr.order = pool[mr.slot] /\ mr.level = lvl[mr.order.side][mr.order.price]
        /\ mr.order.prev # NULL => mr.level.head # mr.slot
    BY <1>2, <2>1 DEF ManagerLatches
  <2> QED BY <1>1, <2>1, <2>2 DEF ManagerLatches, Linking
<1> QED BY <1>3, <1>4, <1>5

\* While an order is spliced its successor is still where it was, and the id it
\* is removed under is its own.
LEMMA SpliceLatches ==
    ASSUME Sound, UNCHANGED <<matVars, ctlVars>>,
           SpWrNext \/ SpWrNext2 \/ DelHash \/ ReLvl
    PROVE  ManagerLatches'
<1>1. /\ mgr # "IDLE" /\ cmd' = cmd /\ mr' = mr
      /\ mgr # "DEL_HASH" => ids' = ids
  BY DEF SpWrNext, SpWrNext2, DelHash, ReLvl, ctlVars, Goto
<1>2. /\ cmd \in CmdRec /\ mr \in MgrRegs /\ mgr \in StatesOf(mr.op)
      /\ ManagerLatches /\ mr.op \in MgrOp /\ pool \in Pools /\ mr.slot \in Slot
  BY <1>1, ManagerRests, Facts DEF MgrRegs
<1>3. CASE SpWrNext
  <2>1. mgr = "SP_WR_NEXT" /\ mgr' = "SP_WR_NEXT2"
    BY <1>3 DEF SpWrNext, Goto
  <2>2. /\ mr.slot # NULL /\ ids[cmd.id] = mr.slot
        /\ mr.order = pool[mr.slot] /\ mr.next = pool[mr.order.next]
    BY <1>2, <2>1 DEF ManagerLatches
  <2>3. mr.order.next # NULL => /\ mr.order.next \in Resting'
                                /\ mr.next = pool'[mr.order.next]
    BY <1>3, <2>2, SpliceUnlinks
  <2>4. mr.order.id = cmd.id
    <3>1. Resting = Mapped
      BY <1>1, <2>1, ManagerRests DEF InHand, Deleting, Linking
    <3>2. cmd.id \in Ids
      BY <1>2 DEF CmdRec
    <3>3. ids[cmd.id] \in Resting
      BY <2>2, <3>1, <3>2 DEF Mapped
    <3> QED BY <2>2, <3>2, <3>3, Facts
  <2> QED BY <1>1, <2>1, <2>2, <2>3, <2>4 DEF ManagerLatches, Linking
<1>4. CASE SpWrNext2
  <2>1. mgr = "SP_WR_NEXT2" /\ mgr' \in {"RE_LVL", "DEL_HASH"}
    BY <1>4 DEF SpWrNext2, Goto, AfterSplice
  <2>2. mr.slot # NULL /\ ids[cmd.id] = mr.slot /\ mr.order.id = cmd.id
    BY <1>2, <2>1 DEF ManagerLatches
  <2> QED BY <1>1, <2>1, <2>2 DEF ManagerLatches, Linking
<1>5. CASE DelHash
  <2>1. mgr' = "DEL_COMMIT"
    BY <1>5 DEF DelHash, Goto
  <2> QED BY <1>1, <1>5, <2>1, NameGoes DEF ManagerLatches, Linking
<1>6. CASE ReLvl
  <2>1. /\ mgr = "RE_LVL" /\ mgr' = "LVL_READ"
        /\ pool' = [pool EXCEPT ![mr.slot] = NewOrder(NULL)]
    BY <1>6 DEF ReLvl, Goto, Mem!Write
  <2>2. mr.slot # NULL /\ ids[cmd.id] = mr.slot
    BY <1>2, <2>1 DEF ManagerLatches
  <2>3. pool'[mr.slot] = NewOrder(NULL) /\ NewOrder(NULL)' = NewOrder(NULL)
    BY <1>1, <1>2, <2>1 DEF Pools, NewOrder
  <2> QED BY <1>1, <2>1, <2>2, <2>3 DEF ManagerLatches, Linking
<1> QED BY <1>3, <1>4, <1>5, <1>6

\* The slot to be linked is the command's, and the level it is linked into is
\* the one that was read.
LEMMA LinkLatches ==
    ASSUME Sound, UNCHANGED <<matVars, ctlVars>>,
           \/ EnqGetSlot \/ EnqHashHit \/ EnqHashMiss \/ LvlRead
           \/ WrEmpty \/ TailLink \/ TailLink2
    PROVE  ManagerLatches'
<1>1. mgr # "IDLE" /\ cmd' = cmd
  BY DEF EnqGetSlot, EnqHashHit, EnqHashMiss, LvlRead, WrEmpty, TailLink, TailLink2, ctlVars
<1>2. /\ cmd \in CmdRec /\ mr \in MgrRegs /\ mgr \in StatesOf(mr.op)
      /\ ManagerLatches /\ mr.op \in MgrOp /\ mr.slot \in Slot
  BY <1>1, ManagerRests, Facts DEF MgrRegs
<1>3. CASE EnqGetSlot
  <2>1. mgr' \in {"IDLE", "ENQ_HASH"}
    BY <1>3 DEF EnqGetSlot, Finish
  <2> QED BY <1>3, <2>1, SlotComes DEF ManagerLatches, Linking
<1>4. CASE EnqHashHit
  <2>1. mgr = "ENQ_HASH" /\ mgr' = "LVL_READ" /\ mr' = mr
    BY <1>4 DEF EnqHashHit, Goto
  <2>2. mr.op = "ENQ"
    BY <1>2, <2>1 DEF StatesOf, MgrOp, Splicing, Linking, Deleting
  <2> QED BY <1>1, <1>4, <2>1, <2>2, NameComes DEF ManagerLatches, Linking
<1>5. CASE EnqHashMiss
  <2>1. mgr = "ENQ_HASH" /\ mgr' = "ENQ_ROLLBACK" /\ mr' = mr /\ Mapped' = Mapped
    BY <1>5 DEF EnqHashMiss, Goto, Mapped
  <2> QED BY <1>2, <2>1 DEF ManagerLatches, Linking
<1>6. CASE LvlRead
  <2> DEFINE v == lvl[cmd.side][cmd.price]
  <2>1. /\ mgr = "LVL_READ" /\ mgr' = IF v.head = NULL THEN "WR_EMPTY" ELSE "TAIL"
        /\ mr'.op = mr.op /\ mr'.slot = mr.slot
        /\ IF mr.op = "ENQ" THEN mr'.level = v ELSE mr'.new = v
        /\ UNCHANGED <<pool, ids, lvl>>
    BY <1>2, <1>6 DEF LvlRead, MgrRegs, memVars
  <2>2. /\ mr.slot # NULL /\ ids[cmd.id] = mr.slot
        /\ mr.op = "MODIFY" => pool[mr.slot] = NewOrder(NULL)
    BY <1>2, <2>1 DEF ManagerLatches, Linking
  <2>3. Target' = v /\ NewOrder(NULL)' = NewOrder(NULL)
    BY <1>1, <2>1 DEF Target, NewOrder
  <2>4. lvl'[cmd'.side][cmd'.price] = v
    BY <1>1, <2>1
  <2> HIDE DEF v
  <2> QED BY <1>1, <2>1, <2>2, <2>3, <2>4 DEF ManagerLatches, Linking
<1>7. CASE TailLink
  <2>1. mgr = "TAIL" /\ mgr' = "TAIL2" /\ mr' = mr /\ UNCHANGED <<ids, lvl>>
    BY <1>7 DEF TailLink, Goto
  <2>2. /\ mr.slot # NULL /\ ids[cmd.id] = mr.slot
        /\ Target = lvl[cmd.side][cmd.price] /\ Target.head # NULL
    BY <1>2, <2>1 DEF ManagerLatches, Linking
  <2>3. pool'[Target.tail].next = mr.slot /\ Target' = Target
    BY <1>7, <2>1, TailReaches DEF Target
  <2> QED BY <1>1, <2>1, <2>2, <2>3 DEF ManagerLatches, Linking
<1>8. CASE WrEmpty \/ TailLink2
  <2>1. mgr \in {"WR_EMPTY", "TAIL2"} /\ Linked /\ ids' = ids
    BY <1>8 DEF WrEmpty, TailLink2
  <2>2. mr.slot # NULL /\ ids[cmd.id] = mr.slot
    BY <1>2, <2>1 DEF ManagerLatches, Linking
  <2>3. mgr' = "IDLE" \/ (mgr' = "ENQ_DONE" /\ mr' = mr)
    BY <2>1 DEF Linked, Goto, Finish
  <2> QED BY <1>1, <2>1, <2>2, <2>3 DEF ManagerLatches, Linking
<1> QED BY <1>3, <1>4, <1>5, <1>6, <1>7, <1>8

\* What the manager has latched stays true until it is used.
LEMMA ManagerLatchesKept ==
    ASSUME Sound, ScopeOfBook, [Next]_vars
    PROVE  ManagerLatches'
<1>1. CASE MgrStep /\ UNCHANGED <<matVars, ctlVars>>
  <2>1. CASE LookupMiss \/ LatchQuery \/ LatchReject \/ DelCommit \/ ModQtyWr
               \/ ExPartial \/ ExTrade \/ MgrAck \/ EnqRollback \/ EnqDone
    <3>1. mgr' \in Careless
      BY <2>1 DEF LookupMiss, LatchQuery, LatchReject, DelCommit, ModQtyWr, ExPartial,
                  ExTrade, MgrAck, EnqRollback, EnqDone,
                  Goto, Finish, Careless
    <3> QED BY <3>1, CarelessNext
  <2> QED BY <1>1, <2>1, LookupLatches, SpliceLatches, LinkLatches DEF MgrStep
<1>2. CASE (\E c \in Command : Accept(c)) \/ CtlStep \/ Reset
             \/ (MatStep /\ UNCHANGED <<mgrVars, ctlVars>>) \/ MemInit
  <2>1. mgr' \in Careless
    <3>1. CASE \E c \in Command : Accept(c)
      BY <3>1 DEF Accept, NoStart, mgrVars, Sound, IInv, OneAtATime, Waiting, AtRest, Careless
    <3>2. CASE CtlStep
      BY <3>2, ControllerStarts DEF Sound, Careless
    <3>3. CASE MatStep /\ UNCHANGED <<mgrVars, ctlVars>>
      BY <3>3, MatcherSteps, MatcherRests DEF mgrVars, Careless
    <3>4. CASE MemInit
      <4>1. ~Mem!InitDone /\ mgr' = mgr
        BY <3>4 DEF MemInit, Mem!InitEdge, Others, mgrVars
      <4> QED BY <4>1, ManagerRests DEF Careless
    <3>5. CASE Reset
      BY <3>5 DEF Reset, Careless
    <3> QED BY <1>2, <3>1, <3>2, <3>3, <3>4, <3>5
  <2> QED BY <2>1, CarelessNext
<1>3. CASE EncoderOnly
  <2>1. UNCHANGED <<pool, lvl, ids, mgr, mr, cmd, Resting, Mapped>>
    BY <1>3, OthersKeepCarried DEF EncoderOnly, Others, memVars, mgrVars, ctlVars
  <2>2. ManagerLatches
    BY DEF Sound, BookInv
  <2> QED BY <2>1, <2>2 DEF ManagerLatches, Target, NewOrder
<1> QED BY <1>1, <1>2, <1>3, StepCases

-----------------------------------------------------------------------------
(* What the matcher latches.                                                 *)

\* The steps of the engine once more, the encoder's told apart.
LEMMA SmallSteps ==
    ASSUME [Next]_vars
    PROVE  \/ \E c \in Command : Accept(c)
           \/ CtlStep
           \/ MgrStep /\ UNCHANGED <<matVars, ctlVars>>
           \/ MatStep /\ UNCHANGED <<mgrVars, ctlVars>>
           \/ MemInit \/ EncoderInit \/ Scan
           \/ UNCHANGED vars
           \/ Reset
BY DEF Next, EngineStep, Background

\* A valid register is settled, and names an occupied level of its side.
LEMMA ValidIsBest ==
    ASSUME Bpe!IInv, Bpe!InitDone, NEW s \in Side, best[s].valid
    PROVE  /\ ~Bpe!Busy(s) /\ BestOf(s) \in occ[s] /\ BestOf(s) \in Level
           /\ \A l \in occ[s] : ~Better(s, l, BestOf(s))
<1>1. Bpe!TypeOK /\ Bpe!SettledIsBest /\ Bpe!ScanMissesNothing
  BY DEF Bpe!IInv
<1>2. ~Bpe!Busy(s)
  BY <1>1 DEF Bpe!ScanMissesNothing
<1>3. BestOf(s) \in occ[s] /\ \A l \in occ[s] : ~Bpe!Better(s, l, BestOf(s))
  BY <1>1, <1>2 DEF Bpe!SettledIsBest, BestOf
<1>4. BestOf(s) \in Level
  BY <1>1 DEF Bpe!TypeOK, Bpe!BestRec, BestOf
<1> QED BY <1>2, <1>3, <1>4 DEF Better, Bpe!Better

\* An edge whose pulse is for the other side leaves a valid register alone.
LEMMA OtherSideStays ==
    ASSUME Bpe!IInv, NEW s \in Side, best[s].valid, NEW in, Bpe!Edge(in),
           ~Bpe!Hits(in, "set", s), ~Bpe!Hits(in, "clear", s)
    PROVE  best'[s] = best[s]
<1>1. Bpe!InitDone /\ best' = [t \in Side |-> IF Bpe!Busy(t) THEN Bpe!ScanEdge(t, in)
                                                         ELSE Bpe!SettledEdge(t, in)]
  BY DEF Bpe!Edge
<1>2. ~Bpe!Busy(s)
  BY <1>1, ValidIsBest
<1>3. Bpe!SettledEdge(s, in) = best[s]
  BY DEF Bpe!SettledEdge
<1> QED BY <1>1, <1>2, <1>3

\* The best level of a side that has one holds orders, and its head is one of
\* them, with quantity left.
LEMMA BestHolds ==
    ASSUME Sound, mat # "M_IDLE", NEW s \in Side, best[s].valid
    PROVE  LET v == lvl[s][BestOf(s)] IN
           /\ v.head # NULL /\ v.head \in Slot /\ v \in LevelRec
           /\ pool[v.head].qty \in Qty /\ pool[v.head].qty > 0
<1> DEFINE l == BestOf(s)
           a == SlotsAt(Resting, pool, s, l)
<1>1. Bpe!InitDone /\ View = pool
  BY MatcherRests
<1>2. l \in occ[s] /\ l \in Level
  BY <1>1, ValidIsBest DEF Sound
<1>3. lvl[s][l].head # NULL
  BY <1>1, <1>2 DEF Sound, BookInv, OccupiedAreHeld
<1>4. IsFifo(a, pool, lvl[s][l])
  BY <1>1, <1>2, Facts DEF AreFifos
<1>5. lvl[s][l].head \in a
  BY <1>3, <1>4 DEF IsFifo
<1>6. lvl[s][l].head \in Resting
  BY <1>5 DEF SlotsAt
<1>7. lvl[s][l].head \in Slot /\ pool[lvl[s][l].head] \in OrderRec
  BY <1>6, Facts
<1>8. pool[lvl[s][l].head].qty > 0
  BY <1>4, <1>5 DEF IsFifo
<1>9. lvl[s][l] \in LevelRec
  BY <1>2, Facts DEF Tables
<1>10. pool[lvl[s][l].head].qty \in Qty
  BY <1>7 DEF OrderRec
<1> QED BY <1>3, <1>7, <1>8, <1>9, <1>10

\* Reading levels and heads latches them.
LEMMA TradeLatches ==
    ASSUME Sound, UNCHANGED <<mgrVars, ctlVars>>, MCheck \/ MTrade \/ FCheck \/ FTrade
    PROVE  MatcherLatches'
<1>1. /\ mat # "M_IDLE" /\ UNCHANGED <<best, lvl, pool, ids>> /\ Passive' = Passive
  BY MatcherLeaves DEF MCheck, MTrade, FCheck, FTrade, memVars, bpeVars
<1>2. /\ xr \in MatRegs /\ Passive \in Side /\ MatcherLatches /\ BestOf("BUY")' = BestOf("BUY")
      /\ BestOf("SELL")' = BestOf("SELL")
  BY <1>1, MatcherRests DEF BestOf
<1>3. mat' \in {"M_TRADE", "M_DONE", "M_UPD_BID", "F_TRADE", "F_UPDATE"}
  BY DEF MCheck, MTrade, FCheck, FTrade, MatGoto
<1>4. \A s \in Side : ~Unmapping(s)'
  BY <1>3 DEF Unmapping
<1>5. CASE MCheck
  <2>1. mat' = "M_TRADE" => \A s \in Side : best'[s].valid
    BY <1>1, <1>5 DEF MCheck, MatGoto, Crossed
  <2>2. mat' \in {"M_TRADE", "M_DONE"}
    BY <1>5 DEF MCheck, MatGoto
  <2> QED BY <1>4, <2>1, <2>2 DEF MatcherLatches
<1>6. CASE FCheck
  <2>1. mat' = "F_TRADE" => xr.rem # 0 /\ xr' = xr /\ best'[Passive].valid
    BY <1>1, <1>6 DEF FCheck, MatGoto, FastCrosses
  <2>2. mat' \in {"F_TRADE", "M_DONE"} /\ xr.rem \in Nat
    BY <1>2, <1>6 DEF FCheck, MatGoto, MatRegs, Qty
  <2> QED BY <1>1, <1>4, <2>1, <2>2 DEF MatcherLatches
<1>7. CASE MTrade
  <2> DEFINE v == [s \in Side |-> lvl[s][BestOf(s)]]
             o == [s \in Side |-> pool[v[s].head]]
  <2>1. /\ mat = "M_TRADE" /\ mat' = "M_UPD_BID"
        /\ xr'.order = o /\ xr'.level = v /\ xr'.qty = MinQty(o["BUY"].qty, o["SELL"].qty)
    BY <1>2, <1>7 DEF MTrade, MatRegs
  <2>2. \A s \in Side : best[s].valid
    BY <1>2, <2>1 DEF MatcherLatches
  <2>3. \A s \in Side : v[s].head # NULL /\ o[s].qty \in Qty /\ o[s].qty > 0
    BY <1>1, <2>2, BestHolds
  <2>4. \A s \in Side : 0 < xr'.qty /\ xr'.qty <= o[s].qty
    BY <2>1, <2>3 DEF MinQty, Qty
  <2>5. \A s \in Side : v[s] = lvl[s][BestOf(s)] /\ o[s] = pool[v[s].head]
    OBVIOUS
  <2> HIDE DEF v, o
  <2>6. \A s \in Side : Latched(s)'
    BY <1>1, <1>2, <2>1, <2>2, <2>3, <2>4, <2>5 DEF Latched, BestOf
  <2> QED BY <1>4, <2>1, <2>6 DEF MatcherLatches
<1>8. CASE FTrade
  <2> DEFINE v == lvl[Passive][BestOf(Passive)]
             o == pool[v.head]
  <2>1. /\ mat = "F_TRADE" /\ mat' = "F_UPDATE"
        /\ xr'.order[Passive] = o /\ xr'.level[Passive] = v
        /\ xr'.qty = MinQty(xr.rem, o.qty) /\ xr'.rem = xr.rem
    BY <1>2, <1>8 DEF FTrade, MatRegs
  <2>2. best[Passive].valid /\ xr.rem > 0 /\ xr.rem \in Qty
    BY <1>2, <2>1 DEF MatcherLatches, MatRegs
  <2>3. v.head # NULL /\ o.qty \in Qty /\ o.qty > 0
    BY <1>1, <1>2, <2>2, BestHolds
  <2>4. 0 < xr'.qty /\ xr'.qty <= o.qty /\ xr'.qty <= xr'.rem
    BY <2>1, <2>2, <2>3 DEF MinQty, Qty
  <2>5. v = lvl[Passive][BestOf(Passive)] /\ o = pool[v.head]
    OBVIOUS
  <2> HIDE DEF v, o
  <2>6. Latched(Passive)'
    BY <1>1, <1>2, <2>1, <2>2, <2>3, <2>4, <2>5 DEF Latched, BestOf
  <2> QED BY <1>4, <2>1, <2>4, <2>6 DEF MatcherLatches
<1> QED BY <1>5, <1>6, <1>7, <1>8

\* A trade applied to the bid leaves the latched ask as it was; a filled head is
\* remembered until it is unmapped.
LEMMA ConsumeLatches ==
    ASSUME Sound, UNCHANGED <<mgrVars, ctlVars>>, NEW s \in Side, Consumes(s)
    PROVE  MatcherLatches'
<1>1. /\ mat # "M_IDLE" /\ Latched(s) /\ Consume(s) /\ Dropped = {} /\ ids' = ids
      /\ Dropped' = IF Filled(s) THEN {xr.level[s].head} ELSE {}
      /\ xr'.order = xr.order /\ xr'.level = xr.level
      /\ \A t \in Side : Unmapping(t)' <=> t = s /\ Filled(s)
  BY ConsumingFacts DEF Consume
<1>2. MatcherLatches /\ Passive' = Passive
  BY <1>1, MatcherRests, MatcherLeaves
<1>3. \A t \in Side : Unmapping(t)' =>
        LET i == xr'.order[t].id IN
        i \in Ids /\ ids'[i] = xr'.level[t].head /\ ids'[i] # NULL
  BY <1>1, LatchedFacts
<1>4. mat' \in {"M_HASH_BID", "M_UPD_ASK", "M_HASH_ASK", "M_CHECK", "F_HASH", "F_CHECK"}
      /\ (mat' \in {"M_HASH_BID", "M_UPD_ASK"} => mat = "M_UPD_BID" /\ s = "BUY" /\ xr' = xr)
  BY DEF Consumes, MUpdBid, MUpdAsk, FUpdate, MatGoto
<1>5. ASSUME mat' \in {"M_HASH_BID", "M_UPD_ASK"} PROVE Latched("SELL")'
  <2>1. Latched("SELL") /\ s = "BUY" /\ xr' = xr /\ Latched("BUY")
    BY <1>1, <1>2, <1>4, <1>5 DEF MatcherLatches
  <2> DEFINE b == xr.level["BUY"].head
             x == xr.level["SELL"].head
  <2>2. pool[b].side = "BUY" /\ pool[x].side = "SELL" /\ x \in Slot
    BY <1>1, <2>1, LatchedFacts
  <2>3. pool'[x] = pool[x]
    <3>1. x # b
      BY <2>2
    <3> QED BY <1>1, <2>1, <2>2, <3>1, HeadConsumed
  <2>4. best'["SELL"] = best["SELL"]
    <3>1. best["SELL"].valid /\ Bpe!IInv
      BY <2>1 DEF Latched, Sound
    <3>2. bpeVars' = bpeVars \/ Bpe!Edge(Bpe!ClearPulse("BUY", BestOf("BUY")))
      BY <1>1, <2>1 DEF Consume, ClearIfEmptied
    <3>3. /\ ~Bpe!Hits(Bpe!ClearPulse("BUY", BestOf("BUY")), "set", "SELL")
          /\ ~Bpe!Hits(Bpe!ClearPulse("BUY", BestOf("BUY")), "clear", "SELL")
      BY DEF Bpe!Hits, Bpe!ClearPulse
    <3> QED BY <3>1, <3>2, <3>3, OtherSideStays DEF bpeVars
  <2>5. lvl'["SELL"] = lvl["SELL"]
    <3>1. lvl' = [lvl EXCEPT !["BUY"][BestOf("BUY")] = LevelAfter("BUY")] /\ lvl \in Tables
      BY <1>1, <2>1, Facts DEF Consume, WriteLevel
    <3> QED BY <3>1 DEF Tables
  <2> QED BY <2>1, <2>3, <2>4, <2>5 DEF Latched, BestOf
<1> QED BY <1>3, <1>4, <1>5 DEF MatcherLatches

\* Deleting a mapping leaves the latched ask as it was.
LEMMA ForgetLatches ==
    ASSUME Sound, UNCHANGED <<mgrVars, ctlVars>>, NEW s \in Side, Forgets(s)
    PROVE  MatcherLatches'
<1>1. /\ mat # "M_IDLE" /\ UNCHANGED <<xr, best, lvl, pool>>
      /\ \A t \in Side : ~Unmapping(t)'
  BY ForgettingFacts DEF DropMapping, memVars, bpeVars
<1>2. mat' \in {"M_UPD_ASK", "M_CHECK", "F_CHECK"} /\ (mat' = "M_UPD_ASK" => mat = "M_HASH_BID")
  BY DEF Forgets, MHashBid, MHashAsk, FHash, MatGoto
<1>3. mat' = "M_UPD_ASK" => Latched("SELL")'
  <2>1. mat = "M_HASH_BID" => Latched("SELL")
    BY <1>1, MatcherRests DEF MatcherLatches
  <2> QED BY <1>1, <1>2, <2>1 DEF Latched, BestOf
<1> QED BY <1>1, <1>2, <1>3 DEF MatcherLatches

\* What the matcher has latched stays true until it is used, although the best
\* prices it addresses are the encoder's and the encoder may be scanning.
LEMMA MatcherLatchesKept ==
    ASSUME Sound, ScopeOfBook, [Next]_vars
    PROVE  MatcherLatches'
<1>1. ASSUME mat' \in {"M_IDLE", "M_CHECK", "F_CHECK", "M_DONE"} PROVE MatcherLatches'
  BY <1>1 DEF MatcherLatches, Unmapping
<1>2. CASE MatStep /\ UNCHANGED <<mgrVars, ctlVars>>
  <2>1. CASE MDone
    BY <1>1, <2>1 DEF MDone
  <2> QED BY <1>2, <2>1, MatcherCases, TradeLatches, ConsumeLatches, ForgetLatches
<1>3. CASE (\E c \in Command : Accept(c)) \/ CtlStep \/ Reset \/ MemInit
             \/ (MgrStep /\ UNCHANGED <<matVars, ctlVars>>)
  <2>1. CASE \E c \in Command : Accept(c)
    BY <1>1, <2>1 DEF Accept, NoStart, matVars, Sound, IInv, OneAtATime, Waiting, AtRest
  <2>2. CASE CtlStep
    BY <1>1, <2>2, ControllerStarts DEF Sound
  <2>3. CASE MgrStep /\ UNCHANGED <<matVars, ctlVars>>
    BY <1>1, <2>3, ManagerSteps, ManagerRests DEF matVars
  <2>4. CASE MemInit
    <3>1. ~Mem!InitDone /\ mat' = mat
      BY <2>4 DEF MemInit, Mem!InitEdge, Others, matVars
    <3> QED BY <1>1, <3>1, MatcherRests
  <2>5. CASE Reset
    BY <1>1, <2>5 DEF Reset
  <2> QED BY <1>3, <2>1, <2>2, <2>3, <2>4, <2>5
<1>4. CASE EncoderInit \/ Scan \/ UNCHANGED vars
  <2>1. UNCHANGED <<mat, xr, lvl, ids, pool, cmd>>
    BY <1>4 DEF EncoderInit, Scan, vars, Others, memVars, matVars, ctlVars
  <2>2. CASE mat = "M_IDLE"
    BY <1>1, <2>1, <2>2
  <2>3. CASE mat # "M_IDLE"
    <3>1. MatcherLatches /\ Bpe!InitDone /\ Passive \in Side /\ Passive' = Passive
      BY <2>1, <2>3, MatcherRests DEF Passive
    <3>2. \A s \in Side : best[s].valid => best'[s] = best[s]
      <4>1. CASE UNCHANGED vars
        BY <4>1 DEF vars, bpeVars
      <4>2. CASE EncoderInit
        BY <3>1, <4>2 DEF EncoderInit, Bpe!InitEdge
      <4>3. CASE Scan
        <5>1. Bpe!Edge(Bpe!NoPulse)
          BY <4>3 DEF Scan, Bpe!IdleEdge
        <5>2. \A s \in Side : ~Bpe!Hits(Bpe!NoPulse, "set", s) /\ ~Bpe!Hits(Bpe!NoPulse, "clear", s)
          BY DEF Bpe!Hits, Bpe!NoPulse
        <5> QED BY <5>1, <5>2, OtherSideStays DEF Sound
      <4> QED BY <1>4, <4>1, <4>2, <4>3
    <3>3. \A s \in Side : Latched(s) => Latched(s)'
      BY <2>1, <3>2 DEF Latched, BestOf
    <3>4. \A s \in Side : Unmapping(s)' <=> Unmapping(s)
      BY <2>1, <3>1 DEF Unmapping
    <3> QED BY <2>1, <3>1, <3>2, <3>3, <3>4 DEF MatcherLatches
  <2> QED BY <2>2, <2>3
<1> QED BY <1>2, <1>3, <1>4, SmallSteps

-----------------------------------------------------------------------------
(* The marks of the encoder.                                                 *)

\* What a pulse does to the marks.
LEMMA PulseMarks ==
    ASSUME NEW s \in Side, NEW l
    PROVE  /\ Bpe!Edge(Bpe!SetPulse(s, l)) =>
                \A t \in Side : occ'[t] = IF t = s THEN occ[t] \union {l} ELSE occ[t]
           /\ Bpe!Edge(Bpe!ClearPulse(s, l)) =>
                \A t \in Side : occ'[t] = IF t = s THEN occ[t] \ {l} ELSE occ[t]
           /\ Bpe!IdleEdge => \A t \in Side : occ'[t] = occ[t]
<1>1. \A t \in Side :
        /\ Bpe!NextOcc(t, Bpe!SetPulse(s, l)) = IF t = s THEN occ[t] \union {l} ELSE occ[t]
        /\ Bpe!NextOcc(t, Bpe!ClearPulse(s, l)) = IF t = s THEN occ[t] \ {l} ELSE occ[t]
        /\ Bpe!NextOcc(t, Bpe!NoPulse) = occ[t]
  BY DEF Bpe!NextOcc, Bpe!Hits, Bpe!SetPulse, Bpe!ClearPulse, Bpe!NoPulse
<1> QED BY <1>1 DEF Bpe!Edge, Bpe!IdleEdge

\* Only the last step of linking an order into an empty level marks one.
LEMMA NothingMarked ==
    ASSUME Sound, [Next]_vars, ~(WrEmpty /\ UNCHANGED <<matVars, ctlVars>>)
    PROVE  \/ ~Bpe!InitDone'
           \/ Bpe!InitDone /\ \A t \in Side : occ'[t] \subseteq occ[t]
           \/ \A t \in Side : occ'[t] = {}
<1>0. Bpe!TypeOK /\ Bpe!ClearedSoFar
  BY DEF Sound, Bpe!IInv
<1>1. ASSUME UNCHANGED bpeVars PROVE \/ ~Bpe!InitDone'
                                     \/ Bpe!InitDone /\ \A t \in Side : occ'[t] \subseteq occ[t]
  BY <1>1 DEF bpeVars, Bpe!InitDone
<1>2. CASE (\E c \in Command : Accept(c)) \/ CtlStep
  BY <1>1, <1>2, ControllerKeepsBook DEF Accept
<1>3. CASE MgrStep /\ UNCHANGED <<matVars, ctlVars>>
  <2>1. UNCHANGED bpeVars \/ Bpe!Edge(Bpe!ClearPulse(mr.order.side, mr.order.price))
    <3> USE DEF LookupMiss, LookupHit, LatchQuery, LatchReject, LatchOrder, CanBegin,
                SpWrNext, SpWrNext2, DelHash, DelCommit, ModQtyWr, ExPartial, ExTrade,
                MgrAck, EnqGetSlot, EnqHashHit, EnqHashMiss, EnqRollback, ReLvl,
                LvlRead, TailLink, TailLink2, EnqDone, Requantify
    <3> QED BY <1>3 DEF MgrStep
  <2>2. mr.order.side \in Side
    BY <1>3, ManagerSteps, ManagerRests DEF MgrRegs, OrderRec
  <2>3. CASE Bpe!Edge(Bpe!ClearPulse(mr.order.side, mr.order.price))
    <3>1. Bpe!InitDone
      BY <2>3 DEF Bpe!Edge
    <3>2. \A t \in Side : occ'[t] \subseteq occ[t]
      BY <2>2, <2>3, PulseMarks
    <3> QED BY <3>1, <3>2
  <2> QED BY <1>1, <2>1, <2>3
<1>4. CASE MatStep /\ UNCHANGED <<mgrVars, ctlVars>>
  <2>1. UNCHANGED bpeVars \/ \E s \in Side : Bpe!Edge(Bpe!ClearPulse(s, BestOf(s)))
    BY <1>4, MatcherRests, MatcherSteps
       DEF MatStep, MCheck, MTrade, MUpdBid, MHashBid, MUpdAsk, MHashAsk, FCheck,
           FTrade, FUpdate, FHash, MDone, Consume, ClearIfEmptied, DropMapping
  <2>2. ASSUME NEW s \in Side, Bpe!Edge(Bpe!ClearPulse(s, BestOf(s)))
        PROVE  Bpe!InitDone /\ \A t \in Side : occ'[t] \subseteq occ[t]
    <3>1. Bpe!InitDone
      BY <2>2 DEF Bpe!Edge
    <3>2. \A t \in Side : occ'[t] \subseteq occ[t]
      BY <2>2, PulseMarks
    <3> QED BY <3>1, <3>2
  <2> QED BY <1>1, <2>1, <2>2
<1>5. CASE MemInit \/ UNCHANGED vars
  BY <1>1, <1>5 DEF MemInit, vars, bpeVars
<1>6. CASE EncoderInit
  <2>1. /\ initIdx \in 0 .. NumLevels /\ initIdx' = initIdx + 1
        /\ \A t \in Side : /\ occ'[t] = occ[t] \ {initIdx} /\ occ[t] \subseteq Level
                           /\ \A l \in occ[t] : l >= initIdx
    BY <1>0, <1>6 DEF EncoderInit, Bpe!InitEdge, Bpe!TypeOK, Bpe!ClearedSoFar, Bpe!InitDone
  <2>2. CASE Bpe!InitDone'
    <3>1. initIdx = NumLevels - 1
      BY <2>1, <2>2 DEF Bpe!InitDone
    <3> QED BY <2>1, <3>1
  <2> QED BY <2>2
<1>7. CASE Scan
  <2>1. Bpe!IdleEdge /\ Bpe!InitDone
    BY <1>7 DEF Scan, Bpe!IdleEdge, Bpe!Edge
  <2> QED BY <2>1, PulseMarks
<1>8. CASE Reset
  BY <1>8 DEF Reset, Bpe!Reset, Bpe!InitDone
<1> QED BY <1>2, <1>3, <1>4, <1>5, <1>6, <1>7, <1>8, SmallSteps

\* A level whose head pointer is null has no total either.
LEMMA NullHeadNothing ==
    ASSUME NEW r, Slots(r), NEW p, NEW t, AreFifos(r, p, t),
           NEW s \in Side, NEW l \in Level, t[s][l].head = NULL
    PROVE  SlotsAt(r, p, s, l) = {} /\ t[s][l].qty = 0
<1> DEFINE a == SlotsAt(r, p, s, l)
<1>1. IsFifo(a, p, t[s][l])
  BY DEF AreFifos
<1>2. NULL \notin a
  BY DEF SlotsAt, Slots
<1>3. a = {}
  BY <1>1, <1>2 DEF IsFifo
<1> HIDE DEF a
<1>4. IsFifo({}, p, t[s][l])
  BY <1>1, <1>3
<1> QED BY <1>3, <1>4, FifoEmpty DEF a

\* One level is written: it is enough to look at that one.
LEMMA OneLevelMarked ==
    ASSUME Sound, NEW s \in Side, NEW l \in Level, NEW u,
           lvl' = [lvl EXCEPT ![s][l] = u], Bpe!InitDone,
           \A t \in Side : \A k \in occ'[t] : k \in occ[t] \/ (t = s /\ k = l),
           l \in occ'[s] => u.head # NULL
    PROVE  OccupiedAreHeld'
<1>1. OccupiedAreHeld /\ lvl \in Tables
  BY Facts DEF Sound, BookInv
<1>2. ASSUME NEW t \in Side, NEW k \in Level, k \in occ'[t]
      PROVE  lvl'[t][k].head # NULL
  <2>1. CASE t = s /\ k = l
    <3>1. lvl'[s][l] = u
      BY <1>1 DEF Tables
    <3> QED BY <1>2, <2>1, <3>1
  <2>2. CASE ~(t = s /\ k = l)
    <3>1. lvl'[t][k] = lvl[t][k] /\ k \in occ[t]
      BY <1>1, <1>2, <2>2 DEF Tables
    <3> QED BY <1>1, <3>1 DEF OccupiedAreHeld
  <2> QED BY <2>1, <2>2
<1> QED BY <1>2 DEF OccupiedAreHeld

\* The manager writes a level: it is marked only when it gets its first order,
\* and the mark goes with the last.
LEMMA ManagerMarks ==
    ASSUME Sound, MgrStep, UNCHANGED <<matVars, ctlVars>>
    PROVE  OccupiedAreHeld'
<1>0. /\ mgr # "IDLE" /\ mr \in MgrRegs /\ ManagerLatches /\ Bpe!InitDone
      /\ mr.order.side \in Side /\ mr.order.price \in Level /\ OccupiedAreHeld
  BY ManagerSteps, ManagerRests, ManagerFacts DEF Sound, BookInv, MgrRegs, OrderRec
<1>1. CASE lvl' = lvl /\ ~WrEmpty
  <2>1. \A t \in Side : occ'[t] \subseteq occ[t] \/ occ'[t] = {}
    BY <1>0, <1>1, NothingMarked, ManagerKeepsMemories DEF Next, EngineStep, Bpe!InitDone
  <2> QED BY <1>0, <1>1, <2>1 DEF OccupiedAreHeld
<1>2. CASE WrEmpty
  <2>1. /\ lvl' = [lvl EXCEPT ![cmd.side][cmd.price] =
                     [head |-> mr.slot, tail |-> mr.slot, qty |-> LevelPlus(0, cmd.qty)]]
        /\ Bpe!Edge(Bpe!SetPulse(cmd.side, cmd.price)) /\ mgr \in Linking
    BY <1>2 DEF WrEmpty, WriteLevel, Linking
  <2>2. cmd.side \in Side /\ cmd.price \in Level /\ mr.slot # NULL
    BY <2>1, LinkFacts DEF CmdRec
  <2>3. \A t \in Side : \A k \in occ'[t] : k \in occ[t] \/ (t = cmd.side /\ k = cmd.price)
    BY <2>1, <2>2, PulseMarks
  <2> QED BY <1>0, <2>1, <2>2, <2>3, OneLevelMarked
<1>3. CASE SpWrNext
  <2> DEFINE s == mr.order.side
             l == mr.order.price
  <2>1. /\ lvl' = [lvl EXCEPT ![s][l] = mr.new]
        /\ IF mr.new.qty = 0 THEN Bpe!Edge(Bpe!ClearPulse(s, l)) ELSE occ' = occ
    BY <1>3 DEF SpWrNext, WriteLevel, bpeVars
  <2>2. \A t \in Side : \A k \in occ'[t] : k \in occ[t]
    BY <1>0, <2>1, PulseMarks
  <2>3. lvl'[s][l] = mr.new
    BY <1>0, <2>1, Facts DEF Tables
  <2>4. mr.new.head = NULL => mr.new.qty = 0
    <3>1. BookKept /\ Resting' = Resting \ {mr.slot}
      BY <1>3, SpliceUnlinks
    <3>2. AreFifos(Resting', View', lvl') /\ Slots(Resting')
      BY <3>1, Facts DEF BookKept, QueuesAreFifos, Slots
    <3> QED BY <1>0, <2>3, <3>2, NullHeadNothing
  <2>5. mr.new.qty = 0 => l \notin occ'[s]
    BY <1>0, <2>1, PulseMarks
  <2> QED BY <1>0, <2>1, <2>2, <2>4, <2>5, OneLevelMarked
<1>4. CASE ModQtyWr \/ ExPartial
  <2>1. PICK total :
          /\ lvl' = [lvl EXCEPT ![mr.order.side][mr.order.price] = [mr.level EXCEPT !.qty = total]]
          /\ occ' = occ /\ mgr \in {"MOD_QTY_WR", "EX_PARTIAL"}
    BY <1>4 DEF ModQtyWr, ExPartial, Requantify, WriteLevel, bpeVars
  <2>2. mr.level = lvl[mr.order.side][mr.order.price] /\ mr.level \in LevelRec
    BY <1>0, <2>1 DEF ManagerLatches, MgrRegs
  <2>3. [mr.level EXCEPT !.qty = total].head = mr.level.head
    BY <2>2 DEF LevelRec
  <2>4. mr.order.price \in occ[mr.order.side] => mr.level.head # NULL
    BY <1>0, <2>2 DEF OccupiedAreHeld
  <2> QED BY <1>0, <2>1, <2>3, <2>4, OneLevelMarked
<1>5. CASE TailLink2
  <2>1. /\ lvl' = [lvl EXCEPT ![cmd.side][cmd.price] =
                     [head |-> Target.head, tail |-> mr.slot,
                      qty |-> LevelPlus(Target.qty, cmd.qty)]]
        /\ occ' = occ /\ mgr = "TAIL2"
    BY <1>5 DEF TailLink2, WriteLevel, bpeVars
  <2>2. cmd.side \in Side /\ cmd.price \in Level /\ Target.head # NULL
    BY <1>0, <2>1, LinkFacts DEF CmdRec, Linking, ManagerLatches
  <2> QED BY <1>0, <2>1, <2>2, OneLevelMarked
<1>6. \/ lvl' = lvl /\ ~WrEmpty
      \/ WrEmpty \/ SpWrNext \/ ModQtyWr \/ ExPartial \/ TailLink2
  <2>1. CASE LookupMiss \/ LookupHit \/ LatchQuery \/ LatchReject \/ LatchOrder \/ CanBegin
             \/ SpWrNext2 \/ DelHash \/ DelCommit \/ ExTrade \/ MgrAck \/ EnqGetSlot
             \/ EnqHashHit \/ EnqHashMiss \/ EnqRollback \/ ReLvl \/ LvlRead \/ TailLink
             \/ EnqDone
    BY <2>1 DEF LookupMiss, LookupHit, LatchQuery, LatchReject, LatchOrder, CanBegin,
                SpWrNext2, DelHash, DelCommit, ExTrade, MgrAck, EnqGetSlot, EnqHashHit,
                EnqHashMiss, EnqRollback, ReLvl, LvlRead, TailLink, EnqDone, WrEmpty
  <2> QED BY <2>1 DEF MgrStep
<1> QED BY <1>1, <1>2, <1>3, <1>4, <1>5, <1>6

\* Every mark is on a level that holds orders.
LEMMA MarksKept ==
    ASSUME Sound, ScopeOfBook, [Next]_vars
    PROVE  OccupiedAreHeld'
<1>0. OccupiedAreHeld
  BY DEF Sound, BookInv
<1>1. CASE lvl' = lvl /\ ~(WrEmpty /\ UNCHANGED <<matVars, ctlVars>>)
  BY <1>0, <1>1, NothingMarked DEF OccupiedAreHeld
<1>2. CASE MgrStep /\ UNCHANGED <<matVars, ctlVars>>
  BY <1>2, ManagerMarks
<1>3. ASSUME MatStep, UNCHANGED <<mgrVars, ctlVars>>, NEW s \in Side, Consumes(s)
      PROVE  OccupiedAreHeld'
  <2> DEFINE x == xr.level[s].head
             l == BestOf(s)
  <2>1. mat # "M_IDLE" /\ Latched(s) /\ Consume(s)
    BY <1>3, ConsumingFacts
  <2>2. Bpe!InitDone
    BY <2>1, MatcherRests
  <2>3. l \in Level /\ xr.order[s] = pool[x] /\ xr.level[s].head # NULL
    BY <2>1, LatchedFacts
  <2>4. /\ lvl' = [lvl EXCEPT ![s][l] = LevelAfter(s)]
        /\ IF Filled(s) /\ xr.order[s].next = NULL
             THEN Bpe!Edge(Bpe!ClearPulse(s, l)) ELSE occ' = occ
    BY <2>1 DEF Consume, WriteLevel, ClearIfEmptied, bpeVars
  <2>5. \A t \in Side : \A k \in occ'[t] : k \in occ[t]
    BY <2>4, PulseMarks
  <2>6. l \in occ'[s] => ~(Filled(s) /\ xr.order[s].next = NULL)
    BY <2>4, PulseMarks
  <2>7. LevelAfter(s).head = IF Filled(s) THEN xr.order[s].next ELSE xr.level[s].head
    BY DEF LevelAfter
  <2> QED BY <2>2, <2>3, <2>4, <2>5, <2>6, <2>7, OneLevelMarked
<1>4. CASE MatStep /\ UNCHANGED <<mgrVars, ctlVars>>
  <2>1. CASE \E s \in Side : Consumes(s)
    BY <1>3, <1>4, <2>1
  <2>2. CASE ~\E s \in Side : Consumes(s)
    <3>1. lvl' = lvl
      <4>1. CASE \E s \in Side : Forgets(s)
        BY <1>4, <4>1, ForgettingFacts DEF DropMapping
      <4> QED BY <1>4, <2>2, <4>1, MatcherCases DEF MCheck, MTrade, FCheck, FTrade, MDone
    <3>2. ~WrEmpty
      BY <1>4, MatcherSteps, MatcherRests DEF WrEmpty
    <3> QED BY <1>1, <3>1, <3>2
  <2> QED BY <2>1, <2>2
<1>5. CASE (\E c \in Command : Accept(c)) \/ CtlStep \/ MemInit \/ EncoderInit \/ Scan
             \/ UNCHANGED vars \/ Reset
  <2>1. CASE WrEmpty /\ UNCHANGED <<matVars, ctlVars>>
    BY <1>2, <2>1 DEF MgrStep
  <2>2. lvl' = lvl
    BY <1>5, ControllerKeepsBook DEF Accept, MemInit, EncoderInit, Scan, vars, Reset, Others
  <2> QED BY <1>1, <2>1, <2>2
<1> QED BY <1>2, <1>4, <1>5, SmallSteps

-----------------------------------------------------------------------------
(* The two sides.                                                            *)

\* The drain goes on until the best prices, and so all marks, do not cross.
LEMMA DrainEnds ==
    ASSUME Sound, MCheck, mat' = "M_DONE"
    PROVE  \A b \in occ["BUY"], a \in occ["SELL"] : b < a
<1>1. Bpe!InitDone /\ (\A s \in Side : ~Bpe!Busy(s)) /\ ~Crossed
  BY DEF MCheck, MatGoto, Bpe!RefreshBusy
<1>2. SUFFICES ASSUME NEW b \in occ["BUY"], NEW a \in occ["SELL"] PROVE b < a
  OBVIOUS
<1>3. \A s \in Side : best[s].valid
  BY <1>1 DEF Sound, Bpe!IInv, Bpe!SettledIsBest
<1>4. BestOf("BUY") < BestOf("SELL")
  BY <1>1, <1>3, ValidIsBest DEF Sound, Crossed
<1>5. ~Better("BUY", b, BestOf("BUY")) /\ ~Better("SELL", a, BestOf("SELL"))
  BY <1>1, <1>3, ValidIsBest DEF Sound
<1>6. BestOf("BUY") \in Level /\ BestOf("SELL") \in Level
  BY <1>1, <1>3, ValidIsBest DEF Sound
<1>7. a \in Level /\ b \in Level
  BY DEF Sound, Bpe!IInv, Bpe!TypeOK
<1> QED BY <1>4, <1>5, <1>6, <1>7 DEF Better

\* Who links an order leaves the state in which the book may cross only by
\* starting the drain, and the drain only when nothing crosses any more.
LEMMA CrossingEnds ==
    ASSUME Sound, [Next]_vars, MayCross, ~MayCross'
    PROVE  ~Bpe!InitDone' \/ (MCheck /\ mat' = "M_DONE")
<1>0. IInv
  BY DEF Sound
<1>1. CASE \E c \in Command : Accept(c)
  BY <1>1 DEF Accept, MayCross
<1>2. CASE CtlStep
  <2>1. AtRest /\ ctl # "C_IDLE"
    BY <1>0, <1>2, ControllerStarts
  <2>2. \/ ctl = "C_ENQ" /\ resp = EnqResp("OK")
        \/ ctl = "C_MODIFY" /\ resp = MovedResp
    BY <2>1 DEF MayCross, AtRest
  <2>3. Enqueued \/ Moved
    BY <1>2, <2>2
       DEF CtlStep, ValidateReject, ValidateFast, ValidateManager, Validating, Settle,
           SendAck, FastFilled, FastRemainder, EnqRejected, MgrAcked, Drained, Queried,
           Hears, EnqResp, MovedResp
  <2>4. ctl' = "C_DRAIN" /\ mat' = "M_CHECK"
    BY <2>3 DEF Enqueued, Moved, StartDrain, MatStart
  <2> QED BY <2>4 DEF MayCross
<1>3. CASE MgrStep /\ UNCHANGED <<matVars, ctlVars>>
  <2>1. mgr # "IDLE" /\ ctl = CallerOf(mr.op) /\ resp = NoResp /\ ctl' = ctl
        /\ mgr \in StatesOf(mr.op) /\ mr.op \in MgrOp
    BY <1>0, <1>3, ManagerSteps, ManagerFacts, ManagerServes DEF ManagerAtWork, ctlVars
  <2>2. ctl = "C_ENQ" /\ mgr = "ENQ_DONE"
    BY <2>1 DEF MayCross, CallerOf, MgrOp, NoResp, EnqResp, MovedResp
  <2>3. resp' = EnqResp("OK")
    BY <1>3, <2>2
       DEF MgrStep, LookupMiss, LookupHit, LatchQuery, LatchReject, LatchOrder,
           CanBegin, SpWrNext, SpWrNext2, DelHash, DelCommit, ModQtyWr, ExPartial,
           ExTrade, MgrAck, EnqGetSlot, EnqHashHit, EnqHashMiss, EnqRollback, ReLvl,
           LvlRead, WrEmpty, TailLink, TailLink2, EnqDone, Finish
  <2> QED BY <2>1, <2>2, <2>3 DEF MayCross
<1>4. CASE MatStep /\ UNCHANGED <<mgrVars, ctlVars>>
  <2>1. mat # "M_IDLE" /\ ctl' = ctl /\ MatcherAtWork
    BY <1>0, <1>4, MatcherSteps, MatcherFacts DEF ctlVars
  <2>2. ctl = "C_DRAIN" /\ mat \in DrainStates \ {"M_DONE"}
    BY <2>1 DEF MayCross, MatcherAtWork, NoResp, EnqResp, MovedResp, DrainStates
  <2>3. mat' \in {"M_IDLE", "M_DONE"}
    BY <2>1, <2>2 DEF MayCross
  <2> QED BY <1>4, <2>2, <2>3
          DEF MatStep, MCheck, MTrade, MUpdBid, MHashBid, MUpdAsk, MHashAsk, FCheck,
              FTrade, FUpdate, FHash, MDone, MatGoto, DrainStates
<1>5. CASE MemInit \/ EncoderInit \/ Scan \/ UNCHANGED vars
  <2>1. UNCHANGED <<ctl, mgr, resp, mat>>
    BY <1>5 DEF MemInit, EncoderInit, Scan, vars, Others, ctlVars, mgrVars, matVars
  <2> QED BY <2>1 DEF MayCross
<1>6. CASE Reset
  BY <1>6 DEF Reset, Bpe!Reset, Bpe!InitDone
<1> QED BY <1>1, <1>2, <1>3, <1>4, <1>5, <1>6, SmallSteps

\* Marking the level of a new order lets the book cross.
LEMMA MarkingMayCross ==
    ASSUME Sound, WrEmpty, UNCHANGED <<matVars, ctlVars>>
    PROVE  MayCross'
<1>1. mgr # "IDLE" /\ mgr \in Linking
  BY DEF WrEmpty, Linking
<1>2. mr.op \in {"ENQ", "MODIFY"} /\ ctl = CallerOf(mr.op) /\ ctl' = ctl
  BY <1>1, LinkFacts, ManagerFacts DEF Sound, ManagerAtWork, ctlVars
<1>3. CASE mr.op = "ENQ"
  BY <1>2, <1>3 DEF WrEmpty, Linked, Goto, MayCross, CallerOf
<1>4. CASE mr.op = "MODIFY"
  BY <1>2, <1>4 DEF WrEmpty, Linked, Finish, MayCross, CallerOf
<1> QED BY <1>2, <1>3, <1>4

\* Unless an order was just linked, the marked levels do not cross.
LEMMA UncrossedKept ==
    ASSUME Sound, ScopeOfBook, [Next]_vars
    PROVE  Uncrossed'
<1> SUFFICES ASSUME Bpe!InitDone', ~MayCross'
             PROVE  \A b \in occ'["BUY"], a \in occ'["SELL"] : b < a
  BY DEF Uncrossed
<1>1. ~(WrEmpty /\ UNCHANGED <<matVars, ctlVars>>)
  BY MarkingMayCross
<1>2. CASE \A t \in Side : occ'[t] = {}
  BY <1>2
<1>3. CASE Bpe!InitDone /\ \A t \in Side : occ'[t] \subseteq occ[t]
  <2>1. \A b \in occ["BUY"], a \in occ["SELL"] : b < a
    <3>1. CASE MayCross
      BY <3>1, CrossingEnds, DrainEnds
    <3>2. CASE ~MayCross
      BY <1>3, <3>2 DEF Sound, BookInv, Uncrossed
    <3> QED BY <3>1, <3>2
  <2>2. occ'["BUY"] \subseteq occ["BUY"] /\ occ'["SELL"] \subseteq occ["SELL"]
    BY <1>3
  <2> QED BY <2>1, <2>2
<1> QED BY <1>1, <1>2, <1>3, NothingMarked

-----------------------------------------------------------------------------
(* The invariant.                                                            *)

\* The encoder's invariant, in the engine and in its own module.
LEMMA EncoderInvSame ==
    /\ Bpe!IInv <=> Encoder!IInv
    /\ Bpe!IInv' <=> Encoder!IInv'
BY DEF Bpe!IInv, Encoder!IInv, Bpe!TypeOK, Encoder!TypeOK,
       Bpe!BestRec, Encoder!BestRec, Bpe!SettledIsBest, Encoder!SettledIsBest,
       Bpe!ScanMissesNothing, Encoder!ScanMissesNothing, Bpe!ClearedSoFar,
       Encoder!ClearedSoFar, Bpe!InitDone, Encoder!InitDone, Bpe!Busy, Encoder!Busy,
       Bpe!Better, Encoder!Better, Bpe!ResetRegs, Encoder!ResetRegs,
       Encoder!Side, Encoder!Level

\* At power-up nothing is in the book.
LEMMA BookAtPowerUp == Init => BookInv
<1> SUFFICES ASSUME Init PROVE BookInv
  OBVIOUS
<1>1. /\ pool = [s \in Slot |-> ZeroRec] /\ free = <<>> /\ initCnt = 1
      /\ lvl = [s \in Side |-> [l \in Level |-> ZeroLevel]]
      /\ ids = [i \in Ids |-> NULL] /\ initIdx = 0
      /\ ctl = "C_IDLE" /\ mgr = "IDLE" /\ mat = "M_IDLE" /\ resp = NoResp /\ sent = 0
  BY DEF Init, Mem!Init
<1>2. ~Mem!InitDone /\ ~Bpe!InitDone /\ BookEmpty
  BY <1>1 DEF Mem!InitDone, Bpe!InitDone, BookEmpty
<1>3. Mapped = {} /\ Resting = {} /\ InHand = {} /\ View = pool
  BY <1>1, <1>2, EmptyRests, RestsWhenIdle
<1>4. Mem!IInv
  BY <1>1, ZeroTyped DEF Mem!IInv, Mem!TypeOK, Mem!NoSlotTwice, Mem!InitInOrder
<1>5. SlotsAccountedFor
  <2>1. Mem!NoSlotTwice /\ NULL \notin Mem!FreeSlots
    BY <1>4, StackFacts
  <2>2. \A i \in Ids : ids[i] = NULL
    BY <1>1
  <2> QED BY <1>2, <1>3, <2>1, <2>2 DEF SlotsAccountedFor
<1>6. QueuesAreFifos
  <2>1. \A s, l : SlotsAt({}, pool, s, l) = {}
    BY DEF SlotsAt
  <2>2. \A s \in Side, l \in Level :
           lvl[s][l].head = NULL /\ lvl[s][l].tail = NULL /\ lvl[s][l].qty = 0
    BY <1>1 DEF ZeroLevel
  <2> QED BY <1>3, <2>1, <2>2, FifoEmpty DEF QueuesAreFifos, AreFifos
<1>7. ManagerLatches /\ MatcherLatches
  BY <1>1 DEF ManagerLatches, MatcherLatches, Linking, Unmapping
<1>8. Timely /\ NoStaleSplice /\ QuantityGiven
  BY <1>1, <1>3 DEF Timely, NoStaleSplice, QuantityGiven, Unlinked, Waiting
<1>9. EmptyUntilReady /\ FilledSoFar
  <2>1. <<>> = [n \in 1 .. 1 - 1 |-> n]
    OBVIOUS
  <2> QED BY <1>1, <1>2, <2>1 DEF EmptyUntilReady, FilledSoFar
<1>10. OccupiedAreHeld /\ Uncrossed
  BY <1>2 DEF OccupiedAreHeld, Uncrossed
<1> QED BY <1>4, <1>5, <1>6, <1>7, <1>8, <1>9, <1>10 DEF BookInv

\* Soundness is inductive.
LEMMA SoundKept ==
    ASSUME Sound, ScopeOfBook, [Next]_vars
    PROVE  Sound'
<1>1. IInv' /\ [Bpe!Next]_(Bpe!vars)
  BY EngineKeeps DEF Sound
<1>2. Bpe!IInv'
  <2>1. Encoder!IInv /\ [Encoder!Next]_(Encoder!vars)
    BY <1>1, EncoderInvSame, EncoderSame DEF Sound
  <2>2. Encoder!IInv'
    BY <2>1, Encoder!InvInductive
  <2> QED BY <2>2, EncoderInvSame
<1>3. QueuesAreFifos' /\ SlotsAccountedFor' /\ [Mem!Next]_memVars
  BY EngineKeepsBook DEF BookKept
<1>4. Mem!IInv'
  BY <1>3, MemoryKept DEF Sound, BookInv
<1>5. ManagerLatches' /\ MatcherLatches' /\ Timely' /\ NoStaleSplice' /\ QuantityGiven'
  BY ManagerLatchesKept, MatcherLatchesKept, TimelyKept, NoStaleKept, QuantityKept
<1>6. EmptyUntilReady' /\ FilledSoFar' /\ OccupiedAreHeld' /\ Uncrossed'
  BY ReadyKept, MarksKept, UncrossedKept
<1> QED BY <1>1, <1>2, <1>3, <1>4, <1>5, <1>6 DEF Sound, BookInv

\* The engine is sound from power-up.
LEMMA SoundAtPowerUp == Init => Sound
<1>1. Encoder!Init => Encoder!IInv
  BY DEF Encoder!Init, Encoder!IInv, Encoder!TypeOK, Encoder!BestRec, Encoder!ResetRegs,
         Encoder!SettledIsBest, Encoder!ScanMissesNothing, Encoder!ClearedSoFar,
         Encoder!InitDone, Encoder!Busy, Encoder!Side, Encoder!Level
<1> QED BY <1>1, EngineInit, EncoderSame, EncoderInvSame, BookAtPowerUp DEF Sound

\* The engine stays sound.
LEMMA SoundAlways == ASSUME ScopeOfBook PROVE Spec => []Sound
<1>1. Sound /\ [Next]_vars => Sound'
  BY SoundKept
<1> QED BY <1>1, SoundAtPowerUp, PTL DEF Spec

-----------------------------------------------------------------------------
(* What follows from it.                                                     *)

\* Every level is, at every clock edge, a FIFO of its orders in time priority.
THEOREM QueuesStayFifos == ASSUME ScopeOfBook PROVE Spec => []QueuesAreFifos
<1>1. Sound => QueuesAreFifos
  BY DEF Sound, BookInv
<1> QED BY <1>1, SoundAlways, PTL

\* No slot is lost, used twice or found under two ids.
THEOREM NoSlotLost == ASSUME ScopeOfBook PROVE Spec => []SlotsAccountedFor
<1>1. Sound => SlotsAccountedFor
  BY DEF Sound, BookInv
<1> QED BY <1>1, SoundAlways, PTL

\* The free slots are those that are not linked or in hand.
LEMMA FreeFacts ==
    ASSUME Sound
    PROVE  /\ Mem!InitDone => (Resting \union InHand) \cap Mem!FreeSlots = {}
           /\ \A i \in Ids : ids[i] \in Mem!FreeSlots => ids[i] \in Mapped
           /\ ~Mem!InitDone => Mapped = {}
<1>1. /\ Mem!InitDone => Mem!Held = Resting \union InHand
      /\ NULL \notin Mem!FreeSlots
  BY DEF Sound, BookInv, SlotsAccountedFor
<1>2. Mem!Held \cap Mem!FreeSlots = {}
  BY DEF Mem!Held
<1>3. \A i \in Ids : ids[i] \in Mem!FreeSlots => ids[i] \in Mapped
  BY <1>1 DEF Mapped
<1>4. ~Mem!InitDone => Mapped = {}
  BY EmptyRests DEF Sound, BookInv, EmptyUntilReady
<1> QED BY <1>1, <1>2, <1>3, <1>4

\* In a sound state a free slot is named only by the mapping about to be deleted,
\* and is not the one the manager works on.
LEMMA FreedIsUnused == Sound => NoUseOfFreedSlot
<1> SUFFICES ASSUME Sound PROVE NoUseOfFreedSlot
  OBVIOUS
<1>1. ASSUME NEW i \in Ids, ids[i] \in Mem!FreeSlots
      PROVE  \E s \in Side : Unmapping(s) /\ i = xr.order[s].id
  <2>1. ids[i] \in Mapped /\ Mem!InitDone /\ ids[i] # NULL
    BY <1>1, FreeFacts DEF Mapped
  <2>2. ids[i] \notin Resting /\ ids[i] \notin InHand
    BY <1>1, <2>1, FreeFacts
  <2>3. PICK s \in Side : Unmapping(s) /\ ids[i] = xr.level[s].head
    BY <2>1, <2>2 DEF Resting, Dropped
  <2>4. xr.order[s].id \in Ids /\ ids[xr.order[s].id] = xr.level[s].head
    BY <2>3 DEF Sound, BookInv, MatcherLatches
  <2>5. i = xr.order[s].id
    BY <2>1, <2>3, <2>4, Facts
  <2> QED BY <2>3, <2>5
<1>2. ASSUME mgr \notin {"IDLE", "LU", "ENQ_GET_SLOT", "EX_TRADE", "ACK"}
      PROVE  mr.slot \notin Mem!FreeSlots
  <2>1. /\ mgr # "IDLE" /\ Mem!InitDone /\ ManagerLatches /\ cmd.id \in Ids
        /\ Resting = Mapped \ InHand /\ mgr \in MgrState
    BY <1>2, ManagerRests DEF CmdRec, Sound, IInv, TypeOK, ManagerTypeOK
  <2>2. CASE InHand = {mr.slot}
    BY <2>1, <2>2, FreeFacts
  <2>3. CASE InHand # {mr.slot}
    <3>1. mgr \in {"LATCH", "CAN_BEGIN", "MOD_QTY_WR", "EX_PARTIAL", "SP_WR_NEXT", "ENQ_DONE"}
      BY <1>2, <2>1, <2>3 DEF InHand, MgrState, Deleting, Linking
    <3>2. mr.slot # NULL /\ ids[cmd.id] = mr.slot
      BY <2>1, <3>1 DEF ManagerLatches
    <3>3. mr.slot \in Mapped
      BY <2>1, <3>2 DEF Mapped
    <3> QED BY <2>1, <3>3, FreeFacts
  <2> QED BY <2>2, <2>3
<1> QED BY <1>1, <1>2 DEF NoUseOfFreedSlot

\* Nobody works on a slot that could be handed out.
THEOREM FreedSlotsUnused == ASSUME ScopeOfBook PROVE Spec => []NoUseOfFreedSlot
BY FreedIsUnused, SoundAlways, PTL

\* What the matcher has latched includes the level's price.
LEMMA WritesBack == Sound => WriteBackToTheSameLevel
<1> SUFFICES ASSUME Sound, mat # "M_IDLE" PROVE WriteBackToTheSameLevel
  BY DEF WriteBackToTheSameLevel
<1>1. MatcherLatches /\ Passive \in Side
  BY MatcherRests
<1>2. \A s \in Side : Latched(s) => best[s].valid /\ BestOf(s) = xr.order[s].price
  <2> SUFFICES ASSUME NEW s \in Side, Latched(s)
               PROVE  best[s].valid /\ BestOf(s) = xr.order[s].price
    OBVIOUS
  <2>1. best[s].valid
    BY DEF Latched
  <2> QED BY <2>1, LatchedFacts
<1> QED BY <1>1, <1>2 DEF WriteBackToTheSameLevel, MatcherLatches

\* The matcher writes back to the level it read.
THEOREM WritesBackToTheSameLevel ==
    ASSUME ScopeOfBook PROVE Spec => []WriteBackToTheSameLevel
BY WritesBack, SoundAlways, PTL

\* The engine uses the order memory as its specification allows.
LEMMA MemoryUsed == ASSUME ScopeOfBook PROVE Sound /\ [Next]_vars => [Mem!Next]_memVars
BY EngineKeepsBook DEF BookKept

\* A step that the order memory allows gives back, and rewrites, held slots.
LEMMA HeldGivenBack ==
    ASSUME Mem!IInv, [Mem!Next]_memVars
    PROVE  /\ Mem!InitDone /\ Len(free') > Len(free) => free'[Len(free')] \in Mem!Held
           /\ \A slot \in Slot : pool'[slot] # pool[slot] => slot \in Mem!Held
<1>0. Len(free) \in Nat /\ free \in Seq(Slot \ {NULL}) /\ pool \in [Slot -> OrderRec]
  BY StackFacts DEF Mem!IInv, Mem!TypeOK
<1>1. CASE Mem!InitEdge
  BY <1>1 DEF Mem!InitEdge
<1>2. CASE Mem!Alloc
  <2>1. free # <<>> /\ free' = SubSeq(free, 1, Len(free) - 1) /\ pool' = pool
    BY <1>2 DEF Mem!Alloc, Mem!FreeEmpty
  <2>2. Len(free) > 0
    BY <1>0, <2>1
  <2>3. Len(free') = Len(free) - 1
    BY <1>0, <2>1, PopIsPrefix
  <2> QED BY <1>0, <2>1, <2>3
<1>3. ASSUME NEW slot \in Mem!Held, Mem!Push(slot), UNCHANGED pool
      PROVE  free'[Len(free')] \in Mem!Held /\ pool' = pool
  BY <1>0, <1>3 DEF Mem!Push, Mem!Held
<1>4. ASSUME NEW slot \in Mem!Held, NEW rec \in OrderRec, Mem!Write(slot, rec),
             UNCHANGED <<free, initCnt>>
      PROVE  free' = free /\ \A x \in Slot : pool'[x] # pool[x] => x = slot
  BY <1>0, <1>4 DEF Mem!Write
<1>5. CASE Mem!Reset
  <2>1. free' = <<>> /\ pool' = pool
    BY <1>5 DEF Mem!Reset
  <2>2. Len(free') = 0
    BY <2>1
  <2> QED BY <1>0, <2>1, <2>2
<1>6. CASE UNCHANGED memVars
  BY <1>0, <1>6 DEF memVars
<1> QED BY <1>0, <1>1, <1>2, <1>3, <1>4, <1>5, <1>6 DEF Mem!Next

\* Only held slots are given back or rewritten.
THEOREM OnlyHeldSlotsUsed == ASSUME ScopeOfBook PROVE Spec => OnlyHeldSlots
<1>1. Sound /\ [Next]_vars =>
        [/\ Mem!InitDone /\ Len(free') > Len(free) => free'[Len(free')] \in Mem!Held
         /\ \A slot \in Slot : pool'[slot] # pool[slot] => slot \in Mem!Held]_vars
  BY MemoryUsed, HeldGivenBack DEF Sound, BookInv
<1> QED BY <1>1, SoundAlways, PTL DEF Spec, OnlyHeldSlots

\* So the order memory's own theorems hold in the engine.
THEOREM MemoryUsedAsSpecified == ASSUME ScopeOfBook PROVE Spec => Mem!Spec
<1>1. Init => Mem!Init
  BY DEF Init
<1>2. Mem!vars = memVars /\ Mem!vars' = memVars'
  BY DEF Mem!vars, memVars
<1>3. Sound /\ [Next]_vars => [Mem!Next]_(Mem!vars)
  BY <1>2, MemoryUsed
<1> QED BY <1>1, <1>3, SoundAlways, PTL DEF Spec, Mem!Spec

-----------------------------------------------------------------------------
(* Acknowledgements.                                                         *)

\* What is sampled at the way into C_ACK stays true there.
LEMMA AckShowsKept ==
    ASSUME IInv, AckShows, [Next]_vars
    PROVE  AckShows'
<1>1. CASE CtlStep
  <2>1. UNCHANGED <<free, initCnt, best, initIdx>>
    BY <1>1, ControllerKeepsBook DEF memVars, bpeVars
  <2>2. /\ Mem!InitDone' = Mem!InitDone /\ Bpe!InitDone' = Bpe!InitDone
        /\ Mem!NumOrders' = Mem!NumOrders
        /\ \A s : StatusBest(s)' = StatusBest(s)
    BY <2>1 DEF Mem!InitDone, Bpe!InitDone, Mem!NumOrders, StatusBest
  <2>3. \A st, r : /\ AckOf(st, r).n = Mem!NumOrders
                   /\ AckOf(st, r).bid = StatusBest("BUY")
                   /\ AckOf(st, r).ask = StatusBest("SELL")
    BY DEF AckOf
  <2>4. /\ ctl' \in {"C_SETTLE", "C_ACK"} => Mem!InitDone /\ Bpe!InitDone
        /\ ctl' = "C_ACK" => \E st, r : ack' = AckOf(st, r)
    <3>0. Waiting => Mem!InitDone /\ Bpe!InitDone
      BY DEF IInv, ValidatedFirst
    <3>1. CASE ValidateReject \/ ValidateFast \/ ValidateManager
      BY <3>1 DEF ValidateReject, ValidateFast, ValidateManager, Validating
    <3>2. CASE Settle \/ SendAck
      BY <3>2 DEF Settle, SendAck, AckShows
    <3>3. CASE FastFilled \/ FastRemainder \/ EnqRejected \/ Enqueued
      BY <3>0, <3>3
         DEF FastFilled, FastRemainder, EnqRejected, Enqueued, Hears, StartDrain, Waiting
    <3>4. CASE MgrAcked \/ Moved \/ Drained \/ Queried
      BY <3>0, <3>4 DEF MgrAcked, Moved, Drained, Queried, Hears, StartDrain, Waiting
    <3> QED BY <1>1, <3>1, <3>2, <3>3, <3>4 DEF CtlStep
  <2> QED BY <2>2, <2>3, <2>4 DEF AckShows
<1>2. CASE (\E c \in Command : Accept(c)) \/ Reset
  BY <1>2 DEF Accept, Reset, AckShows
<1>3. CASE (MgrStep /\ UNCHANGED <<matVars, ctlVars>>)
             \/ (MatStep /\ UNCHANGED <<mgrVars, ctlVars>>)
  <2>1. Waiting /\ ctl' = ctl
    BY <1>3, ManagerSteps, MatcherSteps, ManagerFacts, MatcherFacts DEF ctlVars
  <2> QED BY <2>1 DEF Waiting, AckShows
<1>4. CASE MemInit \/ EncoderInit
  <2>1. ctl' = ctl /\ ~(Mem!InitDone /\ Bpe!InitDone)
    BY <1>4 DEF MemInit, EncoderInit, Mem!InitEdge, Bpe!InitEdge, Others, ctlVars
  <2> QED BY <2>1 DEF AckShows
<1>5. CASE Scan
  <2>1. /\ UNCHANGED <<ctl, ack, free, initCnt, initIdx>>
        /\ Bpe!InitDone /\ Bpe!RefreshBusy
    BY <1>5 DEF Scan, Others, ctlVars, memVars, Bpe!IdleEdge, Bpe!Edge
  <2>2. ctl # "C_ACK"
    BY <2>1 DEF Bpe!RefreshBusy, IInv, SettledWhenUsed, MayScan
  <2> QED BY <2>1, <2>2 DEF AckShows, Mem!InitDone, Bpe!InitDone
<1>6. CASE UNCHANGED vars
  BY <1>6 DEF vars, memVars, bpeVars, ctlVars, AckShows, Mem!InitDone, Bpe!InitDone,
              Mem!NumOrders, StatusBest
<1> QED BY <1>1, <1>2, <1>3, <1>4, <1>5, <1>6, SmallSteps

\* What C_ACK shows is always current.
LEMMA AckShowsAlways == Spec => []AckShows
<1>1. Init => AckShows
  BY DEF Init, AckShows
<1>2. IInv /\ AckShows /\ [Next]_vars => AckShows'
  BY AckShowsKept
<1> QED BY <1>1, <1>2, Invariance, PTL DEF Spec

\* The stack's height counts the linked orders when nobody carries one.
LEMMA HeightCounts ==
    ASSUME Sound, Mem!InitDone, mgr \in {"IDLE", "LU", "ENQ_GET_SLOT"}, mat = "M_IDLE"
    PROVE  Mem!NumOrders = Cardinality(Resting)
<1>1. InHand = {}
  BY RestsWhenIdle
<1>2. Mem!Held = Resting
  BY <1>1, Facts
<1>3. Mem!NumOrders = Cardinality(Mem!Held)
  BY StackCounts DEF Sound, BookInv
<1> QED BY <1>2, <1>3

\* An acknowledgement shows the number of live orders and the best prices.
THEOREM AcknowledgementsAreTrue == ASSUME ScopeOfBook PROVE Spec => []AcknowledgesTheBook
<1>1. Sound /\ AckShows => AcknowledgesTheBook
  <2> SUFFICES ASSUME Sound, AckShows, ctl = "C_ACK" PROVE AcknowledgesTheBook
    BY DEF AcknowledgesTheBook
  <2>1. AtRest /\ Mem!InitDone
    BY DEF Sound, IInv, OneAtATime, Waiting, AckShows
  <2> QED BY <2>1, HeightCounts DEF AtRest, AckShows, AcknowledgesTheBook
<1> QED BY <1>1, SoundAlways, AckShowsAlways, PTL

-----------------------------------------------------------------------------
(* The marks are complete while totals fit.                                  *)

\* One level is written: it is enough to look at that one.
LEMMA OneLevelHeld ==
    ASSUME Sound, HeldAreOccupied, NEW s \in Side, NEW l \in Level, NEW u,
           lvl' = [lvl EXCEPT ![s][l] = u], Bpe!InitDone,
           \A t \in Side : \A k \in occ[t] : k \in occ'[t] \/ (t = s /\ k = l),
           u.head # NULL => l \in occ'[s]
    PROVE  HeldAreOccupied'
<1>1. lvl \in Tables
  BY Facts
<1>2. ASSUME NEW t \in Side, NEW k \in Level, lvl'[t][k].head # NULL
      PROVE  k \in occ'[t]
  <2>1. CASE t = s /\ k = l
    <3>1. lvl'[s][l] = u
      BY <1>1 DEF Tables
    <3> QED BY <1>2, <2>1, <3>1
  <2>2. CASE ~(t = s /\ k = l)
    <3>1. lvl'[t][k] = lvl[t][k]
      BY <1>1, <2>2 DEF Tables
    <3> QED BY <1>2, <2>2, <3>1 DEF HeldAreOccupied
  <2> QED BY <2>1, <2>2
<1> QED BY <1>2 DEF HeldAreOccupied

\* A level that holds orders has a total, if the total fits.
LEMMA TotalShows ==
    ASSUME NEW r, Slots(r), NEW p \in Pools, NEW t, AreFifos(r, p, t),
           NEW s \in Side, NEW l \in Level, t[s][l].head # NULL,
           TotalQty(SlotsAt(r, p, s, l), p) <= MaxLevelQty
    PROVE  t[s][l].qty # 0
<1> DEFINE a == SlotsAt(r, p, s, l)
           x == t[s][l].head
<1>1. IsFifo(a, p, t[s][l]) /\ Slots(a) /\ Records(a, p)
  BY LevelSlots DEF AreFifos
<1>2. x \in a
  BY <1>1 DEF IsFifo
<1>3. IsFiniteSet(a) /\ IsFiniteSet(a \ {x})
  <2>1. Slots(a \ {x})
    BY <1>1 DEF Slots
  <2> QED BY <1>1, <2>1, SlotsFinite
<1>4. p[x].qty \in Qty /\ p[x].qty > 0
  <2>1. x \in Slot
    BY <1>1, <1>2 DEF Slots
  <2>2. p[x].qty \in Qty
    BY <2>1 DEF Pools, OrderRec
  <2> QED BY <1>1, <1>2, <2>2 DEF IsFifo
<1>6. t[s][l].qty = TotalQty(a, p) % (MaxLevelQty + 1)
  BY <1>1 DEF IsFifo
<1>7. TotalQty(a, p) <= MaxLevelQty
  OBVIOUS
<1> HIDE DEF a, x
<1>5. TotalQty(a, p) = TotalQty(a \ {x}, p) + p[x].qty /\ TotalQty(a \ {x}, p) \in Nat
  <2>1. TotalQty(a, p) = TotalQty(a \ {x}, p) + p[x].qty
    BY <1>2, <1>3, <1>4, TotalMinus
  <2>2. TotalQty(a \ {x}, p) \in Nat
    BY <1>3, TotalTyped
  <2> QED BY <2>1, <2>2
<1> DEFINE n == TotalQty(a, p)
<1>8. n \in Nat /\ n > 0 /\ n <= MaxLevelQty
  BY <1>4, <1>5, <1>7 DEF Qty
<1> HIDE DEF n
<1>9. n % (MaxLevelQty + 1) = n
  BY <1>8
<1> QED BY <1>6, <1>8, <1>9 DEF n

\* The manager's writes of a level.
LEMMA ManagerMarksAll ==
    ASSUME Sound, HeldAreOccupied, TotalsFit', MgrStep, UNCHANGED <<matVars, ctlVars>>
    PROVE  HeldAreOccupied'
<1>0. /\ mgr # "IDLE" /\ mr \in MgrRegs /\ ManagerLatches /\ Bpe!InitDone
      /\ mr.order.side \in Side /\ mr.order.price \in Level
      /\ Resting = Mapped \ InHand
  BY ManagerSteps, ManagerRests, ManagerFacts DEF Sound, MgrRegs, OrderRec
<1>1. CASE LookupMiss \/ LookupHit \/ LatchQuery \/ LatchReject \/ LatchOrder \/ CanBegin
             \/ SpWrNext2 \/ DelHash \/ DelCommit \/ ExTrade \/ MgrAck \/ EnqGetSlot
             \/ EnqHashHit \/ EnqHashMiss \/ EnqRollback \/ ReLvl \/ LvlRead \/ TailLink
             \/ EnqDone
  <2>1. lvl' = lvl /\ occ' = occ
    BY <1>1 DEF LookupMiss, LookupHit, LatchQuery, LatchReject, LatchOrder, CanBegin,
                SpWrNext2, DelHash, DelCommit, ExTrade, MgrAck, EnqGetSlot, EnqHashHit,
                EnqHashMiss, EnqRollback, ReLvl, LvlRead, TailLink, EnqDone, bpeVars
  <2> QED BY <1>0, <2>1 DEF HeldAreOccupied
<1>2. CASE WrEmpty
  <2>1. /\ lvl' = [lvl EXCEPT ![cmd.side][cmd.price] =
                     [head |-> mr.slot, tail |-> mr.slot, qty |-> LevelPlus(0, cmd.qty)]]
        /\ Bpe!Edge(Bpe!SetPulse(cmd.side, cmd.price)) /\ mgr \in Linking
    BY <1>2 DEF WrEmpty, WriteLevel, Linking
  <2>2. cmd.side \in Side /\ cmd.price \in Level
    BY <2>1, LinkFacts DEF CmdRec
  <2>3. /\ \A t \in Side : \A k \in occ[t] : k \in occ'[t]
        /\ cmd.price \in occ'[cmd.side]
    BY <2>1, <2>2, PulseMarks
  <2> QED BY <1>0, <2>1, <2>2, <2>3, OneLevelHeld
<1>3. CASE SpWrNext
  <2> DEFINE s == mr.order.side
             l == mr.order.price
  <2>1. /\ lvl' = [lvl EXCEPT ![s][l] = mr.new] /\ mgr = "SP_WR_NEXT"
        /\ IF mr.new.qty = 0 THEN Bpe!Edge(Bpe!ClearPulse(s, l)) ELSE occ' = occ
    BY <1>3 DEF SpWrNext, WriteLevel, bpeVars
  <2>2. \A t \in Side : \A k \in occ[t] : k \in occ'[t] \/ (t = s /\ k = l)
    BY <1>0, <2>1, PulseMarks
  <2>3. lvl'[s][l] = mr.new
    BY <1>0, <2>1, Facts DEF Tables
  <2>4. l \in occ[s]
    <3>1. mr.slot # NULL /\ ids[cmd.id] = mr.slot /\ mr.order = pool[mr.slot]
      BY <1>0, <2>1 DEF ManagerLatches
    <3>2. cmd.id \in Ids
      BY <1>0, ManagerRests DEF CmdRec
    <3>3. Resting = Mapped /\ View = pool
      BY <1>0, <2>1 DEF InHand, View, Deleting, Linking
    <3>4. mr.slot \in SlotsAt(Resting, View, s, l)
      BY <3>1, <3>2, <3>3 DEF Mapped, SlotsAt
    <3>5. lvl[s][l].head # NULL
      BY <1>0, <3>4, Facts, NullHeadNothing
    <3> QED BY <1>0, <3>5 DEF HeldAreOccupied
  <2>5. mr.new.head # NULL => mr.new.qty # 0
    <3>1. BookKept /\ Resting' = Resting \ {mr.slot}
      BY <1>3, SpliceUnlinks
    <3>2. AreFifos(Resting', View', lvl') /\ Slots(Resting')
      BY <3>1, Facts DEF BookKept, QueuesAreFifos, Slots
    <3>3. View' \in Pools
      <4>1. IInv' /\ View' = IF mr.order.next # NULL
                               THEN [pool' EXCEPT ![mr.order.next].prev = mr.order.prev]
                               ELSE pool'
        <5>1. mgr' = "SP_WR_NEXT2" /\ mr' = mr
          BY <1>3 DEF SpWrNext, Goto
        <5>2. [Next]_vars
          BY DEF Next, EngineStep
        <5> QED BY <5>1, <5>2, EngineKeeps DEF View, Sound
      <4>2. pool' \in Pools /\ mr.order.next \in Slot /\ mr.order.prev \in Slot
        BY <1>0, <4>1 DEF IInv, TypeOK, MemoryTypeOK, Pools, MgrRegs, OrderRec
      <4>3. [pool' EXCEPT ![mr.order.next].prev = mr.order.prev] \in Pools
        BY <4>2 DEF Pools, OrderRec
      <4> QED BY <4>1, <4>2, <4>3
    <3>4. TotalQty(SlotsAt(Resting', View', s, l), View') <= MaxLevelQty
      BY <1>0 DEF TotalsFit
    <3> QED BY <1>0, <2>3, <3>2, <3>3, <3>4, TotalShows
  <2>6. mr.new.qty # 0 => l \in occ'[s]
    BY <2>1, <2>4
  <2> HIDE DEF s, l
  <2> QED BY <1>0, <2>1, <2>2, <2>5, <2>6, OneLevelHeld DEF s, l
<1>4. CASE ModQtyWr \/ ExPartial
  <2>1. PICK total :
          /\ lvl' = [lvl EXCEPT ![mr.order.side][mr.order.price] = [mr.level EXCEPT !.qty = total]]
          /\ occ' = occ /\ mgr \in {"MOD_QTY_WR", "EX_PARTIAL"}
    BY <1>4 DEF ModQtyWr, ExPartial, Requantify, WriteLevel, bpeVars
  <2>2. mr.level = lvl[mr.order.side][mr.order.price] /\ mr.level \in LevelRec
    BY <1>0, <2>1 DEF ManagerLatches, MgrRegs
  <2>3. [mr.level EXCEPT !.qty = total].head = mr.level.head
    BY <2>2 DEF LevelRec
  <2>4. mr.level.head # NULL => mr.order.price \in occ[mr.order.side]
    BY <1>0, <2>2 DEF HeldAreOccupied
  <2> QED BY <1>0, <2>1, <2>3, <2>4, OneLevelHeld
<1>5. CASE TailLink2
  <2>1. /\ lvl' = [lvl EXCEPT ![cmd.side][cmd.price] =
                     [head |-> Target.head, tail |-> mr.slot,
                      qty |-> LevelPlus(Target.qty, cmd.qty)]]
        /\ occ' = occ /\ mgr = "TAIL2"
    BY <1>5 DEF TailLink2, WriteLevel, bpeVars
  <2>2. /\ cmd.side \in Side /\ cmd.price \in Level
        /\ Target = lvl[cmd.side][cmd.price] /\ Target.head # NULL
    BY <1>0, <2>1, LinkFacts DEF CmdRec, Linking, ManagerLatches
  <2>3. cmd.price \in occ[cmd.side]
    BY <1>0, <2>2 DEF HeldAreOccupied
  <2> QED BY <1>0, <2>1, <2>2, <2>3, OneLevelHeld
<1> QED BY <1>1, <1>2, <1>3, <1>4, <1>5 DEF MgrStep

\* The matcher's writes of a level.
LEMMA MatcherMarksAll ==
    ASSUME Sound, HeldAreOccupied, UNCHANGED <<mgrVars, ctlVars>>,
           NEW s \in Side, Consumes(s)
    PROVE  HeldAreOccupied'
<1> DEFINE x == xr.level[s].head
           l == BestOf(s)
<1>1. mat # "M_IDLE" /\ Latched(s) /\ Consume(s)
  BY ConsumingFacts
<1>2. Bpe!InitDone
  BY <1>1, MatcherRests
<1>3. l \in Level /\ xr.level[s] = lvl[s][l] /\ xr.level[s].head # NULL
  BY <1>1, LatchedFacts
<1>4. /\ lvl' = [lvl EXCEPT ![s][l] = LevelAfter(s)]
      /\ IF Filled(s) /\ xr.order[s].next = NULL
           THEN Bpe!Edge(Bpe!ClearPulse(s, l)) ELSE occ' = occ
  BY <1>1 DEF Consume, WriteLevel, ClearIfEmptied, bpeVars
<1>5. \A t \in Side : \A k \in occ[t] : k \in occ'[t] \/ (t = s /\ k = l)
  BY <1>4, PulseMarks
<1>6. l \in occ[s]
  BY <1>2, <1>3 DEF HeldAreOccupied
<1>7. LevelAfter(s).head = IF Filled(s) THEN xr.order[s].next ELSE xr.level[s].head
  BY DEF LevelAfter
<1> QED BY <1>2, <1>3, <1>4, <1>5, <1>6, <1>7, OneLevelHeld

\* Every level that holds orders is marked.
LEMMA MarksComplete ==
    ASSUME Sound, ScopeOfBook, HeldAreOccupied, TotalsFit', [Next]_vars
    PROVE  HeldAreOccupied'
<1>1. ASSUME lvl' = lvl, Bpe!InitDone' => Bpe!InitDone /\ occ' = occ
      PROVE  HeldAreOccupied'
  BY <1>1 DEF HeldAreOccupied
<1>2. CASE (\E c \in Command : Accept(c)) \/ CtlStep \/ MemInit \/ UNCHANGED vars
  <2>1. UNCHANGED <<lvl, occ, initIdx>>
    BY <1>2, ControllerKeepsBook DEF Accept, MemInit, Others, vars, bpeVars
  <2> QED BY <1>1, <2>1 DEF Bpe!InitDone
<1>3. CASE MgrStep /\ UNCHANGED <<matVars, ctlVars>>
  BY <1>3, ManagerMarksAll
<1>4. CASE MatStep /\ UNCHANGED <<mgrVars, ctlVars>>
  <2>1. CASE \E s \in Side : Consumes(s)
    BY <1>4, <2>1, MatcherMarksAll
  <2>2. CASE \E s \in Side : Forgets(s)
    <3>1. UNCHANGED <<lvl, occ, initIdx>>
      BY <1>4, <2>2, ForgettingFacts DEF DropMapping, bpeVars
    <3> QED BY <1>1, <3>1 DEF Bpe!InitDone
  <2>3. CASE MCheck \/ MTrade \/ FCheck \/ FTrade \/ MDone
    <3>1. UNCHANGED <<lvl, occ, initIdx>>
      BY <2>3 DEF MCheck, MTrade, FCheck, FTrade, MDone, bpeVars
    <3> QED BY <1>1, <3>1 DEF Bpe!InitDone
  <2> QED BY <1>4, <2>1, <2>2, <2>3, MatcherCases
<1>5. CASE EncoderInit
  <2>1. lvl' = lvl /\ BookEmpty
    BY <1>5 DEF EncoderInit, Bpe!InitEdge, Others, Sound, BookInv, EmptyUntilReady
  <2> QED BY <2>1 DEF HeldAreOccupied, BookEmpty, ZeroLevel
<1>6. CASE Scan
  <2>1. Bpe!IdleEdge /\ Bpe!InitDone /\ lvl' = lvl
    BY <1>6 DEF Scan, Bpe!IdleEdge, Bpe!Edge, Others
  <2>2. \A t \in Side : occ'[t] = occ[t]
    BY <2>1, PulseMarks
  <2> QED BY <2>1, <2>2 DEF HeldAreOccupied
<1>7. CASE Reset
  BY <1>7 DEF Reset, Bpe!Reset, Bpe!InitDone, HeldAreOccupied
<1> QED BY <1>2, <1>3, <1>4, <1>5, <1>6, <1>7, SmallSteps

\* Every level that holds orders stays marked.
LEMMA MarksAlwaysComplete ==
    ASSUME ScopeOfBook PROVE Spec /\ []TotalsFit => []HeldAreOccupied
<1>1. Init => HeldAreOccupied
  BY DEF Init, HeldAreOccupied, Bpe!InitDone
<1>2. Sound /\ HeldAreOccupied /\ TotalsFit' /\ [Next]_vars => HeldAreOccupied'
  BY MarksComplete
<1> QED BY <1>1, <1>2, SoundAlways, PTL DEF Spec

\* With complete marks a quiet engine shows and matches on the book's prices.
LEMMA BestFollows == Sound /\ HeldAreOccupied => BestIsTheBooks
<1> DEFINE held(s) == {l \in Level : lvl[s][l].head # NULL}
<1> SUFFICES ASSUME Sound, HeldAreOccupied, Quiet
             PROVE  /\ ~Bpe!RefreshBusy
                    /\ \A s \in Side :
                         /\ occ[s] = held(s)
                         /\ best[s].valid <=> held(s) # {}
                         /\ best[s].valid => /\ BestOf(s) \in held(s)
                                             /\ \A l \in held(s) : ~Better(s, l, BestOf(s))
                    /\ \A b \in held("BUY"), a \in held("SELL") : b < a
  BY DEF BestIsTheBooks
<1>1. ctl \in {"C_IDLE", "C_ACK"} /\ Bpe!InitDone
  BY DEF Quiet
<1>2. \A s \in Side : ~Bpe!Busy(s)
  BY <1>1 DEF Sound, IInv, SettledWhenUsed, MayScan
<1>3. ~Bpe!RefreshBusy
  BY <1>1, <1>2 DEF Bpe!RefreshBusy
<1>4. \A s \in Side : occ[s] = held(s)
  <2>1. \A s \in Side : occ[s] \subseteq Level
    BY DEF Sound, Bpe!IInv, Bpe!TypeOK
  <2> QED BY <1>1, <2>1 DEF Sound, BookInv, OccupiedAreHeld, HeldAreOccupied
<1>5. \A b \in occ["BUY"], a \in occ["SELL"] : b < a
  BY <1>1 DEF Sound, BookInv, Uncrossed, MayCross
<1>6. ASSUME NEW s \in Side
      PROVE  /\ best[s].valid <=> occ[s] # {}
             /\ best[s].valid => /\ BestOf(s) \in occ[s]
                                 /\ \A l \in occ[s] : ~Better(s, l, BestOf(s))
  <2>1. best[s].valid => BestOf(s) \in occ[s] /\ \A l \in occ[s] : ~Better(s, l, BestOf(s))
    BY <1>1, ValidIsBest DEF Sound
  <2>2. ~best[s].valid => occ[s] = {}
    BY <1>1, <1>2 DEF Sound, Bpe!IInv, Bpe!SettledIsBest
  <2> QED BY <2>1, <2>2
<1> HIDE DEF held
<1> QED BY <1>3, <1>4, <1>5, <1>6

\* The best prices are the book's, as long as no total overflows.
THEOREM BestPricesAreTheBooks ==
    ASSUME ScopeOfBook PROVE Spec /\ []TotalsFit => []BestIsTheBooks
BY BestFollows, SoundAlways, MarksAlwaysComplete, PTL

\* With complete marks the matcher has the oldest order at the best price.
LEMMA PriorityFollows == Sound /\ HeldAreOccupied => PriceTimePriority
<1> SUFFICES ASSUME Sound, HeldAreOccupied, NEW s \in Side, Trading(s),
                    NEW z \in Resting, pool[z].side = s, pool[z] # xr.order[s]
             PROVE  \/ Better(s, xr.order[s].price, pool[z].price)
                    \/ /\ xr.order[s].price = pool[z].price
                       /\ xr.order[s].ts < pool[z].ts
  BY DEF PriceTimePriority
<1> DEFINE x == xr.level[s].head
           p == pool[z].price
           a == SlotsAt(Resting, pool, s, p)
<1>1. mat # "M_IDLE" /\ MatcherLatches
  BY DEF Trading, Sound, BookInv
<1>2. Latched(s) /\ Bpe!InitDone /\ View = pool
  BY <1>1, MatcherRests DEF Trading, MatcherLatches
<1>3. /\ BestOf(s) \in Level /\ xr.level[s] = lvl[s][BestOf(s)] /\ xr.order[s] = pool[x]
      /\ pool[x].price = BestOf(s) /\ best[s].valid
  BY <1>1, <1>2, LatchedFacts DEF Latched
<1>4. p \in Level /\ z \in a /\ z # x
  BY <1>3, Facts DEF OrderRec, SlotsAt
<1>5. IsFifo(a, pool, lvl[s][p]) /\ Slots(a) /\ Records(a, pool)
  BY <1>2, <1>4, Facts, LevelSlots DEF AreFifos
<1>6. lvl[s][p].head # NULL
  BY <1>2, <1>4, Facts, NullHeadNothing
<1>7. p \in occ[s]
  BY <1>2, <1>4, <1>6 DEF HeldAreOccupied
<1>8. ~Better(s, p, BestOf(s))
  BY <1>2, <1>3, <1>7, ValidIsBest DEF Sound
<1>9. p = BestOf(s) => pool[x].ts < pool[z].ts
  <2> SUFFICES ASSUME p = BestOf(s) PROVE pool[x].ts < pool[z].ts
    OBVIOUS
  <2>1. x = lvl[s][p].head
    BY <1>3
  <2> HIDE DEF x, p, a
  <2> QED BY <1>4, <1>5, <2>1, HeadIsOldest
<1>10. p # BestOf(s) => Better(s, BestOf(s), p)
  BY <1>3, <1>4, <1>8 DEF Better
<1> HIDE DEF x
<1> QED BY <1>3, <1>9, <1>10

\* Every trade is with the oldest order at the best price of its side.
THEOREM TradesInPriority ==
    ASSUME ScopeOfBook PROVE Spec /\ []TotalsFit => []PriceTimePriority
BY PriorityFollows, SoundAlways, MarksAlwaysComplete, PTL
=============================================================================
