-------------------------- MODULE BoardHostProofs --------------------------
(***************************************************************************)
(* Two properties of the programs that talk to the board over UDP, whatever  *)
(* programs ran before.                                                      *)
(*                                                                           *)
(* What the prompt shows, while the network loses nothing: the               *)
(* acknowledgement of the command just typed, and a line for each of its     *)
(* trades.  print_execution_reports puts the reports of any sequence of      *)
(* trades together again, one line per trade, although it sees one report at *)
(* a time (PromptShowsItsAnswer).                                            *)
(*                                                                           *)
(* What a stress test that passes has seen, whatever the network lost,       *)
(* delayed or reordered: the board's book is the reference's                 *)
(* (PassedTestsAgree).  The reference's book and the board's are shown to    *)
(* follow each other command by command, with the lemmas of the feed's book  *)
(* (Feed); an acknowledgement that is compared and equal is the one of the   *)
(* command last sent; and a first addition that a board counts one order     *)
(* after was made to an empty board.                                         *)
(***************************************************************************)
EXTENDS BoardHost, FiniteSetTheorems, WellFoundedInduction, SequenceTheorems, TLAPS

-----------------------------------------------------------------------------
(* Recursion along a sequence.                                               *)

\* A nonempty set of naturals has a least element.
LEMMA LeastNatural ==
    ASSUME NEW T, T \subseteq Nat, T # {}
    PROVE  \E m \in T : \A n \in T : m <= n
<1> DEFINE R == OpToRel(<, Nat)
<1>1. IsWellFoundedOn(R, Nat)
  BY NatLessThanWellFounded
<1>2. PICK m \in T : \A n \in T : <<n, m>> \notin R
  <2> HIDE DEF R
  <2> QED BY <1>1, WFMin
<1>3. ASSUME NEW n \in T PROVE m <= n
  <2>1. <<n, m>> \notin R
    BY <1>2
  <2>2. ~(n < m)
    BY <2>1 DEF OpToRel
  <2> QED BY <2>2
<1> QED BY <1>2, <1>3

\* Three things go on step by step: reports are appended trade by trade, lines are
\* printed report by report, and the board matches round by round.
Start3(w) ==
    CASE w.of = "reports" -> <<>>
      [] w.of = "lines"   -> [out |-> <<>>, held |-> <<>>]
      [] OTHER            -> [book |-> w.book, trades |-> <<>>]

Step3(w, n, x) ==
    CASE w.of = "reports" -> x \o TradeReports(w.made[n], w.first + Len(x))
      [] w.of = "lines"   -> PrintNext(x, w.reps[n])
      [] OTHER            -> Board!Round(x)

\* What has come of them after any number of steps is a function of that number.
LEMMA StepsExist ==
    ASSUME NEW w, NEW k \in Nat
    PROVE  \E f : f = [n \in 0 .. k |-> IF n = 0 THEN Start3(w) ELSE Step3(w, n, f[n - 1])]
<1> DEFINE good(j) == \E f : f = [n \in 0 .. j |->
                                    IF n = 0 THEN Start3(w) ELSE Step3(w, n, f[n - 1])]
           Bad     == {j \in Nat : ~good(j)}
<1>1. good(0)
  <2> DEFINE f == [n \in 0 .. 0 |-> Start3(w)]
  <2>1. f = [n \in 0 .. 0 |-> IF n = 0 THEN Start3(w) ELSE Step3(w, n, f[n - 1])]
    OBVIOUS
  <2> QED BY <2>1
<1>2. ASSUME NEW j \in Nat, good(j) PROVE good(j + 1)
  <2>1. PICK g : g = [n \in 0 .. j |-> IF n = 0 THEN Start3(w) ELSE Step3(w, n, g[n - 1])]
    BY <1>2
  <2> DEFINE f == [n \in 0 .. j + 1 |-> IF n = j + 1 THEN Step3(w, n, g[j]) ELSE g[n]]
  <2>2. ASSUME NEW n \in 0 .. j + 1
        PROVE  f[n] = IF n = 0 THEN Start3(w) ELSE Step3(w, n, f[n - 1])
    <3>1. CASE n = j + 1
      <4>1. j \in 0 .. j + 1 /\ j # j + 1 /\ n - 1 = j /\ n # 0
        BY <3>1
      <4>2. f[j] = g[j] /\ f[n] = Step3(w, n, g[j])
        BY <3>1, <4>1
      <4> HIDE DEF f
      <4> QED BY <4>1, <4>2
    <3>2. CASE n \in 1 .. j
      <4>1. n - 1 \in 0 .. j /\ n \in 0 .. j /\ n # 0 /\ n # j + 1 /\ n - 1 # j + 1
        BY <3>2
      <4>2. g[n] = Step3(w, n, g[n - 1])
        BY <2>1, <4>1
      <4>3. f[n] = g[n] /\ f[n - 1] = g[n - 1]
        BY <4>1
      <4> HIDE DEF f
      <4> QED BY <4>1, <4>2, <4>3
    <3>3. CASE n = 0
      <4>1. g[0] = Start3(w)
        BY <2>1
      <4>2. f[0] = g[0]
        OBVIOUS
      <4> HIDE DEF f
      <4> QED BY <3>3, <4>1, <4>2
    <3> QED BY <3>1, <3>2, <3>3
  <2>3. f = [n \in 0 .. j + 1 |-> f[n]]
    OBVIOUS
  <2> HIDE DEF f
  <2>4. f = [n \in 0 .. j + 1 |-> IF n = 0 THEN Start3(w) ELSE Step3(w, n, f[n - 1])]
    BY <2>2, <2>3
  <2> QED BY <2>4
<1> HIDE DEF good
<1>3. Bad = {}
  <2> SUFFICES ASSUME Bad # {} PROVE FALSE
    OBVIOUS
  <2>1. PICK j \in Bad : \A n \in Bad : j <= n
    BY LeastNatural
  <2>2. j # 0
    BY <1>1
  <2>3. j - 1 \in Nat /\ j = (j - 1) + 1
    BY <2>2
  <2>4. good(j - 1)
    BY <2>1, <2>3
  <2>5. good(j)
    BY <1>2, <2>3, <2>4
  <2> QED BY <2>5
<1>4. good(k)
  BY <1>3
<1> QED BY <1>4 DEF good

-----------------------------------------------------------------------------
(* The reports of a sequence of trades.                                      *)

\* A sequence, of whatever.
Sequence(s) == \E S : s \in Seq(S)

\* f[n] is the reports of the first n trades.
Reporting(f, made, first) ==
    /\ f[0] = <<>>
    /\ \A n \in 1 .. Len(made) :
         f[n] = f[n - 1] \o TradeReports(made[n], first + Len(f[n - 1]))

\* Reports are made trade by trade.
LEMMA ReportsAre ==
    ASSUME NEW made, Len(made) \in Nat, NEW first
    PROVE  \E f : Reporting(f, made, first) /\ AllReports(made, first) = f[Len(made)]
<1> DEFINE w == [of |-> "reports", made |-> made, first |-> first]
           k == Len(made)
           body(g) == [n \in 0 .. k |->
                         IF n = 0 THEN <<>>
                         ELSE LET reps == g[n - 1]
                              IN  reps \o TradeReports(made[n], first + Len(reps))]
           f == CHOOSE g : g = body(g)
<1>1. Start3(w) = <<>>
  BY DEF Start3
<1>2. \A n, x : Step3(w, n, x) = x \o TradeReports(made[n], first + Len(x))
  BY DEF Step3
<1>3. AllReports(made, first) = f[k]
  BY DEF AllReports
<1> HIDE DEF w
<1>4. f = body(f)
  <2>1. PICK g : g = [n \in 0 .. k |-> IF n = 0 THEN Start3(w) ELSE Step3(w, n, g[n - 1])]
    BY StepsExist
  <2>2. \A n \in 0 .. k : (IF n = 0 THEN Start3(w) ELSE Step3(w, n, g[n - 1])) = body(g)[n]
    BY <1>1, <1>2
  <2>3. g = body(g)
    BY <2>1, <2>2
  <2> QED BY <2>3
<1>5. f[0] = <<>>
  <2>1. 0 \in 0 .. k
    OBVIOUS
  <2> QED BY <1>4, <2>1
<1>6. ASSUME NEW n \in 1 .. k
      PROVE  f[n] = f[n - 1] \o TradeReports(made[n], first + Len(f[n - 1]))
  <2>1. n \in 0 .. k /\ n # 0
    OBVIOUS
  <2> QED BY <1>4, <2>1
<1> HIDE DEF f
<1>7. Reporting(f, made, first)
  BY <1>5, <1>6 DEF Reporting
<1> QED BY <1>3, <1>7

\* Lines are printed report by report.
LEMMA LinesAre ==
    ASSUME NEW reps, Len(reps) \in Nat
    PROVE  \E u : /\ u[0] = [out |-> <<>>, held |-> <<>>]
                  /\ \A n \in 1 .. Len(reps) : u[n] = PrintNext(u[n - 1], reps[n])
                  /\ u[Len(reps)].held = <<>> => Printed(reps) = u[Len(reps)].out
<1> DEFINE w == [of |-> "lines", reps |-> reps]
           k == Len(reps)
           body(g) == [n \in 0 .. k |-> IF n = 0 THEN [out |-> <<>>, held |-> <<>>]
                                               ELSE PrintNext(g[n - 1], reps[n])]
           u == CHOOSE g : g = body(g)
<1>1. Start3(w) = [out |-> <<>>, held |-> <<>>]
  BY DEF Start3
<1>2. \A n, x : Step3(w, n, x) = PrintNext(x, reps[n])
  BY DEF Step3
<1>3. u[k].held = <<>> => Printed(reps) = u[k].out
  BY DEF Printed
<1> HIDE DEF w
<1>4. u = body(u)
  <2>1. PICK g : g = [n \in 0 .. k |-> IF n = 0 THEN Start3(w) ELSE Step3(w, n, g[n - 1])]
    BY StepsExist
  <2>2. \A n \in 0 .. k : (IF n = 0 THEN Start3(w) ELSE Step3(w, n, g[n - 1])) = body(g)[n]
    BY <1>1, <1>2
  <2>3. g = body(g)
    BY <2>1, <2>2
  <2> QED BY <2>3
<1>5. u[0] = [out |-> <<>>, held |-> <<>>]
  <2>1. 0 \in 0 .. k
    OBVIOUS
  <2> QED BY <1>4, <2>1
<1>6. ASSUME NEW n \in 1 .. k PROVE u[n] = PrintNext(u[n - 1], reps[n])
  <2>1. n \in 0 .. k /\ n # 0
    OBVIOUS
  <2> QED BY <1>4, <2>1
<1> HIDE DEF u
<1> QED BY <1>3, <1>5, <1>6

\* The places of a book are finitely many.
LEMMA PlacesFinite ==
    ASSUME NEW b
    PROVE  IsFiniteSet(Board!Places(b))
<1>1. IsFiniteSet(Side) /\ IsFiniteSet(Level) /\ IsFiniteSet(1 .. BoardOrders - 1)
  <2>1. IsFiniteSet({"BUY", "SELL"})
    <3>1. IsFiniteSet({"SELL"} \union {"BUY"})
      BY FS_Singleton, FS_AddElement
    <3>2. {"SELL"} \union {"BUY"} = {"BUY", "SELL"}
      OBVIOUS
    <3> QED BY <3>1, <3>2
  <2> QED BY <2>1, FS_Interval, NumLevelsAssumption, BoardAssumption DEF Side, Level
<1>2. IsFiniteSet(Side \X Level)
  BY <1>1, FS_Product
<1>3. IsFiniteSet((Side \X Level) \X (1 .. BoardOrders - 1))
  BY <1>1, <1>2, FS_Product
<1> DEFINE N == (Side \X Level) \X (1 .. BoardOrders - 1)
           T == Side \X Level \X (1 .. BoardOrders - 1)
           g == [x \in N |-> <<x[1][1], x[1][2], x[2]>>]
<1>4. g \in Surjection(N, T)
  <2>1. ASSUME NEW t \in T PROVE \E x \in N : g[x] = t
    <3>1. <<<<t[1], t[2]>>, t[3]>> \in N /\ t = <<t[1], t[2], t[3]>>
      OBVIOUS
    <3> QED BY <3>1
  <2>2. \A x \in N : g[x] \in T
    OBVIOUS
  <2> QED BY <2>1, <2>2 DEF Surjection
<1>5. IsFiniteSet(T)
  BY <1>3, <1>4, FS_Surjection
<1>6. Board!Places(b) \subseteq T
  BY DEF Board!Places, Board!Side, Board!Level, Side, Level
<1> QED BY <1>5, <1>6, FS_Subset

\* The board matches round by round.
LEMMA RoundsAre ==
    ASSUME NEW b
    PROVE  \E f : LET k == Board!Cardinality(Board!Places(b)) IN
             /\ k \in Nat /\ f[0] = [book |-> b, trades |-> <<>>] /\ Board!Match(b) = f[k]
             /\ \A n \in 1 .. k : f[n] = Board!Round(f[n - 1])
<1> DEFINE w == [of |-> "rounds", book |-> b]
           k == Board!Cardinality(Board!Places(b))
           body(g) == [n \in 0 .. k |-> IF n = 0 THEN [book |-> b, trades |-> <<>>]
                                               ELSE Board!Round(g[n - 1])]
           f == CHOOSE g : g = body(g)
<1>1. Start3(w) = [book |-> b, trades |-> <<>>]
  BY DEF Start3
<1>2. \A n, x : Step3(w, n, x) = Board!Round(x)
  BY DEF Step3
<1>3. Board!Match(b) = f[k]
  BY DEF Board!Match
<1> HIDE DEF w
<1>7. k \in Nat
  <2>7. IsFiniteSet(Board!Places(b))
    BY PlacesFinite
  <2>8. \A S : Board!Cardinality(S) = Cardinality(S)
    BY DEF Board!Cardinality, Cardinality
  <2> QED BY <2>7, <2>8, FS_CardinalityType
<1>4. f = body(f)
  <2>1. PICK g : g = [n \in 0 .. k |-> IF n = 0 THEN Start3(w) ELSE Step3(w, n, g[n - 1])]
    BY <1>7, StepsExist
  <2>2. \A n \in 0 .. k : (IF n = 0 THEN Start3(w) ELSE Step3(w, n, g[n - 1])) = body(g)[n]
    BY <1>1, <1>2
  <2>3. g = body(g)
    BY <2>1, <2>2
  <2> QED BY <2>3
<1>5. f[0] = [book |-> b, trades |-> <<>>]
  <2>1. 0 \in 0 .. k
    BY <1>7
  <2> QED BY <1>4, <2>1
<1>6. ASSUME NEW n \in 1 .. k PROVE f[n] = Board!Round(f[n - 1])
  <2>1. n \in 0 .. k /\ n # 0
    BY <1>7
  <2> QED BY <1>4, <2>1
<1> HIDE DEF f
<1> QED BY <1>3, <1>5, <1>6, <1>7

-----------------------------------------------------------------------------
(* What is printed.                                                          *)

\* A sequence grows by an element,
LEMMA Grows ==
    ASSUME NEW s, Sequence(s), NEW e
    PROVE  /\ Sequence(Append(s, e)) /\ Len(s) \in Nat /\ Len(Append(s, e)) = Len(s) + 1
           /\ DOMAIN s = 1 .. Len(s)
           /\ \A i \in 1 .. Len(s) : Append(s, e)[i] = s[i]
           /\ Append(s, e)[Len(s) + 1] = e
<1>1. PICK S : s \in Seq(S)
  BY DEF Sequence
<1> DEFINE T == S \union {e}
<1>2. s \in Seq(T) /\ e \in T
  BY <1>1
<1> HIDE DEF T
<1>3. Append(s, e) \in Seq(T)
  BY <1>2
<1> QED BY <1>2, <1>3 DEF Sequence

\* or by another sequence.
LEMMA Joins ==
    ASSUME NEW s, Sequence(s), NEW t, Sequence(t)
    PROVE  /\ Sequence(s \o t) /\ Len(s) \in Nat /\ Len(t) \in Nat
           /\ Len(s \o t) = Len(s) + Len(t)
           /\ \A i \in 1 .. Len(s) : (s \o t)[i] = s[i]
           /\ \A i \in 1 .. Len(t) : (s \o t)[Len(s) + i] = t[i]
<1>1. PICK S : s \in Seq(S)
  BY DEF Sequence
<1>2. PICK U : t \in Seq(U)
  BY DEF Sequence
<1> DEFINE T == S \union U
<1>3. s \in Seq(T) /\ t \in Seq(T)
  BY <1>1, <1>2
<1> HIDE DEF T
<1>4. s \o t \in Seq(T)
  BY <1>3
<1> QED BY <1>3, <1>4 DEF Sequence

\* The line of a trade.
Line(t) ==
    IF t.buy # NoId /\ t.sell # NoId
    THEN <<"TRADE", t.buy, t.sell, t.price, t.qty>>
    ELSE <<"EXTERNAL", IF t.buy # NoId THEN t.buy ELSE t.sell, t.price, t.qty>>

\* The reports of one trade print its line and leave nothing held.
LEMMA TradeLine ==
    ASSUME NEW t, NEW seq, NEW out
    PROVE  LET reps == TradeReports(t, seq)
               a    == PrintNext([out |-> out, held |-> <<>>], reps[1])
           IN  /\ Sequence(reps)
               /\ \/ Len(reps) = 1 /\ a = [out |-> Append(out, Line(t)), held |-> <<>>]
                  \/ Len(reps) = 2 /\ PrintNext(a, reps[2]) =
                                         [out |-> Append(out, Line(t)), held |-> <<>>]
<1> DEFINE reps == TradeReports(t, seq)
<1>1. CASE t.buy # NoId /\ t.sell # NoId
  <2> DEFINE r == Report("BUY", FALSE, seq, t.buy, t)
             q == Report("SELL", FALSE, seq + 1, t.sell, t)
  <2>1. reps = <<r, q>>
    BY <1>1 DEF TradeReports
  <2>2. /\ r.external = FALSE /\ r.side = "BUY" /\ r.id = t.buy
        /\ r.price = t.price /\ r.qty = t.qty /\ q.side = "SELL" /\ q.id = t.sell
    BY DEF Report
  <2> HIDE DEF r, q
  <2>3. Sequence(<<r, q>>) /\ Len(<<r, q>>) = 2 /\ <<r, q>>[1] = r /\ <<r, q>>[2] = q
    <3>1. <<r, q>> \in Seq({r, q})
      OBVIOUS
    <3> QED BY <3>1 DEF Sequence
  <2>4. Pair(r, q) = Line(t)
    BY <1>1, <2>2 DEF Pair, Line
  <2>5. PrintNext([out |-> out, held |-> <<>>], r) = [out |-> out, held |-> <<r>>]
    BY <2>2 DEF PrintNext
  <2>6. PrintNext([out |-> out, held |-> <<r>>], q)
          = [out |-> Append(out, Pair(r, q)), held |-> <<>>]
    <3>1. <<r>> # <<>> /\ <<r>>[1] = r
      OBVIOUS
    <3> QED BY <3>1 DEF PrintNext
  <2> HIDE DEF reps
  <2> QED BY <2>1, <2>3, <2>4, <2>5, <2>6 DEF reps
<1>2. CASE ~(t.buy # NoId /\ t.sell # NoId)
  <2> DEFINE id == IF t.buy # NoId THEN t.buy ELSE t.sell
             r  == Report(IF t.buy # NoId THEN "BUY" ELSE "SELL", TRUE, seq, id, t)
  <2>1. reps = <<r>>
    BY <1>2 DEF TradeReports
  <2>2. r.external = TRUE /\ r.id = id /\ r.price = t.price /\ r.qty = t.qty
    BY DEF Report
  <2>3. Line(t) = <<"EXTERNAL", id, t.price, t.qty>>
    BY <1>2 DEF Line
  <2> HIDE DEF r, id
  <2>4. Sequence(<<r>>) /\ Len(<<r>>) = 1 /\ <<r>>[1] = r
    <3>1. <<r>> \in Seq({r})
      OBVIOUS
    <3> QED BY <3>1 DEF Sequence
  <2>5. PrintNext([out |-> out, held |-> <<>>], r)
          = [out |-> Append(out, Line(t)), held |-> <<>>]
    BY <2>2, <2>3 DEF PrintNext
  <2> HIDE DEF reps
  <2> QED BY <2>1, <2>4, <2>5 DEF reps
<1> QED BY <1>1, <1>2

\* print_execution_reports puts the trades together again, one line for each.
LEMMA PrintsTheTrades ==
    ASSUME NEW made, Sequence(made), NEW first
    PROVE  /\ Sequence(AllReports(made, first))
           /\ Printed(AllReports(made, first)) = [n \in 1 .. Len(made) |-> Line(made[n])]
<1> DEFINE K == Len(made)
           R == AllReports(made, first)
           X(n, l) == TradeReports(made[n], first + l)
<1>1. K \in Nat
  BY DEF Sequence
<1>2. PICK f : /\ f[0] = <<>> /\ R = f[K]
               /\ \A n \in 1 .. K : f[n] = f[n - 1] \o X(n, Len(f[n - 1]))
  <2>1. Len(made) \in Nat
    BY <1>1
  <2>2. PICK f : Reporting(f, made, first) /\ AllReports(made, first) = f[Len(made)]
    BY <2>1, ReportsAre
  <2> QED BY <2>2 DEF Reporting
<1> HIDE DEF R, K, X
<1>3. \A n, l : Sequence(X(n, l))
  BY TradeLine DEF X
<1> DEFINE prefix(a, b) == /\ Sequence(a) /\ Sequence(b) /\ Len(a) <= Len(b)
                           /\ \A i \in 1 .. Len(a) : b[i] = a[i]
           good(n) == Sequence(f[n]) /\ \A m \in 0 .. n : prefix(f[m], f[n])
           Bad     == {n \in 0 .. K : ~good(n)}
<1>4. good(0)
  <2>1. Sequence(<<>>)
    <3>1. <<>> \in Seq({})
      OBVIOUS
    <3> QED BY <3>1 DEF Sequence
  <2> QED BY <1>2, <2>1
<1>5. ASSUME NEW n \in 0 .. K - 1, good(n) PROVE good(n + 1)
  <2>1. n + 1 \in 1 .. K /\ (n + 1) - 1 = n
    BY <1>1
  <2>2. f[n + 1] = f[n] \o X(n + 1, Len(f[n]))
    BY <1>2, <2>1
  <2>3. /\ Sequence(f[n + 1]) /\ Len(f[n]) \in Nat /\ Len(f[n]) <= Len(f[n + 1])
        /\ \A i \in 1 .. Len(f[n]) : f[n + 1][i] = f[n][i]
    <3> DEFINE x == X(n + 1, Len(f[n]))
    <3>1. Sequence(f[n]) /\ Sequence(x) /\ f[n + 1] = f[n] \o x
      BY <1>3, <1>5, <2>2
    <3> HIDE DEF x
    <3>2. /\ Sequence(f[n + 1]) /\ Len(f[n]) \in Nat /\ Len(x) \in Nat
          /\ Len(f[n + 1]) = Len(f[n]) + Len(x)
          /\ \A i \in 1 .. Len(f[n]) : f[n + 1][i] = f[n][i]
      BY <3>1, Joins
    <3> QED BY <3>2
  <2>4. ASSUME NEW m \in 0 .. n PROVE prefix(f[m], f[n + 1])
    <3>1. prefix(f[m], f[n])
      BY <1>5
    <3>2. Len(f[m]) \in Nat /\ Len(f[n + 1]) \in Nat
      BY <2>3, <3>1, Grows
    <3> QED BY <2>3, <3>1, <3>2
  <2>5. prefix(f[n + 1], f[n + 1])
    BY <2>3, Grows
  <2> QED BY <2>3, <2>4, <2>5
<1> HIDE DEF good
<1>6. Bad = {}
  <2> SUFFICES ASSUME Bad # {} PROVE FALSE
    OBVIOUS
  <2>1. PICK n \in Bad : \A m \in Bad : n <= m
    <3>1. Bad \subseteq Nat
      BY <1>1
    <3> HIDE DEF Bad
    <3> QED BY <3>1, LeastNatural
  <2>2. n # 0
    BY <1>4
  <2>3. n - 1 \in 0 .. K - 1 /\ (n - 1) + 1 = n
    BY <1>1, <2>2
  <2>4. good(n - 1)
    BY <1>1, <2>1, <2>3
  <2> QED BY <1>5, <2>3, <2>4
<1>7. /\ Sequence(R) /\ Len(R) \in Nat
      /\ \A n \in 0 .. K : /\ Sequence(f[n]) /\ Len(f[n]) \in 0 .. Len(R)
                            /\ \A i \in 1 .. Len(f[n]) : R[i] = f[n][i]
  <2>1. good(K)
    BY <1>1, <1>6
  <2>2. Sequence(R) /\ \A n \in 0 .. K : prefix(f[n], R)
    BY <1>2, <2>1 DEF good
  <2>3. \A s : Sequence(s) => Len(s) \in Nat
    BY Grows
  <2> QED BY <2>2, <2>3
<1>8. PICK u : /\ u[0] = [out |-> <<>>, held |-> <<>>]
               /\ \A n \in 1 .. Len(R) : u[n] = PrintNext(u[n - 1], R[n])
               /\ u[Len(R)].held = <<>> => Printed(R) = u[Len(R)].out
  BY <1>7, LinesAre
<1> DEFINE lines(n) == [i \in 1 .. n |-> Line(made[i])]
           right(n) == u[Len(f[n])] = [out |-> lines(n), held |-> <<>>]
           Wrong    == {n \in 0 .. K : ~right(n)}
<1>9. right(0)
  <2>1. Len(f[0]) = 0 /\ lines(0) = <<>>
    BY <1>2
  <2> QED BY <1>8, <2>1
<1>10. ASSUME NEW n \in 0 .. K - 1, right(n) PROVE right(n + 1)
  <2> DEFINE l == Len(f[n])
             x == X(n + 1, l)
             a == PrintNext([out |-> lines(n), held |-> <<>>], x[1])
  <2>1. n + 1 \in 1 .. K /\ (n + 1) - 1 = n /\ n \in 0 .. K /\ n + 1 \in 0 .. K
    BY <1>1
  <2>2. f[n + 1] = f[n] \o x
    BY <1>2, <2>1
  <2>3. /\ Sequence(x) /\ l \in Nat /\ Len(x) \in Nat /\ Len(f[n + 1]) = l + Len(x)
        /\ \A i \in 1 .. Len(x) : f[n + 1][l + i] = x[i]
    <3>1. Sequence(f[n]) /\ Sequence(x) /\ f[n + 1] = f[n] \o x
      BY <1>3, <1>7, <2>1, <2>2
    <3> HIDE DEF x
    <3> QED BY ONLY <3>1, Joins
  <2>4. l + Len(x) <= Len(R) /\ \A i \in 1 .. Len(x) : R[l + i] = x[i]
    <3>1. /\ Len(f[n + 1]) \in 0 .. Len(R)
          /\ \A i \in 1 .. Len(f[n + 1]) : R[i] = f[n + 1][i]
      BY <1>7, <2>1
    <3> HIDE DEF x, l
    <3>2. \A i \in 1 .. Len(x) : l + i \in 1 .. Len(f[n + 1])
      BY <2>3
    <3> QED BY <1>7, <2>3, <3>1, <3>2
  <2>5. \/ Len(x) = 1 /\ a = [out |-> Append(lines(n), Line(made[n + 1])), held |-> <<>>]
        \/ Len(x) = 2 /\ PrintNext(a, x[2]) =
                            [out |-> Append(lines(n), Line(made[n + 1])), held |-> <<>>]
    BY TradeLine DEF X
  <2>6. Append(lines(n), Line(made[n + 1])) = lines(n + 1)
    <3> DEFINE S == {Line(made[i]) : i \in 1 .. n + 1}
    <3>1. lines(n) \in Seq(S) /\ lines(n + 1) \in Seq(S) /\ Line(made[n + 1]) \in S
      <4>1. n \in Nat /\ n + 1 \in Nat
        BY <1>1
      <4> QED BY <4>1
    <3>2. Len(lines(n)) = n /\ Len(lines(n + 1)) = n + 1
      BY <1>1
    <3> QED BY <3>1, <3>2
  <2> HIDE DEF l, x, lines
  <2>7. u[l] = [out |-> lines(n), held |-> <<>>]
    BY <1>10 DEF l
  <2>8. CASE Len(x) = 1
    <3>1. l + 1 \in 1 .. Len(R) /\ (l + 1) - 1 = l /\ R[l + 1] = x[1]
      BY <1>7, <2>3, <2>4, <2>8
    <3>2. u[l + 1] = a
      BY <1>8, <2>7, <3>1
    <3> QED BY <2>3, <2>5, <2>6, <2>8, <3>2
  <2>9. CASE Len(x) = 2
    <3>1. /\ l + 1 \in 1 .. Len(R) /\ (l + 1) - 1 = l /\ R[l + 1] = x[1]
          /\ l + 2 \in 1 .. Len(R) /\ (l + 2) - 1 = l + 1 /\ R[l + 2] = x[2]
      BY <1>7, <2>3, <2>4, <2>9
    <3>2. u[l + 1] = a
      BY <1>8, <2>7, <3>1
    <3>3. u[l + 2] = PrintNext(a, x[2])
      BY <1>8, <3>1, <3>2
    <3> QED BY <2>3, <2>5, <2>6, <2>9, <3>3
  <2> QED BY <2>5, <2>8, <2>9
<1> HIDE DEF right
<1>11. Wrong = {}
  <2> SUFFICES ASSUME Wrong # {} PROVE FALSE
    OBVIOUS
  <2>1. PICK n \in Wrong : \A m \in Wrong : n <= m
    <3>1. Wrong \subseteq Nat
      BY <1>1
    <3> HIDE DEF Wrong
    <3> QED BY <3>1, LeastNatural
  <2>2. n # 0
    BY <1>9
  <2>3. n - 1 \in 0 .. K - 1 /\ (n - 1) + 1 = n
    BY <1>1, <2>2
  <2>4. right(n - 1)
    BY <1>1, <2>1, <2>3
  <2> QED BY <1>10, <2>3, <2>4
<1>12. u[Len(R)] = [out |-> lines(K), held |-> <<>>]
  <2>1. right(K)
    BY <1>1, <1>11
  <2> QED BY <1>2, <2>1 DEF right
<1> HIDE DEF lines
<1>13. Printed(R) = lines(K)
  BY <1>8, <1>12
<1> QED BY <1>7, <1>13 DEF R, K, lines

-----------------------------------------------------------------------------
(* What a command leaves on the board.                                       *)

\* The trades of a match are a sequence.
LEMMA MatchTrades ==
    ASSUME NEW b
    PROVE  Sequence(Board!Match(b).trades)
<1>1. PICK f : LET k == Board!Cardinality(Board!Places(b)) IN
             /\ k \in Nat /\ f[0] = [book |-> b, trades |-> <<>>] /\ Board!Match(b) = f[k]
             /\ \A n \in 1 .. k : f[n] = Board!Round(f[n - 1])
  BY RoundsAre
<1> DEFINE k == Board!Cardinality(Board!Places(b))
           good(n) == Sequence(f[n].trades)
           Bad == {n \in 0 .. k : ~good(n)}
<1>2. /\ k \in Nat /\ f[0] = [book |-> b, trades |-> <<>>] /\ Board!Match(b) = f[k]
      /\ \A n \in 1 .. k : f[n] = Board!Round(f[n - 1])
  BY <1>1
<1> HIDE DEF k
<1>3. good(0)
  <2>1. f[0].trades = <<>> /\ <<>> \in Seq({})
    BY <1>2
  <2> QED BY <2>1 DEF Sequence
<1>4. ASSUME NEW n \in 1 .. k, good(n - 1) PROVE good(n)
  <2>1. f[n] = Board!Round(f[n - 1])
    BY <1>2
  <2>2. \A m : Sequence(m.trades) => Sequence(Board!TradeOnce(m).trades)
    BY Grows DEF Board!TradeOnce
  <2> QED BY <1>4, <2>1, <2>2 DEF Board!Round
<1> HIDE DEF good
<1>5. Bad = {}
  <2> SUFFICES ASSUME Bad # {} PROVE FALSE
    OBVIOUS
  <2>1. PICK n \in Bad : \A m \in Bad : n <= m
    <3>1. Bad \subseteq Nat
      BY <1>2
    <3> HIDE DEF Bad
    <3> QED BY <3>1, LeastNatural
  <2>2. n # 0
    BY <1>3
  <2>3. n \in 1 .. k /\ n - 1 \in 0 .. k /\ n - 1 < n
    BY <1>2, <2>2
  <2>4. good(n - 1)
    BY <1>2, <2>1, <2>3
  <2> QED BY <1>4, <2>3, <2>4
<1>6. good(k)
  BY <1>2, <1>5
<1> QED BY <1>2, <1>6 DEF good

\* A command is answered by an acknowledgement of its own and a sequence of trades.
LEMMA ProcessAnswers ==
    ASSUME NEW c, Board!Process(c)
    PROVE  Sequence(trades') /\ ack'.id = c.id /\ ack' # NoAck
<1>1. Sequence(<<>>)
  <2>1. <<>> \in Seq({})
    OBVIOUS
  <2> QED BY <2>1 DEF Sequence
<1>2. \A t : Sequence(<<t>>)
  <2>1. \A t : <<t>> \in Seq({t})
    OBVIOUS
  <2> QED BY <2>1 DEF Sequence
<1>3. ASSUME NEW status, status # "NONE", NEW rem, NEW made, Sequence(made), NEW b,
             Board!Answer(c, status, rem, made, b)
      PROVE  Sequence(trades') /\ ack'.id = c.id /\ ack' # NoAck
  <2>1. trades' = made /\ ack'.status = status /\ ack'.id = c.id
    BY <1>3 DEF Board!Answer
  <2> QED BY <1>3, <2>1 DEF NoAck
<1>4. CASE Board!RejectField(c)
  BY <1>1, <1>3, <1>4 DEF Board!RejectField, Board!Reject
<1>5. CASE Board!AddFull(c)
  BY <1>1, <1>3, <1>5 DEF Board!AddFull, Board!Reject
<1>6. CASE Board!AddRefused(c)
  BY <1>1, <1>3, <1>6 DEF Board!AddRefused, Board!Reject
<1>7. CASE Board!Add(c)
  BY <1>3, <1>7, MatchTrades DEF Board!Add
<1>8. CASE Board!NotLive(c)
  BY <1>1, <1>3, <1>8 DEF Board!NotLive, Board!Reject
<1>9. CASE Board!Cancel(c)
  BY <1>1, <1>3, <1>9 DEF Board!Cancel
<1>10. CASE Board!ModifyQty(c)
  BY <1>1, <1>3, <1>10 DEF Board!ModifyQty
<1>11. CASE Board!ModifyPrice(c)
  BY <1>3, <1>11, MatchTrades DEF Board!ModifyPrice
<1>12. CASE Board!ExecuteBad(c)
  BY <1>1, <1>3, <1>12 DEF Board!ExecuteBad, Board!Reject
<1>13. CASE Board!Execute(c)
  BY <1>2, <1>3, <1>13 DEF Board!Execute
<1> QED BY <1>4, <1>5, <1>6, <1>7, <1>8, <1>9, <1>10, <1>11, <1>12, <1>13
    DEF Board!Process

-----------------------------------------------------------------------------
(* The programs.                                                             *)

Fields ==
    {"prog", "phase", "session", "fresh", "n", "count", "used", "gen", "ref", "seq",
     "msg", "want", "got", "verdict", "shown"}

IsProgram(h) == h = [f \in Fields |-> h[f]]

\* A program g comes of h and is the same, with the same transaction shown.
Continues(h, g) == IsProgram(g) /\ g.prog = h.prog /\ g.shown = h.shown

LEMMA Ends ==
    ASSUME NEW h, IsProgram(h), NEW verdict
    PROVE  Continues(h, End(h, verdict)) /\ End(h, verdict).phase = "off"
BY DEF IsProgram, Fields, Continues, End

LEMMA Advances ==
    ASSUME NEW h, IsProgram(h)
    PROVE  Continues(h, Advance(h)) /\ Advance(h).phase \in {"send", "off"}
<1>1. Continues(h, [h EXCEPT !.phase = "send"]) /\ [h EXCEPT !.phase = "send"].phase = "send"
  BY DEF IsProgram, Fields, Continues
<1> QED BY <1>1, Ends DEF Advance

LEMMA Expects ==
    ASSUME NEW h, IsProgram(h), NEW m
    PROVE  Continues(h, Expect(h, m))
<1>1. ASSUME NEW a, NEW b, NEW c, NEW d, NEW e, NEW f
      PROVE  Continues(h, [h EXCEPT !.phase = "wait", !.n = a, !.msg = b, !.ref = c,
                                    !.seq = d, !.got = e, !.want = f])
  BY DEF IsProgram, Fields, Continues
<1> QED BY <1>1, Ends DEF Expect

LEMMA Receives ==
    ASSUME NEW h, IsProgram(h), NEW d
    PROVE  /\ Continues(h, StressReceives(h, d))
           /\ Continues(h, SmokeReceives(h, d))
           /\ Continues(h, ClientReceives(h, d))
<1>1. Continues(h, h)
  BY DEF Continues
<1>2. \A got : Continues(h, [h EXCEPT !.got = got])
  BY DEF IsProgram, Fields, Continues
<1>3. \A g, phase : Continues(h, g) => Continues(h, [g EXCEPT !.phase = phase])
  BY DEF IsProgram, Fields, Continues
<1>4. \A g, verdict : Continues(h, g) => Continues(h, End(g, verdict)) /\ Continues(h, Advance(g))
  BY Ends, Advances DEF Continues
<1>5. \A g : Continues(h, g) => Continues(h, Compare(g)) /\ Continues(h, DemoGoesOn(g))
  BY <1>4 DEF Compare, DemoGoesOn
<1>6. Continues(h, StressReceives(h, d))
  BY <1>1, <1>2, <1>3, <1>4, <1>5 DEF StressReceives
<1>7. Continues(h, SmokeReceives(h, d))
  BY <1>1, <1>3 DEF SmokeReceives
<1>8. Continues(h, ClientReceives(h, d))
  BY <1>1, <1>2, <1>3, <1>4, <1>5 DEF ClientReceives
<1> QED BY <1>6, <1>7, <1>8

LEMMA TimesOut ==
    ASSUME NEW h, IsProgram(h)
    PROVE  /\ IsProgram(TimedOut(h)) /\ TimedOut(h).prog = h.prog
           /\ h.prog # "prompt" => Continues(h, TimedOut(h))
           /\ h.prog = "prompt" /\ h.phase = "drain" =>
                /\ TimedOut(h).phase \in {"send", "off"}
                /\ TimedOut(h).shown = [ack |-> h.got.ack, reps |-> h.got.reps]
<1>1. \A g : IsProgram(g) => /\ Continues(g, Advance(g)) /\ Advance(g).phase \in {"send", "off"}
                             /\ Continues(g, End(g, "FAIL"))
  BY Advances, Ends
<1>2. Continues(h, [h EXCEPT !.phase = "send"])
  BY DEF IsProgram, Fields, Continues
<1>3. \A x : LET g == [h EXCEPT !.shown = x] IN
        IsProgram(g) /\ g.prog = h.prog /\ g.shown = x
  BY DEF IsProgram, Fields
<1>4. /\ IsProgram(Show(h)) /\ Show(h).prog = h.prog /\ Show(h).phase \in {"send", "off"}
      /\ Show(h).shown = [ack |-> h.got.ack, reps |-> h.got.reps]
  <2> DEFINE x == [ack |-> h.got.ack, reps |-> h.got.reps]
             g == [h EXCEPT !.shown = x]
  <2>1. IsProgram(g) /\ g.prog = h.prog /\ g.shown = x
    BY <1>3
  <2>2. Show(h) = Advance(g)
    BY DEF Show
  <2> HIDE DEF g, x
  <2>3. Continues(g, Advance(g)) /\ Advance(g).phase \in {"send", "off"}
    BY <1>1, <2>1
  <2> QED BY <2>1, <2>2, <2>3 DEF Continues, x
<1>5. CASE h.phase = "prime"
  <2>1. TimedOut(h) = [h EXCEPT !.phase = "send"]
    BY <1>5 DEF TimedOut
  <2> QED BY <1>2, <1>5, <2>1 DEF Continues
<1>6. CASE h.phase = "drain" /\ h.prog = "prompt"
  <2>1. TimedOut(h) = Show(h)
    BY <1>6 DEF TimedOut
  <2> QED BY <1>4, <1>6, <2>1
<1>7. CASE h.phase = "drain" /\ h.prog # "prompt"
  <2>1. TimedOut(h) = Advance(h)
    BY <1>7 DEF TimedOut
  <2> QED BY <1>1, <1>7, <2>1 DEF Continues
<1>8. CASE h.phase \notin {"prime", "drain"}
  <2>1. TimedOut(h) \in {Advance(h), End(h, "FAIL")}
    BY <1>8 DEF TimedOut
  <2> QED BY <1>1, <1>8, <2>1 DEF Continues
<1> QED BY <1>5, <1>6, <1>7, <1>8

-----------------------------------------------------------------------------
(* The prompt.                                                               *)

\* g is the last command's answer.
IsAnswer(g) == \E first : g = [ack |-> ack, reps |-> AllReports(trades, first)]

\* Its command is on its way to the board,
Asking ==
    /\ toBoard = <<host.msg>> /\ toHost = <<>>
    /\ host.got.reps = <<>> /\ Decodes(host.msg)

\* i of the reports reps are in, the others and the acknowledgement on their way.
Delivering(reps, i) ==
    /\ Sequence(reps) /\ i \in 0 .. Len(reps)
    /\ Sequence(host.got.reps) /\ Len(host.got.reps) = i
    /\ \A j \in 1 .. i : host.got.reps[j] = reps[j]
    /\ Sequence(toHost) /\ Len(toHost) = Len(reps) - i + 1
    /\ \A j \in 1 .. Len(reps) - i : toHost[j] = ReportDatagram(reps[i + j])
    /\ toHost[Len(reps) - i + 1] = AckDatagram(ack)

\* or its answer is on the way back, in part received.
Answering ==
    /\ toBoard = <<>> /\ ack.id = host.msg.id /\ ack # NoAck
    /\ \E first, i : Delivering(AllReports(trades, first), i)

\* Where a command of the prompt is, while the network loses nothing.
Waiting ==
    /\ host.shown = Nothing
    /\ host.got = [ack |-> NoAck, reps |-> host.got.reps]
    /\ Asking \/ Answering

Prompting ==
    /\ host.shown # Nothing =>
         /\ host.prog = "prompt" /\ host.phase \in {"send", "off"}
         /\ IsAnswer(host.shown)
    /\ host.prog = "prompt" =>
         /\ host.phase \in {"send", "wait", "drain", "off"}
         /\ host.phase \in {"send", "off"} => Quiet
         /\ host.phase = "wait" => Waiting
         /\ host.phase = "drain" => Quiet /\ host.shown = Nothing /\ IsAnswer(host.got)

\* The inductive invariant.
PromptInv ==
    /\ IsProgram(host) /\ Sequence(trades) /\ Sequence(faults)
    /\ faults = <<>> => Prompting

\* At first no program runs.
LEMMA PromptInit ==
    Init => PromptInv
<1> SUFFICES ASSUME Init PROVE PromptInv
  OBVIOUS
<1>1. Sequence(<<>>)
  <2>1. <<>> \in Seq({})
    OBVIOUS
  <2> QED BY <2>1 DEF Sequence
<1>2. host = Idle /\ trades = <<>> /\ faults = <<>>
  BY DEF Init, LinkInit, Board!Init
<1>3. IsProgram(Idle) /\ Idle.prog = "none" /\ Idle.shown = Nothing
  BY DEF Idle, IsProgram, Fields
<1> QED BY <1>1, <1>2, <1>3 DEF PromptInv, Prompting

\* A network that disturbs something has done so.
LEMMA Disturbed ==
    ASSUME NEW what, NEW commands, NEW answers, Disturb(what, commands, answers),
           Sequence(faults)
    PROVE  Sequence(faults') /\ faults' # <<>> /\ trades' = trades
<1>1. faults' = Append(faults, what) /\ trades' = trades
  BY DEF Disturb, boardVars
<1>2. Sequence(faults') /\ Len(faults') = Len(faults) + 1 /\ Len(faults) \in Nat
  BY <1>1, Grows
<1> QED BY <1>1, <1>2

\* Another program shows nothing, whatever happens to its datagrams.
LEMMA OthersStep ==
    ASSUME PromptInv, host.prog # "prompt", Continues(host, host'),
           Sequence(trades'), faults' = faults
    PROVE  PromptInv'
<1>1. IsProgram(host)' /\ Sequence(trades)' /\ Sequence(faults)'
  BY DEF PromptInv, Continues
<1>2. host'.prog # "prompt" /\ (faults = <<>> => host'.shown = Nothing)
  BY DEF PromptInv, Prompting, Continues
<1> QED BY <1>1, <1>2 DEF PromptInv, Prompting

\* The next program starts when nothing is under way.
LEMMA StartStep ==
    ASSUME PromptInv, NEW prog, Start(prog)
    PROVE  PromptInv'
<1>1. PICK count : host' = [Idle EXCEPT !.prog = prog, !.session = host.session + 1,
                              !.fresh = (cmd = Board!ZeroCmd), !.phase = "send",
                              !.count = count,
                              !.used = host.used + IF prog \in Unscripted THEN count ELSE 0]
  BY DEF Start
<1>2. IsProgram(Idle) /\ Idle.shown = Nothing
  BY DEF Idle, IsProgram, Fields
<1>3. IsProgram(host') /\ host'.phase = "send" /\ host'.shown = Nothing
  <2> DEFINE fresh == cmd = Board!ZeroCmd
             used == host.used + IF prog \in Unscripted THEN count ELSE 0
             session == host.session + 1
  <2>1. host' = [Idle EXCEPT !.prog = prog, !.session = session, !.fresh = fresh,
                             !.phase = "send", !.count = count, !.used = used]
    BY <1>1
  <2> HIDE DEF fresh, used, session
  <2> QED BY <1>2, <2>1 DEF IsProgram, Fields
<1>4. Quiet /\ Quiet' /\ trades' = trades /\ faults' = faults
  BY DEF Start, Quiet, linkVars, boardVars
<1> QED BY <1>3, <1>4 DEF PromptInv, Prompting

\* What is typed can be decoded.
LEMMA TypedDecodes ==
    ASSUME NEW m \in Typed, NEW a, NEW b
    PROVE  Decodes([m EXCEPT !.seq = a, !.ts = b])
<1>1. ASSUME NEW t \in MsgType, NEW s \in Side, NEW i, NEW p, NEW q, m = TypedLine(t, s, i, p, q)
      PROVE  Decodes([m EXCEPT !.seq = a, !.ts = b])
  BY <1>1 DEF TypedLine, Message, Decodes
<1>2. \/ \E s \in Side, i \in TypedIds, p \in PriceMin .. PriceMax, q \in TypedQty :
           m = TypedLine("ADD", s, i, p, q)
      \/ \E i \in TypedIds, p \in PriceMin .. PriceMax, q \in TypedQty :
           m = TypedLine("MODIFY", "BUY", i, p, q)
      \/ \E i \in TypedIds : m = TypedLine("CANCEL", "BUY", i, 0, 0)
      \/ \E i \in TypedIds, q \in TypedQty : m = TypedLine("EXECUTE", "BUY", i, 0, q)
  BY DEF Typed
<1>3. {"ADD", "MODIFY", "CANCEL", "EXECUTE"} \subseteq MsgType /\ "BUY" \in Side
  BY DEF MsgType, Side
<1> QED BY <1>1, <1>2, <1>3

\* A typed command goes out, and the prompt waits.
LEMMA SendTypedStep ==
    ASSUME PromptInv, SendTyped
    PROVE  PromptInv'
<1>1. PICK m \in Typed :
        LET stamped == [m EXCEPT !.seq = host.n + 1, !.ts = 100 * host.session + host.n] IN
        /\ host' = [host EXCEPT !.phase = "wait", !.n = @ + 1, !.msg = stamped,
                                !.got = Nothing, !.shown = Nothing]
        /\ SendDatagram(stamped)
  BY DEF SendTyped
<1> DEFINE stamped == [m EXCEPT !.seq = host.n + 1, !.ts = 100 * host.session + host.n]
<1>2. Decodes(stamped)
  BY TypedDecodes
<1>3. /\ host' = [host EXCEPT !.phase = "wait", !.n = @ + 1, !.msg = stamped,
                              !.got = Nothing, !.shown = Nothing]
      /\ SendDatagram(stamped)
  BY <1>1
<1> HIDE DEF stamped
<1>4. /\ IsProgram(host') /\ host'.prog = host.prog /\ host'.phase = "wait"
      /\ host'.msg = stamped /\ host'.got = Nothing /\ host'.shown = Nothing
  BY <1>3 DEF PromptInv, IsProgram, Fields
<1>5. host.prog = "prompt" /\ host.phase = "send"
  BY DEF SendTyped
<1>6. trades' = trades /\ faults' = faults /\ toBoard' = Append(toBoard, stamped)
      /\ toHost' = toHost
  BY <1>3 DEF SendDatagram, boardVars
<1>7. ASSUME faults = <<>> PROVE Prompting'
  <2>1. toBoard = <<>> /\ toHost = <<>>
    BY <1>5, <1>7 DEF PromptInv, Prompting, Quiet
  <2>2. toBoard' = <<stamped>> /\ toHost' = <<>>
    BY <1>6, <2>1
  <2>3. Asking'
    BY <1>2, <1>4, <2>2 DEF Asking, Nothing
  <2>4. host'.got = [ack |-> NoAck, reps |-> host'.got.reps]
    BY <1>4 DEF Nothing
  <2> QED BY <1>4, <2>3, <2>4 DEF Prompting, Waiting
<1> QED BY <1>4, <1>6, <1>7 DEF PromptInv

\* What the board is told of a message.
Bare(m) == [type |-> m.type, side |-> m.side, id |-> m.id, price |-> m.price,
            qty |-> m.qty, ts |-> m.ts]

\* The board executes the command on its way: the answer goes out whole.
LEMMA AnswerSent ==
    ASSUME BoardStep, host' = host, toBoard = <<host.msg>>, toHost = <<>>, Decodes(host.msg),
           host.got.reps = <<>>, NEW reps, reps = AllReports(trades', repSeq)
    PROVE  /\ toBoard' = <<>> /\ faults' = faults /\ Delivering(reps, 0)'
           /\ Board!Process(Bare(host.msg)) /\ repSeq' = repSeq + Len(reps)
           /\ Sequence(trades') /\ ack'.id = host.msg.id /\ ack' # NoAck
<1> DEFINE m == host.msg
           c == Bare(m)
           sent == [n \in DOMAIN reps |-> ReportDatagram(reps[n])]
           last == AckDatagram(ack')
<1>1. toBoard' = <<>> /\ faults' = faults /\ Serve(m)
  BY DEF BoardStep
<1>2. /\ Board!Process(c) /\ repSeq' = repSeq + Len(reps)
      /\ toHost' = <<>> \o sent \o <<last>>
  BY <1>1 DEF Serve, Bare
<1>3. c.id = m.id
  BY DEF Bare
<1> HIDE DEF c
<1>4. Sequence(trades') /\ ack'.id = m.id /\ ack' # NoAck
  BY <1>2, <1>3, ProcessAnswers
<1>5. Sequence(reps)
  BY <1>4, PrintsTheTrades
<1> HIDE DEF last
<1>6. Len(reps) \in Nat /\ DOMAIN reps = 1 .. Len(reps)
  BY <1>5, Grows
<1>7. /\ Sequence(sent) /\ Len(sent) = Len(reps)
      /\ \A n \in 1 .. Len(reps) : sent[n] = ReportDatagram(reps[n])
  <2> DEFINE S == {ReportDatagram(reps[n]) : n \in 1 .. Len(reps)}
  <2>1. sent \in Seq(S) /\ Len(sent) = Len(reps)
    BY <1>6
  <2>2. \A n \in 1 .. Len(reps) : sent[n] = ReportDatagram(reps[n])
    BY <1>6
  <2> QED BY <2>1, <2>2 DEF Sequence
<1> HIDE DEF sent
<1>8. toHost' = Append(sent, last)
  <2>1. PICK S : sent \in Seq(S)
    BY <1>7 DEF Sequence
  <2>2. toHost' = sent \o <<last>>
    BY <1>2, <2>1
  <2> DEFINE T == S \union {last}
  <2>3. sent \in Seq(T) /\ last \in T
    BY <2>1
  <2> HIDE DEF T
  <2> QED BY <2>2, <2>3, AppendProperties, ConcatProperties
<1>9. /\ Sequence(toHost') /\ Len(toHost') = Len(reps) + 1
      /\ \A j \in 1 .. Len(reps) : toHost'[j] = ReportDatagram(reps[j])
      /\ toHost'[Len(reps) + 1] = last
  BY <1>6, <1>7, <1>8, Grows
<1>10. Sequence(<<>>) /\ Len(<<>>) = 0
  <2>1. <<>> \in Seq({})
    OBVIOUS
  <2> QED BY <2>1 DEF Sequence
<1>11. Delivering(reps, 0)'
  BY <1>5, <1>6, <1>9, <1>10 DEF Delivering, last
<1> QED BY <1>1, <1>2, <1>4, <1>11 DEF c

\* The board answers.
LEMMA BoardStepStep ==
    ASSUME PromptInv, BoardStep, UNCHANGED host
    PROVE  PromptInv'
<1>1. /\ toBoard # <<>> /\ faults' = faults
      /\ IF Decodes(Head(toBoard)) THEN Serve(Head(toBoard)) ELSE UNCHANGED <<boardVars, toHost>>
  BY DEF BoardStep
<1>2. ASSUME NEW m, Serve(m) PROVE Sequence(trades')
  BY <1>2, ProcessAnswers DEF Serve
<1>3. Sequence(trades')
  BY <1>1, <1>2 DEF PromptInv, boardVars
<1>4. CASE host.prog # "prompt"
  <2>1. Continues(host, host')
    BY DEF PromptInv, Continues
  <2> QED BY <1>1, <1>3, <1>4, <2>1, OthersStep
<1>5. CASE host.prog = "prompt"
  <2>1. ASSUME faults = <<>> PROVE Prompting'
    <3>1. host.phase = "wait" /\ Waiting /\ Asking
      BY <1>1, <1>5, <2>1 DEF PromptInv, Prompting, Quiet, Waiting, Answering
    <3>2. PICK first, reps : first = repSeq /\ reps = AllReports(trades', first)
      OBVIOUS
    <3>3. /\ toBoard' = <<>> /\ ack'.id = host.msg.id /\ ack' # NoAck
          /\ Delivering(reps, 0)'
      BY <3>1, <3>2, AnswerSent DEF Asking
    <3>4. reps = AllReports(trades, first)'
      BY <3>2
    <3>5. Answering'
      BY <3>3, <3>4 DEF Answering
    <3>6. host'.shown = Nothing /\ host'.got = [ack |-> NoAck, reps |-> host'.got.reps]
      BY <3>1 DEF Waiting
    <3> QED BY <1>5, <3>1, <3>5, <3>6 DEF Prompting, Waiting
  <2> QED BY <1>1, <1>3, <2>1 DEF PromptInv
<1> QED BY <1>4, <1>5

\* What is left of a sequence without its head.
LEMMA Shortens ==
    ASSUME NEW s, Sequence(s), s # <<>>
    PROVE  /\ Sequence(Tail(s)) /\ Len(s) \in Nat \ {0} /\ Len(Tail(s)) = Len(s) - 1
           /\ Head(s) = s[1]
           /\ \A j \in 1 .. Len(s) - 1 : Tail(s)[j] = s[j + 1]
<1>1. PICK S : s \in Seq(S)
  BY DEF Sequence
<1> QED BY <1>1 DEF Sequence

\* An answer comes in the order it was sent: a report more, or the acknowledgement
\* when all the reports are in.
LEMMA NextAnswer ==
    ASSUME NEW reps, NEW i, Delivering(reps, i), toHost' = Tail(toHost), ack' = ack
    PROVE  LET d == Head(toHost) IN
           \/ /\ i \in 0 .. Len(reps) - 1 /\ d = ReportDatagram(reps[i + 1])
              /\ host'.got.reps = Append(host.got.reps, reps[i + 1]) => Delivering(reps, i + 1)'
           \/ d = AckDatagram(ack) /\ toHost' = <<>> /\ host.got.reps = reps
<1> DEFINE d == Head(toHost)
<1>1. toHost # <<>> /\ Sequence(reps) /\ Len(reps) \in Nat /\ i \in 0 .. Len(reps)
  <2>1. Sequence(reps) /\ i \in 0 .. Len(reps) /\ Len(toHost) = Len(reps) - i + 1
    BY DEF Delivering
  <2>2. Len(reps) \in Nat
    BY <2>1, Grows
  <2>3. Len(toHost) # 0
    BY <2>1, <2>2
  <2> QED BY <2>1, <2>2, <2>3
<1>2. /\ Sequence(toHost') /\ Len(toHost') = Len(toHost) - 1 /\ d = toHost[1]
      /\ \A j \in 1 .. Len(toHost) - 1 : toHost'[j] = toHost[j + 1]
  BY <1>1, Shortens DEF Delivering
<1> HIDE DEF d
<1>3. CASE i < Len(reps)
  <2> DEFINE r == reps[i + 1]
  <2>1. d = ReportDatagram(r)
    BY <1>1, <1>2, <1>3 DEF Delivering
  <2>2. /\ Sequence(Append(host.got.reps, r)) /\ Len(Append(host.got.reps, r)) = i + 1
        /\ \A j \in 1 .. i + 1 : Append(host.got.reps, r)[j] = reps[j]
    BY <1>1, <1>3, Grows DEF Delivering
  <2> HIDE DEF r
  <2>3. /\ Len(toHost') = Len(reps) - (i + 1) + 1
        /\ \A j \in 1 .. Len(reps) - (i + 1) : toHost'[j] = ReportDatagram(reps[i + 1 + j])
        /\ toHost'[Len(reps) - (i + 1) + 1] = AckDatagram(ack)
    <3>1. i \in Nat /\ Len(toHost) = Len(reps) - i + 1
      BY <1>1 DEF Delivering
    <3>2. Len(toHost') = Len(reps) - (i + 1) + 1
      BY <1>1, <1>2, <3>1
    <3>3. ASSUME NEW j \in 1 .. Len(reps) - (i + 1)
          PROVE  toHost'[j] = ReportDatagram(reps[i + 1 + j])
      <4>1. /\ j \in 1 .. Len(toHost) - 1 /\ j + 1 \in 1 .. Len(reps) - i
            /\ i + (j + 1) = i + 1 + j
        BY <1>1, <3>1
      <4>2. toHost[j + 1] = ReportDatagram(reps[i + (j + 1)])
        BY <4>1 DEF Delivering
      <4> QED BY <1>2, <4>1, <4>2
    <3>4. toHost'[Len(reps) - (i + 1) + 1] = AckDatagram(ack)
      <4>1. /\ Len(reps) - (i + 1) + 1 \in 1 .. Len(toHost) - 1
            /\ (Len(reps) - (i + 1) + 1) + 1 = Len(reps) - i + 1
        BY <1>1, <1>3, <3>1
      <4> QED BY <1>2, <4>1 DEF Delivering
    <3> QED BY <3>2, <3>3, <3>4
  <2>4. i + 1 \in 0 .. Len(reps) /\ i \in 0 .. Len(reps) - 1
    BY <1>1, <1>3
  <2>5. ASSUME host'.got.reps = Append(host.got.reps, r) PROVE Delivering(reps, i + 1)'
    BY <1>1, <1>2, <2>2, <2>3, <2>4, <2>5 DEF Delivering
  <2> QED BY <2>1, <2>4, <2>5 DEF d, r
<1>4. CASE i = Len(reps)
  <2>1. d = AckDatagram(ack) /\ Len(toHost') = 0
    BY <1>1, <1>2, <1>4 DEF Delivering
  <2>2. host.got.reps = reps
    <3>1. /\ Sequence(host.got.reps) /\ Len(host.got.reps) = Len(reps)
          /\ \A j \in 1 .. Len(reps) : host.got.reps[j] = reps[j]
      BY <1>1, <1>4 DEF Delivering
    <3>2. PICK S, T : reps \in Seq(S) /\ host.got.reps \in Seq(T)
      BY <1>1, <3>1 DEF Sequence
    <3> QED BY <3>1, <3>2, SeqEqual
  <2>3. toHost' = <<>>
    <3>1. PICK S : toHost' \in Seq(S)
      BY <1>2 DEF Sequence
    <3> QED BY <2>1, <3>1
  <2> QED BY <2>1, <2>2, <2>3 DEF d
<1> QED BY <1>1, <1>3, <1>4

\* The prompt takes a report or the acknowledgement.
LEMMA PromptReceives ==
    ASSUME PromptInv, Receive, host.prog = "prompt"
    PROVE  PromptInv'
<1> DEFINE d == Head(toHost)
<1>1. /\ Listening /\ toHost # <<>> /\ toHost' = Tail(toHost)
      /\ toBoard' = toBoard /\ trades' = trades /\ ack' = ack /\ faults' = faults
      /\ host' = ClientReceives(host, d)
  BY DEF Receive, boardVars, Stress
<1> HIDE DEF d
<1>2. Continues(host, host')
  BY <1>1, Receives DEF PromptInv
<1>3. ASSUME faults = <<>> PROVE Prompting'
  <2>1. host.phase = "wait" /\ Waiting /\ Answering
    BY <1>1, <1>3 DEF PromptInv, Prompting, Quiet, Waiting, Asking, Listening
  <2>2. PICK first, i, reps : reps = AllReports(trades, first) /\ Delivering(reps, i)
    BY <2>1 DEF Answering
  <2>3. toBoard = <<>> /\ ack.id = host.msg.id /\ ack # NoAck
    BY <2>1 DEF Answering
  <2>4. host.got = [ack |-> NoAck, reps |-> host.got.reps] /\ host.shown = Nothing
    BY <2>1 DEF Waiting
  <2>5. host'.prog = "prompt" /\ host'.shown = Nothing
    BY <1>2, <2>4 DEF Continues
  <2>6. \/ /\ i \in 0 .. Len(reps) - 1 /\ d = ReportDatagram(reps[i + 1])
           /\ host'.got.reps = Append(host.got.reps, reps[i + 1]) => Delivering(reps, i + 1)'
        \/ d = AckDatagram(ack) /\ toHost' = <<>> /\ host.got.reps = reps
    BY <1>1, <2>2, NextAnswer DEF d
  <2>7. CASE /\ i \in 0 .. Len(reps) - 1 /\ d = ReportDatagram(reps[i + 1])
             /\ host'.got.reps = Append(host.got.reps, reps[i + 1]) => Delivering(reps, i + 1)'
    <3> DEFINE r == reps[i + 1]
    <3>1. d.kind = "EXECUTE" /\ d.report = r
      BY <2>7 DEF ReportDatagram
    <3> DEFINE more == [ack |-> NoAck, reps |-> Append(host.got.reps, r)]
    <3>2. [host.got EXCEPT !.reps = Append(@, d.report)] = more
      BY <2>4, <3>1
    <3>3. host' = [host EXCEPT !.got = more]
      <4> HIDE DEF r
      <4>1. more.ack = NoAck
        OBVIOUS
      <4> HIDE DEF more
      <4> QED BY <1>1, <3>1, <3>2, <4>1 DEF ClientReceives
    <3> HIDE DEF r
    <3>4. host'.got = more /\ host'.phase = "wait" /\ host'.msg = host.msg
      <4> HIDE DEF more
      <4> QED BY <2>1, <3>3 DEF PromptInv, IsProgram, Fields
    <3>5. Delivering(reps, i + 1)'
      BY <2>7, <3>4 DEF r
    <3>6. Answering'
      <4>1. (\E f, j : Delivering(AllReports(trades, f), j))'
        BY <1>1, <2>2, <3>5
      <4> QED BY <1>1, <2>3, <3>4, <4>1 DEF Answering
    <3>7. host'.got = [ack |-> NoAck, reps |-> host'.got.reps]
      BY <3>4
    <3> QED BY <2>5, <3>4, <3>6, <3>7 DEF Prompting, Waiting
  <2>8. CASE d = AckDatagram(ack) /\ toHost' = <<>> /\ host.got.reps = reps
    <3>1. d.kind = "ACK" /\ d.ack = ack
      BY <2>8 DEF AckDatagram
    <3> DEFINE more == [ack |-> ack, reps |-> host.got.reps]
    <3>2. [host.got EXCEPT !.ack = d.ack] = more
      BY <2>4, <3>1
    <3>3. host' = [[host EXCEPT !.got = more] EXCEPT !.phase = "drain"]
      <4>1. more.ack # NoAck
        BY <2>3
      <4> HIDE DEF more
      <4> QED BY <1>1, <2>3, <3>1, <3>2, <4>1 DEF ClientReceives
    <3>4. host'.got = more /\ host'.phase = "drain"
      <4> HIDE DEF more
      <4> QED BY <3>3 DEF PromptInv, IsProgram, Fields
    <3>5. IsAnswer(host.got)'
      BY <1>1, <2>2, <2>8, <3>4 DEF IsAnswer
    <3>6. Quiet'
      BY <1>1, <2>3, <2>8 DEF Quiet
    <3> QED BY <2>5, <3>4, <3>5, <3>6 DEF Prompting
  <2> QED BY <2>6, <2>7, <2>8
<1> QED BY <1>1, <1>2, <1>3 DEF PromptInv, Continues

\* The program goes on, if it is not the prompt; the prompt shows what it has when
\* nothing more comes.
LEMMA TimeOutStep ==
    ASSUME PromptInv, TimeOut
    PROVE  PromptInv'
<1>1. /\ Listening /\ Quiet /\ host' = TimedOut(host) /\ trades' = trades /\ ack' = ack
      /\ faults' = faults /\ toBoard' = toBoard /\ toHost' = toHost
  BY DEF TimeOut, linkVars, boardVars
<1>2. IsProgram(host)
  BY DEF PromptInv
<1>3. CASE host.prog # "prompt"
  <2>1. Continues(host, host')
    BY <1>1, <1>2, <1>3, TimesOut
  <2> QED BY <1>1, <1>3, <2>1, OthersStep DEF PromptInv
<1>4. CASE host.prog = "prompt"
  <2>1. IsProgram(host') /\ host'.prog = "prompt"
    BY <1>1, <1>2, <1>4, TimesOut
  <2>2. ASSUME faults = <<>> PROVE Prompting'
    <3>1. host.phase = "drain" /\ IsAnswer(host.got)
      <4>1. host.phase # "wait"
        <5>1. ~Asking
          BY <1>1 DEF Asking, Quiet
        <5>2. ~Answering
          <6>1. Quiet => Len(toHost) = 0
            BY DEF Quiet
          <6>2. ASSUME NEW first, NEW i, Delivering(AllReports(trades, first), i)
                PROVE  Len(toHost) # 0
            <7> DEFINE reps == AllReports(trades, first)
            <7>1. Sequence(reps) /\ i \in 0 .. Len(reps) /\ Len(toHost) = Len(reps) - i + 1
              BY <6>2 DEF Delivering
            <7> HIDE DEF reps
            <7>2. Len(reps) \in Nat
              BY <7>1, Grows
            <7> QED BY <7>1, <7>2
          <6> QED BY <1>1, <6>1, <6>2 DEF Answering
        <5> QED BY <1>4, <2>2, <5>1, <5>2 DEF PromptInv, Prompting, Waiting
      <4> QED BY <1>1, <1>4, <2>2, <4>1 DEF PromptInv, Prompting, Listening
    <3>2. /\ host'.phase \in {"send", "off"}
          /\ host'.shown = [ack |-> host.got.ack, reps |-> host.got.reps]
      BY <1>1, <1>2, <1>4, <3>1, TimesOut
    <3>3. PICK first : host.got = [ack |-> ack, reps |-> AllReports(trades, first)]
      BY <3>1 DEF IsAnswer
    <3>4. host'.shown = [ack |-> ack, reps |-> AllReports(trades, first)]
      BY <3>2, <3>3
    <3>5. IsAnswer(host.shown)'
      BY <1>1, <3>4 DEF IsAnswer
    <3>6. Quiet'
      BY <1>1 DEF Quiet
    <3> QED BY <2>1, <3>2, <3>5, <3>6 DEF Prompting
  <2> QED BY <1>1, <2>1, <2>2 DEF PromptInv
<1> QED BY <1>3, <1>4

\* A stress test sends what its reference has taken.
LEMMA SendExpectedStep ==
    ASSUME PromptInv, NEW h, Continues(host, h), NEW m, SendExpected(h, m),
           host.prog # "prompt"
    PROVE  PromptInv'
<1>1. Continues(h, host')
  BY Expects DEF SendExpected, Continues
<1>2. Continues(host, host')
  BY <1>1 DEF Continues
<1>3. trades' = trades /\ faults' = faults
  BY DEF SendExpected, SendDatagram, linkVars, boardVars
<1> QED BY <1>2, <1>3, OthersStep DEF PromptInv

\* A random stress sends.
LEMMA SendRandomStep ==
    ASSUME PromptInv, SendRandom
    PROVE  PromptInv'
<1>1. \A gen : Continues(host, [host EXCEPT !.gen = gen])
  BY DEF PromptInv, IsProgram, Fields, Continues
<1>2. PICK gen, m : SendExpected([host EXCEPT !.gen = gen], m)
  BY DEF SendRandom
<1>3. host.prog # "prompt"
  BY DEF SendRandom
<1> QED BY <1>1, <1>2, <1>3, SendExpectedStep

\* A script sends.
LEMMA SendScriptedStep ==
    ASSUME PromptInv, SendScripted
    PROVE  PromptInv'
<1>1. host.prog # "prompt"
  BY DEF SendScripted, Script
<1>2. CASE host.prog \in Stress
  <2>1. PICK m : SendExpected(host, m)
    BY <1>2 DEF SendScripted
  <2>2. Continues(host, host)
    BY DEF PromptInv, Continues
  <2> QED BY <1>1, <2>1, <2>2, SendExpectedStep
<1>3. CASE host.prog \notin Stress
  <2>1. PICK m : /\ host' = [host EXCEPT !.phase = "wait", !.n = @ + 1, !.msg = m, !.got = Nothing]
                 /\ SendDatagram(m)
    <3> DEFINE m == Script(host.prog)[host.n + 1]
               stamped == IF host.prog = "demo"
                          THEN [m EXCEPT !.ts = 100 * host.session + host.n] ELSE m
    <3>1. /\ host' = [host EXCEPT !.phase = "wait", !.n = @ + 1, !.msg = stamped, !.got = Nothing]
          /\ SendDatagram(stamped)
      BY <1>3 DEF SendScripted
    <3> HIDE DEF stamped
    <3> QED BY <3>1
  <2>2. Continues(host, host')
    BY <2>1 DEF PromptInv, IsProgram, Fields, Continues
  <2>3. trades' = trades /\ faults' = faults
    BY <2>1 DEF SendDatagram, boardVars
  <2> QED BY <1>1, <2>2, <2>3, OthersStep DEF PromptInv
<1> QED BY <1>2, <1>3

\* Every step keeps the invariant.
LEMMA PromptStep ==
    PromptInv /\ [Next]_vars => PromptInv'
<1> SUFFICES ASSUME PromptInv, [Next]_vars PROVE PromptInv'
  OBVIOUS
<1>1. CASE \E prog \in Programs : Start(prog)
  BY <1>1, StartStep
<1>2. CASE SendPrime
  <2>1. host' = [host EXCEPT !.phase = "prime", !.msg = Prime] /\ host.prog # "prompt"
    BY <1>2 DEF SendPrime, Stress
  <2>2. Continues(host, host')
    BY <2>1 DEF PromptInv, IsProgram, Fields, Continues
  <2>3. trades' = trades /\ faults' = faults
    BY <1>2 DEF SendPrime, SendDatagram, boardVars
  <2> QED BY <2>1, <2>2, <2>3, OthersStep DEF PromptInv
<1>3. CASE SendTyped
  BY <1>3, SendTypedStep
<1>4. CASE SendScripted
  BY <1>4, SendScriptedStep
<1>5. CASE SendRandom
  BY <1>5, SendRandomStep
<1>6. CASE Receive
  <2>1. CASE host.prog = "prompt"
    BY <1>6, <2>1, PromptReceives
  <2>2. CASE host.prog # "prompt"
    <3>1. Continues(host, host')
      BY <1>6, Receives DEF Receive, PromptInv
    <3>2. trades' = trades /\ faults' = faults
      BY <1>6 DEF Receive, boardVars
    <3> QED BY <2>2, <3>1, <3>2, OthersStep DEF PromptInv
  <2> QED BY <2>1, <2>2
<1>7. CASE Unheard
  <2>1. host' = host /\ trades' = trades /\ faults' = faults
        /\ host.phase = "off" /\ toHost # <<>>
    BY <1>7 DEF Unheard, boardVars
  <2>2. CASE host.prog = "prompt"
    <3>1. faults # <<>>
      BY <2>1, <2>2 DEF PromptInv, Prompting, Quiet
    <3> QED BY <2>1, <3>1 DEF PromptInv
  <2>3. CASE host.prog # "prompt"
    <3>1. Continues(host, host')
      BY <2>1 DEF PromptInv, Continues
    <3> QED BY <2>1, <2>3, <3>1, OthersStep DEF PromptInv
  <2> QED BY <2>2, <2>3
<1>8. CASE TimeOut
  BY <1>8, TimeOutStep
<1>9. CASE BoardStep /\ UNCHANGED host
  BY <1>9, BoardStepStep
<1>10. CASE Late
  <2>1. IsProgram(host')
    BY <1>10, TimesOut DEF Late, PromptInv
  <2>2. Sequence(faults') /\ faults' # <<>> /\ trades' = trades
    BY <1>10, Disturbed DEF Late, PromptInv
  <2> QED BY <2>1, <2>2 DEF PromptInv
<1>11. CASE LinkFault /\ UNCHANGED host
  <2>1. \E what, commands, answers : Disturb(what, commands, answers)
    BY <1>11 DEF LinkFault, LoseCommand, DuplicateCommand, LoseAnswer, DuplicateAnswer,
                 ReorderAnswers, Foreign
  <2>2. Sequence(faults') /\ faults' # <<>> /\ trades' = trades
    BY <2>1, Disturbed DEF PromptInv
  <2> QED BY <1>11, <2>2 DEF PromptInv
<1>12. CASE UNCHANGED vars
  BY <1>12 DEF vars, linkVars, boardVars, PromptInv, Prompting, IsAnswer, Waiting, Asking,
               Answering, Delivering, Quiet
<1> QED BY <1>1, <1>2, <1>3, <1>4, <1>5, <1>6, <1>7, <1>8, <1>9, <1>10, <1>11, <1>12
    DEF Next, Progress

\* print_transaction shows a command's own answer and pairs the reports rightly.
LEMMA PromptShows ==
    PromptInv => ShowsItsAnswer
<1> SUFFICES ASSUME PromptInv, host.shown # Nothing, faults = <<>>
             PROVE  /\ host.shown.ack = ack
                    /\ Printed(host.shown.reps) = [n \in DOMAIN trades |-> Line(trades[n])]
  BY DEF ShowsItsAnswer, Line
<1>1. PICK first : host.shown = [ack |-> ack, reps |-> AllReports(trades, first)]
  BY DEF PromptInv, Prompting, IsAnswer
<1>2. host.shown.ack = ack /\ host.shown.reps = AllReports(trades, first)
  BY <1>1
<1>3. Sequence(trades) /\ DOMAIN trades = 1 .. Len(trades)
  BY Grows DEF PromptInv
<1>4. Printed(AllReports(trades, first)) = [n \in 1 .. Len(trades) |-> Line(trades[n])]
  BY <1>3, PrintsTheTrades
<1> QED BY <1>2, <1>3, <1>4

-----------------------------------------------------------------------------
\* The prompt shows a command's own answer: its acknowledgement, and a line for
\* each of its trades, whatever programs ran before and whatever is on the board, for
\* every size of board and range of prices and quantities (video_demo.py
\* receive_transaction, print_transaction, print_execution_reports).
THEOREM PromptShowsItsAnswer == Spec => []ShowsItsAnswer
<1>1. Init => PromptInv
  BY PromptInit
<1>2. PromptInv /\ [Next]_vars => PromptInv'
  BY PromptStep
<1>3. PromptInv => ShowsItsAnswer
  BY PromptShows
<1> QED BY <1>1, <1>2, <1>3, PTL DEF Spec

-----------------------------------------------------------------------------
(* The reference's book, as the theorems about the feed know it: the same   *)
(* operators, for the orders that a test host may send.                     *)

Feed == INSTANCE OrderFlowProofs WITH
    PriceMin <- 1, PriceMax <- NumLevels - 1, MaxQuantity <- MaxQuantity + 100,
    MaxSteps <- BoardOrders - 1, MaxLag <- 0,
    gen <- 0, shown <- 0, sent <- 0, feed <- 0, faults <- 0, ref <- 0, rx <- 0

\* The feed's theorems hold of it: prices inside the board's levels, quantities up to
\* what a program may send, as many orders as the board has room for.
LEMMA FeedOK == Feed!RangeAssumption /\ Feed!StepsAssumption /\ Feed!NumLevelsAssumption
BY RangeAssumption, NumLevelsAssumption, BoardAssumption
   DEF Feed!RangeAssumption, Feed!StepsAssumption, Feed!NumLevelsAssumption, Feed!Level, Level

\* What the instance calls by the same name is the same.
LEMMA FeedBest ==
    /\ Feed!NoPrice = NoPrice /\ Feed!Side = Side /\ Feed!Level = Level
    /\ \A s, p, q : Feed!Better(s, p, q) <=> Better(s, p, q)
    /\ \A b, s : Feed!Standing(b, s) = Standing(b, s)
    /\ \A s, T : Feed!Best(s, T) = Best(s, T)
    /\ \A b, s : Feed!BestPrice(b, s) = BestPrice(b, s)
    /\ \A b : Feed!Crossed(b) <=> Crossed(b)
    /\ \A b : Feed!OrderIds(b) = OrderIds(b)
<1>1. Feed!NoPrice = NoPrice /\ Feed!Side = Side /\ Feed!Level = Level
  BY DEF Feed!NoPrice, NoPrice, Feed!Side, Side, Feed!Level, Level
<1>2. \A b, s : Feed!Standing(b, s) = Standing(b, s)
  BY DEF Feed!Standing, Standing, Feed!BagToSet, BagToSet
<1>3. \A s, T : Feed!Best(s, T) = Best(s, T)
  BY Zenon DEF Feed!Best, Best, Feed!Better, Better, Feed!NoPrice, NoPrice
<1>4. \A b, s : Feed!BestPrice(b, s) = BestPrice(b, s)
  BY <1>2, <1>3 DEF Feed!BestPrice, BestPrice
<1>5. \A b : Feed!Crossed(b) <=> Crossed(b)
  BY <1>1, <1>4 DEF Feed!Crossed, Crossed
<1>6. \A s, p, q : Feed!Better(s, p, q) <=> Better(s, p, q)
  BY DEF Feed!Better, Better
<1>7. \A b : Feed!OrderIds(b) = OrderIds(b)
  BY DEF Feed!OrderIds, OrderIds
<1> QED BY <1>1, <1>2, <1>3, <1>4, <1>5, <1>6, <1>7

LEMMA FeedPeek == \A b, s : Feed!Peek(b, s) = Peek(b, s)
<1> SUFFICES ASSUME NEW b, NEW s PROVE Feed!Peek(b, s) = Peek(b, s)
  OBVIOUS
<1> DEFINE best == BestPrice(b, s)
<1>1. Feed!BestPrice(b, s) = best /\ Feed!NoPrice = NoPrice
  BY FeedBest
<1>2. Feed!Peek(b, s) = [b EXCEPT !.heap[s] = Feed!RestrictDomain(@, LAMBDA p : best # NoPrice /\ ~Feed!Better(s, p, best))]
  BY <1>1 DEF Feed!Peek
<1> HIDE DEF best
<1>3. Feed!Peek(b, s) = [b EXCEPT !.heap[s] = RestrictDomain(@, LAMBDA p : best # NoPrice /\ ~Better(s, p, best))]
  BY <1>2 DEF Feed!RestrictDomain, RestrictDomain, Feed!Restrict, Restrict, Feed!Better, Better
<1> QED BY <1>3 DEF Peek, best

LEMMA FeedInsert == \A b, o : Feed!Insert(b, o) = Insert(b, o)
BY DEF Feed!Insert, Insert, Feed!Put, Put, Feed!SetToBag, SetToBag, Feed!\oplus, \oplus

LEMMA FeedDiscard == \A b, id : Feed!Discard(b, id) = Discard(b, id)
<1>1. \A b, o : Feed!Unqueue(b, o) = Unqueue(b, o)
  <2>1. \A s, e : Feed!RemoveFirst(s, e) = RemoveFirst(s, e)
    BY DEF Feed!RemoveFirst, RemoveFirst, Feed!RemoveAt, RemoveAt, Feed!SelectInSeq, SelectInSeq, Feed!Min, Min
  <2> QED BY <2>1 DEF Feed!Unqueue, Unqueue, Feed!RestrictDomain, RestrictDomain, Feed!Restrict, Restrict
<1> QED BY <1>1 DEF Feed!Discard, Discard, Feed!RestrictDomain, RestrictDomain, Feed!Restrict, Restrict

LEMMA FeedReduce == \A b, id, q : Feed!Reduce(b, id, q) = Reduce(b, id, q)
BY FeedDiscard DEF Feed!Reduce, Reduce

LEMMA FeedHeads == \A m : Feed!TradeHeads(m) = TradeHeads(m)
<1>1. \A S : Feed!Min(S) = Min(S) /\ Feed!Max(S) = Max(S)
  BY DEF Feed!Min, Min, Feed!Max, Max
<1>2. \A buy, sell, price, qty, ts : Feed!Trade(buy, sell, price, qty, ts) = Trade(buy, sell, price, qty, ts)
  BY DEF Feed!Trade, Trade
<1> QED BY <1>1, <1>2, FeedReduce, FeedBest DEF Feed!TradeHeads, TradeHeads

LEMMA FeedTurn == \A m : Feed!Turn(m) = Turn(m)
BY FeedPeek, FeedBest, FeedHeads DEF Feed!Turn, Turn

LEMMA FeedResting == \A b : Feed!Resting(b) = Resting(b)
BY DEF Feed!Resting, Resting, Feed!Queue, Queue, Feed!Side, Side, Feed!Level, Level
LEMMA FeedTypes ==
    /\ Feed!EmptyBook = EmptyBook
    /\ \A id, side, price, qty, ts :
         Feed!Order(id, side, price, qty, ts) = Order(id, side, price, qty, ts)
BY DEF Feed!EmptyBook, EmptyBook, Feed!Order, Order, Feed!Side, Side, Feed!EmptyBag, EmptyBag, Feed!SetToBag, SetToBag
\* Matching too, a fold over as many turns as there are orders.
LEMMA FeedMatch == \A b : Feed!MatchOrders(b) = MatchOrders(b)
<1> SUFFICES ASSUME NEW b PROVE Feed!MatchOrders(b) = MatchOrders(b)
  OBVIOUS
<1> DEFINE turns == Cardinality(OrderIds(b)) + 1
           start == [book |-> b, trades |-> <<>>, err |-> ""]
           A(f)  == [n \in 0 .. turns |-> IF n = 0 THEN start ELSE Feed!Turn(f[n - 1])]
           B(f)  == [n \in 0 .. turns |-> IF n = 0 THEN start ELSE Turn(f[n - 1])]
<1>1. Feed!Cardinality(Feed!OrderIds(b)) + 1 = turns
  <2>1. \A S : Feed!Cardinality(S) = Cardinality(S)
    BY DEF Feed!Cardinality, Cardinality
  <2> QED BY <2>1, FeedBest
<1>2. \A f : A(f) = B(f)
  <2> HIDE DEF turns, start
  <2> QED BY FeedTurn
<1>3. MatchOrders(b) = (CHOOSE f : f = B(f))[turns]
  BY DEF MatchOrders
<1>4. Feed!MatchOrders(b) = (CHOOSE f : f = A(f))[turns]
  <2> HIDE DEF turns
  <2> QED BY <1>1 DEF Feed!MatchOrders
<1> HIDE DEF A, B
<1>5. (CHOOSE f : f = A(f)) = (CHOOSE f : f = B(f))
  BY <1>2
<1> HIDE DEF turns
<1> QED BY <1>3, <1>4, <1>5

\* So the methods of the book are the same,
LEMMA FeedMethods ==
    /\ \A b, o : Feed!AddOrder(b, o) = AddOrder(b, o)
    /\ \A b, id : Feed!CancelOrder(b, id) = CancelOrder(b, id)
    /\ \A b, id, qty, price, ts :
         Feed!ModifyOrder(b, id, qty, price, ts) = ModifyOrder(b, id, qty, price, ts)
    /\ \A b, id, qty, ts : Feed!ExecuteOrder(b, id, qty, ts) = ExecuteOrder(b, id, qty, ts)
<1>1. /\ \A b, err : Feed!Raise(b, err) = Raise(b, err)
      /\ \A b, made : Feed!Done(b, made) = Done(b, made)
      /\ \A buy, sell, price, qty, ts :
           Feed!Trade(buy, sell, price, qty, ts) = Trade(buy, sell, price, qty, ts)
  BY DEF Feed!Raise, Raise, Feed!Done, Done, Feed!Trade, Trade
<1>2. \A b, o : Feed!AddOrder(b, o) = AddOrder(b, o)
  BY <1>1, FeedMatch, FeedInsert, FeedBest DEF Feed!AddOrder, AddOrder
<1>3. \A b, id : Feed!CancelOrder(b, id) = CancelOrder(b, id)
  BY <1>1, FeedDiscard, FeedBest DEF Feed!CancelOrder, CancelOrder
<1>4. \A b, id, qty, price, ts :
        Feed!ModifyOrder(b, id, qty, price, ts) = ModifyOrder(b, id, qty, price, ts)
  BY <1>1, FeedMatch, FeedInsert, FeedDiscard, FeedBest, FeedTypes DEF Feed!ModifyOrder, ModifyOrder
<1>5. \A b, id, qty, ts : Feed!ExecuteOrder(b, id, qty, ts) = ExecuteOrder(b, id, qty, ts)
  BY <1>1, FeedReduce, FeedBest DEF Feed!ExecuteOrder, ExecuteOrder
<1> QED BY <1>2, <1>3, <1>4, <1>5

\* and the board's book, which the feed's theorems call its mirror,
LEMMA FeedMirror ==
    /\ \A b : Feed!Mirror!Places(b) = Board!Places(b)
    /\ \A b, k : Feed!Mirror!OrderAt(b, k) = Board!OrderAt(b, k)
    /\ \A b : Feed!Mirror!Live(b) = Board!Live(b)
    /\ \A b, id : Feed!Mirror!PlaceOf(b, id) = Board!PlaceOf(b, id)
    /\ \A b, id : Feed!Mirror!Remaining(b, id) = Board!Remaining(b, id)
    /\ \A b, s : Feed!Mirror!Shown(b, s) = Board!Shown(b, s)
    /\ \A b, s, p, o : Feed!Mirror!Insert(b, s, p, o) = Board!Insert(b, s, p, o)
    /\ \A b, k : Feed!Mirror!Without(b, k) = Board!Without(b, k)
    /\ \A b, k, q : Feed!Mirror!Reduce(b, k, q) = Board!Reduce(b, k, q)
    /\ \A S : Feed!Mirror!Cardinality(S) = Board!Cardinality(S)
<1>1. \A b : Feed!Mirror!Places(b) = Board!Places(b)
  BY DEF Feed!Mirror!Places, Board!Places, Feed!Mirror!Side, Board!Side, Feed!Mirror!Level, Board!Level
<1>2. \A b, k : Feed!Mirror!OrderAt(b, k) = Board!OrderAt(b, k)
  BY DEF Feed!Mirror!OrderAt, Board!OrderAt
<1>3. \A b : Feed!Mirror!Live(b) = Board!Live(b)
  BY <1>1, <1>2 DEF Feed!Mirror!Live, Board!Live
<1>4. \A b, id : Feed!Mirror!PlaceOf(b, id) = Board!PlaceOf(b, id)
  BY <1>1, <1>2 DEF Feed!Mirror!PlaceOf, Board!PlaceOf
<1>5. \A b, id : Feed!Mirror!Remaining(b, id) = Board!Remaining(b, id)
  BY <1>2, <1>3, <1>4 DEF Feed!Mirror!Remaining, Board!Remaining
<1>6. \A b, s : Feed!Mirror!Shown(b, s) = Board!Shown(b, s)
  BY Zenon DEF Feed!Mirror!Shown, Board!Shown, Feed!Mirror!Prices, Board!Prices, Feed!Mirror!Best, Board!Best,
     Feed!Mirror!Better, Board!Better, Feed!Mirror!Level, Board!Level
<1>7. \A b, s, p, o : Feed!Mirror!Insert(b, s, p, o) = Board!Insert(b, s, p, o)
  BY DEF Feed!Mirror!Insert, Board!Insert
<1>8. \A b, k : Feed!Mirror!Without(b, k) = Board!Without(b, k)
  BY DEF Feed!Mirror!Without, Board!Without, Feed!Mirror!RemoveAt, Board!RemoveAt
<1>9. \A b, k, q : Feed!Mirror!Reduce(b, k, q) = Board!Reduce(b, k, q)
  BY <1>2, <1>8 DEF Feed!Mirror!Reduce, Board!Reduce
<1>10. \A S : Feed!Mirror!Cardinality(S) = Board!Cardinality(S)
  BY DEF Feed!Mirror!Cardinality, Board!Cardinality
<1> QED BY <1>1, <1>2, <1>3, <1>4, <1>5, <1>6, <1>7, <1>8, <1>9, <1>10

\* with the rounds of its match.
LEMMA FeedRounds == \A b : Feed!Mirror!Match(b) = Board!Match(b)
<1>1. /\ \A b, s : Feed!Mirror!Prices(b, s) = Board!Prices(b, s)
      /\ \A b, s : Feed!Mirror!Best(b, s) = Board!Best(b, s)
  BY Zenon DEF Feed!Mirror!Prices, Board!Prices, Feed!Mirror!Best, Board!Best,
     Feed!Mirror!Better, Board!Better, Feed!Mirror!Level, Board!Level
<1>2. \A b : Feed!Mirror!Crossed(b) <=> Board!Crossed(b)
  BY <1>1 DEF Feed!Mirror!Crossed, Board!Crossed
<1>3. \A m : Feed!Mirror!TradeOnce(m) = Board!TradeOnce(m)
  BY <1>1, FeedMirror DEF Feed!Mirror!TradeOnce, Board!TradeOnce
<1>4. \A m : Feed!Mirror!Round(m) = Board!Round(m)
  BY <1>2, <1>3 DEF Feed!Mirror!Round, Board!Round
<1> SUFFICES ASSUME NEW b PROVE Feed!Mirror!Match(b) = Board!Match(b)
  OBVIOUS
<1> DEFINE rounds == Board!Cardinality(Board!Places(b))
           start == [book |-> b, trades |-> <<>>]
           A(f)  == [n \in 0 .. rounds |-> IF n = 0 THEN start ELSE Feed!Mirror!Round(f[n - 1])]
           B(f)  == [n \in 0 .. rounds |-> IF n = 0 THEN start ELSE Board!Round(f[n - 1])]
<1>5. Feed!Mirror!Cardinality(Feed!Mirror!Places(b)) = rounds
  BY FeedMirror
<1>6. \A f : A(f) = B(f)
  <2> HIDE DEF rounds, start
  <2> QED BY <1>4
<1>7. Board!Match(b) = (CHOOSE f : f = B(f))[rounds]
  BY DEF Board!Match
<1>8. Feed!Mirror!Match(b) = (CHOOSE f : f = A(f))[rounds]
  <2> HIDE DEF rounds
  <2> QED BY <1>5 DEF Feed!Mirror!Match
<1> HIDE DEF A, B
<1>9. (CHOOSE f : f = A(f)) = (CHOOSE f : f = B(f))
  BY <1>6
<1> HIDE DEF rounds
<1> QED BY <1>7, <1>8, <1>9

-----------------------------------------------------------------------------
(* The board's book and the reference's: a command they both take.          *)

\* A book of the reference that the board has room for.
Fine(b) == Feed!GoodBook(b) /\ Feed!Fits(b)

\* What the board and the reference tell of the same book is the same.
LEMMA FeedPlaces ==
    ASSUME NEW b, Feed!SoundBook(b), Feed!Fits(b)
    PROVE  /\ Board!Live(Resting(b)) = OrderIds(b)
           /\ Board!Cardinality(Board!Places(Resting(b))) = Cardinality(OrderIds(b))
           /\ \A i : Board!Remaining(Resting(b), i) = IF i \in OrderIds(b) THEN b.orders[i].qty ELSE 0
           /\ Board!Shown(Resting(b), "BUY") = BestPrice(b, "BUY")
           /\ Board!Shown(Resting(b), "SELL") = BestPrice(b, "SELL")
           /\ \A i \in OrderIds(b) : /\ Board!PlaceOf(Resting(b), i)[1] = b.orders[i].side
                                     /\ Board!PlaceOf(Resting(b), i)[2] = b.orders[i].price
                                     /\ b.orders[i] \in Feed!RestingOrder
                                     /\ b.orders[i].id = i
           /\ IsFiniteSet(OrderIds(b)) /\ Cardinality(OrderIds(b)) \in Nat
           /\ Cardinality(OrderIds(b)) <= BoardOrders - 1
<1>1. /\ Feed!Mirror!Live(Feed!Resting(b)) = Feed!OrderIds(b)
      /\ \A i \in Feed!OrderIds(b) : Feed!StandsAt(b, i, Feed!Mirror!PlaceOf(Feed!Resting(b), i))
      /\ \A i : Feed!Mirror!Remaining(Feed!Resting(b), i) =
                  IF i \in Feed!OrderIds(b) THEN b.orders[i].qty ELSE 0
      /\ Feed!Mirror!Cardinality(Feed!Mirror!Places(Feed!Resting(b))) = Feed!Cardinality(Feed!OrderIds(b))
  BY Feed!RestingHolds, FeedOK DEF Feed!RangeAssumption, Feed!StepsAssumption, Feed!NumLevelsAssumption
<1>2. \A s \in Feed!Side : Feed!Mirror!Shown(Feed!Resting(b), s) = Feed!BestPrice(b, s)
  BY Feed!PricesAre, FeedOK DEF Feed!RangeAssumption, Feed!StepsAssumption, Feed!NumLevelsAssumption
<1>3. \A S : Feed!Cardinality(S) = Cardinality(S) /\ (Feed!IsFiniteSet(S) <=> IsFiniteSet(S))
  BY DEF Feed!Cardinality, Cardinality, Feed!IsFiniteSet, IsFiniteSet
<1>4. "BUY" \in Side /\ "SELL" \in Side
  BY DEF Side
<1>5. \A i \in OrderIds(b) : b.orders[i] \in Feed!RestingOrder /\ b.orders[i].id = i
  BY FeedBest DEF Feed!SoundBook, Feed!SoundOrders
<1>6. IsFiniteSet(OrderIds(b)) /\ Cardinality(OrderIds(b)) <= BoardOrders - 1
  BY <1>3, FeedBest DEF Feed!SoundBook, Feed!SoundOrders, Feed!Fits
<1>7. \A i \in OrderIds(b) : /\ Board!PlaceOf(Resting(b), i)[1] = b.orders[i].side
                             /\ Board!PlaceOf(Resting(b), i)[2] = b.orders[i].price
  BY <1>1, FeedBest, FeedMirror, FeedResting DEF Feed!StandsAt
<1>8. Cardinality(OrderIds(b)) \in Nat
  BY <1>6, FS_CardinalityType
<1> QED BY <1>1, <1>2, <1>3, <1>4, <1>5, <1>6, <1>7, <1>8, FeedBest, FeedMirror, FeedResting

\* The board's book after an addition is the reference's.
LEMMA FeedAdds ==
    ASSUME NEW b, Fine(b), NEW o \in Feed!RestingOrder, o.id \notin OrderIds(b),
           Cardinality(OrderIds(b)) < BoardOrders - 1
    PROVE  LET r == AddOrder(b, o) IN
           /\ Board!Match(Board!Insert(Resting(b), o.side, o.price, [id |-> o.id, qty |-> o.qty, ts |-> o.ts]))
                = [book |-> Resting(r.book), trades |-> r.trades]
           /\ Fine(r.book) /\ r.err = "" /\ r.trades \in Seq(Feed!MadeTrade)
<1>1. Feed!SoundBook(b) /\ Feed!Fits(b) /\ o.id \notin Feed!OrderIds(b)
      /\ Feed!Cardinality(Feed!OrderIds(b)) < BoardOrders - 1
  BY FeedBest DEF Fine, Feed!GoodBook, Feed!Cardinality, Cardinality
<1>2. Feed!Mirror!Match(Feed!Mirror!Insert(Feed!Resting(b), o.side, o.price, Feed!Entry(o)))
         = Feed!AsShown(Feed!AddOrder(b, o))
  BY <1>1, Feed!AddRests, FeedOK DEF Feed!RangeAssumption, Feed!StepsAssumption, Feed!NumLevelsAssumption
<1> DEFINE r == AddOrder(b, o)
<1>3. Board!Match(Board!Insert(Resting(b), o.side, o.price, [id |-> o.id, qty |-> o.qty, ts |-> o.ts]))
         = [book |-> Resting(r.book), trades |-> r.trades]
  BY <1>2, FeedMirror, FeedRounds, FeedResting, FeedMethods DEF Feed!AsShown, Feed!Entry
<1>4. /\ Feed!GoodBook(r.book) /\ r.err = "" /\ r.trades \in Seq(Feed!MadeTrade)
      /\ OrderIds(r.book) \subseteq OrderIds(b) \union {o.id}
  <2>1. /\ Feed!GoodBook(Feed!AddOrder(b, o).book)
        /\ o.id \notin Feed!OrderIds(b) =>
             /\ Feed!AddOrder(b, o).err = ""
             /\ Feed!AddOrder(b, o).trades \in Seq(Feed!MadeTrade)
             /\ Feed!OrderIds(Feed!AddOrder(b, o).book) \subseteq Feed!OrderIds(b) \union {o.id}
    BY Feed!AddGood, FeedOK DEF Feed!RangeAssumption, Feed!StepsAssumption, Feed!NumLevelsAssumption, Fine
  <2> QED BY <1>1, <2>1, FeedBest, FeedMethods
<1> HIDE DEF r
<1>5. Feed!Fits(r.book)
  <2>1. IsFiniteSet(OrderIds(b)) /\ Cardinality(OrderIds(b)) \in Nat
    BY <1>1, FeedPlaces
  <2>2. IsFiniteSet(OrderIds(b) \union {o.id}) /\ Cardinality(OrderIds(b) \union {o.id}) = Cardinality(OrderIds(b)) + 1
    BY <2>1, FS_AddElement
  <2>3. Cardinality(OrderIds(r.book)) <= Cardinality(OrderIds(b) \union {o.id})
    BY <1>4, <2>2, FS_Subset
  <2>4. Cardinality(OrderIds(r.book)) \in Nat
    BY <1>4, <2>2, FS_Subset, FS_CardinalityType
  <2>5. Cardinality(OrderIds(r.book)) <= BoardOrders - 1
    BY <2>1, <2>2, <2>3, <2>4, BoardAssumption
  <2> QED BY <2>5, FeedBest DEF Feed!Fits, Feed!Cardinality, Cardinality
<1> QED BY <1>3, <1>4, <1>5 DEF r, Fine

\* A book with fewer orders fits where it did.
LEMMA FewerFit ==
    ASSUME NEW b, Feed!SoundBook(b), Feed!Fits(b), NEW c, OrderIds(c) \subseteq OrderIds(b)
    PROVE  Feed!Fits(c)
<1>1. /\ IsFiniteSet(OrderIds(b)) /\ Cardinality(OrderIds(b)) \in Nat
      /\ Cardinality(OrderIds(b)) <= BoardOrders - 1
  BY FeedPlaces
<1>2. Cardinality(OrderIds(c)) <= Cardinality(OrderIds(b)) /\ Cardinality(OrderIds(c)) \in Nat
  BY <1>1, FS_Subset, FS_CardinalityType
<1>3. Cardinality(OrderIds(c)) <= BoardOrders - 1
  BY <1>1, <1>2, BoardAssumption
<1> QED BY <1>3, FeedBest DEF Feed!Fits, Feed!Cardinality, Cardinality

\* The same after a cancellation,
LEMMA FeedCancels ==
    ASSUME NEW b, Fine(b), NEW id \in OrderIds(b)
    PROVE  LET r == CancelOrder(b, id) IN
           /\ Resting(r.book) = Board!Without(Resting(b), Board!PlaceOf(Resting(b), id))
           /\ r.trades = <<>> /\ id \notin OrderIds(r.book)
           /\ Fine(r.book) /\ r.err = ""
<1>1. Feed!SoundBook(b) /\ Feed!Fits(b) /\ id \in Feed!OrderIds(b) /\ Feed!GoodBook(b)
  BY FeedBest DEF Fine, Feed!GoodBook
<1>2. LET r == Feed!CancelOrder(b, id) IN
        /\ Feed!Resting(r.book) = Feed!Mirror!Without(Feed!Resting(b), Feed!Mirror!PlaceOf(Feed!Resting(b), id))
        /\ r.trades = <<>>
        /\ id \notin Feed!OrderIds(r.book)
  BY <1>1, Feed!CancelRests, FeedOK DEF Feed!RangeAssumption, Feed!StepsAssumption, Feed!NumLevelsAssumption
<1>3. LET r == Feed!CancelOrder(b, id) IN
        Feed!GoodBook(r.book) /\ r.err = "" /\ Feed!OrderIds(r.book) \subseteq Feed!OrderIds(b)
  BY <1>1, Feed!CancelGood, FeedOK DEF Feed!RangeAssumption, Feed!StepsAssumption, Feed!NumLevelsAssumption
<1> DEFINE r == CancelOrder(b, id)
<1>4. r = Feed!CancelOrder(b, id)
  BY FeedMethods
<1> HIDE DEF r
<1>5. /\ Resting(r.book) = Board!Without(Resting(b), Board!PlaceOf(Resting(b), id))
      /\ r.trades = <<>> /\ id \notin OrderIds(r.book)
  BY <1>2, <1>4, FeedResting, FeedMirror, FeedBest
<1>6. Feed!GoodBook(r.book) /\ r.err = "" /\ OrderIds(r.book) \subseteq OrderIds(b)
  BY <1>3, <1>4, FeedBest
<1>7. Feed!Fits(r.book)
  BY <1>1, <1>6, FewerFit
<1> QED BY <1>5, <1>6, <1>7 DEF r, Fine

\* r is the reference's result of a change, and the board's is the same.
Modified(b, id, q, p, ts, r) ==
    LET k == Board!PlaceOf(Resting(b), id) IN
    /\ IF p = b.orders[id].price
       THEN /\ Resting(r.book) = [Resting(b) EXCEPT ![k[1]][k[2]][k[3]].qty = q]
            /\ r.trades = <<>>
            /\ id \in OrderIds(r.book) /\ r.book.orders[id].qty = q
       ELSE Board!Match(Board!Insert(Board!Without(Resting(b), k), k[1], p,
                                     [id |-> id, qty |-> q, ts |-> ts]))
              = [book |-> Resting(r.book), trades |-> r.trades]
    /\ Fine(r.book)

\* a change,
LEMMA FeedModifies ==
    ASSUME NEW b, Fine(b), NEW id \in OrderIds(b), NEW q \in 1 .. MaxQuantity + 100,
           NEW p \in 1 .. NumLevels - 1, NEW ts \in Nat
    PROVE  Modified(b, id, q, p, ts, ModifyOrder(b, id, q, p, ts))
<1>1. Feed!SoundBook(b) /\ Feed!Fits(b) /\ id \in Feed!OrderIds(b) /\ Feed!GoodBook(b)
  BY FeedBest DEF Fine, Feed!GoodBook
<1> DEFINE r == ModifyOrder(b, id, q, p, ts)
           k == Board!PlaceOf(Resting(b), id)
<1>2. r = Feed!ModifyOrder(b, id, q, p, ts)
  BY FeedMethods
<1>3. k = Feed!Mirror!PlaceOf(Feed!Resting(b), id)
  BY FeedMirror, FeedResting
<1>4. Feed!GoodBook(r.book) /\ r.err = "" /\ r.trades \in Seq(Feed!MadeTrade)
      /\ OrderIds(r.book) \subseteq OrderIds(b)
  <2>1. LET x == Feed!ModifyOrder(b, id, q, p, ts) IN
          /\ Feed!GoodBook(x.book) /\ x.err = "" /\ x.trades \in Seq(Feed!MadeTrade)
          /\ Feed!OrderIds(x.book) \subseteq Feed!OrderIds(b)
    BY <1>1, Feed!ModifyGood, FeedOK DEF Feed!RangeAssumption, Feed!StepsAssumption, Feed!NumLevelsAssumption
  <2> QED BY <1>2, <2>1, FeedBest
<1>5. Feed!Fits(r.book)
  BY <1>1, <1>4, FewerFit
<1>6. ASSUME p = b.orders[id].price
      PROVE  /\ Resting(r.book) = [Resting(b) EXCEPT ![k[1]][k[2]][k[3]].qty = q]
             /\ r.trades = <<>>
             /\ id \in OrderIds(r.book) /\ r.book.orders[id].qty = q
  <2>1. Feed!Requantified(b, id, q, Feed!ModifyOrder(b, id, q, b.orders[id].price, ts))
    BY <1>1, Feed!ModifyQtyRests, FeedOK DEF Feed!RangeAssumption, Feed!StepsAssumption, Feed!NumLevelsAssumption
  <2>2. Feed!Requantified(b, id, q, r)
    BY <1>2, <1>6, <2>1
  <2> HIDE DEF r, k
  <2> QED BY <1>3, <2>2, FeedResting, FeedBest DEF Feed!Requantified, Feed!WithQty
<1>7. ASSUME p # b.orders[id].price
      PROVE  Board!Match(Board!Insert(Board!Without(Resting(b), k), k[1], p, [id |-> id, qty |-> q, ts |-> ts]))
               = [book |-> Resting(r.book), trades |-> r.trades]
  <2>1. LET l == Feed!Mirror!PlaceOf(Feed!Resting(b), id)
        IN  Feed!Mirror!Match(Feed!Mirror!Insert(Feed!Mirror!Without(Feed!Resting(b), l), l[1], p,
                                [id |-> id, qty |-> q, ts |-> ts]))
              = Feed!AsShown(Feed!ModifyOrder(b, id, q, p, ts))
    BY <1>1, <1>7, Feed!ModifyPriceRests, FeedOK DEF Feed!RangeAssumption, Feed!StepsAssumption, Feed!NumLevelsAssumption
  <2> HIDE DEF r, k
  <2> QED BY <1>2, <1>3, <2>1, FeedResting, FeedMirror, FeedRounds DEF Feed!AsShown
<1> HIDE DEF r, k
<1>8. Fine(r.book)
  BY <1>4, <1>5 DEF Fine
<1>9. Modified(b, id, q, p, ts, r)
  BY <1>6, <1>7, <1>8 DEF Modified, k
<1> QED BY <1>9 DEF r

\* and an external fill.
LEMMA FeedExecutes ==
    ASSUME NEW b, Fine(b), NEW id \in OrderIds(b), NEW q \in 1 .. b.orders[id].qty, NEW ts
    PROVE  LET r == ExecuteOrder(b, id, q, ts)
               k == Board!PlaceOf(Resting(b), id)
           IN  /\ Resting(r.book) = Board!Reduce(Resting(b), k, q)
               /\ r.trades = <<[buy  |-> IF k[1] = "BUY" THEN id ELSE NoId,
                                sell |-> IF k[1] = "SELL" THEN id ELSE NoId,
                                price |-> k[2], qty |-> q, ts |-> ts]>>
               /\ Board!OrderAt(Resting(b), k).qty = b.orders[id].qty
               /\ (IF id \in OrderIds(r.book) THEN r.book.orders[id].qty ELSE 0) = b.orders[id].qty - q
               /\ Fine(r.book) /\ r.err = ""
<1>1. Feed!SoundBook(b) /\ Feed!Fits(b) /\ id \in Feed!OrderIds(b) /\ Feed!GoodBook(b)
  BY FeedBest DEF Fine, Feed!GoodBook
<1> DEFINE r == ExecuteOrder(b, id, q, ts)
           k == Board!PlaceOf(Resting(b), id)
<1>2. r = Feed!ExecuteOrder(b, id, q, ts)
  BY FeedMethods
<1>3. k = Feed!Mirror!PlaceOf(Feed!Resting(b), id)
  BY FeedMirror, FeedResting
<1>4. LET x == Feed!ExecuteOrder(b, id, q, ts)
          l == Feed!Mirror!PlaceOf(Feed!Resting(b), id)
      IN  /\ Feed!Resting(x.book) = Feed!Mirror!Reduce(Feed!Resting(b), l, q)
          /\ x.trades = <<[buy  |-> IF l[1] = "BUY" THEN id ELSE NoId,
                           sell |-> IF l[1] = "SELL" THEN id ELSE NoId,
                           price |-> l[2], qty |-> q, ts |-> ts]>>
          /\ Feed!Mirror!OrderAt(Feed!Resting(b), l).qty = b.orders[id].qty
          /\ (IF id \in Feed!OrderIds(x.book) THEN x.book.orders[id].qty ELSE 0) = b.orders[id].qty - q
  BY <1>1, Feed!ExecuteRests, FeedOK DEF Feed!RangeAssumption, Feed!StepsAssumption, Feed!NumLevelsAssumption
<1>5. Feed!GoodBook(r.book) /\ r.err = "" /\ OrderIds(r.book) \subseteq OrderIds(b)
  <2>1. q \in Nat
    BY <1>1, FeedPlaces, RangeAssumption DEF Feed!RestingOrder
  <2>2. LET x == Feed!ExecuteOrder(b, id, q, ts) IN
          Feed!GoodBook(x.book) /\ x.err = "" /\ Feed!OrderIds(x.book) \subseteq Feed!OrderIds(b)
    BY <1>1, <2>1, Feed!ExecuteGood, FeedOK DEF Feed!RangeAssumption, Feed!StepsAssumption, Feed!NumLevelsAssumption
  <2> QED BY <1>2, <2>2, FeedBest
<1>6. Feed!Fits(r.book)
  BY <1>1, <1>5, FewerFit
<1> HIDE DEF r, k
<1>7. /\ Resting(r.book) = Board!Reduce(Resting(b), k, q)
      /\ r.trades = <<[buy  |-> IF k[1] = "BUY" THEN id ELSE NoId,
                       sell |-> IF k[1] = "SELL" THEN id ELSE NoId,
                       price |-> k[2], qty |-> q, ts |-> ts]>>
      /\ Board!OrderAt(Resting(b), k).qty = b.orders[id].qty
      /\ (IF id \in OrderIds(r.book) THEN r.book.orders[id].qty ELSE 0) = b.orders[id].qty - q
  BY <1>2, <1>3, <1>4, FeedResting, FeedMirror, FeedBest
<1> QED BY <1>5, <1>6, <1>7 DEF r, k, Fine

Quantities == 0 .. MaxQuantity + 100

\* An order event that a test host may send.
Sendable(m) ==
    /\ m.type \in MsgType /\ m.side \in Side /\ m.id \in Nat /\ m.price \in Nat
    /\ m.qty \in Quantities /\ m.ts \in Nat
    /\ m.type = "EXECUTE" => m.external = TRUE

\* What the reference's book makes of it.
Taken(b, m) ==
    CASE m.type = "ADD"    -> AddOrder(b, Order(m.id, m.side, m.price, m.qty, m.ts))
      [] m.type = "CANCEL" -> CancelOrder(b, m.id)
      [] m.type = "MODIFY" -> ModifyOrder(b, m.id, m.qty, m.price, m.ts)
      [] OTHER             -> ExecuteOrder(b, m.id, m.qty, m.ts)

\* The reference takes it without an exception.
InOrder(b, m) == Taken(b, m).err = ""

\* The board did as the reference with the result res,
Followed(m, res) ==
    /\ book' = Resting(res.book) /\ trades' = res.trades
    /\ ack' = ExpectedAck(m, "OK", res.book)

\* or refused with status st.
Refused(st) == book' = book /\ trades' = <<>> /\ ack'.status = st

\* An answer that tells the reference's book is the one expected.
LEMMA AnswerExpected ==
    ASSUME NEW m, NEW b, Fine(b), NEW made, NEW rem,
           Board!Answer(Bare(m), "OK", rem, made, Resting(b)),
           rem = IF m.id \in OrderIds(b) THEN b.orders[m.id].qty ELSE 0
    PROVE  /\ book' = Resting(b) /\ trades' = made
           /\ ack' = ExpectedAck(m, "OK", b)
<1>1. /\ Board!Shown(Resting(b), "BUY") = BestPrice(b, "BUY")
      /\ Board!Shown(Resting(b), "SELL") = BestPrice(b, "SELL")
      /\ Board!Cardinality(Board!Places(Resting(b))) = Cardinality(OrderIds(b))
  BY FeedPlaces DEF Fine, Feed!GoodBook
<1>2. Bare(m).id = m.id
  BY DEF Bare
<1> QED BY <1>1, <1>2 DEF Board!Answer, ExpectedAck

\* The board refuses.
LEMMA RefusedBy ==
    ASSUME NEW c, NEW st, NEW rem, Board!Reject(c, st, rem)
    PROVE  Refused(st)
BY DEF Board!Reject, Board!Answer, Refused

\* What the book makes of a message is what its methods make of it.
LEMMA TakenIs ==
    ASSUME NEW b, NEW m
    PROVE  /\ m.type = "ADD" => Taken(b, m) = AddOrder(b, Order(m.id, m.side, m.price, m.qty, m.ts))
           /\ m.type = "CANCEL" => Taken(b, m) = CancelOrder(b, m.id)
           /\ m.type = "MODIFY" => Taken(b, m) = ModifyOrder(b, m.id, m.qty, m.price, m.ts)
           /\ m.type = "EXECUTE" => Taken(b, m) = ExecuteOrder(b, m.id, m.qty, m.ts)
<1>1. ASSUME m.type = "ADD"
      PROVE  Taken(b, m) = AddOrder(b, Order(m.id, m.side, m.price, m.qty, m.ts))
  BY <1>1 DEF Taken
<1>2. ASSUME m.type = "CANCEL" PROVE Taken(b, m) = CancelOrder(b, m.id)
  BY <1>2 DEF Taken
<1>3. ASSUME m.type = "MODIFY" PROVE Taken(b, m) = ModifyOrder(b, m.id, m.qty, m.price, m.ts)
  BY <1>3 DEF Taken
<1>4. ASSUME m.type = "EXECUTE" PROVE Taken(b, m) = ExecuteOrder(b, m.id, m.qty, m.ts)
  BY <1>4 DEF Taken
<1> QED BY <1>1, <1>2, <1>3, <1>4

\* An exception has a name.
LEMMA Raises ==
    ASSUME NEW b
    PROVE  /\ Raise(b, "ValueError").err # ""
           /\ Raise(b, "DuplicateOrderError").err # ""
           /\ Raise(b, "OrderNotFoundError").err # ""
BY DEF Raise

\* What a book takes without an exception is in order.
LEMMA MethodsRaise ==
    ASSUME NEW b
    PROVE  /\ \A o : AddOrder(b, o).err = "" =>
                  ~(o.price <= 0) /\ ~(o.qty <= 0) /\ o.id \notin OrderIds(b)
           /\ \A id : CancelOrder(b, id).err = "" => id \in OrderIds(b)
           /\ \A id, qty, price, ts : ModifyOrder(b, id, qty, price, ts).err = "" =>
                  id \in OrderIds(b) /\ ~(qty <= 0) /\ ~(price <= 0)
           /\ \A id, qty, ts : ExecuteOrder(b, id, qty, ts).err = "" =>
                  id \in OrderIds(b) /\ ~(qty <= 0) /\ ~(qty > b.orders[id].qty)
<1>1. ASSUME NEW o, AddOrder(b, o).err = ""
      PROVE  ~(o.price <= 0) /\ ~(o.qty <= 0) /\ o.id \notin OrderIds(b)
  BY <1>1, Raises DEF AddOrder
<1>2. ASSUME NEW id, CancelOrder(b, id).err = "" PROVE id \in OrderIds(b)
  BY <1>2, Raises DEF CancelOrder
<1>3. ASSUME NEW id, NEW qty, NEW price, NEW ts, ModifyOrder(b, id, qty, price, ts).err = ""
      PROVE  id \in OrderIds(b) /\ ~(qty <= 0) /\ ~(price <= 0)
  BY <1>3, Raises DEF ModifyOrder
<1>4. ASSUME NEW id, NEW qty, NEW ts, ExecuteOrder(b, id, qty, ts).err = ""
      PROVE  id \in OrderIds(b) /\ ~(qty <= 0) /\ ~(qty > b.orders[id].qty)
  BY <1>4, Raises DEF ExecuteOrder
<1> QED BY <1>1, <1>2, <1>3, <1>4

\* What a command that is in order asks for.
LEMMA TakenInOrder ==
    ASSUME NEW b, Fine(b), NEW m, Sendable(m), InOrder(b, m)
    PROVE  /\ m.type # "ADD" => m.id \in OrderIds(b)
           /\ m.type = "ADD" => m.id \notin OrderIds(b)
           /\ m.type \in {"ADD", "MODIFY"} => m.price > 0 /\ m.qty > 0
           /\ m.type = "EXECUTE" => m.qty \in 1 .. b.orders[m.id].qty
<1>1. m.price \in Nat /\ m.qty \in Nat
  BY RangeAssumption DEF Sendable, Quantities
<1>3. CASE m.type = "ADD"
  <2> DEFINE o == Order(m.id, m.side, m.price, m.qty, m.ts)
  <2>1. o.price = m.price /\ o.qty = m.qty /\ o.id = m.id
    BY DEF Order
  <2>2. AddOrder(b, o).err = ""
    BY <1>3, TakenIs DEF InOrder
  <2> HIDE DEF o
  <2>3. ~(o.price <= 0) /\ ~(o.qty <= 0) /\ o.id \notin OrderIds(b)
    BY <2>2, MethodsRaise
  <2>4. m.price > 0 /\ m.qty > 0
    BY <1>1, <2>1, <2>3
  <2> QED BY <1>3, <2>1, <2>3, <2>4
<1>4. CASE m.type = "CANCEL"
  <2>1. CancelOrder(b, m.id).err = ""
    BY <1>4, TakenIs DEF InOrder
  <2> QED BY <1>4, <2>1, MethodsRaise
<1>5. CASE m.type = "MODIFY"
  <2>1. ModifyOrder(b, m.id, m.qty, m.price, m.ts).err = ""
    BY <1>5, TakenIs DEF InOrder
  <2>2. m.id \in OrderIds(b) /\ ~(m.qty <= 0) /\ ~(m.price <= 0)
    BY <2>1, MethodsRaise
  <2>4. m.price > 0 /\ m.qty > 0
    BY <1>1, <2>2
  <2> QED BY <1>5, <2>2, <2>4
<1>6. CASE m.type = "EXECUTE"
  <2>1. ExecuteOrder(b, m.id, m.qty, m.ts).err = ""
    BY <1>6, TakenIs DEF InOrder
  <2>2. m.id \in OrderIds(b) /\ ~(m.qty <= 0) /\ ~(m.qty > b.orders[m.id].qty)
    BY <2>1, MethodsRaise
  <2>4. b.orders[m.id].qty \in Nat
    <3>1. b.orders[m.id] \in Feed!RestingOrder
      BY <2>2, FeedPlaces DEF Fine, Feed!GoodBook
    <3>2. b.orders[m.id].qty \in 1 .. MaxQuantity + 100
      BY <3>1 DEF Feed!RestingOrder
    <3> QED BY <3>2, RangeAssumption
  <2>5. m.qty \in 1 .. b.orders[m.id].qty
    BY <1>1, <2>2, <2>4
  <2> QED BY <1>6, <2>2, <2>5
<1> QED BY <1>3, <1>4, <1>5, <1>6 DEF Sendable, MsgType

\* What the board is told.
LEMMA BareIs ==
    ASSUME NEW m
    PROVE  /\ Bare(m).type = m.type /\ Bare(m).side = m.side /\ Bare(m).id = m.id
           /\ Bare(m).price = m.price /\ Bare(m).qty = m.qty /\ Bare(m).ts = m.ts
BY DEF Bare

\* What the board takes, an addition.
LEMMA AddsAlike ==
    ASSUME NEW b, Fine(b), book = Resting(b), NEW m, Sendable(m), InOrder(b, m),
           Board!Add(Bare(m))
    PROVE  Followed(m, Taken(b, m)) /\ Fine(Taken(b, m).book)
<1> DEFINE c == Bare(m)
           o == Order(m.id, m.side, m.price, m.qty, m.ts)
           r == AddOrder(b, o)
<1>1. /\ m.type = "ADD" /\ ~Board!BadField(c)
      /\ Board!Cardinality(Board!Places(book)) < BoardOrders - 1 /\ m.id \notin Board!Live(book)
      /\ LET x == Board!Match(Board!Insert(book, m.side, m.price, Board!Order(m.id, m.qty, m.ts)))
         IN  Board!Answer(c, "OK", Board!Remaining(x.book, m.id), x.trades, x.book)
  BY BareIs DEF Board!Add
<1>2. Taken(b, m) = r
  BY <1>1, TakenIs
<1>3. /\ o.id = m.id /\ o.side = m.side /\ o.price = m.price /\ o.qty = m.qty /\ o.ts = m.ts
      /\ o = [id |-> m.id, side |-> m.side, price |-> m.price, qty |-> m.qty, ts |-> m.ts]
  BY DEF Order
<1>4. m.price \in Nat /\ m.qty \in 0 .. MaxQuantity + 100 /\ m.id \in Nat /\ m.ts \in Nat /\ m.side \in Side
  BY DEF Sendable, Quantities
<1>5. m.price > 0 /\ m.qty > 0 /\ m.id \notin OrderIds(b)
  BY <1>1, TakenInOrder
<1>6. m.price < NumLevels
  BY <1>1, BareIs DEF Board!BadField, Board!PriceInRange
<1>7. m.price \in 1 .. NumLevels - 1 /\ m.qty \in 1 .. MaxQuantity + 100
  BY <1>4, <1>5, <1>6, NumLevelsAssumption, RangeAssumption
<1>8. o \in Feed!RestingOrder
  <2> HIDE DEF o
  <2> QED BY <1>3, <1>4, <1>7, FeedBest DEF Feed!RestingOrder
<1>9. Board!Cardinality(Board!Places(book)) = Cardinality(OrderIds(b))
  BY FeedPlaces DEF Fine, Feed!GoodBook
<1> HIDE DEF o
<1>10. /\ Board!Match(Board!Insert(Resting(b), o.side, o.price, [id |-> o.id, qty |-> o.qty, ts |-> o.ts]))
             = [book |-> Resting(r.book), trades |-> r.trades]
       /\ Fine(r.book)
  BY <1>1, <1>3, <1>5, <1>8, <1>9, FeedAdds
<1> HIDE DEF r, c
<1>11. Board!Answer(c, "OK", Board!Remaining(Resting(r.book), m.id), r.trades, Resting(r.book))
  <2>1. Board!Order(m.id, m.qty, m.ts) = [id |-> m.id, qty |-> m.qty, ts |-> m.ts]
    BY DEF Board!Order
  <2> QED BY <1>1, <1>3, <1>10, <2>1
<1>12. Board!Remaining(Resting(r.book), m.id) = IF m.id \in OrderIds(r.book) THEN r.book.orders[m.id].qty ELSE 0
  BY <1>10, FeedPlaces DEF Fine, Feed!GoodBook
<1>13. /\ book' = Resting(r.book) /\ trades' = r.trades
       /\ ack' = ExpectedAck(m, "OK", r.book)
  BY <1>10, <1>11, <1>12, AnswerExpected DEF c
<1> QED BY <1>2, <1>10, <1>13 DEF Followed

\* a cancellation,
LEMMA CancelsAlike ==
    ASSUME NEW b, Fine(b), book = Resting(b), NEW m, Sendable(m), InOrder(b, m),
           Board!Cancel(Bare(m))
    PROVE  Followed(m, Taken(b, m)) /\ Fine(Taken(b, m).book)
<1> DEFINE r == CancelOrder(b, m.id)
<1>1. /\ m.type = "CANCEL"
      /\ Board!Answer(Bare(m), "OK", 0, <<>>, Board!Without(book, Board!PlaceOf(book, m.id)))
  BY BareIs DEF Board!Cancel
<1>2. Taken(b, m) = r /\ m.id \in OrderIds(b)
  BY <1>1, TakenIs, TakenInOrder
<1>3. /\ Resting(r.book) = Board!Without(Resting(b), Board!PlaceOf(Resting(b), m.id))
      /\ r.trades = <<>> /\ m.id \notin OrderIds(r.book) /\ Fine(r.book)
  BY <1>2, FeedCancels
<1> HIDE DEF r
<1>4. /\ book' = Resting(r.book) /\ trades' = r.trades
      /\ ack' = ExpectedAck(m, "OK", r.book)
  BY <1>1, <1>3, AnswerExpected
<1> QED BY <1>2, <1>3, <1>4 DEF Followed

\* a change,
LEMMA ModifiesAlike ==
    ASSUME NEW b, Fine(b), book = Resting(b), NEW m, Sendable(m), InOrder(b, m),
           Board!ModifyQty(Bare(m)) \/ Board!ModifyPrice(Bare(m))
    PROVE  Followed(m, Taken(b, m)) /\ Fine(Taken(b, m).book)
<1> DEFINE r == ModifyOrder(b, m.id, m.qty, m.price, m.ts)
           k == Board!PlaceOf(Resting(b), m.id)
<1>1. /\ m.type = "MODIFY" /\ ~Board!BadField(Bare(m))
      /\ \/ /\ m.price = k[2]
            /\ Board!Answer(Bare(m), "OK", m.qty, <<>>, [book EXCEPT ![k[1]][k[2]][k[3]].qty = m.qty])
         \/ /\ m.price # k[2]
            /\ LET x == Board!Match(Board!Insert(Board!Without(book, k), k[1], m.price,
                                                 Board!Order(m.id, m.qty, m.ts)))
               IN  Board!Answer(Bare(m), "OK", Board!Remaining(x.book, m.id), x.trades, x.book)
  BY BareIs DEF Board!ModifyQty, Board!ModifyPrice
<1>2. Taken(b, m) = r /\ m.id \in OrderIds(b)
  BY <1>1, TakenIs, TakenInOrder
<1>4. m.price \in Nat /\ m.qty \in 0 .. MaxQuantity + 100 /\ m.ts \in Nat
  BY DEF Sendable, Quantities
<1>5. m.price > 0 /\ m.qty > 0
  BY <1>1, TakenInOrder
<1>6. m.price < NumLevels
  BY <1>1, BareIs DEF Board!BadField, Board!PriceInRange
<1>7. m.price \in 1 .. NumLevels - 1 /\ m.qty \in 1 .. MaxQuantity + 100
  BY <1>4, <1>5, <1>6, NumLevelsAssumption, RangeAssumption
<1>8. k[2] = b.orders[m.id].price
  BY <1>2, FeedPlaces DEF Fine, Feed!GoodBook
<1>9. /\ IF m.price = b.orders[m.id].price
         THEN /\ Resting(r.book) = [Resting(b) EXCEPT ![k[1]][k[2]][k[3]].qty = m.qty]
              /\ r.trades = <<>>
              /\ m.id \in OrderIds(r.book) /\ r.book.orders[m.id].qty = m.qty
         ELSE Board!Match(Board!Insert(Board!Without(Resting(b), k), k[1], m.price,
                                       [id |-> m.id, qty |-> m.qty, ts |-> m.ts]))
                = [book |-> Resting(r.book), trades |-> r.trades]
      /\ Fine(r.book)
  <2> DEFINE i == m.id
             q == m.qty
             p == m.price
             t == m.ts
  <2>1. i \in OrderIds(b) /\ q \in 1 .. MaxQuantity + 100 /\ p \in 1 .. NumLevels - 1 /\ t \in Nat
    BY <1>2, <1>4, <1>7
  <2> HIDE DEF i, q, p, t
  <2>2. Modified(b, i, q, p, t, ModifyOrder(b, i, q, p, t))
    BY <2>1, FeedModifies
  <2>3. Modified(b, m.id, m.qty, m.price, m.ts, r)
    BY <2>2 DEF i, q, p, t
  <2> HIDE DEF r
  <2> QED BY <2>3 DEF Modified
<1> HIDE DEF r, k
<1>10. CASE m.price = k[2]
  <2>1. Board!Answer(Bare(m), "OK", m.qty, r.trades, Resting(r.book))
    BY <1>1, <1>8, <1>9, <1>10
  <2>2. m.qty = IF m.id \in OrderIds(r.book) THEN r.book.orders[m.id].qty ELSE 0
    BY <1>8, <1>9, <1>10
  <2>3. /\ book' = Resting(r.book) /\ trades' = r.trades
        /\ ack' = ExpectedAck(m, "OK", r.book)
    BY <1>9, <2>1, <2>2, AnswerExpected
  <2> QED BY <1>2, <1>9, <2>3 DEF Followed
<1>11. CASE m.price # k[2]
  <2>1. Board!Order(m.id, m.qty, m.ts) = [id |-> m.id, qty |-> m.qty, ts |-> m.ts]
    BY DEF Board!Order
  <2>2. Board!Answer(Bare(m), "OK", Board!Remaining(Resting(r.book), m.id), r.trades, Resting(r.book))
    <3> DEFINE x == Board!Match(Board!Insert(Board!Without(book, k), k[1], m.price,
                                                 Board!Order(m.id, m.qty, m.ts)))
    <3>1. Board!Answer(Bare(m), "OK", Board!Remaining(x.book, m.id), x.trades, x.book)
      BY <1>1, <1>11
    <3>2. x = [book |-> Resting(r.book), trades |-> r.trades]
      BY <1>8, <1>9, <1>11, <2>1
    <3> HIDE DEF x
    <3>3. x.book = Resting(r.book) /\ x.trades = r.trades
      BY <3>2
    <3> QED BY <3>1, <3>3
  <2>3. Board!Remaining(Resting(r.book), m.id) = IF m.id \in OrderIds(r.book) THEN r.book.orders[m.id].qty ELSE 0
    BY <1>9, FeedPlaces DEF Fine, Feed!GoodBook
  <2>4. /\ book' = Resting(r.book) /\ trades' = r.trades
        /\ ack' = ExpectedAck(m, "OK", r.book)
    BY <1>9, <2>2, <2>3, AnswerExpected
  <2> QED BY <1>2, <1>9, <2>4 DEF Followed
<1> QED BY <1>10, <1>11

\* and an external fill.
LEMMA ExecutesAlike ==
    ASSUME NEW b, Fine(b), book = Resting(b), NEW m, Sendable(m), InOrder(b, m),
           Board!Execute(Bare(m))
    PROVE  Followed(m, Taken(b, m)) /\ Fine(Taken(b, m).book)
<1> DEFINE r == ExecuteOrder(b, m.id, m.qty, m.ts)
           k == Board!PlaceOf(Resting(b), m.id)
           o == Board!OrderAt(Resting(b), k)
<1>1. /\ m.type = "EXECUTE"
      /\ Board!Answer(Bare(m), "OK", o.qty - m.qty,
                      <<[buy  |-> IF k[1] = "BUY" THEN m.id ELSE NoId,
                         sell |-> IF k[1] = "SELL" THEN m.id ELSE NoId,
                         price |-> k[2], qty |-> m.qty, ts |-> m.ts]>>,
                      Board!Reduce(book, k, m.qty))
  BY BareIs DEF Board!Execute
<1>2. Taken(b, m) = r /\ m.id \in OrderIds(b) /\ m.qty \in 1 .. b.orders[m.id].qty
  BY <1>1, TakenIs, TakenInOrder
<1>3. /\ Resting(r.book) = Board!Reduce(Resting(b), k, m.qty)
      /\ r.trades = <<[buy  |-> IF k[1] = "BUY" THEN m.id ELSE NoId,
                       sell |-> IF k[1] = "SELL" THEN m.id ELSE NoId,
                       price |-> k[2], qty |-> m.qty, ts |-> m.ts]>>
      /\ o.qty = b.orders[m.id].qty
      /\ (IF m.id \in OrderIds(r.book) THEN r.book.orders[m.id].qty ELSE 0) = b.orders[m.id].qty - m.qty
      /\ Fine(r.book)
  <2> DEFINE i == m.id
             q == m.qty
             t == m.ts
  <2>1. i \in OrderIds(b) /\ q \in 1 .. b.orders[i].qty
    BY <1>2
  <2> HIDE DEF i, q, t
  <2>2. LET y == ExecuteOrder(b, i, q, t)
            l == Board!PlaceOf(Resting(b), i)
        IN  /\ Resting(y.book) = Board!Reduce(Resting(b), l, q)
            /\ y.trades = <<[buy  |-> IF l[1] = "BUY" THEN i ELSE NoId,
                             sell |-> IF l[1] = "SELL" THEN i ELSE NoId,
                             price |-> l[2], qty |-> q, ts |-> t]>>
            /\ Board!OrderAt(Resting(b), l).qty = b.orders[i].qty
            /\ (IF i \in OrderIds(y.book) THEN y.book.orders[i].qty ELSE 0) = b.orders[i].qty - q
            /\ Fine(y.book)
    BY <2>1, FeedExecutes
  <2> QED BY <2>2 DEF i, q, t
<1> HIDE DEF r, k, o
<1>4. Board!Answer(Bare(m), "OK", o.qty - m.qty, r.trades, Resting(r.book))
  BY <1>1, <1>3
<1>5. o.qty - m.qty = IF m.id \in OrderIds(r.book) THEN r.book.orders[m.id].qty ELSE 0
  BY <1>3
<1>6. /\ book' = Resting(r.book) /\ trades' = r.trades
      /\ ack' = ExpectedAck(m, "OK", r.book)
  BY <1>3, <1>4, <1>5, AnswerExpected
<1> QED BY <1>2, <1>3, <1>6 DEF Followed

\* A board that had the reference's book and says OK did what the reference did.
LEMMA TakesAlike ==
    ASSUME NEW b, Fine(b), book = Resting(b), NEW m, Sendable(m), InOrder(b, m),
           Board!Process(Bare(m)), ack'.status = "OK"
    PROVE  Followed(m, Taken(b, m)) /\ Fine(Taken(b, m).book)
<1>1. \A st, rem : Board!Reject(Bare(m), st, rem) => st = "OK"
  BY RefusedBy DEF Refused
<1>2. ~(Board!RejectField(Bare(m)) \/ Board!AddFull(Bare(m)) \/ Board!AddRefused(Bare(m))
        \/ Board!NotLive(Bare(m)) \/ Board!ExecuteBad(Bare(m)))
  BY <1>1 DEF Board!RejectField, Board!AddFull, Board!AddRefused, Board!NotLive, Board!ExecuteBad
<1>3. \/ Board!Add(Bare(m)) \/ Board!Cancel(Bare(m)) \/ Board!ModifyQty(Bare(m))
      \/ Board!ModifyPrice(Bare(m)) \/ Board!Execute(Bare(m))
  BY <1>2 DEF Board!Process
<1> QED BY <1>3, AddsAlike, CancelsAlike, ModifiesAlike, ExecutesAlike

\* One that says FULL did nothing.
LEMMA FullDoesNothing ==
    ASSUME NEW c, Board!Process(c), ack'.status = "FULL"
    PROVE  book' = book
<1>1. ASSUME NEW st, NEW rem, Board!Reject(c, st, rem) PROVE book' = book
  BY <1>1, RefusedBy DEF Refused
<1>2. \A rem, made, b : ~Board!Answer(c, "OK", rem, made, b)
  BY DEF Board!Answer
<1>3. ~(Board!Add(c) \/ Board!Cancel(c) \/ Board!ModifyQty(c) \/ Board!ModifyPrice(c) \/ Board!Execute(c))
  BY <1>2 DEF Board!Add, Board!Cancel, Board!ModifyQty, Board!ModifyPrice, Board!Execute
<1> QED BY <1>1, <1>3 DEF Board!Process, Board!RejectField, Board!AddFull, Board!AddRefused,
    Board!NotLive, Board!ExecuteBad

-----------------------------------------------------------------------------
(* Room on the board: no sequence of commands overfills it.                 *)

\* A sequence without its element i.
LEMMA Removed ==
    ASSUME NEW s, Sequence(s), NEW i \in DOMAIN s
    PROVE  /\ Sequence(RemoveAt(s, i)) /\ Len(s) \in Nat \ {0} /\ Len(RemoveAt(s, i)) = Len(s) - 1
           /\ \A n \in 1 .. Len(s) - 1 : RemoveAt(s, i)[n] = IF n < i THEN s[n] ELSE s[n + 1]
<1>1. PICK S : s \in Seq(S)
  BY DEF Sequence
<1>2. i \in 1 .. Len(s) /\ Len(s) \in Nat
  BY <1>1
<1>3. /\ Feed!RemoveAt(s, i) \in Seq(S)
      /\ Len(Feed!RemoveAt(s, i)) = Len(s) - 1
      /\ \A n \in 1 .. Len(s) - 1 : Feed!RemoveAt(s, i)[n] = IF n < i THEN s[n] ELSE s[n + 1]
  BY <1>1, <1>2, Feed!RemoveAtIs, FeedOK DEF Feed!RangeAssumption, Feed!StepsAssumption, Feed!NumLevelsAssumption
<1>4. Feed!RemoveAt(s, i) = RemoveAt(s, i)
  BY DEF Feed!RemoveAt, RemoveAt
<1> QED BY <1>1, <1>2, <1>3, <1>4 DEF Sequence

\* A level's order.
Entry(e) == e = [id |-> e.id, qty |-> e.qty, ts |-> e.ts]

\* A queue of such orders, and one whose orders are, but for their quantities, among
\* another's.
Filed(q) == Sequence(q) /\ \A n \in 1 .. Len(q) : Entry(q[n])

Among(q, r) ==
    /\ Len(q) <= Len(r)
    /\ \A n \in 1 .. Len(q) : \E m \in 1 .. Len(r) : q[n].id = r[m].id /\ q[n].ts = r[m].ts

\* A book of the board, and one with only orders of another's at their places.
Shaped(b) ==
    /\ b = [s \in Side |-> [l \in Level |-> b[s][l]]]
    /\ \A s \in Side, l \in Level : Filed(b[s][l])

Shrunk(a, b) == Shaped(a) /\ \A s \in Side, l \in Level : Among(a[s][l], b[s][l])

\* It differs on side s only.
ShrunkOn(s, a, b) == Shrunk(a, b) /\ \A t \in Side : t # s => a[t] = b[t]

\* The length of a queue.
LEMMA FiledLength ==
    ASSUME NEW q, Filed(q)
    PROVE  Len(q) \in Nat /\ DOMAIN q = 1 .. Len(q) /\ (q = <<>> <=> Len(q) = 0)
<1>1. PICK S : q \in Seq(S)
  BY DEF Filed, Sequence
<1> QED BY <1>1

\* What is left of a queue is left of itself,
LEMMA AmongItself ==
    ASSUME NEW q, Filed(q)
    PROVE  Among(q, q)
BY FiledLength DEF Among

\* and of a book,
LEMMA ShrunkItself ==
    ASSUME NEW b, Shaped(b)
    PROVE  Shrunk(b, b)
BY AmongItself DEF Shrunk, Shaped

\* and taking away twice takes away.
LEMMA ShrunkTwice ==
    ASSUME NEW a, NEW b, NEW c, Shaped(c), Shrunk(a, b), Shrunk(b, c)
    PROVE  Shrunk(a, c)
<1> SUFFICES ASSUME NEW s \in Side, NEW l \in Level PROVE Among(a[s][l], c[s][l])
  BY DEF Shrunk
<1> DEFINE x == a[s][l]
           y == b[s][l]
           z == c[s][l]
<1>1. Among(x, y) /\ Among(y, z) /\ Filed(x) /\ Filed(y) /\ Filed(z)
  BY DEF Shrunk, Shaped
<1> HIDE DEF x, y, z
<1>2. Len(x) \in Nat /\ Len(y) \in Nat /\ Len(z) \in Nat
  BY <1>1, FiledLength
<1>3. Len(x) <= Len(z)
  BY <1>1, <1>2 DEF Among
<1>4. ASSUME NEW n \in 1 .. Len(x)
      PROVE  \E m \in 1 .. Len(z) : x[n].id = z[m].id /\ x[n].ts = z[m].ts
  <2>1. PICK m \in 1 .. Len(y) : x[n].id = y[m].id /\ x[n].ts = y[m].ts
    BY <1>1 DEF Among
  <2>2. PICK k \in 1 .. Len(z) : y[m].id = z[k].id /\ y[m].ts = z[k].ts
    BY <1>1 DEF Among
  <2> QED BY <2>1, <2>2
<1>5. Among(x, z)
  BY <1>3, <1>4 DEF Among
<1> QED BY <1>5 DEF x, z

\* A level is replaced.
Replaced(s, l, q, a, b) ==
    /\ Shaped(a)
    /\ \A t \in Side, p \in Level : a[t][p] = IF t = s /\ p = l THEN q ELSE b[t][p]

\* The other levels stay as they are.
LEMMA LevelPut ==
    ASSUME NEW b, Shaped(b), NEW s \in Side, NEW l \in Level, NEW q, Filed(q)
    PROVE  Replaced(s, l, q, [b EXCEPT ![s][l] = q], b)
<1> DEFINE a == [b EXCEPT ![s][l] = q]
<1>1. \A t \in Side, p \in Level : a[t][p] = IF t = s /\ p = l THEN q ELSE b[t][p]
  BY DEF Shaped
<1>2. a = [t \in Side |-> [p \in Level |-> a[t][p]]]
  BY DEF Shaped
<1> HIDE DEF a
<1>3. \A t \in Side, p \in Level : Filed(a[t][p])
  BY <1>1 DEF Shaped
<1>4. Shaped(a)
  BY <1>2, <1>3 DEF Shaped
<1>5. Replaced(s, l, q, a, b)
  BY <1>1, <1>4 DEF Replaced
<1> QED BY <1>5 DEF a

\* A level that loses orders makes a book that loses them.
LEMMA LevelShrinks ==
    ASSUME NEW b, Shaped(b), NEW s \in Side, NEW l \in Level, NEW q, Filed(q), Among(q, b[s][l])
    PROVE  ShrunkOn(s, [b EXCEPT ![s][l] = q], b)
<1> DEFINE a == [b EXCEPT ![s][l] = q]
<1>1. /\ Shaped(a)
      /\ \A t \in Side, p \in Level : a[t][p] = IF t = s /\ p = l THEN q ELSE b[t][p]
  BY LevelPut DEF Replaced
<1>2. \A t \in Side : t # s => a[t] = b[t]
  BY DEF Shaped
<1> HIDE DEF a
<1>3. \A t \in Side, p \in Level : Among(a[t][p], b[t][p])
  BY <1>1, AmongItself DEF Shaped
<1>4. ShrunkOn(s, a, b)
  BY <1>1, <1>2, <1>3 DEF Shrunk, ShrunkOn
<1> QED BY <1>4 DEF a

\* An order leaves, or its quantity changes.
LEMMA OrderLeaves ==
    ASSUME NEW b, Shaped(b), NEW s \in Side, NEW l \in Level, NEW i \in DOMAIN b[s][l]
    PROVE  LET a == Board!Without(b, <<s, l, i>>) IN
           /\ ShrunkOn(s, a, b)
           /\ Len(a[s][l]) = Len(b[s][l]) - 1
<1> DEFINE q == b[s][l]
           r == RemoveAt(q, i)
<1>1. Filed(q)
  BY DEF Shaped
<1> HIDE DEF q
<1>2. /\ Sequence(r) /\ Len(q) \in Nat \ {0} /\ Len(r) = Len(q) - 1
      /\ \A n \in 1 .. Len(q) - 1 : r[n] = IF n < i THEN q[n] ELSE q[n + 1]
  BY <1>1, Removed DEF Filed, q
<1> HIDE DEF r
<1>3. i \in 1 .. Len(q)
  BY <1>1, FiledLength DEF q
<1>4. Filed(r) /\ Among(r, q)
  <2>1. ASSUME NEW n \in 1 .. Len(r)
        PROVE  \E m \in 1 .. Len(q) : r[n] = q[m]
    <3>1. n \in 1 .. Len(q) - 1 /\ n \in 1 .. Len(q) /\ n + 1 \in 1 .. Len(q)
      BY <1>2
    <3> QED BY <1>2, <3>1
  <2>2. Filed(r)
    BY <1>1, <1>2, <2>1 DEF Filed
  <2>3. Len(r) <= Len(q)
    BY <1>2
  <2> QED BY <2>1, <2>2, <2>3 DEF Among
<1>5. Board!Without(b, <<s, l, i>>) = [b EXCEPT ![s][l] = r]
  BY DEF Board!Without, Board!RemoveAt, RemoveAt, r, q
<1>6. ShrunkOn(s, [b EXCEPT ![s][l] = r], b)
  BY <1>4, LevelShrinks DEF q
<1>7. [b EXCEPT ![s][l] = r][s][l] = r
  BY DEF Shaped
<1> QED BY <1>2, <1>5, <1>6, <1>7 DEF q

\* A quantity changes and the order stays.
LEMMA OrderChanges ==
    ASSUME NEW b, Shaped(b), NEW s \in Side, NEW l \in Level, NEW i \in DOMAIN b[s][l], NEW v
    PROVE  ShrunkOn(s, [b EXCEPT ![s][l][i].qty = v], b)
<1> DEFINE q == b[s][l]
           e == [q[i] EXCEPT !.qty = v]
           r == [q EXCEPT ![i] = e]
<1>1. Filed(q)
  BY DEF Shaped
<1>2. [b EXCEPT ![s][l][i].qty = v] = [b EXCEPT ![s][l] = r]
  BY DEF Shaped
<1> HIDE DEF q
<1>3. i \in 1 .. Len(q) /\ Len(q) \in Nat /\ DOMAIN q = 1 .. Len(q)
  BY <1>1, FiledLength DEF q
<1>4. Entry(q[i])
  BY <1>1, <1>3 DEF Filed
<1>5. Entry(e) /\ e.id = q[i].id /\ e.ts = q[i].ts
  BY <1>4 DEF Entry
<1> HIDE DEF e
<1>6. PICK S : q \in Seq(S)
  BY <1>1 DEF Filed, Sequence
<1>7. r \in Seq(S \union {e}) /\ Len(r) = Len(q)
  BY <1>3, <1>6
<1>8. \A n \in 1 .. Len(q) : r[n] = IF n = i THEN e ELSE q[n]
  BY <1>3
<1> HIDE DEF r
<1>9. Filed(r)
  BY <1>1, <1>5, <1>7, <1>8 DEF Filed, Sequence
<1>10. Among(r, q)
  BY <1>3, <1>5, <1>7, <1>8 DEF Among
<1>11. ShrunkOn(s, [b EXCEPT ![s][l] = r], b)
  BY <1>9, <1>10, LevelShrinks DEF q
<1> QED BY <1>2, <1>11

\* An order is reduced, or leaves.
LEMMA OrderReduced ==
    ASSUME NEW b, Shaped(b), NEW s \in Side, NEW l \in Level, NEW i \in DOMAIN b[s][l], NEW v
    PROVE  ShrunkOn(s, Board!Reduce(b, <<s, l, i>>, v), b)
<1> DEFINE k == <<s, l, i>>
           o == Board!OrderAt(b, k)
<1>1. Board!Reduce(b, k, v) = IF o.qty = v THEN Board!Without(b, k)
                              ELSE [b EXCEPT ![k[1]][k[2]][k[3]].qty = o.qty - v]
  BY DEF Board!Reduce
<1> HIDE DEF o
<1>2. CASE o.qty = v
  BY <1>1, <1>2, OrderLeaves
<1>3. CASE o.qty # v
  <2> DEFINE d == o.qty - v
  <2>1. Board!Reduce(b, k, v) = [b EXCEPT ![s][l][i].qty = d]
    BY <1>1, <1>3
  <2> HIDE DEF d
  <2> QED BY <2>1, OrderChanges
<1> QED BY <1>2, <1>3

\* A side that is not empty has a best price.
LEMMA BestStands ==
    ASSUME NEW b, NEW s \in Side, Board!Prices(b, s) # {}
    PROVE  /\ Board!Best(b, s) \in Level /\ b[s][Board!Best(b, s)] # <<>>
<1> DEFINE P == Board!Prices(b, s)
<1>1. P \subseteq Level /\ \A l \in P : b[s][l] # <<>>
  BY DEF Board!Prices, Board!Level, Level
<1> HIDE DEF P
<1>2. P \subseteq Nat /\ \A l \in P : NumLevels - 1 - l \in Nat
  BY <1>1, NumLevelsAssumption DEF Level
<1>3. \E l \in P : \A m \in P : ~Better(s, m, l)
  <2>1. CASE s = "BUY"
    <3> DEFINE T == {NumLevels - 1 - l : l \in P}
    <3>1. T \subseteq Nat /\ T # {}
      BY <1>2 DEF P
    <3> HIDE DEF T
    <3>2. PICK x \in T : \A y \in T : x <= y
      BY <3>1, LeastNatural
    <3>3. PICK l \in P : x = NumLevels - 1 - l
      BY DEF T
    <3>4. ASSUME NEW m \in P PROVE ~(m > l)
      <4>1. NumLevels - 1 - m \in T
        BY DEF T
      <4>2. NumLevels - 1 - l <= NumLevels - 1 - m
        BY <3>2, <3>3, <4>1
      <4> QED BY <1>2, <4>2, NumLevelsAssumption
    <3> QED BY <2>1, <3>4 DEF Better
  <2>2. CASE s # "BUY"
    <3>1. PICK l \in P : \A m \in P : l <= m
      BY <1>2, LeastNatural DEF P
    <3>2. \A m \in P : ~(m < l)
      BY <1>2, <3>1
    <3> QED BY <2>2, <3>2 DEF Better
  <2> QED BY <2>1, <2>2
<1>4. Board!Best(b, s) = CHOOSE l \in P : \A m \in P : ~Better(s, m, l)
  BY DEF Board!Best, Board!Better, Better, P
<1> QED BY <1>1, <1>3, <1>4

\* A trade takes from the two best orders.
LEMMA TradeShrinks ==
    ASSUME NEW m, Shaped(m.book), Board!Crossed(m.book)
    PROVE  Shrunk(Board!TradeOnce(m).book, m.book)
<1> DEFINE b == m.book
           p == Board!Best(b, "BUY")
           r == Board!Best(b, "SELL")
           bid == Board!OrderAt(b, <<"BUY", p, 1>>)
           ask == Board!OrderAt(b, <<"SELL", r, 1>>)
           q == IF bid.qty < ask.qty THEN bid.qty ELSE ask.qty
           c == Board!Reduce(b, <<"BUY", p, 1>>, q)
<1>1. "BUY" \in Side /\ "SELL" \in Side /\ "BUY" # "SELL"
  BY DEF Side
<1>2. Board!Prices(b, "BUY") # {} /\ Board!Prices(b, "SELL") # {}
  BY DEF Board!Crossed
<1>3. p \in Level /\ b["BUY"][p] # <<>> /\ r \in Level /\ b["SELL"][r] # <<>>
  BY <1>1, <1>2, BestStands
<1>4. Filed(b["BUY"][p]) /\ Filed(b["SELL"][r])
  BY <1>1, <1>3 DEF Shaped
<1>5. 1 \in DOMAIN b["BUY"][p] /\ 1 \in DOMAIN b["SELL"][r]
  <2>1. \A x : Filed(x) /\ x # <<>> => 1 \in DOMAIN x
    BY FiledLength
  <2> QED BY <1>3, <1>4, <2>1
<1>6. Board!TradeOnce(m).book = Board!Reduce(c, <<"SELL", r, 1>>, q)
  BY DEF Board!TradeOnce
<1> HIDE DEF p, r, q, b
<1>7. ShrunkOn("BUY", c, b)
  BY <1>1, <1>3, <1>5, OrderReduced DEF b
<1> HIDE DEF c
<1>8. Shaped(c) /\ c["SELL"] = b["SELL"]
  BY <1>1, <1>7 DEF ShrunkOn, Shrunk
<1>9. ShrunkOn("SELL", Board!Reduce(c, <<"SELL", r, 1>>, q), c)
  BY <1>1, <1>3, <1>5, <1>8, OrderReduced
<1>10. Shrunk(Board!Reduce(c, <<"SELL", r, 1>>, q), b)
  BY <1>7, <1>9, ShrunkTwice DEF ShrunkOn, b
<1> QED BY <1>6, <1>10 DEF b

\* So a match only takes away.
LEMMA MatchShrinks ==
    ASSUME NEW b, Shaped(b)
    PROVE  Shrunk(Board!Match(b).book, b)
<1>1. PICK f : LET k == Board!Cardinality(Board!Places(b)) IN
             /\ k \in Nat /\ f[0] = [book |-> b, trades |-> <<>>] /\ Board!Match(b) = f[k]
             /\ \A n \in 1 .. k : f[n] = Board!Round(f[n - 1])
  BY RoundsAre
<1> DEFINE k == Board!Cardinality(Board!Places(b))
           good(n) == Shrunk(f[n].book, b)
           Bad == {n \in 0 .. k : ~good(n)}
<1>2. /\ k \in Nat /\ f[0] = [book |-> b, trades |-> <<>>] /\ Board!Match(b) = f[k]
      /\ \A n \in 1 .. k : f[n] = Board!Round(f[n - 1])
  BY <1>1
<1> HIDE DEF k
<1>3. good(0)
  BY <1>2, ShrunkItself
<1>4. ASSUME NEW n \in 1 .. k, good(n - 1) PROVE good(n)
  <2> DEFINE m == f[n - 1]
  <2>1. f[n] = Board!Round(m)
    BY <1>2
  <2>2. Shrunk(m.book, b) /\ Shaped(m.book)
    BY <1>4 DEF Shrunk
  <2> HIDE DEF m
  <2>3. CASE Board!Crossed(m.book)
    <3>1. Shrunk(Board!TradeOnce(m).book, m.book)
      BY <2>2, <2>3, TradeShrinks
    <3>2. Shrunk(Board!TradeOnce(m).book, b)
      BY <2>2, <3>1, ShrunkTwice
    <3> QED BY <2>1, <2>3, <3>2 DEF Board!Round
  <2>4. CASE ~Board!Crossed(m.book)
    BY <2>1, <2>2, <2>4 DEF Board!Round
  <2> QED BY <2>3, <2>4
<1> HIDE DEF good
<1>5. Bad = {}
  <2> SUFFICES ASSUME Bad # {} PROVE FALSE
    OBVIOUS
  <2>1. PICK n \in Bad : \A m \in Bad : n <= m
    <3>1. Bad \subseteq Nat
      BY <1>2
    <3> HIDE DEF Bad
    <3> QED BY <3>1, LeastNatural
  <2>2. n # 0
    BY <1>3
  <2>3. n \in 1 .. k /\ n - 1 \in 0 .. k /\ n - 1 < n
    BY <1>2, <2>2
  <2>4. good(n - 1)
    BY <1>2, <2>1, <2>3
  <2> QED BY <1>4, <2>3, <2>4
<1>6. good(k)
  BY <1>2, <1>5
<1> QED BY <1>2, <1>6 DEF good

\* A book that is not crossed is left alone.
LEMMA MatchRests ==
    ASSUME NEW b, ~Board!Crossed(b)
    PROVE  Board!Match(b) = [book |-> b, trades |-> <<>>]
<1>1. PICK f : LET k == Board!Cardinality(Board!Places(b)) IN
             /\ k \in Nat /\ f[0] = [book |-> b, trades |-> <<>>] /\ Board!Match(b) = f[k]
             /\ \A n \in 1 .. k : f[n] = Board!Round(f[n - 1])
  BY RoundsAre
<1> DEFINE k == Board!Cardinality(Board!Places(b))
           good(n) == f[n] = [book |-> b, trades |-> <<>>]
           Bad == {n \in 0 .. k : ~good(n)}
<1>2. /\ k \in Nat /\ f[0] = [book |-> b, trades |-> <<>>] /\ Board!Match(b) = f[k]
      /\ \A n \in 1 .. k : f[n] = Board!Round(f[n - 1])
  BY <1>1
<1> HIDE DEF k
<1>3. good(0)
  BY <1>2
<1>4. ASSUME NEW n \in 1 .. k, good(n - 1) PROVE good(n)
  BY <1>2, <1>4 DEF Board!Round
<1> HIDE DEF good
<1>5. Bad = {}
  <2> SUFFICES ASSUME Bad # {} PROVE FALSE
    OBVIOUS
  <2>1. PICK n \in Bad : \A m \in Bad : n <= m
    <3>1. Bad \subseteq Nat
      BY <1>2
    <3> HIDE DEF Bad
    <3> QED BY <3>1, LeastNatural
  <2>2. n # 0
    BY <1>3
  <2>3. n \in 1 .. k /\ n - 1 \in 0 .. k /\ n - 1 < n
    BY <1>2, <2>2
  <2>4. good(n - 1)
    BY <1>2, <2>1, <2>3
  <2> QED BY <1>4, <2>3, <2>4
<1>6. good(k)
  BY <1>2, <1>5
<1> QED BY <1>2, <1>6 DEF good

\* How many orders may rest.
Room == BoardOrders - 1

\* A place is a side, a level and a position.
LEMMA PlaceIs ==
    ASSUME NEW b
    PROVE  /\ \A s, l, i : <<s, l, i>> \in Board!Places(b) <=>
                s \in Side /\ l \in Level /\ i \in 1 .. Room /\ i \in DOMAIN b[s][l]
           /\ \A k \in Board!Places(b) : k = <<k[1], k[2], k[3]>>
BY DEF Board!Places, Board!Side, Board!Level, Side, Level, Room

\* A book the board may come to hold.
Roomy(b) ==
    /\ Shaped(b)
    /\ \A s \in Side, l \in Level : Len(b[s][l]) <= Room
    /\ Cardinality(Board!Places(b)) <= Room

\* A level holds no more than the book.
LEMMA Holds ==
    ASSUME NEW b, Shaped(b), NEW s \in Side, NEW l \in Level, Len(b[s][l]) <= Room
    PROVE  /\ Len(b[s][l]) \in Nat /\ Room \in Nat
           /\ \A i \in 1 .. Len(b[s][l]) : <<s, l, i>> \in Board!Places(b)
           /\ Cardinality(Board!Places(b)) \in Nat
           /\ Len(b[s][l]) <= Cardinality(Board!Places(b))
<1> DEFINE n == Len(b[s][l])
           P == Board!Places(b)
           f == [i \in 1 .. n |-> <<s, l, i>>]
<1>1. n \in Nat /\ DOMAIN b[s][l] = 1 .. n
  BY FiledLength DEF Shaped
<1>2. Room \in Nat
  BY BoardAssumption DEF Room
<1>3. \A i \in 1 .. n : <<s, l, i>> \in P
  BY <1>1, <1>2, PlaceIs
<1>4. IsFiniteSet(P) /\ Cardinality(P) \in Nat
  BY PlacesFinite, FS_CardinalityType
<1> HIDE DEF n, P
<1>5. f \in Injection(1 .. n, P)
  BY <1>3 DEF Injection, IsInjective
<1>6. Cardinality(1 .. n) <= Cardinality(P)
  <2> HIDE DEF f
  <2> QED BY <1>4, <1>5, FS_Injection
<1>7. Cardinality(1 .. n) = n
  <2>1. 1 \in Int /\ n \in Int
    BY <1>1
  <2>2. Cardinality(1 .. n) = IF 1 > n THEN 0 ELSE n - 1 + 1
    BY <2>1, FS_Interval
  <2> QED BY <1>1, <2>2
<1> QED BY <1>1, <1>2, <1>3, <1>4, <1>6, <1>7 DEF n, P

\* What only takes away leaves room.
LEMMA ShrunkRoomy ==
    ASSUME NEW a, NEW b, Roomy(b), Shrunk(a, b)
    PROVE  Roomy(a) /\ Board!Places(a) \subseteq Board!Places(b)
<1>1. ASSUME NEW s \in Side, NEW l \in Level
      PROVE  /\ Len(a[s][l]) \in Nat /\ Len(b[s][l]) \in Nat /\ Len(a[s][l]) <= Len(b[s][l])
             /\ DOMAIN a[s][l] = 1 .. Len(a[s][l]) /\ DOMAIN b[s][l] = 1 .. Len(b[s][l])
             /\ Len(b[s][l]) <= Room
  BY FiledLength DEF Roomy, Shrunk, Shaped, Among
<1>2. Room \in Nat
  BY BoardAssumption DEF Room
<1>3. \A s \in Side, l \in Level : Len(a[s][l]) <= Room
  BY <1>1, <1>2
<1>4. ASSUME NEW k \in Board!Places(a) PROVE k \in Board!Places(b)
  <2>1. k = <<k[1], k[2], k[3]>> /\ k[1] \in Side /\ k[2] \in Level
        /\ k[3] \in 1 .. Room /\ k[3] \in DOMAIN a[k[1]][k[2]]
    BY PlaceIs
  <2>2. k[3] \in DOMAIN b[k[1]][k[2]]
    BY <1>1, <2>1
  <2> QED BY <2>1, <2>2, PlaceIs
<1>5. Cardinality(Board!Places(a)) <= Cardinality(Board!Places(b))
  BY <1>4, PlacesFinite, FS_Subset
<1>6. Cardinality(Board!Places(a)) \in Nat /\ Cardinality(Board!Places(b)) \in Nat
  BY PlacesFinite, FS_CardinalityType
<1>7. Cardinality(Board!Places(b)) <= Room
  BY DEF Roomy
<1>8. Cardinality(Board!Places(a)) <= Room
  BY <1>2, <1>5, <1>6, <1>7
<1> QED BY <1>3, <1>4, <1>8 DEF Roomy, Shrunk

\* A queue with one order more.
LEMMA AppendFiled ==
    ASSUME NEW q, Filed(q), NEW e, Entry(e)
    PROVE  /\ Filed(Append(q, e)) /\ Len(Append(q, e)) = Len(q) + 1
           /\ \A n \in 1 .. Len(q) + 1 : Append(q, e)[n] = IF n = Len(q) + 1 THEN e ELSE q[n]
<1>1. /\ Sequence(Append(q, e)) /\ Len(q) \in Nat /\ Len(Append(q, e)) = Len(q) + 1
      /\ \A i \in 1 .. Len(q) : Append(q, e)[i] = q[i]
      /\ Append(q, e)[Len(q) + 1] = e
  BY Grows DEF Filed
<1>2. \A n \in 1 .. Len(q) + 1 : Append(q, e)[n] = IF n = Len(q) + 1 THEN e ELSE q[n]
  BY <1>1
<1>3. \A n \in 1 .. Len(q) + 1 : Entry(Append(q, e)[n])
  BY <1>1, <1>2 DEF Filed
<1> QED BY <1>1, <1>2, <1>3 DEF Filed

\* An order more, where there is room.
LEMMA InsertRoomy ==
    ASSUME NEW b, Roomy(b), Cardinality(Board!Places(b)) < Room,
           NEW s \in Side, NEW p, NEW e, Entry(e)
    PROVE  Roomy(Board!Insert(b, s, p, e))
<1> DEFINE a == Board!Insert(b, s, p, e)
<1>1. CASE p \notin Level
  <2>1. [b[s] EXCEPT ![p] = Append(@, e)] = b[s]
    <3>1. b[s] = [l \in Level |-> b[s][l]]
      BY DEF Roomy, Shaped
    <3> QED BY <1>1, <3>1
  <2>2. a = [b EXCEPT ![s] = [b[s] EXCEPT ![p] = Append(@, e)]]
    BY DEF Board!Insert
  <2>3. a = [b EXCEPT ![s] = b[s]]
    BY <2>1, <2>2
  <2>4. a = b
    BY <2>3 DEF Roomy, Shaped
  <2> QED BY <2>4
<1>2. CASE p \in Level
  <2> DEFINE q == b[s][p]
             r == Append(q, e)
  <2>1. a = [b EXCEPT ![s][p] = r]
    BY DEF Board!Insert
  <2>2. Filed(q) /\ Shaped(b) /\ Len(q) <= Room
    BY <1>2 DEF Roomy, Shaped
  <2>3. /\ Len(q) \in Nat /\ Room \in Nat /\ Cardinality(Board!Places(b)) \in Nat
        /\ Len(q) <= Cardinality(Board!Places(b))
    BY <1>2, <2>2, Holds
  <2> HIDE DEF q
  <2>4. Filed(r) /\ Len(r) = Len(q) + 1
    BY <2>2, AppendFiled DEF Entry
  <2> HIDE DEF r, a
  <2>5. /\ Shaped(a)
        /\ \A t \in Side, l \in Level : a[t][l] = IF t = s /\ l = p THEN r ELSE b[t][l]
    <3>1. Replaced(s, p, r, [b EXCEPT ![s][p] = r], b)
      BY <1>2, <2>2, <2>4, LevelPut
    <3> QED BY <2>1, <3>1 DEF Replaced
  <2>6. Len(r) <= Room
    BY <2>3, <2>4
  <2>7. \A t \in Side, l \in Level : Len(a[t][l]) <= Room
    BY <2>5, <2>6 DEF Roomy
  <2> DEFINE x == <<s, p, Len(q) + 1>>
  <2>8. Board!Places(a) \subseteq Board!Places(b) \union {x}
    <3> SUFFICES ASSUME NEW k \in Board!Places(a), k # x PROVE k \in Board!Places(b)
      OBVIOUS
    <3>1. k = <<k[1], k[2], k[3]>> /\ k[1] \in Side /\ k[2] \in Level
          /\ k[3] \in 1 .. Room /\ k[3] \in DOMAIN a[k[1]][k[2]]
      BY PlaceIs
    <3>2. CASE k[1] = s /\ k[2] = p
      <4>1. k[3] \in 1 .. Len(q) + 1 /\ k[3] # Len(q) + 1
        BY <2>4, <2>5, <3>1, <3>2, FiledLength
      <4>2. k[3] \in DOMAIN q
        BY <2>2, <2>3, <4>1, FiledLength
      <4> QED BY <3>1, <3>2, <4>2, PlaceIs DEF q
    <3>3. CASE ~(k[1] = s /\ k[2] = p)
      BY <2>5, <3>1, <3>3, PlaceIs
    <3> QED BY <3>2, <3>3
  <2> HIDE DEF x
  <2>9. /\ IsFiniteSet(Board!Places(b) \union {x})
        /\ Cardinality(Board!Places(b) \union {x}) <= Cardinality(Board!Places(b)) + 1
        /\ Cardinality(Board!Places(b) \union {x}) \in Nat
    <3> DEFINE P == Board!Places(b)
    <3>1. IsFiniteSet(P) /\ Cardinality(P) \in Nat
      BY <2>3, PlacesFinite
    <3> HIDE DEF P
    <3>2. /\ IsFiniteSet(P \union {x})
          /\ Cardinality(P \union {x}) = IF x \in P THEN Cardinality(P) ELSE Cardinality(P) + 1
      BY <3>1, FS_AddElement
    <3>3. Cardinality(P \union {x}) <= Cardinality(P) + 1 /\ Cardinality(P \union {x}) \in Nat
      BY <3>1, <3>2
    <3> QED BY <3>2, <3>3 DEF P
  <2>10. /\ Cardinality(Board!Places(a)) <= Cardinality(Board!Places(b) \union {x})
         /\ Cardinality(Board!Places(a)) \in Nat
    BY <2>8, <2>9, FS_Subset, FS_CardinalityType
  <2>11. Cardinality(Board!Places(a)) <= Room
    BY <2>3, <2>9, <2>10
  <2> QED BY <2>5, <2>7, <2>11 DEF Roomy, a
<1> QED BY <1>1, <1>2

\* An order less.
LEMMA WithoutRoomy ==
    ASSUME NEW b, Roomy(b), NEW k \in Board!Places(b)
    PROVE  /\ Roomy(Board!Without(b, k)) /\ Shrunk(Board!Without(b, k), b)
           /\ Cardinality(Board!Places(Board!Without(b, k))) < Room
<1>1. k = <<k[1], k[2], k[3]>> /\ k[1] \in Side /\ k[2] \in Level
      /\ k[3] \in 1 .. Room /\ k[3] \in DOMAIN b[k[1]][k[2]]
  BY PlaceIs
<1> DEFINE s == k[1]
           l == k[2]
           i == k[3]
           a == Board!Without(b, k)
           q == b[s][l]
           x == <<s, l, Len(q)>>
<1>2. Shaped(b) /\ Len(q) <= Room
  BY <1>1 DEF Roomy
<1>3. ShrunkOn(s, a, b) /\ Len(a[s][l]) = Len(q) - 1
  <2> HIDE DEF s, l, i
  <2>1. k = <<s, l, i>> /\ s \in Side /\ l \in Level /\ i \in DOMAIN b[s][l]
    BY <1>1 DEF s, l, i
  <2> QED BY <1>2, <2>1, OrderLeaves
<1>4. Roomy(a) /\ Board!Places(a) \subseteq Board!Places(b) /\ Shrunk(a, b)
  BY <1>3, ShrunkRoomy DEF ShrunkOn
<1>5. Len(q) \in Nat /\ DOMAIN q = 1 .. Len(q) /\ Len(q) >= 1
  <2>1. Filed(q)
    BY <1>1, <1>2 DEF Shaped
  <2> HIDE DEF q
  <2>2. Len(q) \in Nat /\ DOMAIN q = 1 .. Len(q)
    BY <2>1, FiledLength
  <2>3. i \in DOMAIN q
    BY <1>1 DEF q
  <2> QED BY <2>2, <2>3
<1>6. x \in Board!Places(b)
  BY <1>1, <1>2, <1>5, PlaceIs
<1>7. x \notin Board!Places(a)
  <2>1. DOMAIN a[s][l] = 1 .. Len(q) - 1
    BY <1>1, <1>3, <1>4, FiledLength DEF Shrunk, Shaped
  <2>2. Len(q) \notin DOMAIN a[s][l]
    BY <1>5, <2>1
  <2> QED BY <2>2, PlaceIs
<1> HIDE DEF x, a
<1>8. Board!Places(a) \subseteq Board!Places(b) \ {x}
  BY <1>4, <1>7
<1>9. /\ IsFiniteSet(Board!Places(b)) /\ Cardinality(Board!Places(b)) \in Nat
      /\ IsFiniteSet(Board!Places(b) \ {x})
      /\ Cardinality(Board!Places(b) \ {x}) = Cardinality(Board!Places(b)) - 1
  BY <1>6, PlacesFinite, FS_RemoveElement, FS_CardinalityType
<1>10. /\ Cardinality(Board!Places(a)) <= Cardinality(Board!Places(b) \ {x})
       /\ Cardinality(Board!Places(a)) \in Nat
  BY <1>8, <1>9, FS_Subset, FS_CardinalityType
<1>11. Cardinality(Board!Places(b)) <= Room /\ Room \in Nat
  BY BoardAssumption DEF Roomy, Room
<1>12. Cardinality(Board!Places(a)) < Room
  BY <1>9, <1>10, <1>11
<1> QED BY <1>4, <1>12 DEF a

\* The board counts as the reference does.
LEMMA Counts == \A S : Board!Cardinality(S) = Cardinality(S)
BY DEF Board!Cardinality, Cardinality

\* An order that rests has a place.
LEMMA LiveAt ==
    ASSUME NEW b, NEW id \in Board!Live(b)
    PROVE  Board!PlaceOf(b, id) \in Board!Places(b) /\ Board!OrderAt(b, Board!PlaceOf(b, id)).id = id
<1>1. \E k \in Board!Places(b) : Board!OrderAt(b, k).id = id
  BY DEF Board!Live
<1> QED BY <1>1 DEF Board!PlaceOf

\* The board's order.
LEMMA EntryIs ==
    ASSUME NEW id, NEW qty, NEW ts
    PROVE  Entry(Board!Order(id, qty, ts))
BY DEF Board!Order, Entry

\* The board never holds more than there is room for, whatever it is told.
LEMMA ProcessRoomy ==
    ASSUME NEW c, c.side \in Side, Roomy(book), Board!Process(c)
    PROVE  Roomy(book')
<1>1. ASSUME NEW st, NEW rem, NEW made, NEW b, Board!Answer(c, st, rem, made, b)
      PROVE  book' = b
  BY <1>1 DEF Board!Answer
<1>2. CASE book' = book
  BY <1>2
<1>3. CASE Board!Add(c)
  <2> DEFINE e == Board!Order(c.id, c.qty, c.ts)
             a == Board!Insert(book, c.side, c.price, e)
             x == Board!Match(a)
  <2>1. Cardinality(Board!Places(book)) < Room
    BY <1>3, Counts DEF Board!Add, Room
  <2>2. book' = x.book
    BY <1>1, <1>3 DEF Board!Add
  <2>3. Roomy(a)
    <3>1. Entry(e)
      BY EntryIs
    <3> HIDE DEF e
    <3> QED BY <2>1, <3>1, InsertRoomy
  <2> HIDE DEF a
  <2>4. Shrunk(x.book, a)
    BY <2>3, MatchShrinks DEF Roomy
  <2> HIDE DEF x
  <2>5. Roomy(x.book)
    BY <2>3, <2>4, ShrunkRoomy
  <2> QED BY <2>2, <2>5
<1>4. ASSUME c.id \in Board!Live(book)
      PROVE  LET k == Board!PlaceOf(book, c.id) IN
             k \in Board!Places(book) /\ k = <<k[1], k[2], k[3]>> /\ k[1] \in Side
             /\ k[2] \in Level /\ k[3] \in DOMAIN book[k[1]][k[2]]
  <2> DEFINE k == Board!PlaceOf(book, c.id)
  <2>1. k \in Board!Places(book)
    BY <1>4, LiveAt
  <2> HIDE DEF k
  <2>2. k = <<k[1], k[2], k[3]>>
    BY <2>1, PlaceIs
  <2>3. k[1] \in Side /\ k[2] \in Level /\ k[3] \in DOMAIN book[k[1]][k[2]]
    BY <2>1, <2>2, PlaceIs
  <2> QED BY <2>1, <2>2, <2>3 DEF k
<1> DEFINE k == Board!PlaceOf(book, c.id)
           s == k[1]
           l == k[2]
           i == k[3]
<1>5. CASE Board!Cancel(c)
  <2>1. book' = Board!Without(book, k) /\ c.id \in Board!Live(book)
    BY <1>1, <1>5 DEF Board!Cancel
  <2> QED BY <1>4, <2>1, WithoutRoomy
<1>6. CASE Board!ModifyQty(c)
  <2>1. book' = [book EXCEPT ![k[1]][k[2]][k[3]].qty = c.qty] /\ c.id \in Board!Live(book)
    BY <1>1, <1>6 DEF Board!ModifyQty
  <2>2. s \in Side /\ l \in Level /\ i \in DOMAIN book[s][l] /\ book' = [book EXCEPT ![s][l][i].qty = c.qty]
    BY <1>4, <2>1
  <2> HIDE DEF s, l, i
  <2>3. ShrunkOn(s, book', book)
    <3> DEFINE v == c.qty
    <3>1. book' = [book EXCEPT ![s][l][i].qty = v] /\ Shaped(book)
      BY <2>2 DEF Roomy
    <3> HIDE DEF v
    <3>2. ShrunkOn(s, [book EXCEPT ![s][l][i].qty = v], book)
      BY <2>2, <3>1, OrderChanges
    <3> QED BY <3>1, <3>2
  <2> QED BY <2>3, ShrunkRoomy DEF ShrunkOn
<1>7. CASE Board!ModifyPrice(c)
  <2> DEFINE e == Board!Order(c.id, c.qty, c.ts)
             w == Board!Without(book, k)
             a == Board!Insert(w, s, c.price, e)
             x == Board!Match(a)
  <2>1. book' = x.book /\ c.id \in Board!Live(book)
    BY <1>1, <1>7 DEF Board!ModifyPrice
  <2>2. k \in Board!Places(book) /\ s \in Side
    BY <1>4, <2>1
  <2>3. Roomy(w) /\ Cardinality(Board!Places(w)) < Room
    BY <2>2, WithoutRoomy
  <2>4. Roomy(a)
    <3>1. Entry(e)
      BY EntryIs
    <3> HIDE DEF e, w, s
    <3> QED BY <2>2, <2>3, <3>1, InsertRoomy
  <2> HIDE DEF a
  <2>5. Shrunk(x.book, a)
    BY <2>4, MatchShrinks DEF Roomy
  <2> HIDE DEF x
  <2>6. Roomy(x.book)
    BY <2>4, <2>5, ShrunkRoomy
  <2> QED BY <2>1, <2>6
<1>8. CASE Board!Execute(c)
  <2>1. book' = Board!Reduce(book, k, c.qty) /\ c.id \in Board!Live(book)
    BY <1>1, <1>8 DEF Board!Execute
  <2>2. k = <<s, l, i>> /\ s \in Side /\ l \in Level /\ i \in DOMAIN book[s][l] /\ Shaped(book)
    BY <1>4, <2>1 DEF Roomy
  <2> HIDE DEF s, l, i, k
  <2>3. ShrunkOn(s, book', book)
    BY <2>1, <2>2, OrderReduced
  <2> QED BY <2>3, ShrunkRoomy DEF ShrunkOn
<1>9. ASSUME NEW st, NEW rem, Board!Reject(c, st, rem) PROVE book' = book
  BY <1>9, RefusedBy DEF Refused
<1>10. Board!RejectField(c) \/ Board!AddFull(c) \/ Board!AddRefused(c) \/ Board!NotLive(c)
         \/ Board!ExecuteBad(c) => book' = book
  BY <1>9 DEF Board!RejectField, Board!AddFull, Board!AddRefused, Board!NotLive, Board!ExecuteBad
<1> HIDE DEF k
<1> QED BY <1>2, <1>3, <1>5, <1>6, <1>7, <1>8, <1>10 DEF Board!Process

\* A board starts empty.
LEMMA EmptyRoomy ==
    ASSUME NEW b, b = [s \in Side |-> [l \in Level |-> <<>>]]
    PROVE  Roomy(b)
<1>1. \A s \in Side, l \in Level : b[s][l] = <<>>
  OBVIOUS
<1>2. Sequence(<<>>) /\ Len(<<>>) = 0
  <2>1. <<>> \in Seq({})
    OBVIOUS
  <2> QED BY <2>1 DEF Sequence
<1>3. Shaped(b)
  <2>1. b = [s \in Side |-> [l \in Level |-> b[s][l]]]
    OBVIOUS
  <2>2. Filed(<<>>)
    BY <1>2 DEF Filed
  <2> QED BY <1>1, <2>1, <2>2 DEF Shaped
<1>4. Room \in Nat
  BY BoardAssumption DEF Room
<1>5. Board!Places(b) = {}
  <2> SUFFICES ASSUME NEW k \in Board!Places(b) PROVE FALSE
    OBVIOUS
  <2>1. k[1] \in Side /\ k[2] \in Level /\ k[3] \in DOMAIN b[k[1]][k[2]]
    <3>1. k = <<k[1], k[2], k[3]>>
      BY PlaceIs
    <3> QED BY <3>1, PlaceIs
  <2> QED BY <1>1, <2>1
<1>6. Cardinality(Board!Places(b)) = 0
  BY <1>5, FS_EmptySet
<1> QED BY <1>1, <1>2, <1>3, <1>4, <1>6 DEF Roomy

-----------------------------------------------------------------------------
(* The first command: an addition, to whatever is on the board.             *)

\* The book b holds the order e alone, on side s at price p.
Lone(b, s, p, e) ==
    /\ Shaped(b) /\ Entry(e) /\ s \in Side /\ p \in Level
    /\ \A t \in Side, l \in Level : b[t][l] = IF t = s /\ l = p THEN <<e>> ELSE <<>>

\* What such a book tells.
LEMMA LoneShows ==
    ASSUME NEW b, NEW s, NEW p, NEW e, Lone(b, s, p, e), 1 <= Room
    PROVE  /\ Cardinality(Board!Places(b)) = 1
           /\ Board!Remaining(b, e.id) = e.qty
           /\ Board!Shown(b, s) = p /\ \A t \in Side : t # s => Board!Shown(b, t) = 0
           /\ ~Board!Crossed(b)
<1> DEFINE k == <<s, p, 1>>
<1>1. /\ s \in Side /\ p \in Level /\ Room \in Nat
      /\ \A t \in Side, l \in Level : b[t][l] = IF t = s /\ l = p THEN <<e>> ELSE <<>>
  BY BoardAssumption DEF Lone, Room
<1>2. DOMAIN <<e>> = {1} /\ DOMAIN <<>> = {} /\ <<e>>[1] = e /\ <<e>> # <<>>
  OBVIOUS
<1>3. Board!Places(b) = {k}
  <2>1. k \in Board!Places(b)
    BY <1>1, <1>2, PlaceIs
  <2>2. ASSUME NEW j \in Board!Places(b) PROVE j = k
    <3>1. j = <<j[1], j[2], j[3]>>
      BY PlaceIs
    <3>2. j[1] \in Side /\ j[2] \in Level /\ j[3] \in DOMAIN b[j[1]][j[2]]
      BY <3>1, PlaceIs
    <3>3. j[1] = s /\ j[2] = p /\ j[3] = 1
      BY <1>1, <1>2, <3>2
    <3> QED BY <3>1, <3>3
  <2> QED BY <2>1, <2>2
<1>4. Cardinality(Board!Places(b)) = 1
  BY <1>3, FS_Singleton
<1>5. Board!OrderAt(b, k) = e
  BY <1>1, <1>2 DEF Board!OrderAt
<1>6. Board!Remaining(b, e.id) = e.qty
  <2> HIDE DEF k
  <2>1. e.id \in Board!Live(b)
    BY <1>3, <1>5 DEF Board!Live
  <2>2. Board!PlaceOf(b, e.id) = k
    BY <1>3, <2>1, LiveAt
  <2> QED BY <1>5, <2>1, <2>2 DEF Board!Remaining
<1>7. Board!Prices(b, s) = {p} /\ \A t \in Side : t # s => Board!Prices(b, t) = {}
  BY <1>1, <1>2 DEF Board!Prices, Board!Level, Level
<1>8. Board!Shown(b, s) = p
  <2>1. Board!Prices(b, s) # {}
    BY <1>7
  <2>2. Board!Best(b, s) \in Level /\ b[s][Board!Best(b, s)] # <<>>
    BY <1>1, <2>1, BestStands
  <2>3. Board!Best(b, s) = p
    BY <1>1, <2>2
  <2> QED BY <2>1, <2>3 DEF Board!Shown
<1>9. \A t \in Side : t # s => Board!Shown(b, t) = 0
  BY <1>7 DEF Board!Shown
<1>10. ~Board!Crossed(b)
  BY <1>7 DEF Board!Crossed, Side
<1> QED BY <1>4, <1>6, <1>8, <1>9, <1>10

\* A book that counts one order, and has something left of the order id, holds that
\* order alone.
LEMMA OneIsLone ==
    ASSUME NEW b, Roomy(b), Cardinality(Board!Places(b)) = 1, NEW id, Board!Remaining(b, id) # 0
    PROVE  \E s, p, e : Lone(b, s, p, e) /\ e.id = id
<1>1. PICK k : Board!Places(b) = {k}
  BY PlacesFinite, FS_Singleton
<1> DEFINE s == k[1]
           p == k[2]
           e == Board!OrderAt(b, k)
           q == b[s][p]
<1>2. id \in Board!Live(b)
  BY DEF Board!Remaining
<1>3. e.id = id
  BY <1>1, <1>2, LiveAt
<1>4. k = <<s, p, k[3]>> /\ s \in Side /\ p \in Level /\ k[3] \in DOMAIN q
  <2>1. k = <<k[1], k[2], k[3]>>
    BY <1>1, PlaceIs
  <2> QED BY <1>1, <2>1, PlaceIs
<1>5. ASSUME NEW t \in Side, NEW l \in Level
      PROVE  /\ Filed(b[t][l]) /\ Len(b[t][l]) \in Nat
             /\ \A i \in 1 .. Len(b[t][l]) : <<t, l, i>> = k
  BY <1>1, Holds DEF Roomy, Shaped
<1>6. k[3] = 1 /\ Len(q) = 1
  <2>1. Filed(q) /\ Len(q) \in Nat /\ \A i \in 1 .. Len(q) : <<s, p, i>> = k
    BY <1>4, <1>5
  <2> HIDE DEF q
  <2>2. k[3] \in 1 .. Len(q)
    BY <1>4, <2>1, FiledLength
  <2>3. 1 \in 1 .. Len(q) /\ Len(q) \in 1 .. Len(q)
    BY <2>1, <2>2
  <2>4. <<s, p, 1>> = k /\ <<s, p, Len(q)>> = k
    BY <2>1, <2>3
  <2> QED BY <2>4
<1>7. q = <<e>> /\ Entry(e)
  <2>1. Filed(q) /\ e = q[1]
    BY <1>4, <1>5, <1>6 DEF Board!OrderAt
  <2> HIDE DEF q, e
  <2>2. PICK S : q \in Seq(S)
    BY <2>1 DEF Filed, Sequence
  <2>3. q = <<q[1]>>
    BY <1>6, <2>2
  <2>4. Entry(q[1])
    BY <1>6, <2>1 DEF Filed
  <2> QED BY <2>1, <2>3, <2>4
<1>8. ASSUME NEW t \in Side, NEW l \in Level, ~(t = s /\ l = p)
      PROVE  b[t][l] = <<>>
  <2> DEFINE z == b[t][l]
  <2>1. Filed(z) /\ Len(z) \in Nat /\ \A i \in 1 .. Len(z) : <<t, l, i>> = k
    BY <1>5
  <2> HIDE DEF z
  <2>2. ASSUME Len(z) # 0 PROVE FALSE
    <3>1. 1 \in 1 .. Len(z)
      BY <2>1, <2>2
    <3>2. <<t, l, 1>> = k
      BY <2>1, <3>1
    <3> QED BY <1>4, <1>8, <3>2
  <2>3. z = <<>>
    BY <2>1, <2>2, FiledLength
  <2> QED BY <2>3 DEF z
<1> HIDE DEF e, s, p
<1>9. Lone(b, s, p, e)
  BY <1>4, <1>7, <1>8 DEF Lone, Roomy
<1> QED BY <1>3, <1>9

\* A sequence of one.
LEMMA OneElement ==
    ASSUME NEW e
    PROVE  /\ Append(<<>>, e) = <<e>>
           /\ Sequence(<<e>>) /\ Len(<<e>>) = 1 /\ <<e>>[1] = e
           /\ Sequence(<<>>) /\ Len(<<>>) = 0
<1>1. <<>> \in Seq({e}) /\ <<e>> \in Seq({e}) /\ Len(<<>>) = 0 /\ Len(<<e>>) = 1 /\ <<e>>[1] = e
  OBVIOUS
<1>2. Append(<<>>, e) = <<e>>
  OBVIOUS
<1> QED BY <1>1, <1>2 DEF Sequence

\* The reference's first book.
LEMMA EmptyFine ==
    /\ Fine(EmptyBook) /\ OrderIds(EmptyBook) = {}
    /\ \A s \in Side, p \in Level : Resting(EmptyBook)[s][p] = <<>>
<1>1. Feed!SoundBook(EmptyBook) /\ OrderIds(EmptyBook) = {}
  <2>1. Feed!SoundBook(Feed!EmptyBook) /\ Feed!OrderIds(Feed!EmptyBook) = {}
    BY Feed!EmptySound, FeedOK DEF Feed!RangeAssumption, Feed!StepsAssumption, Feed!NumLevelsAssumption
  <2> QED BY <2>1, FeedBest, FeedTypes
<1>2. \A s \in Side : EmptyBook.levels[s] = <<>> /\ DOMAIN EmptyBook.levels[s] = {}
  BY DEF EmptyBook
<1>3. ~Crossed(EmptyBook)
  <2>1. Standing(EmptyBook, "BUY") = {}
    BY <1>2 DEF Standing, Side
  <2>2. BestPrice(EmptyBook, "BUY") = NoPrice
    BY <2>1 DEF BestPrice, Best
  <2> QED BY <2>2 DEF Crossed
<1>4. Feed!Fits(EmptyBook)
  <2>1. Cardinality(OrderIds(EmptyBook)) = 0
    BY <1>1, FS_EmptySet
  <2>2. Feed!Cardinality(Feed!OrderIds(EmptyBook)) = 0
    BY <2>1, FeedBest DEF Feed!Cardinality, Cardinality
  <2> QED BY <2>2, BoardAssumption DEF Feed!Fits
<1>5. ASSUME NEW s \in Side, NEW p \in Level PROVE Resting(EmptyBook)[s][p] = <<>>
  <2> DEFINE z == Queue(EmptyBook, s, p)
  <2>1. z = <<>>
    BY <1>2 DEF Queue
  <2>2. Resting(EmptyBook)[s][p] = [n \in DOMAIN z |-> [id |-> z[n].id, qty |-> z[n].qty, ts |-> z[n].ts]]
    BY DEF Resting
  <2> HIDE DEF z
  <2>3. Resting(EmptyBook)[s][p] = [n \in 1 .. 0 |-> [id |-> z[n].id, qty |-> z[n].qty, ts |-> z[n].ts]]
    BY <2>1, <2>2
  <2> DEFINE w == [n \in 1 .. 0 |-> [id |-> z[n].id, qty |-> z[n].qty, ts |-> z[n].ts]]
  <2>4. w \in Seq({}) /\ Len(w) = 0
    OBVIOUS
  <2>5. w = <<>>
    <3> HIDE DEF w
    <3> QED BY <2>4
  <2> QED BY <2>3, <2>5
<1>6. Feed!GoodBook(EmptyBook)
  BY <1>1, <1>3, FeedBest DEF Feed!GoodBook
<1> QED BY <1>1, <1>4, <1>5, <1>6 DEF Fine

\* What the reference tells of the first order it takes.
LEMMA FirstTaken ==
    ASSUME NEW m, Sendable(m), m.type = "ADD", InOrder(EmptyBook, m), m.price < NumLevels, 1 <= Room
    PROVE  LET r == Taken(EmptyBook, m)
               e == [id |-> m.id, qty |-> m.qty, ts |-> m.ts]
           IN  /\ Lone(Resting(r.book), m.side, m.price, e) /\ Fine(r.book) /\ m.qty # 0
               /\ ExpectedAck(m, "OK", r.book) =
                    [status |-> "OK", id |-> m.id, rem |-> Board!Remaining(Resting(r.book), m.id),
                     bid |-> Board!Shown(Resting(r.book), "BUY"), ask |-> Board!Shown(Resting(r.book), "SELL"),
                     n |-> Cardinality(Board!Places(Resting(r.book)))]
<1> DEFINE b == EmptyBook
           o == Order(m.id, m.side, m.price, m.qty, m.ts)
           r == AddOrder(b, o)
           e == [id |-> m.id, qty |-> m.qty, ts |-> m.ts]
           y == Resting(r.book)
<1>1. Taken(b, m) = r
  BY TakenIs
<1>2. Fine(b) /\ OrderIds(b) = {} /\ \A s \in Side, p \in Level : Resting(b)[s][p] = <<>>
  BY EmptyFine
<1> HIDE DEF b
<1>3. /\ o.id = m.id /\ o.side = m.side /\ o.price = m.price /\ o.qty = m.qty /\ o.ts = m.ts
      /\ o = [id |-> m.id, side |-> m.side, price |-> m.price, qty |-> m.qty, ts |-> m.ts]
  BY DEF Order
<1>4. m.price \in Nat /\ m.qty \in 0 .. MaxQuantity + 100 /\ m.id \in Nat /\ m.ts \in Nat /\ m.side \in Side
  BY DEF Sendable, Quantities
<1>5. m.price > 0 /\ m.qty > 0
  BY <1>2, TakenInOrder DEF b
<1>7. m.price \in 1 .. NumLevels - 1 /\ m.qty \in 1 .. MaxQuantity + 100 /\ m.price \in Level /\ m.qty # 0
  BY <1>4, <1>5, NumLevelsAssumption, RangeAssumption DEF Level
<1>8. o \in Feed!RestingOrder
  <2> HIDE DEF o
  <2> QED BY <1>3, <1>4, <1>7, FeedBest DEF Feed!RestingOrder
<1>9. Cardinality(OrderIds(b)) < BoardOrders - 1
  <2>1. Cardinality(OrderIds(b)) = 0
    BY <1>2, FS_EmptySet
  <2> QED BY <2>1, BoardAssumption DEF Room
<1> HIDE DEF o
<1>10. /\ Board!Match(Board!Insert(Resting(b), o.side, o.price, [id |-> o.id, qty |-> o.qty, ts |-> o.ts]))
             = [book |-> Resting(r.book), trades |-> r.trades]
       /\ Fine(r.book)
  BY <1>2, <1>3, <1>8, <1>9, FeedAdds
<1> HIDE DEF r
<1> DEFINE a == Board!Insert(Resting(b), m.side, m.price, e)
<1>11. Board!Match(a) = [book |-> y, trades |-> r.trades]
  BY <1>3, <1>10
<1>12. Lone(a, m.side, m.price, e)
  <2> DEFINE z == Resting(b)
             s == m.side
             p == m.price
  <2>1. /\ s \in Side /\ p \in Level /\ Entry(e)
        /\ \A t \in Side, l \in Level : z[t][l] = <<>>
        /\ z = [t \in Side |-> [l \in Level |-> z[t][l]]]
    <3>1. Entry(e)
      BY DEF Entry
    <3>2. z = [t \in Side |-> [l \in Level |-> z[t][l]]]
      BY DEF Resting
    <3> QED BY <1>2, <1>4, <1>7, <3>1, <3>2
  <2>2. a = [z EXCEPT ![s][p] = Append(z[s][p], e)]
    BY DEF Board!Insert
  <2> HIDE DEF z, e, s, p, a
  <2>3. Append(z[s][p], e) = <<e>>
    BY <2>1, OneElement
  <2>4. Filed(<<>>) /\ Filed(<<e>>)
    BY <2>1, OneElement DEF Filed
  <2>5. Shaped(z)
    BY <2>1, <2>4 DEF Shaped
  <2>6. Replaced(s, p, <<e>>, [z EXCEPT ![s][p] = <<e>>], z)
    BY <2>1, <2>4, <2>5, LevelPut
  <2>7. Replaced(s, p, <<e>>, a, z)
    BY <2>2, <2>3, <2>6
  <2>8. Lone(a, s, p, e)
    BY <2>1, <2>7 DEF Replaced, Lone
  <2> QED BY <2>8 DEF s, p
<1> HIDE DEF a
<1>13. Board!Match(a) = [book |-> a, trades |-> <<>>]
  BY <1>12, LoneShows, MatchRests
<1>14. y = a
  BY <1>11, <1>13
<1>15. Lone(y, m.side, m.price, e)
  BY <1>12, <1>14
<1>16. ExpectedAck(m, "OK", r.book) =
         [status |-> "OK", id |-> m.id, rem |-> Board!Remaining(y, m.id),
          bid |-> Board!Shown(y, "BUY"), ask |-> Board!Shown(y, "SELL"),
          n |-> Cardinality(Board!Places(y))]
  BY <1>10, FeedPlaces, Counts DEF ExpectedAck, Fine, Feed!GoodBook
<1> QED BY <1>1, <1>7, <1>10, <1>15, <1>16 DEF b

\* A new order is the only one of its id that a match leaves: it has its own time.
LEMMA KeepsTime ==
    ASSUME NEW b, Roomy(b), NEW s \in Side, NEW p \in Level, NEW e, Entry(e), e.id \notin Board!Live(b),
           NEW x, Shrunk(x, Board!Insert(b, s, p, e)),
           NEW t \in Side, NEW l \in Level, NEW n \in 1 .. Len(x[t][l]), x[t][l][n].id = e.id
    PROVE  x[t][l][n].ts = e.ts
<1> DEFINE a == Board!Insert(b, s, p, e)
           q == b[s][p]
           r == Append(q, e)
<1>1. Replaced(s, p, r, a, b)
  <2>1. a = [b EXCEPT ![s][p] = r]
    BY DEF Board!Insert
  <2>2. Shaped(b) /\ Filed(q)
    BY DEF Roomy, Shaped
  <2> HIDE DEF q
  <2>3. Filed(r)
    BY <2>2, AppendFiled
  <2> HIDE DEF r, a
  <2>4. Replaced(s, p, r, [b EXCEPT ![s][p] = r], b)
    BY <2>2, <2>3, LevelPut
  <2> QED BY <2>1, <2>4
<1> HIDE DEF a
<1>2. PICK k \in 1 .. Len(a[t][l]) : x[t][l][n].id = a[t][l][k].id /\ x[t][l][n].ts = a[t][l][k].ts
  BY DEF Shrunk, Among, a
<1>3. \A u \in Side, v \in Level : \A i \in 1 .. Len(b[u][v]) : b[u][v][i].id \in Board!Live(b)
  <2> SUFFICES ASSUME NEW u \in Side, NEW v \in Level, NEW i \in 1 .. Len(b[u][v])
               PROVE  b[u][v][i].id \in Board!Live(b)
    OBVIOUS
  <2>1. <<u, v, i>> \in Board!Places(b)
    BY Holds DEF Roomy
  <2>2. Board!OrderAt(b, <<u, v, i>>) = b[u][v][i]
    BY DEF Board!OrderAt
  <2> QED BY <2>1, <2>2 DEF Board!Live
<1>4. CASE t = s /\ l = p
  <2>1. a[t][l] = r
    BY <1>1, <1>4 DEF Replaced
  <2>2. Filed(q)
    BY DEF Roomy, Shaped
  <2>3. \A i \in 1 .. Len(q) : q[i].id # e.id
    BY <1>3
  <2> HIDE DEF q
  <2>4. Len(r) = Len(q) + 1 /\ \A i \in 1 .. Len(q) + 1 : r[i] = IF i = Len(q) + 1 THEN e ELSE q[i]
    BY <2>2, AppendFiled
  <2> HIDE DEF r
  <2>5. r[k].id = e.id /\ k \in 1 .. Len(q) + 1
    BY <1>2, <2>1, <2>4
  <2>6. Len(q) \in Nat
    BY <2>2, FiledLength
  <2>7. k = Len(q) + 1
    <3> SUFFICES ASSUME k # Len(q) + 1 PROVE FALSE
      OBVIOUS
    <3>1. k \in 1 .. Len(q)
      BY <2>5, <2>6
    <3>2. r[k] = q[k]
      BY <2>4, <2>5
    <3> QED BY <2>3, <2>5, <3>1, <3>2
  <2>8. r[k] = e
    BY <2>4, <2>5, <2>7
  <2> QED BY <1>2, <2>1, <2>8
<1>5. CASE ~(t = s /\ l = p)
  <2>1. a[t][l] = b[t][l]
    BY <1>1, <1>5 DEF Replaced
  <2> QED BY <1>2, <1>3, <2>1
<1> QED BY <1>4, <1>5

\* Two books with one order each, told alike.
LEMMA LoneAlike ==
    ASSUME NEW x, NEW t, NEW l, NEW d, Lone(x, t, l, d),
           NEW y, NEW s, NEW p, NEW e, Lone(y, s, p, e), 1 <= Room, p # 0,
           Board!Shown(x, "BUY") = Board!Shown(y, "BUY"),
           Board!Shown(x, "SELL") = Board!Shown(y, "SELL"),
           d = e
    PROVE  x = y
<1>1. \A u \in Side : Board!Shown(x, u) = Board!Shown(y, u)
  BY DEF Side
<1>2. /\ Board!Shown(y, s) = p /\ Board!Shown(x, t) = l
      /\ \A u \in Side : u # t => Board!Shown(x, u) = 0
  BY LoneShows
<1>3. s \in Side /\ t \in Side
  BY DEF Lone
<1>4. t = s /\ l = p
  BY <1>1, <1>2, <1>3
<1>5. \A u \in Side, v \in Level : x[u][v] = y[u][v]
  BY <1>4 DEF Lone
<1> QED BY <1>5 DEF Lone, Shaped

\* A test's first command is an addition.  If the board, whatever was on it, answers
\* as an empty one would, it then holds what an empty one would.
LEMMA FirstAlike ==
    ASSUME NEW m, Roomy(book), Sendable(m), m.type = "ADD", InOrder(EmptyBook, m),
           Board!Process(Bare(m)), ack' = ExpectedAck(m, "OK", Taken(EmptyBook, m).book)
    PROVE  book' = Resting(Taken(EmptyBook, m).book) /\ Fine(Taken(EmptyBook, m).book)
<1> DEFINE c == Bare(m)
           e == [id |-> m.id, qty |-> m.qty, ts |-> m.ts]
           a == Board!Insert(book, m.side, m.price, e)
           x == book'
           y == Resting(Taken(EmptyBook, m).book)
<1>1. ack'.status = "OK"
  BY DEF ExpectedAck
<1>2. Board!Add(c)
  <2>1. \A st, rem : Board!Reject(c, st, rem) => st = "OK"
    BY <1>1, RefusedBy DEF Refused
  <2>2. ~(Board!RejectField(c) \/ Board!AddFull(c) \/ Board!AddRefused(c)
          \/ Board!NotLive(c) \/ Board!ExecuteBad(c))
    BY <2>1 DEF Board!RejectField, Board!AddFull, Board!AddRefused, Board!NotLive, Board!ExecuteBad
  <2>3. ~(Board!Cancel(c) \/ Board!ModifyQty(c) \/ Board!ModifyPrice(c) \/ Board!Execute(c))
    BY BareIs DEF Board!Cancel, Board!ModifyQty, Board!ModifyPrice, Board!Execute
  <2> QED BY <2>2, <2>3 DEF Board!Process
<1>3. /\ ~Board!BadField(c) /\ Cardinality(Board!Places(book)) < Room /\ m.id \notin Board!Live(book)
      /\ LET z == Board!Match(Board!Insert(book, m.side, m.price, Board!Order(m.id, m.qty, m.ts)))
         IN  Board!Answer(c, "OK", Board!Remaining(z.book, m.id), z.trades, z.book)
  BY <1>2, BareIs, Counts DEF Board!Add, Room
<1>4. m.price < NumLevels /\ m.price # 0 /\ m.price \in Nat /\ m.side \in Side
  BY <1>3, BareIs DEF Board!BadField, Board!PriceInRange, Sendable
<1>5. m.price \in Level
  BY <1>4, NumLevelsAssumption DEF Level
<1>6. 1 <= Room
  <2>1. Cardinality(Board!Places(book)) \in Nat
    BY PlacesFinite, FS_CardinalityType
  <2>2. Room \in Int
    BY BoardAssumption DEF Room
  <2> QED BY <1>3, <2>1, <2>2
<1>7. /\ Lone(y, m.side, m.price, e) /\ Fine(Taken(EmptyBook, m).book) /\ m.qty # 0
      /\ ack' = [status |-> "OK", id |-> m.id, rem |-> Board!Remaining(y, m.id),
                 bid |-> Board!Shown(y, "BUY"), ask |-> Board!Shown(y, "SELL"),
                 n |-> Cardinality(Board!Places(y))]
  BY <1>4, <1>6, FirstTaken
<1>8. Board!Order(m.id, m.qty, m.ts) = e /\ Entry(e)
  BY DEF Board!Order, Entry
<1>9. /\ x = Board!Match(a).book
      /\ ack' = [status |-> "OK", id |-> m.id, rem |-> Board!Remaining(x, m.id),
                 bid |-> Board!Shown(x, "BUY"), ask |-> Board!Shown(x, "SELL"),
                 n |-> Cardinality(Board!Places(x))]
  <2> DEFINE z == Board!Match(a)
  <2>1. Board!Answer(c, "OK", Board!Remaining(z.book, m.id), z.trades, z.book)
    BY <1>3, <1>8
  <2> HIDE DEF z
  <2> QED BY <2>1, BareIs, Counts DEF Board!Answer, z, c
<1> HIDE DEF y
<1>10. Roomy(a)
  <2> HIDE DEF e
  <2> QED BY <1>3, <1>4, <1>8, InsertRoomy
<1>11. Shrunk(x, a) /\ Roomy(x)
  <2> HIDE DEF a
  <2>1. Shrunk(Board!Match(a).book, a)
    BY <1>10, MatchShrinks DEF Roomy
  <2>2. Shrunk(x, a)
    BY <1>9, <2>1
  <2> QED BY <1>10, <2>2, ShrunkRoomy
<1>12. /\ Board!Remaining(x, m.id) = Board!Remaining(y, m.id)
       /\ Board!Shown(x, "BUY") = Board!Shown(y, "BUY")
       /\ Board!Shown(x, "SELL") = Board!Shown(y, "SELL")
       /\ Cardinality(Board!Places(x)) = Cardinality(Board!Places(y))
  BY <1>7, <1>9
<1>13. e.id = m.id /\ e.qty = m.qty /\ e.ts = m.ts
  OBVIOUS
<1> HIDE DEF e, x, a
<1>14. Cardinality(Board!Places(x)) = 1 /\ Board!Remaining(x, m.id) = m.qty
  BY <1>6, <1>7, <1>12, <1>13, LoneShows
<1>15. PICK t, l, d : Lone(x, t, l, d) /\ d.id = m.id
  BY <1>7, <1>11, <1>14, OneIsLone
<1>16. d.qty = m.qty
  BY <1>6, <1>14, <1>15, LoneShows
<1>17. d.ts = m.ts
  <2>1. t \in Side /\ l \in Level /\ x[t][l] = <<d>> /\ Len(<<d>>) = 1 /\ <<d>>[1] = d
    BY <1>15, OneElement DEF Lone
  <2>2. 1 \in 1 .. Len(x[t][l]) /\ x[t][l][1].id = e.id
    BY <1>13, <1>15, <2>1
  <2>3. x[t][l][1].ts = e.ts
    BY <1>3, <1>4, <1>5, <1>8, <1>11, <1>13, <2>1, <2>2, KeepsTime DEF a
  <2> QED BY <1>13, <2>1, <2>3
<1>18. d = e
  BY <1>8, <1>13, <1>15, <1>16, <1>17 DEF Lone, Entry
<1>19. x = y
  BY <1>4, <1>6, <1>7, <1>12, <1>15, <1>18, LoneAlike
<1> QED BY <1>7, <1>19 DEF x, y

-----------------------------------------------------------------------------
(* The reference after a message.                                           *)

\* A board with no room for an order is empty.
LEMMA NoRoom ==
    ASSUME NEW b, Roomy(b), Room = 0
    PROVE  b = Resting(EmptyBook)
<1>1. \A s \in Side, l \in Level : b[s][l] = <<>>
  <2> SUFFICES ASSUME NEW s \in Side, NEW l \in Level PROVE b[s][l] = <<>>
    OBVIOUS
  <2>1. Filed(b[s][l]) /\ Len(b[s][l]) <= 0
    BY DEF Roomy, Shaped
  <2>2. Len(b[s][l]) \in Nat /\ (b[s][l] = <<>> <=> Len(b[s][l]) = 0)
    BY <2>1, FiledLength
  <2> QED BY <2>1, <2>2
<1> DEFINE y == Resting(EmptyBook)
<1>2. y = [s \in Side |-> [l \in Level |-> y[s][l]]]
  BY DEF Resting
<1>3. b = [s \in Side |-> [l \in Level |-> b[s][l]]]
  BY DEF Roomy, Shaped
<1>4. \A s \in Side, l \in Level : y[s][l] = <<>>
  BY EmptyFine
<1> HIDE DEF y
<1>5. \A s \in Side : \A l \in Level : b[s][l] = y[s][l]
  BY <1>1, <1>4
<1>6. \A s \in Side : [l \in Level |-> b[s][l]] = [l \in Level |-> y[s][l]]
  BY <1>5
<1>7. b = y
  BY <1>2, <1>3, <1>6, Zenon
<1> QED BY <1>7 DEF y

RefFields ==
    {"book", "fills", "derived", "matched", "external", "received", "gaps", "lastSeq"}

IsReference(r) == r = [f \in RefFields |-> r[f]]

\* A message is counted; the book is as before.
LEMMA Counted ==
    ASSUME NEW r, IsReference(r), NEW m
    PROVE  IsReference(Count(r, m)) /\ Count(r, m).book = r.book
<1> DEFINE a == r.received + 1
           b == IF m.seq # 0 /\ r.lastSeq # 0 /\ m.seq # r.lastSeq + 1 THEN r.gaps + 1 ELSE r.gaps
           c == IF m.seq = 0 THEN r.lastSeq ELSE m.seq
<1>2. Count(r, m) = [r EXCEPT !.received = a, !.gaps = b, !.lastSeq = c]
  BY DEF Count
<1> HIDE DEF a, b, c
<1> DEFINE g == [r EXCEPT !.received = a, !.gaps = b, !.lastSeq = c]
<1>3. IsReference(g) /\ g.book = r.book
  BY DEF IsReference, RefFields
<1> HIDE DEF g
<1>4. Count(r, m) = g
  BY <1>2 DEF g
<1> QED BY <1>3, <1>4

\* What comes of _record_fills,
LEMMA Recorded ==
    ASSUME NEW r, IsReference(r), NEW res
    PROVE  LET p == RecordFills(r, res) IN
           IsReference(p.ref) /\ p.ref.book = res.book /\ p.err = res.err /\ p.made = res.trades
<1>1. \A a, b, c : LET g == [r EXCEPT !.book = a, !.derived = b, !.fills = c] IN
                   IsReference(g) /\ g.book = a
  BY DEF IsReference, RefFields
<1> QED BY <1>1 DEF RecordFills

\* of an external fill,
LEMMA AppliedExternal ==
    ASSUME NEW r, IsReference(r), NEW res
    PROVE  LET p == ApplyExternal(r, res) IN
           /\ IsReference(p.ref) /\ p.err = res.err /\ p.made = res.trades
           /\ res.err = "" => p.ref.book = res.book
<1>1. \A a, b, c : LET g == [r EXCEPT !.book = a, !.external = b, !.derived = c] IN
                   IsReference(g) /\ g.book = a
  BY DEF IsReference, RefFields
<1> DEFINE g == [r EXCEPT !.book = res.book, !.external = @ + 1, !.derived = @ + 1]
<1>2. IsReference(g) /\ g.book = res.book
  BY <1>1
<1>3. ApplyExternal(r, res) = [ref |-> IF res.err # "" THEN r ELSE g,
                              err |-> res.err, made |-> res.trades]
  BY DEF ApplyExternal
<1> HIDE DEF g
<1> DEFINE p == ApplyExternal(r, res)
<1>4. p = [ref |-> IF res.err # "" THEN r ELSE g, err |-> res.err, made |-> res.trades]
  BY <1>3
<1> HIDE DEF p
<1> DEFINE t == res.err # ""
<1>5. p.ref = (IF t THEN r ELSE g) /\ p.err = res.err /\ p.made = res.trades
  <2>1. p = [ref |-> IF t THEN r ELSE g, err |-> res.err, made |-> res.trades]
    BY <1>4
  <2> HIDE DEF t
  <2> QED BY ONLY <2>1
<1>6. IsReference(p.ref) /\ (res.err = "" => p.ref.book = res.book)
  BY <1>2, <1>5
<1> QED BY <1>5, <1>6 DEF p

\* A result of process_message is the one of the book's method.
OfBook(p, res) ==
    /\ IsReference(p.ref)
    /\ p.err = res.err /\ p.made = res.trades
    /\ res.err = "" => p.ref.book = res.book

\* and so of any message: the book is the one the message makes.
LEMMA MessageTaken ==
    ASSUME NEW r, IsReference(r), NEW m, Sendable(m)
    PROVE  OfBook(ProcessMessage(r, m), Taken(r.book, m))
<1> DEFINE c == Count(r, m)
           res == Taken(r.book, m)
<1>1. IsReference(c) /\ c.book = r.book
  BY Counted
<1>2. m.type \in {"ADD", "CANCEL", "MODIFY", "EXECUTE"}
  BY DEF Sendable, MsgType
<1>3. /\ m.type = "ADD" => ProcessMessage(r, m) = RecordFills(c, AddOrder(c.book, Order(m.id, m.side, m.price, m.qty, m.ts)))
      /\ m.type = "CANCEL" => ProcessMessage(r, m) = RecordFills(c, CancelOrder(c.book, m.id))
      /\ m.type = "MODIFY" => ProcessMessage(r, m) = RecordFills(c, ModifyOrder(c.book, m.id, m.qty, m.price, m.ts))
      /\ m.type = "EXECUTE" /\ m.external => ProcessMessage(r, m) = ApplyExternal(c, ExecuteOrder(c.book, m.id, m.qty, m.ts))
  <2> HIDE DEF c
  <2>1. m.type = "ADD" => ProcessMessage(r, m) = RecordFills(c, AddOrder(c.book, Order(m.id, m.side, m.price, m.qty, m.ts)))
    BY DEF ProcessMessage, c
  <2>2. m.type = "CANCEL" => ProcessMessage(r, m) = RecordFills(c, CancelOrder(c.book, m.id))
    BY DEF ProcessMessage, c
  <2>3. m.type = "MODIFY" => ProcessMessage(r, m) = RecordFills(c, ModifyOrder(c.book, m.id, m.qty, m.price, m.ts))
    BY DEF ProcessMessage, c
  <2>4. m.type = "EXECUTE" /\ m.external => ProcessMessage(r, m) = ApplyExternal(c, ExecuteOrder(c.book, m.id, m.qty, m.ts))
    BY DEF ProcessMessage, c
  <2> QED BY <2>1, <2>2, <2>3, <2>4
<1> HIDE DEF c, res
<1>4. m.type = "EXECUTE" => m.external
  BY DEF Sendable
<1>5. \/ ProcessMessage(r, m) = RecordFills(c, res)
      \/ ProcessMessage(r, m) = ApplyExternal(c, res)
  BY <1>1, <1>2, <1>3, <1>4, TakenIs DEF res
<1>6. OfBook(RecordFills(c, res), res)
  <2> DEFINE p == RecordFills(c, res)
  <2>1. IsReference(p.ref) /\ p.ref.book = res.book /\ p.err = res.err /\ p.made = res.trades
    BY <1>1, Recorded
  <2> HIDE DEF p
  <2>2. OfBook(p, res)
    BY <2>1 DEF OfBook
  <2> QED BY <2>2 DEF p
<1>7. OfBook(ApplyExternal(c, res), res)
  <2> DEFINE p == ApplyExternal(c, res)
  <2>1. /\ IsReference(p.ref) /\ p.err = res.err /\ p.made = res.trades
        /\ res.err = "" => p.ref.book = res.book
    BY <1>1, AppliedExternal
  <2> HIDE DEF p
  <2>2. OfBook(p, res)
    BY <2>1 DEF OfBook
  <2> QED BY <2>2 DEF p
<1>8. OfBook(ProcessMessage(r, m), res)
  BY <1>5, <1>6, <1>7
<1> QED BY <1>8 DEF res

-----------------------------------------------------------------------------
(* The commands of the stress tests: scripts,                               *)

Scripted == {"capacity", "fastpath", "parallel"}

\* An order that a stress test has fixed.
LEMMA AddSent ==
    ASSUME NEW n \in Nat, NEW id \in Nat, NEW price \in Nat, NEW qty \in 0 .. 100, NEW side \in Side
    PROVE  Sendable(AddOf(n, id, price, qty, side)) /\ AddOf(n, id, price, qty, side).type = "ADD"
<1>1. qty \in Quantities
  BY RangeAssumption DEF Quantities
<1> QED BY <1>1 DEF AddOf, Message, Sendable, MsgType

\* What a stress test has fixed are order events, an addition first.
LEMMA ScriptSends ==
    ASSUME NEW prog \in Scripted
    PROVE  /\ Len(Script(prog)) \in Nat \ {0}
           /\ \A i \in 1 .. Len(Script(prog)) : Sendable(Script(prog)[i])
           /\ Script(prog)[1].type = "ADD"
           /\ prog = "capacity" => Len(Script(prog)) = BoardOrders
<1>2. "BUY" \in Side /\ "SELL" \in Side
  BY DEF Side
<1>3. CASE prog = "capacity"
  <2>1. Script(prog) = [n \in 1 .. BoardOrders |-> AddOf(n, n, 1, 1, "BUY")]
    BY <1>3 DEF Script
  <2>2. Len(Script(prog)) = BoardOrders
    BY <2>1, BoardAssumption
  <2>3. \A i \in 1 .. BoardOrders : Script(prog)[i] = AddOf(i, i, 1, 1, "BUY") /\ i \in Nat
    BY <2>1, BoardAssumption
  <2>4. ASSUME NEW i \in 1 .. BoardOrders PROVE Sendable(Script(prog)[i]) /\ Script(prog)[i].type = "ADD"
    <3>1. i \in Nat /\ 1 \in Nat /\ 1 \in 0 .. 100 /\ Script(prog)[i] = AddOf(i, i, 1, 1, "BUY")
      BY <2>3
    <3>2. Sendable(AddOf(i, i, 1, 1, "BUY")) /\ AddOf(i, i, 1, 1, "BUY").type = "ADD"
      BY <1>2, <3>1, AddSent
    <3> QED BY <3>1, <3>2
  <2> QED BY <2>2, <2>4, BoardAssumption
<1>4. CASE prog = "parallel"
  <2> DEFINE p == Script("parallel")
             a == AddOf(1, 1, 2, 10, "SELL")
             b == AddOf(2, 2, 1, 10, "BUY")
  <2>1. Len(p) = 3
    BY DEF Script
  <2>2. p[1] = a
    BY DEF Script
  <2>3. p[2] = b
    BY DEF Script
  <2>4. Sendable(p[3])
    BY RangeAssumption DEF Script, Message, Sendable, Quantities, MsgType, Side
  <2>5. Sendable(a) /\ Sendable(b) /\ a.type = "ADD"
    <3>1. 1 \in Nat /\ 2 \in Nat /\ 10 \in 0 .. 100
      OBVIOUS
    <3> QED BY <1>2, <3>1, AddSent
  <2> HIDE DEF p, a, b
  <2>6. p = Script(prog)
    BY <1>4 DEF p
  <2>7. \A i \in 1 .. Len(p) : Sendable(p[i])
    <3>1. \A i \in 1 .. Len(p) : i = 1 \/ i = 2 \/ i = 3
      BY <2>1
    <3> QED BY <2>2, <2>3, <2>4, <2>5, <3>1
  <2> QED BY <1>4, <2>1, <2>2, <2>5, <2>6, <2>7
<1>5. CASE prog = "fastpath"
  <2> DEFINE a == AddOf(1, 1, 1, 10, "SELL")
             b == AddOf(2, 2, 2, 20, "SELL")
             c == AddOf(3, 3, 4, 50, "SELL")
             d == AddOf(4, 10, 3, 25, "BUY")
             e == AddOf(5, 11, 4, 60, "BUY")
             f == AddOf(6, 12, 3, 2, "SELL")
             g == AddOf(7, 13, 4, 10, "SELL")
  <2>1. Script(prog) = <<a, b, c, d, e, f, g>>
    BY <1>5 DEF Script
  <2>2. /\ Sendable(a) /\ a.type = "ADD" /\ Sendable(b) /\ Sendable(c)
    <3>1. {1, 2, 3, 4} \subseteq Nat /\ {10, 20, 50} \subseteq 0 .. 100
      OBVIOUS
    <3>2. Sendable(a) /\ a.type = "ADD"
      BY <1>2, <3>1, AddSent
    <3>3. Sendable(b)
      BY <1>2, <3>1, AddSent
    <3>4. Sendable(c)
      BY <1>2, <3>1, AddSent
    <3> QED BY <3>2, <3>3, <3>4
  <2>3. Sendable(d) /\ Sendable(e) /\ Sendable(f) /\ Sendable(g)
    <3>1. {3, 4, 5, 6, 7, 10, 11, 12, 13} \subseteq Nat /\ {25, 60, 2, 10} \subseteq 0 .. 100
      OBVIOUS
    <3>2. Sendable(d)
      BY <1>2, <3>1, AddSent
    <3>3. Sendable(e)
      BY <1>2, <3>1, AddSent
    <3>4. Sendable(f)
      BY <1>2, <3>1, AddSent
    <3>5. Sendable(g)
      BY <1>2, <3>1, AddSent
    <3> QED BY <3>2, <3>3, <3>4, <3>5
  <2> HIDE DEF a, b, c, d, e, f, g
  <2> QED BY <1>5, <2>1, <2>2, <2>3
<1> QED BY <1>3, <1>4, <1>5 DEF Scripted

\* The random stress has nothing fixed.
LEMMA RandomUnscripted == Script("random") = <<>>
BY DEF Script

\* The least and the greatest of two.
LEMMA TwoNumbers ==
    ASSUME NEW a \in Int, NEW b \in Int
    PROVE  /\ Min({a, b}) = IF a <= b THEN a ELSE b
           /\ Max({a, b}) = IF a >= b THEN a ELSE b
<1>1. Min({a, b}) = IF a <= b THEN a ELSE b
  BY DEF Min
<1>2. Max({a, b}) = IF a >= b THEN a ELSE b
  BY DEF Max
<1> QED BY <1>1, <1>2

Priced == 1 .. NumLevels - 1

\* Prices and quantities the generator draws from.
LEMMA Ranges ==
    /\ PriceMin \in Priced /\ PriceMax \in Priced /\ PriceMin <= PriceMax
    /\ PriceMin \in Int /\ PriceMax \in Int /\ NumLevels \in Nat
    /\ MaxQuantity \in Nat \ {0} /\ CrossSpan \in Nat \ {0}
BY RangeAssumption, NumLevelsAssumption DEF Level, Priced

\* The best price of the reference's book.
LEMMA BestPriced ==
    ASSUME NEW b, Fine(b), NEW s \in Side
    PROVE  BestPrice(b, s) = NoPrice \/ BestPrice(b, s) \in Priced
<1>1. Feed!SoundBook(b) /\ s \in Feed!Side
  BY FeedBest DEF Fine, Feed!GoodBook
<1>2. /\ DOMAIN b.levels[s] = {} => Feed!BestPrice(b, s) = Feed!NoPrice
      /\ DOMAIN b.levels[s] # {} => Feed!BestPrice(b, s) \in 1 .. NumLevels - 1
  BY <1>1, Feed!BestPriceIs, FeedOK DEF Feed!RangeAssumption, Feed!StepsAssumption, Feed!NumLevelsAssumption
<1> QED BY <1>2, FeedBest DEF Priced

\* _pick_price stays inside the levels.
LEMMA PicksPriced ==
    ASSUME NEW g, Fine(g.book), NEW s \in Side, NEW crossing \in BOOLEAN
    PROVE  PickPrice(g, s, crossing) \subseteq Priced
<1> DEFINE best == BestPrice(g.book, Opposite(s))
           mid  == (PriceMin + PriceMax) \div 2
           half == (PriceMax - PriceMin) \div 4
<1>1. Opposite(s) \in Side
  BY DEF Opposite, Side
<1>2. best = NoPrice \/ best \in Priced
  BY <1>1, BestPriced
<1>3. mid \in Int /\ half \in Int
  BY Ranges
<1> HIDE DEF best, mid, half
<1>4. ASSUME best # NoPrice, NEW n \in 1 .. CrossSpan
      PROVE  /\ Min({best + n, PriceMax}) \in Priced
             /\ Max({best - n, PriceMin}) \in Priced
  <2>1. best \in Priced
    BY <1>2, <1>4
  <2>2. best + n \in Int /\ best - n \in Int
    BY <2>1, Ranges DEF Priced
  <2>3. Min({best + n, PriceMax}) = IF best + n <= PriceMax THEN best + n ELSE PriceMax
    BY <2>2, Ranges, TwoNumbers
  <2>4. Max({best - n, PriceMin}) = IF best - n >= PriceMin THEN best - n ELSE PriceMin
    BY <2>2, Ranges, TwoNumbers
  <2> QED BY <2>1, <2>3, <2>4, Ranges DEF Priced
<1>5. ASSUME NEW x \in Int
      PROVE  Max({PriceMin, Min({x, PriceMax})}) \in Priced
  <2> DEFINE y == Min({x, PriceMax})
  <2>2. y = IF x <= PriceMax THEN x ELSE PriceMax
    BY Ranges, TwoNumbers
  <2>3. y \in Int /\ y <= PriceMax
    BY Ranges, <2>2
  <2> HIDE DEF y
  <2>4. Max({PriceMin, y}) = IF PriceMin >= y THEN PriceMin ELSE y
    BY Ranges, <2>3, TwoNumbers
  <2>5. Max({PriceMin, y}) \in Priced
    BY <2>3, <2>4, Ranges DEF Priced
  <2> QED BY <2>5 DEF y
<1>6. CASE crossing /\ best # NoPrice
  <2>1. PickPrice(g, s, crossing) =
          {IF s = "BUY" THEN Min({best + n, PriceMax}) ELSE Max({best - n, PriceMin}) :
             n \in 1 .. CrossSpan}
    BY <1>6 DEF PickPrice, best
  <2> QED BY <2>1, <1>4, <1>6
<1>7. CASE ~(crossing /\ best # NoPrice)
  <2>1. PickPrice(g, s, crossing) =
          {Max({PriceMin, Min({IF s = "BUY" THEN mid - n ELSE mid + n, PriceMax})}) :
             n \in 0 .. half}
    BY <1>7 DEF PickPrice, best, mid, half
  <2>2. \A n \in 0 .. half : (IF s = "BUY" THEN mid - n ELSE mid + n) \in Int
    BY <1>3
  <2> QED BY <2>1, <2>2, <1>5
<1> QED BY <1>6, <1>7

-----------------------------------------------------------------------------
(* and the events of the generator.                                         *)

MsgFields == {"type", "side", "external", "seq", "id", "price", "qty", "ts"}

IsMessage(m) == m = [f \in MsgFields |-> m[f]]

GenFields == {"book", "seq", "nextId", "live", "ts", "trades", "err"}

IsGenerator(g) == g = [f \in GenFields |-> g[f]]

\* The generator of a random stress.
GenTyped(g) ==
    /\ IsGenerator(g) /\ g.live = OrderIds(g.book)
    /\ g.nextId \in Nat /\ g.ts \in Nat

\* An order event of it and its result in the generator's own book.
Event(g, m, res) ==
    /\ IsMessage(m) /\ Sendable(m) /\ m.price \in Priced
    /\ res = Taken(g.book, m) /\ Sequence(res.trades)
    /\ m.type # "ADD" => g.live # {}
    /\ m.type = "ADD" => m.id = g.nextId
    /\ g.nextId \notin OrderIds(g.book) => res.err = ""

\* The trades of a raised exception.
LEMMA NoTrades == Sequence(<<>>)
<1>1. <<>> \in Seq({})
  OBVIOUS
<1> QED BY <1>1 DEF Sequence

\* The number of a message does not matter to the books.
LEMMA NumberedAlike ==
    ASSUME NEW m, IsMessage(m), Sendable(m), NEW n, NEW b
    PROVE  LET w == [m EXCEPT !.seq = n] IN
           /\ Sendable(w) /\ w.type = m.type /\ w.id = m.id /\ w.price = m.price
           /\ Taken(b, w) = Taken(b, m)
<1> DEFINE w == [m EXCEPT !.seq = n]
<1>1. /\ w.type = m.type /\ w.side = m.side /\ w.id = m.id /\ w.external = m.external
      /\ w.price = m.price /\ w.qty = m.qty /\ w.ts = m.ts
  BY DEF IsMessage, MsgFields
<1> HIDE DEF w
<1>2. Sendable(w)
  BY <1>1 DEF Sendable
<1>3. Taken(b, w) = Taken(b, m)
  BY <1>1 DEF Taken
<1> QED BY <1>1, <1>2, <1>3 DEF w

\* An order of the generator can rest.
LEMMA OrderRests ==
    ASSUME NEW id \in Nat, NEW s \in Side, NEW p \in Priced, NEW q \in 1 .. MaxQuantity + 100, NEW ts \in Nat
    PROVE  Order(id, s, p, q, ts) \in Feed!RestingOrder /\ Order(id, s, p, q, ts).id = id
BY FeedBest DEF Order, Feed!RestingOrder, Priced

\* The trades of an addition are a sequence,
LEMMA AddTrades ==
    ASSUME NEW b, Fine(b), NEW o \in Feed!RestingOrder
    PROVE  Sequence(AddOrder(b, o).trades)
<1>1. CASE o.id \in OrderIds(b)
  <2>1. AddOrder(b, o).trades = <<>>
    BY <1>1 DEF AddOrder, Raise
  <2> QED BY <2>1, NoTrades
<1>2. CASE o.id \notin OrderIds(b)
  <2>1. o.id \notin Feed!OrderIds(b) /\ Feed!GoodBook(b)
    BY <1>2, FeedBest DEF Fine
  <2>2. Feed!AddOrder(b, o).trades \in Seq(Feed!MadeTrade)
    BY <2>1, Feed!AddGood, FeedOK DEF Feed!RangeAssumption, Feed!StepsAssumption, Feed!NumLevelsAssumption
  <2> QED BY <2>2, FeedMethods DEF Sequence
<1> QED BY <1>1, <1>2

\* and a new order is taken.
LEMMA AddTaken ==
    ASSUME NEW b, Fine(b), NEW o \in Feed!RestingOrder, o.id \notin OrderIds(b)
    PROVE  AddOrder(b, o).err = ""
<1>1. o.id \notin Feed!OrderIds(b) /\ Feed!GoodBook(b)
  BY FeedBest DEF Fine
<1>2. Feed!AddOrder(b, o).err = ""
  BY <1>1, Feed!AddGood, FeedOK DEF Feed!RangeAssumption, Feed!StepsAssumption, Feed!NumLevelsAssumption
<1> QED BY <1>2, FeedMethods

\* So is a change, and its trades are a sequence.
LEMMA ModifyTrades ==
    ASSUME NEW b, Fine(b), NEW id \in OrderIds(b), NEW q \in 1 .. MaxQuantity + 100, NEW p \in Priced,
           NEW ts \in Nat
    PROVE  Sequence(ModifyOrder(b, id, q, p, ts).trades) /\ ModifyOrder(b, id, q, p, ts).err = ""
<1>1. Feed!GoodBook(b) /\ id \in Feed!OrderIds(b) /\ p \in 1 .. NumLevels - 1
  BY FeedBest DEF Fine, Priced
<1>2. /\ Feed!ModifyOrder(b, id, q, p, ts).trades \in Seq(Feed!MadeTrade)
      /\ Feed!ModifyOrder(b, id, q, p, ts).err = ""
  BY <1>1, Feed!ModifyGood, FeedOK DEF Feed!RangeAssumption, Feed!StepsAssumption, Feed!NumLevelsAssumption
<1> QED BY <1>2, FeedMethods DEF Sequence

\* The orders of the reference's book.
LEMMA LiveOrders ==
    ASSUME NEW b, Fine(b), NEW id \in OrderIds(b)
    PROVE  /\ id \in Nat /\ b.orders[id].side \in Side /\ b.orders[id].price \in Priced
           /\ b.orders[id].qty \in 1 .. MaxQuantity + 100
<1>1. b.orders[id] \in Feed!RestingOrder /\ b.orders[id].id = id
  BY FeedPlaces DEF Fine, Feed!GoodBook
<1> QED BY <1>1, FeedBest DEF Feed!RestingOrder, Priced

\* Each of the generator's events is one: an addition,
LEMMA AddEvent ==
    ASSUME NEW g, GenTyped(g), Fine(g.book), NEW s \in Side, NEW p \in Priced, NEW q \in 1 .. MaxQuantity
    PROVE  Event(g, GenAdd(g, s, p, q)[1], GenAdd(g, s, p, q)[2])
<1> DEFINE m == Message("ADD", s, FALSE, 0, g.nextId, p, q, g.ts + 1)
           res == AddOrder(g.book, Order(m.id, s, p, q, m.ts))
<1>1. GenAdd(g, s, p, q)[1] = m /\ GenAdd(g, s, p, q)[2] = res
  BY DEF GenAdd
<1>2. /\ IsMessage(m) /\ m.type = "ADD" /\ m.side = s /\ m.id = g.nextId
      /\ m.price = p /\ m.qty = q /\ m.ts = g.ts + 1
  BY DEF Message, IsMessage, MsgFields
<1> HIDE DEF m
<1>3. m.id \in Nat /\ m.ts \in Nat /\ q \in 1 .. MaxQuantity + 100 /\ q \in Quantities /\ p \in Nat
  BY <1>2, Ranges DEF GenTyped, Quantities, Priced
<1>4. Sendable(m)
  BY <1>2, <1>3 DEF Sendable, MsgType
<1>5. res = Taken(g.book, m)
  BY <1>2, TakenIs
<1>6. Sequence(res.trades)
  BY <1>3, OrderRests, AddTrades
<1>7. m.id \notin OrderIds(g.book) => res.err = ""
  <2> DEFINE o == Order(m.id, s, p, q, m.ts)
  <2>1. o \in Feed!RestingOrder /\ o.id = m.id
    BY <1>3, OrderRests
  <2> HIDE DEF o
  <2>2. m.id \notin OrderIds(g.book) => AddOrder(g.book, o).err = ""
    BY <2>1, AddTaken
  <2> QED BY <2>2 DEF o
<1> HIDE DEF res
<1> QED BY <1>1, <1>2, <1>4, <1>5, <1>6, <1>7 DEF Event

\* a cancellation,
LEMMA CancelEvent ==
    ASSUME NEW g, GenTyped(g), Fine(g.book), NEW id \in g.live
    PROVE  Event(g, GenCancel(g, id)[1], GenCancel(g, id)[2])
<1> DEFINE o == g.book.orders[id]
           m == Message("CANCEL", o.side, FALSE, 0, id, o.price, o.qty, g.ts + 1)
           res == CancelOrder(g.book, id)
<1>1. GenCancel(g, id)[1] = m /\ GenCancel(g, id)[2] = res
  BY DEF GenCancel
<1>2. /\ IsMessage(m) /\ m.type = "CANCEL" /\ m.side = o.side /\ m.id = id
      /\ m.price = o.price /\ m.qty = o.qty /\ m.ts = g.ts + 1
  BY DEF Message, IsMessage, MsgFields
<1> HIDE DEF m
<1>3. id \in OrderIds(g.book)
  BY DEF GenTyped
<1>4. /\ id \in Nat /\ o.side \in Side /\ o.price \in Nat /\ o.qty \in Quantities /\ g.ts + 1 \in Nat
      /\ o.price \in Priced
  BY <1>3, LiveOrders, Ranges DEF GenTyped, Quantities, Priced
<1>5. Sendable(m)
  BY <1>2, <1>4 DEF Sendable, MsgType
<1>6. res = Taken(g.book, m)
  BY <1>2, TakenIs
<1>7. Sequence(res.trades) /\ res.err = ""
  <2>1. res.trades = <<>> /\ res.err = ""
    BY <1>3 DEF CancelOrder, Done
  <2> QED BY <2>1, NoTrades
<1> HIDE DEF res
<1> QED BY <1>1, <1>2, <1>4, <1>5, <1>6, <1>7 DEF Event

\* a change,
LEMMA ModifyEvent ==
    ASSUME NEW g, GenTyped(g), Fine(g.book), NEW id \in g.live, NEW p \in Priced, NEW q \in 1 .. MaxQuantity
    PROVE  Event(g, GenModify(g, id, p, q)[1], GenModify(g, id, p, q)[2])
<1> DEFINE side == g.book.orders[id].side
           m == Message("MODIFY", side, FALSE, 0, id, p, q, g.ts + 1)
           res == ModifyOrder(g.book, id, q, p, m.ts)
<1>1. GenModify(g, id, p, q)[1] = m /\ GenModify(g, id, p, q)[2] = res
  BY DEF GenModify
<1>2. /\ IsMessage(m) /\ m.type = "MODIFY" /\ m.side = side /\ m.id = id
      /\ m.price = p /\ m.qty = q /\ m.ts = g.ts + 1
  BY DEF Message, IsMessage, MsgFields
<1> HIDE DEF m
<1>3. id \in OrderIds(g.book)
  BY DEF GenTyped
<1>4. /\ id \in Nat /\ side \in Side /\ p \in Nat /\ q \in Quantities /\ q \in 1 .. MaxQuantity + 100
      /\ m.ts \in Nat
  BY <1>2, <1>3, LiveOrders, Ranges DEF GenTyped, Quantities, Priced
<1>5. Sendable(m)
  BY <1>2, <1>4 DEF Sendable, MsgType
<1>6. res = Taken(g.book, m)
  BY <1>2, TakenIs
<1>7. Sequence(res.trades) /\ res.err = ""
  BY <1>3, <1>4, ModifyTrades
<1> HIDE DEF res
<1> QED BY <1>1, <1>2, <1>5, <1>6, <1>7 DEF Event

\* an external fill.
LEMMA ExternalEvent ==
    ASSUME NEW g, GenTyped(g), Fine(g.book), NEW id \in g.live, NEW q \in 1 .. g.book.orders[id].qty
    PROVE  Event(g, GenExternal(g, id, q)[1], GenExternal(g, id, q)[2])
<1> DEFINE o == g.book.orders[id]
           m == Message("EXECUTE", o.side, TRUE, 0, id, o.price, q, g.ts + 1)
           res == ExecuteOrder(g.book, id, q, m.ts)
<1>1. GenExternal(g, id, q)[1] = m /\ GenExternal(g, id, q)[2] = res
  BY DEF GenExternal
<1>2. /\ IsMessage(m) /\ m.type = "EXECUTE" /\ m.side = o.side /\ m.id = id /\ m.external = TRUE
      /\ m.price = o.price /\ m.qty = q /\ m.ts = g.ts + 1
  BY DEF Message, IsMessage, MsgFields
<1> HIDE DEF m
<1>3. id \in OrderIds(g.book)
  BY DEF GenTyped
<1>4. /\ id \in Nat /\ o.side \in Side /\ o.price \in Nat /\ q \in Quantities /\ g.ts + 1 \in Nat
      /\ o.price \in Priced /\ o.qty \in Nat
  BY <1>3, LiveOrders, Ranges DEF GenTyped, Quantities, Priced
<1>5. Sendable(m)
  BY <1>2, <1>4 DEF Sendable, MsgType
<1>6. res = Taken(g.book, m)
  BY <1>2, TakenIs
<1>7. Sequence(res.trades)
  <2>1. \A t : Sequence(<<t>>)
    BY OneElement
  <2>2. \/ res.trades = <<>>
        \/ \E t : res.trades = <<t>>
    BY DEF ExecuteOrder, Done, Raise
  <2> QED BY <2>1, <2>2, NoTrades
<1>8. res.err = ""
  <2>1. ~(q <= 0 \/ q > o.qty)
    BY <1>4
  <2>2. \A x, y : Done(x, y).err = ""
    BY DEF Done
  <2>3. \E x, y : res = Done(x, y)
    BY <1>3, <2>1 DEF ExecuteOrder
  <2> QED BY <2>2, <2>3
<1> HIDE DEF res
<1> QED BY <1>1, <1>2, <1>4, <1>5, <1>6, <1>7, <1>8 DEF Event

\* Whatever the generator chooses.
LEMMA EventsSent ==
    ASSUME NEW g, GenTyped(g), Fine(g.book), NEW e \in Events(g)
    PROVE  Event(g, e[1], e[2])
<1>1. \A id \in g.live : g.book.orders[id].side \in Side /\ g.book.orders[id].price \in Priced
  BY LiveOrders DEF GenTyped
<1>2. \A s \in Side : PickPrice(g, s, TRUE) \union PickPrice(g, s, FALSE) \subseteq Priced
  BY PicksPriced
<1>3. CASE e \in AddEvents(g)
  <2> DEFINE P(s) == PickPrice(g, s, TRUE) \union PickPrice(g, s, FALSE)
             Q    == 1 .. MaxQuantity
  <2>1. AddEvents(g) = UNION {{GenAdd(g, s, p, q) : p \in P(s), q \in Q} : s \in Side}
    BY DEF AddEvents
  <2> HIDE DEF P, Q
  <2>2. PICK s \in Side : e \in {GenAdd(g, s, p, q) : p \in P(s), q \in Q}
    BY <1>3, <2>1
  <2>3. PICK p \in P(s), q \in Q : e = GenAdd(g, s, p, q)
    BY <2>2
  <2>4. p \in Priced /\ q \in 1 .. MaxQuantity
    BY <1>2 DEF P, Q
  <2> QED BY <2>3, <2>4, AddEvent
<1>4. CASE e \in CancelEvents(g)
  <2>1. PICK id \in g.live : e = GenCancel(g, id)
    BY <1>4 DEF CancelEvents
  <2> QED BY <2>1, CancelEvent
<1>5. CASE e \in ModifyEvents(g)
  <2> DEFINE P(id) == PickPrice(g, g.book.orders[id].side, FALSE) \union {g.book.orders[id].price}
             Q     == 1 .. MaxQuantity
  <2>1. ModifyEvents(g) = UNION {{GenModify(g, id, p, q) : p \in P(id), q \in Q} : id \in g.live}
    BY DEF ModifyEvents
  <2> HIDE DEF P, Q
  <2>2. PICK id \in g.live : e \in {GenModify(g, id, p, q) : p \in P(id), q \in Q}
    BY <1>5, <2>1
  <2>3. PICK p \in P(id), q \in Q : e = GenModify(g, id, p, q)
    BY <2>2
  <2>4. p \in Priced /\ q \in 1 .. MaxQuantity
    BY <1>1, <1>2 DEF P, Q
  <2> QED BY <2>3, <2>4, ModifyEvent
<1>6. CASE e \in ExternalEvents(g)
  <2>1. PICK id \in g.live : \E q \in 1 .. g.book.orders[id].qty : e = GenExternal(g, id, q)
    BY <1>6 DEF ExternalEvents
  <2> QED BY <2>1, ExternalEvent
<1> QED BY <1>3, <1>4, <1>5, <1>6 DEF Events

\* A batch begins with its event, and the generator's book is then its result's.
LEMMA BatchBegins ==
    ASSUME NEW g, GenTyped(g), NEW m, NEW res, Event(g, m, res)
    PROVE  LET b == Batch(g, m, res) IN
           /\ GenTyped(b.gen) /\ b.gen.book = res.book
           /\ b.gen.nextId = IF m.type = "ADD" THEN g.nextId + 1 ELSE g.nextId
           /\ Head(b.msgs) = [m EXCEPT !.seq = g.seq + 1]
<1> DEFINE fills == IF m.external THEN <<>> ELSE res.trades
           P     == Pairwise(Reports, fills)
           all   == <<m>> \o P
           msgs  == [n \in DOMAIN all |-> [all[n] EXCEPT !.seq = g.seq + n]]
           x     == res.book
           err   == res.err
           s     == g.seq + Len(all)
           t     == g.trades + Len(fills)
           id    == IF m.type = "ADD" THEN g.nextId + 1 ELSE g.nextId
           live  == OrderIds(x)
           u     == g.ts + 1
           gen   == [g EXCEPT !.book = x, !.err = err, !.ts = u, !.seq = s, !.trades = t,
                              !.live = live, !.nextId = id]
<1>1. Batch(g, m, res).msgs = msgs
  BY DEF Batch
<1>2. Batch(g, m, res).gen = gen
  BY DEF Batch
<1>3. Sequence(fills)
  BY NoTrades DEF Event
<1>4. Sequence(P)
  <2> HIDE DEF fills
  <2>1. Len(fills) \in Nat
    BY <1>3, Grows
  <2>2. P = [k \in 1 .. 2 * Len(fills) |-> P[k]] /\ 2 * Len(fills) \in Nat
    BY <2>1 DEF Pairwise
  <2> DEFINE n == 2 * Len(fills)
  <2> HIDE DEF n, P
  <2>3. P \in Seq({P[k] : k \in 1 .. n})
    BY <2>2 DEF n
  <2> QED BY <2>3 DEF Sequence
<1> HIDE DEF fills, P
<1>5. all[1] = m /\ Len(all) \in Nat \ {0} /\ DOMAIN all = 1 .. Len(all)
  <2>1. Sequence(<<m>>) /\ Len(<<m>>) = 1 /\ <<m>>[1] = m
    BY OneElement
  <2>2. Sequence(all) /\ Len(P) \in Nat /\ Len(all) = 1 + Len(P) /\ all[1] = m
    BY <1>4, <2>1, Joins
  <2> HIDE DEF all
  <2> QED BY <2>2, Grows
<1> HIDE DEF all
<1>6. Head(msgs) = [m EXCEPT !.seq = g.seq + 1]
  <2> DEFINE S == {[all[n] EXCEPT !.seq = g.seq + n] : n \in 1 .. Len(all)}
  <2>1. msgs \in Seq(S) /\ Len(msgs) = Len(all) /\ msgs[1] = [all[1] EXCEPT !.seq = g.seq + 1]
    BY <1>5
  <2> HIDE DEF S, msgs
  <2>2. Head(msgs) = msgs[1]
    BY <1>5, <2>1
  <2> QED BY <1>5, <2>1, <2>2
<1>7. GenTyped(gen) /\ gen.book = x /\ gen.nextId = id
  <2>1. id \in Nat /\ u \in Nat
    BY DEF GenTyped
  <2>2. IsGenerator(g)
    BY DEF GenTyped
  <2> HIDE DEF id, x, err, s, t, u, live, msgs
  <2>3. /\ IsGenerator(gen) /\ gen.book = x /\ gen.live = live /\ gen.nextId = id /\ gen.ts = u
    BY <2>2 DEF IsGenerator, GenFields
  <2> HIDE DEF gen
  <2> QED BY <2>1, <2>3 DEF GenTyped, live
<1> HIDE DEF gen, msgs
<1> QED BY <1>1, <1>2, <1>6, <1>7 DEF id

-----------------------------------------------------------------------------
(* What a command and its answer do to the agreement.                       *)

\* The board holds the reference's book b.
Holding(b) == book = Resting(b) /\ Fine(b)

\* The program h has sent its command, which its reference took with the book b,
Accepted(h, b) ==
    /\ Sendable(h.msg) /\ InOrder(b, h.msg)
    /\ h.ref.book = Taken(b, h.msg).book
    /\ h.want.ack = ExpectedAck(h.msg, "OK", h.ref.book)

\* or which is to be refused.
Declined(h, b) == h.want.ack.status = "FULL" /\ h.ref.book = b

\* Before the board has the command; an addition comes first, to whatever is on the
\* board.
Before(h) ==
    \/ \E b : Holding(b) /\ (Accepted(h, b) \/ Declined(h, b))
    \/ h.msg.type = "ADD" /\ Accepted(h, EmptyBook)

\* After it has answered.
After(h) == ack = h.want.ack => Holding(h.ref.book)

\* Between commands.
Ready(h) == IF h.n = 0 THEN h.ref = NewReference ELSE Holding(h.ref.book)

\* The status expected.
LEMMA OkExpected ==
    ASSUME NEW m, NEW b, NEW st
    PROVE  ExpectedAck(m, st, b).status = st
BY DEF ExpectedAck

\* A board that answers as expected has done what is expected.
LEMMA Served ==
    ASSUME Roomy(book), NEW h, Before(h), Board!Process(Bare(h.msg)), ack' = h.want.ack
    PROVE  book' = Resting(h.ref.book) /\ Fine(h.ref.book)
<1>1. CASE h.msg.type = "ADD" /\ Accepted(h, EmptyBook)
  BY <1>1, FirstAlike DEF Accepted
<1>2. ASSUME NEW b, Holding(b), Accepted(h, b) PROVE book' = Resting(h.ref.book) /\ Fine(h.ref.book)
  <2>1. ack'.status = "OK"
    BY <1>2, OkExpected DEF Accepted
  <2>2. Followed(h.msg, Taken(b, h.msg)) /\ Fine(Taken(b, h.msg).book)
    BY <1>2, <2>1, TakesAlike DEF Accepted, Holding
  <2> QED BY <1>2, <2>2 DEF Followed, Accepted
<1>3. ASSUME NEW b, Holding(b), Declined(h, b) PROVE book' = Resting(h.ref.book) /\ Fine(h.ref.book)
  <2>1. book' = book
    BY <1>3, FullDoesNothing DEF Declined
  <2> QED BY <1>3, <2>1 DEF Declined, Holding
<1> QED BY <1>1, <1>2, <1>3 DEF Before

\* What a stress test is after it has sent m.
Sent(h, m, g) ==
    /\ g.phase = "wait" /\ g.n = h.n + 1 /\ g.msg = m /\ g.got = Nothing
    /\ g.verdict = h.verdict /\ IsReference(g.ref) /\ Before(g)
    /\ g.prog = "random" => g.ref.book = Taken(h.ref.book, m).book

\* g is h but for what happens on the way.
SameTest(h, g) ==
    IsProgram(g) /\ g.prog = h.prog /\ g.gen = h.gen /\ g.count = h.count

\* A test that ends keeps its reference.
LEMMA EndsTest ==
    ASSUME NEW h, IsProgram(h), NEW verdict
    PROVE  LET g == End(h, verdict) IN
           SameTest(h, g) /\ g.phase = "off" /\ g.verdict = verdict /\ g.ref = h.ref /\ g.n = h.n
                          /\ g.got = h.got
BY DEF IsProgram, Fields, SameTest, End

\* The reference takes a command and it is sent, or an exception ends the test.
LEMMA ExpectsTest ==
    ASSUME NEW h, IsProgram(h), IsReference(h.ref), h.n \in Nat, Ready(h), Roomy(book),
           NEW m, Sendable(m), h.n = 0 => m.type = "ADD"
    PROVE  LET g == Expect(h, m) IN
           SameTest(h, g) /\ (Sent(h, m, g) \/ (g.phase = "off" /\ g.verdict = "FAIL"))
<1> DEFINE refused == Rejected(h.prog, h.n + 1)
           p == IF refused THEN [ref |-> h.ref, err |-> "", made |-> <<>>]
                           ELSE ProcessMessage(h.ref, m)
           reps == ExpectedReports(p.made, h.seq)
           st == IF refused THEN "FULL" ELSE "OK"
           seq == h.seq + Len(reps)
           n == h.n + 1
           want == [ack |-> ExpectedAck(m, st, p.ref.book), reps |-> reps]
           g == [h EXCEPT !.phase = "wait", !.n = n, !.msg = m, !.ref = p.ref,
                          !.seq = seq, !.got = Nothing, !.want = want]
<1>1. Expect(h, m) = IF p.err # "" THEN End(h, "FAIL") ELSE g
  BY DEF Expect
<1>2. h.n = 0 => h.ref.book = EmptyBook
  BY DEF Ready, NewReference
<1>3. refused => h.prog = "capacity" /\ Holding(h.ref.book)
  <2>1. ASSUME refused PROVE h.prog = "capacity" /\ h.n + 1 = BoardOrders
    BY <2>1 DEF Rejected
  <2>2. ASSUME refused, h.n = 0 PROVE Holding(h.ref.book)
    <3>1. Room = 0
      BY <2>1, <2>2 DEF Room
    <3> QED BY <1>2, <2>2, <3>1, NoRoom, EmptyFine DEF Holding
  <2> QED BY <2>1, <2>2 DEF Ready
<1>4. refused => p.ref = h.ref
  OBVIOUS
<1>5. ~refused => OfBook(p, Taken(h.ref.book, m))
  BY MessageTaken
<1>6. want.ack = ExpectedAck(m, st, p.ref.book)
  OBVIOUS
<1>7. (refused => st = "FULL") /\ (~refused => st = "OK")
  OBVIOUS
<1> HIDE DEF refused, p, reps, st, seq, n, want
<1>8. /\ SameTest(h, g) /\ g.phase = "wait" /\ g.n = n /\ g.msg = m /\ g.got = Nothing
      /\ g.verdict = h.verdict /\ g.ref = p.ref /\ g.want = want
  BY DEF IsProgram, Fields, SameTest
<1> HIDE DEF g
<1>9. CASE p.err # ""
  <2>1. Expect(h, m) = End(h, "FAIL")
    BY <1>1, <1>9
  <2> QED BY <2>1, EndsTest
<1>10. CASE p.err = ""
  <2>1. Expect(h, m) = g
    BY <1>1, <1>10
  <2>2. CASE refused
    <3>1. Declined(g, h.ref.book) /\ Holding(h.ref.book)
      BY <1>3, <1>4, <1>6, <1>7, <1>8, <2>2, OkExpected DEF Declined
    <3>2. Before(g)
      BY <3>1 DEF Before
    <3>3. Sent(h, m, g)
      BY <1>3, <1>4, <1>8, <2>2, <3>2 DEF Sent, SameTest, n
    <3> QED BY <1>8, <2>1, <3>3
  <2>3. CASE ~refused
    <3> DEFINE b == h.ref.book
    <3>1. IsReference(p.ref) /\ Taken(b, m).err = "" /\ p.ref.book = Taken(b, m).book
      BY <1>5, <1>10, <2>3 DEF OfBook
    <3>2. Accepted(g, b)
      BY <1>6, <1>7, <1>8, <2>3, <3>1 DEF Accepted, InOrder
    <3>3. Before(g)
      <4>1. CASE h.n = 0
        BY <1>2, <1>8, <3>2, <4>1 DEF Before
      <4>2. CASE h.n # 0
        BY <3>2, <4>2 DEF Before, Ready
      <4> QED BY <4>1, <4>2
    <3>4. Sent(h, m, g)
      BY <1>8, <3>1, <3>3 DEF Sent, n
    <3> QED BY <1>8, <2>1, <3>4
  <2> QED BY <2>2, <2>3
<1> QED BY <1>9, <1>10

-----------------------------------------------------------------------------
(* Datagrams under way.                                                     *)

\* Where commands are under way to the board, and acknowledgements to the host.
Commands(q) == {i \in DOMAIN q : Decodes(q[i])}

Acks(q) == {i \in DOMAIN q : q[i].kind = "ACK"}

NoCommand(q) == Commands(q) = {}

NoAcks(q) == Acks(q) = {}

\* At most one, and it is this.
OneCommand(q, m) == \A i, j \in Commands(q) : i = j /\ q[i] = m

OneAck(q, a) == \A i, j \in Acks(q) : i = j /\ q[i].ack = a

\* All that q tells of its traffic, p tells too.
Fewer(p, q) ==
    /\ Sequence(p)
    /\ NoCommand(q) => NoCommand(p)
    /\ NoAcks(q) => NoAcks(p)
    /\ \A m : OneCommand(q, m) => OneCommand(p, m)
    /\ \A a : OneAck(q, a) => OneAck(p, a)

\* The places of p are places of q, each once.
LEMMA Picked ==
    ASSUME NEW p, Sequence(p), NEW q, NEW f,
           \A i \in DOMAIN p : f[i] \in DOMAIN q /\ p[i] = q[f[i]],
           \A i, j \in DOMAIN p : f[i] = f[j] => i = j
    PROVE  Fewer(p, q)
<1>1. \A i \in Commands(p) : i \in DOMAIN p /\ f[i] \in Commands(q) /\ p[i] = q[f[i]]
  BY DEF Commands
<1>2. \A i \in Acks(p) : i \in DOMAIN p /\ f[i] \in Acks(q) /\ p[i] = q[f[i]]
  BY DEF Acks
<1>3. NoCommand(q) => NoCommand(p)
  BY <1>1 DEF NoCommand
<1>4. NoAcks(q) => NoAcks(p)
  BY <1>2 DEF NoAcks
<1>5. \A m : OneCommand(q, m) => OneCommand(p, m)
  BY <1>1 DEF OneCommand
<1>6. \A a : OneAck(q, a) => OneAck(p, a)
  BY <1>2 DEF OneAck
<1> QED BY <1>3, <1>4, <1>5, <1>6 DEF Fewer

\* A queue is no more than itself.
LEMMA FewerItself ==
    ASSUME NEW q, Sequence(q)
    PROVE  Fewer(q, q)
BY DEF Fewer

\* The first datagram is delivered,
LEMMA FewerTail ==
    ASSUME NEW q, Sequence(q), q # <<>>
    PROVE  Fewer(Tail(q), q)
<1> DEFINE p == Tail(q)
           f == [i \in DOMAIN p |-> i + 1]
<1>1. /\ Sequence(p) /\ Len(q) \in Nat \ {0} /\ Len(p) = Len(q) - 1
      /\ \A j \in 1 .. Len(q) - 1 : p[j] = q[j + 1]
  BY Shortens
<1> HIDE DEF p
<1>2. DOMAIN p = 1 .. Len(q) - 1 /\ DOMAIN q = 1 .. Len(q)
  BY <1>1, Grows
<1>3. \A i \in DOMAIN p : f[i] \in DOMAIN q /\ p[i] = q[f[i]]
  BY <1>1, <1>2
<1>4. \A i, j \in DOMAIN p : f[i] = f[j] => i = j
  BY <1>1, <1>2
<1> HIDE DEF f
<1>5. Fewer(p, q)
  BY <1>1, <1>3, <1>4, Picked
<1> QED BY <1>5 DEF p

\* one is lost,
LEMMA FewerRemoved ==
    ASSUME NEW q, Sequence(q), NEW n \in DOMAIN q
    PROVE  Fewer(RemoveAt(q, n), q)
<1> DEFINE p == RemoveAt(q, n)
           f == [i \in DOMAIN p |-> IF i < n THEN i ELSE i + 1]
<1>1. /\ Sequence(p) /\ Len(q) \in Nat \ {0} /\ Len(p) = Len(q) - 1
      /\ \A i \in 1 .. Len(q) - 1 : p[i] = IF i < n THEN q[i] ELSE q[i + 1]
  BY Removed
<1> HIDE DEF p
<1>2. DOMAIN p = 1 .. Len(q) - 1 /\ DOMAIN q = 1 .. Len(q)
  BY <1>1, Grows
<1>3. \A i \in DOMAIN p : f[i] \in DOMAIN q /\ p[i] = q[f[i]]
  BY <1>1, <1>2
<1>4. \A i, j \in DOMAIN p : f[i] = f[j] => i = j
  BY <1>1, <1>2
<1> HIDE DEF f
<1>5. Fewer(p, q)
  BY <1>1, <1>3, <1>4, Picked
<1> QED BY <1>5 DEF p

\* two are swapped,
LEMMA FewerSwapped ==
    ASSUME NEW q, Sequence(q), NEW n \in 1 .. Len(q) - 1
    PROVE  Fewer([q EXCEPT ![n] = q[n + 1], ![n + 1] = q[n]], q)
<1> DEFINE p == [q EXCEPT ![n] = q[n + 1], ![n + 1] = q[n]]
           f == [i \in DOMAIN p |-> IF i = n THEN n + 1 ELSE IF i = n + 1 THEN n ELSE i]
<1>1. Len(q) \in Nat /\ DOMAIN q = 1 .. Len(q)
  BY Grows
<1>2. n \in 1 .. Len(q) /\ n + 1 \in 1 .. Len(q) /\ n \in Nat
  BY <1>1
<1>3. Sequence(p)
  <2>1. PICK S : q \in Seq(S)
    BY DEF Sequence
  <2>2. q[n] \in S /\ q[n + 1] \in S
    BY <1>2, <2>1
  <2>3. p \in Seq(S)
    BY <1>2, <2>1, <2>2
  <2> QED BY <2>3 DEF Sequence
<1>4. DOMAIN p = DOMAIN q
  OBVIOUS
<1>5. \A i \in DOMAIN q : p[i] = IF i = n + 1 THEN q[n] ELSE IF i = n THEN q[n + 1] ELSE q[i]
  BY <1>1, <1>2
<1> HIDE DEF p
<1>6. \A i \in DOMAIN p : f[i] \in DOMAIN q /\ p[i] = q[f[i]]
  BY <1>1, <1>2, <1>4, <1>5
<1>7. \A i, j \in DOMAIN p : f[i] = f[j] => i = j
  BY <1>1, <1>2, <1>4
<1> HIDE DEF f
<1>8. Fewer(p, q)
  BY <1>3, <1>6, <1>7, Picked
<1> QED BY <1>8 DEF p

\* A datagram more: none that counts,
LEMMA MoreIdle ==
    ASSUME NEW q, Sequence(q), NEW d
    PROVE  /\ Sequence(Append(q, d))
           /\ ~Decodes(d) /\ NoCommand(q) => NoCommand(Append(q, d))
           /\ NoCommand(q) => OneCommand(Append(q, d), d)
           /\ d.kind # "ACK" /\ NoAcks(q) => NoAcks(Append(q, d))
           /\ NoAcks(q) => OneAck(Append(q, d), d.ack)
           /\ \A a : d.kind # "ACK" /\ OneAck(q, a) => OneAck(Append(q, d), a)
<1> DEFINE p == Append(q, d)
           n == Len(q)
<1>1. /\ Sequence(p) /\ n \in Nat /\ Len(p) = n + 1 /\ DOMAIN q = 1 .. n
      /\ \A i \in 1 .. n : p[i] = q[i]
      /\ p[n + 1] = d
  BY Grows
<1> HIDE DEF p
<1>2. DOMAIN p = 1 .. n + 1
  BY <1>1, Grows
<1> HIDE DEF n
<1>3. \A i \in Commands(p) : (i \in Commands(q) /\ p[i] = q[i]) \/ (i = n + 1 /\ p[i] = d /\ Decodes(d))
  BY <1>1, <1>2 DEF Commands
<1>4. \A i \in Acks(p) : (i \in Acks(q) /\ p[i] = q[i]) \/ (i = n + 1 /\ p[i] = d /\ d.kind = "ACK")
  BY <1>1, <1>2 DEF Acks
<1>5. ~Decodes(d) /\ NoCommand(q) => NoCommand(p)
  BY <1>3 DEF NoCommand
<1>6. NoCommand(q) => OneCommand(p, d)
  BY <1>3 DEF NoCommand, OneCommand
<1>7. d.kind # "ACK" /\ NoAcks(q) => NoAcks(p)
  BY <1>4 DEF NoAcks
<1>8. NoAcks(q) => OneAck(p, d.ack)
  BY <1>4 DEF NoAcks, OneAck
<1>9. \A a : d.kind # "ACK" /\ OneAck(q, a) => OneAck(p, a)
  BY <1>4 DEF OneAck
<1> QED BY <1>1, <1>5, <1>6, <1>7, <1>8, <1>9 DEF p

\* or an answer: reports and then an acknowledgement.
LEMMA MoreAnswer ==
    ASSUME NEW q, Sequence(q), NEW reps, Sequence(reps), NEW a
    PROVE  LET p == q \o [n \in DOMAIN reps |-> ReportDatagram(reps[n])] \o <<AckDatagram(a)>> IN
           /\ Sequence(p)
           /\ NoAcks(q) => OneAck(p, a)
<1> DEFINE sent == [n \in DOMAIN reps |-> ReportDatagram(reps[n])]
           half == q \o sent
           d    == AckDatagram(a)
<1>1. Len(reps) \in Nat /\ DOMAIN reps = 1 .. Len(reps)
  BY Grows
<1>2. /\ Sequence(sent) /\ Len(sent) = Len(reps)
      /\ \A n \in 1 .. Len(reps) : sent[n].kind = "EXECUTE"
  <2> DEFINE S == {ReportDatagram(reps[n]) : n \in 1 .. Len(reps)}
  <2>1. sent \in Seq(S) /\ Len(sent) = Len(reps)
    BY <1>1
  <2>2. \A n \in 1 .. Len(reps) : sent[n] = ReportDatagram(reps[n])
    BY <1>1
  <2>3. \A r : ReportDatagram(r).kind = "EXECUTE"
    BY DEF ReportDatagram
  <2> QED BY <2>1, <2>2, <2>3 DEF Sequence
<1> HIDE DEF sent
<1>3. /\ Sequence(half) /\ Len(q) \in Nat /\ Len(sent) \in Nat /\ Len(half) = Len(q) + Len(sent)
      /\ \A i \in 1 .. Len(q) : half[i] = q[i]
      /\ \A i \in 1 .. Len(sent) : half[Len(q) + i] = sent[i]
  <2>1. Sequence(sent)
    BY ONLY <1>2
  <2> QED BY ONLY <2>1, Sequence(q), Joins DEF half
<1> HIDE DEF half
<1>4. NoAcks(q) => NoAcks(half)
  <2>1. DOMAIN half = 1 .. Len(half) /\ DOMAIN q = 1 .. Len(q)
    BY <1>3, Grows
  <2>2. ASSUME NEW i \in DOMAIN half, half[i].kind = "ACK" PROVE \E j \in DOMAIN q : q[j].kind = "ACK"
    <3>1. CASE i \in 1 .. Len(q)
      BY <1>3, <2>1, <2>2, <3>1
    <3>2. CASE i \notin 1 .. Len(q)
      <4>1. i - Len(q) \in 1 .. Len(sent) /\ Len(q) + (i - Len(q)) = i
        BY <1>3, <2>1, <3>2
      <4>2. half[i] = sent[i - Len(q)]
        BY <1>3, <4>1
      <4>3. sent[i - Len(q)].kind = "EXECUTE"
        BY <1>2, <4>1
      <4> QED BY <2>2, <4>2, <4>3
    <3> QED BY <3>1, <3>2
  <2> QED BY <2>2 DEF NoAcks, Acks
<1>5. d.ack = a
  BY DEF AckDatagram
<1> HIDE DEF d
<1>6. half \o <<d>> = Append(half, d)
  <2>1. PICK S : half \in Seq(S)
    BY <1>3 DEF Sequence
  <2> DEFINE T == S \union {d}
  <2>2. half \in Seq(T) /\ d \in T
    BY <2>1
  <2> HIDE DEF T
  <2> QED BY <2>2, AppendProperties, ConcatProperties
<1>7. Sequence(Append(half, d)) /\ (NoAcks(q) => OneAck(Append(half, d), a))
  BY <1>3, <1>4, <1>5, MoreIdle
<1> QED BY <1>6, <1>7 DEF half, sent, d

\* No traffic.
LEMMA NothingUnderWay ==
    /\ Sequence(<<>>) /\ NoCommand(<<>>) /\ NoAcks(<<>>)
<1>1. DOMAIN <<>> = {}
  OBVIOUS
<1> QED BY <1>1, NoTrades DEF NoCommand, NoAcks, Commands, Acks

\* The first command of at most one.
LEMMA TakesOne ==
    ASSUME NEW q, Sequence(q), q # <<>>, NEW m, OneCommand(q, m), Decodes(Head(q))
    PROVE  Head(q) = m /\ NoCommand(Tail(q))
<1>1. /\ Sequence(Tail(q)) /\ Len(q) \in Nat \ {0} /\ Len(Tail(q)) = Len(q) - 1
      /\ Head(q) = q[1]
      /\ \A j \in 1 .. Len(q) - 1 : Tail(q)[j] = q[j + 1]
  BY Shortens
<1>2. DOMAIN Tail(q) = 1 .. Len(q) - 1 /\ DOMAIN q = 1 .. Len(q)
  BY <1>1, Grows
<1>3. 1 \in Commands(q)
  BY <1>1, <1>2 DEF Commands
<1>4. Head(q) = m
  BY <1>1, <1>3 DEF OneCommand
<1>5. ASSUME NEW j \in Commands(Tail(q)) PROVE FALSE
  <2>1. j \in 1 .. Len(q) - 1 /\ Decodes(Tail(q)[j])
    BY <1>2, <1>5 DEF Commands
  <2>2. j + 1 \in Commands(q) /\ j + 1 # 1
    BY <1>1, <1>2, <2>1 DEF Commands
  <2> QED BY <1>3, <2>2 DEF OneCommand
<1> QED BY <1>4, <1>5 DEF NoCommand

\* The first acknowledgement of at most one.
LEMMA HearsOne ==
    ASSUME NEW q, Sequence(q), q # <<>>, NEW a, OneAck(q, a), Head(q).kind = "ACK"
    PROVE  Head(q).ack = a /\ NoAcks(Tail(q))
<1>1. /\ Sequence(Tail(q)) /\ Len(q) \in Nat \ {0} /\ Len(Tail(q)) = Len(q) - 1
      /\ Head(q) = q[1]
      /\ \A j \in 1 .. Len(q) - 1 : Tail(q)[j] = q[j + 1]
  BY Shortens
<1>2. DOMAIN Tail(q) = 1 .. Len(q) - 1 /\ DOMAIN q = 1 .. Len(q)
  BY <1>1, Grows
<1>3. 1 \in Acks(q)
  BY <1>1, <1>2 DEF Acks
<1>4. Head(q).ack = a
  BY <1>1, <1>3 DEF OneAck
<1>5. ASSUME NEW j \in Acks(Tail(q)) PROVE FALSE
  <2>1. j \in 1 .. Len(q) - 1 /\ Tail(q)[j].kind = "ACK"
    BY <1>2, <1>5 DEF Acks
  <2>2. j + 1 \in Acks(q) /\ j + 1 # 1
    BY <1>1, <1>2, <2>1 DEF Acks
  <2> QED BY <1>3, <2>2 DEF OneAck
<1> QED BY <1>4, <1>5 DEF NoAcks

\* Nothing comes first.
LEMMA HeadOfNone ==
    ASSUME NEW q, Sequence(q), q # <<>>
    PROVE  (NoCommand(q) => ~Decodes(Head(q))) /\ (NoAcks(q) => Head(q).kind # "ACK")
<1>1. Len(q) \in Nat \ {0} /\ Head(q) = q[1] /\ DOMAIN q = 1 .. Len(q)
  BY Shortens, Grows
<1>2. 1 \in DOMAIN q
  BY <1>1
<1> QED BY <1>1, <1>2 DEF NoCommand, NoAcks, Commands, Acks

-----------------------------------------------------------------------------
(* A stress test and the board it tests.                                      *)

\* Nothing came twice.
Clean == ~Contains(faults, "doubled") /\ ~Contains(faults, "repeated")

\* No command and no answer is on its way.
Silent == NoCommand(toBoard) /\ NoAcks(toHost)

\* A command is on its way or lost, or its acknowledgement is, or that has come.
Waits ==
    /\ host.n # 0
    /\ \/ OneCommand(toBoard, host.msg) /\ NoAcks(toHost) /\ host.got.ack = NoAck /\ Before(host)
       \/ NoCommand(toBoard) /\ OneAck(toHost, ack) /\ host.got.ack = NoAck /\ After(host)
       \/ NoCommand(toBoard) /\ NoAcks(toHost) /\ host.got.ack = ack /\ After(host)

Running ==
    /\ host.verdict # "PASS"
    /\ IsReference(host.ref) /\ GenTyped(host.gen) /\ host.n \in Nat
    /\ host.got = [ack |-> host.got.ack, reps |-> host.got.reps]
    /\ host.prog \in Scripted => host.count = Len(Script(host.prog)) /\ host.n <= host.count
    /\ host.prog = "random" => host.gen.book = host.ref.book

\* Between commands, or before the first.
BetweenCommands ==
    /\ Silent /\ Ready(host)
    /\ host.prog \in Scripted => host.n # host.count
    /\ host.n = 0 => host.got.ack = NoAck

Agreeing ==
    /\ host.phase \in {"prime", "send", "wait", "off"}
    /\ host.phase # "off" => Running
    /\ host.phase \in {"prime", "send"} => BetweenCommands
    /\ host.phase = "prime" => host.n = 0
    /\ host.phase = "wait" => Waits
    /\ host.phase = "off" /\ host.verdict = "PASS" =>
         NoCommand(toBoard) /\ Holding(host.ref.book)

\* What holds of every program,
Tidy ==
    /\ IsProgram(host) /\ Roomy(book)
    /\ Sequence(toBoard) /\ Sequence(toHost) /\ Sequence(faults)

\* and the inductive invariant.
AgreeInv == Tidy /\ (host.prog \in Stress /\ Clean => Agreeing)

-----------------------------------------------------------------------------
\* The stress tests are the random one and three with a script.
LEMMA StressPrograms ==
    /\ "prompt" \notin Stress /\ "none" \notin Stress
    /\ \A prog \in Stress : prog = "random" \/ prog \in Scripted
    /\ \A prog \in Scripted : prog \notin Unscripted /\ prog \in Stress /\ prog # "random"
BY DEF Stress, Scripted, Unscripted

\* A disturbance is one more.
LEMMA CleanBefore ==
    ASSUME NEW what, NEW commands, NEW answers, Disturb(what, commands, answers),
           Sequence(faults)
    PROVE  /\ Sequence(faults')
           /\ Clean' => Clean /\ what # "doubled" /\ what # "repeated"
<1>1. faults' = Append(faults, what)
  BY DEF Disturb
<1>2. /\ Sequence(faults') /\ Len(faults) \in Nat /\ Len(faults') = Len(faults) + 1
      /\ \A i \in 1 .. Len(faults) : faults'[i] = faults[i]
      /\ faults'[Len(faults) + 1] = what
  BY <1>1, Grows
<1>3. \A i \in 1 .. Len(faults) : i \in 1 .. Len(faults')
  BY <1>2
<1>4. Len(faults) + 1 \in 1 .. Len(faults')
  BY <1>2
<1> QED BY <1>2, <1>3, <1>4 DEF Clean, Contains

\* A datagram that comes twice.
LEMMA Inserted ==
    ASSUME NEW q, Sequence(q), NEW n \in DOMAIN q, NEW d
    PROVE  Sequence(InsertAt(q, n, d))
<1>1. PICK S : q \in Seq(S)
  BY DEF Sequence
<1> DEFINE T == S \union {d}
<1>2. q \in Seq(T) /\ d \in T
  BY <1>1
<1> HIDE DEF T
<1>3. n \in 1 .. Len(q) /\ Len(q) \in Nat
  BY <1>2
<1>4. SubSeq(q, 1, n - 1) \in Seq(T) /\ SubSeq(q, n, Len(q)) \in Seq(T) /\ <<d>> \in Seq(T)
  BY <1>2, <1>3
<1>5. SubSeq(q, 1, n - 1) \o <<d>> \o SubSeq(q, n, Len(q)) \in Seq(T)
  BY <1>4
<1> QED BY <1>5 DEF InsertAt, Sequence

\* Traffic that tells no more than before disturbs nothing.
LEMMA LessTraffic ==
    ASSUME Agreeing, UNCHANGED <<host, boardVars>>,
           NoCommand(toBoard) => NoCommand(toBoard'), NoAcks(toHost) => NoAcks(toHost'),
           \A m : OneCommand(toBoard, m) => OneCommand(toBoard', m),
           \A a : OneAck(toHost, a) => OneAck(toHost', a)
    PROVE  Agreeing'
<1>1. book' = book /\ ack' = ack /\ host' = host
  BY DEF boardVars
<1>2. \A b : Holding(b)' <=> Holding(b)
  BY <1>1 DEF Holding
<1>3. Before(host) => Before(host)'
  BY <1>1, <1>2 DEF Before
<1>4. After(host) => After(host)'
  BY <1>1, <1>2 DEF After
<1>5. Ready(host) => Ready(host)'
  BY <1>1, <1>2 DEF Ready
<1>6. Running => Running'
  BY <1>1 DEF Running
<1>7. BetweenCommands => BetweenCommands'
  BY <1>1, <1>5 DEF BetweenCommands, Silent
<1>8. Waits => Waits'
  BY <1>1, <1>3, <1>4 DEF Waits
<1>9. Holding(host.ref.book) => Holding(host.ref.book)'
  BY <1>1, <1>2
<1> QED BY <1>1, <1>6, <1>7, <1>8, <1>9 DEF Agreeing

\* A test that has failed has nothing more to say.
LEMMA Failed ==
    ASSUME host'.phase = "off", host'.verdict # "PASS"
    PROVE  Agreeing'
BY DEF Agreeing

\* At first no program runs and the board is empty.
LEMMA AgreeInit ==
    Init => AgreeInv
<1> SUFFICES ASSUME Init PROVE AgreeInv
  OBVIOUS
<1>1. /\ host = Idle /\ toBoard = <<>> /\ toHost = <<>> /\ faults = <<>>
      /\ book = [s \in Side |-> [l \in Level |-> <<>>]]
  BY DEF Init, LinkInit, Board!Init, Board!Side, Board!Level, Side, Level
<1>2. IsProgram(Idle) /\ Idle.prog = "none"
  BY DEF Idle, IsProgram, Fields
<1>3. Roomy(book)
  BY <1>1, EmptyRoomy
<1> QED BY <1>1, <1>2, <1>3, NoTrades, StressPrograms DEF AgreeInv, Tidy

-----------------------------------------------------------------------------
(* The steps.                                                               *)

\* A program that starts is silent.
LEMMA StartAgrees ==
    ASSUME AgreeInv, NEW prog, Start(prog)
    PROVE  AgreeInv'
<1>1. PICK count : /\ host' = [Idle EXCEPT !.prog = prog, !.session = host.session + 1,
                              !.fresh = (cmd = Board!ZeroCmd), !.phase = "send",
                              !.count = count,
                              !.used = host.used + IF prog \in Unscripted THEN count ELSE 0]
                   /\ prog \notin Unscripted => count = Len(Script(prog))
  BY DEF Start
<1>2. /\ IsProgram(Idle) /\ Idle.verdict = "" /\ Idle.ref = NewReference
      /\ Idle.gen = NewGenerator /\ Idle.n = 0 /\ Idle.got = Nothing
  BY DEF Idle, IsProgram, Fields
<1>3. /\ IsProgram(host') /\ host'.phase = "send" /\ host'.prog = prog /\ host'.count = count
      /\ host'.verdict = "" /\ host'.ref = NewReference /\ host'.gen = NewGenerator
      /\ host'.n = 0 /\ host'.got = Nothing
  <2> DEFINE fresh == cmd = Board!ZeroCmd
             used == host.used + IF prog \in Unscripted THEN count ELSE 0
             session == host.session + 1
             g == [Idle EXCEPT !.prog = prog, !.session = session, !.fresh = fresh,
                               !.phase = "send", !.count = count, !.used = used]
  <2>1. host' = g
    BY <1>1
  <2> HIDE DEF fresh, used, session
  <2>2. /\ IsProgram(g) /\ g.phase = "send" /\ g.prog = prog /\ g.count = count
        /\ g.verdict = Idle.verdict /\ g.ref = Idle.ref /\ g.gen = Idle.gen
        /\ g.n = Idle.n /\ g.got = Idle.got
    BY <1>2 DEF IsProgram, Fields
  <2> QED BY <1>2, <2>1, <2>2
<1>4. /\ book' = book /\ toBoard' = toBoard /\ toHost' = toHost /\ faults' = faults
      /\ toBoard = <<>> /\ toHost = <<>>
  BY DEF Start, Quiet, linkVars, boardVars
<1>5. Tidy'
  BY <1>3, <1>4 DEF AgreeInv, Tidy
<1>6. IsReference(NewReference) /\ NewReference.book = EmptyBook
  BY DEF NewReference, IsReference, RefFields
<1>7. GenTyped(NewGenerator) /\ NewGenerator.book = EmptyBook
  <2>1. IsGenerator(NewGenerator)
    BY DEF NewGenerator, IsGenerator, GenFields
  <2>2. /\ NewGenerator.book = EmptyBook /\ NewGenerator.live = {}
        /\ NewGenerator.nextId = 1 /\ NewGenerator.ts = 0
    BY DEF NewGenerator
  <2> QED BY <2>1, <2>2, EmptyFine DEF GenTyped
<1>8. ASSUME prog \in Scripted PROVE count = Len(Script(prog)) /\ 0 <= count /\ 0 # count
  <2>1. count = Len(Script(prog))
    BY <1>1, <1>8, StressPrograms
  <2>2. Len(Script(prog)) \in Nat \ {0}
    BY <1>8, ScriptSends
  <2> QED BY <2>1, <2>2
<1>9. Nothing = [ack |-> NoAck, reps |-> <<>>]
  BY DEF Nothing
<1>10. Running'
  <2>1. host'.verdict # "PASS"
    BY <1>3
  <2>2. host'.got = [ack |-> host'.got.ack, reps |-> host'.got.reps]
    BY <1>3, <1>9
  <2>3. host'.n \in Nat
    <3>1. 0 \in Nat
      OBVIOUS
    <3>2. host'.n = 0
      BY ONLY <1>3
    <3> QED BY ONLY <3>1, <3>2
  <2>4. host'.prog \in Scripted => host'.count = Len(Script(host'.prog)) /\ host'.n <= host'.count
    BY <1>3, <1>8
  <2> QED BY <1>3, <1>6, <1>7, <2>1, <2>2, <2>3, <2>4 DEF Running
<1>11. BetweenCommands'
  <2>1. Silent'
    BY <1>4, NothingUnderWay DEF Silent
  <2>2. Ready(host)'
    BY <1>3 DEF Ready
  <2>3. host'.got.ack = NoAck
    <3>1. Nothing.ack = NoAck
      BY ONLY <1>9
    <3> QED BY ONLY <1>3, <3>1
  <2> QED BY <1>3, <1>8, <2>1, <2>2, <2>3 DEF BetweenCommands
<1>12. Agreeing'
  BY <1>3, <1>10, <1>11 DEF Agreeing
<1> QED BY <1>5, <1>12 DEF AgreeInv

\* The reference has taken a command and it is sent.
LEMMA ExpectedSent ==
    ASSUME Tidy, Running, BetweenCommands, NEW h, IsProgram(h),
           h.prog = host.prog, h.ref = host.ref, h.n = host.n, h.count = host.count,
           h.verdict = host.verdict, GenTyped(h.gen),
           NEW m, Sendable(m), h.n = 0 => m.type = "ADD", SendExpected(h, m),
           h.prog = "random" => h.gen.book = Taken(h.ref.book, m).book
    PROVE  Agreeing'
<1>1. SameTest(h, host') /\ (Sent(h, m, host') \/ (host'.phase = "off" /\ host'.verdict = "FAIL"))
  <2>1. h.n \in Nat /\ IsReference(h.ref) /\ Roomy(book)
    BY DEF Running, Tidy
  <2>2. Ready(h)
    BY DEF BetweenCommands, Ready
  <2>3. host' = Expect(h, m)
    BY DEF SendExpected
  <2> QED BY <2>1, <2>2, <2>3, ExpectsTest
<1>2. CASE host'.phase = "off" /\ host'.verdict = "FAIL"
  BY <1>2, Failed
<1>3. CASE Sent(h, m, host')
  <2>1. /\ host'.phase = "wait" /\ host'.n = host.n + 1 /\ host'.msg = m /\ host'.got = Nothing
        /\ host'.verdict = host.verdict /\ IsReference(host'.ref) /\ Before(host')
        /\ host'.prog = "random" => host'.ref.book = Taken(h.ref.book, m).book
    BY <1>3 DEF Sent
  <2>2. host'.prog = host.prog /\ host'.gen = h.gen /\ host'.count = host.count
    BY <1>1 DEF SameTest
  <2>3. toBoard' = Append(toBoard, m) /\ book' = book /\ toHost' = toHost
    BY <2>1 DEF SendExpected, SendDatagram, boardVars
  <2>4. Nothing.ack = NoAck /\ Nothing = [ack |-> Nothing.ack, reps |-> Nothing.reps]
    BY DEF Nothing
  <2>5. host.n \in Nat /\ host.n + 1 \in Nat /\ host.n + 1 # 0
    BY DEF Running
  <2>6. OneCommand(toBoard', m) /\ NoAcks(toHost')
    BY <2>3, MoreIdle DEF BetweenCommands, Silent, Tidy
  <2>7. Before(host)'
    BY <2>1, <2>3 DEF Before, Holding
  <2>8. Waits'
    BY <2>1, <2>4, <2>5, <2>6, <2>7 DEF Waits
  <2>9. host.prog \in Scripted => host.count = Len(Script(host.prog)) /\ host.n + 1 <= host.count
    <3>1. ASSUME host.prog \in Scripted PROVE host.count = Len(Script(host.prog)) /\ host.n + 1 <= host.count
      <4>1. host.count = Len(Script(host.prog)) /\ host.n <= host.count /\ host.n # host.count
        BY <3>1 DEF Running, BetweenCommands
      <4>2. Len(Script(host.prog)) \in Nat
        BY <3>1, ScriptSends
      <4> QED BY <2>5, <4>1, <4>2
    <3> QED BY <3>1
  <2>10. Running'
    <3>1. host'.verdict # "PASS"
      BY <2>1 DEF Running
    <3>2. host'.got = [ack |-> host'.got.ack, reps |-> host'.got.reps]
      BY <2>1, <2>4
    <3>3. host'.prog \in Scripted => host'.count = Len(Script(host'.prog)) /\ host'.n <= host'.count
      BY <2>1, <2>2, <2>9
    <3>4. host'.prog = "random" => host'.gen.book = host'.ref.book
      BY <2>1, <2>2
    <3> QED BY <2>1, <2>2, <2>5, <3>1, <3>2, <3>3, <3>4 DEF Running
  <2> QED BY <2>1, <2>8, <2>10 DEF Agreeing
<1> QED BY <1>1, <1>2, <1>3

\* A command is sent, or the test has ended.
LEMMA ExpectedTidy ==
    ASSUME Tidy, NEW h, IsProgram(h), h.prog = host.prog, NEW m, SendExpected(h, m)
    PROVE  Tidy' /\ host'.prog = host.prog /\ faults' = faults
<1>1. Continues(h, host')
  BY Expects DEF SendExpected
<1>2. faults' = faults /\ book' = book /\ toHost' = toHost /\ (toBoard' = toBoard \/ toBoard' = Append(toBoard, m))
  BY DEF SendExpected, SendDatagram, linkVars, boardVars
<1>3. Sequence(toBoard')
  <2>1. Sequence(toBoard) /\ Sequence(Append(toBoard, m))
    BY Grows DEF Tidy
  <2> QED BY <1>2, <2>1
<1> QED BY <1>1, <1>2, <1>3 DEF Tidy, Continues

\* The priming datagram is no command.
LEMMA PrimeAgrees ==
    ASSUME AgreeInv, SendPrime
    PROVE  AgreeInv'
<1>1. /\ host.phase = "send" /\ host.prog \in Stress /\ host.n = 0
      /\ host' = [host EXCEPT !.phase = "prime", !.msg = Prime]
      /\ toBoard' = Append(toBoard, Prime)
      /\ toHost' = toHost /\ faults' = faults /\ book' = book
  BY DEF SendPrime, SendDatagram, boardVars
<1>2. /\ IsProgram(host') /\ host'.phase = "prime" /\ host'.prog = host.prog
      /\ host'.n = host.n /\ host'.count = host.count /\ host'.ref = host.ref
      /\ host'.gen = host.gen /\ host'.got = host.got /\ host'.verdict = host.verdict
  BY <1>1 DEF AgreeInv, Tidy, IsProgram, Fields
<1>3. ~Decodes(Prime)
  BY DEF Prime, Junk, Message, Decodes, MsgType
<1>4. Sequence(toBoard') /\ (NoCommand(toBoard) => NoCommand(toBoard'))
  BY <1>1, <1>3, MoreIdle DEF AgreeInv, Tidy
<1>5. Tidy'
  BY <1>1, <1>2, <1>4 DEF AgreeInv, Tidy
<1>6. ASSUME Clean' PROVE Agreeing'
  <2>1. Running /\ BetweenCommands
    BY <1>1, <1>6 DEF AgreeInv, Agreeing, Clean
  <2>2. Running'
    BY <1>2, <2>1 DEF Running
  <2>3. BetweenCommands'
    BY <1>1, <1>2, <1>4, <2>1 DEF BetweenCommands, Silent, Ready
  <2> QED BY <1>1, <1>2, <2>2, <2>3 DEF Agreeing
<1> QED BY <1>5, <1>6 DEF AgreeInv

\* A command of a script is sent.
LEMMA ScriptedAgrees ==
    ASSUME AgreeInv, SendScripted
    PROVE  AgreeInv'
<1> DEFINE m == Script(host.prog)[host.n + 1]
           stamped == IF host.prog = "demo" THEN [m EXCEPT !.ts = 100 * host.session + host.n] ELSE m
<1>1. CASE host.prog \in Stress
  <2>1. host.phase = "send" /\ Script(host.prog) # <<>> /\ SendExpected(host, m)
    BY <1>1 DEF SendScripted
  <2>2. Tidy' /\ host'.prog = host.prog /\ faults' = faults
    BY <2>1, ExpectedTidy DEF AgreeInv, Tidy
  <2>3. ASSUME Clean' PROVE Agreeing'
    <3>1. Tidy /\ Running /\ BetweenCommands
      BY <1>1, <2>1, <2>2, <2>3 DEF AgreeInv, Agreeing, Clean
    <3>2. host.prog \in Scripted /\ host.prog # "random"
      BY <1>1, <2>1, StressPrograms, RandomUnscripted
    <3>3. Sendable(m) /\ (host.n = 0 => m.type = "ADD")
      <4>1. /\ host.n \in Nat /\ host.n <= host.count /\ host.n # host.count
            /\ host.count = Len(Script(host.prog))
        BY <3>1, <3>2 DEF Running, BetweenCommands
      <4>2. Len(Script(host.prog)) \in Nat
        BY <3>2, ScriptSends
      <4>3. host.n + 1 \in 1 .. Len(Script(host.prog))
        BY <4>1, <4>2
      <4>4. host.n = 0 => host.n + 1 = 1
        BY <4>1
      <4> QED BY <3>2, <4>3, <4>4, ScriptSends
    <3> HIDE DEF m
    <3>4. IsProgram(host) /\ GenTyped(host.gen)
      BY <3>1 DEF Tidy, Running
    <3> QED BY <2>1, <3>1, <3>2, <3>3, <3>4, ExpectedSent
  <2> QED BY <2>2, <2>3 DEF AgreeInv
<1>2. CASE host.prog \notin Stress
  <2> DEFINE n == host.n + 1
  <2>1. /\ host' = [host EXCEPT !.phase = "wait", !.n = n, !.msg = stamped, !.got = Nothing]
        /\ SendDatagram(stamped)
    BY <1>2 DEF SendScripted
  <2> HIDE DEF n, stamped
  <2>2. IsProgram(host') /\ host'.prog = host.prog
    BY <2>1 DEF AgreeInv, Tidy, IsProgram, Fields
  <2>3. toBoard' = Append(toBoard, stamped) /\ toHost' = toHost /\ faults' = faults /\ book' = book
    BY <2>1 DEF SendDatagram, boardVars
  <2>4. Sequence(toBoard')
    BY <2>3, Grows DEF AgreeInv, Tidy
  <2> QED BY <1>2, <2>2, <2>3, <2>4 DEF AgreeInv, Tidy
<1> QED BY <1>1, <1>2

\* A command of the generator is sent; its book is the reference's.
LEMMA RandomAgrees ==
    ASSUME AgreeInv, SendRandom
    PROVE  AgreeInv'
<1>1. PICK e \in Events(host.gen) :
        LET b == Batch(host.gen, e[1], e[2]) IN
        SendExpected([host EXCEPT !.gen = b.gen], Head(b.msgs))
  BY DEF SendRandom
<1>2. host.phase = "send" /\ host.prog = "random" /\ host.prog \in Stress
  BY DEF SendRandom, Stress
<1> DEFINE b == Batch(host.gen, e[1], e[2])
           h == [host EXCEPT !.gen = b.gen]
           w == Head(b.msgs)
<1>3. SendExpected(h, w)
  BY <1>1
<1>4. /\ IsProgram(h) /\ h.prog = host.prog /\ h.ref = host.ref /\ h.n = host.n
      /\ h.count = host.count /\ h.verdict = host.verdict /\ h.gen = b.gen
  <2> HIDE DEF b
  <2> QED BY DEF AgreeInv, Tidy, IsProgram, Fields
<1> HIDE DEF h
<1>5. Tidy' /\ host'.prog = host.prog /\ faults' = faults
  BY <1>3, <1>4, ExpectedTidy DEF AgreeInv
<1>6. ASSUME Clean' PROVE Agreeing'
  <2>1. Tidy /\ Running /\ BetweenCommands
    BY <1>2, <1>5, <1>6 DEF AgreeInv, Agreeing, Clean
  <2>2. GenTyped(host.gen) /\ host.gen.book = host.ref.book /\ host.n \in Nat
    BY <1>2, <2>1 DEF Running
  <2>3. Fine(host.ref.book) /\ (host.n = 0 => host.ref.book = EmptyBook)
    <3>1. NewReference.book = EmptyBook
      BY DEF NewReference
    <3> QED BY <2>1, <3>1, EmptyFine DEF BetweenCommands, Ready, Holding
  <2>4. Event(host.gen, e[1], e[2])
    BY <2>2, <2>3, EventsSent
  <2>5. /\ GenTyped(b.gen) /\ b.gen.book = e[2].book
        /\ w = [e[1] EXCEPT !.seq = host.gen.seq + 1]
    BY <2>2, <2>4, BatchBegins
  <2> DEFINE num == host.gen.seq + 1
  <2>6. IsMessage(e[1]) /\ Sendable(e[1]) /\ e[2] = Taken(host.gen.book, e[1])
        /\ (e[1].type # "ADD" => host.gen.live # {})
    BY <2>4 DEF Event
  <2> HIDE DEF num
  <2>7. Sendable(w) /\ w.type = e[1].type /\ Taken(host.gen.book, w) = Taken(host.gen.book, e[1])
    <3>1. w = [e[1] EXCEPT !.seq = num]
      BY <2>5 DEF num
    <3> DEFINE m == e[1]
               v == [m EXCEPT !.seq = num]
               own == host.gen.book
    <3>2. IsMessage(m) /\ Sendable(m)
      BY <2>6
    <3>3. w = v
      BY <3>1
    <3> HIDE DEF w, m, own
    <3>4. Sendable(v) /\ v.type = m.type /\ Taken(own, v) = Taken(own, m)
      BY <3>2, NumberedAlike
    <3> HIDE DEF v
    <3>5. Sendable(w) /\ w.type = m.type /\ Taken(own, w) = Taken(own, m)
      BY <3>3, <3>4
    <3> QED BY <3>5 DEF m, own
  <2>8. host.n = 0 => w.type = "ADD"
    BY <2>2, <2>3, <2>6, <2>7, EmptyFine DEF GenTyped
  <2>9. h.gen.book = Taken(h.ref.book, w).book
    BY <1>4, <2>2, <2>5, <2>6, <2>7
  <2> HIDE DEF w, b
  <2> QED BY <1>3, <1>4, <2>1, <2>5, <2>7, <2>8, <2>9, ExpectedSent
<1> QED BY <1>5, <1>6 DEF AgreeInv

\* Only a stress test is checked against a reference.
LEMMA OthersAgree ==
    ASSUME AgreeInv, host.prog \notin Stress, IsProgram(host'), host'.prog = host.prog,
           Roomy(book'), Sequence(toBoard'), Sequence(toHost'), Sequence(faults')
    PROVE  AgreeInv'
BY DEF AgreeInv, Tidy

\* The prompt is not checked.
LEMMA TypedAgrees ==
    ASSUME AgreeInv, SendTyped
    PROVE  AgreeInv'
<1>1. PICK m \in Typed :
        LET stamped == [m EXCEPT !.seq = host.n + 1, !.ts = 100 * host.session + host.n] IN
         /\ host' = [host EXCEPT !.phase = "wait", !.n = @ + 1, !.msg = stamped,
                                 !.got = Nothing, !.shown = Nothing]
         /\ SendDatagram(stamped)
  BY DEF SendTyped
<1> DEFINE stamped == [m EXCEPT !.seq = host.n + 1, !.ts = 100 * host.session + host.n]
           n == host.n + 1
<1>2. /\ host' = [host EXCEPT !.phase = "wait", !.n = n, !.msg = stamped,
                              !.got = Nothing, !.shown = Nothing]
      /\ SendDatagram(stamped) /\ host.prog = "prompt"
  BY <1>1 DEF SendTyped
<1> HIDE DEF stamped, n
<1>3. IsProgram(host') /\ host'.prog = host.prog
  BY <1>2 DEF AgreeInv, Tidy, IsProgram, Fields
<1>4. toBoard' = Append(toBoard, stamped) /\ toHost' = toHost /\ faults' = faults /\ book' = book
  BY <1>2 DEF SendDatagram, boardVars
<1>5. Sequence(Append(toBoard, stamped))
  BY Grows DEF AgreeInv, Tidy
<1> QED BY <1>2, <1>3, <1>4, <1>5, OthersAgree, StressPrograms DEF AgreeInv, Tidy

\* What a stress test makes of a datagram.
Noted(h, d) ==
    CASE d.kind = "ACK"     -> [h.got EXCEPT !.ack = d.ack]
      [] d.kind = "EXECUTE" -> [h.got EXCEPT !.reps = Append(@, d.report)]
      [] OTHER              -> h.got

\* A datagram changes the acknowledgement or the reports, not both.
LEMMA NotedIs ==
    ASSUME NEW h, h.got = [ack |-> h.got.ack, reps |-> h.got.reps], NEW d
    PROVE  /\ Noted(h, d) = [ack |-> Noted(h, d).ack, reps |-> Noted(h, d).reps]
           /\ d.kind = "ACK" => Noted(h, d).ack = d.ack
           /\ d.kind # "ACK" => Noted(h, d).ack = h.got.ack
<1> DEFINE a == h.got.ack
           r == h.got.reps
           g == [ack |-> a, reps |-> r]
<1>1. h.got = g
  OBVIOUS
<1>2. CASE d.kind = "ACK"
  <2>1. Noted(h, d) = [g EXCEPT !.ack = d.ack]
    BY <1>1, <1>2 DEF Noted
  <2> HIDE DEF a, r
  <2> QED BY <1>2, <2>1
<1>3. CASE d.kind = "EXECUTE"
  <2> DEFINE more == Append(r, d.report)
  <2>1. Noted(h, d) = [g EXCEPT !.reps = more]
    BY <1>1, <1>3 DEF Noted
  <2> HIDE DEF r, more
  <2>2. Noted(h, d) = [ack |-> a, reps |-> more]
    BY <2>1
  <2> HIDE DEF a
  <2> QED BY <1>3, <2>2 DEF a
<1>4. CASE d.kind # "ACK" /\ d.kind # "EXECUTE"
  <2>1. Noted(h, d) = h.got
    BY <1>4 DEF Noted
  <2> QED BY <1>4, <2>1
<1> QED BY <1>2, <1>3, <1>4

\* A stress test reads on, goes on when all has come as expected, or fails.
LEMMA StressReads ==
    ASSUME NEW h, IsProgram(h), h.got = [ack |-> h.got.ack, reps |-> h.got.reps],
           h.prog # "prompt", NEW d, h.phase = "prime" => Noted(h, d).ack = NoAck
    PROVE  LET g    == StressReceives(h, d)
               next == [h EXCEPT !.got = Noted(h, d)]
           IN  \/ g.phase = "off" /\ g.verdict = "FAIL"
               \/ g = next
               \/ /\ h.phase # "prime" /\ Noted(h, d) = h.want /\ Noted(h, d).ack # NoAck
                  /\ g = IF h.n = h.count THEN End(next, "PASS") ELSE [next EXCEPT !.phase = "send"]
<1> DEFINE more == Noted(h, d)
           next == [h EXCEPT !.got = more]
           g == StressReceives(h, d)
<1>1. g = IF d.kind = "ACK" /\ h.got.ack # NoAck THEN End(h, "FAIL")
          ELSE IF Len(more.reps) > Len(h.want.reps) THEN End(h, "FAIL")
          ELSE IF more.ack = NoAck \/ Len(more.reps) < Len(h.want.reps) THEN next
          ELSE IF h.phase = "prime" THEN [next EXCEPT !.phase = "send"]
          ELSE Compare(next)
  BY DEF StressReceives, Noted
<1> HIDE DEF more, g
<1>2. /\ IsProgram(next) /\ next.got = more /\ next.want = h.want /\ next.n = h.n
      /\ next.count = h.count /\ next.prog = h.prog
  BY DEF IsProgram, Fields
<1> HIDE DEF next
<1>3. \A x : IsProgram(x) => End(x, "FAIL").phase = "off" /\ End(x, "FAIL").verdict = "FAIL"
  BY EndsTest
<1>4. Compare(next) = IF more = h.want
                      THEN IF h.n = h.count THEN End(next, "PASS") ELSE [next EXCEPT !.phase = "send"]
                      ELSE End(next, "FAIL")
  BY <1>2 DEF Compare, Advance
<1>5. h.phase = "prime" => more.ack = NoAck
  BY DEF more
<1>6. \/ g.phase = "off" /\ g.verdict = "FAIL"
      \/ g = next
      \/ /\ h.phase # "prime" /\ more = h.want /\ more.ack # NoAck
         /\ g = IF h.n = h.count THEN End(next, "PASS") ELSE [next EXCEPT !.phase = "send"]
  BY <1>1, <1>2, <1>3, <1>4, <1>5
<1> QED BY <1>6 DEF g, next, more

\* An acknowledgement that is compared and equal is the board's last one.
LEMMA ReceiveAgrees ==
    ASSUME AgreeInv, Receive
    PROVE  AgreeInv'
<1> DEFINE d == Head(toHost)
<1>1. /\ toHost # <<>> /\ toHost' = Tail(toHost) /\ toBoard' = toBoard /\ faults' = faults
      /\ book' = book /\ ack' = ack /\ host.phase \in {"prime", "wait", "drain"}
      /\ host' = CASE host.prog \in Stress  -> StressReceives(host, d)
                   [] host.prog = "smoke"   -> SmokeReceives(host, d)
                   [] OTHER                 -> ClientReceives(host, d)
  BY DEF Receive, Listening, boardVars
<1> HIDE DEF d
<1>2. Continues(host, host')
  BY <1>1, Receives, StressPrograms DEF AgreeInv, Tidy
<1>3. Sequence(toHost') /\ Fewer(toHost', toHost)
  BY <1>1, FewerTail DEF AgreeInv, Tidy, Fewer
<1>4. Tidy'
  BY <1>1, <1>2, <1>3 DEF AgreeInv, Tidy, Continues
<1>5. ASSUME host.prog \in Stress, Clean PROVE Agreeing'
  <2>1. /\ Tidy /\ Running /\ host.phase \in {"prime", "wait"}
        /\ (host.phase = "prime" => BetweenCommands /\ host.n = 0) /\ (host.phase = "wait" => Waits)
    BY <1>1, <1>5 DEF AgreeInv, Agreeing
  <2> DEFINE more == Noted(host, d)
             next == [host EXCEPT !.got = more]
             g    == StressReceives(host, d)
  <2>2. host' = g /\ host.prog # "prompt"
    <3>1. host' = StressReceives(host, d)
      BY <1>1, <1>5 DEF Stress
    <3> QED BY <1>5, <3>1, StressPrograms
  <2>3. /\ more = [ack |-> more.ack, reps |-> more.reps]
        /\ d.kind = "ACK" => more.ack = d.ack
        /\ d.kind # "ACK" => more.ack = host.got.ack
    BY <2>1, NotedIs DEF Running
  <2>4. /\ NoAcks(toHost) => d.kind # "ACK" /\ NoAcks(toHost')
        /\ \A a : OneAck(toHost, a) /\ d.kind = "ACK" => d.ack = a /\ NoAcks(toHost')
        /\ \A a : OneAck(toHost, a) => OneAck(toHost', a)
    BY <1>1, <1>3, <2>1, HeadOfNone, HearsOne DEF Tidy, Fewer, d
  <2>5. host.phase = "prime" => more.ack = NoAck /\ NoAcks(toHost')
    BY <2>1, <2>3, <2>4 DEF BetweenCommands, Silent
  <2>6. \/ g.phase = "off" /\ g.verdict = "FAIL"
        \/ g = next
        \/ /\ host.phase # "prime" /\ more = host.want /\ more.ack # NoAck
           /\ g = IF host.n = host.count THEN End(next, "PASS") ELSE [next EXCEPT !.phase = "send"]
    BY <2>1, <2>2, <2>5, StressReads DEF Tidy, Running
  <2> HIDE DEF more, g
  <2>7. /\ IsProgram(next) /\ next.got = more /\ next.prog = host.prog /\ next.phase = host.phase
        /\ next.n = host.n /\ next.count = host.count /\ next.verdict = host.verdict
        /\ next.ref = host.ref /\ next.gen = host.gen /\ next.want = host.want
        /\ next.msg = host.msg
    BY <2>1 DEF Tidy, IsProgram, Fields
  <2> HIDE DEF next
  <2>8. CASE g.phase = "off" /\ g.verdict = "FAIL"
    BY <2>2, <2>8, Failed
  <2>9. CASE g = next
    <3>1. Running'
      BY <2>1, <2>2, <2>3, <2>7, <2>9 DEF Running
    <3>2. CASE host.phase = "prime"
      <4>1. NoCommand(toBoard')
        BY <1>1, <2>1, <3>2 DEF BetweenCommands, Silent
      <4>2. Ready(host)'
        BY <1>1, <2>1, <2>2, <2>7, <2>9, <3>2 DEF BetweenCommands, Ready
      <4>3. BetweenCommands'
        BY <2>1, <2>2, <2>5, <2>7, <2>9, <3>2, <4>1, <4>2 DEF BetweenCommands, Silent
      <4> QED BY <2>1, <2>2, <2>7, <2>9, <3>1, <3>2, <4>3 DEF Agreeing
    <3>3. CASE host.phase = "wait"
      <4>1. Before(host) => Before(host)'
        BY <1>1, <2>2, <2>7, <2>9 DEF Before, Holding, Accepted, Declined
      <4>2. After(host) => After(host)'
        BY <1>1, <2>2, <2>7, <2>9 DEF After, Holding
      <4>3. /\ host'.n = host.n /\ host'.msg = host.msg /\ host'.got.ack = more.ack
            /\ host'.phase = "wait"
        BY <2>2, <2>7, <2>9, <3>3
      <4>4. host.n # 0
        BY <2>1, <3>3 DEF Waits
      <4>5. Waits'
        <5>1. CASE OneCommand(toBoard, host.msg) /\ NoAcks(toHost) /\ host.got.ack = NoAck /\ Before(host)
          <6>1. more.ack = NoAck /\ NoAcks(toHost')
            BY <2>3, <2>4, <5>1
          <6> QED BY <1>1, <4>1, <4>3, <4>4, <5>1, <6>1 DEF Waits
        <5>2. CASE NoCommand(toBoard) /\ OneAck(toHost, ack) /\ host.got.ack = NoAck /\ After(host)
          <6>1. CASE d.kind = "ACK"
            <7>1. more.ack = ack /\ NoAcks(toHost')
              BY <2>3, <2>4, <5>2, <6>1
            <7> QED BY <1>1, <4>2, <4>3, <4>4, <5>2, <7>1 DEF Waits
          <6>2. CASE d.kind # "ACK"
            <7>1. more.ack = NoAck /\ OneAck(toHost', ack)
              BY <2>3, <2>4, <5>2, <6>2
            <7> QED BY <1>1, <4>2, <4>3, <4>4, <5>2, <7>1 DEF Waits
          <6> QED BY <6>1, <6>2
        <5>3. CASE NoCommand(toBoard) /\ NoAcks(toHost) /\ host.got.ack = ack /\ After(host)
          <6>1. more.ack = ack /\ NoAcks(toHost')
            BY <2>3, <2>4, <5>3
          <6> QED BY <1>1, <4>2, <4>3, <4>4, <5>3, <6>1 DEF Waits
        <5> QED BY <2>1, <3>3, <5>1, <5>2, <5>3 DEF Waits
      <4> QED BY <3>1, <4>3, <4>5 DEF Agreeing
    <3> QED BY <2>1, <3>2, <3>3
  <2>10. CASE /\ host.phase # "prime" /\ more = host.want /\ more.ack # NoAck
              /\ g = IF host.n = host.count THEN End(next, "PASS") ELSE [next EXCEPT !.phase = "send"]
    <3>1. Waits /\ more.ack = host.want.ack /\ more.ack # NoAck
      BY <2>1, <2>10
    <3>2. NoCommand(toBoard) /\ NoAcks(toHost') /\ more.ack = ack /\ After(host)
      BY <2>3, <2>4, <3>1 DEF Waits
    <3>3. Holding(host.ref.book)
      BY <3>1, <3>2 DEF After
    <3>4. CASE host.n = host.count
      <4>1. g = End(next, "PASS")
        BY <2>10, <3>4
      <4>2. g.phase = "off" /\ g.ref = host.ref
        BY <2>7, <4>1, EndsTest
      <4>3. NoCommand(toBoard') /\ Holding(host.ref.book)'
        BY <1>1, <2>2, <3>2, <3>3, <4>2 DEF Holding
      <4> QED BY <2>2, <4>2, <4>3 DEF Agreeing
    <3>5. CASE host.n # host.count
      <4>1. g = [next EXCEPT !.phase = "send"]
        BY <2>10, <3>5
      <4>2. /\ g.phase = "send" /\ g.got = more /\ g.prog = host.prog
            /\ g.n = host.n /\ g.count = host.count /\ g.verdict = host.verdict
            /\ g.ref = host.ref /\ g.gen = host.gen
        BY <2>7, <4>1 DEF IsProgram, Fields
      <4>3. Running'
        BY <2>1, <2>2, <2>3, <4>2 DEF Running
      <4>4. host.n # 0
        BY <3>1 DEF Waits
      <4>5. Ready(host)'
        BY <1>1, <2>2, <3>3, <4>2, <4>4 DEF Ready, Holding
      <4>6. BetweenCommands'
        BY <1>1, <2>2, <3>2, <3>5, <4>2, <4>4, <4>5 DEF BetweenCommands, Silent
      <4> QED BY <2>2, <4>2, <4>3, <4>6 DEF Agreeing
    <3> QED BY <3>4, <3>5
  <2> QED BY <2>6, <2>8, <2>9, <2>10
<1> QED BY <1>1, <1>2, <1>4, <1>5 DEF AgreeInv, Continues, Clean

\* After the test nobody listens.
LEMMA UnheardAgrees ==
    ASSUME AgreeInv, Unheard
    PROVE  AgreeInv'
<1>1. /\ toHost # <<>> /\ toHost' = Tail(toHost) /\ toBoard' = toBoard /\ faults' = faults
      /\ UNCHANGED <<host, boardVars>>
  BY DEF Unheard
<1>2. Sequence(toHost') /\ Fewer(toHost', toHost) /\ Fewer(toBoard', toBoard)
  BY <1>1, FewerTail, FewerItself DEF AgreeInv, Tidy, Fewer
<1>3. Tidy'
  BY <1>1, <1>2 DEF AgreeInv, Tidy, boardVars
<1>4. Agreeing => Agreeing'
  BY <1>1, <1>2, LessTraffic DEF Fewer
<1> QED BY <1>1, <1>3, <1>4 DEF AgreeInv, Clean

\* A silence ends a stress test, unless it was to be silent.
LEMMA SilenceAgrees ==
    ASSUME AgreeInv, host' = TimedOut(host), Listening,
           UNCHANGED <<boardVars, toBoard, toHost>>, Sequence(faults'), Clean' => Clean
    PROVE  AgreeInv'
<1>1. IsProgram(host') /\ host'.prog = host.prog
  BY TimesOut DEF AgreeInv, Tidy
<1>2. /\ book' = book /\ toBoard' = toBoard /\ toHost' = toHost
  BY DEF boardVars
<1>3. Tidy'
  BY <1>1, <1>2 DEF AgreeInv, Tidy
<1>4. ASSUME host.prog \in Stress, Clean PROVE Agreeing'
  <2>1. Agreeing /\ Running /\ host.phase \in {"prime", "wait"} /\ IsProgram(host)
    BY <1>4 DEF AgreeInv, Agreeing, Tidy, Listening
  <2>2. CASE host.phase = "prime"
    <3>1. host' = [host EXCEPT !.phase = "send"]
      BY <2>2 DEF TimedOut
    <3>2. /\ host'.phase = "send" /\ host'.got = host.got
          /\ host'.n = host.n /\ host'.count = host.count /\ host'.verdict = host.verdict
          /\ host'.ref = host.ref /\ host'.gen = host.gen
      BY <2>1, <3>1 DEF IsProgram, Fields
    <3>3. Running'
      BY <1>1, <2>1, <3>2 DEF Running
    <3>4. BetweenCommands'
      BY <1>1, <1>2, <2>1, <2>2, <3>2 DEF BetweenCommands, Silent, Ready, Holding, Agreeing
    <3> QED BY <3>2, <3>3, <3>4 DEF Agreeing
  <2>3. CASE host.phase = "wait"
    <3>1. host' = End(host, "FAIL")
      BY <1>4, <2>3, StressPrograms DEF TimedOut
    <3>2. host'.phase = "off" /\ host'.verdict = "FAIL"
      BY <2>1, <3>1, EndsTest
    <3> QED BY <3>2, Failed
  <2> QED BY <2>1, <2>2, <2>3
<1> QED BY <1>1, <1>3, <1>4 DEF AgreeInv

\* The board takes what is next.
LEMMA BoardAgrees ==
    ASSUME AgreeInv, BoardStep, UNCHANGED host
    PROVE  AgreeInv'
<1>1. /\ toBoard # <<>> /\ toBoard' = Tail(toBoard) /\ faults' = faults
      /\ IF Decodes(Head(toBoard)) THEN Serve(Head(toBoard)) ELSE UNCHANGED <<boardVars, toHost>>
  BY DEF BoardStep
<1>2. Sequence(toBoard') /\ Fewer(toBoard', toBoard)
  BY <1>1, FewerTail DEF AgreeInv, Tidy, Fewer
<1>3. CASE ~Decodes(Head(toBoard))
  <2>1. toHost' = toHost /\ UNCHANGED <<host, boardVars>>
    BY <1>1, <1>3
  <2>2. Tidy'
    BY <1>1, <1>2, <2>1 DEF AgreeInv, Tidy, boardVars
  <2>3. Agreeing => Agreeing'
    BY <1>2, <2>1, LessTraffic DEF Fewer
  <2> QED BY <1>1, <2>2, <2>3 DEF AgreeInv, Clean
<1>4. CASE Decodes(Head(toBoard))
  <2> DEFINE m == Head(toBoard)
             reps == AllReports(trades', repSeq)
  <2>1. /\ Board!Process(Bare(m))
        /\ toHost' = toHost \o [n \in DOMAIN reps |-> ReportDatagram(reps[n])]
                            \o <<AckDatagram(ack')>>
    BY <1>1, <1>4 DEF Serve, Bare
  <2>2. m.side \in Side
    BY <1>4 DEF Decodes
  <2> HIDE DEF m
  <2>3. Bare(m).side = m.side
    BY DEF Bare
  <2>4. Roomy(book')
    BY <2>1, <2>2, <2>3, ProcessRoomy DEF AgreeInv, Tidy
  <2>5. Sequence(reps)
    BY <2>1, ProcessAnswers, PrintsTheTrades
  <2> HIDE DEF reps
  <2>6. Sequence(toHost') /\ (NoAcks(toHost) => OneAck(toHost', ack'))
    BY <2>1, <2>5, MoreAnswer DEF AgreeInv, Tidy
  <2>7. Tidy'
    BY <1>1, <1>2, <2>4, <2>6 DEF AgreeInv, Tidy
  <2>8. ASSUME host.prog \in Stress, Clean PROVE Agreeing'
    <3>1. Agreeing /\ Tidy
      BY <2>8 DEF AgreeInv
    <3>2. ~NoCommand(toBoard)
      BY <1>1, <1>4, <3>1, HeadOfNone DEF Tidy
    <3>3. host.phase = "off" => host.verdict # "PASS"
      BY <3>1, <3>2 DEF Agreeing
    <3>4. CASE host.phase = "off"
      BY <3>3, <3>4, Failed
    <3>5. CASE host.phase # "off"
      <4>1. host.phase = "wait" /\ Running /\ Waits
        BY <3>1, <3>2, <3>5 DEF Agreeing, BetweenCommands, Silent
      <4>2. /\ OneCommand(toBoard, host.msg) /\ NoAcks(toHost) /\ host.got.ack = NoAck
            /\ Before(host) /\ host.n # 0
        BY <3>2, <4>1 DEF Waits
      <4>3. m = host.msg /\ NoCommand(toBoard')
        BY <1>1, <1>4, <3>1, <4>2, TakesOne DEF Tidy, m
      <4>4. ASSUME ack' = host.want.ack PROVE book' = Resting(host.ref.book) /\ Fine(host.ref.book)
        BY <2>1, <3>1, <4>2, <4>3, <4>4, Served DEF Tidy
      <4>5. After(host)'
        BY <4>4 DEF After, Holding
      <4>6. Waits'
        BY <2>6, <4>2, <4>3, <4>5 DEF Waits
      <4>7. Running'
        BY <4>1 DEF Running
      <4> QED BY <4>1, <4>6, <4>7 DEF Agreeing
    <3> QED BY <3>4, <3>5
  <2> QED BY <1>1, <2>7, <2>8 DEF AgreeInv, Clean
<1> QED BY <1>3, <1>4

\* What the network does to the datagrams.
LEMMA FaultAgrees ==
    ASSUME AgreeInv, LinkFault, UNCHANGED host
    PROVE  AgreeInv'
<1>1. ASSUME NEW what, NEW p, NEW q, Disturb(what, p, q), Sequence(p), Sequence(q),
             \/ what \in {"doubled", "repeated"}
             \/ /\ NoCommand(toBoard) => NoCommand(p)
                /\ NoAcks(toHost) => NoAcks(q)
                /\ \A m : OneCommand(toBoard, m) => OneCommand(p, m)
                /\ \A a : OneAck(toHost, a) => OneAck(q, a)
      PROVE  AgreeInv'
  <2>1. toBoard' = p /\ toHost' = q /\ UNCHANGED boardVars
    BY <1>1 DEF Disturb
  <2>2. Sequence(faults') /\ (Clean' => Clean /\ what # "doubled" /\ what # "repeated")
    BY <1>1, CleanBefore DEF AgreeInv, Tidy
  <2>3. Tidy'
    BY <1>1, <2>1, <2>2 DEF AgreeInv, Tidy, boardVars
  <2>4. ASSUME host.prog \in Stress, Clean' PROVE Agreeing'
    <3>1. Agreeing /\ what \notin {"doubled", "repeated"}
      BY <2>2, <2>4 DEF AgreeInv
    <3> QED BY <1>1, <2>1, <3>1, LessTraffic
  <2> QED BY <2>3, <2>4 DEF AgreeInv
<1>2. Sequence(toBoard) /\ Sequence(toHost)
  BY DEF AgreeInv, Tidy
<1>3. Fewer(toBoard, toBoard) /\ Fewer(toHost, toHost)
  BY <1>2, FewerItself
<1>4. CASE LoseCommand
  <2>1. PICK n \in DOMAIN toBoard : Disturb("lost", RemoveAt(toBoard, n), toHost)
    BY <1>4 DEF LoseCommand
  <2>2. Fewer(RemoveAt(toBoard, n), toBoard)
    BY <1>2, FewerRemoved
  <2> QED BY <1>1, <1>2, <1>3, <2>1, <2>2 DEF Fewer
<1>5. CASE DuplicateCommand
  <2>1. PICK n \in DOMAIN toBoard : Disturb("doubled", InsertAt(toBoard, n, toBoard[n]), toHost)
    BY <1>5 DEF DuplicateCommand
  <2>2. Sequence(InsertAt(toBoard, n, toBoard[n]))
    BY <1>2, Inserted
  <2> QED BY <1>1, <1>2, <2>1, <2>2
<1>6. CASE LoseAnswer
  <2>1. PICK n \in DOMAIN toHost : Disturb("lost", toBoard, RemoveAt(toHost, n))
    BY <1>6 DEF LoseAnswer
  <2>2. Fewer(RemoveAt(toHost, n), toHost)
    BY <1>2, FewerRemoved
  <2> QED BY <1>1, <1>2, <1>3, <2>1, <2>2 DEF Fewer
<1>7. CASE DuplicateAnswer
  <2>1. PICK n \in DOMAIN toHost : Disturb("repeated", toBoard, InsertAt(toHost, n, toHost[n]))
    BY <1>7 DEF DuplicateAnswer
  <2>2. Sequence(InsertAt(toHost, n, toHost[n]))
    BY <1>2, Inserted
  <2> QED BY <1>1, <1>2, <2>1, <2>2
<1>8. CASE ReorderAnswers
  <2>1. PICK n \in 1 .. Len(toHost) - 1 :
          Disturb("reordered", toBoard, [toHost EXCEPT ![n] = toHost[n + 1], ![n + 1] = toHost[n]])
    BY <1>8 DEF ReorderAnswers
  <2> DEFINE q == [toHost EXCEPT ![n] = toHost[n + 1], ![n + 1] = toHost[n]]
  <2>2. Fewer(q, toHost)
    BY <1>2, FewerSwapped
  <2>3. Disturb("reordered", toBoard, q)
    BY <2>1
  <2> HIDE DEF q
  <2> QED BY <1>1, <1>2, <1>3, <2>2, <2>3 DEF Fewer
<1>9. CASE Foreign
  <2>1. Disturb("foreign", toBoard, Append(toHost, ForeignDatagram))
    BY <1>9 DEF Foreign
  <2>2. ForeignDatagram.kind # "ACK"
    BY DEF ForeignDatagram
  <2> DEFINE d == ForeignDatagram
             q == Append(toHost, d)
  <2>3. Disturb("foreign", toBoard, q)
    BY <2>1
  <2> HIDE DEF d
  <2>4. /\ Sequence(q) /\ (NoAcks(toHost) => NoAcks(q))
        /\ \A a : OneAck(toHost, a) => OneAck(q, a)
    BY <1>2, <2>2, MoreIdle DEF d
  <2> HIDE DEF q
  <2> QED BY <1>1, <1>2, <1>3, <2>3, <2>4 DEF Fewer
<1> QED BY <1>4, <1>5, <1>6, <1>7, <1>8, <1>9 DEF LinkFault

\* The invariant is inductive,
LEMMA AgreeStep ==
    AgreeInv /\ [Next]_vars => AgreeInv'
<1> SUFFICES ASSUME AgreeInv, [Next]_vars PROVE AgreeInv'
  OBVIOUS
<1>1. CASE UNCHANGED vars
  <2>1. /\ UNCHANGED <<host, boardVars>> /\ book' = book /\ toBoard' = toBoard
        /\ toHost' = toHost /\ faults' = faults
    BY <1>1 DEF vars, linkVars, boardVars
  <2>2. Agreeing => Agreeing'
    BY <2>1, LessTraffic
  <2> QED BY <2>1, <2>2 DEF AgreeInv, Tidy, Clean
<1>2. CASE TimeOut
  <2>1. /\ Listening /\ host' = TimedOut(host) /\ faults' = faults
        /\ UNCHANGED <<boardVars, toBoard, toHost>>
    BY <1>2 DEF TimeOut, linkVars
  <2> QED BY <2>1, SilenceAgrees DEF AgreeInv, Tidy, Clean
<1>3. CASE Late
  <2>1. /\ Listening /\ host' = TimedOut(host) /\ Disturb("late", toBoard, toHost)
        /\ UNCHANGED <<boardVars, toBoard, toHost>>
    BY <1>3 DEF Late, Disturb
  <2>2. Sequence(faults') /\ (Clean' => Clean)
    BY <2>1, CleanBefore DEF AgreeInv, Tidy
  <2> QED BY <2>1, <2>2, SilenceAgrees
<1>4. CASE \E prog \in Programs : Start(prog)
  BY <1>4, StartAgrees
<1>5. CASE BoardStep /\ UNCHANGED host
  BY <1>5, BoardAgrees
<1>6. CASE LinkFault /\ UNCHANGED host
  BY <1>6, FaultAgrees
<1> QED BY <1>1, <1>2, <1>3, <1>4, <1>5, <1>6, PrimeAgrees, ScriptedAgrees, RandomAgrees,
           TypedAgrees, ReceiveAgrees, UnheardAgrees DEF Next, Progress

\* and what it says of a test that passed is the property.
LEMMA AgreeMeans ==
    AgreeInv => PassMeansAgreement
<1> SUFFICES ASSUME AgreeInv, host.prog \in Stress, host.verdict = "PASS", Clean
             PROVE  book = Resting(host.ref.book)
  BY DEF PassMeansAgreement, Clean
<1>1. host.phase = "off"
  BY DEF AgreeInv, Agreeing, Running
<1> QED BY <1>1 DEF AgreeInv, Agreeing, Holding

\* A stress test that passes has seen the board's book, whatever the network lost,
\* delayed or reordered, and whatever was on the board before.
THEOREM PassedTestsAgree == Spec => []PassMeansAgreement
<1>1. Init => AgreeInv
  BY AgreeInit
<1>2. AgreeInv /\ [Next]_vars => AgreeInv'
  BY AgreeStep
<1>3. AgreeInv => PassMeansAgreement
  BY AgreeMeans
<1> QED BY <1>1, <1>2, <1>3, PTL DEF Spec
=============================================================================
