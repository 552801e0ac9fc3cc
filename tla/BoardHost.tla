----------------------------- MODULE BoardHost -----------------------------
(***************************************************************************)
(* The programs that test or show the board over UDP: board_stress.py with    *)
(* its four scenarios, board_smoke.py, and video_demo.py with its fixed demo  *)
(* and its prompt.  Each sends one command and waits for the answer, each in  *)
(* its own way; they are run one after another on one board.                  *)
(*                                                                         *)
(* A program is a record.  Prices keep their order, not their size.            *)
(* Timestamps of the prompt and the demo are wall-clock times, later in every *)
(* later session.                                                             *)
(***************************************************************************)
EXTENDS BoardLink

CONSTANTS
    Programs,       \* the programs run in this instance
    MaxSessions,    \* programs run
    MaxCommands,    \* random and typed commands, over all of them
    TypedQty        \* the quantities typed at the prompt

\* The scripts' prices are below the board's last level, the most orders one of them
\* leaves at a time are less than the board holds, and their ids are not the one that
\* means no order.
ASSUME ScriptsAssumption ==
    NumLevels > 4 /\ BoardOrders > 7 /\ NoId = 0 /\ MaxCommands \in Nat

VARIABLE host

vars == <<linkVars, host>>

Stress == {"random", "capacity", "fastpath", "parallel"}

-----------------------------------------------------------------------------
AddOf(n, id, price, qty, side) == Message("ADD", side, FALSE, n, id, price, qty, n)

\* The commands of a program that has them fixed; the timestamps of the demo are
\* put in when they are sent.
Script(prog) ==
    CASE prog = "capacity" -> [n \in 1 .. BoardOrders |-> AddOf(n, n, 1, 1, "BUY")]
      [] prog = "fastpath" ->
           <<AddOf(1, 1, 1, 10, "SELL"), AddOf(2, 2, 2, 20, "SELL"),
             AddOf(3, 3, 4, 50, "SELL"), AddOf(4, 10, 3, 25, "BUY"),
             AddOf(5, 11, 4, 60, "BUY"), AddOf(6, 12, 3, 2, "SELL"),
             AddOf(7, 13, 4, 10, "SELL")>>
      [] prog = "parallel" ->
           <<AddOf(1, 1, 2, 10, "SELL"), AddOf(2, 2, 1, 10, "BUY"),
             Message("MODIFY", "BUY", FALSE, 3, 2, 3, 10, 3)>>
      [] prog = "smoke" -> <<AddOf(1, 4097, 2, 10, "BUY"), AddOf(2, 4098, 1, 10, "SELL")>>
      [] prog = "demo"  -> <<AddOf(1, 1234, 1, 50, "SELL"), AddOf(2, 5678, 2, 80, "BUY")>>
      [] OTHER -> <<>>

Unscripted == {"random", "prompt"}

\* Mutation: the last order that still fits is expected to be refused.
RejectedOneEarly(prog, n) == prog = "capacity" /\ n = BoardOrders - 1

\* The command a stress test expects to be refused as FULL.
Rejected(prog, n) == prog = "capacity" /\ n = BoardOrders

\* A datagram the board drops: version 0.
Prime == Junk

\* What passes the checks of parse_interactive_command.  The side of a MODIFY or
\* an EXECUTE is the order's own and not read.
TypedIds == {1, 9}

TypedLine(type, side, id, price, qty) == Message(type, side, FALSE, 0, id, price, qty, 0)

Typed ==
    {TypedLine("ADD", side, id, price, qty) :
        side \in Side, id \in TypedIds, price \in PriceMin .. PriceMax, qty \in TypedQty}
    \union {TypedLine("MODIFY", "BUY", id, price, qty) :
                id \in TypedIds, price \in PriceMin .. PriceMax, qty \in TypedQty}
    \union {TypedLine("CANCEL", "BUY", id, 0, 0) : id \in TypedIds}
    \union {TypedLine("EXECUTE", "BUY", id, 0, qty) : id \in TypedIds, qty \in TypedQty}

-----------------------------------------------------------------------------
NoAck == [status |-> "NONE"]

NoMessage == Message("ADD", "BUY", FALSE, 0, NoId, 0, 0, 0)

Nothing == [ack |-> NoAck, reps |-> <<>>]

\* phase: "prime" (its answer is absorbed), "send", "wait" (for the answer),
\* "drain" (acknowledged; more may follow), "off".
Idle ==
    [prog |-> "none", phase |-> "off", session |-> 0, fresh |-> FALSE,
     n |-> 0, count |-> 0, used |-> 0,
     gen |-> NewGenerator, ref |-> NewReference, seq |-> 1, msg |-> NoMessage,
     want |-> Nothing, got |-> Nothing, verdict |-> "", shown |-> Nothing]

End(h, verdict) == [h EXCEPT !.phase = "off", !.verdict = verdict]

\* The program goes on to its next command, or has sent all.
Advance(h) ==
    IF h.n = h.count THEN End(h, IF h.prog = "prompt" THEN "QUIT" ELSE "PASS")
                            ELSE [h EXCEPT !.phase = "send"]

-----------------------------------------------------------------------------
(* board_stress.py                                                            *)

ExpectedReports(made, first) ==
    FoldLeft(LAMBDA reps, t : reps \o
                LET seq == first + Len(reps) IN
                IF t.buy # NoId /\ t.sell # NoId
                THEN <<Report("BUY", FALSE, seq, t.buy, t),
                       Report("SELL", FALSE, seq + 1, t.sell, t)>>
                ELSE <<Report(IF t.buy # NoId THEN "BUY" ELSE "SELL", TRUE, seq,
                              IF t.buy # NoId THEN t.buy ELSE t.sell, t)>>,
             <<>>, made)

ExpectedAck(m, status, b) ==
    [status |-> status, id |-> m.id,
     rem |-> IF m.id \in OrderIds(b) THEN b.orders[m.id].qty ELSE 0,
     bid |-> BestPrice(b, "BUY"), ask |-> BestPrice(b, "SELL"),
     n |-> Cardinality(OrderIds(b))]

\* The reference takes the command before the board does, unless the board is to
\* refuse it.  An exception ends the program.
Expect(h, m) ==
    LET refused == Rejected(h.prog, h.n + 1)
        p == IF refused THEN [ref |-> h.ref, err |-> "", made |-> <<>>]
                        ELSE ProcessMessage(h.ref, m)
        reps == ExpectedReports(p.made, h.seq)
    IN  IF p.err # "" THEN End(h, "FAIL")
        ELSE [h EXCEPT !.phase = "wait", !.n = @ + 1, !.msg = m, !.ref = p.ref,
                       !.seq = @ + Len(reps), !.got = Nothing,
                       !.want = [ack |-> ExpectedAck(m, IF refused THEN "FULL" ELSE "OK",
                                                     p.ref.book),
                                 reps |-> reps]]

\* Mutation: the acknowledgement's count of orders is not looked at.
CompareButCount(h) ==
    IF h.got.reps = h.want.reps /\ [h.got.ack EXCEPT !.n = 0] = [h.want.ack EXCEPT !.n = 0]
    THEN Advance(h) ELSE End(h, "FAIL")

Compare(h) == IF h.got = h.want THEN Advance(h) ELSE End(h, "FAIL")

\* receive_response: complete when the acknowledgement and as many reports as are
\* expected are in.  After a priming datagram nothing is compared.
StressReceives(h, d) ==
    LET more == CASE d.kind = "ACK"     -> [h.got EXCEPT !.ack = d.ack]
                  [] d.kind = "EXECUTE" -> [h.got EXCEPT !.reps = Append(@, d.report)]
                  [] OTHER              -> h.got
        next == [h EXCEPT !.got = more]
    IN  IF d.kind = "ACK" /\ h.got.ack # NoAck THEN End(h, "FAIL")
        ELSE IF Len(more.reps) > Len(h.want.reps) THEN End(h, "FAIL")
        ELSE IF more.ack = NoAck \/ Len(more.reps) < Len(h.want.reps) THEN next
        ELSE IF h.phase = "prime" THEN [next EXCEPT !.phase = "send"]
        ELSE Compare(next)

-----------------------------------------------------------------------------
(* board_smoke.py: any acknowledgement will do.                               *)

SmokeReceives(h, d) == IF d.kind = "ACK" THEN [h EXCEPT !.phase = "drain"] ELSE h

-----------------------------------------------------------------------------
(* video_demo.py                                                              *)

\* Reports receive_transaction waits for; the prompt cannot know.
Wanted(h) == IF h.n = 1 THEN 0 ELSE 2

\* print_trade
Pair(r, s) ==
    LET line(buy, sell) == <<"TRADE", buy.id, sell.id, buy.price, buy.qty>> IN
    CASE r.side = "BUY" /\ s.side = "SELL" -> line(r, s)
      [] r.side = "SELL" /\ s.side = "BUY" -> line(s, r)
      [] OTHER -> <<"UNPAIRED">>

\* Mutation: an external report is paired like the others.
PrintedPairsAll(reps) ==
    [n \in 1 .. (Len(reps) + 1) \div 2 |->
        IF 2 * n <= Len(reps) THEN Pair(reps[2 * n - 1], reps[2 * n]) ELSE <<"REPORT">>]

\* print_execution_reports: an external report stands alone, any other is held for
\* the one after it.
PrintNext(sofar, r) ==
    IF sofar.held # <<>> THEN [out |-> Append(sofar.out, Pair(sofar.held[1], r)), held |-> <<>>]
    ELSE IF r.external
         THEN [out |-> Append(sofar.out, <<"EXTERNAL", r.id, r.price, r.qty>>), held |-> <<>>]
         ELSE [out |-> sofar.out, held |-> <<r>>]

Printed(reps) ==
    LET upTo[n \in 0 .. Len(reps)] ==
            IF n = 0 THEN [out |-> <<>>, held |-> <<>>] ELSE PrintNext(upTo[n - 1], reps[n])
        all == upTo[Len(reps)]
    IN  IF all.held = <<>> THEN all.out ELSE Append(all.out, <<"REPORT">>)

\* The prompt prints the transaction and takes the next line.
Show(h) == Advance([h EXCEPT !.shown = [ack |-> h.got.ack, reps |-> h.got.reps]])

\* Mutation: what is left of the second order is not looked at.
DemoGoesOnUnchecked(h) ==
    IF h.got.ack.status # "OK" THEN End(h, "FAIL")
    ELSE IF h.n = 2 /\ Len(h.got.reps) # 2 THEN End(h, "FAIL")
    ELSE Advance(h)

\* The checks of run_demo after a transaction.
DemoGoesOn(h) ==
    IF h.got.ack.status # "OK" THEN End(h, "FAIL")
    ELSE IF h.n = 2 /\ ~(h.got.ack.rem = 30 /\ Len(h.got.reps) = 2) THEN End(h, "FAIL")
    ELSE Advance(h)

\* receive_transaction: an acknowledgement of another order is passed over, every
\* report is taken; what cannot be decoded raises.
ClientReceives(h, d) ==
    LET more == CASE d.kind = "ACK" /\ d.ack.id = h.msg.id -> [h.got EXCEPT !.ack = d.ack]
                  [] d.kind = "EXECUTE" -> [h.got EXCEPT !.reps = Append(@, d.report)]
                  [] OTHER -> h.got
        next == [h EXCEPT !.got = more]
    IN  IF d.kind = "FOREIGN" THEN (IF h.prog = "demo" THEN End(h, "FAIL") ELSE Advance(h))
        ELSE IF more.ack = NoAck THEN next
        ELSE IF h.prog = "prompt" THEN [next EXCEPT !.phase = "drain"]
        ELSE IF Len(more.reps) >= Wanted(h) THEN DemoGoesOn(next) ELSE next

-----------------------------------------------------------------------------
Init ==
    /\ LinkInit
    /\ host = Idle

Quiet == toBoard = <<>> /\ toHost = <<>>

\* The programs are run by hand, the next when the last one's traffic is over.
\* count is --count, or the lines typed before the prompt is left.
Start(prog) ==
    /\ host.phase = "off" /\ host.session < MaxSessions /\ Quiet
    /\ \E count \in IF prog \in Unscripted THEN 1 .. MaxCommands - host.used
                                           ELSE {Len(Script(prog))} :
         host' = [Idle EXCEPT !.prog = prog, !.session = host.session + 1,
                              !.fresh = (cmd = Board!ZeroCmd), !.phase = "send",
                              !.count = count,
                              !.used = host.used + IF prog \in Unscripted THEN count ELSE 0]
    /\ UNCHANGED linkVars

SendDatagram(m) ==
    /\ toBoard' = Append(toBoard, m)
    /\ UNCHANGED <<boardVars, toHost, faults>>

\* board_stress.py sends a command that its reference has taken.
SendExpected(h, m) ==
    /\ host' = Expect(h, m)
    /\ IF host'.phase = "wait" THEN SendDatagram(m) ELSE UNCHANGED linkVars

\* --prime
SendPrime ==
    /\ host.phase = "send" /\ host.prog \in Stress /\ host.n = 0
    /\ host.msg = NoMessage
    /\ host' = [host EXCEPT !.phase = "prime", !.msg = Prime]
    /\ SendDatagram(Prime)

SendScripted ==
    /\ host.phase = "send" /\ Script(host.prog) # <<>>
    /\ LET m == Script(host.prog)[host.n + 1] IN
         IF host.prog \in Stress
         THEN SendExpected(host, m)
         ELSE LET stamped == IF host.prog = "demo"
                             THEN [m EXCEPT !.ts = 100 * host.session + host.n] ELSE m
              IN  /\ host' = [host EXCEPT !.phase = "wait", !.n = @ + 1,
                                          !.msg = stamped, !.got = Nothing]
                  /\ SendDatagram(stamped)

\* The commands of a random stress: the generator's order events.
SendRandom ==
    /\ host.phase = "send" /\ host.prog = "random"
    /\ \E e \in Events(host.gen) :
         LET b == Batch(host.gen, e[1], e[2]) IN
         SendExpected([host EXCEPT !.gen = b.gen], Head(b.msgs))

SendTyped ==
    /\ host.phase = "send" /\ host.prog = "prompt"
    /\ \E m \in Typed :
         LET stamped == [m EXCEPT !.seq = host.n + 1, !.ts = 100 * host.session + host.n] IN
         /\ host' = [host EXCEPT !.phase = "wait", !.n = @ + 1, !.msg = stamped,
                                 !.got = Nothing, !.shown = Nothing]
         /\ SendDatagram(stamped)

Listening == host.phase \in {"prime", "wait", "drain"}

Receive ==
    /\ Listening /\ toHost # <<>>
    /\ toHost' = Tail(toHost)
    /\ host' = LET d == Head(toHost) IN
               CASE host.prog \in Stress  -> StressReceives(host, d)
                 [] host.prog = "smoke"   -> SmokeReceives(host, d)
                 [] OTHER                 -> ClientReceives(host, d)
    /\ UNCHANGED <<boardVars, toBoard, faults>>

\* A program that is over has closed its socket.
Unheard ==
    /\ host.phase = "off" /\ toHost # <<>>
    /\ toHost' = Tail(toHost)
    /\ UNCHANGED <<host, boardVars, toBoard, faults>>

\* Mutation: a priming datagram that is not answered is sent again.
TimedOutPrimesAgain(h) ==
    CASE h.phase = "prime" -> [h EXCEPT !.phase = "send", !.msg = NoMessage]
      [] h.phase = "drain" -> IF h.prog = "prompt" THEN Show(h) ELSE Advance(h)
      [] OTHER -> IF h.prog = "prompt" THEN Advance(h) ELSE End(h, "FAIL")

\* What a silence means to the program.
TimedOut(h) ==
    CASE h.phase = "prime" -> [h EXCEPT !.phase = "send"]
      [] h.phase = "drain" -> IF h.prog = "prompt" THEN Show(h) ELSE Advance(h)
      [] OTHER -> IF h.prog = "prompt" THEN Advance(h) ELSE End(h, "FAIL")

TimeOut ==
    /\ Listening /\ Quiet
    /\ host' = TimedOut(host)
    /\ UNCHANGED linkVars

\* The answer comes after the deadline.
Late ==
    /\ Listening /\ ~Quiet
    /\ host' = TimedOut(host)
    /\ Disturb("late", toBoard, toHost)

Progress ==
    \/ SendScripted \/ SendRandom \/ Receive \/ Unheard \/ TimeOut
    \/ (BoardStep /\ UNCHANGED host)

Next ==
    \/ \E prog \in Programs : Start(prog)
    \/ SendPrime \/ SendTyped \/ Progress
    \/ Late \/ (LinkFault /\ UNCHANGED host)

\* What Progress waits for.
CanProgress ==
    \/ toBoard # <<>> \/ Listening
    \/ host.phase = "off" /\ toHost # <<>>
    \/ host.phase = "send" /\ host.prog # "prompt"

\* WF_vars(Progress), with CanProgress for ENABLED Progress: sockets time out, the
\* board is clocked, the network delivers what it does not lose.  Nothing is assumed
\* of the people who start programs and type.
Fairness == []<>(~CanProgress) \/ []<><<Progress>>_vars

Spec == Init /\ [][Next]_vars /\ Fairness

-----------------------------------------------------------------------------
\* A good board passes: on a board that was just programmed and a network that
\* loses nothing, no test fails - acknowledgements, reports and their numbers, and
\* the refusal that the capacity scenario expects, are the board's.  (A random
\* stress is told --count; with as many orders as the pool has slots it may fill it.)
GoodBoardPasses ==
    host.fresh /\ faults = <<>> /\ (host.prog = "random" => host.count < BoardOrders) =>
        host.verdict # "FAIL"

\* A stress test that passes has seen the board's book: whatever the network
\* lost, delayed or reordered, and whatever earlier programs left on the board, the
\* book is the reference's.  (The board runs a command that comes twice twice, and
\* the host takes an answer that comes twice for the next one's.)
PassMeansAgreement ==
    /\ host.prog \in Stress /\ host.verdict = "PASS"
    /\ ~Contains(faults, "doubled") /\ ~Contains(faults, "repeated")
    => book = Resting(host.ref.book)

\* The fixed demo passes only if the two orders did what it says ("fills the
\* sell, leaves BUY 105 x 30", video_demo.py:7-8), if at most one thing goes wrong on
\* the way: whatever is on the board, the buy traded 50 once and 30 of it are left;
\* on a fresh board, with the demo's own sell.
DemoPassIsTrue ==
    host.prog = "demo" /\ host.verdict = "PASS" /\ Len(faults) <= 1 =>
        LET trade == Pair(host.got.reps[1], host.got.reps[2]) IN
        /\ Board!Remaining(book, 5678) = 30
        /\ trade[1] = "TRADE" /\ trade[2] = 5678 /\ trade[5] = 50
        /\ host.fresh => trade[3] = 1234 /\ trade[4] = 1

\* The prompt shows a command's own answer: its acknowledgement, and a line for
\* each of its trades, whatever is on the board.
ShowsItsAnswer ==
    host.shown # Nothing /\ faults = <<>> =>
        /\ host.shown.ack = ack
        /\ Printed(host.shown.reps) =
             [n \in DOMAIN trades |->
                 LET t == trades[n] IN
                 IF t.buy # NoId /\ t.sell # NoId
                 THEN <<"TRADE", t.buy, t.sell, t.price, t.qty>>
                 ELSE <<"EXTERNAL", IF t.buy # NoId THEN t.buy ELSE t.sell, t.price, t.qty>>]

\* No test waits for ever, whatever is lost or comes twice, and the prompt comes
\* back to its user.
TestsEnd ==
    /\ (host.phase # "off" /\ host.prog # "prompt") ~> host.phase = "off"
    /\ Listening ~> ~Listening
=============================================================================
