# A TLA+ model of the FPGA limit order book

These modules model the matching engine of this repository - the SystemVerilog under
`hardware/rtl/` -, the path of its results to the network, the Python price-time book
it is tested against (`software/lob/`), the simulator and the reference consumer that
feed and judge that book, and the host programs that test the board. TLC checks them on
small instances; TLAPS proves for every size the encoder, the free stack, the id table,
their composition, the engine's control, that the engine keeps an order book, trades in
price-time priority and implements the price-time book, what the trade path does to its
reports, the feed and its judge, what the prompt shows, and what a passed board test means.
Paths below are relative to the repository.

- [1. The system](#1-the-system)
- [2. The modules](#2-the-modules)
- [3. What the runs show](#3-what-the-runs-show)
- [4. What is proved](#4-what-is-proved)
- [5. Where code and documents part](#5-where-code-and-documents-part)
- [6. What the model leaves out](#6-what-the-model-leaves-out)
- [7. What could come next](#7-what-could-come-next)

## 1. The system

### Inventory

| Component | State it keeps | Operations | Talks to |
|---|---|---|---|
| controller, `lob_engine_top.sv` | FSM state, the current command, the acknowledgement | take a command, validate, fast path, enqueue, manager op, drain, query, settle, acknowledge | starts manager and matcher by one-cycle pulses, hears one-cycle completion pulses; samples the encoder and the live count |
| order manager, `order_manager.sv` | FSM state, latched order, level, neighbours | enqueue, cancel, modify quantity, move, execute, query | pool port B, level tables, id table, encoder set/clear, free list |
| matcher, `matcher.sv` | FSM state, latched heads and levels, trade quantity, remainder | fast path, drain | pool port A/B, level tables, id table (delete), encoder clear, free push |
| best-price encoder, `best_price_encoder.sv` | two bitmaps, best price and scan per side, clearing counter | set, clear, scan, serialized clearing | its prices address the matcher's level accesses; `refresh_busy` stalls matcher and controller |
| order memory, `order_memory.sv` | pool, free stack, init counter | read, write, alloc, push, init | `num_orders` is derived from the stack height |
| level tables, `price_level.sv` | head, tail, total per level | read, write | - |
| id table, `order_id_table.sv` | hash rows of four buckets, probe FSM | lookup, insert, delete over an 8-set window | answers manager and matcher by one-cycle pulses |
| trade generator, `trade_generator.sv`, `fifo_queue.sv` | trade, ack and report FIFOs, report FSM, sequence | accept trade, accept ack, emit reports | backpressure to matcher, manager, controller |
| decoder, command FIFO, `message_decoder.sv` | one payload register; eight commands | decode, drop a bad version | feeds the controller |
| board level, `hardware/board/*.sv` | two CDC mailboxes, ingress/egress bytes, last peer | datagram in, datagram out, ARP reply | PHY at 125 MHz, engine on its own clock |
| Ethernet/IP/UDP/ARP, PHY management | frame position, CRC; MDIO sequence | receive, transmit, bring-up | pins |
| Python book, `software/lob/orderbook.py` | orders by id, levels as FIFOs, lazy price heaps | add, cancel, modify, match, execute | the reference |
| simulator, `software/lob/simulator.py` | a mirror book, live ids, next id, clock, sequence | one batch: an event and the reports of its trades | sends the feed over UDP |
| consumer, `software/lob/consumer.py` | a book of its own, the reports it expects, counts | take a message, time out | judges the feed |
| `hardware/tools/golden_check.py`, `hardware/verif/` | - | replay one stream through both and compare | - |
| `hardware/tools/board_stress.py`, `board_smoke.py`, `software/video_demo.py` | program position, what came in, a reference | send a command, collect its answers, judge or print | the board over UDP |

The engine serializes commands: one is in flight from the command FIFO to its
acknowledgement, and manager and matcher never run together. What does run
concurrently with them is the initialization of the free stack and of the bitmaps
after a reset, the encoder's two scans, which a clear starts and which take up to 4096
cycles, and the path of trades and acknowledgements to the network. Between commands,
state survives in linked lists spread over four memories that no single step updates
together, and between host programs it survives on the board.

### What is hard here

The list with line numbers is `PROJECT.json` "hazards". In short:

- **scans against operations**: a level is occupied while its side is scanned; both
  sides scan at once; the matcher addresses its writes by a live register;
- **order of the memory updates**: id mapping, slot, links, level ends, occupancy
  bit are changed in different states; what one command leaves behind is believed
  by another many commands later;
- **holes in hash windows**: deletions before a live entry, windows that wrap;
- **partial failure**: an ADD that reserved a slot, or that already traded, and is
  then refused;
- **limits**: full pool, full hash window, full FIFOs seen one cycle late, last price
  level, price 0;
- **reset** in the middle of anything, with memories it does not clear;
- **two matching paths** with different rules that must agree with one reference;
- **waiting**: stalls on scans and initialization, one-cycle pulses somebody must
  be listening for, producers behind FIFOs behind a slow egress;
- **a lossy network**: a feed with gaps, a test that waits for answers that do not
  come or come late or twice;
- **leftovers**: nothing resets the board between two host programs.

### What makes each component correct

| Component | Properties |
|---|---|
| encoder | a settled side reports its best occupied level; a scan passes none; every scan ends; a reset clears everything |
| order memory and id table | a slot is never delivered twice, lost, or both free and mapped; the count is exact; the table implements a map and refuses an id only when its window is full |
| engine memories | levels are well-formed FIFOs; pool, ids and free stack agree; prices shown are the book's; the book is not crossed |
| manager and matcher | never work on or give back a slot they do not hold; write back to the level they read; drive the encoder only as its contract allows, so never clear a side that is scanning |
| controller | one actor at a time and no completion pulse lost; nothing starts before validation and initialization; no best price is used while it is looked for; every command is answered once, with the reference's status, quantity, prices and count |
| trade path | no report doubled, misnumbered or reordered; one situation alone may lose one (finding 3); reports before acknowledgements; nobody waits for ever |
| Python book | implements the price-time book; its self check holds after every message, refused ones included; FIFO is time priority, no trade-through; the lazy heaps find the best level |
| simulator and consumer | an undisturbed replay reproduces the exchange's book; the printed counts do not lie about a disturbed one |
| board tests | a good fresh board passes; a test that passes has seen the board's book; the prompt shows a command's own answer; every program ends |

## 2. The modules

An arrow is EXTENDS, a dotted one INSTANCE.

```
LobPkg
 ├─ BestPriceEncoder ── BestPriceEncoderProofs ··························┐
 │      : Bpe                                                           :
 ├─ BookState ─┬─ OrderManager ─┬─ LobEngine ── EngineControl           :
 │      : Mem  └─ Matcher ──────┘                   │                   :
 │      :                                      BookInvariants ─┬─ BookProofs ───┐
 │  OrderMemory ───┐                                           │········┘       │
 │                 │                                           └─ MCLobEngine   │
 │                 │                                                  │         │
 │  OrderIdTable ──┴─ OrderStorage ── OrderStorageProofs         GoldenCheck ───┴─ GoldenProofs
 │     : Map                                                          : Golden
 │  IdMap                                                             :
 ├─ PriceTimeBook ····················································┤
 │                                                                    :
 └─ OrderBook ── OrderFlowGenerator ── GoldenReference ─┬─ OrderFlow ─:── OrderFlowProofs
                                                        │    ·········┤ Mirror
                                                        └─ BoardLink ·┘ Board
                                                               └─ BoardHost ── BoardHostProofs ── BoardPassesProofs
FifoQueue ── TradeGenerator ── TradeGeneratorProofs
```

| Module | Models | State and actions in terms of the code |
|---|---|---|
| `LobPkg` | `lob_pkg.sv` | sides, levels, price order, command and status codes. `PRICE_BASE` and `TICK_SHIFT` are 0 in the package, so an in-range price is its level index; every price above the table is one value, `NumLevels` |
| `BestPriceEncoder` | `best_price_encoder.sv` | `occ` is the bitmaps, `best` the registers per side, `initIdx` the clearing counter (`NumLevels` for `init_done`). `Edge(in)` is one clock edge with the pulse the engine drives; both sides use the bitmap from before the edge. `Next` is the encoder with every engine that clears settled sides only |
| `OrderMemory` | `order_memory.sv` | `free` is `free_mem[0..free_top-1]`; `InitEdge`, `Alloc`, `Push`, `Write`, `Reset` are the effects of an edge |
| `OrderIdTable` | `order_id_table.sv` | `rows` of `Ways` buckets, `hash` an arbitrary function chosen once; one action per FSM state: accept a request, read a row, examine it, commit an insertion or a deletion |
| `IdMap` | what the id table promises | a map from ids to slots, one request at a time |
| `OrderStorage` | pool, free stack and id table in the sequences in which manager and matcher use them | an ADD that takes a slot, inserts, and gives back on refusal; a removal that looks up, deletes, gives back; a match that gives back first and deletes afterwards; reset while no order rests |
| `BookState` | memories and pulses shared by manager and matcher | pool, levels, id map (0 for absent), current command, completion pulse, trades of the command; 32-bit quantities and 16-bit totals wrap at `MaxQty+1` and `MaxLevelQty+1` |
| `OrderManager` | `order_manager.sv` | one action per state that decides or writes |
| `Matcher` | `matcher.sv` | likewise; `Consume(s)` is the update of one head, common to drain and fast path |
| `LobEngine` | `lob_engine_top.sv` | the controller, the composition, the host (`Accept`), background steps and reset |
| `EngineControl` | - | the types of the composition and what its control guarantees whatever the book holds; what the first part of `BookProofs` proves |
| `BookInvariants` | - | what makes the memories an order book, at every clock edge: `InHand`, `Dropped` and `View` say where a slot is and which link is a write behind while an operation is under way. Then what the FSMs believe from one state to the next, which makes it inductive (`BookInv`), and liveness |
| `PriceTimeBook` | the book `golden_check.py` holds the engine to | the abstract specification: one action per kind of answer |
| `GoldenCheck` | the comparison of `golden_check.py` | history variables and the refinement `MatchesGolden`, with each queue walked from its head |
| `FifoQueue` | `fifo_queue.sv` | a FIFO is a record of the ring's registers, `Clock` its registers after an edge |
| `TradeGenerator` | `trade_generator.sv` between its producers and `lob_udp_egress.sv` | every step is one clock edge of producers, three FIFOs, report FSM and egress |
| `OrderBook` | class `OrderBook` of `orderbook.py` | a book is a record - index, levels, lazily cleaned heaps -, a method an operator that returns book, trades and exception |
| `OrderFlowGenerator` | `protocol.py`, class `OrderFlowGenerator` of `simulator.py` | the generator is a record, a batch an operator on it; random draws are choices |
| `GoldenReference` | class `GoldenReference` of `consumer.py` | `process_message` as an operator from a reference and a message to reference, exception and trades |
| `OrderFlow` | `main` of `simulator.py` and `consumer.py` over UDP | send a batch, receive, time out; the network loses, doubles, swaps neighbours and mixes in a foreign datagram |
| `BoardLink` | the board as a host meets it | one command in, reports then acknowledgement out; the ingress drops a datagram while its mailbox is full, a bad version is dropped; network faults |
| `BoardHost` | `board_stress.py`, `board_smoke.py`, `video_demo.py` | a program is a record; start, prime, send, receive, time out; programs follow each other on one board |

**Steps and cycles.** In the engine a state whose only purpose is to let a synchronous
memory deliver (`LU_HIT`, `ENQ_SLOT`, `SP_NEXT`, `M_LEVELS`, `F_HEAD`, the `*_WAIT`
states of the id table) is merged with the state that consumes the word: nothing else
writes that memory in between. Writes made in one cycle stay one step; writes made
in different cycles stay different steps. A scan or an initialization edge may fall
between any two steps, any number of times or not at all, which covers every ratio
of lengths of operations and scans. When an operation drives the encoder, its pulse
and the scan of the other side advance in the same edge, as in the hardware.
`TradeGenerator` is different: what matters in it is which cycle a handshake is seen
in, so every step is one edge of all its registers, and the producers work for any
number of cycles from `TradeGap + 1` on after a trade and from `AckGap + 1` on after an
acknowledgement.

**The id table twice.** `LobEngine` uses the id table as a map with an insertion that
may find no place. `OrderIdTable` is the table itself, and `TableIsMap` and
`UsersSeeTheMap` prove that it is this map, to any user and to the users it has.

**The host** of the engine sends what it likes in each slot of the stream within a few
switches, each a constant of `LobEngine` set in the `.cfg`: `DuplicateAdds` (ADD with a
live id), `ForeignSideModify` (MODIFY that names the other side), `SpliceStaleHeads`
(operations that run into finding 1 below), `WindowFull` (an insertion may find no
bucket), `WarmReset` (when `rst_n` may fall). Timestamps increase strictly, as
`simulator.py` and the directed tests send them.

**The board** that host programs talk to is `PriceTimeBook`: the chain is
engine ⇒ price-time book (`golden`, `golden_enqueue`), Python book ⇒ price-time book
(`order_flow`), host programs over a price-time book (`board_host`). What the reports of
a command do on their way is `trade_generator`; `BoardLink` assumes that none is lost on
the board, which holds up to finding 3, and lets the network lose them instead.

## 3. What the runs show

| Run | Instance | Distinct states | Question |
|---|---|---|---|
| `encoder` | 4 levels | 5 800 | is the best price exact, through any interleaving of sets, clears, scans and resets, and does every scan end? |
| `storage` | 3 usable slots, 3 ids, 3 sets of one bucket, windows of 2 | 307 000 | does the table implement a map whatever holes deletions leave and however ids hash, are pool, ids and free stack one story, and does every operation end? |
| `engine` | 3 levels, 3 slots, quantities 1-2, 3 commands, duplicate ids, wrong sides, full windows, resets in any state while the tables are empty | 285 000 | are the memories one consistent book at every clock edge, is every trade in price-time priority and every acknowledgement true, and does the control keep the rules the proofs about memories and encoder rely on (`OneAtATime`, `EncoderContract`, `OnlyHeldSlots`)? |
| `engine_live` | 2 levels, 2 ids, 3 commands | 75 000 | is every command answered? |
| `golden` | 2 slots for 3 ids, 2 prices, quantities 1-2, 4 commands | 1 283 000 | does the engine with its fast path implement the reference, when the pool fills and slots are reused too? |
| `golden_enqueue` | fast path off, prices 1, 2 and out of range, duplicate ids, full windows, 3 commands | 441 000 | and through the drain alone? |
| `trade_generator` | FIFOs of 2 places, 6 trades and acknowledgements, trades external and matched, an egress of any speed | 108 000 | does every report arrive once, numbered and in order, before its command's acknowledgement, and does nobody wait for ever? |
| `order_flow` | prices 1-5, quantities 1-2, 4 batches less one for each fault of the network | 247 000 | does the Python book implement the price-time book, does a replay reproduce it, and what do the counts say of a disturbed one? |
| `board_host` | all 7 programs, 2 in a row, 2 random or typed commands, 1 fault, a board of 7 orders | 580 000 | does a good board pass, does a pass mean agreement, is what the demos print true, does every program end? |
| `stale_head`, `fast_window_full`, `report_backpressure` | see section 5 | - | the three findings |

**Why these bounds are enough.**

- *Engine and golden.* Three orders give a level with a head, a middle and
  a tail, which is every case of a splice and of a dequeue; three levels give a best
  level, a better one and a worse one, and a scan that starts, steps and ends; a
  quantity of two gives partial and full fills on either side; price `NumLevels` gives
  the rejection. Three commands are needed to cross two resting orders, four to remove
  an order whose predecessor was consumed, or to fill a pool of two, free a slot and
  use it again. Totals stay below `MaxLevelQty`: a level above 65535 is out of the
  design's scope (`docs/architecture.md`, section 3.2). Order ids are symmetric, and
  symmetry is used wherever no liveness is checked.
- *Encoder.* It has no behaviour that depends on more than the levels next to the scan,
  and is proved for all sizes anyway.
- *Storage.* A window of two buckets over three sets wraps, overlaps its neighbours and
  can be full with a slot to spare; three ids give a hole before a live entry and a
  duplicate after a hole. Ways add nothing but room, and the proofs are for any number.
- *Trade path.* Two places tell empty, one left and full apart; `TradeGap` is 2:
  three cycles of work after a trade, as on the shortest way in the code, an EXECUTE's from
  `EX_TRADE` over `EX_ACK`, `C_MGR` and `C_SETTLE` to `C_ACK`; the loops of the matcher
  take longer. `AckGap` is 1: two cycles of work after an acknowledgement, `C_IDLE` and
  `C_VALIDATE`, when the next command is rejected at once. A trade takes longer to
  follow an acknowledgement; the model lets it come as soon. Six products
  fill both FIFOs behind a stalled egress. All but `ProducersGoOn` is proved for every
  depth and any number of products.
- *Order flow.* Four batches let a level go and come back, so that heap entries are
  stale; every fault shortens the stream by one batch. A datagram is overtaken by its
  neighbour, and a receiver lags one batch (`MaxLag`).
- *Board.* Two programs in a row is what leftovers need; the capacity scenario is scaled
  to the board of the instance, which still holds every other script. An order of 50 typed
  at the prompt can be met by the demo's.

**Fairness.** `FairSpec` of `LobEngine` assumes `WF(EngineStep)`: some enabled FSM or
memory steps, because they are all clocked by the same free-running clock. It does
not assume that the host sends. In this model an FSM that waits is not enabled, so
one fairness condition on the whole engine is enough: while a command is in flight
the only other steps are scan and initialization edges, of which there are finitely
many before one must end. The encoder alone assumes weak fairness of its clock edge and
nothing of the engine around it. `OrderStorage` assumes it of the memories' FSMs and of
the operation in progress, not of anybody who starts one. `TradeGenerator` assumes
`WF(Tick(TRUE))`: the clock runs and the transmitter is ready again and again.
`BoardHost` assumes weak fairness of `Progress`, with its enabling condition written out
as `CanProgress`: sockets time out, the board is clocked, the network delivers what it
does not lose. People who start programs and type at the prompt are under no obligation.
`OrderFlow` assumes nothing: its properties are safety.

**Deadlock** is not an error in the engine runs, whose stream is bounded (the host
stops), and in `board_host`, where the last program ends. `engine_live` checks that the
engine itself never stops with a command in flight, `TestsEnd` that no program does. It
is an error in `encoder`, `storage`, `trade_generator` and `order_flow`.

Each property has a mutant, a small change to a mapped definition (named in
`PROJECT.json`, defined next to the original with a comment "Mutation") that the run
rejects.

## 4. What is proved

TLAPS checks the following for every value of the constants, from the named
assumptions of the modules only: at least one level (`NumLevelsAssumption`); at least
two slots (`PoolAssumption`), of which one is the null slot, as in the RTL; id 0 is no
order's id (`IdsAssumption`); the widths of quantities and totals are naturals
(`QtyAssumption`); at least one set and one way, windows no longer than the table
(`TableAssumption`); the table's slots are the pool's (`StorageAssumption`); FIFOs have a
place (`DepthAssumption`); the generator's prices are a nonempty range of levels above 0,
its quantities and crossing span positive (`RangeAssumption`); the bound on batches and
faults is a natural (`StepsAssumption`); the board has a slot (`BoardAssumption`). The
scripts of the board tests name prices up to 4 and add up to 7 orders: the board has these
levels and this room, the bound on the commands of a host is a natural, and id 0 means no
order (`ScriptsAssumption`).

**`BestPriceEncoderProofs`** - `TypeCorrect`, `BestIsExact`, `ScanIsComplete`,
`ResetIsComplete`. `SettledIsBest` is not inductive: when a scan ends it needs to
know that the levels the scan passed are empty, which is `ScanMissesNothing`; both
need the bitmaps to be empty when clearing ends, which is `ClearedSoFar`, and all
three the ranges of `TypeOK`. Their conjunction `IInv` is inductive. The step of a
scanning side and the step of a settled side are lemmas over one side; the comment in
the RTL that equality with the scan position matters (`best_price_encoder.sv:98-101`)
shows up as the one case that fails if `~Better(scan, set)` is made strict.

**`OrderStorageProofs`**, of the order memory alone - `TypeCorrect`, `NeverTwice`,
`CountIsExact`, `FilledInOrder`. `NoSlotTwice` needs `InitInOrder` while the stack is
built, and the discipline that a slot is pushed only by its holder, which is in the `Next`
of the module.
`CountIsExact` counts: the stack is an injection onto the free slots, so its length
is their number.

**`OrderStorageProofs`**, of the id table alone - `TableTyped`, `NeverTwiceInTable`, `AlwaysWithinWindow`,
`TableIsMap`, `RefusalsAreJustified`, for every number of sets and ways, every window
length and every hash function. That the probing FSM implements a map is a refinement
(`ImplementsMap`, with `SlotOf` as the abstract map), and it is about what a search
*knows*: the inductive invariant adds to the types, `NoIdTwice` and `WithinWindow` that

- the row in the register is the row in memory (`RowIsFresh`), because nobody else
  writes while a request is served;
- the id is in none of the sets of its window the search has passed (`SearchedWithout`);
- if no place was remembered, all of them are full (`SearchedFull`); if one was, it is
  empty and within the window (`EmptyIsRemembered`);
- a commit is due only for an id that is nowhere, or at the bucket it was found in
  (`PutIsDue`).

A miss after a whole window then means that the id is nowhere at all, by `WithinWindow`:
a hole does not hide an entry because the search does not stop at it.

**`OrderStorageProofs`**, of the composition - `UsersAreDisciplined`, `UsersSeeTheMap`, `AlwaysAgree`,
`NothingIsLost`. The composition is proved against the *interface* of the table: the
invariant of the table is carried over as a whole, and every further step
argues about the abstract map and the table's answers only. The parts that make
`MemoriesAgree` inductive say what the operation in progress holds: whether its id is
mapped and its slot free at each of its states (`Knows`), that resting orders are mapped
and mapped slots rest or are being worked on, and that every slot in use has an owner
(`Accounted`), which gives `AtRestAllAgree`. `UsersAreDisciplined` shows that this
composition implements `OrderMemory`'s specification, so the discipline its theorems
assume is a fact of the sequences manager and matcher follow.

**`TradeGeneratorProofs`** - `ClockKeepsFifoOK`, `ClockIsQueue`, `TradesInvHolds`, `Numbers`,
`LossIsTheSellers`, `ReportsComeFirst`, for every depth of the FIFOs, every set of ids, any
number of trades and acknowledgements and a transmitter that is ready when it likes.

First the ring of registers, for any FIFO record: an edge keeps pointers and count
consistent (`FifoOK`), and the contents change as a queue does - append what was
accepted, drop what was taken. Then the edge of the whole path is split by what each FSM
does in it (`SourceMoves`, `ReportMoves`, `EgressMoves`), and the inductive invariant
`TradesInv` follows a trade from its producer to the network:

- *Taken once* (`Offered`). `m_trade_valid` is up in the cycle after the producer has gone
  on, so in every cycle it is said whether the word offered is a trade that was made and is
  entering the FIFO now (`OnTheWire`) or one the FIFO will refuse; what the generator has
  taken, what the FIFO holds and what is on the wire are the trades made, in order.
- *Numbered as made* (`Reporting`). `rep_seq` is the number that the trade in `t_q` and the
  side the FSM is at call for; a match takes two numbers, an external fill one
  (`NextNumber`).
- *One sequence* (`Streaming`). The reports sent, the one in the egress and those in the
  FIFO are one sequence (`Stream`), to which an edge appends the accepted push or nothing.
  It is ordered, and every number below `rep_seq` is in it, arriving at it, or `Lost`.
- *One cycle late* (`Pushing`). `rep_push` is either a report the FSM is still stalled on,
  which the full FIFO is refusing (`Stalled`), or the one it has just left (`Behind`), which
  is new to the sequence or meets a FIFO that is full. The case that loses a report is
  the one where R_SELLER sees the place that the buyer's push is about to take; R_BUYER has
  then met a FIFO with one place left.
- *Answers* (`Answering`). Acknowledgements are counted the same way from `C_ACK` to the
  egress; they need no lookback, since `s_ack_valid` is the state itself.

`NumberedAsMade` and `LostOnlyWhenCrowded` follow. `ReportsBeforeAck` is a race, and its
proof is a count of cycles: `Due` bounds the edges until the next report is in its FIFO
(1 to 4), `IdleIn` how long the egress is busy at least, and `Prompt` says that while
reports of a trade are missing, one is in the FIFO, or the next will be when the egress
looks again, or before an acknowledgement that is still to be made can be. That is kept (`TimesKept`) if a
producer works three cycles or more after a trade, `TradeGap >= 2`, the one hypothesis of
`ReportsComeFirst`. It is what the code has and it is exact: with `TradeGap = 1` TLC finds an
acknowledgement that overtakes a report. How soon a producer goes on after an
acknowledgement does not matter: when `C_ACK` is left, the last trade is off the wire
and its reports are already in time for that acknowledgement, so the theorem holds for
every `AckGap`, back-to-back rejected commands included.

**`BookProofs`**, of the control - `TypeCorrect`, `OneActor`, `ValidatedBeforeUse`,
`ScansAreWaitedFor`, `EncoderUsedAsSpecified`, `EngineBestIsExact`, for every number of
levels, slots and ids, and with resets whenever `WarmReset` allows one. The inductive
invariant is `TypeOK /\ OneAtATime /\ ValidatedFirst /\ SettledWhenUsed`, whose
parts need each other:

- the types need `OneAtATime` and `ValidatedFirst`: the manager addresses level tables
  by the price of the command, and only while it works for an ADD or MODIFY that was
  validated is that price known to be a level;
- `OneAtATime` needs the operation in `mr` and the command in `cmd` to be those of
  the state the controller waits in, which `ValidatedFirst` and the types give;
- `SettledWhenUsed` needs `OneAtATime`: a clear by the manager or the matcher starts a
  scan only in a state from which every path leads to a state that waits. `MayScan`
  names the states in between.

There is one lemma per FSM and conjunct, with one step per action. `EncoderContract`
follows: every edge the engine gives the encoder is one of `BestPriceEncoder`'s own
`Next`, whose restriction - no clear of a side that is scanning - is therefore a fact
about this engine and not an assumption, and `SettledIsBest` is carried over to the
engine (`EngineBestIsExact`).

**`BookProofs`**, of the book - that the engine keeps an order book, for every number of levels, slots,
ids and quantities and any length of the command stream. Nine theorems: `QueuesStayFifos`,
`NoSlotLost`, `FreedSlotsUnused`, `WritesBackToTheSameLevel`, `OnlyHeldSlotsUsed`,
`MemoryUsedAsSpecified`, `AcknowledgementsAreTrue`, `BestPricesAreTheBooks`,
`TradesInPriority`. They assume `ScopeOfBook`: the host does not splice the stale head of
finding 1, and a reset finds the book empty (both in section 5; `stale_head` is the
counterexample to the first). The last two also assume `[]TotalsFit`, no level holding
more than its total can count, which is the scope `docs/architecture.md:149-151` sets; the
others hold whatever the totals do.

The inductive invariant is `Sound`: the control invariant above, the encoder's `IInv`, and
`BookInv`. What `QueuesAreFifos` and `SlotsAccountedFor` need is

- a description of the book *while it is changed*. The queues are those of `View`: when a
  new order is linked, the old tail points to it one state before the level does, and the
  successor of a spliced order is written one state after. The linked slots are
  `Resting`: those the id table names, without the one the manager holds (`InHand`) and
  the filled heads the matcher has freed and still has to unmap (`Dropped`);
- that what manager and matcher latched in one state is still what the memories hold in
  the state that uses it (`ManagerLatches`, `MatcherLatches`). For the manager that
  includes neighbours read before the level is written; for the matcher that the best
  price it addresses by has not moved, which is `OneAtATime` and the encoder's
  `SettledIsBest` together;
- that arrival order is list order (`Timely`): whatever is linked is older than a command
  that has still to be linked;
- the host's promise at the moment it is used (`NoStaleSplice`), positive quantities
  (`QuantityGiven`), and an empty book until both initializations are over
  (`EmptyUntilReady`, `FilledSoFar`);
- that marks are on levels that hold orders (`OccupiedAreHeld`) and do not cross unless a
  drain is still to come (`Uncrossed`).

The converse of `OccupiedAreHeld` is `HeldAreOccupied`, and it is the one part that totals
can break: a splice clears the mark when the *total* reaches zero
(`order_manager.sv:365`), a dequeue when the *list* is empty. It is proved separately,
from `TotalsFit`, and gives `BestIsTheBooks` and `PriceTimePriority`.

The proof follows the header of the module. First what a linked list is, apart from the
engine: `IsFifo(a, p, v)` relates a set of slots, a pool and a level record, and the
lemmas `FifoWithout`, `FifoWith`, `FifoRequantified` say that unlinking, linking at the
tail and another quantity keep it; totals are cardinalities (`TotalQty` counts units), so
that no recursion is needed. Then the same for the table of levels, then one lemma per
state of manager and matcher that writes a memory (`SpliceUnlinks`, `TailReaches`,
`HeadConsumed`, ...), which instantiate those. `BookKept` collects what every step of the
engine does to the book: it stays an order book, the order memory is used as it specifies,
and nothing joins the book but the command at the manager's last linking step. From this
`Timely`, the latches and the marks follow, conjunct by conjunct (`SoundKept`).

**`GoldenProofs`** - `EngineMatchesGolden`: the engine implements the price-time book,
whatever path serves a command, for every number of levels, slots and ids and any length
of the command stream. Book, trades and acknowledgement at every `C_ACK` are the reference's;
every other step of the engine is a stutter.

Its scope (`GoldenScope`, and `[]TotalsFit`) is that of `ScopeOfBook`, and what the
reference itself leaves open or section 5 lists: no price 0 (the engine takes it, the
reference refuses it), no MODIFY that names the other side, and with the fast path on no
repeated id and no full hash window (the ADD would have traded before it is refused). Both
golden configurations are within it.

`BookProofs` says what the memories are at each edge; what is added is *how far the command
has gone*. Queues are compared as sets of orders, since a level's order is that of time on
both sides (`Lists(b, E)` says that the queues of `b` hold exactly the orders `E`, and removal,
entry and a smaller quantity keep it). `At(b, T, E)` says that the trades `T` made so far and the orders `E` left
are those of the reference after as many of its rounds of matching; `Leaves` that no round
is left to do; `Outcome` what the answer will be. The inductive invariant is `Follows`:

- `Resumes`: between commands the orders in the memories are the book last shown;
- `Working`: the register holds the command accepted, but for a quantity that shrinks, and
  the book it met is older than it;
- `ControllerServes`: the controller is before, in the middle of, or past the trades, per
  state of its FSM and path, and on the way to the reference's answer;
- `ManagerServing`, `MatcherServing`: the same for each state of the manager (found,
  unlinked, linked, refused, ...) and of the matcher, where a fill that is written in two
  states is already a round from the first of them on;
- `PulseTells`: a completion pulse carries the status and quantity of the reference.

There is one lemma per state that decides or writes (`LookupFollows`, `SpliceFollows`,
`FastTradeFollows`, ...). Where the fast path matches a limit against one level after the
other and the drain uncrosses a book in which the order already stands, both are shown to be
the reference's rounds by the priority of the trades in `BookProofs`.

**`OrderFlowProofs`** - the Python book, the simulator,
the network and the golden reference consumer, for every range of prices and quantities,
any number of batches and any number of faults. Ten theorems: `FlowCorrect`, the
invariant, and its consequences `BooksStayConsistent`, `HeapAlwaysFindsBest`,
`FeedReproduces` and `CountsAlwaysTell`; `TimePriorityKept` and `NothingTradedThrough` of
what the book does with orders; `BatchesCounted`, `MirrorImplements` and
`FlowTypeCorrect`. From the bottom:

- *A book.* `SoundBook` says that index, levels and heaps are one story: an order is in
  the index if and only if it is once in the queue of its level, a level exists only while
  it holds an order, every level is in its side's heap, quantities are positive.
  It is more than `check_invariants` looks at, and it is what makes the lazy heaps right:
  stale entries may stay, a level may be pushed twice, but the first entry that survives
  cleaning is the best level (`BestPriceIs`). Every method of `orderbook.py`, a refused
  call included, leaves a sound book; `match_orders` leaves an uncrossed one, because each
  turn of its loop but the last removes an order.
- *Time.* `Aged(b, T)`: every level stands in the order of time, and nobody is younger than
  `T`. What a book loses by a removal, a fill or a smaller quantity leaves the others where
  they stood (`Follows`), and what joins is younger than `T`. `TimePriorityKept` follows.
- *Price.* While an order is matched, it is the only one whose removal could uncross the
  book, and the youngest (`Aggressor`): so every trade is at the price of the other side's
  best (`AggressorTrades`), and since what follows a book is no better than it, the prices
  only get worse (`Walked`, an invariant of the loop). `NothingTradedThrough` follows.
- *The generator.* Every event it draws is one its mirror takes without an exception
  (`EventsGood`): ids are new for an ADD and live for a CANCEL or MODIFY, prices are in
  range. So `gen.err` stays empty and a batch is the event and its reports.
- *The reference.* `process_message` on any message leaves a sound book, whatever was lost
  before it, and counts it (`received`, `gaps`, `lastSeq`).
- *A batch replayed* (`BatchReplays`). A reference that has read everything sent so far
  reads the event and then its reports without an exception, expects exactly the reports
  that follow, and at the end holds the generator's book again.
- *The feed.* `FlowState` says that there is a sequence `st` of messages sent and a
  sequence `rf` of references along it, `rf[n]` the one that has read the first `n`
  messages. As long as no exception was raised and no gap counted, and as many messages
  were received as the last number says, the consumer is `rf[lastSeq]`, wherever loss,
  duplication and reordering have left the feed; an undisturbed feed is the unread rest of
  `st`. A repeated or overtaken message cannot make up for a lost one, because the number
  expected next only moves with `received`.

- *The refinement* (`MirrorImplements`: `Spec => ImplementsBook`). The abstract book finds
  an order by searching its levels, the Python book by its index; `StandsAt` relates the
  two: in a sound book an order stands at one place only (`ListsOnce`), so the search has
  one answer and it is the index's. `Resting`, the refinement mapping, then commutes with
  what the methods are made of: insertion, removal, a new quantity, a fill. A turn of the
  loop of `match_orders` is a `Round` of the abstract book (`TradeOnce` while it is
  crossed, else nothing): the heaps find the abstract best levels, and the heads are the
  same orders. The Python loop is granted one turn more than there are orders, the
  abstract one as many rounds as orders; both are uncrossed by then, and a round of an
  uncrossed book changes nothing. So each event is the abstract command of the same name
  with the same trades and the same answer, and the faults and the consumer stutter.
  `BatchesCounted` (`FlowCounted`) is what makes room: ids and times never run ahead of the
  batches sent, hence never exceed `MaxSteps`, the capacity the abstract book is given.
- *The types* (`FlowTypeCorrect`). What is not in the invariants above: the consumer counts
  each message once and as no more than one of each kind (`Tallied`), and trades are
  between orders that were given an id (`Named`): matching names only orders that it
  found in the book, so a trade of the mirror names ids given out before.

`FlowState` quantifies over sequences of unbounded length, so TLC cannot evaluate it; the
run checks its consequences.

**`BoardHostProofs`** - `PromptShowsItsAnswer`: while the network loses nothing, what the
prompt prints is the answer to the command just typed, one line per trade, on any board and
after any programs.

- *Printing.* The board numbers and sends the reports of a command trade by trade,
  `print_execution_reports` sees one report at a time and holds the first of a pair. By
  induction along the trades (`PrintsTheTrades`): after the reports of `n` trades it has
  printed `n` lines and holds nothing. That a match has two ids and an external fill one is a
  fact about the board's `Match` and `Execute` (`MatchTrades`).
- *Waiting.* `PromptInv` says where a command and its answer are. The prompt starts when the
  traffic of the program before it is over (`Quiet`); from then on nothing is under way while
  it is being typed at, the command alone is while it is unanswered (`Asking`), and then what
  has been received and what is still under way together are the reports of `trades` and, as
  the last of all, `ack` (`Answering`). With a silence it shows what has come, and that is
  everything.

`PassedTestsAgree`: a stress test that passes has seen the board's book, for every capacity
and number of levels, whatever was on the board and whatever the network did, short of
delivering something twice. The test compares best prices, a count, one quantity and the
reports; the theorem says that the whole book is the reference's.

- *One command.* The board is the abstract book, the reference the Python one, and what the
  refinement of `OrderFlowProofs` says of the generator's mirror holds of them (`Feed` is its
  instance with the board's levels and capacity): a command that the reference takes without
  an exception, and the board answers with OK, leaves both with the same book (`TakesAlike`).
  One that is answered FULL changes nothing (`FullDoesNothing`); no sequence of commands
  overfills the board (`ProcessRoomy`), which is what makes its counts comparable.
- *The first command.* Nobody clears the board. Every test begins with an ADD, and the
  reference begins empty: if the board's count after it is the one expected, and the
  quantity left and best prices too, then what is on the board is that order alone and the
  board was empty before, or has been emptied by it to the same effect (`FirstAlike`).
- *What is sent.* Every command of the scripts and of the generator is one that the above
  is about (`ScriptSends`, `EventsSent`), the refusal that the capacity test expects included.
- *What is under way.* `AgreeInv` is the invariant. Between commands no command and no
  acknowledgement is under way. While the test waits there is at most one of either:
  the command last sent, the reference being one command ahead of the board (`Before`), or
  the acknowledgement of it, or that has come; and then the books agree if it is the one
  expected (`After`). Losses, delays, reorderings and foreign datagrams only take from this
  (`LessTraffic`), a late answer ends the test, and a doubled one would break it: the
  acknowledgement compared might be an earlier command's.

**`BoardPassesProofs`** - `GoodBoardsPass`: on a board that was just programmed, over a
network that loses nothing, no test fails. A bench shows this for the streams it ran; the
theorem is about every stream, capacity and number of levels.

- *The reports.* What `board_stress.py` expects is folded over the reference's trades with a
  running number, the board numbers its reports as it makes them. Along the trades both are
  the same sequence (`ReportsExpected`), the board's count of reports being the number the
  test expects next.
- *Room.* `TakesAlike` says nothing of a command the board refuses. How many orders and ids
  the reference can hold is bounded script by script and command by command (`Staged`), so
  the board takes what the test expects it to take (`TakesInOrder`), and refuses the one
  order of the capacity scenario that is one too many (`RefusesFull`). A random stream of
  fewer orders than the board holds never fills it.
- *What was there before.* `fresh` says that the board's register of the last command is as
  it was programmed. Every addition sent has a price, so the first command changes that
  register, and a board whose register is untouched has an empty book and makes report
  number 1 next (`Told`).
- *Each program.* `GoodTest`: between two commands of a stress test nothing is under way, the
  books and the report numbers agree; while it waits, either the command is on its way to a
  board that answers as expected (`AskedWell`), or the expected answer, and nothing else, is
  on its way back (`AnsweredWell`). `GoodSmoke`: the command or an acknowledgement is under
  way; the test asks for no more. `GoodDemo`: the sell rests alone, the buy meets it and
  nothing else (`DemoTrade`, `MatchOnce`), 50 are traded and 30 are left.
- *What does not fail.* The other programs have no verdict (`QuietInv`), and the two programs
  of two commands are in one of their phases (`PairInv`).

`GoodInv` is `AgreeInv`, `CountInv`, `QuietInv`, `PairInv` and, as long as no fault has
happened, `Told` and the conjunct of the program that runs.

Some of what is proved is a part of an inductive invariant and no question of its own
(`ClearedSoFar`, `InitInOrder`, `ValidatedFirst`, `SettledWhenUsed`, `NoIdTwice`,
`WithinWindow`, the type invariants of encoder, order memory, id table and engine): the
runs leave these to the proofs and check what they are for.

**Only model-checked**: `DemoPassIsTrue` (what two orders do on a board that holds others,
with one fault). **Beyond the prover**: liveness (`RefreshEnds`, `OperationsEnd`,
`EveryCommandCompletes`, `ProducersGoOn`, `TestsEnd`) and ENABLED.

## 5. Where code and documents part

Three are runs that TLC answers with a counterexample.

1. **`stale_head`** - a dequeue leaves `prev_ptr` of the new head on the freed slot
   (`matcher.sv:202-250`); the splice of that head (`order_manager.sv:498`) then
   leaves `head_ptr` on the removed order. Shortest stream: ADD, ADD at the same
   level, an ADD that fills the first, CANCEL of the second. All other runs exclude
   a splice of such a head with `SpliceStaleHeads = FALSE`, so that they say
   something about the rest.
2. **`fast_window_full`** - the remainder of a fast-path ADD may be refused after it
   traded, against "An ADD is transactional" (`docs/04_memory_architecture.md:55`).
3. **`report_backpressure`** - the report FSM pushes from a register and advances by the
   readiness of the cycle before (`trade_generator.sv:146`): with one place left in the
   report FIFO the seller's report of a match is lost and its number skipped.
   `LostOnlyWhenCrowded`, proved for every depth, says that nothing else loses one.

These were met while reading, and have no run of their own:

- `rst_n` with orders resting rebuilds the free stack while level and id tables keep
  their contents (`order_id_table.sv:63`, `price_level.sv:22-23`): slots are then both
  free and named. The passing runs reset while nothing rests (`WarmReset`,
  `StorageReset`).
- A price-changing MODIFY moves the order to the side its message names
  (`order_manager.sv:160-162`); the reference keeps the order's side
  (`orderbook.py:175-185`, `docs/02_python_interface.md:74`). The golden runs set
  `ForeignSideModify = FALSE`; the engine run sends such commands and its memories stay
  consistent.
- The engine accepts an order priced 0 (`PRICE_BASE` 0); the reference rejects it
  (`orderbook.py:306`). The golden runs use prices from 1.
- With the fast path on, an ADD that repeats a live id and crosses is consumed without a
  duplicate check. `lob_engine_top.sv:19-20` says so and leaves uniqueness to the
  ingress; `engine` shows the memories survive it.
- A bad version is dropped without a trace, although `docs/06_module_dependency.md:37`
  says "bad version → error ack".
- A command datagram that is delivered twice is executed twice: nothing on the board
  looks at sequence numbers. An acknowledgement that is delivered twice can be taken for the
  next command's if the two are equal. `PassMeansAgreement` excludes both.
- `--scenario random --count` with at least as many orders as the pool has slots may fill a
  good board and then fail on it; `GoodBoardPasses` excludes it.
- On a board that holds other orders the demo can pass without its two orders having met:
  the 50 it buys may be somebody else's. `DemoPassIsTrue` speaks of seller and price on a
  fresh board only.
- The sequence `hardware/board/README.md:38-44` documents - smoke, stress, capacity, one
  after another on one board - cannot pass: after smoke the next report is number 3 and
  orders may be left, while `board_stress.py:171` starts at 1 with an empty book.
  `GoodBoardPasses` is therefore about a board fresh from programming.
- The smoke test passes on two acknowledgements; the board README (:46-47) "expects two
  execution reports".
- When a report is lost, the prompt pairs reports of different trades
  (`video_demo.py:223-247`), and it takes a late acknowledgement with the same order id
  for the answer to a later command. `ShowsItsAnswer` is about an undisturbed network.
- `--stimulus` (`simulator.py:269`) is written after the stream was sent, from the same
  generator: the file holds the next batches, not those sent.
- A resting order with id 0 makes a match look like an external fill
  (`trade_generator.sv:134`); the protocol reserves id 0 without the engine enforcing it.

## 6. What the model leaves out

- **Clock-domain crossings** (`cdc_mailbox.sv`): what can go wrong in a toggle mailbox is
  metastability and resets seen at different times by its sides, which lie below a
  cycle-level model; `BoardLink` assumes its contract, a word delivered once or refused.
- **Ethernet, IPv4, UDP, ARP, CRC, PHY and clock bring-up**: framing, checksums and a
  linear start-up; no state in common with the book.
- **Decoder and command FIFO by the cycle**: both hold a word until it is taken; what the
  hosts meet - order, one at a time, a dropped version - is in `BoardLink`.
- **Bytes**: packing of 32-byte payloads, the peer address register, parsing of typed
  lines; a datagram that does not decode is one value.
- `hardware/tools/stimulus.py`, `software/demo.py`, the UVM environment, tool flow:
  straight-line scripts without interaction, or verification code.
- In the engine: the trade sink is always ready (its backpressure is in
  `TradeGenerator`); the unreachable BAD_FIELD arm for MODIFY in `LVL_LATCH`;
  `free_alloc_a`, the `valid` bit of a pool record, `prev_state`, which are never read or
  never driven.
- Network addresses and ports; wall-clock durations, of which only the order of an
  answer and a deadline is kept.

## 7. What could come next

- `DemoPassIsTrue` for any number of orders on the board: what is missing is what a single
  fault leaves of the two answers that the demo compares.
- The engine composed with `OrderIdTable` and `TradeGenerator` instead of their
  abstractions: the refinements make it unnecessary for safety, and the product is too
  large for TLC with more than two commands.
- A mailbox between two clocks with a reset of one side, if the board ever gets separate
  resets.
