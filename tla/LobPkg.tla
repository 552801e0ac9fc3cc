------------------------------- MODULE LobPkg -------------------------------
(***************************************************************************)
(* The types every block of the engine shares (hardware/rtl/lob_pkg.sv):    *)
(* sides, prices, message types and acknowledgement codes.                 *)
(*                                                                         *)
(* A price is a level index once it is in range, so Level is used for both. *)
(***************************************************************************)
EXTENDS Naturals

CONSTANT NumLevels      \* NUM_PRICE_LEVELS, 4096 in the hardware

ASSUME NumLevelsAssumption == NumLevels \in Nat \ {0}

Side == {"BUY", "SELL"}

Level == 0 .. NumLevels - 1

Opposite(s) == IF s = "BUY" THEN "SELL" ELSE "BUY"

\* price_in_range: only an upper bound, so price 0 is accepted.
PriceInRange(p) == p < NumLevels

\* a is a strictly better price than b for an order resting on side s.
Better(s, a, b) == IF s = "BUY" THEN a > b ELSE a < b

\* An order of side s priced p trades against the opposite best price b.
Crosses(s, p, b) == ~Better(s, b, p)

MsgType == {"ADD", "CANCEL", "MODIFY", "EXECUTE"}

AckStatus == {"OK", "BAD_FIELD", "NOT_LIVE", "FULL", "INTERNAL"}
=============================================================================
