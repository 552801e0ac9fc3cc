---------------------------- MODULE MCLobEngine ----------------------------
(* Instances of LobEngine for TLC. *)
EXTENDS BookInvariants, TLC

CONSTANTS i1, i2, i3

TwoIds == {i1, i2}
ThreeIds == {i1, i2, i3}
Symmetry == Permutations(Ids)
=============================================================================
