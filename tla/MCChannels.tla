----------------------------- MODULE MCChannels -----------------------------
(***************************************************************************)
(* Instances of Channels for TLC.                                          *)
(***************************************************************************)
EXTENDS Channels, TLC

RemoteZero == {Remote(0)}
LocalZero == {Local(0)}
ToBoth == {Local(0), Remote(0)}
None == {}

Symmetry == Permutations(Threads)
=============================================================================
