---------------------------- MODULE MCDbChannels ----------------------------
(* Small instances of DbChannels for TLC.                                  *)
EXTENDS DbChannels, TLC

CONSTANTS a, b

RunSymmetry == Permutations(Runs)
=============================================================================
