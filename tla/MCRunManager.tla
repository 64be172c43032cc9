---------------------------- MODULE MCRunManager ----------------------------
(* Small instances of RunManager for TLC.                                  *)
EXTENDS RunManager

CONSTANTS a, b, d1

\* Both runs are for the one device.
MCDeviceOf == [r \in Runs |-> d1]
=============================================================================
