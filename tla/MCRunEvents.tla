---------------------------- MODULE MCRunEvents ----------------------------
(* A small instance of RunEvents for TLC.                                  *)
EXTENDS RunEvents, TLC
=============================================================================
