------------------------------ MODULE MCEpilog ------------------------------
(* A small instance of Epilog for TLC.                                     *)
EXTENDS Epilog

SavedOrNot == {<<TRUE, TRUE>>, <<FALSE, FALSE>>}
=============================================================================
