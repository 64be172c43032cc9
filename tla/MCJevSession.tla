---------------------------- MODULE MCJevSession ----------------------------
(* A small instance of JevSession for TLC: a screen of each of two apps   *)
(* and the lock screen.                                                    *)
EXTENDS JevSession

CONSTANTS a1, b1, lock

PackageOfThese(screen) ==
  CASE screen = a1 -> "a" [] screen = b1 -> "b" [] OTHER -> "systemui"
=============================================================================
