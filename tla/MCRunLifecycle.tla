--------------------------- MODULE MCRunLifecycle ---------------------------
(* Small instances of RunLifecycle for TLC.                                *)
EXTENDS RunLifecycle, TLC

CONSTANTS r1, r2, d1

MCDeviceOf == [r \in Runs |-> d1]

\* All runs share the device, so they are interchangeable.
RunSymmetry == Permutations(Runs)
=============================================================================
