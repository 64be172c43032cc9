----------------------------- MODULE MCSchedules -----------------------------
(* Small instances of Schedules for TLC: a schedule i with its ticks, runs *)
(* and requests, and for the rotation a second one, q.                     *)
EXTENDS Schedules, TLC

CONSTANTS i, q, ti1, ti2, ti3, tq1, ri1, ri2, rq1, rq2, ci, ui1, ui2, cq

MCOf == (ti1 :> i) @@ (ti2 :> i) @@ (ti3 :> i) @@ (tq1 :> q)
          @@ (ri1 :> i) @@ (ri2 :> i)
          @@ (rq1 :> q) @@ (rq2 :> q)
          @@ (ci :> i) @@ (ui1 :> i) @@ (ui2 :> i) @@ (cq :> q)
OfThese == [a \in Actors |-> MCOf[a]]
MCOrder == (i :> 1) @@ (q :> 2)
OrderOfThese == [s \in Schedules |-> MCOrder[s]]

\* Requests that change the same schedule are interchangeable.
RequestSymmetry == Permutations(Changes)
=============================================================================
