------------------------------- MODULE MCLink -------------------------------
(* Small instances of Link: two slots of two columns.  A program is told     *)
(* from the others by its manual values and its first slot.                  *)
EXTENDS Link

Holding(m, v) == [manual |-> [i \in 1..Channels |-> m],
                  sched |-> [i \in 1..Slots * Columns |-> v], auto |-> v % 2]
(* No manual value equal to the number of slots, ... *)
MCPrograms == {Holding(1, 0), Holding(0, 1)}
(* ... and one. *)
MCPlainPrograms == {Holding(2, 0), Holding(0, 1)}
=============================================================================
