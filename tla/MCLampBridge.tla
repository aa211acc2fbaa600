---------------------------- MODULE MCLampBridge ----------------------------
(* Small instances of LampBridge.  Outputs are numbers: 0 is dark, 1 and 2   *)
(* are the Feed and Maintenance values, 3 a value set by hand, and 10 * s + p *)
(* is the curve of schedule s at time p.  Schedule 0 is the blank one, whose  *)
(* curve is dark.                                                             *)
EXTENDS LampBridge, TLC

MCSchedules == 0..2
MCPhases    == 0..1
CurveOn(schedules, phases) ==
    [x \in schedules \X phases |-> IF x[1] = 0 THEN 0 ELSE 10 * x[1] + x[2]]
MCCurve     == CurveOn(MCSchedules, MCPhases)
(* Fewer: the blank schedule and another one, and a flat day. *)
MCTwoSchedules == 0..1
MCFlatDay   == {0}
MCFlatCurve == CurveOn(MCTwoSchedules, MCFlatDay)
MCWavyCurve == CurveOn(MCTwoSchedules, MCPhases)
MCFlatDayCurve == CurveOn(MCSchedules, MCFlatDay)
(* Handler goroutines are alike. *)
MCAlike     == Permutations(Requests)
MCChannels  == 0..3 \cup 10..11 \cup 20..21
MCHands     == {3}
MCFeed      == {[ch |-> 1, source |-> "feed"]}
MCBoth      == MCFeed \cup {[ch |-> 2, source |-> "maintenance"]}
AutoBody(s) == [sched |-> s, mode |-> "auto", manual |-> 0]
MCOneBody   == {AutoBody(1)}
MCTwoBodies == {AutoBody(1), AutoBody(2)}
MCManualBody == MCOneBody \cup {[sched |-> 1, mode |-> "manual", manual |-> 3]}
==============================================================================
