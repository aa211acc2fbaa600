------------------------- MODULE LampBridge_proofs -------------------------
(***************************************************************************)
(* Theorems about LampBridge, for every value of its constants:            *)
(*   TypeCorrect                 every variable keeps its type             *)
(*   OverrideMemoryCorrect       the memory of the previous tick is right  *)
(*   ForgetOnlyByFailureCorrect  a held override is not forgotten          *)
(*   OverrideShinesCorrect       an active override is what the lamp holds *)
(***************************************************************************)
EXTENDS LampBridge, TLAPS

-----------------------------------------------------------------------------
(* Types                                                                    *)

(* The assumption on the constants, as the proofs use it.                   *)
LEMMA ConstantFacts ==
    /\ Zero \in Channels /\ Blank \in Schedules
    /\ \A o \in Overrides : o.ch \in Channels /\ o.source \in Sources
    /\ None \notin Overrides
    /\ \A h \in Hands : h \in Channels
    /\ \A p \in Bodies : p \in Program
    /\ MaxRequests \in Nat /\ MaxFaults \in Nat /\ MaxRestarts \in Nat
  BY ConstantsAssumption

(* The idle locals of a goroutine have the type of its locals.              *)
LEMMA IdleTypes ==
    /\ EmptyProgram \in Program
    /\ IdleRequest \in RequestLocals
    /\ \A pc \in EnginePoints : At(pc) \in EngineLocals
    /\ IdleEngine \in EngineLocals
    /\ Booting \in EngineLocals
  <1>1. EmptyProgram \in Program
    BY ConstantsAssumption DEF EmptyProgram, Program, Modes
  <1>2. (CHOOSE p \in Phases : TRUE) \in Phases
    BY ConstantsAssumption
  <1>3. IdleEngine \in EngineLocals
    BY <1>1, <1>2, ConstantsAssumption DEF IdleEngine, EngineLocals, EnginePoints
  <1>4. \A pc \in EnginePoints : At(pc) \in EngineLocals
    BY <1>3 DEF At, EngineLocals
  <1>5. IdleRequest \in RequestLocals
    BY <1>1 DEF IdleRequest, RequestLocals, RequestPoints
  <1>6. Booting \in EngineLocals
    BY <1>3 DEF Booting, EngineLocals, EnginePoints
  <1> QED BY <1>1, <1>3, <1>4, <1>5, <1>6

(* What a lamp command leaves behind is a lamp.                             *)
LEMMA CommandTypes ==
    ASSUME NEW ok, NEW after \in LampStates, lamp \in LampStates,
           faults \in Nat, clockLost \in BOOLEAN, Command(ok, after)
    PROVE  /\ ok \in BOOLEAN /\ lamp' \in LampStates
           /\ faults' \in Nat /\ clockLost' \in BOOLEAN
  BY ConstantsAssumption DEF Command, faultVars

LEMMA PushTypes ==
    ASSUME NEW p \in Program
    PROVE  PushSchedule(p) \in LampStates
  BY DEF PushSchedule, Program, LampStates

LEMMA HandTypes ==
    ASSUME NEW ch \in Channels, NEW by \in Drivers, lamp \in LampStates
    PROVE  HandLuminance(ch, by) \in LampStates
  BY DEF HandLuminance, Holding, LampStates

(* Do keeps the link variables in their types.                              *)
LEMMA DoTypes ==
    ASSUME NEW ok, NEW after \in LampStates, lamp \in LampStates,
           faults \in Nat, clockLost \in BOOLEAN, consecFail \in BOOLEAN, reconnects \in Nat,
           Do(ok, after)
    PROVE  /\ ok \in BOOLEAN /\ lamp' \in LampStates /\ faults' \in Nat /\ clockLost' \in BOOLEAN
           /\ consecFail' \in BOOLEAN /\ reconnects' \in Nat
  <1>1. Command(ok, after)
    BY DEF Do
  <1> QED BY <1>1, CommandTypes DEF Do

(* A handler that moves on leaves the table of handlers well typed.         *)
LEMMA GotoTypes ==
    ASSUME NEW r \in Requests, NEW next \in RequestLocals,
           req \in [Requests -> RequestLocals], Goto(r, next)
    PROVE  req' \in [Requests -> RequestLocals]
  BY DEF Goto

(* The engine goroutine comes back to a well typed place.                   *)
LEMMA ReturnTypes ==
    ASSUME eng \in EngineLocals, Return
    PROVE  eng' \in EngineLocals
  <1>1. eng.ret \in EnginePoints
    BY DEF EngineLocals, EnginePoints
  <1> QED BY <1>1, IdleTypes DEF Return

(* The output that Config.Compute gives is an output.                       *)
LEMMA ComputedTypes ==
    ASSUME store \in Program, eng \in EngineLocals
    PROVE  Computed \in Channels
  BY ConstantsAssumption DEF Computed, Program, EngineLocals

THEOREM TypeCorrect == Spec => []TypeOK
  <1>1. Init => TypeOK
    <2> SUFFICES ASSUME Init PROVE TypeOK
      OBVIOUS
    <2>1. store \in Program
      BY IdleTypes, ConstantsAssumption DEF Init
    <2>2. lamp \in LampStates
      BY <2>1, ConstantsAssumption DEF Init, LampStates, Program
    <2> QED
      BY <2>1, <2>2, IdleTypes, ConstantsAssumption DEF Init, Booted, TypeOK
  <1>2. TypeOK /\ [Next]_vars => TypeOK'
    <2> SUFFICES ASSUME TypeOK, [Next]_vars PROVE TypeOK'
      OBVIOUS
    <2> USE DEF TypeOK, persistent, overrideVars, sentVars, channelVars, linkVars, bounds, faultVars
    <2>1. CASE Tick \/ TakeKick \/ TakeMaint \/ Daily
      <3>1. At("read") \in EngineLocals /\ At("sync") \in EngineLocals
        BY IdleTypes DEF EnginePoints
      <3> USE DEF Wake
      <3>2. CASE Tick
        BY <3>1, <3>2 DEF Tick
      <3>3. CASE TakeKick
        BY <3>1, <3>3 DEF TakeKick
      <3>4. CASE TakeMaint
        BY <3>1, <3>4 DEF TakeMaint
      <3>5. CASE Daily
        BY <3>1, <3>5 DEF Daily
      <3> QED BY <2>1, <3>2, <3>3, <3>4, <3>5
    <2>2. ASSUME NEW ok \in BOOLEAN, EngineSync(ok) PROVE TypeOK'
      <3>1. [lamp EXCEPT !.clock = TRUE] \in LampStates
        BY DEF LampStates
      <3>2. eng' \in EngineLocals
        BY <2>2, ReturnTypes DEF EngineSync, EngineLocals, EnginePoints
      <3>3. Do(ok, [lamp EXCEPT !.clock = TRUE])
        BY <2>2 DEF EngineSync
      <3>4. /\ lamp' \in LampStates /\ faults' \in Nat /\ clockLost' \in BOOLEAN
            /\ consecFail' \in BOOLEAN /\ reconnects' \in Nat
        BY <3>1, <3>3, DoTypes
      <3> QED BY <2>2, <3>2, <3>4 DEF EngineSync
    <2>3. CASE EngineDriftSnap
      <3>1. eng' \in EngineLocals
        BY <2>3, ReturnTypes DEF EngineDriftSnap, EngineLocals, EnginePoints
      <3> QED BY <2>3, <3>1 DEF EngineDriftSnap
    <2>4. ASSUME NEW ok \in BOOLEAN, EngineDriftRead(ok) PROVE TypeOK'
      <3>1. eng' \in EngineLocals
        BY <2>4, ReturnTypes DEF EngineDriftRead, EngineLocals, EnginePoints
      <3> QED BY <2>4, <3>1, DoTypes DEF EngineDriftRead
    <2>5. CASE EngineRearmSnap
      <3>1. eng' \in EngineLocals
        BY <2>5 DEF EngineRearmSnap, EngineLocals, EnginePoints
      <3> QED BY <2>5, <3>1 DEF EngineRearmSnap
    <2>6. ASSUME NEW ok \in BOOLEAN, EngineRearmPush(ok) PROVE TypeOK'
      <3>1. PushSchedule(eng.snap) \in LampStates
        BY PushTypes DEF EngineLocals
      <3> QED BY <2>6, <3>1, ReturnTypes, CommandTypes DEF EngineRearmPush
    <2>7. CASE EngineRead
      <3>1. At("compute") \in EngineLocals
        BY IdleTypes DEF EnginePoints
      <3>2. eng' \in EngineLocals
        BY <2>7, <3>1 DEF EngineRead, EngineLocals
      <3> QED BY <2>7, <3>2 DEF EngineRead
    <2>8. CASE EngineCompute
      <3>1. eng' \in EngineLocals
        <4>1. eng.ov # None => eng.ov.ch \in Channels
          BY ConstantFacts DEF EngineLocals
        <4>2. eng' = [eng EXCEPT !.pc = "decide",
                      !.out = IF eng.ov # None THEN eng.ov.ch ELSE Computed]
          BY <2>8 DEF EngineCompute
        <4> QED BY <4>1, <4>2, ComputedTypes DEF EngineLocals, EnginePoints
      <3> QED BY <2>8, <3>1 DEF EngineCompute
    <2>9. CASE EngineDecide
      <3>1. eng' \in EngineLocals
        BY <2>9, IdleTypes DEF EngineDecide, EngineLocals, EnginePoints
      <3>2. haveSent' \in BOOLEAN /\ lastWriteOK' \in BOOLEAN
        BY <2>9 DEF EngineDecide
      <3>3. UNCHANGED <<persistent, live, overrideVars, overrideWas, lastSent,
                        channelVars, linkVars, req, lamp, phase, bounds>>
        BY <2>9 DEF EngineDecide
      <3> QED BY <3>1, <3>2, <3>3
    <2>10. ASSUME NEW ok \in BOOLEAN, EngineHand(ok) PROVE TypeOK'
      <3>1. HandLuminance(eng.out, Driver) \in LampStates
        BY HandTypes DEF Driver, Drivers, EngineLocals
      <3>2. eng' \in EngineLocals
        BY <2>10 DEF EngineHand, EngineLocals, EnginePoints
      <3>3. Do(ok, HandLuminance(eng.out, Driver))
        BY <2>10 DEF EngineHand
      <3>4. /\ lamp' \in LampStates /\ faults' \in Nat /\ clockLost' \in BOOLEAN
            /\ consecFail' \in BOOLEAN /\ reconnects' \in Nat
        BY <3>1, <3>3, DoTypes
      <3> QED BY <2>10, <3>2, <3>4 DEF EngineHand
    <2>11. CASE EngineRecord
      BY <2>11, IdleTypes DEF EngineRecord, EngineLocals
    <2>12. CASE Reconnect
      BY <2>12 DEF Reconnect
    <2>13. ASSUME NEW r \in Requests, NewRequest(r) PROVE TypeOK'
      <3> USE DEF Enter, Stay, Kick, Finish
      <3>1. ASSUME NEW op \in {"start", "stop"}, RampSet(r, op) PROVE TypeOK'
        <4>1. [IdleRequest EXCEPT !.pc = "rampRead", !.op = op] \in RequestLocals
          BY IdleTypes DEF RequestLocals, RequestPoints
        <4> QED BY <3>1, <4>1, GotoTypes DEF RampSet
      <3>2. CASE RampConfig(r)
        <4>1. [IdleRequest EXCEPT !.pc = "rampRead", !.op = "config"] \in RequestLocals
          BY IdleTypes DEF RequestLocals, RequestPoints
        <4> QED BY <3>2, <4>1, GotoTypes DEF RampConfig
      <3>3. ASSUME NEW o \in Overrides, OverrideStart(r, o) PROVE TypeOK'
        <4>1. requests' \in Nat
          BY <3>3 DEF OverrideStart
        <4> QED BY <3>3, <4>1 DEF OverrideStart
      <3>4. ASSUME NEW s \in Sources, OverrideStop(r, s) PROVE TypeOK'
        <4>1. [IdleRequest EXCEPT !.pc = "clear"] \in RequestLocals
          BY IdleTypes DEF RequestLocals, RequestPoints
        <4> QED BY <3>4, <4>1, GotoTypes DEF OverrideStop
      <3>5. ASSUME NEW p \in Bodies, NEW ok \in BOOLEAN, Push(r, p, ok) PROVE TypeOK'
        <4>1. p \in Program
          BY ConstantFacts
        <4>2. [IdleRequest EXCEPT !.pc = "pushSave", !.snap = p] \in RequestLocals
          BY <4>1, IdleTypes DEF RequestLocals, RequestPoints
        <4>3. lamp' \in LampStates /\ faults' \in Nat /\ clockLost' \in BOOLEAN
          BY <3>5, <4>1, PushTypes, CommandTypes DEF Push
        <4>4. req' \in [Requests -> RequestLocals]
          BY <3>5, <4>2, GotoTypes DEF Push
        <4>5. requests' \in Nat
          BY <3>5 DEF Push
        <4>6. tickNow' \in BOOLEAN /\ maintNow' \in BOOLEAN
          BY <3>5 DEF Push
        <4>7. UNCHANGED <<persistent, live, overrideVars, overrideWas, sentVars,
                          eng, linkVars, phase, restarts>>
          BY <3>5 DEF Push
        <4> QED BY <4>3, <4>4, <4>5, <4>6, <4>7
      <3>6. ASSUME NEW h \in Hands, NEW ok \in BOOLEAN, Hand(r, h, ok) PROVE TypeOK'
        <4>1. h \in Channels /\ "user" \in Drivers
          BY ConstantFacts DEF Drivers
        <4>2. [pc |-> "handSave", op |-> "start", on |-> FALSE,
               snap |-> [EmptyProgram EXCEPT !.manual = h]] \in RequestLocals
          BY <4>1, IdleTypes DEF RequestLocals, RequestPoints, Program
        <4>3. lamp' \in LampStates /\ faults' \in Nat /\ clockLost' \in BOOLEAN
          BY <3>6, <4>1, HandTypes, CommandTypes DEF Hand
        <4>4. req' \in [Requests -> RequestLocals]
          BY <3>6, <4>2, GotoTypes DEF Hand
        <4> QED BY <3>6, <4>3, <4>4 DEF Hand
      <3>7. ASSUME NEW h \in Hands, NEW ok \in BOOLEAN, Preview(r, h, ok) PROVE TypeOK'
        <4>1. h \in Channels /\ "user" \in Drivers
          BY ConstantFacts DEF Drivers
        <4> QED BY <3>7, <4>1, HandTypes, CommandTypes DEF Preview
      <3>8. ASSUME NEW ok \in BOOLEAN, LampRead(r, ok) PROVE TypeOK'
        <4>1. [IdleRequest EXCEPT !.pc = "readSave",
                 !.snap = [sched |-> lamp.sched, mode |-> lamp.mode,
                           manual |-> lamp.manual]] \in RequestLocals
          BY IdleTypes DEF RequestLocals, RequestPoints, Program, LampStates
        <4>2. req' \in [Requests -> RequestLocals]
          BY <3>8, <4>1, GotoTypes DEF LampRead
        <4> QED BY <3>8, <4>2, CommandTypes DEF LampRead
      <3>9. ASSUME NEW p \in Bodies \cup {EmptyProgram}, NEW stamp \in BOOLEAN,
                   Restore(r, p, stamp)
            PROVE  TypeOK'
        BY <3>9, IdleTypes, ConstantFacts DEF Restore
      <3>10. CASE KickOnly(r)
        BY <3>10 DEF KickOnly
      <3> QED BY <2>13, <3>1, <3>2, <3>3, <3>4, <3>5, <3>6, <3>7, <3>8, <3>9, <3>10
              DEF NewRequest
    <2>14. ASSUME NEW r \in Requests, RequestStep(r) PROVE TypeOK'
      <3> USE DEF Kick, Finish
      <3>0. req[r] \in RequestLocals
        OBVIOUS
      <3>1. CASE RampRead(r)
        <4>1. [req[r] EXCEPT !.pc = "rampApply", !.on = fxRamp] \in RequestLocals
          BY <3>0 DEF RequestLocals, RequestPoints
        <4> QED BY <3>1, <4>1, GotoTypes DEF RampRead
      <3>2. CASE RampApply(r)
        <4>1. [IdleRequest EXCEPT !.pc = "republishSnap"] \in RequestLocals
          BY IdleTypes DEF RequestLocals, RequestPoints
        <4>2. req' \in [Requests -> RequestLocals]
          BY <3>2, <4>1, IdleTypes, GotoTypes DEF RampApply
        <4>3. live' \in BOOLEAN /\ haveSent' \in BOOLEAN /\ tickNow' \in BOOLEAN
          BY <3>2, <3>0 DEF RampApply, RequestLocals
        <4> QED BY <3>2, <4>2, <4>3 DEF RampApply
      <3>3. CASE RepublishSnap(r)
        <4>1. [IdleRequest EXCEPT !.pc = "republishPush", !.snap = store] \in RequestLocals
          BY IdleTypes DEF RequestLocals, RequestPoints
        <4> QED BY <3>3, <4>1, GotoTypes DEF RepublishSnap
      <3>4. ASSUME NEW ok \in BOOLEAN, RepublishPush(r, ok) PROVE TypeOK'
        <4>1. PushSchedule(req[r].snap) \in LampStates
          BY <3>0, PushTypes DEF RequestLocals
        <4> QED BY <3>4, <4>1, IdleTypes, GotoTypes, CommandTypes DEF RepublishPush
      <3>5. CASE OverrideClear(r)
        BY <3>5, IdleTypes, GotoTypes DEF OverrideClear
      <3>6. CASE PushSave(r)
        BY <3>0, <3>6, IdleTypes, GotoTypes DEF PushSave, RequestLocals
      <3>7. CASE HandSave(r)
        <4>1. store' \in Program
          BY <3>0, <3>7 DEF HandSave, RequestLocals, Program, Modes
        <4> QED BY <3>7, <4>1, IdleTypes, GotoTypes DEF HandSave
      <3>8. CASE ReadSave(r)
        <4>1. store' \in Program
          BY <3>0, <3>8 DEF ReadSave, RequestLocals, Program
        <4> QED BY <3>8, <4>1, IdleTypes, GotoTypes DEF ReadSave
      <3> QED BY <2>14, <3>1, <3>2, <3>3, <3>4, <3>5, <3>6, <3>7, <3>8
              DEF RequestStep
    <2>15. CASE Clock
      BY <2>15 DEF Clock
    <2>16. CASE Expire
      BY <2>16 DEF Expire
    <2>17. CASE PowerCycle
      <3>1. lamp' = [lamp EXCEPT !.hold = None, !.clock = FALSE]
        BY <2>17 DEF PowerCycle
      <3>2. lamp' \in LampStates
        BY <3>1 DEF LampStates
      <3>3. faults' \in Nat /\ clockLost' \in BOOLEAN
        BY <2>17 DEF PowerCycle
      <3> QED BY <2>17, <3>2, <3>3 DEF PowerCycle
    <2>18. CASE Drift
      <3>1. PICK s \in Schedules : lamp' = [lamp EXCEPT !.sched = s, !.hold = None]
        BY <2>18 DEF Drift
      <3>2. lamp' \in LampStates
        BY <3>1 DEF LampStates
      <3>3. faults' \in Nat /\ clockLost' \in BOOLEAN
        BY <2>18 DEF Drift
      <3> QED BY <2>18, <3>2, <3>3 DEF Drift
    <2>19. CASE Restart
      <3>1. req' \in [Requests -> RequestLocals]
        BY <2>19, IdleTypes DEF Restart
      <3>2. restarts' \in Nat
        BY <2>19 DEF Restart
      <3>3. lastSent' \in Channels /\ eng' \in EngineLocals /\ reconnects' \in Nat
        BY <2>19, IdleTypes, ConstantFacts DEF Restart
      <3> QED BY <2>19, <3>1, <3>2, <3>3 DEF Restart
    <2>20. CASE UNCHANGED vars
      BY <2>20 DEF vars
    <2> QED
      BY <2>1, <2>2, <2>3, <2>4, <2>5, <2>6, <2>7, <2>8, <2>9, <2>10, <2>11,
         <2>12, <2>13, <2>14, <2>15, <2>16, <2>17, <2>18, <2>19, <2>20
      DEF Next, EngineStep
  <1> QED BY <1>1, <1>2, PTL DEF Spec

-----------------------------------------------------------------------------
(* The memory of an override                                                *)

(* At(point) is a goroutine at that point with nothing in its hands.        *)
LEMMA AtPoint ==
    /\ \A pc \in EnginePoints :
          At(pc).pc = pc /\ At(pc).ov = None /\ At(pc).ret = "select"
    /\ IdleEngine.pc = "select" /\ Booting.pc = "sync"
  BY DEF At, IdleEngine, Booting

(* Engine.step's memory of the previous tick is what it thinks it is.       *)
THEOREM OverrideMemoryCorrect == Spec => []OverrideMemory
  <1>1. Init => OverrideMemory
    BY AtPoint DEF Init, Booted, OverrideMemory
  <1>2. TypeOK /\ OverrideMemory /\ [Next]_vars => OverrideMemory'
    <2> SUFFICES ASSUME TypeOK, OverrideMemory, [Next]_vars PROVE OverrideMemory'
      OBVIOUS
    <2>0. eng \in EngineLocals
      BY DEF TypeOK
    <2>a. ASSUME UNCHANGED <<eng, overrideWas>> PROVE OverrideMemory'
      BY <2>a DEF OverrideMemory
    <2>b. ASSUME eng'.pc \notin {"compute", "decide", "hand", "record"}
          PROVE  OverrideMemory'
      BY <2>b DEF OverrideMemory
    <2>c. ASSUME Return PROVE OverrideMemory'
      <3>1. eng.ret \in {"select", "read"}
        BY <2>0 DEF EngineLocals
      <3>2. eng'.pc \in {"select", "read"}
        BY <2>c, <3>1, AtPoint DEF Return, EnginePoints
      <3> QED BY <2>b, <3>2
    <2>1. CASE Tick \/ TakeKick \/ TakeMaint \/ Daily
      <3>1. eng' = At("read") \/ eng' = At("sync")
        BY <2>1 DEF Tick, TakeKick, TakeMaint, Daily, Wake
      <3> QED BY <2>b, <3>1, AtPoint DEF EnginePoints
    <2>2. ASSUME NEW ok \in BOOLEAN, EngineSync(ok) PROVE OverrideMemory'
      <3>1. eng' = [eng EXCEPT !.pc = "driftSnap"] \/ Return
        BY <2>2 DEF EngineSync
      <3>2. eng' = [eng EXCEPT !.pc = "driftSnap"] => eng'.pc = "driftSnap"
        BY <2>0 DEF EngineLocals
      <3> QED BY <2>b, <2>c, <3>1, <3>2
    <2>3. CASE EngineDriftSnap
      <3>1. eng' = [eng EXCEPT !.pc = "driftRead", !.snap = store] \/ Return
        BY <2>3 DEF EngineDriftSnap
      <3>2. eng' = [eng EXCEPT !.pc = "driftRead", !.snap = store]
            => eng'.pc = "driftRead"
        BY <2>0 DEF EngineLocals
      <3> QED BY <2>b, <2>c, <3>1, <3>2
    <2>4. ASSUME NEW ok \in BOOLEAN, EngineDriftRead(ok) PROVE OverrideMemory'
      <3>1. eng' = [eng EXCEPT !.pc = "rearmSnap"] \/ Return
        BY <2>4 DEF EngineDriftRead
      <3>2. eng' = [eng EXCEPT !.pc = "rearmSnap"] => eng'.pc = "rearmSnap"
        BY <2>0 DEF EngineLocals
      <3> QED BY <2>b, <2>c, <3>1, <3>2
    <2>5. CASE EngineRearmSnap
      <3>1. eng'.pc = "rearmPush"
        BY <2>0, <2>5 DEF EngineRearmSnap, EngineLocals
      <3> QED BY <2>b, <3>1
    <2>6. ASSUME NEW ok \in BOOLEAN, EngineRearmPush(ok) PROVE OverrideMemory'
      BY <2>c, <2>6 DEF EngineRearmPush
    <2>7. CASE EngineRead
      <3>1. At("compute") \in EngineLocals /\ At("compute").pc = "compute"
        BY IdleTypes, AtPoint DEF EnginePoints
      <3>2. eng'.pc = "compute" /\ eng'.was = overrideWas /\ UNCHANGED overrideWas
        BY <2>7, <3>1 DEF EngineRead, EngineLocals
      <3> QED BY <3>2 DEF OverrideMemory
    <2>8. CASE EngineCompute
      <3>1. eng'.pc = "decide" /\ eng'.ov = eng.ov /\ overrideWas' = (eng.ov # None)
        BY <2>0, <2>8 DEF EngineCompute, EngineLocals
      <3> QED BY <3>1 DEF OverrideMemory
    <2>9. CASE EngineDecide
      <3>1. \/ eng' = At("rearmSnap") \/ eng' = IdleEngine
            \/ eng' = [eng EXCEPT !.pc = "hand"]
        BY <2>9 DEF EngineDecide
      <3>2. CASE eng' = At("rearmSnap") \/ eng' = IdleEngine
        BY <2>b, <3>2, AtPoint DEF EnginePoints
      <3>3. CASE eng' = [eng EXCEPT !.pc = "hand"]
        <4>1. eng'.pc = "hand" /\ eng'.ov = eng.ov
          BY <2>0, <3>3 DEF EngineLocals
        <4>2. eng.pc = "decide" /\ UNCHANGED overrideWas
          BY <2>9 DEF EngineDecide
        <4> QED BY <4>1, <4>2 DEF OverrideMemory
      <3> QED BY <3>1, <3>2, <3>3
    <2>10. ASSUME NEW ok \in BOOLEAN, EngineHand(ok) PROVE OverrideMemory'
      <3>1. eng'.pc = "record" /\ eng'.ov = eng.ov
        BY <2>0, <2>10 DEF EngineHand, EngineLocals
      <3>2. eng.pc = "hand" /\ UNCHANGED overrideWas
        BY <2>10 DEF EngineHand
      <3> QED BY <3>1, <3>2 DEF OverrideMemory
    <2>11. CASE EngineRecord
      BY <2>b, <2>11, AtPoint DEF EngineRecord
    <2>12. CASE Reconnect
      BY <2>a, <2>12 DEF Reconnect
    <2>13. ASSUME NEW r \in Requests, NewRequest(r) PROVE OverrideMemory'
      <3>1. UNCHANGED <<eng, overrideWas>>
        BY <2>13 DEF NewRequest, RampSet, RampConfig, OverrideStart, OverrideStop,
                     Push, Hand, Preview, LampRead, Restore, KickOnly
      <3> QED BY <2>a, <3>1
    <2>14. ASSUME NEW r \in Requests, RequestStep(r) PROVE OverrideMemory'
      <3>1. UNCHANGED <<eng, overrideWas>>
        BY <2>14 DEF RequestStep, RampRead, RampApply, RepublishSnap, RepublishPush,
                     OverrideClear, PushSave, HandSave, ReadSave
      <3> QED BY <2>a, <3>1
    <2>15. CASE Clock \/ Expire \/ PowerCycle \/ Drift
      BY <2>a, <2>15 DEF Clock, Expire, PowerCycle, Drift
    <2>16. CASE Restart
      BY <2>b, <2>16, AtPoint DEF Restart
    <2>17. CASE UNCHANGED vars
      BY <2>a, <2>17 DEF vars
    <2> QED
      BY <2>1, <2>2, <2>3, <2>4, <2>5, <2>6, <2>7, <2>8, <2>9, <2>10, <2>11,
         <2>12, <2>13, <2>14, <2>15, <2>16, <2>17
      DEF Next, EngineStep
  <1> QED BY <1>1, <1>2, TypeCorrect, PTL DEF Spec

(* A lamp command that did not cost a fault was carried out.                *)
LEMMA CommandDone ==
    ASSUME NEW ok, NEW after, Command(ok, after), faults \in Nat, faults' = faults
    PROVE  ok = TRUE /\ lamp' = after
  BY DEF Command, faultVars

LEMMA DoDone ==
    ASSUME NEW ok, NEW after, Do(ok, after), faults \in Nat, faults' = faults
    PROVE  ok = TRUE /\ lamp' = after
  BY CommandDone DEF Do

(* A program makes the lamp let go of whatever it held.                     *)
LEMMA PushLetsGo ==
    ASSUME NEW p, lamp' = PushSchedule(p)
    PROVE  OverrideRemembered'
  BY DEF PushSchedule, OverrideRemembered, Held

(* Somebody owes the lamp a command as long as the engine and the handlers  *)
(* that owe it stay where they are.                                         *)
LEMMA OwedStays ==
    ASSUME TypeOK, UNCHANGED eng, RearmOwed,
           \A r \in Requests :
              req[r].pc \in {"republishSnap", "republishPush"} =>
              req'[r].pc \in {"republishSnap", "republishPush"}
    PROVE  RearmOwed'
  BY DEF RearmOwed, JustEnded

LEMMA RememberedStays ==
    ASSUME OverrideRemembered, lamp'.hold = lamp.hold, overrideWas' = overrideWas,
           live' = live, RearmOwed => RearmOwed'
    PROVE  OverrideRemembered'
  BY DEF OverrideRemembered, Held

(* A handler that owes nothing owes nothing more or less when it moves on.  *)
LEMMA OthersStay ==
    ASSUME TypeOK, NEW r \in Requests, NEW next \in RequestLocals, Goto(r, next),
           req[r].pc \notin {"republishSnap", "republishPush"}
    PROVE  \A q \in Requests :
              req[q].pc \in {"republishSnap", "republishPush"} =>
              req'[q].pc \in {"republishSnap", "republishPush"}
  BY DEF TypeOK, Goto

LEMMA RememberedStep ==
    ASSUME TypeOK, OverrideMemory, Next, OverrideRemembered,
           faults' = faults, restarts' = restarts, ~StaleCadence
    PROVE  OverrideRemembered'
  <1> USE DEF persistent, overrideVars, sentVars, channelVars, linkVars, bounds, faultVars
  <1>0. /\ eng \in EngineLocals /\ lamp \in LampStates /\ faults \in Nat
        /\ restarts \in Nat /\ req \in [Requests -> RequestLocals]
        /\ live \in BOOLEAN /\ overrideWas \in BOOLEAN
    BY DEF TypeOK
  (* An engine step from where nothing is owed. *)
  <1>a. ASSUME UNCHANGED <<live, overrideWas, req>>, lamp'.hold = lamp.hold,
               eng.pc \notin {"rearmSnap", "rearmPush", "hand", "decide"}
        PROVE  OverrideRemembered'
    BY <1>a, RememberedStays DEF RearmOwed
  (* A step of a handler or of the environment that leaves the lamp alone. *)
  <1>b. ASSUME UNCHANGED <<live, overrideWas, eng, req>>, lamp'.hold = lamp.hold
        PROVE  OverrideRemembered'
    BY <1>b, RememberedStays, OwedStays
  <1>c. ASSUME NEW r \in Requests, NEW next \in RequestLocals,
               UNCHANGED <<live, overrideWas, eng>>, lamp'.hold = lamp.hold,
               Goto(r, next), req[r].pc \notin {"republishSnap", "republishPush"}
        PROVE  OverrideRemembered'
    BY <1>c, RememberedStays, OthersStay, OwedStays
  <1>1. CASE Tick \/ TakeKick \/ TakeMaint \/ Daily
    BY <1>a, <1>1 DEF Tick, TakeKick, TakeMaint, Daily, Wake
  <1>2. ASSUME NEW ok \in BOOLEAN, EngineSync(ok) PROVE OverrideRemembered'
    <2>1. lamp' = [lamp EXCEPT !.clock = TRUE]
      BY <1>0, <1>2, DoDone DEF EngineSync
    <2>2. lamp'.hold = lamp.hold
      BY <1>0, <2>1 DEF LampStates
    <2> QED BY <1>a, <1>2, <2>2 DEF EngineSync
  <1>3. CASE EngineDriftSnap
    BY <1>a, <1>3 DEF EngineDriftSnap
  <1>4. ASSUME NEW ok \in BOOLEAN, EngineDriftRead(ok) PROVE OverrideRemembered'
    <2>1. lamp' = lamp
      BY <1>0, <1>4, DoDone DEF EngineDriftRead
    <2> QED BY <1>a, <1>4, <2>1 DEF EngineDriftRead
  <1>5. CASE EngineRearmSnap
    <2>1. eng'.pc = "rearmPush"
      BY <1>0, <1>5 DEF EngineRearmSnap, EngineLocals
    <2> QED BY <2>1 DEF OverrideRemembered, RearmOwed
  <1>6. ASSUME NEW ok \in BOOLEAN, EngineRearmPush(ok) PROVE OverrideRemembered'
    BY <1>0, <1>6, CommandDone, PushLetsGo DEF EngineRearmPush
  <1>7. CASE EngineRead
    BY <1>a, <1>7 DEF EngineRead
  (* The tick after the last of an override goes on to decide on a re-arm.  *)
  <1>8. CASE EngineCompute
    <2>1. /\ eng.pc = "compute" /\ eng'.pc = "decide" /\ eng'.ov = eng.ov
          /\ eng'.was = eng.was /\ overrideWas' = (eng.ov # None)
          /\ UNCHANGED <<live, lamp, req>>
      BY <1>0, <1>8 DEF EngineCompute, EngineLocals
    <2>2. eng.was = overrideWas
      BY <2>1 DEF OverrideMemory
    <2>3. CASE eng.ov # None
      BY <2>1, <2>3 DEF OverrideRemembered
    <2>4. CASE eng.ov = None /\ overrideWas
      BY <2>1, <2>2, <2>4 DEF OverrideRemembered, RearmOwed, JustEnded
    <2>5. CASE eng.ov = None /\ ~overrideWas
      <3>1. RearmOwed => RearmOwed'
        BY <2>1 DEF RearmOwed
      <3> QED BY <2>1, <2>5, <3>1 DEF OverrideRemembered, Held
    <2> QED BY <2>3, <2>4, <2>5
  (* The decision owes the lamp a re-arm or a hand command from here on.    *)
  <1>9. CASE EngineDecide
    <2>1. eng.pc = "decide" /\ UNCHANGED <<live, overrideWas, lamp, req>>
      BY <1>9 DEF EngineDecide
    <2>2. CASE JustEnded
      <3>1. \/ eng' = At("rearmSnap") \/ eng' = [eng EXCEPT !.pc = "hand"]
        BY <1>9, <2>2 DEF EngineDecide, Changed
      <3>2. At("rearmSnap").pc = "rearmSnap"
        BY AtPoint DEF EnginePoints
      <3>3. eng' = [eng EXCEPT !.pc = "hand"] => eng'.pc = "hand"
        BY <1>0 DEF EngineLocals
      <3> QED BY <3>1, <3>2, <3>3 DEF OverrideRemembered, RearmOwed
    <2>3. CASE ~JustEnded
      <3>1. RearmOwed => RearmOwed'
        BY <2>1, <2>3 DEF RearmOwed
      <3> QED BY <2>1, <3>1, RememberedStays
    <2> QED BY <2>2, <2>3
  (* The lamp holds an override only if the tick remembers having driven it. *)
  <1>10. ASSUME NEW ok \in BOOLEAN, EngineHand(ok) PROVE OverrideRemembered'
    <2>1. eng.pc = "hand" /\ UNCHANGED overrideWas
      BY <1>10 DEF EngineHand
    <2>2. overrideWas = (eng.ov # None)
      BY <2>1 DEF OverrideMemory
    <2>3. lamp' = HandLuminance(eng.out, Driver)
      BY <1>0, <1>10, DoDone DEF EngineHand
    <2>4. lamp'.hold.by = Driver
      BY <1>0, <2>3 DEF HandLuminance, Holding, LampStates
    <2>5. Driver = "override" => eng.ov # None
      BY DEF Driver
    <2> QED BY <2>1, <2>2, <2>4, <2>5 DEF OverrideRemembered, Held
  <1>11. CASE EngineRecord
    BY <1>a, <1>11 DEF EngineRecord
  <1>12. CASE Reconnect
    BY <1>b, <1>12 DEF Reconnect
  <1>13. ASSUME NEW r \in Requests, NewRequest(r) PROVE OverrideRemembered'
    <2> USE DEF Enter, Stay, Kick, Finish
    <2>1. ASSUME NEW op \in {"start", "stop"}, RampSet(r, op) PROVE OverrideRemembered'
      <3>1. [IdleRequest EXCEPT !.pc = "rampRead", !.op = op] \in RequestLocals
        BY IdleTypes DEF RequestLocals, RequestPoints
      <3> QED BY <1>c, <2>1, <3>1 DEF RampSet
    <2>2. CASE RampConfig(r)
      <3>1. [IdleRequest EXCEPT !.pc = "rampRead", !.op = "config"] \in RequestLocals
        BY IdleTypes DEF RequestLocals, RequestPoints
      <3> QED BY <1>c, <2>2, <3>1 DEF RampConfig
    <2>3. ASSUME NEW o \in Overrides, OverrideStart(r, o) PROVE OverrideRemembered'
      BY <1>b, <2>3 DEF OverrideStart
    <2>4. ASSUME NEW s \in Sources, OverrideStop(r, s) PROVE OverrideRemembered'
      <3>1. [IdleRequest EXCEPT !.pc = "clear"] \in RequestLocals
        BY IdleTypes DEF RequestLocals, RequestPoints
      <3> QED BY <1>b, <1>c, <2>4, <3>1 DEF OverrideStop
    <2>5. ASSUME NEW p \in Bodies, NEW ok \in BOOLEAN, Push(r, p, ok)
          PROVE  OverrideRemembered'
      BY <1>0, <2>5, CommandDone, PushLetsGo DEF Push
    <2>6. ASSUME NEW h \in Hands, NEW ok \in BOOLEAN,
                 Hand(r, h, ok) \/ Preview(r, h, ok)
          PROVE  OverrideRemembered'
      <3>1. lamp' = HandLuminance(h, "user")
        BY <1>0, <2>6, CommandDone DEF Hand, Preview
      <3>2. lamp'.hold.by = "user"
        BY <1>0, <3>1 DEF HandLuminance, Holding, LampStates
      <3> QED BY <3>2 DEF OverrideRemembered, Held
    <2>7. ASSUME NEW ok \in BOOLEAN, LampRead(r, ok) PROVE OverrideRemembered'
      <3>1. [IdleRequest EXCEPT !.pc = "readSave",
               !.snap = [sched |-> lamp.sched, mode |-> lamp.mode,
                         manual |-> lamp.manual]] \in RequestLocals
        BY <1>0, IdleTypes DEF RequestLocals, RequestPoints, Program, LampStates
      <3>2. lamp' = lamp /\ ok = TRUE
        BY <1>0, <2>7, CommandDone DEF LampRead
      <3> QED BY <1>c, <2>7, <3>1, <3>2 DEF LampRead
    <2>8. ASSUME NEW p \in Bodies \cup {EmptyProgram}, NEW stamp \in BOOLEAN,
                 Restore(r, p, stamp)
          PROVE  OverrideRemembered'
      BY <1>b, <2>8 DEF Restore
    <2>9. CASE KickOnly(r)
      BY <1>b, <2>9 DEF KickOnly
    <2> QED BY <1>13, <2>1, <2>2, <2>3, <2>4, <2>5, <2>6, <2>7, <2>8, <2>9
            DEF NewRequest
  <1>14. ASSUME NEW r \in Requests, RequestStep(r) PROVE OverrideRemembered'
    <2> USE DEF Kick, Finish
    <2>0. req[r] \in RequestLocals /\ IdleRequest \in RequestLocals
      BY <1>0, IdleTypes
    <2>1. CASE RampRead(r)
      <3>1. [req[r] EXCEPT !.pc = "rampApply", !.on = fxRamp] \in RequestLocals
        BY <2>0 DEF RequestLocals, RequestPoints, TypeOK
      <3> QED BY <1>c, <2>1, <3>1 DEF RampRead
    (* Going dormant: rampStop owes a Republish, and nobody else does it.   *)
    <2>2. CASE RampApply(r)
      <3>1. /\ UNCHANGED <<overrideWas, eng, lamp>> /\ live' = req[r].on
            /\ req[r].pc = "rampApply"
        BY <2>2 DEF RampApply
      <3>2. CASE live'
        BY <3>2 DEF OverrideRemembered
      <3>3. CASE ~live' /\ req[r].op = "stop"
        <4>1. req'[r] = [IdleRequest EXCEPT !.pc = "republishSnap"]
          BY <1>0, <2>2, <3>3 DEF RampApply, Goto
        <4>2. req'[r].pc = "republishSnap"
          BY <2>0, <4>1 DEF RequestLocals
        <4> QED BY <4>2 DEF OverrideRemembered, RearmOwed
      <3>4. CASE ~live' /\ req[r].op # "stop"
        BY <3>1, <3>4 DEF StaleCadence
      <3> QED BY <3>2, <3>3, <3>4
    <2>3. CASE RepublishSnap(r)
      <3>1. req'[r] = [IdleRequest EXCEPT !.pc = "republishPush", !.snap = store]
        BY <1>0, <2>3 DEF RepublishSnap, Goto
      <3>2. req'[r].pc = "republishPush"
        BY <2>0, <3>1 DEF RequestLocals
      <3> QED BY <3>2 DEF OverrideRemembered, RearmOwed
    <2>4. ASSUME NEW ok \in BOOLEAN, RepublishPush(r, ok) PROVE OverrideRemembered'
      BY <1>0, <2>4, CommandDone, PushLetsGo DEF RepublishPush
    <2>5. CASE OverrideClear(r)
      BY <1>c, <2>0, <2>5 DEF OverrideClear
    <2>6. CASE PushSave(r)
      BY <1>c, <2>0, <2>6 DEF PushSave
    <2>7. CASE HandSave(r)
      BY <1>c, <2>0, <2>7 DEF HandSave
    <2>8. CASE ReadSave(r)
      BY <1>c, <2>0, <2>8 DEF ReadSave
    <2> QED BY <1>14, <2>1, <2>2, <2>3, <2>4, <2>5, <2>6, <2>7, <2>8 DEF RequestStep
  <1>15. CASE Clock \/ Expire
    BY <1>b, <1>15 DEF Clock, Expire
  <1>16. CASE PowerCycle \/ Drift \/ Restart
    <2>1. faults' = faults + 1 \/ restarts' = restarts + 1
      BY <1>16 DEF PowerCycle, Drift, Restart
    <2> QED BY <1>0, <2>1
  <1> QED
    BY <1>1, <1>2, <1>3, <1>4, <1>5, <1>6, <1>7, <1>8, <1>9, <1>10, <1>11,
       <1>12, <1>13, <1>14, <1>15, <1>16
    DEF Next, EngineStep

(* Only a failed command, a restart or a stale ramp handler makes the       *)
(* daemon forget that the lamp holds an override.                           *)
THEOREM ForgetOnlyByFailureCorrect == Spec => ForgetOnlyByFailure
  <1>1. TypeOK /\ OverrideMemory /\ [Next]_vars
        => [OverrideRemembered /\ ~OverrideRemembered' =>
              \/ faults' # faults
              \/ restarts' # restarts
              \/ StaleCadence]_vars
    BY RememberedStep
  <1> QED BY <1>1, TypeCorrect, OverrideMemoryCorrect, PTL
          DEF Spec, ForgetOnlyByFailure

-----------------------------------------------------------------------------
(* The light of an override                                                 *)

(* No lamp command fails, nobody changes the lamp behind the daemon's back, *)
(* and of the handlers that tell the lamp something only Feed and           *)
(* Maintenance run: the others replace what the lamp holds.                 *)
Undisturbed ==
    /\ MaxFaults = 0
    /\ Ops \subseteq {"override", "kick", "read", "rampConfig"}

(* Then no handler is on its way to the lamp or to the ramp switch, ...     *)
HandlersQuiet ==
    \A r \in Requests :
       /\ req[r].pc \in {"idle", "rampRead", "rampApply", "clear", "readSave"}
       /\ req[r].pc \in {"rampRead", "rampApply"} => req[r].op = "config"

(* ... the drift check of a program that was pushed finds nothing, ...      *)
NoDrift ==
    /\ eng.pc = "driftRead" => pushed
    /\ pushed => /\ store.sched = lamp.sched
                 /\ eng.pc \in {"driftRead", "rearmPush"} => eng.snap.sched = lamp.sched
                 /\ \A r \in Requests :
                      req[r].pc = "readSave" => req[r].snap.sched = lamp.sched

(* ... the lamp holds what the engine believes it has sent, ...             *)
Holds(ch) == lamp.hold # None /\ lamp.hold.ch = ch

SentIsHeld ==
    /\ eng.pc \in {"rearmSnap", "rearmPush"} => ~haveSent
    /\ eng.pc = "record" => eng.ok /\ Holds(eng.out)
    /\ haveSent /\ eng.pc # "record" => Holds(lastSent)

(* ... and an override that the engine was not told of since it looked is   *)
(* the one it has in its hands, or has sent.                                *)
Maintaining == eng.pc \in {"sync", "driftSnap", "driftRead"}

OverrideTaken ==
    /\ eng.pc \in {"decide", "hand", "record"} /\ eng.ov # None => eng.out = eng.ov.ch
    /\ OverrideActive /\ ~tickNow =>
         \/ eng.pc = "read" \/ (Maintaining /\ eng.ret = "read")
         \/ eng.pc \in {"compute", "decide", "hand", "record"} /\ eng.ov = override
         \/ /\ eng.pc = "select" \/ Maintaining
            /\ haveSent /\ lastSent = override.ch

ShineInv == faults = 0 /\ HandlersQuiet /\ NoDrift /\ SentIsHeld /\ OverrideTaken

(* Without faults every lamp command is carried out.                        *)
LEMMA NoFaultCommand ==
    ASSUME Undisturbed, faults = 0, NEW ok, NEW after, Command(ok, after)
    PROVE  ok = TRUE /\ lamp' = after /\ faults' = 0
  <1>1. ok /\ lamp' = after /\ UNCHANGED faultVars
    BY DEF Command, Undisturbed
  <1> QED BY <1>1 DEF Command, faultVars

LEMMA NoFaultDo ==
    ASSUME Undisturbed, faults = 0, NEW ok, NEW after, Do(ok, after)
    PROVE  ok = TRUE /\ lamp' = after /\ faults' = 0
  BY NoFaultCommand DEF Do

(* What is known of the engine and of the lamp does not change with what it *)
(* is not about.                                                            *)
LEMMA EngineAlone ==
    ASSUME HandlersQuiet, UNCHANGED req
    PROVE  HandlersQuiet'
  BY DEF HandlersQuiet

LEMMA SentStays ==
    ASSUME SentIsHeld, UNCHANGED <<eng, lamp, lastSent>>, haveSent' => haveSent
    PROVE  SentIsHeld'
  BY DEF SentIsHeld, Holds

LEMMA TakenStays ==
    ASSUME OverrideTaken, UNCHANGED <<eng, lastSent>>,
           OverrideActive' /\ ~tickNow' =>
              OverrideActive /\ ~tickNow /\ override' = override /\ haveSent' = haveSent
    PROVE  OverrideTaken'
  BY DEF OverrideTaken, Maintaining

(* A handler that goes on, or is done.                                      *)
LEMMA QuietMoves ==
    ASSUME HandlersQuiet, req \in [Requests -> RequestLocals],
           NEW r \in Requests, NEW next \in RequestLocals, Goto(r, next),
           next.pc \in {"idle", "rampRead", "rampApply", "clear", "readSave"},
           next.pc \in {"rampRead", "rampApply"} => next.op = "config"
    PROVE  HandlersQuiet'
  <1> SUFFICES ASSUME NEW q \in Requests
               PROVE  /\ req'[q].pc \in {"idle", "rampRead", "rampApply", "clear",
                                         "readSave"}
                      /\ req'[q].pc \in {"rampRead", "rampApply"} => req'[q].op = "config"
    BY DEF HandlersQuiet
  <1>1. req'[q] = IF q = r THEN next ELSE req[q]
    BY DEF Goto
  <1> QED BY <1>1 DEF HandlersQuiet

LEMMA DriftMoves ==
    ASSUME NoDrift, req \in [Requests -> RequestLocals],
           NEW r \in Requests, NEW next \in RequestLocals, Goto(r, next),
           UNCHANGED <<eng, lamp, store, pushed>>,
           pushed /\ next.pc = "readSave" => next.snap.sched = lamp.sched
    PROVE  NoDrift'
  <1>1. \A q \in Requests : req'[q] = IF q = r THEN next ELSE req[q]
    BY DEF Goto
  <1> QED BY <1>1 DEF NoDrift

(* An engine that does not come to read the lamp or to write a program.     *)
LEMMA DriftEngine ==
    ASSUME NoDrift, UNCHANGED <<req, store, pushed>>, lamp'.sched = lamp.sched,
           eng'.pc \notin {"driftRead", "rearmPush"}
    PROVE  NoDrift'
  BY DEF NoDrift

(* Where the engine goes after a maintenance pass or a re-arm.              *)
LEMMA Returned ==
    ASSUME eng \in EngineLocals, Return
    PROVE  /\ eng'.pc = eng.ret /\ eng'.ret = "select"
           /\ eng'.pc \in {"select", "read"} /\ eng'.ov = None
  <1>1. eng.ret \in {"select", "read"} /\ eng.ret \in EnginePoints
    BY DEF EngineLocals, EnginePoints
  <1> QED BY <1>1, AtPoint DEF Return

(* The engine in maintenance, going on or coming back, changes nothing that *)
(* matters to an override.                                                  *)
LEMMA MaintainingStays ==
    ASSUME ShineInv, eng \in EngineLocals, Maintaining,
           UNCHANGED <<override, expired, tickNow, haveSent, lastSent>>,
           lamp'.hold = lamp.hold,
           \/ eng'.pc \in {"driftSnap", "driftRead"} /\ eng'.ret = eng.ret
           \/ Return
    PROVE  SentIsHeld' /\ OverrideTaken'
  <1>1. eng.ret \in {"select", "read"}
    BY DEF EngineLocals
  <1>2. CASE eng'.pc \in {"driftSnap", "driftRead"} /\ eng'.ret = eng.ret
    BY <1>2 DEF ShineInv, Maintaining, SentIsHeld, Holds, OverrideTaken, OverrideActive
  <1>3. CASE Return
    <2>1. eng'.pc = eng.ret /\ eng'.pc \in {"select", "read"}
      BY <1>3, Returned
    <2> QED BY <2>1 DEF ShineInv, Maintaining, SentIsHeld, Holds, OverrideTaken,
                        OverrideActive
  <1> QED BY <1>2, <1>3

LEMMA ShineStep ==
    ASSUME Undisturbed, TypeOK, ShineInv, [Next]_vars
    PROVE  ShineInv'
  <1> USE DEF persistent, overrideVars, sentVars, channelVars, linkVars, bounds, faultVars
  <1>0. /\ eng \in EngineLocals /\ lamp \in LampStates /\ store \in Program
        /\ req \in [Requests -> RequestLocals] /\ faults = 0
        /\ HandlersQuiet /\ NoDrift /\ SentIsHeld /\ OverrideTaken
    BY DEF TypeOK, ShineInv
  (* What a handler does that only moves on.                                *)
  <1>a. ASSUME UNCHANGED <<eng, lamp, lastSent, store, pushed, faults, haveSent, req>>,
               OverrideActive' /\ ~tickNow' =>
                 OverrideActive /\ ~tickNow /\ override' = override
        PROVE  ShineInv'
    <2>1. NoDrift'
      BY <1>0, <1>a DEF NoDrift
    <2> QED BY <1>0, <1>a, <2>1, EngineAlone, SentStays, TakenStays DEF ShineInv
  <1>b. ASSUME NEW r \in Requests, NEW next \in RequestLocals, Goto(r, next),
               next.pc \in {"idle", "rampRead", "rampApply", "clear", "readSave"},
               next.pc \in {"rampRead", "rampApply"} => next.op = "config",
               pushed /\ next.pc = "readSave" => next.snap.sched = lamp.sched,
               UNCHANGED <<eng, lamp, lastSent, store, pushed, faults>>,
               haveSent' => haveSent,
               OverrideActive' /\ ~tickNow' =>
                 OverrideActive /\ ~tickNow /\ override' = override /\ haveSent' = haveSent
        PROVE  ShineInv'
    BY <1>0, <1>b, QuietMoves, DriftMoves, SentStays, TakenStays DEF ShineInv
  <1>1. CASE Tick \/ TakeKick \/ TakeMaint \/ Daily
    <2>1. /\ eng.pc = "select"
          /\ UNCHANGED <<req, lamp, store, pushed, faults, override, expired,
                         haveSent, lastSent>>
          /\ \/ eng'.pc = "read"
             \/ eng'.pc = "sync" /\ tickNow' = tickNow
      BY <1>1, AtPoint DEF Tick, TakeKick, TakeMaint, Daily, Wake, EnginePoints
    <2>2. NoDrift' /\ HandlersQuiet'
      BY <1>0, <2>1, DriftEngine, EngineAlone
    <2>3. SentIsHeld'
      BY <1>0, <2>1 DEF SentIsHeld, Holds
    <2>4. OverrideTaken'
      BY <1>0, <2>1 DEF OverrideTaken, OverrideActive, Maintaining
    <2> QED BY <1>0, <2>1, <2>2, <2>3, <2>4 DEF ShineInv
  <1>2. ASSUME NEW ok \in BOOLEAN, EngineSync(ok) PROVE ShineInv'
    <2>1. lamp' = [lamp EXCEPT !.clock = TRUE] /\ faults' = 0 /\ ok = TRUE
      BY <1>0, <1>2, NoFaultDo DEF EngineSync
    <2>2. lamp'.hold = lamp.hold /\ lamp'.sched = lamp.sched
      BY <1>0, <2>1 DEF LampStates
    <2>3. eng.pc = "sync" /\ eng'.pc = "driftSnap" /\ eng'.ret = eng.ret
      BY <1>0, <1>2, <2>1 DEF EngineSync, EngineLocals
    <2>4. UNCHANGED <<req, store, pushed, override, expired, tickNow, haveSent, lastSent>>
      BY <1>2 DEF EngineSync
    <2>5. SentIsHeld' /\ OverrideTaken'
      BY <1>0, <2>2, <2>3, <2>4, MaintainingStays DEF Maintaining
    <2>6. NoDrift' /\ HandlersQuiet'
      BY <1>0, <2>2, <2>3, <2>4, DriftEngine, EngineAlone
    <2> QED BY <2>1, <2>5, <2>6 DEF ShineInv
  <1>3. CASE EngineDriftSnap
    <2>1. /\ eng.pc = "driftSnap"
          /\ UNCHANGED <<req, store, pushed, override, expired, tickNow, haveSent,
                         lastSent, lamp, faults>>
      BY <1>3 DEF EngineDriftSnap
    <2>2. \/ pushed /\ eng'.pc = "driftRead" /\ eng'.ret = eng.ret /\ eng'.snap = store
          \/ Return
      BY <1>0, <1>3 DEF EngineDriftSnap, EngineLocals, WorthKeeping
    <2>3. SentIsHeld' /\ OverrideTaken'
      BY <1>0, <2>1, <2>2, MaintainingStays DEF Maintaining
    <2>4. NoDrift'
      <3>1. CASE pushed /\ eng'.pc = "driftRead" /\ eng'.snap = store
        BY <1>0, <2>1, <3>1 DEF NoDrift
      <3>2. CASE Return
        BY <1>0, <2>1, <3>2, Returned, DriftEngine
      <3> QED BY <2>2, <3>1, <3>2
    <2> QED BY <1>0, <2>1, <2>3, <2>4, EngineAlone DEF ShineInv
  <1>4. ASSUME NEW ok \in BOOLEAN, EngineDriftRead(ok) PROVE ShineInv'
    <2>1. lamp' = lamp /\ faults' = 0
      BY <1>0, <1>4, NoFaultDo DEF EngineDriftRead
    <2>2. /\ eng.pc = "driftRead"
          /\ UNCHANGED <<req, store, pushed, override, expired, tickNow, haveSent, lastSent>>
      BY <1>4 DEF EngineDriftRead
    <2>3. Return
      <3>1. lamp.sched = eng.snap.sched
        BY <1>0, <2>2 DEF NoDrift
      <3> QED BY <1>4, <3>1 DEF EngineDriftRead
    <2>4. SentIsHeld' /\ OverrideTaken'
      BY <1>0, <2>1, <2>2, <2>3, MaintainingStays DEF Maintaining
    <2>5. NoDrift' /\ HandlersQuiet'
      BY <1>0, <2>1, <2>2, <2>3, Returned, DriftEngine, EngineAlone
    <2> QED BY <2>1, <2>4, <2>5 DEF ShineInv
  (* The re-arm at the end of an override: a new one has kicked since.      *)
  <1>5. CASE EngineRearmSnap
    <2>1. /\ eng.pc = "rearmSnap" /\ eng'.pc = "rearmPush" /\ eng'.snap = store
          /\ UNCHANGED <<req, store, pushed, override, expired, tickNow, haveSent,
                         lastSent, lamp, faults>>
      BY <1>0, <1>5 DEF EngineRearmSnap, EngineLocals
    <2>2. NoDrift'
      BY <1>0, <2>1 DEF NoDrift
    <2>3. SentIsHeld' /\ OverrideTaken'
      BY <1>0, <2>1 DEF SentIsHeld, Holds, OverrideTaken, OverrideActive, Maintaining
    <2> QED BY <1>0, <2>1, <2>2, <2>3, EngineAlone DEF ShineInv
  <1>6. ASSUME NEW ok \in BOOLEAN, EngineRearmPush(ok) PROVE ShineInv'
    <2>1. lamp' = PushSchedule(eng.snap) /\ faults' = 0
      BY <1>0, <1>6, NoFaultCommand DEF EngineRearmPush
    <2>2. /\ eng.pc = "rearmPush" /\ Return
          /\ UNCHANGED <<req, store, pushed, override, expired, tickNow, haveSent, lastSent>>
      BY <1>6 DEF EngineRearmPush
    <2>3. eng'.pc \in {"select", "read"}
      BY <1>0, <2>2, Returned
    <2>4. NoDrift'
      <3>1. pushed => lamp'.sched = lamp.sched
        BY <1>0, <2>1, <2>2 DEF NoDrift, PushSchedule
      <3> QED BY <1>0, <2>2, <2>3, <3>1 DEF NoDrift
    <2>5. SentIsHeld' /\ OverrideTaken'
      BY <1>0, <2>2, <2>3 DEF SentIsHeld, OverrideTaken, OverrideActive, Maintaining
    <2> QED BY <1>0, <2>1, <2>2, <2>4, <2>5, EngineAlone DEF ShineInv
  <1>7. CASE EngineRead
    <2>1. /\ eng.pc = "read" /\ eng'.pc = "compute"
          /\ eng'.ov = IF OverrideActive THEN override ELSE None
          /\ UNCHANGED <<req, store, pushed, override, expired, tickNow, haveSent,
                         lastSent, lamp, faults>>
      <3>1. At("compute") \in EngineLocals /\ At("compute").pc = "compute"
        BY IdleTypes, AtPoint DEF EnginePoints
      <3> QED BY <1>7, <3>1 DEF EngineRead, EngineLocals
    <2>2. NoDrift' /\ HandlersQuiet'
      BY <1>0, <2>1, DriftEngine, EngineAlone
    <2>3. SentIsHeld' /\ OverrideTaken'
      BY <1>0, <2>1 DEF SentIsHeld, Holds, OverrideTaken, OverrideActive
    <2> QED BY <1>0, <2>1, <2>2, <2>3 DEF ShineInv
  <1>8. CASE EngineCompute
    <2>1. /\ eng.pc = "compute" /\ eng'.pc = "decide" /\ eng'.ov = eng.ov
          /\ eng.ov # None => eng'.out = eng.ov.ch
          /\ UNCHANGED <<req, store, pushed, override, expired, tickNow, haveSent,
                         lastSent, lamp, faults>>
      BY <1>0, <1>8 DEF EngineCompute, EngineLocals
    <2>2. NoDrift' /\ HandlersQuiet'
      BY <1>0, <2>1, DriftEngine, EngineAlone
    <2>3. SentIsHeld' /\ OverrideTaken'
      BY <1>0, <2>1 DEF SentIsHeld, Holds, OverrideTaken, OverrideActive, Maintaining
    <2> QED BY <1>0, <2>1, <2>2, <2>3 DEF ShineInv
  (* An override in hand is driven, and left alone only if it is sent.      *)
  <1>9. CASE EngineDecide
    <2>1. /\ eng.pc = "decide"
          /\ UNCHANGED <<req, store, pushed, override, expired, tickNow, lastSent,
                         lamp, faults>>
      BY <1>9 DEF EngineDecide
    <2>2. \/ /\ eng'.pc \in {"rearmSnap", "select"} /\ eng.ov = None /\ ~haveSent'
          \/ /\ eng'.pc = "hand" /\ eng'.ov = eng.ov /\ eng'.out = eng.out
             /\ haveSent' = haveSent
          \/ /\ eng'.pc = "select" /\ haveSent /\ eng.out = lastSent
             /\ haveSent' = haveSent
      <3>1. CASE JustEnded /\ ~eng.live /\ eng' = At("rearmSnap") /\ haveSent' = FALSE
        BY <3>1, AtPoint DEF JustEnded, EnginePoints
      <3>2. CASE ~Drive /\ eng' = IdleEngine /\ haveSent' = FALSE
        BY <3>2, AtPoint DEF Drive
      <3>3. CASE Changed /\ eng' = [eng EXCEPT !.pc = "hand"] /\ haveSent' = haveSent
        BY <1>0, <3>3 DEF EngineLocals
      <3>4. CASE ~Changed /\ eng' = IdleEngine /\ haveSent' = haveSent
        BY <3>4, AtPoint DEF Changed
      <3> QED BY <1>9, <3>1, <3>2, <3>3, <3>4 DEF EngineDecide
    <2>3. NoDrift' /\ HandlersQuiet'
      BY <1>0, <2>1, <2>2, DriftEngine, EngineAlone
    <2>4. SentIsHeld'
      BY <1>0, <2>1, <2>2 DEF SentIsHeld, Holds
    <2>5. OverrideTaken'
      <3>1. override # None /\ eng.ov = override => eng.ov # None
        OBVIOUS
      <3> QED BY <1>0, <2>1, <2>2, <3>1 DEF OverrideTaken, OverrideActive, Maintaining
    <2> QED BY <1>0, <2>1, <2>3, <2>4, <2>5 DEF ShineInv
  <1>10. ASSUME NEW ok \in BOOLEAN, EngineHand(ok) PROVE ShineInv'
    <2>1. lamp' = HandLuminance(eng.out, Driver) /\ faults' = 0 /\ ok = TRUE
      BY <1>0, <1>10, NoFaultDo DEF EngineHand
    <2>2. /\ eng.pc = "hand" /\ eng'.pc = "record" /\ eng'.ov = eng.ov
          /\ eng'.out = eng.out /\ eng'.ok = TRUE
          /\ UNCHANGED <<req, store, pushed, override, expired, tickNow, haveSent, lastSent>>
      BY <1>0, <1>10, <2>1 DEF EngineHand, EngineLocals
    <2>3. lamp'.hold = Holding(eng.out, Driver) /\ lamp'.sched = lamp.sched
      BY <1>0, <2>1 DEF HandLuminance, LampStates
    <2>4. Holds(eng.out)'
      <3>1. eng.out \in Channels /\ Driver \in Drivers
        BY <1>0 DEF EngineLocals, Driver, Drivers
      <3>2. Holding(eng.out, Driver) # None /\ Holding(eng.out, Driver).ch = eng.out
        BY <3>1, ConstantsAssumption DEF Holding
      <3> QED BY <2>2, <2>3, <3>2 DEF Holds
    <2>5. NoDrift' /\ HandlersQuiet'
      BY <1>0, <2>2, <2>3, DriftEngine, EngineAlone
    <2>6. SentIsHeld' /\ OverrideTaken'
      BY <1>0, <2>2, <2>4 DEF SentIsHeld, OverrideTaken, OverrideActive, Maintaining
    <2> QED BY <2>1, <2>5, <2>6 DEF ShineInv
  <1>11. CASE EngineRecord
    <2>1. /\ eng.pc = "record" /\ eng'.pc = "select"
          /\ UNCHANGED <<req, store, pushed, override, expired, tickNow, lamp, faults>>
      BY <1>11, AtPoint DEF EngineRecord
    <2>2. haveSent' /\ lastSent' = eng.out /\ Holds(eng.out)
      BY <1>0, <1>11, <2>1 DEF EngineRecord, SentIsHeld
    <2>3. NoDrift' /\ HandlersQuiet'
      BY <1>0, <2>1, DriftEngine, EngineAlone
    <2>4. SentIsHeld'
      BY <2>1, <2>2 DEF SentIsHeld, Holds
    <2>5. OverrideTaken'
      BY <1>0, <2>1, <2>2 DEF OverrideTaken, OverrideActive, Maintaining
    <2> QED BY <1>0, <2>1, <2>3, <2>4, <2>5 DEF ShineInv
  <1>12. CASE Reconnect
    BY <1>a, <1>12 DEF Reconnect, OverrideActive
  <1>13. ASSUME NEW r \in Requests, NewRequest(r) PROVE ShineInv'
    <2> USE DEF Enter, Stay, Kick, Finish
    <2>1. CASE RampConfig(r)
      <3>1. /\ [IdleRequest EXCEPT !.pc = "rampRead", !.op = "config"] \in RequestLocals
            /\ [IdleRequest EXCEPT !.pc = "rampRead", !.op = "config"].pc = "rampRead"
            /\ [IdleRequest EXCEPT !.pc = "rampRead", !.op = "config"].op = "config"
        BY IdleTypes DEF RequestLocals, RequestPoints
      <3> QED BY <1>b, <2>1, <3>1 DEF RampConfig, OverrideActive
    <2>2. ASSUME NEW o \in Overrides, OverrideStart(r, o) PROVE ShineInv'
      BY <1>a, <2>2 DEF OverrideStart
    <2>3. ASSUME NEW s \in Sources, OverrideStop(r, s) PROVE ShineInv'
      <3>1. /\ [IdleRequest EXCEPT !.pc = "clear"] \in RequestLocals
            /\ [IdleRequest EXCEPT !.pc = "clear"].pc = "clear"
        BY IdleTypes DEF RequestLocals, RequestPoints
      <3>2. /\ UNCHANGED <<eng, lamp, lastSent, store, pushed, faults, haveSent,
                           override, expired, tickNow>>
            /\ Goto(r, [IdleRequest EXCEPT !.pc = "clear"]) \/ UNCHANGED req
        BY <2>3 DEF OverrideStop
      <3> QED BY <1>a, <1>b, <3>1, <3>2 DEF OverrideActive
    <2>4. ASSUME NEW ok \in BOOLEAN, LampRead(r, ok) PROVE ShineInv'
      <3> DEFINE next == [IdleRequest EXCEPT !.pc = "readSave",
                            !.snap = [sched |-> lamp.sched, mode |-> lamp.mode,
                                      manual |-> lamp.manual]]
      <3>1. next \in RequestLocals /\ next.pc = "readSave" /\ next.snap.sched = lamp.sched
        BY <1>0, IdleTypes DEF RequestLocals, RequestPoints, Program, LampStates
      <3>2. lamp' = lamp /\ ok = TRUE /\ faults' = faults
        BY <1>0, <2>4, NoFaultCommand DEF LampRead
      <3>3. /\ Goto(r, next)
            /\ UNCHANGED <<eng, lastSent, store, pushed, haveSent, override, expired,
                           tickNow>>
        BY <2>4, <3>2 DEF LampRead
      <3> HIDE DEF next
      <3> QED BY <1>b, <3>1, <3>2, <3>3 DEF OverrideActive
    <2>5. CASE KickOnly(r)
      BY <1>a, <2>5 DEF KickOnly
    <2> QED
      BY <1>13, <2>1, <2>2, <2>3, <2>4, <2>5
      DEF NewRequest, RampSet, Push, Hand, Preview, Restore, Undisturbed
  <1>14. ASSUME NEW r \in Requests, RequestStep(r) PROVE ShineInv'
    <2> USE DEF Kick, Finish
    <2>0. /\ req[r] \in RequestLocals /\ IdleRequest \in RequestLocals
          /\ IdleRequest.pc = "idle"
          /\ req[r].pc \in {"idle", "rampRead", "rampApply", "clear", "readSave"}
          /\ req[r].pc \in {"rampRead", "rampApply"} => req[r].op = "config"
      BY <1>0, IdleTypes DEF IdleRequest, HandlersQuiet
    <2>1. CASE RampRead(r)
      <3> DEFINE next == [req[r] EXCEPT !.pc = "rampApply", !.on = fxRamp]
      <3>1. next \in RequestLocals /\ next.pc = "rampApply" /\ next.op = "config"
        BY <2>0, <2>1 DEF RequestLocals, RequestPoints, TypeOK, RampRead
      <3>2. /\ Goto(r, next)
            /\ UNCHANGED <<eng, lamp, lastSent, store, pushed, faults, haveSent,
                           override, expired, tickNow>>
        BY <2>1 DEF RampRead
      <3> HIDE DEF next
      <3> QED BY <1>b, <3>1, <3>2 DEF OverrideActive
    (* A change of the cadence forgets what was sent, and kicks.            *)
    <2>2. CASE RampApply(r)
      <3>1. /\ UNCHANGED <<eng, lamp, lastSent, store, pushed, faults, override, expired>>
            /\ haveSent' = (haveSent /\ live = live')
            /\ tickNow' = (tickNow \/ live # live' \/ req[r].op = "start")
            /\ Goto(r, IdleRequest)
        BY <2>0, <2>2 DEF RampApply
      <3>2. /\ haveSent' => haveSent
            /\ ~tickNow' => ~tickNow /\ haveSent' = haveSent
        BY <3>1 DEF TypeOK
      <3> QED BY <1>b, <2>0, <3>1, <3>2 DEF OverrideActive
    <2>3. CASE OverrideClear(r)
      BY <1>b, <2>0, <2>3 DEF OverrideClear
    (* What was read is what the lamp runs still.                           *)
    <2>4. CASE ReadSave(r)
      <3>1. /\ UNCHANGED <<eng, lamp, lastSent, pushed, faults, haveSent, override,
                           expired, tickNow>>
            /\ Goto(r, IdleRequest) /\ req[r].pc = "readSave"
            /\ store' = [req[r].snap EXCEPT !.mode = store.mode]
        BY <2>4 DEF ReadSave
      <3>2. store'.sched = req[r].snap.sched
        BY <2>0, <3>1 DEF RequestLocals, Program
      <3>3. \A q \in Requests : req'[q] = IF q = r THEN IdleRequest ELSE req[q]
        BY <1>0, <3>1 DEF Goto
      <3>4. NoDrift'
        BY <1>0, <2>0, <3>1, <3>2, <3>3 DEF NoDrift
      <3>5. HandlersQuiet'
        BY <1>0, <2>0, <3>1, QuietMoves
      <3>6. SentIsHeld' /\ OverrideTaken'
        BY <1>0, <3>1, SentStays, TakenStays DEF OverrideActive
      <3> QED BY <1>0, <3>1, <3>4, <3>5, <3>6 DEF ShineInv
    <2> QED
      BY <1>14, <2>0, <2>1, <2>2, <2>3, <2>4
      DEF RequestStep, RepublishSnap, RepublishPush, PushSave, HandSave
  <1>15. CASE Clock \/ Expire
    BY <1>a, <1>15 DEF Clock, Expire, OverrideActive
  <1>16. CASE PowerCycle \/ Drift
    BY <1>0, <1>16 DEF PowerCycle, Drift, Undisturbed
  <1>17. CASE Restart
    <2>1. /\ \A r \in Requests : req'[r] = IdleRequest
          /\ IdleRequest.pc = "idle" /\ eng'.pc = "sync"
          /\ override' = None /\ ~haveSent'
          /\ UNCHANGED <<store, pushed, lamp, faults>>
      BY <1>17, AtPoint DEF Restart, IdleRequest
    <2>2. HandlersQuiet' /\ NoDrift'
      BY <1>0, <2>1 DEF HandlersQuiet, NoDrift
    <2>3. SentIsHeld' /\ OverrideTaken'
      BY <2>1 DEF SentIsHeld, OverrideTaken, OverrideActive
    <2> QED BY <1>0, <2>1, <2>2, <2>3 DEF ShineInv
  <1>18. CASE UNCHANGED vars
    BY <1>a, <1>18 DEF vars, OverrideActive
  <1> QED
    BY <1>1, <1>2, <1>3, <1>4, <1>5, <1>6, <1>7, <1>8, <1>9, <1>10, <1>11,
       <1>12, <1>13, <1>14, <1>15, <1>16, <1>17, <1>18
    DEF Next, EngineStep

(* Feed and Maintenance reach the lamp: with nothing under way, an active   *)
(* override is what the lamp holds, for any times of day, outputs, programs *)
(* and numbers of requests and restarts.                                    *)
THEOREM OverrideShinesCorrect == Undisturbed /\ Spec => []OverrideShines
  <1> SUFFICES ASSUME Undisturbed PROVE Spec => []OverrideShines
    OBVIOUS
  <1>1. Init => ShineInv
    <2> SUFFICES ASSUME Init PROVE ShineInv
      OBVIOUS
    <2>1. /\ \A r \in Requests : req[r] = IdleRequest
          /\ IdleRequest.pc = "idle" /\ eng.pc = "sync"
          /\ override = None /\ haveSent = FALSE /\ faults = 0
      BY AtPoint DEF Init, Booted, IdleRequest
    <2>2. pushed => store.sched = lamp.sched
      BY DEF Init
    <2>3. HandlersQuiet /\ NoDrift
      BY <2>1, <2>2 DEF HandlersQuiet, NoDrift
    <2>4. SentIsHeld /\ OverrideTaken
      BY <2>1 DEF SentIsHeld, OverrideTaken, OverrideActive
    <2> QED BY <2>1, <2>3, <2>4 DEF ShineInv
  <1>2. TypeOK /\ ShineInv /\ [Next]_vars => ShineInv'
    BY ShineStep
  <1>3. ShineInv => OverrideShines
    BY DEF ShineInv, SentIsHeld, OverrideTaken, Holds, OverrideShines, AtRest, Maintaining
  <1> QED BY <1>1, <1>2, <1>3, TypeCorrect, PTL DEF Spec

=============================================================================
