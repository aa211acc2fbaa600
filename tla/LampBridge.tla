----------------------------- MODULE LampBridge -----------------------------
(***************************************************************************)
(* The core of pi-bridge: the always-on engine goroutine, the HTTP handler *)
(* goroutines that steer it, the lamp link and the lamp itself.            *)
(*                                                                         *)
(* Grain of atomicity.  Every action is what one goroutine does between    *)
(* two points where another can run: a critical section of Engine.mu or    *)
(* Server.mu, a channel operation, or one lamp command under the lamp gate *)
(* (a command is one action because the gate excludes every other one).    *)
(* Values read in one critical section and used in a later one are the     *)
(* goroutine's locals: "eng" for the engine, "req[r]" for a handler.       *)
(*                                                                         *)
(* Channel levels are abstract: Curve[s, p] is what Config.Compute gives   *)
(* for stored schedule s at time of day p with the effects in force.       *)
(***************************************************************************)
EXTENDS Naturals

CONSTANTS
    Requests,     \* HTTP handler goroutines that may run at once
    Channels,     \* six-channel outputs
    Zero,         \* the all-zero output
    Schedules,    \* 24-slot schedules
    Blank,        \* the all-zero schedule of a fresh store
    Phases,       \* times of day at which the computed output differs
    Curve,        \* Config.Compute: schedule and phase -> output
    Overrides,    \* timed Feed / Maintenance outputs a user can start
    Hands,        \* outputs a user can set with /api/hand and /api/preview
    Bodies,       \* bodies of /api/push and states of /api/backup
    None,         \* nil
    Ops,          \* the handlers that users call in this instance
    MaxRequests,  \* bound on handler calls
    MaxFaults,    \* bound on failed lamp commands and lamp-side changes
    MaxRestarts   \* bound on daemon restarts

Sources == {"feed", "maintenance"}
Modes   == {"auto", "manual"}
Drivers == {"override", "live", "user"}

(* What Server.state and a 0x1007 command carry. *)
Program == [sched : Schedules, mode : Modes, manual : Channels]

ASSUME ConstantsAssumption ==
    /\ Zero \in Channels
    /\ Blank \in Schedules
    /\ Phases # {}
    /\ Curve \in [Schedules \X Phases -> Channels]
    /\ Overrides \subseteq [ch : Channels, source : Sources]
    /\ Hands \subseteq Channels
    /\ Bodies \subseteq Program
    /\ None \notin Overrides
    /\ None \notin [ch : Channels, by : Drivers]
    /\ MaxRequests \in Nat /\ MaxFaults \in Nat /\ MaxRestarts \in Nat

VARIABLES
    \* persisted by the daemon
    store,        \* Server.state: the program pi-bridge expects in the lamp
    pushed,       \* Server.state.LastPushedAt # ""
    fxRamp,       \* EffectsStore.Ramp.Active
    \* Engine fields
    live, override, overrideWas, haveSent, lastSent, lastWriteOK,
    expired,      \* time.Now() is past override.Until
    tickNow, maintNow,        \* the two one-slot channels: a token is waiting
    eng,          \* control point and locals of the goroutine in Engine.Run
    \* Lamp fields
    consecFail,   \* Lamp.consecFail > 0
    reconnects,   \* onReconnect goroutines started and not yet run
    \* HTTP handler goroutines
    req,
    \* the environment
    lamp, phase,
    clockLost,    \* history: a command that sets the clock was lost unnoticed
    requests, faults, restarts

persistent == <<store, pushed, fxRamp>>
overrideVars == <<override, expired>>
sentVars   == <<haveSent, lastSent, lastWriteOK>>
channelVars == <<tickNow, maintNow>>
linkVars   == <<consecFail, reconnects>>
faultVars  == <<faults, clockLost>>
bounds     == <<requests, faultVars, restarts>>
vars == <<store, pushed, fxRamp, live, override, expired, overrideWas,
          haveSent, lastSent, lastWriteOK, tickNow, maintNow, eng,
          consecFail, reconnects, req, lamp, phase, clockLost,
          requests, faults, restarts>>

EmptyProgram == [sched |-> Blank, mode |-> "auto", manual |-> Zero]
IdleEngine == [pc |-> "select", ret |-> "select", ov |-> None, live |-> FALSE,
               was |-> FALSE, now |-> CHOOSE p \in Phases : TRUE,
               out |-> Zero, ok |-> FALSE, snap |-> EmptyProgram]
IdleRequest == [pc |-> "idle", op |-> "start", on |-> FALSE, snap |-> EmptyProgram]
At(point) == [IdleEngine EXCEPT !.pc = point]

-----------------------------------------------------------------------------
(* The lamp, seen through the commands the code sends it.                   *)

Holding(ch, by) == [ch |-> ch, by |-> by]

(* 0x1005 / 0x1006: the lamp holds the given output.  "by" is a history     *)
(* field that remembers who asked for it; the lamp does not store it.       *)
HandLuminance(ch, by) == [lamp EXCEPT !.hold = Holding(ch, by)]

(* 0x1007: the lamp stores a whole program, takes its clock from it and     *)
(* runs it.                                                                 *)
PushSchedule(p) ==
    [sched |-> p.sched, mode |-> p.mode, manual |-> p.manual,
     hold |-> None, clock |-> TRUE]

(* One lamp command under the gate: it is carried out, or it leaves the     *)
(* lamp as it was.  The code knows of the latter only when the connection   *)
(* or the write failed: drainAck waits for an acknowledgement and ignores   *)
(* what comes, so that a command lost after the write is reported as done.  *)
(* A read (carriedOut = lamp) is answered or fails.                         *)
Command(ok, carriedOut) ==
    /\ ok \in BOOLEAN
    /\ \/ /\ ok
          /\ lamp' = carriedOut
          /\ UNCHANGED faultVars
       \/ /\ ok => carriedOut # lamp
          /\ faults < MaxFaults
          /\ faults' = faults + 1
          /\ clockLost' = (clockLost \/ (ok /\ carriedOut.clock # lamp.clock))
          /\ UNCHANGED lamp

(* Mutant: the recovery of the link is not noticed. *)
DoWithoutCallback(ok, carriedOut) ==
    /\ Command(ok, carriedOut)
    /\ consecFail' = ~ok
    /\ UNCHANGED reconnects

(* Lamp.do: the streak of failures ends with the first success, which       *)
(* starts one onReconnect goroutine.                                        *)
Do(ok, carriedOut) ==
    /\ Command(ok, carriedOut)
    /\ consecFail' = ~ok
    /\ reconnects' = IF ok /\ consecFail THEN reconnects + 1 ELSE reconnects

-----------------------------------------------------------------------------
(* Init: the daemon after New and before the first lap of Engine.Run, with  *)
(* whatever store, ramp switch and lamp it finds.                           *)

Booting == [IdleEngine EXCEPT !.pc = "sync", !.ret = "read"]

Booted ==
    /\ live = fxRamp /\ tickNow = fxRamp          \* SetLive(true) kicks
    /\ override = None /\ expired = FALSE /\ overrideWas = FALSE
    /\ haveSent = FALSE /\ lastSent = Zero /\ lastWriteOK = FALSE
    /\ maintNow = FALSE
    /\ eng = Booting
    /\ consecFail = FALSE /\ reconnects = 0
    /\ req = [r \in Requests |-> IdleRequest]

Init ==
    /\ fxRamp \in BOOLEAN
    /\ \/ /\ store = EmptyProgram
          /\ pushed = FALSE
       \/ /\ store \in Bodies
          /\ pushed = TRUE
    /\ \E s \in Schedules :
          /\ pushed => s = store.sched
          /\ lamp = [sched |-> s, mode |-> store.mode, manual |-> store.manual,
                     hold |-> None, clock |-> FALSE]
    /\ phase \in Phases
    /\ clockLost = FALSE
    /\ requests = 0 /\ faults = 0 /\ restarts = 0
    /\ Booted

-----------------------------------------------------------------------------
(* Engine.Run: the select loop.                                             *)

Wake(point) ==
    /\ eng.pc = "select"
    /\ eng' = At(point)
    /\ UNCHANGED <<persistent, live, overrideVars, overrideWas, sentVars,
                   linkVars, req, lamp, phase, bounds>>

Tick       == Wake("read") /\ UNCHANGED channelVars
TakeKick   == Wake("read") /\ tickNow /\ tickNow' = FALSE /\ UNCHANGED maintNow
TakeMaint  == Wake("sync") /\ maintNow /\ maintNow' = FALSE /\ UNCHANGED tickNow
Daily      == Wake("sync") /\ UNCHANGED channelVars

(* Engine.maintenance, and main's drift check within it.                    *)

Return == eng' = At(eng.ret)

EngineSync(ok) ==
    /\ eng.pc = "sync"
    /\ Do(ok, [lamp EXCEPT !.clock = TRUE])
    /\ IF ok THEN eng' = [eng EXCEPT !.pc = "driftSnap"] ELSE Return
    /\ UNCHANGED <<persistent, live, overrideVars, overrideWas, sentVars,
                   channelVars, req, phase, requests, restarts>>

WorthKeeping == pushed /\ store.sched # Blank

EngineDriftSnap ==
    /\ eng.pc = "driftSnap"
    /\ IF WorthKeeping
       THEN eng' = [eng EXCEPT !.pc = "driftRead", !.snap = store]
       ELSE Return
    /\ UNCHANGED <<persistent, live, overrideVars, overrideWas, sentVars,
                   channelVars, linkVars, req, lamp, phase, bounds>>

(* Mutant: the stored and the read schedule are never found to differ. *)
EngineDriftReadBlind(ok) ==
    /\ eng.pc = "driftRead"
    /\ Do(ok, lamp)
    /\ Return
    /\ UNCHANGED <<persistent, live, overrideVars, overrideWas, sentVars,
                   channelVars, req, phase, requests, restarts>>

EngineDriftRead(ok) ==
    /\ eng.pc = "driftRead"
    /\ Do(ok, lamp)
    /\ IF ok /\ lamp.sched # eng.snap.sched
       THEN eng' = [eng EXCEPT !.pc = "rearmSnap"]
       ELSE Return
    /\ UNCHANGED <<persistent, live, overrideVars, overrideWas, sentVars,
                   channelVars, req, phase, requests, restarts>>

(* Server.Republish, called by the engine goroutine: a copy of the state    *)
(* first, the command later; its failure is logged and forgotten.           *)
EngineRearmSnap ==
    /\ eng.pc = "rearmSnap"
    /\ eng' = [eng EXCEPT !.pc = "rearmPush", !.snap = store]
    /\ UNCHANGED <<persistent, live, overrideVars, overrideWas, sentVars,
                   channelVars, linkVars, req, lamp, phase, bounds>>

EngineRearmPush(ok) ==
    /\ eng.pc = "rearmPush"
    /\ Command(ok, PushSchedule(eng.snap))
    /\ Return
    /\ UNCHANGED <<persistent, live, overrideVars, overrideWas, sentVars,
                   channelVars, linkVars, req, phase, requests, restarts>>

-----------------------------------------------------------------------------
(* Engine.step                                                              *)

OverrideActive == override # None /\ ~expired

(* Mutant: the previous tick is not remembered. *)
EngineReadForgetful ==
    /\ eng.pc = "read"
    /\ eng' = [At("compute") EXCEPT
                 !.ov = IF OverrideActive THEN override ELSE None,
                 !.live = live, !.now = phase]
    /\ UNCHANGED <<persistent, live, overrideVars, overrideWas, sentVars,
                   channelVars, linkVars, req, lamp, phase, bounds>>

(* The time is taken once; then, in the first critical section, the         *)
(* override, the mode and the memory of the previous tick are copied.       *)
(* Everything below works on these copies.                                  *)
EngineRead ==
    /\ eng.pc = "read"
    /\ eng' = [At("compute") EXCEPT
                 !.ov = IF OverrideActive THEN override ELSE None,
                 !.live = live,
                 !.was = overrideWas,
                 !.now = phase]
    /\ UNCHANGED <<persistent, live, overrideVars, overrideWas, sentVars,
                   channelVars, linkVars, req, lamp, phase, bounds>>

(* EngineSnapshot and Config.Compute *)
Computed == IF store.mode = "manual" THEN store.manual
                                     ELSE Curve[store.sched, eng.now]

(* Mutant: this tick is not remembered for the next one. *)
EngineComputeForgetful ==
    /\ eng.pc = "compute"
    /\ eng' = [eng EXCEPT !.pc = "decide",
                          !.out = IF eng.ov # None THEN eng.ov.ch ELSE Computed]
    /\ UNCHANGED <<persistent, live, overrideVars, overrideWas, sentVars,
                   channelVars, linkVars, req, lamp, phase, bounds>>

EngineCompute ==
    /\ eng.pc = "compute"
    /\ eng' = [eng EXCEPT !.pc = "decide",
                          !.out = IF eng.ov # None THEN eng.ov.ch ELSE Computed]
    /\ overrideWas' = (eng.ov # None)
    /\ UNCHANGED <<persistent, live, overrideVars, sentVars,
                   channelVars, linkVars, req, lamp, phase, bounds>>

JustEnded == eng.was /\ eng.ov = None
DriveLiveOnly  == eng.live                     \* mutant: no override when dormant
Drive     == eng.ov # None \/ eng.live
ChangedNeverSent == JustEnded \/ ~haveSent     \* mutant: no compare with lastSent
Changed   == JustEnded \/ ~haveSent \/ eng.out # lastSent

(* Mutant: a dormant engine does nothing at the end of an override. *)
EngineDecideNoRearm ==
    /\ eng.pc = "decide"
    /\ \/ /\ ~Drive
          /\ eng' = IdleEngine
          /\ haveSent' = FALSE /\ lastWriteOK' = TRUE
       \/ /\ Drive
          /\ eng' = IF Changed THEN [eng EXCEPT !.pc = "hand"] ELSE IdleEngine
          /\ UNCHANGED <<haveSent, lastWriteOK>>
    /\ UNCHANGED <<persistent, live, overrideVars, overrideWas, lastSent,
                   channelVars, linkVars, req, lamp, phase, bounds>>

(* An override that ended while dormant is followed by a re-arm; a dormant  *)
(* tick writes nothing; a driving tick writes when there is news.           *)
EngineDecide ==
    /\ eng.pc = "decide"
    /\ \/ /\ JustEnded /\ ~eng.live
          /\ eng' = At("rearmSnap")
          /\ haveSent' = FALSE /\ lastWriteOK' = TRUE
       \/ /\ ~JustEnded /\ ~Drive
          /\ eng' = IdleEngine
          /\ haveSent' = FALSE /\ lastWriteOK' = TRUE
       \/ /\ Drive
          /\ eng' = IF Changed THEN [eng EXCEPT !.pc = "hand"] ELSE IdleEngine
          /\ UNCHANGED <<haveSent, lastWriteOK>>
    /\ UNCHANGED <<persistent, live, overrideVars, overrideWas, lastSent,
                   channelVars, linkVars, req, lamp, phase, bounds>>

Driver == IF eng.ov # None THEN "override" ELSE "live"

EngineHand(ok) ==
    /\ eng.pc = "hand"
    /\ Do(ok, HandLuminance(eng.out, Driver))
    /\ eng' = [eng EXCEPT !.pc = "record", !.ok = ok]
    /\ UNCHANGED <<persistent, live, overrideVars, overrideWas, sentVars,
                   channelVars, req, phase, requests, restarts>>

EngineRecord ==
    /\ eng.pc = "record"
    /\ lastWriteOK' = eng.ok
    /\ haveSent' = (haveSent \/ eng.ok)
    /\ lastSent' = IF eng.ok THEN eng.out ELSE lastSent
    /\ eng' = IdleEngine
    /\ UNCHANGED <<persistent, live, overrideVars, overrideWas,
                   channelVars, linkVars, req, lamp, phase, bounds>>

EngineStep ==
    \/ EngineDriftSnap \/ EngineRearmSnap \/ EngineRead \/ EngineCompute
    \/ EngineDecide \/ EngineRecord
    \/ \E ok \in BOOLEAN : \/ EngineSync(ok) \/ EngineDriftRead(ok)
                           \/ EngineRearmPush(ok) \/ EngineHand(ok)

(* Mutant: the callback runs although no operation recovered. *)
ReconnectUnasked ==
    /\ reconnects' = reconnects - 1
    /\ maintNow' = TRUE
    /\ UNCHANGED <<persistent, live, overrideVars, overrideWas, sentVars,
                   tickNow, eng, consecFail, req, lamp, phase, bounds>>

(* The goroutine that Lamp.do starts: Engine.MaintNow. *)
Reconnect ==
    /\ reconnects > 0
    /\ reconnects' = reconnects - 1
    /\ maintNow' = TRUE
    /\ UNCHANGED <<persistent, live, overrideVars, overrideWas, sentVars,
                   tickNow, eng, consecFail, req, lamp, phase, bounds>>

-----------------------------------------------------------------------------
(* HTTP handlers.  A handler's first step takes an idle goroutine.          *)

Enter(r, op) ==
    /\ req[r].pc = "idle"
    /\ op \in Ops
    /\ requests < MaxRequests
    /\ requests' = requests + 1

(* A handler that is done at once, or one that goes on at the given point.  *)
Stay == UNCHANGED req
Goto(r, next) == req' = [req EXCEPT ![r] = next]
Finish(r) == Goto(r, IdleRequest)

Kick == tickNow' = TRUE /\ UNCHANGED maintNow

(* rampStart, rampStop and rampConfig: the first two write Ramp.Active,     *)
(* then all call applyRampCadence, which reads it again.                    *)
RampSet(r, op) ==
    /\ Enter(r, "ramp")
    /\ op \in {"start", "stop"}
    /\ fxRamp' = (op = "start")
    /\ Goto(r, [IdleRequest EXCEPT !.pc = "rampRead", !.op = op])
    /\ UNCHANGED <<store, pushed, live, overrideVars, overrideWas, sentVars,
                   channelVars, eng, linkVars, lamp, phase, faultVars, restarts>>

RampConfig(r) ==
    /\ Enter(r, "rampConfig")
    /\ Goto(r, [IdleRequest EXCEPT !.pc = "rampRead", !.op = "config"])
    /\ UNCHANGED <<persistent, live, overrideVars, overrideWas, sentVars,
                   channelVars, eng, linkVars, lamp, phase, faultVars, restarts>>

RampRead(r) ==
    /\ req[r].pc = "rampRead"
    /\ Goto(r, [req[r] EXCEPT !.pc = "rampApply", !.on = fxRamp])
    /\ UNCHANGED <<persistent, live, overrideVars, overrideWas, sentVars,
                   channelVars, eng, linkVars, lamp, phase, bounds>>

(* Engine.SetLive (a change forgets what was sent and kicks), then rampStart *)
(* kicks once more and rampStop goes on to Republish.                        *)
RampApply(r) ==
    /\ req[r].pc = "rampApply"
    /\ live' = req[r].on
    /\ haveSent' = (haveSent /\ live = live')
    /\ tickNow' = (tickNow \/ live # live' \/ req[r].op = "start")
    /\ IF req[r].op = "stop"
       THEN Goto(r, [IdleRequest EXCEPT !.pc = "republishSnap"])
       ELSE Finish(r)
    /\ UNCHANGED <<persistent, overrideVars, overrideWas, lastSent, lastWriteOK,
                   maintNow, eng, linkVars, lamp, phase, bounds>>

RepublishSnap(r) ==
    /\ req[r].pc = "republishSnap"
    /\ Goto(r, [IdleRequest EXCEPT !.pc = "republishPush", !.snap = store])
    /\ UNCHANGED <<persistent, live, overrideVars, overrideWas, sentVars,
                   channelVars, eng, linkVars, lamp, phase, bounds>>

RepublishPush(r, ok) ==
    /\ req[r].pc = "republishPush"
    /\ Command(ok, PushSchedule(req[r].snap))
    /\ Finish(r)
    /\ UNCHANGED <<persistent, live, overrideVars, overrideWas, sentVars,
                   channelVars, eng, linkVars, phase, requests, restarts>>

(* feedStart and maintStart: Engine.SetOverride with a fresh deadline.      *)
OverrideStart(r, o) ==
    /\ Enter(r, "override")
    /\ Stay
    /\ override' = o /\ expired' = FALSE
    /\ Kick
    /\ UNCHANGED <<persistent, live, overrideWas, sentVars, eng, linkVars,
                   lamp, phase, faultVars, restarts>>

(* feedStop and maintStop: look at the override, then clear it.             *)
OverrideStop(r, source) ==
    /\ Enter(r, "override")
    /\ IF OverrideActive /\ override.source = source
       THEN Goto(r, [IdleRequest EXCEPT !.pc = "clear"])
       ELSE Stay
    /\ UNCHANGED <<persistent, live, overrideVars, overrideWas, sentVars,
                   channelVars, eng, linkVars, lamp, phase, faultVars, restarts>>

OverrideClear(r) ==
    /\ req[r].pc = "clear"
    /\ override' = None /\ expired' = FALSE
    /\ Kick
    /\ Finish(r)
    /\ UNCHANGED <<persistent, live, overrideWas, sentVars, eng, linkVars,
                   lamp, phase, bounds>>

(* POST /api/push: the command, then savePushedState; the middleware kicks  *)
(* the engine whatever the outcome.                                         *)
Push(r, p, ok) ==
    /\ Enter(r, "push")
    /\ Command(ok, PushSchedule(p))
    /\ IF ok THEN /\ Goto(r, [IdleRequest EXCEPT !.pc = "pushSave", !.snap = p])
                  /\ UNCHANGED channelVars
             ELSE Stay /\ Kick
    /\ UNCHANGED <<persistent, live, overrideVars, overrideWas, sentVars, eng,
                   linkVars, phase, restarts>>

PushSave(r) ==
    /\ req[r].pc = "pushSave"
    /\ store' = req[r].snap /\ pushed' = TRUE
    /\ Kick
    /\ Finish(r)
    /\ UNCHANGED <<fxRamp, live, overrideVars, overrideWas, sentVars, eng,
                   linkVars, lamp, phase, bounds>>

(* POST /api/hand: the command, then saveManualState.                       *)
Hand(r, h, ok) ==
    /\ Enter(r, "hand")
    /\ Command(ok, HandLuminance(h, "user"))
    /\ IF ok THEN Goto(r, [pc |-> "handSave", op |-> "start", on |-> FALSE,
                           snap |-> [EmptyProgram EXCEPT !.manual = h]])
             ELSE Stay
    /\ UNCHANGED <<persistent, live, overrideVars, overrideWas, sentVars,
                   channelVars, eng, linkVars, phase, restarts>>

HandSave(r) ==
    /\ req[r].pc = "handSave"
    /\ store' = [store EXCEPT !.mode = "manual", !.manual = req[r].snap.manual]
    /\ Finish(r)
    /\ UNCHANGED <<pushed, fxRamp, live, overrideVars, overrideWas, sentVars,
                   channelVars, eng, linkVars, lamp, phase, bounds>>

(* POST /api/preview: not stored anywhere.                                  *)
Preview(r, h, ok) ==
    /\ Enter(r, "preview")
    /\ Command(ok, HandLuminance(h, "user"))
    /\ Stay
    /\ UNCHANGED <<persistent, live, overrideVars, overrideWas, sentVars,
                   channelVars, eng, linkVars, phase, restarts>>

(* /api/lamp/read: the lamp's program replaces the stored one.              *)
LampRead(r, ok) ==
    /\ Enter(r, "read")
    /\ Command(ok, lamp)
    /\ IF ok THEN Goto(r, [IdleRequest EXCEPT !.pc = "readSave",
                             !.snap = [sched |-> lamp.sched, mode |-> lamp.mode,
                                       manual |-> lamp.manual]])
             ELSE Stay
    /\ UNCHANGED <<persistent, live, overrideVars, overrideWas, sentVars,
                   channelVars, eng, linkVars, phase, restarts>>

ReadSave(r) ==
    /\ req[r].pc = "readSave"
    /\ store' = [req[r].snap EXCEPT !.mode = store.mode]
    /\ Finish(r)
    /\ UNCHANGED <<pushed, fxRamp, live, overrideVars, overrideWas, sentVars,
                   channelVars, eng, linkVars, lamp, phase, bounds>>

(* POST /api/backup replaces the state without a word to lamp or engine.    *)
Restore(r, p, stamp) ==
    /\ Enter(r, "restore")
    /\ stamp \in BOOLEAN
    /\ store' = p /\ pushed' = stamp
    /\ Stay
    /\ UNCHANGED <<fxRamp, live, overrideVars, overrideWas, sentVars,
                   channelVars, eng, linkVars, lamp, phase, faultVars, restarts>>

(* Handlers that only kick: ramp tick, and those that change an effect      *)
(* (master, acclimation, seasonal), whose new output is another phase.      *)
KickOnly(r) ==
    /\ Enter(r, "kick")
    /\ Stay
    /\ Kick
    /\ phase' \in Phases
    /\ UNCHANGED <<persistent, live, overrideVars, overrideWas, sentVars, eng,
                   linkVars, lamp, faultVars, restarts>>

NewRequest(r) ==
    \/ \E op \in {"start", "stop"} : RampSet(r, op)
    \/ RampConfig(r)
    \/ \E o \in Overrides : OverrideStart(r, o)
    \/ \E s \in Sources : OverrideStop(r, s)
    \/ \E p \in Bodies, ok \in BOOLEAN : Push(r, p, ok)
    \/ \E h \in Hands, ok \in BOOLEAN : Hand(r, h, ok) \/ Preview(r, h, ok)
    \/ \E ok \in BOOLEAN : LampRead(r, ok)
    \/ \E p \in Bodies \cup {EmptyProgram}, stamp \in BOOLEAN : Restore(r, p, stamp)
    \/ KickOnly(r)

RequestStep(r) ==
    \/ RampRead(r) \/ RampApply(r) \/ RepublishSnap(r)
    \/ \E ok \in BOOLEAN : RepublishPush(r, ok)
    \/ OverrideClear(r) \/ PushSave(r) \/ HandSave(r) \/ ReadSave(r)

-----------------------------------------------------------------------------
(* The environment                                                          *)

Clock ==
    /\ phase' \in Phases \ {phase}
    /\ UNCHANGED <<persistent, live, overrideVars, overrideWas, sentVars,
                   channelVars, eng, linkVars, req, lamp, bounds>>

Expire ==
    /\ OverrideActive
    /\ expired' = TRUE
    /\ UNCHANGED <<persistent, live, override, overrideWas, sentVars,
                   channelVars, eng, linkVars, req, lamp, phase, bounds>>

(* The lamp loses power: back on its stored program, with a wrong clock.    *)
PowerCycle ==
    /\ faults < MaxFaults
    /\ faults' = faults + 1
    /\ lamp' = [lamp EXCEPT !.hold = None, !.clock = FALSE]
    /\ UNCHANGED <<persistent, live, overrideVars, overrideWas, sentVars,
                   channelVars, eng, linkVars, req, phase, clockLost, requests,
                   restarts>>

(* The OEM app, or a proxy client, stores another schedule.                 *)
Drift ==
    /\ faults < MaxFaults
    /\ faults' = faults + 1
    /\ \E s \in Schedules : lamp' = [lamp EXCEPT !.sched = s, !.hold = None]
    /\ UNCHANGED <<persistent, live, overrideVars, overrideWas, sentVars,
                   channelVars, eng, linkVars, req, phase, clockLost, requests,
                   restarts>>

(* The daemon stops anywhere and is started again by systemd.               *)
Restart ==
    /\ restarts < MaxRestarts
    /\ restarts' = restarts + 1
    /\ live' = fxRamp /\ tickNow' = fxRamp
    /\ override' = None /\ expired' = FALSE /\ overrideWas' = FALSE
    /\ haveSent' = FALSE /\ lastSent' = Zero /\ lastWriteOK' = FALSE
    /\ maintNow' = FALSE
    /\ eng' = Booting
    /\ consecFail' = FALSE /\ reconnects' = 0
    /\ req' = [r \in Requests |-> IdleRequest]
    /\ UNCHANGED <<persistent, lamp, phase, requests, faultVars>>

Next ==
    \/ Tick \/ TakeKick \/ TakeMaint \/ Daily
    \/ EngineStep
    \/ Reconnect
    \/ \E r \in Requests : NewRequest(r) \/ RequestStep(r)
    \/ Clock \/ Expire \/ PowerCycle \/ Drift \/ Restart

Spec == Init /\ [][Next]_vars

(***************************************************************************)
(* Fairness.  Goroutines are scheduled; Go's select picks at random among  *)
(* the ready cases, so a case that is ready whenever the loop comes back   *)
(* to it is taken in the end (SF); time passes.  The daily 04:00 pass is   *)
(* kept apart because some properties must hold without waiting for it.    *)
(***************************************************************************)
FairnessButDaily ==
    /\ WF_vars(EngineStep)
    /\ SF_vars(Tick) /\ SF_vars(TakeKick) /\ SF_vars(TakeMaint)
    /\ WF_vars(Reconnect) /\ WF_vars(Clock) /\ WF_vars(Expire)
    /\ \A r \in Requests : WF_vars(RequestStep(r))

FairSpecButDaily == Spec /\ FairnessButDaily
FairSpec == FairSpecButDaily /\ SF_vars(Daily)

-----------------------------------------------------------------------------
(* Properties                                                               *)

Held(by) == lamp.hold # None /\ lamp.hold.by = by

EnginePoints == {"select", "sync", "driftSnap", "driftRead", "rearmSnap",
                 "rearmPush", "read", "compute", "decide", "hand", "record"}
RequestPoints == {"idle", "rampRead", "rampApply", "republishSnap",
                  "republishPush", "clear", "pushSave", "handSave", "readSave"}

EngineLocals == [pc : EnginePoints, ret : {"select", "read"},
                 ov : Overrides \cup {None}, live : BOOLEAN, was : BOOLEAN,
                 now : Phases, out : Channels, ok : BOOLEAN, snap : Program]
RequestLocals == [pc : RequestPoints, op : {"start", "stop", "config"},
                  on : BOOLEAN, snap : Program]
LampStates == [sched : Schedules, mode : Modes, manual : Channels,
               hold : [ch : Channels, by : Drivers] \cup {None},
               clock : BOOLEAN]

(* Every variable has its type. *)
TypeOK ==
    /\ store \in Program /\ pushed \in BOOLEAN /\ fxRamp \in BOOLEAN
    /\ live \in BOOLEAN /\ expired \in BOOLEAN /\ overrideWas \in BOOLEAN
    /\ override \in Overrides \cup {None}
    /\ haveSent \in BOOLEAN /\ lastSent \in Channels /\ lastWriteOK \in BOOLEAN
    /\ tickNow \in BOOLEAN /\ maintNow \in BOOLEAN
    /\ eng \in EngineLocals
    /\ consecFail \in BOOLEAN /\ reconnects \in Nat
    /\ req \in [Requests -> RequestLocals]
    /\ lamp \in LampStates /\ phase \in Phases
    /\ clockLost \in BOOLEAN
    /\ requests \in Nat /\ faults \in Nat /\ restarts \in Nat

(* Somebody is on the way to the lamp with a command that replaces what it  *)
(* holds.                                                                   *)
RearmOwed ==
    \/ eng.pc \in {"rearmSnap", "rearmPush", "hand"}
    \/ eng.pc = "decide" /\ JustEnded
    \/ \E r \in Requests : req[r].pc \in {"republishSnap", "republishPush"}

OverrideRemembered ==
    Held("override") => overrideWas \/ live \/ RearmOwed

(* A start or config handler that read the ramp switch before a stop and    *)
(* applies it after: it turns the engine dormant and re-arms nothing.       *)
StaleCadence ==
    \E r \in Requests : /\ req[r].pc = "rampApply" /\ req[r].op # "stop"
                        /\ ~req[r].on

(* Engine.step works on copies, and its memory of the previous tick does    *)
(* not go stale under them: nobody else writes Engine.overrideWas, so the   *)
(* copy agrees with it until it is replaced, and from then on it says       *)
(* whether this tick drives an override.                                    *)
OverrideMemory ==
    /\ eng.pc = "compute" => eng.was = overrideWas
    /\ eng.pc \in {"decide", "hand", "record"} => overrideWas = (eng.ov # None)

(* While the lamp holds a Feed or Maintenance output, the daemon knows it   *)
(* has to take it back (overrideWas, live driving, or a re-arm under way);  *)
(* only a failed lamp command, a restart or a stale ramp handler can make   *)
(* it forget (Engine.step, rampStop, Republish).                            *)
ForgetOnlyByFailure ==
    [][OverrideRemembered /\ ~OverrideRemembered' =>
          \/ faults' # faults
          \/ restarts' # restarts
          \/ StaleCadence]_vars

AtRest == /\ eng.pc = "select" /\ ~tickNow
          /\ \A r \in Requests : req[r].pc = "idle"

(* "Feed/Maintenance must reach the lamp" (engine.go): with nothing under   *)
(* way, an active override is what the lamp holds.                          *)
OverrideShines ==
    AtRest /\ OverrideActive => lamp.hold # None /\ lamp.hold.ch = override.ch

(* Once users leave it alone, the lamp does not stay at an override value:  *)
(* the override expires and the schedule, or the live engine, takes over.   *)
OverrideLightEnds == <>[]~Held("override")

(* The lamp is a clock-driven device of its own: with nothing under way, a  *)
(* dormant engine has left no live value behind in it (effects.go,          *)
(* rampStop: "hand the lamp back its own 0x1007 schedule").                 *)
DormantLampRunsItself ==
    AtRest /\ ~live => ~Held("live")

(* Whatever stale re-arm, lost race of a save or lamp-side change came      *)
(* first, the drift check brings lamp and store together again.             *)
StoreReachesLamp == <>[](WorthKeeping => lamp.sched = store.sched)

(* The engine stays the live driver of a schedule that is not dark, and its *)
(* ticks do not miss a part of the day for good.                            *)
LiveForGood ==
    /\ <>[](live /\ store.mode = "auto" /\ store.sched # Blank)
    /\ \A p \in Phases : []<>(eng.pc = "compute" /\ eng.now = p)

(* An engine that stays the live driver keeps driving: whatever a push or a *)
(* user did to the lamp behind its cache (lastSent), its next new output is *)
(* sent.                                                                    *)
LiveEngineDrives == LiveForGood => []<>Held("live")

(* A live engine that met the dead link of a power-cycled lamp sets the     *)
(* lamp's clock once the link is back, "within seconds instead of at the    *)
(* next daily pass" (Lamp.do, MaintNow); only a time-sync that was lost     *)
(* after the write, and reported as done, keeps it from that.               *)
ReconnectResyncs ==
    LiveForGood => (~lamp.clock /\ consecFail ~> lamp.clock \/ clockLost)

=============================================================================
