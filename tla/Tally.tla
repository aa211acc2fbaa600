------------------------------- MODULE Tally -------------------------------
(***************************************************************************)
(* The counters of today's lamp writes (internal/tally) and the way main   *)
(* uses them: the engine and the HTTP handlers count, a goroutine saves    *)
(* every five minutes and once more when the daemon is told to stop, and   *)
(* main saves on its way out, which is when the process ends.  Both saves  *)
(* write the same temporary file and rename it.                            *)
(*                                                                         *)
(* Grain: a critical section of Counter.mu, or one file-system call.       *)
(* A write of 50 bytes is one call.  Files are inodes: a saver goes on     *)
(* writing to the file it opened after the other one has renamed it.       *)
(***************************************************************************)
EXTENDS Naturals

CONSTANTS
    MaxDay,     \* bound on the days that begin
    MaxWrites,  \* bound on the lamp writes that are counted
    MaxFaults,  \* bound on failed file-system calls and boots without the date
    MaxStarts   \* bound on starts of the daemon

ASSUME TallyAssumption ==
    /\ MaxDay \in Nat \ {0} /\ MaxWrites \in Nat /\ MaxFaults \in Nat
    /\ MaxStarts \in Nat

Savers == {"run", "main"}     \* Counter.Run and the deferred Save of main
Kinds  == {"auto", "manual"}
Unset  == 0                   \* the date a Pi shows before it has the time
Dates  == 0..MaxDay
Snapshot == [date : Dates, auto : Nat, manual : Nat]
Absent == [is |-> "absent"]
Empty  == [is |-> "empty"]
Mixed  == [is |-> "mixed"]    \* two texts of different lengths in one file
Contents == {Absent, Empty, Mixed} \cup Snapshot

VARIABLES
    proc,       \* the process: "up", "stopping" after the signal, "down"
    s, dirty,   \* fields of Counter
    sv,         \* the calls of Save
    file, tmp,  \* writes.json and writes.json.tmp
    day, clock, \* the date, and what time.Now makes of it
    made,       \* history: lamp writes by the date they were counted under
    excused,    \* history: what may make the file lose counts
    lost,       \* history: dates whose counters went down with the process
    saved,      \* history: writes, faults and starts so far
    done        \* savers that have begun their last Save

vars == <<proc, s, dirty, sv, file, tmp, day, clock, made, excused, lost, saved,
          done>>

Fresh(date) == [date |-> date, auto |-> 0, manual |-> 0]
IdleSaver == [pc |-> "idle", snap |-> Fresh(Unset), at |-> "gone"]
Busy == {w \in Savers : sv[w].pc # "idle"}

-----------------------------------------------------------------------------
(* Memory                                                                    *)

(* Mutant: the new date on the old counts. *)
RollDateOnly(snap, today) == [snap EXCEPT !.date = today]

Roll(snap, today) == IF snap.date = today THEN snap ELSE Fresh(today)


RollDirties(snap, today) == dirty \/ snap.date # today

(* Mutant: the counters always start from nothing. *)
LoadFresh == Fresh(clock)

(* Mutant: what is in the file is taken as it is. *)
LoadUnchecked == file

(* Load: what cannot be read is the zero snapshot, whose date is no date.    *)
Load == IF file \in Snapshot THEN Roll(file, clock) ELSE Fresh(clock)

(* AddAuto (engine) and AddManual (handlers), also while the server shuts    *)
(* down.                                                                     *)
Count(kind) ==
    /\ proc # "down" /\ saved.writes < MaxWrites
    /\ s' = [Roll(s, clock) EXCEPT ![kind] = @ + 1]
    /\ dirty' = TRUE
    /\ made' = [made EXCEPT ![clock][kind] = @ + 1]
    /\ saved' = [saved EXCEPT !.writes = @ + 1]
    /\ UNCHANGED <<proc, sv, file, tmp, day, clock, excused, lost, done>>

(* Today: even a reader rolls the counters over.                             *)
Today ==
    /\ proc # "down"
    /\ s' = Roll(s, clock) /\ dirty' = RollDirties(s, clock)
    /\ UNCHANGED <<proc, sv, file, tmp, day, clock, made, excused, lost, saved, done>>

-----------------------------------------------------------------------------
(* Save                                                                      *)

(* Counter.Run saves at every tick, and once more when it sees ctx.Done; a   *)
(* tick may still come before it does.  main saves once.                     *)
MaySave(w) == /\ sv[w].pc = "idle" /\ w \notin done
              /\ proc = "stopping" \/ (w = "run" /\ proc = "up")

Last(w) == IF proc = "up" THEN {done}
           ELSE {done \cup {w}} \cup (IF w = "run" THEN {done} ELSE {})

(* The last Save finds nothing to do.                                        *)
SaveNothing(w) ==
    /\ MaySave(w) /\ proc = "stopping" /\ ~dirty
    /\ done' = done \cup {w}
    /\ UNCHANGED <<proc, s, dirty, sv, file, tmp, day, clock, made, excused, lost,
                   saved>>

SaveBegin(w) ==
    /\ MaySave(w) /\ dirty
    /\ sv' = [sv EXCEPT ![w] = [pc |-> "open", snap |-> s, at |-> "gone"]]
    /\ dirty' = FALSE
    /\ done' \in Last(w)
    /\ excused' = [excused EXCEPT !.overlap = @ \/ Busy # {}]
    /\ UNCHANGED <<proc, s, file, tmp, day, clock, made, lost, saved>>

(* os.WriteFile creates or truncates the temporary file ...                  *)
SaveOpen(w) ==
    /\ sv[w].pc = "open"
    /\ tmp' = Empty
    /\ sv' = [sv EXCEPT ![w].pc = "write", ![w].at = "tmp"]
    /\ UNCHANGED <<proc, s, dirty, file, day, clock, made, excused, lost, saved, done>>

(* ... and writes from its start, over what the other one has written.       *)
Over(content, snap) == IF content = Empty THEN {snap} ELSE {snap, Mixed}

SaveWrite(w) ==
    /\ sv[w].pc = "write"
    /\ sv' = [sv EXCEPT ![w].pc = "rename"]
    /\ IF sv[w].at = "tmp" THEN tmp' \in Over(tmp, sv[w].snap) ELSE UNCHANGED tmp
    /\ IF sv[w].at = "file" THEN file' \in Over(file, sv[w].snap)
                            ELSE UNCHANGED file
    /\ UNCHANGED <<proc, s, dirty, day, clock, made, excused, lost, saved, done>>

Renamed(w) ==
    /\ sv[w].pc = "rename"
    /\ IF tmp = Absent
       THEN sv' = [sv EXCEPT ![w] = IdleSaver] /\ UNCHANGED <<file, tmp>>
       ELSE /\ file' = tmp /\ tmp' = Absent
            /\ sv' = [v \in Savers |->
                        CASE v = w -> IdleSaver
                          [] v # w /\ sv[v].at = "tmp"  -> [sv[v] EXCEPT !.at = "file"]
                          [] v # w /\ sv[v].at = "file" -> [sv[v] EXCEPT !.at = "gone"]
                          [] OTHER -> sv[v]]
    /\ UNCHANGED <<proc, s, day, clock, made, excused, lost, saved, done>>

(* Mutant: the counters are marked clean once they are on disk. *)
SaveRenameCleans(w) == Renamed(w) /\ dirty' = FALSE

SaveRename(w) == Renamed(w) /\ UNCHANGED dirty

(* A call fails: Save returns the error, which nobody looks at.              *)
SaveFail(w) ==
    /\ sv[w].pc # "idle" /\ saved.faults < MaxFaults
    /\ sv' = [sv EXCEPT ![w] = IdleSaver]
    /\ excused' = [excused EXCEPT !.failed = TRUE]
    /\ saved' = [saved EXCEPT !.faults = @ + 1]
    /\ UNCHANGED <<proc, s, dirty, file, tmp, day, clock, made, lost, done>>

SaveStep(w) == SaveNothing(w) \/ SaveBegin(w) \/ SaveOpen(w) \/ SaveWrite(w)
               \/ SaveRename(w)

-----------------------------------------------------------------------------
(* The process and the clock                                                 *)

Start ==
    /\ proc = "down" /\ saved.starts < MaxStarts
    /\ proc' = "up"
    /\ s' = Load
    /\ dirty' = (file \notin Snapshot \/ file.date # clock)
    /\ saved' = [saved EXCEPT !.starts = @ + 1]
    /\ done' = {}
    /\ UNCHANGED <<sv, file, tmp, day, clock, made, excused, lost>>

Signal ==
    /\ proc = "up"
    /\ proc' = "stopping"
    /\ UNCHANGED <<s, dirty, sv, file, tmp, day, clock, made, excused, lost,
                   saved, done>>

Down ==
    /\ proc' = "down"
    /\ sv' = [w \in Savers |-> IdleSaver]
    /\ lost' = IF dirty \/ Busy # {} THEN lost \cup {s.date} ELSE lost
    /\ UNCHANGED <<s, dirty, file, tmp, day, clock, made, excused, saved, done>>

(* main returns from its Save, whatever Counter.Run is doing and whatever has *)
(* been counted since.                                                       *)
Exit  == proc = "stopping" /\ "main" \in done /\ sv["main"].pc = "idle" /\ Down
Crash == proc # "down" /\ saved.starts < MaxStarts /\ Down

(* The Pi loses its power and comes up without the date.                     *)
Boot ==
    /\ proc = "down" /\ clock # Unset /\ saved.faults < MaxFaults
    /\ clock' = Unset
    /\ excused' = [excused EXCEPT !.noClock = TRUE]
    /\ saved' = [saved EXCEPT !.faults = @ + 1]
    /\ UNCHANGED <<proc, s, dirty, sv, file, tmp, day, made, lost, done>>

Ntp ==
    /\ clock # day
    /\ clock' = day
    /\ UNCHANGED <<proc, s, dirty, sv, file, tmp, day, made, excused, lost, saved, done>>

Midnight ==
    /\ day < MaxDay
    /\ day' = day + 1
    /\ clock' = IF clock = day THEN day + 1 ELSE clock
    /\ UNCHANGED <<proc, s, dirty, sv, file, tmp, made, excused, lost, saved, done>>

-----------------------------------------------------------------------------

NoCounts == [date \in Dates |-> [auto |-> 0, manual |-> 0]]

Init ==
    /\ proc = "down"
    /\ s = Fresh(Unset) /\ dirty = FALSE
    /\ sv = [w \in Savers |-> IdleSaver]
    /\ file = Absent /\ tmp = Absent
    /\ day = 1 /\ clock = 1
    /\ made = NoCounts
    /\ excused = [overlap |-> FALSE, failed |-> FALSE, noClock |-> FALSE]
    /\ saved = [writes |-> 0, faults |-> 0, starts |-> 0]
    /\ lost = {} /\ done = {}

Next ==
    \/ \E kind \in Kinds : Count(kind)
    \/ Today
    \/ \E w \in Savers : SaveStep(w) \/ SaveFail(w)
    \/ Start \/ Signal \/ Exit \/ Crash
    \/ Boot \/ Ntp \/ Midnight

Spec == Init /\ [][Next]_vars

(* The ticker and main save again and again, system calls return, and the    *)
(* process that is told to stop does so.  Nothing else is owed.              *)
Fairness ==
    /\ \A w \in Savers : WF_vars(SaveStep(w))
    /\ WF_vars(Exit)

FairSpec == Spec /\ Fairness

-----------------------------------------------------------------------------
(* Properties                                                                *)

TypeOK ==
    /\ proc \in {"up", "stopping", "down"}
    /\ s \in Snapshot /\ dirty \in BOOLEAN
    /\ sv \in [Savers -> [pc : {"idle", "open", "write", "rename"},
                          snap : Snapshot, at : {"tmp", "file", "gone"}]]
    /\ file \in Contents /\ tmp \in Contents
    /\ day \in Dates /\ clock \in Dates
    /\ made \in [Dates -> [auto : Nat, manual : Nat]]
    /\ excused \in [overlap : BOOLEAN, failed : BOOLEAN, noClock : BOOLEAN]
    /\ saved \in [writes : Nat, faults : Nat, starts : Nat]
    /\ lost \subseteq Dates /\ done \subseteq Savers

Honest(c) == c \in Snapshot => /\ c.auto <= made[c.date].auto
                               /\ c.manual <= made[c.date].manual

(* Across midnights, restarts, a clock that is not set and savers that write *)
(* into one file, "writes today" never claims a lamp write that was not made *)
(* under its date (roll, Load, Save).                                        *)
NeverOvercounts ==
    /\ Honest(s) /\ Honest(file) /\ Honest(tmp)
    /\ \A w \in Savers : Honest(sv[w].snap)

(* What a file or a copy says was written under a date.                      *)
Under(c, date) == IF c \in Snapshot /\ c.date = date
                  THEN [auto |-> c.auto, manual |-> c.manual]
                  ELSE [auto |-> 0, manual |-> 0]

(* The mark of a change is taken away before the file is written, but no     *)
(* change slips through: when no save is under way, none has failed and no   *)
(* two have overlapped, clean counters are on disk; and the file then has    *)
(* every write that was counted, today's and those since, unless the date    *)
(* was unknown or the process stopped with counters that were not saved yet  *)
(* (Save, roll, Load).                                                       *)
CleanIsSaved ==
    proc # "down" /\ ~dirty /\ Busy = {} /\ ~excused.overlap /\ ~excused.failed
        => /\ file = s
           /\ ~excused.noClock =>
                \A date \in (s.date .. MaxDay) \ lost : Under(file, date) = made[date]

(* Within one day the file never goes back to fewer writes, restarts         *)
(* included, unless two saves overlap or the Pi boots without the date       *)
(* (API.md: "survives a restart / OTA within the same local day").           *)
FileOnlyGrows ==
    [][(/\ file \in Snapshot /\ file' \in Snapshot /\ file'.date = file.date
        /\ ~excused'.overlap /\ ~excused'.noClock)
         => file'.auto >= file.auto /\ file'.manual >= file.manual]_vars


=============================================================================
