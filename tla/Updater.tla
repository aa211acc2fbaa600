------------------------------- MODULE Updater -------------------------------
(***************************************************************************)
(* Self-update of pi-bridge: the update loop and the apply handler, the    *)
(* files they move, the confirmation of a new release, systemd's view of   *)
(* the unit, and the rollback script it starts when the unit fails.        *)
(*                                                                         *)
(* Grain of atomicity.  One file-system call is one action, because the    *)
(* process can be stopped, or another goroutine run, between any two; a    *)
(* file written with os.WriteFile is truncated by one action and filled by *)
(* the next.  The steps of rollback.sh before it changes anything are one  *)
(* action: the daemon is down, so nothing else writes what it reads.       *)
(*                                                                         *)
(* None stands for a missing or an empty file, and for no process.         *)
(***************************************************************************)
EXTENDS Naturals

CONSTANTS
    Tags,         \* releases that may ever be offered on the channel
    Fleeting,     \* bound: releases that may be taken off it again
    Version,      \* parseTag: the numbers of a tag, as one natural number
    First,        \* the release install.sh put on the device
    Bad,          \* releases that exit within the 45 seconds of the grace
    Quick,        \* those that do so within 27 seconds: with RestartSec they
                  \* start StartLimitBurst times in StartLimitIntervalSec
    Appliers,     \* goroutines that may be in Updater.Apply
    Loop,         \* the goroutine of updateLoop; the others are apply handlers
    None,
    Burst,        \* StartLimitBurst
    MaxFaults,    \* bound on failed downloads, writes and restarts
    MaxCrashes,   \* bound on exits of releases that are not bad
    MaxReboots    \* bound on reboots of the host

Contents == {"none", "partial", "full"}
Points == {"idle", "open", "unpack", "rename", "record", "recording",
           "unlink", "symlink", "repoint", "restart", "restarting"}
ApplyLocals == [pc : Points, rel : Tags, at : {"tmp", "bin", "gone"}]
ScriptPoints == {"off", "decide", "link", "move", "record", "restart"}

ASSUME UpdaterAssumption ==
    /\ Version \in [Tags -> Nat]
    /\ First \in Tags \ Bad
    /\ Bad \subseteq Tags /\ Quick \subseteq Bad /\ Fleeting \subseteq Tags
    /\ None \notin Tags /\ None \notin Tags \X Tags
    /\ Burst \in Nat \ {0}
    /\ MaxFaults \in Nat /\ MaxCrashes \in Nat /\ MaxReboots \in Nat

VARIABLES
    offered,      \* releases with both assets on the configured channel
    auto,         \* autoUpdate, kept in config.json
    \* the install root
    current,      \* the release the link "current" leads to
    linkTmp,      \* current.tmp
    bin,          \* releases/<tag>/k7-pi-bridge
    tmp,          \* releases/<tag>/k7-pi-bridge.tmp
    previous,     \* state/PREVIOUS
    confirmed,    \* state/CONFIRMED
    rolledBack,   \* state/ROLLED_BACK
    \* systemd
    unit,         \* "active", "starting" or "failed"
    starts,       \* starts counted against StartLimitBurst
    opener,       \* the release whose start they are counted from
    job,          \* a restart job is queued
    run,          \* CurrentTag of the running process
    \* goroutines of the process, and rollback.sh
    grace,        \* ConfirmAfterStart: "off", "counting" or "writing"
    ap,           \* Updater.Apply: control point, release, where its file is
    script,       \* rollback.sh: control point and $running
    \* bounds and history
    faults, crashes, reboots,
    ran,          \* releases that have been running on this device
    rolled,       \* pairs a rollback has been recorded for
    trusted,      \* releases that have been confirmed
    withdrawn     \* releases that have been taken off the channel

files == <<current, linkTmp, bin, tmp, previous, confirmed, rolledBack>>
systemd == <<unit, starts, opener, job, run>>
bounds == <<faults, crashes, reboots>>
history == <<ran, rolled, trusted, withdrawn>>
vars == <<offered, auto, files, systemd, grace, ap, script, bounds, history>>

IdleApplier == [pc |-> "idle", rel |-> First, at |-> "gone"]

Init ==
    /\ offered = {First} /\ auto \in BOOLEAN
    /\ current = First /\ linkTmp = None
    /\ bin = [t \in Tags |-> IF t = First THEN "full" ELSE "none"]
    /\ tmp = [t \in Tags |-> "none"]
    /\ previous = None /\ confirmed = First /\ rolledBack = None
    /\ unit = "active" /\ starts = 1 /\ opener = First /\ job = FALSE
    /\ run = First
    /\ grace = "off"
    /\ ap = [a \in Appliers |-> IdleApplier]
    /\ script = [pc |-> "off", from |-> First]
    /\ faults = 0 /\ crashes = 0 /\ reboots = 0
    /\ ran = {First} /\ rolled = {} /\ trusted = {First}
    /\ withdrawn = {}

-----------------------------------------------------------------------------
(* Updater.Check and Updater.Apply, run by updateLoop and by the handler   *)
(* of POST /api/update/apply.                                              *)

\* Mutant: takes the oldest offered release.
OldestOffered == {t \in offered : /\ Version[t] > Version[run]
                                  /\ \A u \in offered : Version[u] >= Version[t]}

\* What Check returns: an offered release of the highest version, if that is
\* higher than the running one.  Suffixes such as -rc.1 do not count.
Newest == {t \in offered : /\ Version[t] > Version[run]
                           /\ \A u \in offered : Version[u] <= Version[t]}

\* updateLoop first looks two minutes after the start: the 45 seconds of
\* ConfirmAfterStart and the 120 of StartLimitIntervalSec are over.  The
\* handler may be called at any time.
MayCheck(a) == a = Loop => auto /\ grace = "off" /\ starts = 0

At(a, pc) == unit = "active" /\ ap[a].pc = pc
Goto(a, pc) == ap' = [ap EXCEPT ![a].pc = pc]
Rest(others) == UNCHANGED <<offered, auto, systemd, grace, script, bounds,
                            history>> /\ UNCHANGED others

Check(a) ==
    /\ At(a, "idle") /\ MayCheck(a)
    /\ \E t \in Newest :
          ap' = [ap EXCEPT ![a] = [pc |-> "open", rel |-> t, at |-> "gone"]]
    /\ Rest(files)

\* os.WriteFile opens and truncates.  Goroutines unpacking the same release
\* share the file: what an earlier one still writes no longer completes it.
OpenTmp(a) ==
    LET t == ap[a].rel IN
    /\ At(a, "open")
    /\ tmp' = [tmp EXCEPT ![t] = "partial"]
    /\ ap' = [b \in Appliers |->
                IF b = a THEN [ap[a] EXCEPT !.pc = "unpack", !.at = "tmp"]
                ELSE IF ap[b].rel = t /\ ap[b].at = "tmp"
                     THEN [ap[b] EXCEPT !.at = "gone"]
                     ELSE ap[b]]
    /\ Rest(<<current, linkTmp, bin, previous, confirmed, rolledBack>>)

\* Mutant: a download that was cut short is not noticed.
WriteShort(a) ==
    /\ At(a, "unpack")
    /\ Goto(a, "rename")
    /\ Rest(files)

\* The file being filled may meanwhile have been renamed by another goroutine.
WriteTmp(a) ==
    LET t == ap[a].rel IN
    /\ At(a, "unpack")
    /\ tmp' = IF ap[a].at = "tmp" THEN [tmp EXCEPT ![t] = "full"] ELSE tmp
    /\ bin' = IF ap[a].at = "bin" THEN [bin EXCEPT ![t] = "full"] ELSE bin
    /\ Goto(a, "rename")
    /\ Rest(<<current, linkTmp, previous, confirmed, rolledBack>>)

Renamed(place) == IF place = "tmp" THEN "bin" ELSE "gone"

\* Mutant: the unpacked binary stays under its temporary name.
RenameForgotten(a) ==
    /\ At(a, "rename")
    /\ Goto(a, "record")
    /\ Rest(files)

\* Mutant: the rollback target is not recorded.
RenameUnrecorded(a) ==
    LET t == ap[a].rel IN
    /\ At(a, "rename") /\ tmp[t] # "none"
    /\ bin' = [bin EXCEPT ![t] = tmp[t]]
    /\ tmp' = [tmp EXCEPT ![t] = "none"]
    /\ Goto(a, "unlink")
    /\ Rest(<<current, linkTmp, previous, confirmed, rolledBack>>)

RenameTmp(a) ==
    LET t == ap[a].rel IN
    /\ At(a, "rename") /\ tmp[t] # "none"
    /\ bin' = [bin EXCEPT ![t] = tmp[t]]
    /\ tmp' = [tmp EXCEPT ![t] = "none"]
    /\ ap' = [b \in Appliers |->
                LET moved == IF ap[b].rel = t
                             THEN [ap[b] EXCEPT !.at = Renamed(ap[b].at)]
                             ELSE ap[b]
                IN IF b = a THEN [moved EXCEPT !.pc = "record"] ELSE moved]
    /\ Rest(<<current, linkTmp, previous, confirmed, rolledBack>>)

\* state/PREVIOUS becomes the running release, whatever "current" leads to.
RecordOpen(a) ==
    /\ At(a, "record")
    /\ previous' = None
    /\ Goto(a, "recording")
    /\ Rest(<<current, linkTmp, bin, tmp, confirmed, rolledBack>>)

\* Mutant: PREVIOUS is what "current" leads to.
RecordCurrent(a) ==
    /\ At(a, "recording")
    /\ previous' = current
    /\ Goto(a, "unlink")
    /\ Rest(<<current, linkTmp, bin, tmp, confirmed, rolledBack>>)

RecordWrite(a) ==
    /\ At(a, "recording")
    /\ previous' = run
    /\ Goto(a, "unlink")
    /\ Rest(<<current, linkTmp, bin, tmp, confirmed, rolledBack>>)

\* The three calls of atomicSymlink.
Unlink(a) ==
    /\ At(a, "unlink")
    /\ linkTmp' = None
    /\ Goto(a, "symlink")
    /\ Rest(<<current, bin, tmp, previous, confirmed, rolledBack>>)

Symlink(a) ==
    /\ At(a, "symlink") /\ linkTmp = None
    /\ linkTmp' = ap[a].rel
    /\ Goto(a, "repoint")
    /\ Rest(<<current, bin, tmp, previous, confirmed, rolledBack>>)

Repoint(a) ==
    /\ At(a, "repoint") /\ linkTmp # None
    /\ current' = linkTmp /\ linkTmp' = None
    /\ Goto(a, "restart")
    /\ Rest(<<bin, tmp, previous, confirmed, rolledBack>>)

\* systemctl restart queues a job and waits for it; the wait ends with the
\* process.
RequestRestart(a) ==
    /\ At(a, "restart")
    /\ job' = TRUE
    /\ Goto(a, "restarting")
    /\ UNCHANGED <<offered, auto, files, unit, starts, opener, run, grace,
                   script, bounds, history>>

\* A file another goroutine has moved, or a link it has just made.
Disturbed(a) ==
    /\ \/ At(a, "rename") /\ tmp[ap[a].rel] = "none"
       \/ At(a, "symlink") /\ linkTmp # None
       \/ At(a, "repoint") /\ linkTmp = None
    /\ Goto(a, "idle")
    /\ Rest(files)

Fault == faults < MaxFaults /\ faults' = faults + 1

\* A download, checksum, disk or systemctl error: Apply returns it.
Fail(a) ==
    /\ unit = "active"
    /\ ap[a].pc \in Points \ {"idle", "record", "recording", "restarting"}
    /\ Fault
    /\ Goto(a, "idle")
    /\ UNCHANGED <<offered, auto, files, systemd, grace, script, crashes,
                   reboots, history>>

\* Errors of writing PREVIOUS are ignored.
RecordFail(a) ==
    /\ unit = "active" /\ ap[a].pc \in {"record", "recording"}
    /\ Fault
    /\ Goto(a, "unlink")
    /\ UNCHANGED <<offered, auto, files, systemd, grace, script, crashes,
                   reboots, history>>

Apply(a) ==
    \/ Check(a) \/ OpenTmp(a) \/ WriteTmp(a) \/ RenameTmp(a)
    \/ RecordOpen(a) \/ RecordWrite(a)
    \/ Unlink(a) \/ Symlink(a) \/ Repoint(a) \/ RequestRestart(a)
    \/ Disturbed(a)

-----------------------------------------------------------------------------
(* ConfirmAfterStart: healthy() is the constant TRUE of main.go, so only   *)
(* the 45 seconds count.                                                   *)

ConfirmOpen ==
    /\ unit = "active" /\ grace = "counting" /\ run \notin Bad
    /\ confirmed' = None
    /\ grace' = "writing"
    /\ UNCHANGED <<offered, auto, current, linkTmp, bin, tmp, previous,
                   rolledBack, systemd, ap, script, bounds, history>>

ConfirmWrite ==
    /\ unit = "active" /\ grace = "writing"
    /\ confirmed' = run
    /\ grace' = "off"
    /\ trusted' = trusted \cup {run}
    /\ UNCHANGED <<offered, auto, current, linkTmp, bin, tmp, previous,
                   rolledBack, systemd, ap, script, bounds, ran, rolled,
                   withdrawn>>

ConfirmFail ==
    /\ unit = "active" /\ run \notin Bad /\ grace # "off"
    /\ Fault
    /\ grace' = "off"
    /\ UNCHANGED <<offered, auto, files, systemd, ap, script, crashes,
                   reboots, history>>

-----------------------------------------------------------------------------
(* systemd: k7-pi-bridge.service.                                          *)

\* The process and its goroutines are gone.
Gone ==
    /\ run' = None /\ job' = FALSE
    /\ grace' = "off"
    /\ ap' = [a \in Appliers |-> IdleApplier]

\* A start within the window, or the first one of the next.
Counted ==
    /\ starts' = starts + 1
    /\ opener' = IF starts = 0 THEN current ELSE opener

\* Mutant: no start limit.
StartUnlimited ==
    /\ unit = "starting" /\ bin[current] = "full"
    /\ unit' = "active" /\ run' = current /\ Counted
    /\ grace' = IF confirmed = current THEN "off" ELSE "counting"
    /\ ran' = ran \cup {current}
    /\ UNCHANGED <<offered, auto, files, job, ap, script, bounds, rolled,
                   trusted, withdrawn>>

\* Mutant: every start confirms again.
StartUnconfirmed ==
    /\ unit = "starting" /\ starts < Burst /\ bin[current] = "full"
    /\ unit' = "active" /\ run' = current /\ Counted
    /\ grace' = "counting"
    /\ ran' = ran \cup {current}
    /\ UNCHANGED <<offered, auto, files, job, ap, script, bounds, rolled,
                   trusted, withdrawn>>

Start ==
    /\ unit = "starting" /\ starts < Burst /\ bin[current] = "full"
    /\ unit' = "active" /\ run' = current /\ Counted
    /\ grace' = IF confirmed = current THEN "off" ELSE "counting"
    /\ ran' = ran \cup {current}
    /\ UNCHANGED <<offered, auto, files, job, ap, script, bounds, rolled,
                   trusted, withdrawn>>

\* A binary that is missing or cut short does not execute.
StartFail ==
    /\ unit = "starting" /\ starts < Burst /\ bin[current] # "full"
    /\ Counted
    /\ UNCHANGED <<offered, auto, files, unit, job, run, grace, ap, script,
                   bounds, history>>

\* StartLimitBurst is reached: the unit fails, OnFailure starts rollback.sh.
GiveUp ==
    /\ unit = "starting" /\ starts = Burst
    /\ unit' = "failed"
    /\ script' = [script EXCEPT !.pc = "decide"]
    /\ UNCHANGED <<offered, auto, files, starts, opener, job, run, grace, ap,
                   bounds, history>>

\* StartLimitIntervalSec passes, unless the release that opened the window
\* uses its starts up before.
WindowPasses ==
    /\ unit # "failed" /\ starts > 0
    /\ opener = current => current \notin Quick /\ bin[current] = "full"
    /\ starts' = 0 /\ opener' = None
    /\ UNCHANGED <<offered, auto, files, unit, job, run, grace, ap, script,
                   bounds, history>>

RunRestartJob ==
    /\ unit = "active" /\ job
    /\ Gone /\ unit' = "starting"
    /\ UNCHANGED <<offered, auto, files, starts, opener, script, bounds, history>>

BadExit ==
    /\ unit = "active" /\ run \in Bad
    /\ Gone /\ unit' = "starting"
    /\ UNCHANGED <<offered, auto, files, starts, opener, script, bounds, history>>

Crash ==
    /\ unit = "active" /\ run \notin Bad /\ crashes < MaxCrashes
    /\ crashes' = crashes + 1
    /\ Gone /\ unit' = "starting"
    /\ UNCHANGED <<offered, auto, files, starts, opener, script, faults,
                   reboots, history>>

Reboot ==
    /\ reboots < MaxReboots /\ reboots' = reboots + 1
    /\ Gone /\ unit' = "starting" /\ starts' = 0 /\ opener' = None
    /\ script' = [script EXCEPT !.pc = "off"]
    /\ UNCHANGED <<offered, auto, files, faults, crashes, history>>

-----------------------------------------------------------------------------
(* rollback.sh                                                             *)

ScriptAt(pc) == unit = "failed" /\ script.pc = pc
\* Mutant: ROLLED_BACK is not looked at.
MayAlwaysRollBack ==
    /\ current # confirmed
    /\ previous # None /\ previous # current
    /\ bin[previous] # "none"

MayRollBack ==
    /\ current # confirmed
    /\ previous # None /\ previous # current
    /\ rolledBack # <<current, previous>>
    /\ bin[previous] # "none"

ScriptDecide ==
    /\ ScriptAt("decide")
    /\ script' = IF MayRollBack THEN [pc |-> "link", from |-> current]
                                ELSE [script EXCEPT !.pc = "off"]
    /\ UNCHANGED <<offered, auto, files, systemd, grace, ap, bounds, history>>

ScriptLink ==
    /\ ScriptAt("link")
    /\ linkTmp' = previous
    /\ script' = [script EXCEPT !.pc = "move"]
    /\ UNCHANGED <<offered, auto, current, bin, tmp, previous, confirmed,
                   rolledBack, systemd, grace, ap, bounds, history>>

ScriptMove ==
    /\ ScriptAt("move")
    /\ current' = linkTmp /\ linkTmp' = None
    /\ script' = [script EXCEPT !.pc = "record"]
    /\ UNCHANGED <<offered, auto, bin, tmp, previous, confirmed, rolledBack,
                   systemd, grace, ap, bounds, history>>

ScriptRecord ==
    /\ ScriptAt("record")
    /\ rolledBack' = <<script.from, previous>>
    /\ script' = [script EXCEPT !.pc = "restart"]
    /\ rolled' = rolled \cup {<<script.from, previous>>}
    /\ UNCHANGED <<offered, auto, current, linkTmp, bin, tmp, previous,
                   confirmed, systemd, grace, ap, bounds, ran, trusted,
                   withdrawn>>

\* Mutant: the script leaves the unit as it is.
ScriptNoRestart ==
    /\ ScriptAt("restart")
    /\ script' = [script EXCEPT !.pc = "off"]
    /\ UNCHANGED <<offered, auto, files, systemd, grace, ap, bounds, history>>

\* PROGRESS.md records that this restart is accepted although the unit has
\* just used up its starts.
ScriptRestart ==
    /\ ScriptAt("restart")
    /\ unit' = "starting" /\ starts' = 0 /\ opener' = None
    /\ script' = [script EXCEPT !.pc = "off"]
    /\ UNCHANGED <<offered, auto, files, job, run, grace, ap, bounds, history>>

Script == ScriptDecide \/ ScriptLink \/ ScriptMove \/ ScriptRecord
          \/ ScriptRestart

-----------------------------------------------------------------------------
(* The channel as Check sees it, and the switch of a user.                 *)

\* A release is published, or the user changes to the prerelease channel.
Publish ==
    /\ \E t \in Tags \ offered : offered' = offered \cup {t}
    /\ UNCHANGED <<auto, files, systemd, grace, ap, script, bounds, history>>

\* A release is deleted, loses an asset or becomes a draft or a prerelease, or
\* the user changes back to the stable channel (POST /api/app/config).
Withdraw ==
    /\ \E t \in offered \cap Fleeting : /\ offered' = offered \ {t}
                                       /\ withdrawn' = withdrawn \cup {t}
    /\ UNCHANGED <<auto, files, systemd, grace, ap, script, bounds, ran, rolled,
                   trusted>>

\* POST /api/update/config
SetAuto ==
    /\ unit = "active"
    /\ auto' = ~auto
    /\ UNCHANGED <<offered, files, systemd, grace, ap, script, bounds, history>>

Next ==
    \/ \E a \in Appliers : Apply(a) \/ Fail(a) \/ RecordFail(a)
    \/ ConfirmOpen \/ ConfirmWrite \/ ConfirmFail
    \/ Start \/ StartFail \/ GiveUp \/ WindowPasses \/ RunRestartJob
    \/ BadExit \/ Crash \/ Reboot
    \/ Script
    \/ Publish \/ Withdraw \/ SetAuto

Spec == Init /\ [][Next]_vars

\* systemd, the script and the goroutines go on; calls of the handler, faults,
\* crashes, reboots and what happens to the channel are never owed.  The two
\* minutes of StartLimitIntervalSec pass, and a bad release exits.
Fairness ==
    /\ \A a \in Appliers : WF_vars(Apply(a) /\ (a = Loop \/ ap[a].pc # "idle"))
    /\ WF_vars(ConfirmOpen) /\ WF_vars(ConfirmWrite)
    /\ WF_vars(Start) /\ WF_vars(StartFail) /\ WF_vars(GiveUp)
    /\ WF_vars(RunRestartJob) /\ WF_vars(BadExit) /\ WF_vars(WindowPasses)
    /\ WF_vars(Script)

LiveSpec == Spec /\ Fairness

-----------------------------------------------------------------------------
(* Properties *)

\* Types of the files, of systemd's view and of the goroutines' locals.
TypeOK ==
    /\ offered \subseteq Tags /\ auto \in BOOLEAN
    /\ current \in Tags /\ linkTmp \in Tags \cup {None}
    /\ bin \in [Tags -> Contents] /\ tmp \in [Tags -> Contents]
    /\ previous \in Tags \cup {None} /\ confirmed \in Tags \cup {None}
    /\ rolledBack \in (Tags \X Tags) \cup {None}
    /\ unit \in {"active", "starting", "failed"}
    /\ starts \in 0..Burst /\ opener \in Tags \cup {None} /\ job \in BOOLEAN
    /\ run \in Tags \cup {None}
    /\ grace \in {"off", "counting", "writing"}
    /\ ap \in [Appliers -> ApplyLocals]
    /\ script \in [pc : ScriptPoints, from : Tags]
    /\ faults \in 0..MaxFaults /\ crashes \in 0..MaxCrashes
    /\ reboots \in 0..MaxReboots
    /\ ran \subseteq Tags /\ rolled \subseteq Tags \X Tags
    /\ trusted \subseteq Tags /\ withdrawn \subseteq Tags

\* Whatever stops an update half-way, the link leads to a complete binary: one
\* Apply never exposes what it is still unpacking, and rollback.sh only goes
\* back to something complete.  Two Apply at once break it.
CurrentComplete == bin[current] = "full"

\* PREVIOUS only ever names a release that has been running here, although a
\* failed restart leaves "current" at one that has not.
RollbackTargetRan == previous # None => previous \in ran

\* With updates from the loop alone, at every moment an unconfirmed release is
\* linked there is a complete release to go back to.
UndoPossible ==
    current # confirmed => previous # None /\ bin[previous] = "full"

\* Check chooses the highest release on the channel; what was above a release
\* and has been withdrawn no longer keeps it from choosing that one.
WithdrawnAbove(t) == \E u \in withdrawn : Version[u] > Version[t]

\* rollback.sh never leaves a release that has been confirmed, although each
\* start of the daemon decides anew whether to write CONFIRMED; unless one above
\* it was withdrawn, and it was installed a second time.
ConfirmedStands ==
    [][script.pc = "move" /\ current' # current
         => script.from \notin trusted \/ WithdrawnAbove(script.from)]_vars

\* The link goes back a second time along a pair that was recorded.
GoesBackAgain == /\ script.pc = "move" /\ current' # current
                 /\ <<script.from, previous>> \in rolled

\* The link never goes back again along a pair that was recorded, although the
\* file only holds the last one and the loop reinstalls what was rolled back; as
\* long as neither that release nor one above it is withdrawn.
NoPingPong ==
    [][GoesBackAgain
         => script.from \in withdrawn \/ WithdrawnAbove(script.from)]_vars

\* Every step of an update installs a release, moves the link to an installed
\* one, or changes nothing a start of the daemon depends on.
Installed == {t \in Tags : bin[t] = "full"}
Disk == INSTANCE Installation WITH installed <- Installed
DiskSpec == Disk!Spec

\* A good release of the highest version that is offered while the automatic
\* update is on, no bad one being offered, ends up running and stays, across
\* crashes and a reboot anywhere in the update.
Top(t) == \A u \in Tags \ {t} : Version[u] < Version[t]
GoodUpdateLands ==
    \A t \in Tags \ Bad :
        Top(t) /\ [](auto /\ offered \cap Bad = {}) /\ <>[](t \in offered)
            => <>[](run = t)

\* The first release that exits within 27 seconds of its starts and became
\* current is left again for one that runs, although the script itself may be
\* cut off by a reboot.  A slower one never uses up its starts (StartLimitBurst).
BadUpdateUndone ==
    current \in Quick /\ rolledBack = None ~> unit = "active" /\ run \notin Bad
=============================================================================
