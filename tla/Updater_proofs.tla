--------------------------- MODULE Updater_proofs ---------------------------
(***************************************************************************)
(* Proofs about Updater, for any releases, start limit and bounds:         *)
(*   TypeCorrect              the type invariant                           *)
(*   RollbackTargetCorrect    PREVIOUS names a release that has been       *)
(*                            running, for any number of Apply goroutines  *)
(*   CurrentCompleteCorrect   the link leads to a complete binary, when    *)
(*                            one goroutine at a time is in Apply          *)
(*   DiskImplemented          Updater implements Installation, under the   *)
(*                            same assumption                              *)
(*   UndoPossibleCorrect      while an unconfirmed release is linked there *)
(*                            is one to go back to, when only the loop     *)
(*                            updates and no call fails                    *)
(*   ConfirmedStandsCorrect   a confirmed release is not rolled back, and  *)
(*   NoPingPongCorrect        no pair of releases is rolled back twice, if *)
(*                            no two have the same numbers; both for any   *)
(*                            releases put on and taken off the channel,   *)
(*                            as long as none above is taken off           *)
(* TypeOK is not inductive: rollback.sh puts PREVIOUS into the link, and   *)
(* that it is not empty by then follows from ScriptReady, which says that  *)
(* the daemon is down as long as the script is working.                    *)
(***************************************************************************)
EXTENDS Updater, TLAPS

\* The daemon has a process exactly while the unit is active; the script works
\* while the unit has failed, with the PREVIOUS it decided on.
ScriptReady ==
    /\ run # None <=> unit = "active"
    /\ script.pc # "off" => unit = "failed"
    /\ script.pc \in {"link", "move", "record"} => previous # None
    /\ script.pc = "move" => linkTmp # None

TInv == TypeOK /\ ScriptReady

LEMMA ConstantFacts ==
  /\ First \in Tags /\ None \notin Tags
  /\ Burst \in Nat /\ 1 <= Burst
  /\ MaxFaults \in Nat /\ MaxCrashes \in Nat /\ MaxReboots \in Nat
  BY UpdaterAssumption

LEMMA TInit == Init => TInv
<1> SUFFICES ASSUME Init PROVE TInv
  OBVIOUS
<1> USE ConstantFacts DEF Init
<1>1. /\ offered \subseteq Tags /\ auto \in BOOLEAN
      /\ current \in Tags /\ linkTmp \in Tags \cup {None}
      /\ previous \in Tags \cup {None} /\ confirmed \in Tags \cup {None}
      /\ run \in Tags \cup {None}
      /\ rolledBack \in (Tags \X Tags) \cup {None}
      /\ ran \subseteq Tags /\ rolled \subseteq Tags \X Tags
      /\ trusted \subseteq Tags /\ withdrawn \subseteq Tags
      /\ opener \in Tags \cup {None}
  OBVIOUS
<1>2. /\ bin \in [Tags -> Contents] /\ tmp \in [Tags -> Contents]
      /\ ap \in [Appliers -> ApplyLocals]
      /\ script \in [pc : ScriptPoints, from : Tags]
  BY DEF Contents, Points, ApplyLocals, ScriptPoints, IdleApplier
<1>3. starts \in 0..Burst /\ faults \in 0..MaxFaults
      /\ crashes \in 0..MaxCrashes /\ reboots \in 0..MaxReboots
  OBVIOUS
<1>4. ScriptReady
  BY DEF ScriptReady
<1> QED  BY <1>1, <1>2, <1>3, <1>4 DEF TInv, TypeOK

\* A goroutine that goes on to another control point stays typed.
LEMMA GotoTypes ==
  ASSUME NEW a \in Appliers, NEW pc \in Points,
         ap \in [Appliers -> ApplyLocals]
  PROVE  [ap EXCEPT ![a].pc = pc] \in [Appliers -> ApplyLocals]
<1>1. [ap[a] EXCEPT !.pc = pc] \in ApplyLocals
  BY DEF ApplyLocals
<1> QED  BY <1>1

\* The locals of one goroutine stay typed when OpenTmp or RenameTmp of another
\* moves its file.
LEMMA OpenedTypes ==
  ASSUME NEW a \in Appliers, NEW b \in Appliers,
         ap \in [Appliers -> ApplyLocals]
  PROVE  (IF b = a THEN [ap[a] EXCEPT !.pc = "unpack", !.at = "tmp"]
          ELSE IF ap[b].rel = ap[a].rel /\ ap[b].at = "tmp"
               THEN [ap[b] EXCEPT !.at = "gone"]
               ELSE ap[b])
         \in ApplyLocals
<1> USE DEF ApplyLocals
<1>1. "unpack" \in Points
  BY DEF Points
<1>2. /\ ap[a] \in ApplyLocals
      /\ ap[b] \in ApplyLocals
  OBVIOUS
<1>3. [ap[a] EXCEPT !.pc = "unpack", !.at = "tmp"]
        \in ApplyLocals
  BY <1>1, <1>2
<1>4. [ap[b] EXCEPT !.at = "gone"]
        \in ApplyLocals
  BY <1>2
<1> QED  BY <1>2, <1>3, <1>4

LEMMA RenamedTypes ==
  ASSUME NEW a \in Appliers, NEW b \in Appliers,
         ap \in [Appliers -> ApplyLocals]
  PROVE  (LET moved == IF ap[b].rel = ap[a].rel
                       THEN [ap[b] EXCEPT !.at = Renamed(ap[b].at)]
                       ELSE ap[b]
          IN IF b = a THEN [moved EXCEPT !.pc = "record"] ELSE moved)
         \in ApplyLocals
<1> DEFINE moved == IF ap[b].rel = ap[a].rel
                    THEN [ap[b] EXCEPT !.at = Renamed(ap[b].at)] ELSE ap[b]
<1> USE DEF ApplyLocals
<1>1. "record" \in Points
  BY DEF Points
<1>2. ap[b] \in ApplyLocals
  OBVIOUS
<1>3. moved \in ApplyLocals
  BY <1>2 DEF Renamed
<1>4. [moved EXCEPT !.pc = "record"]
        \in ApplyLocals
  <2> HIDE DEF moved
  <2> QED  BY <1>1, <1>3
<1> QED  BY <1>3, <1>4

\* Steps of Updater.Apply.
LEMMA TApply ==
  ASSUME TInv, NEW a \in Appliers, Apply(a) \/ Fail(a) \/ RecordFail(a)
  PROVE  TInv'
<1> USE ConstantFacts
<1> USE DEF TInv, TypeOK, ScriptReady, Rest, At, files, systemd, bounds, history
<1>p. {"idle", "open", "rename", "recording", "unlink", "symlink", "repoint",
       "restart", "restarting"} \subseteq Points
  BY DEF Points
<1>q. \A pc \in Points : Goto(a, pc) => ap' \in [Appliers -> ApplyLocals]
  <2>1. ap \in [Appliers -> ApplyLocals]
    OBVIOUS
  <2> QED  BY <2>1, GotoTypes DEF Goto
<1>g. \A pc \in {"idle", "open", "rename", "recording", "unlink", "symlink",
                 "repoint", "restart", "restarting"} :
        Goto(a, pc) => ap' \in [Appliers -> ApplyLocals]
  BY <1>p, <1>q
<1>c. /\ {"none", "partial", "full"} \subseteq Contents
      /\ \A t \in Tags : bin[t] \in Contents /\ tmp[t] \in Contents
  BY DEF Contents
<1>1. CASE Check(a)
  <2>1. PICK t \in Newest :
          ap' = [ap EXCEPT ![a] = [pc |-> "open", rel |-> t, at |-> "gone"]]
    BY <1>1 DEF Check
  <2>2. t \in Tags
    BY DEF Newest
  <2>3. ap' \in [Appliers -> ApplyLocals]
    BY <2>1, <2>2 DEF ApplyLocals, Points
  <2> QED  BY <1>1, <2>3 DEF Check
<1>2. CASE OpenTmp(a)
  <2>1. ap' \in [Appliers -> ApplyLocals]
    BY <1>2, OpenedTypes DEF OpenTmp
  <2>2. ap[a].rel \in Tags
    BY DEF ApplyLocals
  <2> QED  BY <1>2, <1>c, <2>1, <2>2 DEF OpenTmp
<1>3. CASE WriteTmp(a)
  BY <1>3, <1>g, <1>c DEF WriteTmp, ApplyLocals
<1>4. CASE RenameTmp(a)
  <2>1. ap' \in [Appliers -> ApplyLocals]
    BY <1>4, RenamedTypes DEF RenameTmp
  <2>2. ap[a].rel \in Tags
    BY DEF ApplyLocals
  <2> QED  BY <1>4, <1>c, <2>1, <2>2 DEF RenameTmp
<1>5. CASE RecordOpen(a)
  BY <1>5, <1>g DEF RecordOpen
<1>6. CASE RecordWrite(a)
  BY <1>6, <1>g DEF RecordWrite
<1>7. CASE Unlink(a)
  BY <1>7, <1>g DEF Unlink
<1>8. CASE Symlink(a)
  BY <1>8, <1>g DEF Symlink, ApplyLocals
<1>9. CASE Repoint(a)
  BY <1>9, <1>g DEF Repoint
<1>10. CASE RequestRestart(a)
  BY <1>10, <1>g DEF RequestRestart
<1>11. CASE Disturbed(a)
  BY <1>11, <1>g DEF Disturbed
<1>12. CASE Fail(a)
  BY <1>12, <1>g DEF Fail, Fault
<1>13. CASE RecordFail(a)
  BY <1>13, <1>g DEF RecordFail, Fault
<1> QED
  BY <1>1, <1>2, <1>3, <1>4, <1>5, <1>6, <1>7, <1>8, <1>9, <1>10, <1>11,
     <1>12, <1>13 DEF Apply

\* Everything else.
LEMMA TOther ==
  ASSUME TInv,
         \/ ConfirmOpen \/ ConfirmWrite \/ ConfirmFail
         \/ Start \/ StartFail \/ GiveUp \/ WindowPasses \/ RunRestartJob
         \/ BadExit \/ Crash \/ Reboot \/ Script \/ Publish \/ Withdraw
         \/ SetAuto
  PROVE  TInv'
<1> USE ConstantFacts
<1> USE DEF TInv, TypeOK, ScriptReady, files, systemd, bounds, history,
            ScriptPoints
<1>1. CASE ConfirmOpen
  BY <1>1 DEF ConfirmOpen
<1>2. CASE ConfirmWrite
  BY <1>2 DEF ConfirmWrite
<1>3. CASE ConfirmFail
  BY <1>3 DEF ConfirmFail, Fault
<1>4. CASE Start
  BY <1>4 DEF Start, Counted
<1>5. CASE StartFail
  BY <1>5 DEF StartFail, Counted
<1>6. CASE GiveUp
  BY <1>6 DEF GiveUp
<1>7. CASE WindowPasses
  BY <1>7 DEF WindowPasses
<1>8. Gone => /\ ap' \in [Appliers -> ApplyLocals]
              /\ run' = None /\ job' = FALSE /\ grace' = "off"
  BY DEF Gone, IdleApplier, ApplyLocals, Points
<1>9. CASE RunRestartJob
  BY <1>8, <1>9 DEF RunRestartJob
<1>10. CASE BadExit
  BY <1>8, <1>10 DEF BadExit
<1>11. CASE Crash
  <2>1. crashes' \in 0..MaxCrashes
    BY <1>11 DEF Crash
  <2> QED  BY <1>8, <1>11, <2>1 DEF Crash
<1>12. CASE Reboot
  <2>1. reboots' \in 0..MaxReboots /\ starts' \in 0..Burst
    BY <1>12 DEF Reboot
  <2> QED  BY <1>8, <1>12, <2>1 DEF Reboot
<1>13. CASE Script
  <2>1. CASE ScriptDecide
    BY <2>1 DEF ScriptDecide, ScriptAt, MayRollBack
  <2>2. CASE ScriptLink
    BY <2>2 DEF ScriptLink, ScriptAt
  <2>3. CASE ScriptMove
    BY <2>3 DEF ScriptMove, ScriptAt
  <2>4. CASE ScriptRecord
    BY <2>4 DEF ScriptRecord, ScriptAt
  <2>5. CASE ScriptRestart
    BY <2>5 DEF ScriptRestart, ScriptAt
  <2> QED  BY <1>13, <2>1, <2>2, <2>3, <2>4, <2>5 DEF Script
<1>14. CASE Publish
  BY <1>14 DEF Publish
<1>15. CASE Withdraw
  BY <1>15 DEF Withdraw
<1>16. CASE SetAuto
  BY <1>16 DEF SetAuto
<1> QED
  BY <1>1, <1>2, <1>3, <1>4, <1>5, <1>6, <1>7, <1>9, <1>10, <1>11, <1>12,
     <1>13, <1>14, <1>15, <1>16

LEMMA TNext == TInv /\ [Next]_vars => TInv'
<1> SUFFICES ASSUME TInv, [Next]_vars PROVE TInv'
  OBVIOUS
<1>1. CASE \E a \in Appliers : Apply(a) \/ Fail(a) \/ RecordFail(a)
  BY <1>1, TApply
<1>2. CASE UNCHANGED vars
  BY <1>2 DEF vars, files, systemd, bounds, history, TInv, TypeOK, ScriptReady
<1> QED  BY <1>1, <1>2, TOther DEF Next

LEMMA TAlways == Spec => []TInv
  BY TInit, TNext, PTL DEF Spec

\* The type invariant of Updater.
THEOREM TypeCorrect == Spec => []TypeOK
<1>1. TInv => TypeOK
  BY DEF TInv
<1> QED  BY <1>1, TAlways, PTL

-----------------------------------------------------------------------------
(* The rollback target.                                                    *)

\* Start is the only step that makes a process, and RecordWrite the only one
\* that names one in PREVIOUS.
RanInv ==
    /\ run # None => run \in ran
    /\ previous # None => previous \in ran

LEMMA RanNext == TInv /\ RanInv /\ [Next]_vars => RanInv'
<1> SUFFICES ASSUME TInv, RanInv, [Next]_vars PROVE RanInv'
  OBVIOUS
<1> USE DEF RanInv, Rest, files, systemd, history
<1>1. ASSUME NEW a \in Appliers, Apply(a) \/ Fail(a) \/ RecordFail(a)
      PROVE  RanInv'
  <2>1. CASE RecordOpen(a)
    BY <2>1 DEF RecordOpen
  <2>2. CASE RecordWrite(a)
    BY <2>2 DEF RecordWrite
  <2>3. CASE ~RecordOpen(a) /\ ~RecordWrite(a)
    <3>1. UNCHANGED <<previous, run, ran>>
      BY <1>1, <2>3
         DEF Apply, Check, OpenTmp, WriteTmp, RenameTmp, Unlink, Symlink,
             Repoint, RequestRestart, Disturbed, Fail, RecordFail
    <3> QED  BY <3>1
  <2> QED  BY <2>1, <2>2, <2>3
<1>2. CASE Start
  BY <1>2 DEF Start
<1>3. CASE RunRestartJob \/ BadExit \/ Crash \/ Reboot
  BY <1>3 DEF RunRestartJob, BadExit, Crash, Reboot, Gone
<1>4. CASE \/ ConfirmOpen \/ ConfirmWrite \/ ConfirmFail \/ StartFail \/ GiveUp
           \/ WindowPasses \/ Script \/ Publish \/ Withdraw \/ SetAuto \/ UNCHANGED vars
  <2>1. UNCHANGED <<previous, run, ran>>
    BY <1>4 DEF ConfirmOpen, ConfirmWrite, ConfirmFail, StartFail, GiveUp,
         WindowPasses, Script, ScriptDecide, ScriptLink, ScriptMove,
         ScriptRecord, ScriptRestart, Publish, Withdraw, SetAuto, vars
  <2> QED  BY <2>1
<1> QED  BY <1>1, <1>2, <1>3, <1>4 DEF Next

\* PREVIOUS only ever names a release that has been running on the device.
THEOREM RollbackTargetCorrect == Spec => []RollbackTargetRan
<1>1. Init => RanInv
  BY DEF Init, RanInv
<1>2. RanInv => RollbackTargetRan
  BY DEF RanInv, RollbackTargetRan
<1> QED  BY <1>1, <1>2, RanNext, TAlways, PTL DEF Spec

-----------------------------------------------------------------------------
(* The binaries, when one goroutine at a time is in Apply.                 *)

OneApplier == \A a, b \in Appliers : a = b

\* Every name under which a release may next be started leads to a complete
\* binary, and so does the release an Apply has unpacked.
FilesInv ==
    /\ bin[current] = "full"
    /\ linkTmp # None => bin[linkTmp] = "full"
    /\ previous # None => bin[previous] = "full"
    /\ run # None => bin[run] = "full"
    /\ \A a \in Appliers :
         /\ ap[a].pc = "unpack" => ap[a].at = "tmp"
         /\ ap[a].pc = "rename" => tmp[ap[a].rel] = "full"
         /\ ap[a].pc \in {"record", "recording", "unlink", "symlink", "repoint",
                          "restart", "restarting"} => bin[ap[a].rel] = "full"

\* A step of Apply never takes a complete binary away, and leaves FilesInv.
LEMMA FilesApply ==
  ASSUME OneApplier, TInv, FilesInv,
         NEW a \in Appliers, Apply(a) \/ Fail(a) \/ RecordFail(a)
  PROVE  FilesInv'
<1>1. \A b \in Appliers : b = a
  BY DEF OneApplier
<1> USE <1>1, ConstantFacts
<1> USE DEF TInv, TypeOK, ScriptReady, FilesInv, Rest, Goto, At, files, systemd,
            ApplyLocals, Points, Contents
<1>2. CASE Check(a)
  BY <1>2 DEF Check
<1>3. CASE OpenTmp(a)
  BY <1>3 DEF OpenTmp
<1>4. CASE WriteTmp(a)
  BY <1>4 DEF WriteTmp
<1>5. CASE RenameTmp(a)
  <2>1. bin' = [bin EXCEPT ![ap[a].rel] = "full"]
    BY <1>5 DEF RenameTmp
  <2>2. \A b \in Appliers : ap'[b].pc = "record" /\ ap'[b].rel = ap[a].rel
    BY <1>5 DEF RenameTmp
  <2>3. UNCHANGED <<current, linkTmp, previous, run>>
    BY <1>5 DEF RenameTmp
  <2> QED  BY <2>1, <2>2, <2>3
<1>6. CASE RecordOpen(a)
  BY <1>6 DEF RecordOpen
<1>7. CASE RecordWrite(a)
  BY <1>7 DEF RecordWrite
<1>8. CASE Unlink(a)
  BY <1>8 DEF Unlink
<1>9. CASE Symlink(a)
  BY <1>9 DEF Symlink
<1>10. CASE Repoint(a)
  BY <1>10 DEF Repoint
<1>11. CASE RequestRestart(a)
  BY <1>11 DEF RequestRestart
<1>12. CASE Disturbed(a)
  BY <1>12 DEF Disturbed
<1>13. CASE Fail(a)
  BY <1>13 DEF Fail
<1>14. CASE RecordFail(a)
  BY <1>14 DEF RecordFail
<1> QED
  BY <1>2, <1>3, <1>4, <1>5, <1>6, <1>7, <1>8, <1>9, <1>10, <1>11, <1>12,
     <1>13, <1>14 DEF Apply

\* The rest of the system only moves the link, and only to such a name.
LEMMA FilesOther ==
  ASSUME TInv, FilesInv,
         \/ ConfirmOpen \/ ConfirmWrite \/ ConfirmFail
         \/ Start \/ StartFail \/ GiveUp \/ WindowPasses \/ RunRestartJob
         \/ BadExit \/ Crash \/ Reboot \/ Script \/ Publish \/ Withdraw
         \/ SetAuto
         \/ UNCHANGED vars
  PROVE  FilesInv'
<1> USE ConstantFacts
<1> USE DEF TInv, TypeOK, ScriptReady, FilesInv, files, systemd
<1>1. CASE Start
  BY <1>1 DEF Start
<1>2. CASE RunRestartJob \/ BadExit \/ Crash \/ Reboot
  BY <1>2 DEF RunRestartJob, BadExit, Crash, Reboot, Gone, IdleApplier
<1>3. CASE ScriptLink
  BY <1>3 DEF ScriptLink, ScriptAt
<1>4. CASE ScriptMove
  BY <1>4 DEF ScriptMove, ScriptAt
<1>5. CASE \/ ConfirmOpen \/ ConfirmWrite \/ ConfirmFail \/ StartFail \/ GiveUp
           \/ WindowPasses \/ ScriptDecide \/ ScriptRecord \/ ScriptRestart
           \/ Publish \/ Withdraw \/ SetAuto \/ UNCHANGED vars
  <2>1. UNCHANGED <<current, linkTmp, bin, tmp, previous, run, ap>>
    BY <1>5 DEF ConfirmOpen, ConfirmWrite, ConfirmFail, StartFail, GiveUp,
         WindowPasses, ScriptDecide, ScriptRecord, ScriptRestart, Publish,
         Withdraw, SetAuto, vars
  <2> QED  BY <2>1
<1> QED  BY <1>1, <1>2, <1>3, <1>4, <1>5 DEF Script

LEMMA FilesNext == OneApplier /\ TInv /\ FilesInv /\ [Next]_vars => FilesInv'
  BY FilesApply, FilesOther DEF Next

LEMMA FilesInit == Init => FilesInv
<1> SUFFICES ASSUME Init PROVE FilesInv
  OBVIOUS
<1>1. /\ bin[First] = "full" /\ current = First /\ run = First
      /\ linkTmp = None /\ previous = None
  BY ConstantFacts DEF Init
<1>2. \A a \in Appliers : ap[a].pc = "idle"
  BY DEF Init, IdleApplier
<1> QED  BY <1>1, <1>2 DEF FilesInv

LEMMA FilesAlways == OneApplier /\ Spec => []FilesInv
<1>1. SUFFICES ASSUME OneApplier PROVE Spec => []FilesInv
  OBVIOUS
<1>2. TInv /\ FilesInv /\ [Next]_vars => FilesInv'
  BY <1>1, FilesNext
<1> QED  BY <1>2, FilesInit, TAlways, PTL DEF Spec

\* However an update, a stop or a rollback is cut off, the link leads to a
\* complete binary.
THEOREM CurrentCompleteCorrect == OneApplier /\ Spec => []CurrentComplete
<1>1. FilesInv => CurrentComplete
  BY DEF FilesInv, CurrentComplete
<1> QED  BY <1>1, FilesAlways, PTL

-----------------------------------------------------------------------------
(* Updater implements Installation.                                        *)

LEMMA DiskInit == Init => Disk!Init
<1> SUFFICES ASSUME Init PROVE Disk!Init
  OBVIOUS
<1>1. Installed = {First} /\ current = First
  BY ConstantFacts DEF Init, Installed
<1> QED  BY <1>1, ConstantFacts DEF Disk!Init

LEMMA DiskStep ==
  ASSUME OneApplier, TInv, FilesInv, [Next]_vars
  PROVE  [Disk!Next]_<<Installed, current>>
<1> USE ConstantFacts
<1> USE DEF Rest, files
<1>1. ASSUME NEW a \in Appliers, RenameTmp(a)
      PROVE  [Disk!Next]_<<Installed, current>>
  <2>1. bin' = [bin EXCEPT ![ap[a].rel] = "full"] /\ UNCHANGED current
    BY <1>1 DEF RenameTmp, At, FilesInv, TInv, TypeOK, ApplyLocals
  <2>2. ap[a].rel \in Tags /\ bin \in [Tags -> Contents]
    BY DEF TInv, TypeOK, ApplyLocals
  <2>3. Installed' = Installed \cup {ap[a].rel}
    BY <2>1, <2>2 DEF Installed
  <2>4. CASE ap[a].rel \in Installed
    BY <2>1, <2>3, <2>4
  <2>5. CASE ap[a].rel \notin Installed
    BY <2>1, <2>2, <2>3, <2>5 DEF Disk!Next, Disk!Install
  <2> QED  BY <2>4, <2>5
<1>2. ASSUME NEW a \in Appliers, Repoint(a)
      PROVE  [Disk!Next]_<<Installed, current>>
  <2>1. current' = linkTmp /\ linkTmp # None /\ UNCHANGED bin
    BY <1>2 DEF Repoint
  <2> QED  BY <2>1 DEF FilesInv, TInv, TypeOK, Installed, Disk!Next, Disk!Switch
<1>3. CASE ScriptMove
  <2>1. current' = linkTmp /\ linkTmp # None /\ UNCHANGED bin
    BY <1>3 DEF ScriptMove, ScriptAt, TInv, ScriptReady
  <2> QED  BY <2>1 DEF FilesInv, TInv, TypeOK, Installed, Disk!Next, Disk!Switch
<1>4. ASSUME NEW a \in Appliers, WriteTmp(a)
      PROVE  UNCHANGED <<bin, current>>
  BY <1>4 DEF WriteTmp, At, FilesInv
<1>5. ASSUME NEW a \in Appliers, Apply(a) \/ Fail(a) \/ RecordFail(a),
             ~RenameTmp(a), ~Repoint(a), ~WriteTmp(a)
      PROVE  UNCHANGED <<bin, current>>
  BY <1>5 DEF Apply, Check, OpenTmp, RecordOpen, RecordWrite, Unlink, Symlink,
       RequestRestart, Disturbed, Fail, RecordFail
<1>6. CASE \/ ConfirmOpen \/ ConfirmWrite \/ ConfirmFail
           \/ Start \/ StartFail \/ GiveUp \/ WindowPasses \/ RunRestartJob
           \/ BadExit \/ Crash \/ Reboot \/ Publish \/ Withdraw \/ SetAuto
           \/ ScriptDecide \/ ScriptLink \/ ScriptRecord \/ ScriptRestart
           \/ UNCHANGED vars
  <2>1. UNCHANGED <<bin, current>>
    BY <1>6 DEF ConfirmOpen, ConfirmWrite, ConfirmFail, Start, StartFail,
         GiveUp, WindowPasses, RunRestartJob, BadExit, Crash, Reboot, Publish,
         Withdraw, SetAuto, ScriptDecide, ScriptLink, ScriptRecord, ScriptRestart, vars
  <2> QED  BY <2>1 DEF Installed
<1>7. UNCHANGED <<bin, current>> => UNCHANGED <<Installed, current>>
  BY DEF Installed
<1> QED  BY <1>1, <1>2, <1>3, <1>4, <1>5, <1>6, <1>7 DEF Next, Script

\* Every update, confirmation, failure and rollback is a behaviour of the
\* abstract installation.
THEOREM DiskImplemented == OneApplier /\ Spec => DiskSpec
<1>1. SUFFICES ASSUME OneApplier PROVE Spec => Disk!Spec
  BY DEF DiskSpec
<1>2. TInv /\ FilesInv /\ [Next]_vars => [Disk!Next]_<<Installed, current>>
  BY <1>1, DiskStep
<1>3. Spec => []FilesInv
  BY <1>1, FilesAlways
<1> QED  BY <1>2, <1>3, DiskInit, TAlways, PTL DEF Spec, Disk!Spec

-----------------------------------------------------------------------------
(* The way back, when only the loop updates and no call fails.             *)

LoopAlone == Appliers = {Loop} /\ MaxFaults = 0

\* The loop's delays: an update begins when the running release is linked and
\* confirmed, and PREVIOUS is there again before the link moves.
UndoInv ==
    /\ current # confirmed => previous # None
    /\ unit = "active" /\ grace = "off" /\ ap[Loop].pc \notin {"restart", "restarting"}
         => run = current /\ confirmed = current
    /\ grace # "off" => /\ unit = "active" /\ ap[Loop].pc = "idle"
                        /\ run = current /\ current # confirmed
    /\ ap[Loop].pc # "idle" => unit = "active" /\ grace = "off"
    /\ ap[Loop].pc \in {"unlink", "symlink", "repoint"} => previous # None

LEMMA UndoInit == LoopAlone /\ Init => UndoInv
  BY DEF LoopAlone, Init, UndoInv, IdleApplier

\* A step of the loop's Apply.
LEMMA UndoApply ==
  ASSUME LoopAlone, TInv, UndoInv, NEW a \in Appliers, Apply(a)
  PROVE  UndoInv'
<1>1. a = Loop /\ Loop \in Appliers
  BY DEF LoopAlone
<1>2. ap \in [Appliers -> ApplyLocals] /\ current \in Tags /\ None \notin Tags
      /\ (unit = "active" => run # None)
  BY ConstantFacts DEF TInv, TypeOK, ScriptReady
<1>3. UNCHANGED <<unit, run, grace>>
  BY DEF Apply, Check, OpenTmp, WriteTmp, RenameTmp, RecordOpen, RecordWrite, Unlink,
         Symlink, Repoint, RequestRestart, Disturbed, Rest, systemd
\* The control point a step goes to.
<1>4. ASSUME NEW pc, Goto(a, pc) PROVE ap'[Loop].pc = pc
  BY <1>1, <1>2, <1>4 DEF Goto, ApplyLocals
<1>5. CASE Check(a)
  <2>1. /\ ap[Loop].pc = "idle" /\ ap'[Loop].pc = "open" /\ unit = "active"
        /\ grace = "off" /\ UNCHANGED <<current, confirmed, previous>>
    BY <1>1, <1>2, <1>5 DEF Check, At, MayCheck, Rest, files
  <2> QED  BY <1>3, <2>1 DEF UndoInv
<1>6. CASE OpenTmp(a)
  <2>1. /\ ap[Loop].pc = "open" /\ ap'[Loop].pc = "unpack"
        /\ UNCHANGED <<current, confirmed, previous>>
    BY <1>1, <1>2, <1>6 DEF OpenTmp, At, Rest, ApplyLocals
  <2> QED  BY <1>3, <2>1 DEF UndoInv
<1>7. CASE WriteTmp(a)
  <2>1. /\ ap[Loop].pc = "unpack" /\ ap'[Loop].pc = "rename"
        /\ UNCHANGED <<current, confirmed, previous>>
    BY <1>1, <1>4, <1>7 DEF WriteTmp, At, Rest
  <2> QED  BY <1>3, <2>1 DEF UndoInv
<1>8. CASE RenameTmp(a)
  <2>1. /\ ap[Loop].pc = "rename" /\ ap'[Loop].pc = "record"
        /\ UNCHANGED <<current, confirmed, previous>>
    BY <1>1, <1>2, <1>8 DEF RenameTmp, At, Rest, ApplyLocals
  <2> QED  BY <1>3, <2>1 DEF UndoInv
<1>9. CASE RecordOpen(a)
  <2>1. /\ ap[Loop].pc = "record" /\ ap'[Loop].pc = "recording"
        /\ UNCHANGED <<current, confirmed>>
    BY <1>1, <1>4, <1>9 DEF RecordOpen, At, Rest
  <2> QED  BY <1>3, <2>1 DEF UndoInv
<1>10. CASE RecordWrite(a)
  <2>1. /\ ap[Loop].pc = "recording" /\ ap'[Loop].pc = "unlink"
        /\ UNCHANGED <<current, confirmed>> /\ previous' = run /\ unit = "active"
    BY <1>1, <1>4, <1>10 DEF RecordWrite, At, Rest
  <2> QED  BY <1>2, <1>3, <2>1 DEF UndoInv
<1>11. CASE Unlink(a) \/ Symlink(a)
  <2>1. /\ ap[Loop].pc \in {"unlink", "symlink"} /\ ap'[Loop].pc \in {"symlink", "repoint"}
        /\ UNCHANGED <<current, confirmed, previous>>
    BY <1>1, <1>4, <1>11 DEF Unlink, Symlink, At, Rest
  <2> QED  BY <1>3, <2>1 DEF UndoInv
<1>12. CASE Repoint(a)
  <2>1. /\ ap[Loop].pc = "repoint" /\ ap'[Loop].pc = "restart"
        /\ UNCHANGED <<confirmed, previous>>
    BY <1>1, <1>4, <1>12 DEF Repoint, At, Rest
  <2> QED  BY <1>3, <2>1 DEF UndoInv
<1>13. CASE RequestRestart(a)
  <2>1. /\ ap[Loop].pc = "restart" /\ ap'[Loop].pc = "restarting"
        /\ UNCHANGED <<current, confirmed, previous>>
    BY <1>1, <1>4, <1>13 DEF RequestRestart, At, files
  <2> QED  BY <1>3, <2>1 DEF UndoInv
<1>14. CASE Disturbed(a)
  <2>1. /\ ap[Loop].pc \in {"rename", "symlink", "repoint"} /\ ap'[Loop].pc = "idle"
        /\ UNCHANGED <<current, confirmed, previous>>
    BY <1>1, <1>4, <1>14 DEF Disturbed, At, Rest, files
  <2> QED  BY <1>3, <2>1 DEF UndoInv
<1> QED  BY <1>5, <1>6, <1>7, <1>8, <1>9, <1>10, <1>11, <1>12, <1>13, <1>14 DEF Apply

\* A step of the rest: a process that starts confirms what it runs or has it
\* confirmed, and the script moves the link to what PREVIOUS names.
LEMMA UndoNext == LoopAlone /\ TInv /\ UndoInv /\ [Next]_vars => UndoInv'
<1> SUFFICES ASSUME LoopAlone, TInv, UndoInv, [Next]_vars PROVE UndoInv'
  OBVIOUS
<1>0. /\ current \in Tags /\ None \notin Tags /\ Loop \in Appliers
      /\ (unit = "active" <=> run # None)
      /\ script.pc = "move" => unit = "failed" /\ previous # None
  BY ConstantFacts DEF TInv, TypeOK, ScriptReady, LoopAlone
<1>1. ~Fault
  BY DEF TInv, TypeOK, LoopAlone, Fault
<1>2. CASE \E a \in Appliers : Apply(a) \/ Fail(a) \/ RecordFail(a)
  BY <1>1, <1>2, UndoApply DEF Fail, RecordFail
<1>3. CASE ConfirmOpen
  BY <1>0, <1>3 DEF ConfirmOpen, UndoInv, systemd
<1>4. CASE ConfirmWrite
  BY <1>0, <1>4 DEF ConfirmWrite, UndoInv, systemd
<1>5. CASE Start
  BY <1>0, <1>5 DEF Start, UndoInv, files
<1>6. CASE RunRestartJob \/ BadExit \/ Crash \/ Reboot
  <2>1. /\ unit' = "starting" /\ grace' = "off" /\ ap'[Loop].pc = "idle"
        /\ UNCHANGED <<current, confirmed, previous>>
    BY <1>0, <1>6 DEF RunRestartJob, BadExit, Crash, Reboot, Gone, files, IdleApplier
  <2> QED  BY <2>1 DEF UndoInv
<1>7. CASE ScriptMove
  BY <1>0, <1>7 DEF ScriptMove, ScriptAt, UndoInv, systemd
<1>8. CASE GiveUp \/ ScriptRestart
  <2>1. /\ unit # "active" /\ unit' # "active"
        /\ UNCHANGED <<current, confirmed, previous, grace, ap>>
    BY <1>8 DEF GiveUp, ScriptRestart, ScriptAt, files
  <2> QED  BY <2>1 DEF UndoInv
<1>9. CASE \/ StartFail \/ WindowPasses \/ ScriptDecide \/ ScriptLink \/ ScriptRecord
           \/ Publish \/ Withdraw \/ SetAuto \/ UNCHANGED vars
  <2>1. UNCHANGED <<current, confirmed, previous, grace, ap, unit, run>>
    BY <1>9 DEF StartFail, WindowPasses, ScriptDecide, ScriptLink, ScriptRecord, Publish,
                Withdraw, SetAuto, vars, files, systemd
  <2> QED  BY <2>1 DEF UndoInv
<1>10. ~ConfirmFail
  BY <1>1 DEF ConfirmFail
<1> QED  BY <1>2, <1>3, <1>4, <1>5, <1>6, <1>7, <1>8, <1>9, <1>10 DEF Next, Script

\* While the link leads to a release that is not confirmed, PREVIOUS names a
\* complete one: for any releases, crashes, reboots and start limit.
THEOREM UndoPossibleCorrect == LoopAlone /\ Spec => []UndoPossible
<1>1. SUFFICES ASSUME LoopAlone PROVE Spec => []UndoPossible
  OBVIOUS
<1>2. OneApplier
  BY <1>1 DEF LoopAlone, OneApplier
<1>3. Init => UndoInv
  BY <1>1, UndoInit
<1>4. TInv /\ UndoInv /\ [Next]_vars => UndoInv'
  BY <1>1, UndoNext
<1>5. UndoInv /\ FilesInv => UndoPossible
  BY DEF UndoInv, FilesInv, UndoPossible
<1>6. Spec => []FilesInv
  BY <1>2, FilesAlways
<1> QED  BY <1>3, <1>4, <1>5, <1>6, TAlways, PTL DEF Spec

-----------------------------------------------------------------------------
(* What was confirmed stays, and what was rolled back stays away, with any   *)
(* number of goroutines in Apply, any failed calls and any changes of the    *)
(* channel, as long as no release above is withdrawn.                        *)

\* What has been on the channel: this only grows.
Seen == offered \cup withdrawn

\* The versions of what the device runs only go up, until a rollback: an Apply
\* has chosen a release above the running one, and so is whatever it links.
Chosen(t) == t \in Seen /\ Version[t] > Version[run]

ChosenInv ==
    /\ current \in Seen
    /\ run # None => run \in Seen
    /\ previous # None => previous \in Seen
    /\ run # None /\ run # current => Version[current] > Version[run]
    /\ \A a \in Appliers :
         /\ ap[a].pc # "idle" => unit = "active" /\ Chosen(ap[a].rel)
         /\ ap[a].pc = "repoint" /\ linkTmp # None => Chosen(linkTmp)
    /\ script.pc \in {"link", "move"} => script.from = current
    /\ script.pc = "move" => linkTmp = previous
    /\ script.pc = "record" => current = previous

\* A step of Apply past Check stays with the release that was chosen.
LEMMA ApplyMoves ==
  ASSUME TInv, NEW a \in Appliers, Apply(a) \/ Fail(a) \/ RecordFail(a), ~Check(a)
  PROVE  /\ ap[a].pc # "idle" /\ unit = "active"
         /\ \A b \in Appliers : /\ ap'[b].rel = ap[b].rel
                                /\ b # a => ap'[b].pc = ap[b].pc
         /\ ap'[a].pc = "repoint" => Symlink(a)
         /\ UNCHANGED <<Seen, withdrawn, confirmed, rolledBack, unit, run, grace, script, history>>
<1>1. ap \in [Appliers -> ApplyLocals]
  BY DEF TInv, TypeOK
<1>2. UNCHANGED <<Seen, withdrawn, confirmed, rolledBack, unit, run, grace, script, history>>
  BY DEF Apply, OpenTmp, WriteTmp, RenameTmp, RecordOpen, RecordWrite, Unlink, Symlink,
         Repoint, RequestRestart, Disturbed, Fail, RecordFail, Rest, files, systemd,
         history, Seen
<1>3. ap[a].pc # "idle" /\ unit = "active"
  BY DEF Apply, OpenTmp, WriteTmp, RenameTmp, RecordOpen, RecordWrite, Unlink, Symlink,
         Repoint, RequestRestart, Disturbed, Fail, RecordFail, At
<1>4. ASSUME NEW pc, Goto(a, pc)
      PROVE  /\ ap'[a].pc = pc
             /\ \A b \in Appliers : /\ ap'[b].rel = ap[b].rel
                                    /\ b # a => ap'[b].pc = ap[b].pc
  BY <1>1, <1>4 DEF Goto, ApplyLocals
<1>5. CASE OpenTmp(a)
  BY <1>1, <1>2, <1>3, <1>5 DEF OpenTmp, ApplyLocals
<1>6. CASE RenameTmp(a)
  <2>1. \A b \in Appliers :
           ap'[b].rel = ap[b].rel
           /\ ap'[b].pc = IF b = a THEN "record" ELSE ap[b].pc
    BY <1>1, <1>6 DEF RenameTmp, ApplyLocals
  <2> QED  BY <1>2, <1>3, <2>1
<1>7. CASE ~OpenTmp(a) /\ ~RenameTmp(a)
  <2>1. Symlink(a) \/ \E pc \in Points \ {"repoint"} : Goto(a, pc)
    BY <1>7 DEF Apply, WriteTmp, RecordOpen, RecordWrite, Unlink, Repoint,
                RequestRestart, Disturbed, Fail, RecordFail, Points
  <2>2. CASE Symlink(a)
    BY <1>2, <1>3, <1>4, <2>2 DEF Symlink
  <2>3. ASSUME NEW pc \in Points \ {"repoint"}, Goto(a, pc)
        PROVE  /\ ap'[a].pc # "repoint"
               /\ \A b \in Appliers : /\ ap'[b].rel = ap[b].rel
                                      /\ b # a => ap'[b].pc = ap[b].pc
    BY <1>4, <2>3
  <2> QED  BY <1>2, <1>3, <2>1, <2>2, <2>3
<1> QED  BY <1>5, <1>6, <1>7

\* Where a step of Apply past Check leaves the link, what is about to become it,
\* and PREVIOUS.
LEMMA ApplyLinks ==
  ASSUME TInv, NEW a \in Appliers, Apply(a) \/ Fail(a) \/ RecordFail(a), ~Check(a)
  PROVE  /\ \/ UNCHANGED linkTmp \/ linkTmp' = None
            \/ Symlink(a) /\ linkTmp' = ap[a].rel
         /\ \/ UNCHANGED current
            \/ ap[a].pc = "repoint" /\ linkTmp # None /\ current' = linkTmp
         /\ UNCHANGED previous \/ previous' = None \/ previous' = run
  BY DEF Apply, OpenTmp, WriteTmp, RenameTmp, RecordOpen, RecordWrite, Unlink, Symlink,
         Repoint, RequestRestart, Disturbed, Fail, RecordFail, Rest, files, At

\* Steps that leave the releases in use alone.
Elsewhere ==
    /\ UNCHANGED <<current, linkTmp, previous, confirmed, rolledBack, run, grace, script,
                   ap, ran, rolled, trusted>>
    /\ unit = "active" <=> unit' = "active"
    /\ Seen \subseteq Seen' /\ withdrawn \subseteq withdrawn'

LEMMA ElsewhereSteps ==
  ASSUME StartFail \/ WindowPasses \/ Publish \/ Withdraw \/ SetAuto \/ UNCHANGED vars
  PROVE  Elsewhere
  BY DEF Elsewhere, StartFail, WindowPasses, Publish, Withdraw, SetAuto, vars, files,
         systemd, history, Seen

\* The process ends.
Ends ==
    /\ run' = None /\ unit' = "starting" /\ grace' = "off"
    /\ \A a \in Appliers : ap'[a].pc = "idle"
    /\ script' = script \/ script'.pc = "off"
    /\ UNCHANGED <<Seen, withdrawn, current, linkTmp, previous, confirmed, rolledBack, history>>

LEMMA EndSteps ==
  ASSUME TInv, RunRestartJob \/ BadExit \/ Crash \/ Reboot
  PROVE  Ends /\ (script' = script => script.pc = "off" \/ unit = "active")
<1>1. script \in [pc : ScriptPoints, from : Tags]
  BY DEF TInv, TypeOK
<1> QED
  BY <1>1 DEF RunRestartJob, BadExit, Crash, Reboot, Gone, Ends, IdleApplier, files,
         history, ScriptPoints, Seen

LEMMA ChosenInit == Init => ChosenInv
  BY ConstantFacts DEF Init, ChosenInv, IdleApplier, Seen

LEMMA ChosenNext == TInv /\ ChosenInv /\ [Next]_vars => ChosenInv'
<1> SUFFICES ASSUME TInv, ChosenInv, [Next]_vars PROVE ChosenInv'
  OBVIOUS
<1>0. /\ current \in Tags /\ None \notin Tags /\ run \in Tags \cup {None}
      /\ offered \subseteq Tags /\ Seen \subseteq Tags /\ Version \in [Tags -> Nat]
      /\ ap \in [Appliers -> ApplyLocals] /\ script \in [pc : ScriptPoints, from : Tags]
      /\ (unit = "active" <=> run # None)
      /\ script.pc # "off" => unit = "failed"
  BY ConstantFacts, UpdaterAssumption DEF TInv, TypeOK, ScriptReady, Seen
<1>1. ASSUME NEW a \in Appliers, Check(a) PROVE ChosenInv'
  <2>1. PICK t \in Newest :
          ap' = [ap EXCEPT ![a] = [pc |-> "open", rel |-> t, at |-> "gone"]]
    BY <1>1 DEF Check
  <2>2. Chosen(t) /\ unit = "active" /\ t \in Tags
    BY <1>0, <1>1, <2>1 DEF Newest, Chosen, Check, At, Seen
  <2>3. UNCHANGED <<Seen, withdrawn, files, unit, run, script>>
    BY <1>1 DEF Check, Rest, systemd, history, Seen
  <2>4. /\ ap'[a].pc = "open" /\ ap'[a].rel = t
        /\ \A b \in Appliers \ {a} : ap'[b] = ap[b]
    BY <1>0, <2>1
  <2> QED  BY <1>0, <2>2, <2>3, <2>4 DEF ChosenInv, Chosen, files
<1>2. ASSUME NEW a \in Appliers, Apply(a) \/ Fail(a) \/ RecordFail(a), ~Check(a)
      PROVE  ChosenInv'
  <2>1. /\ ap[a].pc # "idle" /\ unit = "active" /\ script.pc = "off" /\ run # None
        /\ \A b \in Appliers : /\ ap'[b].rel = ap[b].rel
                               /\ b # a => ap'[b].pc = ap[b].pc
        /\ ap'[a].pc = "repoint" => Symlink(a)
        /\ UNCHANGED <<Seen, withdrawn, unit, run, script>>
    BY <1>0, <1>2, ApplyMoves
  <2>2. Chosen(ap[a].rel)
    BY <2>1 DEF ChosenInv
  <2>3. Symlink(a) => linkTmp' = ap[a].rel
    BY DEF Symlink
  <2>4. \A b \in Appliers : ap'[b].pc # "idle" => Chosen(ap'[b].rel)
    BY <2>1, <2>2 DEF ChosenInv
  <2>5. \A b \in Appliers : ap'[b].pc = "repoint" /\ linkTmp' # None => Chosen(linkTmp')
    BY <1>2, <2>1, <2>2, <2>3, ApplyLinks DEF ChosenInv
  <2>6. /\ current' \in Seen' /\ (run' # None => run' \in Seen')
        /\ (run' # None /\ run' # current' => Version[current'] > Version[run'])
    BY <1>2, <2>1, ApplyLinks DEF ChosenInv, Chosen
  <2>7. previous' # None => previous' \in Seen'
    BY <1>2, <2>1, ApplyLinks DEF ChosenInv
  <2> QED  BY <2>1, <2>4, <2>5, <2>6, <2>7 DEF ChosenInv, Chosen
<1>3. CASE ConfirmOpen \/ ConfirmWrite \/ ConfirmFail
  BY <1>3 DEF ConfirmOpen, ConfirmWrite, ConfirmFail, ChosenInv, Chosen, Seen, systemd, files,
              history
<1>4. CASE Start
  <2>1. \A a \in Appliers : ap[a].pc = "idle"
    BY <1>4 DEF Start, ChosenInv
  <2>2. /\ run' = current
        /\ UNCHANGED <<Seen, withdrawn, current, linkTmp, previous, ap, script>>
    BY <1>4 DEF Start, files, Seen
  <2> QED  BY <2>1, <2>2 DEF ChosenInv
<1>5. CASE RunRestartJob \/ BadExit \/ Crash \/ Reboot
  BY <1>0, <1>5, EndSteps DEF Ends, ChosenInv
<1>6. CASE GiveUp \/ ScriptRestart
  <2>1. /\ unit # "active" /\ unit' # "active"
        /\ script'.pc \notin {"link", "move", "record"}
        /\ UNCHANGED <<Seen, withdrawn, current, linkTmp, previous, run, ap>>
    BY <1>0, <1>6 DEF GiveUp, ScriptRestart, ScriptAt, files, history, Seen
  <2> QED  BY <2>1 DEF ChosenInv, Chosen
<1>7. CASE ScriptDecide \/ ScriptLink \/ ScriptMove \/ ScriptRecord
  <2>1. /\ UNCHANGED <<Seen, withdrawn, previous, run, ap, unit>> /\ unit = "failed" /\ run = None
    BY <1>0, <1>7 DEF ScriptDecide, ScriptLink, ScriptMove, ScriptRecord, ScriptAt, files,
                      systemd, history, Seen
  <2>2. \A a \in Appliers : ap[a].pc = "idle"
    BY <2>1 DEF ChosenInv
  <2>3. CASE ScriptDecide
    BY <1>0, <2>1, <2>2, <2>3 DEF ScriptDecide, ScriptAt, ChosenInv, files
  <2>4. CASE ScriptLink
    BY <1>0, <2>1, <2>2, <2>4 DEF ScriptLink, ScriptAt, ChosenInv
  <2>5. CASE ScriptMove
    <3>1. previous # None
      BY <2>5 DEF ScriptMove, ScriptAt, TInv, ScriptReady
    <3> QED  BY <1>0, <2>1, <2>2, <2>5, <3>1 DEF ScriptMove, ScriptAt, ChosenInv
  <2>6. CASE ScriptRecord
    BY <1>0, <2>1, <2>2, <2>6 DEF ScriptRecord, ScriptAt, ChosenInv
  <2> QED  BY <1>7, <2>3, <2>4, <2>5, <2>6
<1>8. ASSUME Elsewhere PROVE ChosenInv'
  BY <1>8 DEF Elsewhere, ChosenInv, Chosen
<1> QED
  BY <1>1, <1>2, <1>3, <1>4, <1>5, <1>6, <1>7, <1>8, ElsewhereSteps DEF Next, Script

LEMMA ChosenAlways == Spec => []ChosenInv
  BY ChosenInit, ChosenNext, TAlways, PTL DEF Spec

-----------------------------------------------------------------------------

\* A release the channel has, or had, a higher one for.  Check chooses it only
\* after that one was withdrawn.
Surpassed(t) == \E u \in Seen : Version[u] > Version[t]

LEMMA NotNewest ==
  ASSUME TInv, NEW t \in Newest, Surpassed(t) PROVE WithdrawnAbove(t)
<1>1. /\ Version \in [Tags -> Nat] /\ offered \subseteq Tags /\ withdrawn \subseteq Tags
      /\ t \in Tags /\ \A u \in offered : Version[u] <= Version[t]
  BY UpdaterAssumption DEF TInv, TypeOK, Newest
<1>2. PICK u \in Seen : Version[u] > Version[t]
  BY DEF Surpassed
<1>3. u \in withdrawn
  BY <1>1, <1>2 DEF Seen
<1> QED  BY <1>2, <1>3 DEF WithdrawnAbove

\* The confirmed releases that a withdrawal does not bring back.
Firm == {t \in trusted : ~WithdrawnAbove(t)}

LEMMA FirmStays ==
  ASSUME withdrawn \subseteq withdrawn', trusted' = trusted
  PROVE  Firm' \subseteq Firm
  BY DEF Firm, WithdrawnAbove

\* A confirmed release is left only for a higher one, by an Apply of the process
\* that runs it.  It may come back by a rollback, which leaves PREVIOUS at it, and
\* may then lose its confirmation; but PREVIOUS names no other release until the
\* next update leaves it again.
TrustInv ==
    /\ grace # "off" => confirmed # run
    /\ \A a \in Appliers :
         /\ ap[a].pc # "idle" => ap[a].rel \notin Firm
         /\ ap[a].pc = "repoint" => linkTmp \notin Firm
    /\ run # None /\ run # current => current \notin Firm
    /\ \A t \in Firm \ {current} : Surpassed(t)
    /\ current \in Firm /\ current # confirmed => previous \in {None, current}
    /\ script.pc \in {"link", "move"} => current \notin Firm

LEMMA TrustInit == Init => TrustInv
  BY ConstantFacts DEF Init, TrustInv, IdleApplier, Firm

LEMMA TrustApply ==
  ASSUME TInv, ChosenInv, TrustInv,
         NEW a \in Appliers, Apply(a) \/ Fail(a) \/ RecordFail(a)
  PROVE  TrustInv'
<1>0. /\ current \in Tags /\ None \notin Tags /\ run \in Tags \cup {None}
      /\ offered \subseteq Tags /\ Seen \subseteq Tags /\ Version \in [Tags -> Nat]
      /\ ap \in [Appliers -> ApplyLocals]
      /\ Firm \subseteq Tags
      /\ (unit = "active" <=> run # None)
      /\ script.pc # "off" => unit = "failed"
  BY ConstantFacts, UpdaterAssumption DEF TInv, TypeOK, ScriptReady, Seen, Firm
<1>1. CASE Check(a)
  <2>1. PICK t \in Newest :
          ap' = [ap EXCEPT ![a] = [pc |-> "open", rel |-> t, at |-> "gone"]]
    BY <1>1 DEF Check
  <2>2. t \notin Firm
    <3>1. t \in Tags /\ Version[t] > Version[run] /\ run # None
      BY <1>0, <1>1, <2>1 DEF Newest, Check, At
    <3>2. t # run
      BY <1>0, <3>1
    <3>3. CASE t = current
      BY <3>1, <3>2, <3>3 DEF TrustInv
    <3>4. CASE t # current
      BY <2>1, <3>4, NotNewest DEF TrustInv, Firm
    <3> QED  BY <3>3, <3>4
  <2>3. /\ UNCHANGED <<Seen, withdrawn, files, unit, run, grace, script, trusted>>
        /\ Firm' \subseteq Firm
    BY <1>1, FirmStays DEF Check, Rest, systemd, history, Seen
  <2>4. /\ ap'[a].pc = "open" /\ ap'[a].rel = t
        /\ \A b \in Appliers \ {a} : ap'[b] = ap[b]
    BY <1>0, <2>1
  <2> QED  BY <2>2, <2>3, <2>4 DEF TrustInv, Surpassed, files
<1>2. CASE ~Check(a)
  <2>1. /\ ap[a].pc # "idle" /\ unit = "active" /\ script.pc = "off" /\ run # None
        /\ \A b \in Appliers : /\ ap'[b].rel = ap[b].rel
                               /\ b # a => ap'[b].pc = ap[b].pc
        /\ ap'[a].pc = "repoint" => Symlink(a)
        /\ UNCHANGED <<Seen, withdrawn, confirmed, run, grace, script, trusted>>
        /\ Firm' \subseteq Firm
    BY <1>0, <1>2, ApplyMoves, FirmStays DEF history
  <2>2. ap[a].rel \notin Firm
    BY <2>1 DEF TrustInv
  <2>3. Symlink(a) => linkTmp' = ap[a].rel
    BY DEF Symlink
  <2>4. \A b \in Appliers : /\ ap'[b].pc # "idle" => ap'[b].rel \notin Firm'
                            /\ ap'[b].pc = "repoint" => linkTmp' \notin Firm'
    BY <1>0, <1>2, <2>1, <2>2, <2>3, ApplyLinks DEF TrustInv
  <2>5. CASE UNCHANGED current
    <3>1. current' \in Firm' /\ current' # confirmed' => previous' \in {None, current'}
      BY <1>2, <2>1, <2>5, ApplyLinks DEF TrustInv
    <3> QED  BY <2>1, <2>4, <2>5, <3>1 DEF TrustInv, Surpassed
  <2>6. CASE ap[a].pc = "repoint" /\ linkTmp # None /\ current' = linkTmp
    <3>1. linkTmp \notin Firm /\ linkTmp \in Seen /\ Version[linkTmp] > Version[run]
      BY <2>6 DEF TrustInv, ChosenInv, Chosen
    <3>2. current \in Firm => Surpassed(current)
      BY <2>1, <3>1 DEF TrustInv, Surpassed
    <3>3. \A t \in Firm' \ {current'} : Surpassed(t)'
      BY <2>1, <3>2 DEF TrustInv, Surpassed
    <3> QED  BY <2>1, <2>4, <2>6, <3>1, <3>3 DEF TrustInv
  <2> QED  BY <1>2, <2>5, <2>6, ApplyLinks
<1> QED  BY <1>1, <1>2

LEMMA TrustNext == TInv /\ ChosenInv /\ TrustInv /\ [Next]_vars => TrustInv'
<1> SUFFICES ASSUME TInv, ChosenInv, TrustInv, [Next]_vars PROVE TrustInv'
  OBVIOUS
<1>0. /\ current \in Tags /\ None \notin Tags /\ run \in Tags \cup {None}
      /\ offered \subseteq Tags /\ Seen \subseteq Tags /\ Version \in [Tags -> Nat]
      /\ ap \in [Appliers -> ApplyLocals] /\ script \in [pc : ScriptPoints, from : Tags]
      /\ Firm \subseteq Tags /\ previous \in Tags \cup {None}
      /\ (unit = "active" <=> run # None)
      /\ script.pc # "off" => unit = "failed"
  BY ConstantFacts, UpdaterAssumption DEF TInv, TypeOK, ScriptReady, Seen, Firm
<1>1. CASE \E a \in Appliers : Apply(a) \/ Fail(a) \/ RecordFail(a)
  BY <1>1, TrustApply
<1>2. CASE ConfirmOpen
  <2>1. /\ confirmed' = None /\ run # None /\ confirmed # run /\ grace' # "off"
        /\ UNCHANGED <<Seen, withdrawn, current, linkTmp, previous, run, ap, script, trusted>>
        /\ Firm' \subseteq Firm
    BY <1>0, <1>2, FirmStays DEF ConfirmOpen, TrustInv, systemd, history, Seen
  <2>2. current \in Firm => run = current
    BY <2>1 DEF TrustInv
  <2> QED  BY <1>0, <2>1, <2>2 DEF TrustInv, Surpassed
<1>3. CASE ConfirmWrite
  <2>1. /\ confirmed' = run /\ run # None /\ run \in Tags /\ grace' = "off"
        /\ trusted' = trusted \cup {run} /\ script.pc = "off"
        /\ UNCHANGED <<Seen, withdrawn, current, linkTmp, previous, run, ap, script>>
        /\ Firm' \subseteq Firm \cup {run}
    BY <1>0, <1>3 DEF ConfirmWrite, systemd, Seen, Firm, WithdrawnAbove
  <2>2. \A a \in Appliers : /\ ap[a].pc # "idle" => ap[a].rel # run
                            /\ ap[a].pc = "repoint" => linkTmp # run
    BY <1>0, <2>1 DEF ChosenInv, Chosen
  <2>3. run # current => Surpassed(run)
    BY <2>1 DEF ChosenInv, Surpassed
  <2>4. \A t \in Firm' \ {current'} : Surpassed(t)'
    BY <2>1, <2>3 DEF TrustInv, Surpassed
  <2> QED  BY <1>0, <2>1, <2>2, <2>4 DEF TrustInv
<1>4. CASE ConfirmFail
  <2>1. /\ UNCHANGED <<Seen, current, linkTmp, previous, confirmed, run, ap, script>>
        /\ Firm' \subseteq Firm /\ grace' = "off"
    BY <1>4, FirmStays DEF ConfirmFail, files, systemd, history, Seen
  <2> QED  BY <2>1 DEF TrustInv, Surpassed
<1>5. CASE Start
  <2>1. /\ run' = current /\ (grace' # "off" => confirmed # current)
        /\ UNCHANGED <<Seen, withdrawn, current, linkTmp, previous, confirmed, ap, script, trusted>>
        /\ Firm' \subseteq Firm
    BY <1>5, FirmStays DEF Start, files, Seen
  <2> QED  BY <1>0, <1>5, <2>1 DEF Start, ChosenInv, TrustInv, Surpassed
<1>6. CASE RunRestartJob \/ BadExit \/ Crash \/ Reboot
  <2>1. Ends /\ (script'.pc \in {"link", "move"} => script' = script)
    BY <1>0, <1>6, EndSteps DEF Ends
  <2>2. Firm' \subseteq Firm
    BY <2>1, FirmStays DEF Ends, history
  <2> QED  BY <2>1, <2>2 DEF Ends, TrustInv, Surpassed, history
<1>7. CASE GiveUp \/ ScriptRestart \/ ScriptRecord
  <2>1. /\ script'.pc \notin {"link", "move"}
        /\ UNCHANGED <<Seen, withdrawn, current, linkTmp, previous, confirmed, run, grace, ap,
                       trusted>>
        /\ Firm' \subseteq Firm
    BY <1>0, <1>7, FirmStays DEF Seen, GiveUp, ScriptRestart, ScriptRecord, ScriptAt, files, systemd, history
  <2> QED  BY <2>1 DEF TrustInv, Surpassed
<1>8. CASE ScriptDecide
  <2>1. /\ UNCHANGED <<Seen, withdrawn, current, linkTmp, previous, confirmed, run, grace, ap,
                       trusted>>
        /\ Firm' \subseteq Firm
    BY <1>8, FirmStays DEF ScriptDecide, files, systemd, history, Seen
  <2>2. script'.pc \in {"link", "move"} => MayRollBack
    BY <1>0, <1>8 DEF ScriptDecide
  <2>3. MayRollBack => current \notin Firm
    BY DEF MayRollBack, TrustInv
  <2> QED  BY <2>1, <2>2, <2>3 DEF TrustInv, Surpassed
<1>9. CASE ScriptLink
  <2>1. /\ UNCHANGED <<Seen, withdrawn, current, previous, confirmed, run, grace, ap, trusted>>
        /\ run = None /\ current \notin Firm /\ unit # "active"
        /\ Firm' \subseteq Firm
    BY <1>0, <1>9, FirmStays DEF Seen, ScriptLink, ScriptAt, systemd, history, TrustInv
  <2>2. \A a \in Appliers : ap[a].pc = "idle"
    BY <2>1 DEF ChosenInv
  <2> QED  BY <2>1, <2>2 DEF TrustInv, Surpassed
<1>10. CASE ScriptMove
  <2>1. /\ UNCHANGED <<Seen, withdrawn, previous, confirmed, run, grace, ap, trusted>>
        /\ run = None /\ current \notin Firm /\ unit # "active"
        /\ current' = previous /\ script'.pc = "record"
        /\ Firm' \subseteq Firm
    BY <1>0, <1>10, FirmStays DEF Seen, ScriptMove, ScriptAt, systemd, history, TrustInv, ChosenInv
  <2>2. \A a \in Appliers : ap[a].pc = "idle"
    BY <2>1 DEF ChosenInv
  <2> QED  BY <2>1, <2>2 DEF TrustInv, Surpassed
<1>11. ASSUME Elsewhere PROVE TrustInv'
  <2>1. Firm' \subseteq Firm
    BY <1>11, FirmStays DEF Elsewhere
  <2> QED  BY <1>11, <2>1 DEF Elsewhere, TrustInv, Surpassed
<1> QED
  BY <1>1, <1>2, <1>3, <1>4, <1>5, <1>6, <1>7, <1>8, <1>9, <1>10, <1>11, ElsewhereSteps
     DEF Next, Script

\* rollback.sh never leaves a release that has been confirmed, for any number of
\* handlers in Apply, although each start decides anew whether to write CONFIRMED
\* and a stop may come between the two calls that write it; unless a release
\* above it has been taken off the channel.
THEOREM ConfirmedStandsCorrect == Spec => ConfirmedStands
<1>1. TInv /\ ChosenInv /\ TrustInv /\ [Next]_vars
        => [script.pc = "move" /\ current' # current
              => script.from \notin trusted \/ WithdrawnAbove(script.from)]_vars
  BY DEF ChosenInv, TrustInv, Firm
<1> QED
  BY <1>1, TrustInit, TrustNext, TAlways, ChosenAlways, PTL DEF Spec, ConfirmedStands

-----------------------------------------------------------------------------

\* Releases with the same numbers ("-rc.1" is not looked at) are not on the
\* channel together.  Otherwise two bad ones can take turns.
DistinctVersions == \A t, u \in Tags : Version[t] = Version[u] => t = u

\* What an Apply is about to make current.
Aims == {t \in Tags : \E a \in Appliers :
           \/ ap[a].pc # "idle" /\ t = ap[a].rel
           \/ ap[a].pc = "repoint" /\ linkTmp # None /\ t = linkTmp}

LEMMA AimsApply ==
  ASSUME TInv, ChosenInv, NEW a \in Appliers, Apply(a) \/ Fail(a) \/ RecordFail(a)
  PROVE  /\ Aims' \subseteq IF Check(a) THEN Aims \cup Newest ELSE Aims
         /\ \A t \in Aims : Chosen(t)
         /\ current' # current => current' \in Aims
<1>0. ap \in [Appliers -> ApplyLocals] /\ linkTmp \in Tags \cup {None}
  BY DEF TInv, TypeOK
<1>1. \A t \in Aims : Chosen(t)
  BY DEF Aims, ChosenInv
<1>2. CASE Check(a)
  <2>1. PICK t \in Newest :
          ap' = [ap EXCEPT ![a] = [pc |-> "open", rel |-> t, at |-> "gone"]]
    BY <1>2 DEF Check
  <2>2. /\ ap'[a].pc = "open" /\ ap'[a].rel = t
        /\ \A b \in Appliers \ {a} : ap'[b] = ap[b]
    BY <1>0, <2>1
  <2>3. UNCHANGED <<current, linkTmp>>
    BY <1>2 DEF Check, Rest, files
  <2> QED  BY <1>1, <1>2, <2>2, <2>3 DEF Aims
<1>3. CASE ~Check(a)
  <2>1. /\ ap[a].pc # "idle"
        /\ \A b \in Appliers : /\ ap'[b].rel = ap[b].rel
                               /\ b # a => ap'[b].pc = ap[b].pc
        /\ ap'[a].pc = "repoint" => linkTmp' = ap[a].rel
    BY <1>3, ApplyMoves DEF Symlink
  <2>2. Aims' \subseteq Aims
    BY <1>3, <2>1, ApplyLinks DEF Aims
  <2>3. current' # current => current' \in Aims
    BY <1>0, <1>3, ApplyLinks DEF Aims
  <2> QED  BY <1>1, <1>3, <2>2, <2>3
<1> QED  BY <1>2, <1>3

\* A release that Check chooses as long as it knows no higher one.
Steady(t) == t \notin withdrawn /\ ~WithdrawnAbove(t)

LEMMA SteadyBefore ==
  ASSUME withdrawn \subseteq withdrawn', NEW t, Steady(t)' PROVE Steady(t)
  BY DEF Steady, WithdrawnAbove

\* Versions never go down on the way from PREVIOUS over the running release to
\* the link; a rollback goes down.
Ordered ==
    /\ previous # None => /\ Version[previous] <= Version[current]
                          /\ run # None => Version[previous] <= Version[run]
    /\ script.pc \in {"link", "move", "record"} =>
         /\ script.from \in Seen /\ Version[previous] < Version[script.from]
         /\ \A x \in Tags : script.pc # "record" /\ x = script.from /\ Steady(x)
              => <<x, previous>> \notin rolled
         /\ \A x, p \in Tags :
              rolledBack = <<x, p>> /\ <<x, p>> # <<script.from, previous>> /\ Steady(x)
                => Version[x] < Version[script.from]

\* After a rollback from x to p the device has p, or x and what is above it.
LastPair ==
    \A x, p \in Tags : rolledBack = <<x, p>> /\ Steady(x) =>
      /\ x \in Seen /\ Version[p] < Version[x]
      /\ \A t \in {current, previous, run} \ {None, p} : Version[x] <= Version[t]
      /\ \A t \in Aims : Version[x] <= Version[t]

\* When ROLLED_BACK names another pair there is a release above x, so that no
\* update takes x again; a rollback may, and then PREVIOUS is x too.
OldPairs ==
    \A x, p \in Tags : <<x, p>> \in rolled /\ rolledBack # <<x, p>> /\ Steady(x) =>
      /\ Surpassed(x)
      /\ current = x => previous \in {None, x} /\ run \in {None, x}
      /\ x \notin Aims

PairInv == Ordered /\ LastPair /\ OldPairs

LEMMA PairInit == Init => PairInv
<1> SUFFICES ASSUME Init PROVE PairInv
  OBVIOUS
<1>1. /\ previous = None /\ script.pc = "off" /\ rolledBack = None /\ rolled = {}
      /\ \A x, p \in Tags : <<x, p>> # None
  BY ConstantFacts, UpdaterAssumption DEF Init
<1> QED  BY <1>1 DEF PairInv, Ordered, LastPair, OldPairs

LEMMA PairApply ==
  ASSUME DistinctVersions, TInv, ChosenInv, PairInv,
         NEW a \in Appliers, Apply(a) \/ Fail(a) \/ RecordFail(a)
  PROVE  PairInv'
<1>0. /\ current \in Tags /\ None \notin Tags /\ run \in Tags
      /\ offered \subseteq Tags /\ Seen \subseteq Tags /\ Version \in [Tags -> Nat]
      /\ previous \in Tags \cup {None} /\ unit = "active" /\ script.pc = "off"
  <2>1. unit = "active"
    BY DEF Apply, Check, OpenTmp, WriteTmp, RenameTmp, RecordOpen, RecordWrite, Unlink,
           Symlink, Repoint, RequestRestart, Disturbed, Fail, RecordFail, At
  <2> QED  BY <2>1, ConstantFacts, UpdaterAssumption DEF TInv, TypeOK, ScriptReady, Seen
<1>1. UNCHANGED <<Seen, withdrawn, rolledBack, rolled, run, script>>
  BY ApplyMoves DEF Check, Rest, files, systemd, history, Seen
<1>2. \A t \in Aims' : t \in Aims \/ t \in Newest
  BY AimsApply
<1>3. \A t \in Aims : Version[t] > Version[run] /\ t \in Tags
  BY AimsApply DEF Chosen, Aims
<1>4. current' = current \/ current' \in Aims
  BY AimsApply
<1>5. previous' \in {previous, None, run}
  BY ApplyLinks DEF Check, Rest, files
<1>6. Ordered'
  <2>1. Version[run] <= Version[current]
    BY <1>0 DEF ChosenInv
  <2>2. previous # None => Version[previous] <= Version[run]
    BY <1>0 DEF PairInv, Ordered
  <2>3. Version[run] <= Version[current']
    BY <1>0, <1>3, <1>4, <2>1
  <2>4. previous' # None => Version[previous'] <= Version[run]
    BY <1>0, <1>5, <2>2
  <2>5. previous' # None => Version[previous'] <= Version[current']
    BY <1>0, <1>3, <1>4, <1>5, <2>3, <2>4
  <2> QED  BY <1>0, <1>1, <2>4, <2>5 DEF Ordered
<1>7. LastPair'
  <2> SUFFICES ASSUME NEW x \in Tags, NEW p \in Tags, rolledBack = <<x, p>>, Steady(x)
               PROVE  /\ x \in Seen /\ Version[p] < Version[x]
                      /\ \A t \in {current', previous', run} \ {None, p} :
                            Version[x] <= Version[t]
                      /\ \A t \in Aims' : Version[x] <= Version[t]
    BY <1>1, SteadyBefore DEF LastPair
  <2>1. /\ x \in Seen /\ Version[p] < Version[x]
        /\ \A t \in {current, previous, run} \ {None, p} : Version[x] <= Version[t]
        /\ \A t \in Aims : Version[x] <= Version[t]
    BY DEF PairInv, LastPair
  <2>2. \A t \in Newest : Version[x] <= Version[t]
    BY <2>1 DEF Newest, Seen, Steady
  <2> QED  BY <1>2, <1>4, <1>5, <2>1, <2>2
<1>8. OldPairs'
  <2> SUFFICES ASSUME NEW x \in Tags, NEW p \in Tags,
                      <<x, p>> \in rolled, rolledBack # <<x, p>>, Steady(x)
               PROVE  /\ Surpassed(x)
                      /\ current' = x => previous' \in {None, x} /\ run \in {None, x}
                      /\ x \notin Aims'
    BY <1>1, SteadyBefore DEF OldPairs, Surpassed
  <2>1. /\ Surpassed(x) /\ x \notin Aims
        /\ current = x => previous \in {None, x} /\ run \in {None, x}
    BY DEF PairInv, OldPairs
  <2>2. x \notin Newest
    BY <2>1, NotNewest DEF Steady
  <2> QED  BY <1>0, <1>2, <1>4, <1>5, <2>1, <2>2
<1> QED  BY <1>6, <1>7, <1>8 DEF PairInv

\* rollback.sh looks at the pair it is about to record.
LEMMA PairScript ==
  ASSUME DistinctVersions, TInv, ChosenInv, PairInv,
         ScriptDecide \/ ScriptLink \/ ScriptMove \/ ScriptRecord
  PROVE  PairInv'
<1>0. /\ current \in Tags /\ None \notin Tags /\ run = None
      /\ offered \subseteq Tags /\ Seen \subseteq Tags /\ Version \in [Tags -> Nat]
      /\ previous \in Tags \cup {None} /\ unit = "failed"
      /\ rolledBack \in (Tags \X Tags) \cup {None}
      /\ None \notin Tags \X Tags /\ rolled \subseteq Tags \X Tags
      /\ script \in [pc : ScriptPoints, from : Tags]
      /\ \A a \in Appliers : ap[a].pc = "idle"
  <2>1. unit = "failed"
    BY DEF ScriptDecide, ScriptLink, ScriptMove, ScriptRecord, ScriptAt
  <2> QED  BY <2>1, ConstantFacts, UpdaterAssumption
              DEF TInv, TypeOK, ScriptReady, ChosenInv, Seen
<1>1. UNCHANGED <<Seen, withdrawn, previous, run, ap>>
  BY DEF ScriptDecide, ScriptLink, ScriptMove, ScriptRecord, files, systemd, history, Seen
<1>2. Aims' = {} /\ Aims = {}
  BY <1>0, <1>1 DEF Aims
<1>3. CASE ScriptDecide /\ ~MayRollBack
  <2>1. script'.pc = "off" /\ UNCHANGED <<current, rolledBack, rolled>>
    BY <1>0, <1>3 DEF ScriptDecide, files, history
  <2> QED
    BY <1>0, <1>1, <1>2, <2>1 DEF PairInv, Ordered, LastPair, OldPairs, Surpassed, Steady,
               WithdrawnAbove
<1>4. CASE ScriptDecide /\ MayRollBack
  <2>1. /\ script'.pc = "link" /\ script'.from = current
        /\ UNCHANGED <<current, rolledBack, rolled>>
        /\ previous \notin {None, current} /\ rolledBack # <<current, previous>>
    BY <1>0, <1>4 DEF ScriptDecide, MayRollBack, files, history
  <2>2. Version[previous] < Version[current]
    BY <1>0, <2>1 DEF DistinctVersions, PairInv, Ordered
  <2>3. Steady(current) => <<current, previous>> \notin rolled
    BY <1>0, <2>1 DEF PairInv, OldPairs
  <2>4. ASSUME NEW x \in Tags, NEW p \in Tags, rolledBack = <<x, p>>, Steady(x)
        PROVE  Version[x] < Version[current]
    <3>1. /\ Version[p] < Version[x]
          /\ current # p => Version[x] <= Version[current]
          /\ previous # p => Version[x] <= Version[previous]
      BY <1>0, <2>1, <2>4 DEF PairInv, LastPair
    <3>2. current # p
      BY <1>0, <2>1, <2>2, <3>1
    <3>3. current # x
      BY <1>0, <2>1, <2>2, <2>4, <3>1
    <3> QED  BY <1>0, <3>1, <3>2, <3>3 DEF DistinctVersions
  <2>5. current \in Seen
    BY DEF ChosenInv
  <2>6. Ordered'
    <3>1. \A x \in Tags : Steady(x)' => Steady(x)
      BY <1>1 DEF Steady, WithdrawnAbove
    <3>2. script'.from \in Seen' /\ Version[previous'] < Version[script'.from]
      BY <1>1, <2>1, <2>2, <2>5
    <3>3. \A x \in Tags : x = script'.from /\ Steady(x)' => <<x, previous'>> \notin rolled'
      BY <1>1, <2>1, <2>3, <3>1
    <3>4. \A x, p \in Tags : rolledBack' = <<x, p>> /\ Steady(x)'
                             => Version[x] < Version[script'.from]
      BY <2>1, <2>4, <3>1
    <3>5. previous' # None => /\ Version[previous'] <= Version[current']
                              /\ run' # None => Version[previous'] <= Version[run']
      BY <1>0, <1>1, <2>1 DEF PairInv, Ordered
    <3> QED  BY <3>2, <3>3, <3>4, <3>5 DEF Ordered
  <2> QED
    BY <1>0, <1>1, <1>2, <2>1, <2>6 DEF PairInv, LastPair, OldPairs, Surpassed, Steady,
               WithdrawnAbove
<1>5. CASE ScriptLink
  <2>1. /\ script.pc = "link" /\ script'.pc = "move" /\ script'.from = script.from
        /\ UNCHANGED <<current, rolledBack, rolled>>
    BY <1>0, <1>5 DEF ScriptLink, ScriptAt, history
  <2> QED
    BY <1>0, <1>1, <1>2, <2>1 DEF PairInv, Ordered, LastPair, OldPairs, Surpassed, Steady,
               WithdrawnAbove
<1>6. CASE ScriptMove
  <2>1. /\ script.pc = "move" /\ script'.pc = "record" /\ script'.from = script.from
        /\ UNCHANGED <<rolledBack, rolled>> /\ current' = previous /\ previous # None
    BY <1>0, <1>6 DEF ScriptMove, ScriptAt, history, ChosenInv, TInv, ScriptReady
  <2> QED
    BY <1>0, <1>1, <1>2, <2>1 DEF PairInv, Ordered, LastPair, OldPairs, Surpassed, Steady,
               WithdrawnAbove
<1>7. CASE ScriptRecord
  <2>1. /\ script.pc = "record" /\ script'.pc = "restart" /\ UNCHANGED current
        /\ rolledBack' = <<script.from, previous>>
        /\ rolled' = rolled \cup {<<script.from, previous>>}
        /\ current = previous /\ previous \in Tags /\ script.from \in Tags
    BY <1>0, <1>7 DEF ScriptRecord, ScriptAt, ChosenInv, TInv, ScriptReady
  <2>2. script.from \in Seen /\ Version[previous] < Version[script.from]
    BY <2>1 DEF PairInv, Ordered
  <2>3. Ordered'
    BY <1>0, <1>1, <2>1 DEF PairInv, Ordered
  <2>4. LastPair'
    BY <1>0, <1>1, <1>2, <2>1, <2>2 DEF LastPair
  <2>5. OldPairs'
    <3> SUFFICES ASSUME NEW x \in Tags, NEW p \in Tags,
                        <<x, p>> \in rolled', rolledBack' # <<x, p>>, Steady(x)
                 PROVE  /\ Surpassed(x)
                        /\ current = x => previous \in {None, x} /\ run \in {None, x}
                        /\ x \notin Aims'
      BY <1>1, <2>1, SteadyBefore DEF OldPairs, Surpassed
    <3>1. <<x, p>> \in rolled
      BY <2>1
    <3>2. CASE rolledBack # <<x, p>>
      BY <1>0, <1>2, <2>1, <3>1, <3>2 DEF PairInv, OldPairs
    <3>3. CASE rolledBack = <<x, p>>
      <4>1. Version[x] < Version[script.from]
        BY <2>1, <3>3 DEF PairInv, Ordered
      <4> QED  BY <1>0, <1>2, <2>1, <2>2, <4>1 DEF Surpassed
    <3> QED  BY <3>2, <3>3
  <2> QED  BY <2>3, <2>4, <2>5 DEF PairInv
<1> QED  BY <1>3, <1>4, <1>5, <1>6, <1>7

LEMMA PairNext ==
  DistinctVersions /\ TInv /\ ChosenInv /\ PairInv /\ [Next]_vars => PairInv'
<1> SUFFICES ASSUME DistinctVersions, TInv, ChosenInv, PairInv, [Next]_vars PROVE PairInv'
  OBVIOUS
<1>0. /\ current \in Tags /\ None \notin Tags /\ previous \in Tags \cup {None}
      /\ offered \subseteq Tags /\ Seen \subseteq Tags /\ Version \in [Tags -> Nat]
      /\ script \in [pc : ScriptPoints, from : Tags]
      /\ (unit = "active" <=> run # None)
      /\ script.pc # "off" => unit = "failed"
  BY ConstantFacts, UpdaterAssumption DEF TInv, TypeOK, ScriptReady, Seen
<1>1. CASE \E a \in Appliers : Apply(a) \/ Fail(a) \/ RecordFail(a)
  BY <1>1, PairApply
<1>2. CASE ScriptDecide \/ ScriptLink \/ ScriptMove \/ ScriptRecord
  BY <1>2, PairScript
<1>3. CASE Start
  <2>1. /\ run' = current /\ Aims' = {} /\ script.pc = "off"
        /\ UNCHANGED <<Seen, withdrawn, current, previous, rolledBack, script, rolled>>
    BY <1>0, <1>3 DEF Start, files, Seen, Aims, ChosenInv
  <2> QED  BY <1>0, <2>1 DEF PairInv, Ordered, LastPair, OldPairs, Surpassed,
                               Steady, WithdrawnAbove
<1>4. CASE RunRestartJob \/ BadExit \/ Crash \/ Reboot
  <2>1. /\ run' = None /\ Aims' = {}
        /\ script' = script \/ script'.pc = "off"
        /\ UNCHANGED <<Seen, withdrawn, current, previous, rolledBack, rolled>>
    BY <1>4, EndSteps DEF Ends, Aims, history
  <2> QED  BY <1>0, <2>1 DEF PairInv, Ordered, LastPair, OldPairs, Surpassed,
                               Steady, WithdrawnAbove
<1>5. CASE GiveUp \/ ScriptRestart
  <2>1. /\ script'.pc \notin {"link", "move", "record"} /\ Aims' = Aims
        /\ UNCHANGED <<Seen, withdrawn, current, previous, rolledBack, rolled, run>>
    BY <1>0, <1>5 DEF GiveUp, ScriptRestart, ScriptAt, files, history, Seen, Aims
  <2> QED  BY <2>1 DEF PairInv, Ordered, LastPair, OldPairs, Surpassed,
                               Steady, WithdrawnAbove
<1>6. CASE ConfirmOpen \/ ConfirmWrite \/ ConfirmFail \/ Elsewhere
  <2>1. /\ UNCHANGED <<current, linkTmp, previous, rolledBack, run, script, ap, rolled>>
        /\ Seen \subseteq Seen' /\ withdrawn \subseteq withdrawn'
    BY <1>6 DEF ConfirmOpen, ConfirmWrite, ConfirmFail, Elsewhere, systemd, files, history,
                Seen
  <2>2. Aims' = Aims
    BY <2>1 DEF Aims
  <2> QED  BY <2>1, <2>2 DEF PairInv, Ordered, LastPair, OldPairs, Surpassed,
                               Steady, WithdrawnAbove
<1> QED
  BY <1>1, <1>2, <1>3, <1>4, <1>5, <1>6, ElsewhereSteps DEF Next, Script

\* "writes ROLLED_BACK so a second failure doesn't try again" (rollback.sh): the
\* link never goes back twice along one pair, although the file holds the last
\* pair only, the loop installs again what was rolled back, and any number of
\* handlers run Apply; provided that no two releases have the same numbers, and
\* that neither the release nor one above it has been taken off the channel.
THEOREM NoPingPongCorrect == DistinctVersions /\ Spec => NoPingPong
<1>1. SUFFICES ASSUME DistinctVersions PROVE Spec => NoPingPong
  OBVIOUS
<1>2. TInv /\ ChosenInv /\ PairInv /\ [Next]_vars => PairInv'
  BY <1>1, PairNext
<1>3. TInv /\ PairInv /\ [Next]_vars
        => [GoesBackAgain
              => script.from \in withdrawn \/ WithdrawnAbove(script.from)]_vars
  BY DEF TInv, TypeOK, PairInv, Ordered, GoesBackAgain, Steady
<1> QED
  BY <1>2, <1>3, PairInit, TAlways, ChosenAlways, PTL DEF Spec, NoPingPong
=============================================================================
