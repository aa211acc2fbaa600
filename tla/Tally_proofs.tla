---------------------------- MODULE Tally_proofs ----------------------------
(***************************************************************************)
(* Proofs about Tally, for any number of days, writes, faults and starts:  *)
(*   TypeCorrect        the type invariant                                 *)
(*   NeverOvercountsCorrect  no counter, file or copy claims more      *)
(*                      writes than were made under its date               *)
(*   CleanIsSavedCorrect  clean counters are on disk once saves are over,   *)
(*                      and nothing that was counted is missing there      *)
(*   FileOnlyGrowsCorrect  the file goes back only after overlapping saves or *)
(*                      a boot without the date                            *)
(* FileOnlyGrows is not inductive: GrowInv says where a copy on its way to *)
(* the disk lies between the file and the counters.                        *)
(***************************************************************************)
EXTENDS Tally, TLAPS

Saver == [pc : {"idle", "open", "write", "rename"},
          snap : Snapshot, at : {"tmp", "file", "gone"}]

\* What a file holds when it holds no snapshot.
LEMMA NoSnapshot ==
  /\ Absent \notin Snapshot /\ Empty \notin Snapshot /\ Mixed \notin Snapshot
  /\ Empty # Absent /\ Mixed # Absent /\ Mixed # Empty
<1>1. \A c \in Snapshot : DOMAIN c = {"date", "auto", "manual"}
  BY DEF Snapshot
<1>2. /\ DOMAIN Absent = {"is"} /\ DOMAIN Empty = {"is"} /\ DOMAIN Mixed = {"is"}
  BY DEF Absent, Empty, Mixed
<1>3. "date" \in {"date", "auto", "manual"} /\ "date" \notin {"is"}
  OBVIOUS
<1>4. Absent.is = "absent" /\ Empty.is = "empty" /\ Mixed.is = "mixed"
  BY DEF Absent, Empty, Mixed
<1>5. Absent \notin Snapshot /\ Empty \notin Snapshot /\ Mixed \notin Snapshot
  BY <1>1, <1>2, <1>3
<1> QED  BY <1>4, <1>5

LEMMA DateFacts == Dates \subseteq Nat /\ Unset \in Dates /\ 1 \in Dates
  BY TallyAssumption DEF Dates, Unset

LEMMA FreshType == \A d \in Dates : Fresh(d) \in Snapshot
  BY DEF Fresh, Snapshot

LEMMA IdleType == IdleSaver \in Saver
  BY FreshType, DateFacts DEF IdleSaver, Saver

LEMMA RollType ==
  \A c \in Snapshot, d \in Dates : Roll(c, d) \in Snapshot /\ Roll(c, d).date = d
  BY FreshType DEF Roll, Fresh, Snapshot

LEMMA LoadType ==
  ASSUME TypeOK
  PROVE  Load \in Snapshot /\ Load.date = clock
<1>1. CASE file \in Snapshot
  BY <1>1, RollType DEF Load, TypeOK
<1>2. CASE file \notin Snapshot
  BY <1>2, FreshType DEF Load, TypeOK, Fresh
<1> QED  BY <1>1, <1>2

-----------------------------------------------------------------------------
(* Types                                                                     *)

LEMMA TInit == Init => TypeOK
<1> SUFFICES ASSUME Init PROVE TypeOK
  OBVIOUS
<1>1. s \in Snapshot /\ sv \in [Savers -> Saver]
  BY FreshType, IdleType, DateFacts DEF Init
<1>2. file \in Contents /\ tmp \in Contents
  BY DEF Init, Contents
<1>3. made \in [Dates -> [auto : Nat, manual : Nat]]
  BY DEF Init, NoCounts
<1>4. /\ saved \in [writes : Nat, faults : Nat, starts : Nat]
      /\ excused \in [overlap : BOOLEAN, failed : BOOLEAN, noClock : BOOLEAN]
  BY DEF Init
<1> QED  BY <1>1, <1>2, <1>3, <1>4, DateFacts DEF Init, TypeOK, Saver

LEMMA TNext == TypeOK /\ [Next]_vars => TypeOK'
<1> SUFFICES ASSUME TypeOK, [Next]_vars PROVE TypeOK'
  OBVIOUS
<1> USE DEF TypeOK
<1>1. ASSUME NEW kind \in Kinds, Count(kind) PROVE TypeOK'
  <2>1. s' \in Snapshot
    <3>1. Roll(s, clock) \in Snapshot
      BY RollType
    <3> QED  BY <3>1, <1>1 DEF Count, Kinds, Snapshot
  <2>2. made' \in [Dates -> [auto : Nat, manual : Nat]]
    BY <1>1 DEF Count, Kinds
  <2>3. saved' \in [writes : Nat, faults : Nat, starts : Nat]
    BY <1>1 DEF Count
  <2> QED  BY <2>1, <2>2, <2>3, <1>1 DEF Count
<1>2. ASSUME Today PROVE TypeOK'
  BY <1>2, RollType DEF Today, RollDirties
<1>3. ASSUME NEW w \in Savers, SaveBegin(w) PROVE TypeOK'
  <2>1. [pc |-> "open", snap |-> s, at |-> "gone"] \in Saver
    BY DEF Saver
  <2>2. sv' \in [Savers -> Saver]
    BY <1>3, <2>1 DEF SaveBegin, Saver
  <2>3. /\ excused' \in [overlap : BOOLEAN, failed : BOOLEAN, noClock : BOOLEAN]
        /\ done' \subseteq Savers
    BY <1>3 DEF SaveBegin, Last
  <2> QED  BY <1>3, <2>2, <2>3 DEF SaveBegin, Saver
<1>4. ASSUME NEW w \in Savers, SaveOpen(w) PROVE TypeOK'
  BY <1>4 DEF SaveOpen, Contents
<1>5. ASSUME NEW w \in Savers, SaveWrite(w) PROVE TypeOK'
  <2>1. \A c \in Contents : Over(c, sv[w].snap) \subseteq Contents
    BY DEF Over, Contents
  <2> QED  BY <1>5, <2>1 DEF SaveWrite
<1>6. ASSUME NEW w \in Savers, SaveRename(w) PROVE TypeOK'
  <2>1. sv' \in [Savers -> Saver]
    BY <1>6, IdleType, SMTT(60) DEF SaveRename, Renamed, Saver
  <2>2. file' \in Contents /\ tmp' \in Contents
    BY <1>6 DEF SaveRename, Renamed, Contents
  <2> QED  BY <1>6, <2>1, <2>2 DEF SaveRename, Renamed, Saver
<1>7. ASSUME NEW w \in Savers, SaveFail(w) PROVE TypeOK'
  <2>1. sv' \in [Savers -> Saver]
    BY <1>7, IdleType DEF SaveFail, Saver
  <2>2. excused' \in [overlap : BOOLEAN, failed : BOOLEAN, noClock : BOOLEAN]
    BY <1>7 DEF SaveFail
  <2>3. saved' \in [writes : Nat, faults : Nat, starts : Nat]
    BY <1>7 DEF SaveFail
  <2> QED  BY <1>7, <2>1, <2>2, <2>3 DEF SaveFail, Saver
<1>8. ASSUME Start PROVE TypeOK'
  <2>1. saved' \in [writes : Nat, faults : Nat, starts : Nat]
    BY <1>8 DEF Start
  <2>2. dirty' \in BOOLEAN /\ s' \in Snapshot
    BY <1>8, LoadType DEF Start
  <2> QED  BY <1>8, <2>1, <2>2 DEF Start
<1>9. ASSUME Signal PROVE TypeOK'
  BY <1>9 DEF Signal
<1>10. ASSUME Exit \/ Crash PROVE TypeOK'
  <2>0. lost' \subseteq Dates
    BY <1>10 DEF Exit, Crash, Down, Snapshot
  <2>1. sv' \in [Savers -> Saver]
    BY <1>10, IdleType DEF Exit, Crash, Down
  <2> QED  BY <1>10, <2>0, <2>1 DEF Exit, Crash, Down, Saver
<1>11. ASSUME Boot \/ Ntp \/ Midnight PROVE TypeOK'
  <2>1. CASE Boot
    <3>1. excused' \in [overlap : BOOLEAN, failed : BOOLEAN, noClock : BOOLEAN]
      BY <2>1 DEF Boot
    <3> QED  BY <2>1, <3>1, DateFacts DEF Boot
  <2>2. CASE Ntp
    BY <2>2 DEF Ntp
  <2>3. CASE Midnight
    <3>1. day' \in Dates
      BY <2>3, TallyAssumption DEF Midnight, Dates
    <3>2. clock' \in Dates
      BY <2>3, <3>1 DEF Midnight
    <3> QED  BY <2>3, <3>1, <3>2 DEF Midnight
  <2> QED  BY <1>11, <2>1, <2>2, <2>3
<1>12. ASSUME (\E w \in Savers : SaveNothing(w)) \/ UNCHANGED vars PROVE TypeOK'
  BY <1>12 DEF SaveNothing, vars
<1> QED
  BY <1>1, <1>2, <1>3, <1>4, <1>5, <1>6, <1>7, <1>8, <1>9, <1>10, <1>11, <1>12
     DEF Next, SaveStep

\* Every reachable state of the counters, the two savers and the files is well
\* typed (Counter, Load, Save).
THEOREM TypeCorrect == Spec => []TypeOK
<1> QED  BY TInit, TNext, PTL DEF Spec

-----------------------------------------------------------------------------
(* NeverOvercounts                                                           *)

\* A snapshot that was honest stays so while more writes are made.
LEMMA StillHonest ==
  ASSUME TypeOK, NEW c, Honest(c),
         \A d \in Dates : /\ made[d].auto <= made'[d].auto
                          /\ made[d].manual <= made'[d].manual,
         made' \in [Dates -> [auto : Nat, manual : Nat]]
  PROVE  Honest(c)'
<1> SUFFICES ASSUME c \in Snapshot
             PROVE  c.auto <= made'[c.date].auto /\ c.manual <= made'[c.date].manual
  BY DEF Honest
<1>1. /\ c.date \in Dates /\ c.auto \in Nat /\ c.manual \in Nat
      /\ made[c.date] \in [auto : Nat, manual : Nat]
      /\ made'[c.date] \in [auto : Nat, manual : Nat]
  BY DEF Snapshot, TypeOK
<1>2. /\ c.auto <= made[c.date].auto /\ c.manual <= made[c.date].manual
      /\ made[c.date].auto <= made'[c.date].auto
      /\ made[c.date].manual <= made'[c.date].manual
  BY <1>1 DEF Honest
<1> QED  BY <1>1, <1>2

\* Zero counters are honest, and so are those roll makes of honest ones.
LEMMA RollHonest ==
  ASSUME TypeOK, NEW d \in Dates
  PROVE  /\ Honest(Fresh(d))
         /\ \A c \in Snapshot : Honest(c) => Honest(Roll(c, d))
<1>1. made[d].auto \in Nat /\ made[d].manual \in Nat
  BY DEF TypeOK
<1>2. Honest(Fresh(d))
  BY <1>1 DEF Honest, Fresh
<1> QED  BY <1>2 DEF Roll

LEMMA HInit == Init => NeverOvercounts
<1> SUFFICES ASSUME Init PROVE NeverOvercounts
  OBVIOUS
<1>1. TypeOK
  BY TInit
<1>2. Honest(Fresh(Unset))
  BY <1>1, RollHonest, DateFacts
<1> QED  BY <1>2, NoSnapshot DEF Init, NeverOvercounts, Honest, IdleSaver

LEMMA HNext == TypeOK /\ NeverOvercounts /\ [Next]_vars => NeverOvercounts'
<1> SUFFICES ASSUME TypeOK, NeverOvercounts, [Next]_vars PROVE NeverOvercounts'
  OBVIOUS
<1>0. \A w \in Savers : sv[w] \in Saver
  BY DEF TypeOK, Saver
<1>1. ASSUME NEW kind \in Kinds, Count(kind) PROVE NeverOvercounts'
  <2>1. made' \in [Dates -> [auto : Nat, manual : Nat]]
    BY <1>1, TNext DEF Next, TypeOK
  <2>2. \A d \in Dates : /\ made[d].auto <= made'[d].auto
                         /\ made[d].manual <= made'[d].manual
    BY <1>1 DEF Count, Kinds, TypeOK
  <2>3. Roll(s, clock) \in Snapshot /\ Roll(s, clock).date = clock
    BY RollType DEF TypeOK
  <2>4. Honest(Roll(s, clock))
    BY RollHonest DEF NeverOvercounts, TypeOK
  <2>5. /\ s'.date = clock
        /\ s'[kind] = Roll(s, clock)[kind] + 1
        /\ \A k \in Kinds \ {kind} : s'[k] = Roll(s, clock)[k]
    BY <1>1, <2>3 DEF Count, Kinds, Snapshot
  <2>6. /\ made'[clock][kind] = made[clock][kind] + 1
        /\ \A k \in Kinds \ {kind} : made'[clock][k] = made[clock][k]
    BY <1>1 DEF Count, Kinds, TypeOK
  <2>7. /\ made[clock].auto \in Nat /\ made[clock].manual \in Nat
        /\ Roll(s, clock).auto \in Nat /\ Roll(s, clock).manual \in Nat
        /\ Roll(s, clock).auto <= made[clock].auto
        /\ Roll(s, clock).manual <= made[clock].manual
    BY <2>3, <2>4 DEF Honest, Snapshot, TypeOK
  <2>8. s'.auto <= made'[clock].auto /\ s'.manual <= made'[clock].manual
    BY <2>5, <2>6, <2>7 DEF Kinds
  <2>9. Honest(s)'
    BY <2>5, <2>8 DEF Honest
  <2>10. Honest(file)' /\ Honest(tmp)'
    BY <1>1, <2>1, <2>2, StillHonest DEF Count, NeverOvercounts
  <2>11. \A w \in Savers : Honest(sv[w].snap)'
    BY <1>1, <2>1, <2>2, StillHonest DEF Count, NeverOvercounts
  <2> QED  BY <2>9, <2>10, <2>11 DEF NeverOvercounts
<1>2. ASSUME Today PROVE NeverOvercounts'
  BY <1>2, RollHonest DEF Today, NeverOvercounts, Honest, TypeOK
<1>3. ASSUME NEW w \in Savers, SaveBegin(w) PROVE NeverOvercounts'
  BY <1>3, <1>0 DEF SaveBegin, NeverOvercounts, Honest, TypeOK
<1>4. ASSUME NEW w \in Savers, SaveOpen(w) PROVE NeverOvercounts'
  <2>1. \A v \in Savers : sv'[v].snap = sv[v].snap
    BY <1>4, <1>0 DEF SaveOpen, TypeOK, Saver
  <2> QED  BY <1>4, <2>1, NoSnapshot DEF SaveOpen, NeverOvercounts, Honest
<1>5. ASSUME NEW w \in Savers, SaveWrite(w) PROVE NeverOvercounts'
  <2>1. \A v \in Savers : sv'[v].snap = sv[v].snap
    BY <1>5, <1>0 DEF SaveWrite, TypeOK, Saver
  <2>2. /\ tmp' \in {tmp, sv[w].snap, Mixed}
        /\ file' \in {file, sv[w].snap, Mixed}
    BY <1>5 DEF SaveWrite, Over
  <2> QED  BY <1>5, <2>1, <2>2, NoSnapshot DEF SaveWrite, NeverOvercounts, Honest
<1>6. ASSUME NEW w \in Savers, SaveRename(w) PROVE NeverOvercounts'
  <2>1. \A v \in Savers : sv'[v].snap \in {sv[v].snap, IdleSaver.snap}
    BY <1>6, <1>0 DEF SaveRename, Renamed, TypeOK, Saver
  <2>2. Honest(IdleSaver.snap)
    BY RollHonest, DateFacts DEF IdleSaver
  <2>3. file' \in {file, tmp} /\ tmp' \in {tmp, Absent}
    BY <1>6 DEF SaveRename, Renamed
  <2> QED
    BY <1>6, <2>1, <2>2, <2>3, NoSnapshot
       DEF SaveRename, Renamed, NeverOvercounts, Honest
<1>7. ASSUME (\E w \in Savers : SaveFail(w)) \/ Exit \/ Crash PROVE NeverOvercounts'
  <2>1. \A v \in Savers : sv'[v].snap \in {sv[v].snap, IdleSaver.snap}
    BY <1>7, <1>0 DEF SaveFail, Exit, Crash, Down, TypeOK, Saver
  <2>2. Honest(IdleSaver.snap)
    BY RollHonest, DateFacts DEF IdleSaver
  <2> QED
    BY <1>7, <2>1, <2>2 DEF SaveFail, Exit, Crash, Down, NeverOvercounts, Honest
<1>8. ASSUME Start PROVE NeverOvercounts'
  <2>1. Honest(Load)
    BY RollHonest DEF Load, NeverOvercounts, TypeOK
  <2> QED  BY <1>8, <2>1 DEF Start, NeverOvercounts, Honest
<1>9. ASSUME Signal \/ Boot \/ Ntp \/ Midnight PROVE NeverOvercounts'
  BY <1>9 DEF Signal, Boot, Ntp, Midnight, NeverOvercounts, Honest
<1>10. ASSUME (\E w \in Savers : SaveNothing(w)) \/ UNCHANGED vars
       PROVE  NeverOvercounts'
  BY <1>10 DEF SaveNothing, vars, NeverOvercounts, Honest
<1> QED
  BY <1>1, <1>2, <1>3, <1>4, <1>5, <1>6, <1>7, <1>8, <1>9, <1>10
     DEF Next, SaveStep

\* "Writes today" never claims a lamp write that was not made under its date:
\* not the counters, not the files, not a copy on its way to the disk, in any
\* interleaving of the two savers (roll, Load, Save).
THEOREM NeverOvercountsCorrect == Spec => []NeverOvercounts
<1> QED  BY TInit, TNext, HInit, HNext, PTL DEF Spec

-----------------------------------------------------------------------------
(* FileOnlyGrows                                                             *)

\* a is of an earlier day than b, or of the same day with no more writes.
UpTo(a, b) ==
  \/ a.date < b.date
  \/ /\ a.date = b.date
     /\ a.auto <= b.auto /\ a.manual <= b.manual

Undisturbed == ~excused.overlap /\ ~excused.noClock

\* With one saver at a time, the copy it writes lies between the file and the
\* counters, and only that copy gets into the temporary file before its rename.
GrowInv ==
  Undisturbed =>
    /\ clock = day
    /\ s.date <= day
    /\ file \in Snapshot => file.date <= day
    /\ file \in Snapshot /\ proc # "down" => UpTo(file, s)
    /\ \A w \in Savers : sv[w].pc # "idle" =>
         /\ proc # "down"
         /\ \A v \in Savers \ {w} : sv[v].pc = "idle"
         /\ UpTo(sv[w].snap, s)
         /\ file \in Snapshot => UpTo(file, sv[w].snap)
         /\ sv[w].pc \in {"write", "rename"} => sv[w].at = "tmp"
         /\ sv[w].pc = "write" => tmp = Empty
         /\ sv[w].pc = "rename" => tmp = sv[w].snap

LEMMA UpToOrder ==
  ASSUME NEW a \in Snapshot, NEW b \in Snapshot, NEW c \in Snapshot
  PROVE  /\ UpTo(a, a)
         /\ UpTo(a, b) /\ UpTo(b, c) => UpTo(a, c)
         /\ a.date < b.date => UpTo(a, b)
<1>1. /\ a.date \in Nat /\ a.auto \in Nat /\ a.manual \in Nat
      /\ b.date \in Nat /\ b.auto \in Nat /\ b.manual \in Nat
      /\ c.date \in Nat /\ c.auto \in Nat /\ c.manual \in Nat
  BY DateFacts DEF Snapshot
<1> QED  BY <1>1 DEF UpTo

\* The counters only go up while the clock does.
LEMMA RollUpTo ==
  ASSUME NEW c \in Snapshot, NEW d \in Dates, c.date <= d
  PROVE  UpTo(c, Roll(c, d))
<1>1. c.date \in Nat /\ d \in Nat
  BY DateFacts DEF Snapshot
<1> QED  BY <1>1, UpToOrder, RollType DEF Roll, Fresh, UpTo

LEMMA GInit == Init => GrowInv
  BY NoSnapshot DEF Init, GrowInv, IdleSaver, Fresh, Unset

\* Counters that only go up keep the invariant while the rest stays.
LEMMA GrowCounters ==
  ASSUME TypeOK, GrowInv, NEW n \in Snapshot, s' = n, UpTo(s, n), n.date <= day,
         UNCHANGED <<proc, sv, file, tmp, day, clock, excused>>
  PROVE  GrowInv'
<1> SUFFICES ASSUME Undisturbed PROVE GrowInv'
  BY DEF GrowInv, Undisturbed
<1>1. s \in Snapshot /\ \A w \in Savers : sv[w].snap \in Snapshot
  BY DEF TypeOK
<1>2. \A a \in Snapshot : UpTo(a, s) => UpTo(a, s')
  BY <1>1, UpToOrder
<1> QED  BY <1>1, <1>2 DEF GrowInv, Undisturbed

LEMMA GNext == TypeOK /\ TypeOK' /\ GrowInv /\ [Next]_vars => GrowInv'
<1> SUFFICES ASSUME TypeOK, TypeOK', GrowInv, [Next]_vars, Undisturbed'
             PROVE  GrowInv'
  BY DEF GrowInv
<1>0. /\ s \in Snapshot /\ clock \in Dates /\ day \in Dates /\ day \in Nat
      /\ sv \in [Savers -> Saver]
      /\ s.date \in Nat /\ s.auto \in Nat /\ s.manual \in Nat
      /\ \A w \in Savers : sv[w].snap \in Snapshot
      /\ Undisturbed
  <2>1. Undisturbed
    BY DEF Undisturbed, Next, Count, Today, SaveStep, SaveNothing, SaveBegin, SaveOpen,
           SaveWrite, SaveRename, Renamed, SaveFail, Start, Signal, Exit, Crash,
           Down, Boot, Ntp, Midnight, vars, TypeOK
  <2> QED  BY <2>1, DateFacts DEF TypeOK, Saver, Snapshot
<1>1. ASSUME NEW kind \in Kinds, Count(kind) PROVE GrowInv'
  <2> DEFINE n == [Roll(s, clock) EXCEPT ![kind] = @ + 1]
  <2>1. Roll(s, clock) \in Snapshot /\ Roll(s, clock).date = clock
    BY <1>0, RollType
  <2>2. n \in Snapshot /\ n.date = clock /\ UpTo(Roll(s, clock), n)
    BY <2>1 DEF Kinds, Snapshot, UpTo
  <2>3. UpTo(s, n)
    BY <1>0, <2>1, <2>2, RollUpTo, UpToOrder DEF GrowInv
  <2>4. n.date <= day
    BY <1>0, <2>2 DEF GrowInv
  <2> QED  BY <1>1, <2>2, <2>3, <2>4, GrowCounters DEF Count
<1>2. ASSUME Today PROVE GrowInv'
  <2>1. Roll(s, clock) \in Snapshot /\ Roll(s, clock).date = clock
    BY <1>0, RollType
  <2>2. UpTo(s, Roll(s, clock)) /\ Roll(s, clock).date <= day
    BY <1>0, <2>1, RollUpTo DEF GrowInv
  <2> QED  BY <1>2, <2>1, <2>2, GrowCounters DEF Today
<1>3. ASSUME NEW w \in Savers, SaveBegin(w) PROVE GrowInv'
  <2>1. \A v \in Savers : sv[v].pc = "idle"
    BY <1>3, <1>0 DEF SaveBegin, Undisturbed, Busy, TypeOK
  <2>2. UpTo(s, s)
    BY <1>0, UpToOrder
  <2>3. sv' = [sv EXCEPT ![w] = [pc |-> "open", snap |-> s, at |-> "gone"]]
    BY <1>3 DEF SaveBegin
  <2>4. /\ sv'[w].pc = "open" /\ sv'[w].snap = s
        /\ \A v \in Savers \ {w} : sv'[v].pc = "idle"
    BY <1>0, <2>1, <2>3
  <2>5. proc # "down" /\ UNCHANGED <<proc, s, file, tmp, day, clock>>
    BY <1>3 DEF SaveBegin, MaySave
  <2> QED  BY <1>0, <2>1, <2>2, <2>4, <2>5 DEF GrowInv
<1>4. ASSUME NEW w \in Savers, SaveOpen(w) PROVE GrowInv'
  <2>1. /\ sv'[w].pc = "write" /\ sv'[w].at = "tmp" /\ sv'[w].snap = sv[w].snap
        /\ \A v \in Savers \ {w} : sv'[v] = sv[v]
    BY <1>4, <1>0 DEF SaveOpen, Saver
  <2>2. sv[w].pc = "open" /\ tmp' = Empty
    BY <1>4 DEF SaveOpen
  <2> QED  BY <1>4, <1>0, <2>1, <2>2 DEF SaveOpen, GrowInv
<1>5. ASSUME NEW w \in Savers, SaveWrite(w) PROVE GrowInv'
  <2>1. /\ sv'[w].pc = "rename" /\ sv'[w].at = sv[w].at
        /\ sv'[w].snap = sv[w].snap
        /\ \A v \in Savers \ {w} : sv'[v] = sv[v]
    BY <1>5, <1>0 DEF SaveWrite, Saver
  <2>2. sv[w].pc = "write" /\ sv[w].at = "tmp" /\ tmp = Empty
    BY <1>5, <1>0 DEF SaveWrite, GrowInv
  <2>3. tmp' = sv[w].snap /\ UNCHANGED file
    BY <1>5, <2>2 DEF SaveWrite, Over
  <2> QED  BY <1>5, <1>0, <2>1, <2>2, <2>3 DEF SaveWrite, GrowInv
<1>6. ASSUME NEW w \in Savers, SaveRename(w) PROVE GrowInv'
  <2>1. /\ sv[w].pc = "rename" /\ tmp = sv[w].snap /\ tmp # Absent
        /\ \A v \in Savers \ {w} : sv[v].pc = "idle"
        /\ UpTo(sv[w].snap, s) /\ proc # "down"
    BY <1>6, <1>0, NoSnapshot DEF SaveRename, Renamed, GrowInv
  <2>2. file' = sv[w].snap
    BY <1>6, <2>1 DEF SaveRename, Renamed
  <2>3. \A v \in Savers : sv'[v].pc = "idle"
    BY <1>6, <1>0, <2>1 DEF SaveRename, Renamed, IdleSaver, Saver
  <2>4. sv[w].snap.date <= day
    <3>1. s.date <= day /\ sv[w].snap.date \in Nat
      BY <1>0, DateFacts DEF GrowInv, Snapshot
    <3> QED  BY <1>0, <2>1, <3>1 DEF UpTo
  <2> QED  BY <1>6, <1>0, <2>1, <2>2, <2>3, <2>4 DEF SaveRename, Renamed, GrowInv
<1>7. ASSUME NEW w \in Savers, SaveFail(w) PROVE GrowInv'
  <2>1. /\ sv'[w].pc = "idle"
        /\ \A v \in Savers \ {w} : sv'[v] = sv[v]
    BY <1>7, <1>0 DEF SaveFail, IdleSaver
  <2> QED  BY <1>7, <1>0, <2>1 DEF SaveFail, GrowInv
<1>8. ASSUME Start PROVE GrowInv'
  <2>1. Load \in Snapshot /\ Load.date = clock
    BY LoadType
  <2>2. file \in Snapshot => UpTo(file, Load)
    BY <1>0, RollUpTo DEF Load, GrowInv
  <2>3. \A w \in Savers : sv[w].pc = "idle"
    BY <1>8, <1>0 DEF Start, GrowInv
  <2> QED  BY <1>8, <1>0, <2>1, <2>2, <2>3 DEF Start, GrowInv
<1>9. ASSUME Exit \/ Crash PROVE GrowInv'
  <2>1. \A w \in Savers : sv'[w].pc = "idle"
    BY <1>9 DEF Exit, Crash, Down, IdleSaver
  <2> QED  BY <1>9, <1>0, <2>1 DEF Exit, Crash, Down, GrowInv
<1>10. ASSUME Signal PROVE GrowInv'
  BY <1>10, <1>0 DEF Signal, GrowInv
<1>11. ASSUME Boot \/ Ntp PROVE GrowInv'
  BY <1>11, <1>0 DEF Boot, Ntp, GrowInv, Undisturbed, TypeOK
<1>12. ASSUME Midnight PROVE GrowInv'
  <2>1. \A d \in Dates : d <= day => d <= day'
    BY <1>12, <1>0, DateFacts DEF Midnight
  <2>2. s.date \in Dates /\ (file \in Snapshot => file.date \in Dates)
    BY <1>0 DEF Snapshot
  <2> QED  BY <1>12, <1>0, <2>1, <2>2 DEF Midnight, GrowInv
<1>13. ASSUME (\E w \in Savers : SaveNothing(w)) \/ UNCHANGED vars PROVE GrowInv'
  BY <1>13, <1>0 DEF SaveNothing, vars, GrowInv
<1> QED
  BY <1>1, <1>2, <1>3, <1>4, <1>5, <1>6, <1>7, <1>8, <1>9, <1>10, <1>11, <1>12,
     <1>13 DEF Next, SaveStep

\* Only a rename, or a saver that writes into a file another one has renamed,
\* changes the file; the first puts the newer copy there.
LEMMA GrowStep ==
  ASSUME TypeOK, GrowInv, [Next]_vars,
         file \in Snapshot, file' \in Snapshot, file'.date = file.date,
         ~excused'.overlap, ~excused'.noClock
  PROVE  file'.auto >= file.auto /\ file'.manual >= file.manual
<1>0. /\ file.auto \in Nat /\ file.manual \in Nat /\ file.date \in Nat
      /\ \A w \in Savers : sv[w].snap \in Snapshot
      /\ Undisturbed
  <2>1. Undisturbed
    BY DEF Undisturbed, Next, Count, Today, SaveStep, SaveNothing, SaveBegin, SaveOpen,
           SaveWrite, SaveRename, Renamed, SaveFail, Start, Signal, Exit, Crash,
           Down, Boot, Ntp, Midnight, vars, TypeOK
  <2> QED  BY <2>1, DateFacts DEF TypeOK, Snapshot
<1>1. CASE UNCHANGED file
  BY <1>0, <1>1
<1>2. ASSUME NEW w \in Savers, SaveWrite(w) PROVE UNCHANGED file
  BY <1>0, <1>2 DEF SaveWrite, GrowInv
<1>3. ASSUME NEW w \in Savers, SaveRename(w), file' # file
      PROVE  UpTo(file, file')
  BY <1>0, <1>3 DEF SaveRename, Renamed, GrowInv
<1>4. \/ UNCHANGED file
      \/ \E w \in Savers : SaveWrite(w) \/ SaveRename(w)
  BY DEF Next, Count, Today, SaveStep, SaveNothing, SaveBegin, SaveOpen, SaveFail, Start,
         Signal, Exit, Crash, Down, Boot, Ntp, Midnight, vars
<1>5. UNCHANGED file \/ UpTo(file, file')
  BY <1>2, <1>3, <1>4
<1> QED  BY <1>0, <1>1, <1>5 DEF UpTo, Snapshot

\* Within one day writes.json never goes back to fewer writes, restarts and
\* failed calls included, unless two saves overlapped or the Pi booted without
\* the date (Load, Save, Counter.Run and main's deferred Save).
THEOREM FileOnlyGrowsCorrect == Spec => FileOnlyGrows
<1>1. TypeOK /\ GrowInv /\ [Next]_vars
        => [(/\ file \in Snapshot /\ file' \in Snapshot /\ file'.date = file.date
             /\ ~excused'.overlap /\ ~excused'.noClock)
             => file'.auto >= file.auto /\ file'.manual >= file.manual]_vars
  BY GrowStep
<1> QED  BY <1>1, TInit, TNext, GInit, GNext, PTL DEF Spec, FileOnlyGrows

-----------------------------------------------------------------------------
(* CleanIsSaved                                                              *)

Quiet == ~excused.overlap /\ ~excused.failed

\* While no save has overlapped or failed, a save under way has the only copy,
\* that copy is the counters unless they are marked again, and it is what gets
\* into the temporary file; with none under way, clean counters are the file.
SavedInv ==
  Quiet =>
    /\ proc # "down" /\ ~dirty /\ Busy = {} => file = s
    /\ \A w \in Savers : sv[w].pc # "idle" =>
         /\ proc # "down"
         /\ Busy = {w}
         /\ ~dirty => sv[w].snap = s
         /\ sv[w].pc \in {"write", "rename"} => sv[w].at = "tmp"
         /\ sv[w].pc = "write" => tmp = Empty
         /\ sv[w].pc = "rename" => tmp = sv[w].snap

LEMMA SInit == Init => SavedInv
  BY DEF Init, SavedInv, IdleSaver

\* What the counters become is marked, unless it is what they were.
LEMMA SavedCounters ==
  ASSUME SavedInv, dirty' \/ (~dirty /\ s' = s),
         UNCHANGED <<proc, sv, file, tmp, excused>>
  PROVE  SavedInv'
  BY DEF SavedInv, Quiet, Busy

\* A step of the one saver under way.
LEMMA SavedSave ==
  ASSUME TypeOK, SavedInv, Quiet, NEW w \in Savers, SaveStep(w), Quiet'
  PROVE  SavedInv'
<1>0. /\ sv \in [Savers -> Saver] /\ s \in Snapshot
      /\ \A v \in Savers : sv[v].snap \in Snapshot
  BY DEF TypeOK, Saver
<1>1. CASE SaveBegin(w)
  <2>1. Busy = {}
    BY <1>1 DEF SaveBegin, Quiet, TypeOK
  <2>2. /\ sv' = [sv EXCEPT ![w] = [pc |-> "open", snap |-> s, at |-> "gone"]]
        /\ UNCHANGED <<proc, s, file, tmp>> /\ proc # "down"
    BY <1>1 DEF SaveBegin, MaySave
  <2>3. /\ sv'[w].pc = "open" /\ sv'[w].snap = s
        /\ \A v \in Savers \ {w} : sv'[v].pc = "idle"
    BY <1>0, <2>1, <2>2 DEF Busy
  <2>4. Busy' = {w}
    BY <2>3 DEF Busy
  <2> QED  BY <2>2, <2>3, <2>4 DEF SavedInv
<1>2. ASSUME sv[w].pc # "idle", ~SaveRename(w) PROVE SavedInv'
  <2>0. SaveOpen(w) \/ SaveWrite(w)
    BY <1>2 DEF SaveStep, SaveNothing, SaveBegin, MaySave
  <2>1. /\ Busy = {w} /\ proc # "down" /\ (~dirty => sv[w].snap = s)
        /\ sv[w].pc \in {"write", "rename"} => sv[w].at = "tmp"
        /\ sv[w].pc = "write" => tmp = Empty
    BY <1>2 DEF SavedInv
  <2>2. UNCHANGED <<proc, s, dirty>> /\ sv[w].pc \in {"open", "write"}
    BY <2>0 DEF SaveOpen, SaveWrite
  <2>3. /\ sv'[w].snap = sv[w].snap /\ sv'[w].at = "tmp"
        /\ sv'[w].pc \in {"write", "rename"}
        /\ \A v \in Savers \ {w} : sv'[v] = sv[v]
    BY <1>0, <2>0, <2>1 DEF SaveOpen, SaveWrite, Saver
  <2>4. Busy' = {w}
    BY <2>1, <2>3 DEF Busy
  <2>5. /\ sv'[w].pc = "write" => tmp' = Empty
        /\ sv'[w].pc = "rename" => tmp' = sv[w].snap
    BY <1>0, <2>0, <2>1, <2>3 DEF SaveOpen, SaveWrite, Over, Saver
  <2> QED  BY <2>1, <2>2, <2>3, <2>4, <2>5 DEF SavedInv, Busy
<1>3. CASE SaveRename(w)
  <2>1. /\ Busy = {w} /\ tmp = sv[w].snap /\ tmp # Absent
        /\ ~dirty => sv[w].snap = s
    BY <1>0, <1>3, NoSnapshot DEF SaveRename, Renamed, SavedInv
  <2>2. file' = sv[w].snap /\ UNCHANGED <<s, dirty>>
    BY <1>3, <2>1 DEF SaveRename, Renamed
  <2>3. \A v \in Savers : sv'[v].pc = "idle"
    BY <1>0, <1>3, <2>1 DEF SaveRename, Renamed, IdleSaver, Saver, Busy
  <2> QED  BY <2>1, <2>2, <2>3 DEF SavedInv, Busy
<1>4. CASE SaveNothing(w)
  BY <1>4 DEF SaveNothing, MaySave, SavedInv, Quiet, Busy
<1> QED  BY <1>1, <1>2, <1>3, <1>4 DEF SaveStep, SaveOpen, SaveWrite, SaveRename, Renamed

LEMMA SNext == TypeOK /\ SavedInv /\ [Next]_vars => SavedInv'
<1> SUFFICES ASSUME TypeOK, SavedInv, [Next]_vars, Quiet' PROVE SavedInv'
  BY DEF SavedInv
<1>0. Quiet /\ s \in Snapshot /\ clock \in Dates
  BY DEF Quiet, Next, Count, Today, SaveStep, SaveNothing, SaveBegin, SaveOpen,
         SaveWrite, SaveRename, Renamed, SaveFail, Start, Signal, Exit, Crash,
         Down, Boot, Ntp, Midnight, vars, TypeOK
<1>1. CASE \E kind \in Kinds : Count(kind)
  BY <1>1, SavedCounters DEF Count
<1>2. CASE Today
  BY <1>0, <1>2, SavedCounters DEF Today, Roll, RollDirties, TypeOK
<1>3. CASE \E w \in Savers : SaveStep(w)
  BY <1>0, <1>3, SavedSave
<1>4. ASSUME NEW w \in Savers, SaveFail(w) PROVE FALSE
  BY <1>4 DEF SaveFail, Quiet, TypeOK
<1>5. CASE Start
  <2>1. ~dirty' => file = Load
    BY <1>5 DEF Start, Load, Roll
  <2>2. \A w \in Savers : sv[w].pc = "idle"
    BY <1>0, <1>5 DEF Start, SavedInv
  <2> QED  BY <1>5, <2>1, <2>2 DEF Start, SavedInv, Busy
<1>6. CASE Exit \/ Crash
  BY <1>6 DEF Exit, Crash, Down, IdleSaver, SavedInv
<1>7. CASE Signal
  BY <1>0, <1>7 DEF Signal, SavedInv, Busy
<1>8. CASE Boot \/ Ntp \/ Midnight \/ UNCHANGED vars
  BY <1>0, <1>8 DEF Boot, Ntp, Midnight, vars, SavedInv, Busy
<1> QED  BY <1>1, <1>2, <1>3, <1>4, <1>5, <1>6, <1>7, <1>8 DEF Next

-----------------------------------------------------------------------------
(* What was counted is in the counters, or in the file while the process is  *)
(* down.                                                                     *)

\* Where today's writes are kept.
Kept == IF proc = "down" THEN file ELSE s

MadeInv ==
  Quiet /\ Undisturbed =>
    /\ file \in Snapshot => file.date <= s.date
    /\ s.date <= clock
    /\ \A date \in Dates \ lost : date >= s.date => made[date] = Under(Kept, date)

LEMMA MInit == Init => MadeInv
  BY NoSnapshot, DateFacts DEF Init, MadeInv, Kept, Under, NoCounts, Fresh, Unset

\* A counted write is counted under its date, and there is nothing under later ones.
LEMMA MadeCount ==
  ASSUME TypeOK, MadeInv, Quiet, Undisturbed, clock = day, NEW kind \in Kinds, Count(kind)
  PROVE  MadeInv'
<1>0. /\ s \in Snapshot /\ clock \in Dates /\ s.date \in Dates /\ (\A d \in Dates : d \in Nat)
      /\ s.date <= clock /\ proc # "down" /\ proc' # "down"
      /\ made \in [Dates -> [auto : Nat, manual : Nat]]
      /\ (file \in Snapshot => file.date \in Dates)
  BY DateFacts DEF TypeOK, Snapshot, MadeInv, Count
<1>1. Roll(s, clock) \in Snapshot /\ Roll(s, clock).date = clock
  BY <1>0, RollType
<1>2. s' \in Snapshot /\ s'.date = clock
  BY <1>1 DEF Count, Kinds, Snapshot
<1>3. \A date \in Dates \ lost : date >= clock => made[date] = Under(Roll(s, clock), date)
  <2> SUFFICES ASSUME NEW date \in Dates \ lost, date >= clock
               PROVE  made[date] = Under(Roll(s, clock), date)
    OBVIOUS
  <2>1. made[date] = Under(s, date)
    BY <1>0 DEF MadeInv, Kept
  <2> QED  BY <1>0, <2>1 DEF Under, Roll, Fresh
<1>4. \A date \in Dates \ lost : date >= clock => made'[date] = Under(s', date)
  <2> SUFFICES ASSUME NEW date \in Dates \ lost, date >= clock
               PROVE  made'[date] = Under(s', date)
    OBVIOUS
  <2>1. made[date] = Under(Roll(s, clock), date)
    BY <1>3
  <2>2. CASE date # clock
    BY <1>0, <1>1, <1>2, <2>1, <2>2 DEF Count, Under
  <2>3. CASE date = clock
    <3>1. made[clock] = [auto |-> Roll(s, clock).auto, manual |-> Roll(s, clock).manual]
      BY <1>1, <2>1, <2>3 DEF Under
    <3>2. made'[clock] = [auto |-> s'.auto, manual |-> s'.manual]
      <4>1. /\ s'[kind] = Roll(s, clock)[kind] + 1
            /\ \A k \in Kinds \ {kind} : s'[k] = Roll(s, clock)[k]
        BY <1>1 DEF Count, Kinds, Snapshot
      <4>2. /\ made'[clock] \in [auto : Nat, manual : Nat]
            /\ made'[clock][kind] = made[clock][kind] + 1
            /\ \A k \in Kinds \ {kind} : made'[clock][k] = made[clock][k]
        BY <1>0 DEF Count, Kinds
      <4>3. made'[clock].auto = s'.auto /\ made'[clock].manual = s'.manual
        BY <3>1, <4>1, <4>2 DEF Kinds
      <4> QED  BY <4>2, <4>3
    <3> QED  BY <1>2, <2>3, <3>2 DEF Under
  <2> QED  BY <2>2, <2>3
<1>5. UNCHANGED <<file, clock, lost>>
  BY DEF Count
<1>6. file' \in Snapshot => file'.date <= s'.date
  BY <1>0, <1>2, <1>5 DEF MadeInv
<1>7. Kept' = s'
  BY <1>0 DEF Kept
<1> QED  BY <1>0, <1>2, <1>4, <1>5, <1>6, <1>7 DEF MadeInv

\* A stop keeps what is in the file, and forgets the date of what is not.
LEMMA MadeDown ==
  ASSUME TypeOK, SavedInv, MadeInv, Quiet, Undisturbed, proc # "down", Down
  PROVE  MadeInv'
<1>0. /\ s \in Snapshot /\ s.date \in Dates /\ (\A d \in Dates : d \in Nat)
      /\ (file \in Snapshot => file.date \in Dates)
  BY DateFacts DEF TypeOK, Snapshot
<1>1. UNCHANGED <<s, file, clock, made>> /\ Kept' = file
  BY DEF Down, Kept
<1>2. CASE ~dirty /\ Busy = {}
  <2>1. file = s /\ lost' = lost /\ Kept = s
    BY <1>2 DEF SavedInv, Down, Kept
  <2> QED  BY <1>1, <2>1 DEF MadeInv, Under
<1>3. CASE dirty \/ Busy # {}
  <2>1. lost' = lost \cup {s.date} /\ Kept = s
    BY <1>3 DEF Down, Kept
  <2>2. ASSUME NEW date \in Dates \ lost', date >= s.date
        PROVE  made[date] = Under(file, date)
    <3>1. date \notin lost /\ date # s.date /\ date > s.date
      BY <1>0, <2>1, <2>2
    <3>2. made[date] = Under(s, date)
      BY <2>1, <2>2, <3>1 DEF MadeInv
    <3>3. file \in Snapshot => file.date <= s.date
      BY DEF MadeInv
    <3> QED  BY <1>0, <3>1, <3>2, <3>3 DEF Under
  <2> QED  BY <1>1, <2>2 DEF MadeInv
<1> QED  BY <1>2, <1>3

\* Load takes what the file has under today's date.
LEMMA MadeStart ==
  ASSUME TypeOK, MadeInv, Quiet, Undisturbed, Start
  PROVE  MadeInv'
<1>0. /\ s \in Snapshot /\ s.date \in Dates /\ (\A d \in Dates : d \in Nat) /\ clock \in Dates
      /\ (file \in Snapshot => file.date \in Dates)
      /\ s.date <= clock
      /\ file \in Snapshot => file.date <= s.date
  BY DateFacts DEF TypeOK, Snapshot, MadeInv
<1>1. /\ s' = Load /\ UNCHANGED <<file, clock, lost, made>> /\ proc = "down"
      /\ proc' # "down"
  BY DEF Start
<1>2. Load \in Snapshot /\ Load.date = clock
  BY LoadType
<1>3. \A date \in Dates : date >= clock => Under(Load, date) = Under(file, date)
  BY <1>0, <1>2 DEF Under, Load, Roll, Fresh
<1>4. Kept = file /\ Kept' = s'
  BY <1>1 DEF Kept
<1>5. \A date \in Dates \ lost : date >= clock => made[date] = Under(Load, date)
  BY <1>0, <1>3, <1>4 DEF MadeInv
<1> QED  BY <1>0, <1>1, <1>2, <1>4, <1>5 DEF MadeInv

LEMMA MNext ==
  TypeOK /\ TypeOK' /\ GrowInv /\ SavedInv /\ MadeInv /\ [Next]_vars => MadeInv'
<1> SUFFICES ASSUME TypeOK, TypeOK', GrowInv, SavedInv, MadeInv, [Next]_vars,
                    Quiet', Undisturbed'
             PROVE  MadeInv'
  BY DEF MadeInv
<1>0. Quiet /\ Undisturbed
  BY DEF Quiet, Undisturbed, Next, Count, Today, SaveStep, SaveNothing, SaveBegin, SaveOpen,
         SaveWrite, SaveRename, Renamed, SaveFail, Start, Signal, Exit, Crash,
         Down, Boot, Ntp, Midnight, vars, TypeOK
<1>1. /\ clock = day /\ s.date <= day /\ s \in Snapshot /\ clock \in Dates
      /\ s.date \in Dates /\ (\A d \in Dates : d \in Nat)
      /\ (file \in Snapshot => file.date \in Dates)
  BY <1>0, DateFacts DEF GrowInv, TypeOK, Snapshot
<1>2. CASE \E kind \in Kinds : Count(kind)
  BY <1>0, <1>1, <1>2, MadeCount
<1>3. CASE Today
  <2>1. Roll(s, clock) \in Snapshot /\ Roll(s, clock).date = clock
    BY <1>1, RollType
  <2>2. /\ s' = Roll(s, clock) /\ UNCHANGED <<proc, file, clock, made, lost>>
        /\ proc # "down" /\ Kept = s /\ Kept' = s'
    BY <1>3 DEF Today, Kept
  <2>3. \A date \in Dates : date >= clock => Under(s', date) = Under(s, date)
    BY <1>1, <2>1, <2>2 DEF Under, Roll, Fresh
  <2> QED  BY <1>0, <1>1, <2>1, <2>2, <2>3 DEF MadeInv
<1>4. ASSUME NEW w \in Savers, SaveRename(w) PROVE MadeInv'
  <2>1. /\ UNCHANGED <<proc, s, clock, made, lost>>
        /\ proc # "down" /\ sv[w].snap \in Snapshot /\ sv[w].snap.date \in Dates
        /\ file' = file \/ file' = sv[w].snap
        /\ UpTo(sv[w].snap, s)
    BY <1>0, <1>4 DEF SaveRename, Renamed, GrowInv, TypeOK, Saver, Snapshot
  <2>2. file' \in Snapshot => file'.date <= s.date
    BY <1>0, <1>1, <2>1 DEF UpTo, MadeInv
  <2> QED  BY <1>0, <2>1, <2>2 DEF MadeInv, Kept
<1>5. ASSUME NEW w \in Savers, SaveStep(w), ~SaveRename(w) PROVE MadeInv'
  <2>1. UNCHANGED <<proc, s, file, clock, made, lost>>
    BY <1>0, <1>5 DEF SaveStep, SaveNothing, SaveBegin, SaveOpen, SaveWrite, GrowInv
  <2> QED  BY <1>0, <2>1 DEF MadeInv, Kept
<1>6. ASSUME NEW w \in Savers, SaveFail(w) PROVE FALSE
  BY <1>6 DEF SaveFail, Quiet, TypeOK
<1>7. CASE Start
  BY <1>0, <1>7, MadeStart
<1>8. CASE Exit \/ Crash
  BY <1>0, <1>8, MadeDown DEF Exit, Crash
<1>9. CASE Signal \/ UNCHANGED vars
  BY <1>0, <1>9 DEF Signal, vars, MadeInv, Kept
<1>10. CASE Boot \/ Ntp
  BY <1>1, <1>10 DEF Boot, Ntp, Undisturbed, TypeOK
<1>11. CASE Midnight
  <2>1. /\ clock' = clock + 1 /\ UNCHANGED <<proc, s, file, made, lost>>
    BY <1>1, <1>11 DEF Midnight
  <2> QED  BY <1>0, <1>1, <2>1 DEF MadeInv, Kept
<1> QED
  BY <1>2, <1>3, <1>4, <1>5, <1>6, <1>7, <1>8, <1>9, <1>10, <1>11 DEF Next

\* The mark of a change is taken away before the file is written, and yet no
\* change slips through: with no save under way, none failed and no two
\* overlapped, clean counters are on disk; and the file has every write that was
\* counted, unless the date was unknown or a stop caught unsaved counters (Save,
\* roll, Load, main's deferred Save).
THEOREM CleanIsSavedCorrect == Spec => []CleanIsSaved
<1>1. ASSUME TypeOK, SavedInv, MadeInv PROVE CleanIsSaved
  <2> SUFFICES ASSUME proc # "down", ~dirty, Busy = {}, ~excused.overlap, ~excused.failed
               PROVE  /\ file = s
                      /\ ~excused.noClock =>
                           \A date \in (s.date .. MaxDay) \ lost :
                              Under(file, date) = made[date]
    BY DEF CleanIsSaved
  <2>1. file = s
    BY <1>1 DEF SavedInv, Quiet
  <2>2. s.date .. MaxDay \subseteq Dates /\ \A date \in s.date .. MaxDay : date >= s.date
    BY <1>1, TallyAssumption DEF TypeOK, Snapshot, Dates
  <2>3. ASSUME ~excused.noClock, NEW date \in (s.date .. MaxDay) \ lost
        PROVE  Under(file, date) = made[date]
    BY <1>1, <2>1, <2>2, <2>3 DEF MadeInv, Quiet, Undisturbed, Kept
  <2> QED  BY <2>1, <2>3
<1> QED
  BY <1>1, TInit, TNext, GInit, GNext, SInit, SNext, MInit, MNext, PTL DEF Spec
=============================================================================
