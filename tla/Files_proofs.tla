---------------------------- MODULE Files_proofs ----------------------------
(***************************************************************************)
(* Proofs about Files, for any requests, values and sizes of files:        *)
(*   TypeCorrect             the type invariant: no file is written with   *)
(*                           what belongs in another                       *)
(*   StartsAgainCorrect      the daemon starts unless the last save of a   *)
(*                           file it needs was harmed                      *)
(*   ProfileIsWholeCorrect   a save that is alone never leaves a torn      *)
(*                           profile, wherever it fails or is cut off      *)
(*   StoreIsSavedCorrect     the file of the store is the memory, when its *)
(*                           last save was alone                           *)
(*   EffectsAreSavedCorrect  the file of the effects is the memory         *)
(*   SwitchSurvivesCorrect   the file has the switch's last position       *)
(***************************************************************************)
EXTENDS Files, TLAPS

Locals == [pc : Points, op : Ops, val : Values \cup Settings \cup {None},
           fd : Names \cup {"none"}]

\* The files the operations open.
LEMMA FileTable ==
  /\ FileOf("store") = "store" /\ FileOf("effects") = "effects"
  /\ FileOf("toggle") = "config" /\ FileOf("page") = "config"
  /\ FileOf("profile") = "tmp" /\ FileOf("reset") = "reset"
  BY DEF FileOf

Files == {"store", "effects", "config", "tmp"}

\* An operation that saves opens a file of its kind of values.
LEMMA FileOfSave == \A op \in Ops \ {"reset"} : FileOf(op) \in Files
  BY FileTable DEF Ops, Files

\* Writing over a file leaves a file of the same kind.
LEMMA WrittenType ==
  ASSUME NEW K \in SUBSET (Values \cup Settings), NEW v \in K,
         NEW file \in Contents(Values \cup Settings),
         file.size \in Nat, file.val \in K \cup {None}
  PROVE  /\ WrittenOver(file, v) \in Contents(Values \cup Settings)
         /\ WrittenOver(file, v).val \in K \cup {None}
         /\ WrittenOver(file, v).size \in Nat
<1>1. Size[v] \in Nat
  BY FilesAssumption
<1> QED  BY <1>1 DEF WrittenOver, Whole, Contents

-----------------------------------------------------------------------------
(* Types                                                                     *)

\* What a request holds at each of its points: a value for the file of its
\* operation, and a file that is there, its own or the one it was renamed to.
Shape(r) ==
  /\ req[r].pc \in {"open", "write", "assign", "rename"}
       => req[r].op # "reset" /\ req[r].val \in Kind(FileOf(req[r].op))
  /\ req[r].pc = "snapshot" => req[r].op = "store"
  /\ req[r].pc = "assign" => req[r].op = "page"
  /\ req[r].pc = "rename" => req[r].op = "profile"
  /\ req[r].pc \in {"wipeEffects", "wipeProfiles"} => req[r].op = "reset"
  /\ req[r].fd # "none"
       => /\ req[r].pc \in {"write", "assign", "rename"}
          /\ disk[req[r].fd].size \in Nat
          /\ \/ req[r].fd = FileOf(req[r].op)
             \/ FileOf(req[r].op) = "tmp" /\ req[r].fd = "profile"

\* The configuration is never removed, a daemon that is not up serves nothing,
\* and one that migrates has an old profile in its store.
TypeInv ==
  /\ TypeOK
  /\ \A r \in Requests : Shape(r)
  /\ disk["config"].size \in Nat
  /\ daemon # "up" => \A r \in Requests : req[r] = Idle
  /\ daemon \in {"starting", "migrating"} => Legacy[mem.store] # None

\* The types hold at the start.
LEMMA TInit == Init => TypeInv
<1> SUFFICES ASSUME Init PROVE TypeInv
  OBVIOUS
<1>1. PICK c \in Settings :
        /\ disk = [f \in Names |-> IF f = "config" THEN Whole(c) ELSE Gone]
        /\ mem = [store |-> Default, effects |-> Default,
                  boot |-> c, page |-> c, auto |-> c.auto]
  BY DEF Init
<1>2. Size[c] \in Nat /\ Default \in Values /\ c.auto \in BOOLEAN
  BY FilesAssumption DEF Settings
<1>3. /\ disk \in [Names -> Contents(Values \cup Settings)]
      /\ \A f \in Names : disk[f].val \in Kind(f) \cup {None}
      /\ disk["config"].size \in Nat
  BY <1>1, <1>2 DEF Whole, Gone, Contents, Kind, Names, Saved
<1>4. mem \in [store : Values, effects : Values, boot : Settings, page : Settings,
               auto : BOOLEAN]
  BY <1>1, <1>2
<1>5. \A r \in Requests : req[r] = Idle
  BY DEF Init
<1>6. req \in [Requests -> Locals]
  BY <1>5 DEF Init, Idle, Locals, Points, Ops
<1>7. \A r \in Requests : Shape(r)
  BY <1>5 DEF Shape, Idle
<1> QED  BY <1>3, <1>4, <1>5, <1>6, <1>7 DEF TypeInv, TypeOK, Init, Locals

\* The parts of the types, for the steps that touch one of them.
ReqType == req \in [Requests -> Locals]
DiskType ==
  /\ disk \in [Names -> Contents(Values \cup Settings)]
  /\ \A f \in Names : disk[f].val \in Kind(f) \cup {None}
  /\ disk["config"].size \in Nat
MemType ==
  mem \in [store : Values, effects : Values, boot : Settings, page : Settings, auto : BOOLEAN]
RestType ==
  /\ daemon \in {"up", "down", "stuck", "starting", "migrating"}
  /\ raced \subseteq Names /\ failed \subseteq Names /\ harmed \subseteq Needed
  /\ origin \in {"alone", "shared", "opened", "copied"}
  /\ said \in BOOLEAN \cup {None}
  /\ requests \in Nat /\ faults \in Nat /\ stops \in Nat
Shapes ==
  /\ \A r \in Requests : Shape(r)
  /\ daemon # "up" => \A r \in Requests : req[r] = Idle
  /\ daemon \in {"starting", "migrating"} => Legacy[mem.store] # None

\* The type invariant is its parts.
LEMMA Parts == TypeInv <=> ReqType /\ DiskType /\ MemType /\ RestType /\ Shapes
  BY DEF TypeInv, TypeOK, ReqType, DiskType, MemType, RestType, Shapes, Locals

\* The start of a save, of any operation.
LEMMA TStart ==
  ASSUME TypeInv, NEW r \in Requests, NEW op \in Ops \ {"reset"}, NEW pc, NEW val,
         \/ pc = "open" /\ val \in Kind(FileOf(op))
         \/ pc = "snapshot" /\ op = "store" /\ val = None,
         Start(r, op, pc, val), MemType', said' \in BOOLEAN \cup {None}
  PROVE  TypeInv'
<1>0. ReqType /\ DiskType /\ MemType /\ RestType /\ Shapes
  BY Parts
<1> DEFINE v == [pc |-> pc, op |-> op, val |-> val, fd |-> "none"]
<1>1. req' = [req EXCEPT ![r] = v] /\ UNCHANGED <<disk, daemon>>
  BY DEF Start
<1>2. v \in Locals
  BY DEF Locals, Points, Kind
<1>3. ReqType' /\ DiskType'
  BY <1>0, <1>1, <1>2 DEF ReqType, DiskType
<1>4. FileOf(op) \in Names
  BY FileOfSave DEF Names, Saved, Files
<1>5. RestType'
  BY <1>0, <1>4 DEF Start, RestType
<1>6. Shapes'
  <2>1. \A s \in Requests : req'[s] = IF s = r THEN v ELSE req[s]
    BY <1>0, <1>1 DEF ReqType
  <2>2. Shape(r)'
    BY <2>1 DEF Shape
  <2>3. \A s \in Requests : s # r => Shape(s)'
    BY <1>0, <1>1, <2>1 DEF Shape, Shapes
  <2>4. daemon' = "up"
    BY DEF Start
  <2> QED  BY <2>2, <2>3, <2>4 DEF Shapes
<1>7. TypeInv' <=> ReqType' /\ DiskType' /\ MemType' /\ RestType' /\ Shapes'
  BY DEF TypeInv, TypeOK, ReqType, DiskType, MemType, RestType, Shapes, Locals
<1> QED  BY <1>3, <1>5, <1>6, <1>7

\* Every step keeps the types: one step per action.
LEMMA TNext == TypeInv /\ [Next]_vars => TypeInv'
<1> SUFFICES ASSUME TypeInv, [Next]_vars PROVE TypeInv'
  OBVIOUS
<1>0. ReqType /\ DiskType /\ MemType /\ RestType /\ Shapes
  BY Parts
<1>p. TypeInv' <=> ReqType' /\ DiskType' /\ MemType' /\ RestType' /\ Shapes'
  BY DEF TypeInv, TypeOK, ReqType, DiskType, MemType, RestType, Shapes, Locals
<1>1. CASE UNCHANGED vars
  <2>1. ReqType' /\ DiskType' /\ MemType' /\ RestType'
    BY <1>0, <1>1 DEF vars, ReqType, DiskType, MemType, RestType
  <2>2. Shapes'
    BY <1>0, <1>1 DEF vars, Shapes, Shape
  <2> QED  BY <1>p, <2>1, <2>2
<1>2. ASSUME NEW r \in Requests, NEW v \in Values, ChangeStore(r, v) PROVE TypeInv'
  <2>1. MemType' /\ said' \in BOOLEAN \cup {None}
    BY <1>0, <1>2 DEF ChangeStore, MemType, RestType
  <2>2. "store" \in Ops \ {"reset"}
    BY DEF Ops
  <2> QED  BY <1>2, <2>1, <2>2, TStart DEF ChangeStore
<1>3. ASSUME NEW r \in Requests, NEW v \in Values, ChangeEffects(r, v) PROVE TypeInv'
  <2>1. MemType' /\ said' \in BOOLEAN \cup {None}
    BY <1>0, <1>3 DEF ChangeEffects, MemType, RestType
  <2>2. "effects" \in Ops \ {"reset"} /\ v \in Kind(FileOf("effects"))
    BY FileTable DEF Ops, Kind
  <2> QED  BY <1>3, <2>1, <2>2, TStart DEF ChangeEffects
<1>4. ASSUME NEW r \in Requests, NEW on \in BOOLEAN, Toggle(r, on) PROVE TypeInv'
  <2>1. MemType' /\ said' \in BOOLEAN \cup {None}
    BY <1>0, <1>4 DEF Toggle, MemType
  <2>2. [mem.boot EXCEPT !.auto = on] \in Settings
    BY <1>0 DEF MemType, Settings
  <2>3. "toggle" \in Ops \ {"reset"} /\ [mem.boot EXCEPT !.auto = on] \in Kind(FileOf("toggle"))
    BY <2>2, FileTable DEF Ops, Kind
  <2> QED  BY <1>4, <2>1, <2>3, TStart DEF Toggle
<1>5. ASSUME NEW r \in Requests, NEW zone \in Zones, SavePage(r, zone) PROVE TypeInv'
  <2>1. MemType' /\ said' \in BOOLEAN \cup {None}
    BY <1>0, <1>5 DEF SavePage, MemType
  <2>2. [mem.page EXCEPT !.zone = zone] \in Settings
    BY <1>0 DEF MemType, Settings
  <2>3. "page" \in Ops \ {"reset"} /\ [mem.page EXCEPT !.zone = zone] \in Kind(FileOf("page"))
    BY <2>2, FileTable DEF Ops, Kind
  <2> QED  BY <1>5, <2>1, <2>3, TStart DEF SavePage
<1>6. ASSUME NEW r \in Requests, NEW v \in Values, SaveProfile(r, v) PROVE TypeInv'
  <2>1. MemType' /\ said' \in BOOLEAN \cup {None}
    BY <1>0, <1>6 DEF SaveProfile, MemType, RestType
  <2>2. "profile" \in Ops \ {"reset"} /\ v \in Kind(FileOf("profile"))
    BY FileTable DEF Ops, Kind
  <2> QED  BY <1>6, <2>1, <2>2, TStart DEF SaveProfile
\* The removals: who wrote to what is gone now writes to nothing.
<1>7. ASSUME NEW r \in Requests, NEW files \in SUBSET (Names \ {"config"}),
             NEW pc \in {"idle", "wipeEffects", "wipeProfiles"}, Remove(r, files, pc),
             daemon = "up", daemon' = "up", UNCHANGED mem, RestType'
      PROVE  TypeInv'
  <2> DEFINE v == [Idle EXCEPT !.pc = pc, !.op = "reset"]
  <2>1. /\ v \in Locals /\ v.fd = "none" /\ v.pc = pc /\ v.op = "reset"
    BY DEF Locals, Idle, Points, Ops
  <2>2. /\ disk' = [f \in Names |-> IF f \in files THEN Gone ELSE disk[f]]
        /\ req' = [s \in Requests |->
                     IF s = r THEN v
                     ELSE IF req[s].fd \in files THEN [req[s] EXCEPT !.fd = "none"]
                     ELSE req[s]]
    BY <1>7 DEF Remove
  <2> HIDE DEF v
  <2>3. ReqType'
    BY <1>0, <2>1, <2>2 DEF ReqType, Locals
  <2>4. DiskType'
    <3>1. Gone \in Contents(Values \cup Settings) /\ Gone.val = None
      BY DEF Gone, Contents
    <3>2. \A f \in Names : disk'[f] \in Contents(Values \cup Settings)
      BY <1>0, <2>2, <3>1 DEF DiskType
    <3>3. \A f \in Names : disk'[f].val \in Kind(f) \cup {None}
      BY <1>0, <2>2, <3>1 DEF DiskType
    <3>4. disk'["config"] = disk["config"]
      BY <1>7, <2>2 DEF Names, Saved
    <3>5. disk' \in [Names -> Contents(Values \cup Settings)]
      BY <2>2, <3>2
    <3> QED  BY <1>0, <3>3, <3>4, <3>5 DEF DiskType
  <2>5. Shape(r)'
    BY <2>1, <2>2 DEF Shape
  <2>6. ASSUME NEW s \in Requests, s # r PROVE Shape(s)'
    <3>0. Shape(s) /\ req[s] \in Locals
      BY <1>0 DEF Shapes, ReqType
    <3>1. CASE req[s].fd \in files
      <4>1. /\ req'[s].pc = req[s].pc /\ req'[s].op = req[s].op
            /\ req'[s].val = req[s].val /\ req'[s].fd = "none"
        BY <2>2, <2>6, <3>0, <3>1 DEF Locals
      <4> QED  BY <3>0, <4>1 DEF Shape
    <3>2. CASE req[s].fd \notin files
      <4>1. req'[s] = req[s]
        BY <2>2, <2>6, <3>2
      <4>2. req[s].fd # "none" => disk'[req[s].fd] = disk[req[s].fd]
        BY <2>2, <3>0, <3>2 DEF Locals
      <4> QED  BY <3>0, <4>1, <4>2 DEF Shape
    <3> QED  BY <3>1, <3>2
  <2>7. MemType'
    BY <1>0, <1>7 DEF MemType
  <2> QED  BY <1>p, <1>7, <2>3, <2>4, <2>5, <2>6, <2>7 DEF Shapes
<1>8. ASSUME NEW r \in Requests,
             DeleteProfile(r) \/ Reset(r) \/ WipeEffects(r) \/ WipeProfiles(r)
      PROVE  TypeInv'
  <2>1. {"profile"} \in SUBSET (Names \ {"config"}) /\ {"store"} \in SUBSET (Names \ {"config"})
        /\ {"effects"} \in SUBSET (Names \ {"config"})
        /\ {"tmp", "profile"} \in SUBSET (Names \ {"config"})
    BY DEF Names, Saved
  <2>2. RestType' /\ UNCHANGED mem /\ daemon' = daemon
    <3>1. CASE DeleteProfile(r)
      BY <1>0, <3>1 DEF DeleteProfile, RestType
    <3>2. CASE Reset(r)
      BY <1>0, <2>1, <3>2 DEF Reset, RestType
    <3>3. CASE WipeEffects(r)
      BY <1>0, <2>1, <3>3 DEF WipeEffects, counters, RestType
    <3>4. CASE WipeProfiles(r)
      BY <1>0, <3>4 DEF WipeProfiles, counters, RestType
    <3> QED  BY <1>8, <3>1, <3>2, <3>3, <3>4
  <2>3. daemon = "up"
    BY <1>0, <1>8 DEF DeleteProfile, Reset, WipeEffects, WipeProfiles, Shapes, Idle
  <2> QED  BY <1>7, <1>8, <2>1, <2>2, <2>3 DEF DeleteProfile, Reset, WipeEffects, WipeProfiles
\* The step of one request that removes no file.
<1>9. ASSUME NEW r \in Requests, NEW v \in Locals, req' = [req EXCEPT ![r] = v],
             DiskType', MemType', RestType', daemon = "up", UNCHANGED daemon, Shape(r)',
             \A f \in Names : disk[f].size \in Nat => disk'[f].size \in Nat
      PROVE  TypeInv'
  <2>1. ReqType' /\ \A s \in Requests : req'[s] = IF s = r THEN v ELSE req[s]
    BY <1>0, <1>9 DEF ReqType
  <2>2. ASSUME NEW s \in Requests, s # r PROVE Shape(s)'
    <3>1. Shape(s) /\ req[s] \in Locals /\ req'[s] = req[s]
      BY <1>0, <2>1, <2>2 DEF Shapes, ReqType
    <3>2. req[s].fd # "none" => disk[req[s].fd].size \in Nat /\ req[s].fd \in Names
      BY <3>1 DEF Shape, Locals
    <3>3. req[s].fd # "none" => disk'[req[s].fd].size \in Nat
      BY <1>9, <3>2
    <3> QED  BY <3>1, <3>3 DEF Shape
  <2> QED  BY <1>p, <1>9, <2>1, <2>2 DEF Shapes
\* A request that is not idle: the daemon is up, and it has its shape.
<1>10. ASSUME NEW r \in Requests, req[r].pc # "idle"
       PROVE  daemon = "up" /\ Shape(r) /\ req[r] \in Locals
  BY <1>0, <1>10 DEF Shapes, Idle, ReqType
<1>11. Idle \in Locals /\ Idle.pc = "idle" /\ Idle.fd = "none"
  BY DEF Idle, Locals, Points, Ops
<1>12. ASSUME NEW r \in Requests, Snapshot(r) PROVE TypeInv'
  <2> DEFINE v == [req[r] EXCEPT !.pc = "open", !.val = mem.store]
  <2>1. req[r].pc = "snapshot" /\ req' = [req EXCEPT ![r] = v]
    BY <1>0, <1>12 DEF Snapshot, ReqType
  <2>2. daemon = "up" /\ req[r].op = "store" /\ req[r].fd = "none" /\ req[r] \in Locals
    BY <1>10, <2>1 DEF Shape
  <2>3. mem.store \in Values
    BY <1>0 DEF MemType
  <2>4. v \in Locals /\ v.pc = "open" /\ v.op = "store" /\ v.val = mem.store /\ v.fd = "none"
    BY <2>2, <2>3 DEF Locals, Points
  <2>5. UNCHANGED <<disk, mem, daemon, raced, failed, harmed, said, origin,
                    requests, faults, stops>>
    BY <1>12 DEF Snapshot, counters
  <2>6. DiskType' /\ MemType' /\ RestType'
    BY <1>0, <2>5 DEF DiskType, MemType, RestType
  <2> HIDE DEF v
  <2>7. req'[r] = v
    BY <1>0, <2>1 DEF ReqType
  <2>8. Shape(r)'
    BY <2>3, <2>4, <2>7, FileTable DEF Shape, Kind
  <2> QED  BY <1>9, <2>1, <2>2, <2>4, <2>5, <2>6, <2>8
<1>13. ASSUME NEW r \in Requests, OpenFile(r) PROVE TypeInv'
  <2> DEFINE f == FileOf(req[r].op)
             v == [req[r] EXCEPT !.pc = "write", !.fd = f]
  <2>1. /\ req[r].pc = "open" /\ req' = [req EXCEPT ![r] = v]
        /\ disk' = [disk EXCEPT ![f] = Empty]
    BY <1>0, <1>13 DEF OpenFile, ReqType
  <2>2. /\ daemon = "up" /\ req[r].op # "reset" /\ req[r].val \in Kind(f) /\ req[r] \in Locals
    BY <1>10, <2>1 DEF Shape
  <2>3. f \in Names
    BY <2>2, FileOfSave DEF Locals, Files, Names, Saved
  <2>4. v \in Locals /\ v.pc = "write" /\ v.op = req[r].op /\ v.val = req[r].val /\ v.fd = f
    BY <2>2, <2>3 DEF Locals, Points
  <2>5. UNCHANGED <<mem, daemon, raced, failed, harmed, said, origin,
                    requests, faults, stops>>
    BY <1>13 DEF OpenFile, counters
  <2> HIDE DEF v, f
  <2>6. Empty \in Contents(Values \cup Settings) /\ Empty.val = None /\ Empty.size \in Nat
    BY DEF Empty, Contents
  <2>7. /\ disk' \in [Names -> Contents(Values \cup Settings)]
        /\ \A g \in Names : disk'[g] = IF g = f THEN Empty ELSE disk[g]
    BY <1>0, <2>1, <2>6 DEF DiskType
  <2>8. \A g \in Names : disk[g].size \in Nat => disk'[g].size \in Nat
    BY <2>6, <2>7
  <2>9. DiskType'
    <3>1. "config" \in Names
      BY DEF Names, Saved
    <3>2. \A g \in Names : disk'[g].val \in Kind(g) \cup {None}
      BY <1>0, <2>6, <2>7 DEF DiskType
    <3> QED  BY <1>0, <2>7, <2>8, <3>1, <3>2 DEF DiskType
  <2>10. MemType' /\ RestType'
    BY <1>0, <2>5 DEF MemType, RestType
  <2>11. req'[r] = v
    BY <1>0, <2>1 DEF ReqType
  <2>12. disk'[f].size \in Nat
    BY <2>3, <2>6, <2>7
  <2>13. Shape(r)'
    BY <2>2, <2>4, <2>11, <2>12 DEF Shape, f
  <2> QED  BY <1>9, <2>1, <2>2, <2>4, <2>5, <2>8, <2>9, <2>10, <2>13
<1>14. ASSUME NEW r \in Requests, WriteBytes(r) PROVE TypeInv'
  <2> DEFINE f == req[r].fd
             v == IF req[r].op = "page" THEN [req[r] EXCEPT !.pc = "assign"]
                  ELSE IF req[r].op = "profile" THEN [req[r] EXCEPT !.pc = "rename"]
                  ELSE Idle
  <2>1. /\ req[r].pc = "write"
        /\ disk' = [g \in Names |-> IF g = f THEN WrittenOver(disk[g], req[r].val)
                                             ELSE disk[g]]
    BY <1>14 DEF WriteBytes
  <2>2. req' = [req EXCEPT ![r] = v]
    BY <1>0, <1>14 DEF WriteBytes, ReqType, Goto, Finish
  <2>3. /\ daemon = "up" /\ req[r].op # "reset" /\ req[r].val \in Kind(FileOf(req[r].op))
        /\ req[r] \in Locals
        /\ f # "none" => /\ disk[f].size \in Nat
                         /\ \/ f = FileOf(req[r].op)
                            \/ FileOf(req[r].op) = "tmp" /\ f = "profile"
    <3>1. daemon = "up" /\ Shape(r) /\ req[r] \in Locals
      BY <1>10, <2>1
    <3> QED  BY <2>1, <3>1 DEF Shape
  <2>4. v \in Locals /\ \/ v = Idle
                        \/ /\ v.val = req[r].val /\ v.fd = f /\ v.op = req[r].op
                           /\ \/ v.pc = "assign" /\ v.op = "page"
                              \/ v.pc = "rename" /\ v.op = "profile"
    <3>1. CASE req[r].op = "page"
      BY <2>3, <3>1 DEF Locals, Points
    <3>2. CASE req[r].op = "profile"
      BY <2>3, <3>2 DEF Locals, Points
    <3>3. CASE req[r].op \notin {"page", "profile"}
      BY <1>11, <3>3
    <3> QED  BY <3>1, <3>2, <3>3
  <2>5. /\ UNCHANGED <<mem, daemon, raced, failed, said, origin,
                       requests, faults, stops>>
        /\ harmed' \subseteq harmed
    BY <1>14 DEF WriteBytes, counters
  <2> HIDE DEF v
  <2>6. ASSUME NEW g \in Names, g = f
        PROVE  /\ disk'[g] \in Contents(Values \cup Settings)
               /\ disk'[g].val \in Kind(g) \cup {None}
               /\ disk'[g].size \in Nat
    <3>1. g # "none" /\ disk[g] \in Contents(Values \cup Settings)
          /\ disk[g].val \in Kind(g) \cup {None}
      BY <1>0 DEF DiskType, Names, Saved
    <3>2. req[r].val \in Kind(g) /\ Kind(g) \in SUBSET (Values \cup Settings)
      BY <2>3, <2>6, <3>1 DEF Kind
    <3>3. disk'[g] = WrittenOver(disk[g], req[r].val)
      BY <2>1, <2>6
    <3>4. disk[g].size \in Nat
      BY <2>3, <2>6, <3>1
    <3> HIDE DEF f
    <3>5. /\ WrittenOver(disk[g], req[r].val) \in Contents(Values \cup Settings)
          /\ WrittenOver(disk[g], req[r].val).val \in Kind(g) \cup {None}
          /\ WrittenOver(disk[g], req[r].val).size \in Nat
      BY <3>1, <3>2, <3>4, WrittenType
    <3> QED  BY <3>3, <3>5
  <2>7. \A g \in Names : g # f => disk'[g] = disk[g]
    BY <2>1
  <2>8. \A g \in Names : disk[g].size \in Nat => disk'[g].size \in Nat
    BY <2>6, <2>7
  <2>9. DiskType'
    <3>1. "config" \in Names
      BY DEF Names, Saved
    <3>2. \A g \in Names : /\ disk'[g].val \in Kind(g) \cup {None}
                           /\ disk'[g] \in Contents(Values \cup Settings)
      BY <1>0, <2>6, <2>7 DEF DiskType
    <3>3. disk' \in [Names -> Contents(Values \cup Settings)]
      BY <2>1, <3>2
    <3> QED  BY <1>0, <2>8, <3>1, <3>2, <3>3 DEF DiskType
  <2>10. MemType' /\ RestType'
    BY <1>0, <2>5 DEF MemType, RestType
  <2>11. req'[r] = v
    BY <1>0, <2>2 DEF ReqType
  <2>12. f # "none" => disk'[f].size \in Nat
    BY <2>3, <2>6 DEF Locals
  <2>13. Shape(r)'
    BY <1>11, <2>3, <2>4, <2>11, <2>12 DEF Shape
  <2> QED  BY <1>9, <2>2, <2>3, <2>4, <2>5, <2>8, <2>9, <2>10, <2>13
\* The step of a request that finishes and leaves the disk as it is.
<1>15. ASSUME NEW r \in Requests, req[r].pc # "idle", Finish(r), UNCHANGED <<disk, daemon>>,
              MemType', RestType'
       PROVE  TypeInv'
  <2>1. daemon = "up" /\ req' = [req EXCEPT ![r] = Idle]
    BY <1>10, <1>15 DEF Finish
  <2>2. req'[r] = Idle
    BY <1>0, <2>1 DEF ReqType
  <2>3. Shape(r)'
    BY <1>11, <2>2 DEF Shape
  <2>4. DiskType'
    BY <1>0, <1>15 DEF DiskType
  <2> QED  BY <1>9, <1>11, <1>15, <2>1, <2>3, <2>4
<1>16. ASSUME NEW r \in Requests, SaveFail(r) PROVE TypeInv'
  <2>1. /\ req[r].pc \in {"open", "write", "rename"}
        /\ Finish(r) /\ UNCHANGED <<disk, mem, daemon>>
    BY <1>16 DEF SaveFail
  <2>2. FileOf(req[r].op) \in Names
    <3>1. req[r].op \in Ops \ {"reset"}
      BY <1>10, <2>1 DEF Shape, Locals
    <3> QED  BY <3>1, FileOfSave DEF Files, Names, Saved
  <2>3. RestType' /\ MemType'
    BY <1>0, <1>16, <2>2 DEF SaveFail, RestType, MemType
  <2> QED  BY <1>15, <2>1, <2>3
<1>17. ASSUME NEW r \in Requests, Assign(r) PROVE TypeInv'
  <2>1. req[r].pc = "assign" /\ Finish(r) /\ UNCHANGED <<disk, daemon>>
    BY <1>17 DEF Assign
  <2>2. req[r].val \in Settings
    BY <1>10, <2>1, FileTable DEF Shape, Kind
  <2>3. RestType' /\ MemType'
    BY <1>0, <1>17, <2>2 DEF Assign, counters, RestType, MemType
  <2> QED  BY <1>15, <2>1, <2>3
<1>18. ASSUME NEW r \in Requests, Rename(r) PROVE TypeInv'
  <2>1. req[r].pc = "rename" /\ daemon = "up"
    BY <1>10, <1>18 DEF Rename
  <2>2. RestType' /\ MemType' /\ UNCHANGED daemon
    BY <1>0, <1>18 DEF Rename, counters, RestType, MemType
  <2>3. CASE disk["tmp"] = Gone
    BY <1>15, <1>18, <2>1, <2>2, <2>3 DEF Rename
  <2>4. CASE disk["tmp"] # Gone
    <3>1. /\ disk' = [disk EXCEPT !["profile"] = disk["tmp"], !["tmp"] = Gone]
          /\ req' = [s \in Requests |->
                       IF s = r THEN Idle
                       ELSE IF req[s].fd = "tmp" THEN [req[s] EXCEPT !.fd = "profile"]
                       ELSE IF req[s].fd = "profile" THEN [req[s] EXCEPT !.fd = "none"]
                       ELSE req[s]]
      BY <1>18, <2>4 DEF Rename
    <3>2. {"tmp", "profile", "config"} \subseteq Names
      BY DEF Names, Saved
    <3>3. \A f \in Names : disk'[f] = IF f = "tmp" THEN Gone
                                      ELSE IF f = "profile" THEN disk["tmp"] ELSE disk[f]
      BY <1>0, <3>1, <3>2 DEF DiskType
    <3>4. DiskType'
      <4>1. Gone \in Contents(Values \cup Settings) /\ Gone.val = None
        BY DEF Gone, Contents
      <4>2. /\ \A f \in Names : disk'[f] \in Contents(Values \cup Settings)
            /\ \A f \in Names : disk'[f].val \in Kind(f) \cup {None}
        <5>1. disk["tmp"].val \in Kind("profile") \cup {None}
          BY <1>0, <3>2 DEF DiskType, Kind
        <5> QED  BY <1>0, <3>2, <3>3, <4>1, <5>1 DEF DiskType
      <4>3. disk' \in [Names -> Contents(Values \cup Settings)]
        BY <1>0, <3>1, <3>2, <4>1 DEF DiskType
      <4> QED  BY <1>0, <3>2, <3>3, <4>2, <4>3 DEF DiskType
    <3>5. ReqType'
      BY <1>0, <1>11, <3>1, <3>2 DEF ReqType, Locals
    <3>6. Shape(r)'
      BY <1>11, <3>1 DEF Shape
    <3>7. ASSUME NEW s \in Requests, s # r PROVE Shape(s)'
      <4>0. Shape(s) /\ req[s] \in Locals
        BY <1>0 DEF Shapes, ReqType
      <4>1. CASE req[s].fd = "tmp"
        <5>1. /\ req'[s].pc = req[s].pc /\ req'[s].op = req[s].op
              /\ req'[s].val = req[s].val /\ req'[s].fd = "profile"
          BY <3>1, <3>7, <4>0, <4>1 DEF Locals
        <5>2. disk'["profile"].size \in Nat
          BY <3>2, <3>3, <4>0, <4>1 DEF Shape
        <5>3. FileOf(req[s].op) = "tmp"
          BY <4>0, <4>1 DEF Shape
        <5> QED  BY <4>0, <4>1, <5>1, <5>2, <5>3 DEF Shape
      <4>2. CASE req[s].fd = "profile"
        <5>1. /\ req'[s].pc = req[s].pc /\ req'[s].op = req[s].op
              /\ req'[s].val = req[s].val /\ req'[s].fd = "none"
          BY <3>1, <3>7, <4>0, <4>2 DEF Locals
        <5> QED  BY <4>0, <5>1 DEF Shape
      <4>3. CASE req[s].fd \notin {"tmp", "profile"}
        <5>1. req'[s] = req[s]
          BY <3>1, <3>7, <4>3
        <5>2. req[s].fd # "none" => disk'[req[s].fd] = disk[req[s].fd]
          BY <3>3, <4>0, <4>3 DEF Locals
        <5> QED  BY <4>0, <5>1, <5>2 DEF Shape
      <4> QED  BY <4>1, <4>2, <4>3
    <3> QED  BY <1>p, <2>1, <2>2, <3>4, <3>5, <3>6, <3>7 DEF Shapes
  <2> QED  BY <2>3, <2>4
<1>19. CASE Stop
  <2>1. \A r \in Requests : req'[r] = Idle
    BY <1>19 DEF Stop
  <2>2. ReqType'
    BY <1>11, <1>19 DEF Stop, ReqType
  <2>4. RestType'
    BY <1>0, <1>19 DEF Stop, RestType
  <2>5. DiskType' /\ MemType'
    BY <1>0, <1>19 DEF Stop, DiskType, MemType
  <2>6. Shapes'
    BY <1>11, <1>19, <2>1 DEF Stop, Shapes, Shape
  <2> QED  BY <1>p, <2>2, <2>4, <2>5, <2>6
<1>20. CASE Boot
  <2>1. daemon = "down" /\ UNCHANGED <<disk, req, harmed, said, origin,
                                      requests, faults, stops>>
    BY <1>20 DEF Boot, counters
  <2>2. ReqType' /\ DiskType'
    BY <1>0, <2>1 DEF ReqType, DiskType
  <2>3. Shapes'
    <3>1. daemon' \in {"starting", "migrating"} => Legacy[mem'.store] # None
      BY <1>20 DEF Boot, Migrates
    <3>2. \A r \in Requests : req'[r] = Idle
      BY <1>0, <2>1 DEF Shapes
    <3> QED  BY <1>11, <3>1, <3>2 DEF Shapes, Shape
  <2>4. MemType' /\ RestType'
    <3>1. CASE Refused # {}
      BY <1>0, <1>20, <2>1, <3>1 DEF Boot, MemType, RestType
    <3>2. CASE Refused = {}
      <4>1. "config" \in Names /\ "store" \in Names /\ "effects" \in Names
        BY DEF Names, Saved
      <4>2. disk["config"] # Gone
        BY <1>0, FilesAssumption DEF DiskType, Gone
      <4>3. disk["config"].val \in Settings
        BY <1>0, <3>2, <4>1, <4>2 DEF DiskType, Refused, Needed, Kind
      <4>4. Loaded("store") \in Values /\ Loaded("effects") \in Values
        BY <1>0, <4>1, FilesAssumption DEF Loaded, DiskType, Kind
      <4>5. disk["config"].val.auto \in BOOLEAN
        BY <4>3 DEF Settings
      <4>6. /\ daemon' \in {"up", "starting"} /\ raced' = {} /\ failed' = {}
            /\ mem' = [store |-> Loaded("store"), effects |-> Loaded("effects"),
                       boot |-> disk["config"].val, page |-> disk["config"].val,
                       auto |-> disk["config"].val.auto]
        BY <1>20, <3>2 DEF Boot
      <4>7. RestType'
        BY <1>0, <2>1, <4>6 DEF RestType
      <4>8. MemType'
        BY <4>3, <4>4, <4>5, <4>6 DEF MemType
      <4> QED  BY <4>7, <4>8
    <3> QED  BY <3>1, <3>2
  <2> QED  BY <1>p, <2>2, <2>3, <2>4
\* The migration: nothing else happens to the disk or the requests.
<1>21. ASSUME UNCHANGED <<mem, req>>, daemon # "up", daemon' \in {"migrating", "up"},
              daemon \in {"starting", "migrating"}, RestType',
              NEW file, disk' = [disk EXCEPT !["profile"] = file],
              file \in Contents(Values \cup Settings), file.val \in Values \cup {None}
       PROVE  TypeInv'
  <2>1. "profile" \in Names /\ "config" \in Names
    BY DEF Names, Saved
  <2>2. \A f \in Names : disk'[f] = IF f = "profile" THEN file ELSE disk[f]
    BY <1>0, <1>21, <2>1 DEF DiskType
  <2>3. \A f \in Names : disk'[f].val \in Kind(f) \cup {None}
    BY <1>0, <1>21, <2>2 DEF DiskType, Kind
  <2>4. DiskType'
    BY <1>0, <1>21, <2>1, <2>2, <2>3 DEF DiskType
  <2>5. \A r \in Requests : req'[r] = Idle
    BY <1>0, <1>21 DEF Shapes
  <2>6. Shapes'
    BY <1>0, <1>11, <1>21, <2>5 DEF Shapes, Shape
  <2>7. ReqType' /\ MemType'
    BY <1>0, <1>21 DEF ReqType, MemType
  <2> QED  BY <1>p, <1>21, <2>4, <2>6, <2>7
<1>22. CASE MigrateOpen
  <2>1. RestType'
    BY <1>0, <1>22 DEF MigrateOpen, RestType, counters
  <2>2. Empty \in Contents(Values \cup Settings) /\ Empty.val \in Values \cup {None}
    BY DEF Empty, Contents
  <2> QED  BY <1>21, <1>22, <2>1, <2>2 DEF MigrateOpen
<1>23. CASE MigrateWrite
  <2>1. RestType'
    BY <1>0, <1>23 DEF MigrateWrite, RestType, counters
  <2>2. Legacy[mem.store] \in Values
    BY <1>0, <1>23, FilesAssumption DEF MigrateWrite, Shapes, MemType
  <2>3. Whole(Legacy[mem.store]) \in Contents(Values \cup Settings)
        /\ Whole(Legacy[mem.store]).val \in Values \cup {None}
    BY <2>2, FilesAssumption DEF Whole, Contents
  <2> QED  BY <1>21, <1>23, <2>1, <2>3 DEF MigrateWrite
<1>24. CASE MigrateFail
  <2>1. RestType'
    BY <1>0, <1>24 DEF MigrateFail, RestType
  <2>2. UNCHANGED <<disk, mem, req>> /\ daemon \in {"starting", "migrating"} /\ daemon' = "up"
    BY <1>24 DEF MigrateFail
  <2>3. \A r \in Requests : req'[r] = Idle
    BY <1>0, <2>2 DEF Shapes
  <2>4. Shapes'
    BY <1>11, <2>2, <2>3 DEF Shapes, Shape
  <2>5. ReqType' /\ DiskType' /\ MemType'
    BY <1>0, <2>2 DEF ReqType, DiskType, MemType
  <2> QED  BY <1>p, <2>1, <2>4, <2>5
<1> QED  BY <1>1, <1>2, <1>3, <1>4, <1>5, <1>6, <1>8, <1>12, <1>13, <1>14, <1>16, <1>17,
            <1>18, <1>19, <1>20, <1>22, <1>23, <1>24 DEF Next, Step

\* Every save writes a value of the file's kind, whatever fails, stops or is
\* renamed under it, and a start finds only such values.
THEOREM TypeCorrect == Spec => []TypeOK
<1>1. TypeInv => TypeOK
  BY DEF TypeInv
<1> QED  BY <1>1, TInit, TNext, PTL DEF Spec

-----------------------------------------------------------------------------
(* What a save leaves behind                                                 *)

Saving(r, f)  == req[r].pc # "idle" /\ FileOf(req[r].op) = f
Writing(r, f) == req[r].pc = "write" /\ FileOf(req[r].op) = f
Sound(f)      == disk[f] = Gone \/ disk[f].val # None

\* A save that was alone when it started stays alone: it writes to its own
\* empty file, or to one that was removed, and renames a whole one.
AtWork(r, f) ==
  /\ Writing(r, f) => IF req[r].fd = f THEN disk[f] = Empty ELSE disk[f] = Gone
  /\ Saving(r, f) /\ req[r].pc = "rename" => Sound(f)

Alone(f) ==
  f \notin raced =>
    /\ \A r, s \in Requests : Saving(r, f) /\ Saving(s, f) => r = s
    /\ \A r \in Requests : AtWork(r, f)

\* A needed file whose last save was not harmed is whole but while it is written.
Clean(f) ==
  f \notin harmed => f \notin raced /\ ((\A r \in Requests : ~Writing(r, f)) => Sound(f))

\* The profile is put there by a rename of a whole file, or by the migration.
CleanProfile ==
  origin \notin {"shared", "opened"} =>
    Sound("profile") /\ \A r \in Requests : req[r].fd # "profile"

CleanInv ==
  /\ \A f \in Files : Alone(f)
  /\ \A f \in Needed : Clean(f)
  /\ CleanProfile
  /\ StartsAgain

\* Who has one of these files open saves it.
LEMMA WriterSaves ==
  ASSUME TypeInv, NEW r \in Requests, NEW f \in Files, req[r].fd = f
  PROVE  Saving(r, f)
<1>1. Shape(r) /\ f # "none" /\ f # "profile"
  BY DEF TypeInv, Files
<1> QED  BY <1>1 DEF Shape, Saving

\* Nothing is open and nothing is torn at the start.
LEMMA CInit == Init => CleanInv
<1> SUFFICES ASSUME Init PROVE CleanInv
  OBVIOUS
<1>1. \A r \in Requests : req[r].pc = "idle" /\ req[r].fd = "none"
  BY DEF Init, Idle
<1>2. PICK c \in Settings :
        disk = [f \in Names |-> IF f = "config" THEN Whole(c) ELSE Gone]
  BY DEF Init
<1>3. c # None
  BY FilesAssumption
<1>4. \A f \in Names : Sound(f)
  BY <1>2, <1>3 DEF Sound, Whole
<1>5. Needed \subseteq Names /\ "profile" \in Names
  BY DEF Needed, Names, Saved
<1>6. \A f \in Files : Alone(f)
  BY <1>1 DEF Alone, AtWork, Saving, Writing
<1>7. \A f \in Needed : Clean(f)
  BY <1>4, <1>5 DEF Clean, Init
<1>8. CleanProfile /\ StartsAgain
  BY <1>1, <1>4, <1>5 DEF CleanProfile, StartsAgain, Init
<1> QED  BY <1>6, <1>7, <1>8 DEF CleanInv

\* A step of request r after which whoever else saves f is where it was, and
\* r does what a save that is alone may do.
LEMMA AloneStep ==
  ASSUME NEW r \in Requests, NEW f \in Files, Alone(f), f \notin raced' => f \notin raced,
         \A s \in Requests : s # r /\ Saving(s, f)' => Saving(s, f) /\ req'[s] = req[s],
         Saving(r, f)' => Saving(r, f),
         UNCHANGED disk[f] \/ Saving(r, f) \/ f \in raced,
         f \notin raced /\ Saving(r, f)' => AtWork(r, f)'
  PROVE  Alone(f)'
<1> SUFFICES ASSUME f \notin raced'
             PROVE  /\ \A s, t \in Requests : Saving(s, f)' /\ Saving(t, f)' => s = t
                    /\ \A s \in Requests : AtWork(s, f)'
  BY DEF Alone
<1>1. \A s, t \in Requests : Saving(s, f) /\ Saving(t, f) => s = t
  BY DEF Alone
<1>2. \A s, t \in Requests : Saving(s, f)' /\ Saving(t, f)' => s = t
  BY <1>1
<1>3. ASSUME NEW s \in Requests, s # r, Saving(s, f)' PROVE AtWork(s, f)'
  <2>1. Saving(s, f) /\ req'[s] = req[s] /\ UNCHANGED disk[f] /\ AtWork(s, f)
    BY <1>1, <1>3 DEF Alone
  <2> QED  BY <2>1 DEF AtWork, Saving, Writing, Sound
<1>4. \A s \in Requests : ~Saving(s, f)' => AtWork(s, f)'
  BY DEF AtWork, Saving, Writing
<1> QED  BY <1>2, <1>3, <1>4

\* A step that does not touch a needed file.
LEMMA CleanStep ==
  ASSUME NEW f \in Needed, Clean(f), f \in harmed => f \in harmed', UNCHANGED raced,
         UNCHANGED disk[f], \A s \in Requests : Writing(s, f) => Writing(s, f)'
  PROVE  Clean(f)'
BY DEF Clean, Sound

\* The start of a save: of a file that nobody saves, or it is raced and harmed.
LEMMA CStart ==
  ASSUME TypeInv, CleanInv, NEW r \in Requests, NEW op \in Ops \ {"reset"},
         NEW pc \in {"open", "snapshot"}, NEW val, Start(r, op, pc, val)
  PROVE  CleanInv'
<1> DEFINE v == [pc |-> pc, op |-> op, val |-> val, fd |-> "none"]
<1>0. PICK g : g = FileOf(op)
  OBVIOUS
<1>1. \A s \in Requests : req'[s] = IF s = r THEN v ELSE req[s]
  BY Parts DEF Start, ReqType
<1>2. /\ UNCHANGED <<disk, daemon, origin>> /\ req[r].pc = "idle" /\ daemon = "up"
      /\ raced' = (IF Busy(g) THEN raced \cup {g} ELSE raced \ {g})
      /\ harmed' = (IF Busy(g) THEN harmed \cup ({g} \cap Needed) ELSE harmed)
  BY <1>0 DEF Start
<1>3. ASSUME NEW f \in Files PROVE Alone(f)'
  <2>1. Alone(f)
    BY DEF CleanInv
  <2>2. CASE f = g /\ Busy(g)
    BY <1>2, <2>2 DEF Alone
  <2>3. CASE f = g /\ ~Busy(g)
    <3>1. \A s \in Requests : Saving(s, f)' => s = r
      BY <1>0, <1>1, <2>3 DEF Saving, Busy
    <3>2. req'[r].pc \notin {"write", "rename"}
      BY <1>1
    <3> QED  BY <3>1, <3>2 DEF Alone, AtWork, Saving, Writing
  <2>4. CASE f # g
    <3>1. \A s \in Requests : s # r /\ Saving(s, f)' => Saving(s, f) /\ req'[s] = req[s]
      BY <1>1 DEF Saving
    <3>2. ~Saving(r, f)'
      BY <1>0, <1>1, <2>4 DEF Saving
    <3>3. f \notin raced' => f \notin raced
      BY <1>2, <2>4
    <3> QED  BY <1>2, <2>1, <3>1, <3>2, <3>3, AloneStep
  <2> QED  BY <2>2, <2>3, <2>4
<1>4. ASSUME NEW f \in Needed, f \notin harmed' PROVE Clean(f)'
  <2>1. Clean(f) /\ f \notin harmed /\ (f = g => ~Busy(g))
    BY <1>2, <1>4 DEF CleanInv
  <2>2. f \notin raced'
    BY <1>2, <2>1 DEF Clean
  <2>3. \A s \in Requests : Writing(s, f) => Writing(s, f)'
    BY <1>1, <1>2 DEF Writing
  <2> QED  BY <1>2, <2>1, <2>2, <2>3 DEF Clean, Sound
<1>5. CleanProfile'
  BY <1>1, <1>2 DEF CleanInv, CleanProfile, Sound
<1>6. StartsAgain'
  BY <1>2 DEF StartsAgain
<1> QED  BY <1>3, <1>4, <1>5, <1>6 DEF CleanInv, Clean

\* Every step leaves the files clean: one step per action.
LEMMA CNext == TypeInv /\ CleanInv /\ [Next]_vars => CleanInv'
<1> SUFFICES ASSUME TypeInv, CleanInv, [Next]_vars PROVE CleanInv'
  OBVIOUS
<1>0. ReqType /\ DiskType /\ MemType /\ RestType /\ Shapes
  BY Parts
<1>i. /\ \A f \in Files : Alone(f)
      /\ \A f \in Needed : Clean(f)
      /\ CleanProfile
  BY DEF CleanInv
<1>t. /\ Files \subseteq Names /\ Needed \subseteq Files /\ "profile" \in Names
      /\ "tmp" \in Files /\ "tmp" \notin Needed
      /\ \A f \in Files : f \notin {"profile", "none", "reset"}
  BY DEF Needed, Names, Saved, Files
\* The daemon that is up does not become stuck by a step of a request.
<1>b. daemon' # "stuck" => StartsAgain'
  BY DEF StartsAgain
<1>c. ASSUME NEW r \in Requests, req[r].pc # "idle"
      PROVE  daemon = "up" /\ Shape(r) /\ req[r] \in Locals
  BY <1>0, <1>c DEF Shapes, Idle, ReqType
<1>1. CASE UNCHANGED vars
  <2>1. \A f \in Files : Alone(f)'
    BY <1>1, <1>i DEF vars, Alone, AtWork, Saving, Writing, Sound
  <2>2. \A f \in Needed : Clean(f)'
    BY <1>1, <1>i DEF vars, Clean, Writing, Sound
  <2>3. CleanProfile' /\ StartsAgain'
    BY <1>1 DEF vars, CleanInv, CleanProfile, StartsAgain, Sound
  <2> QED  BY <2>1, <2>2, <2>3 DEF CleanInv
<1>2. ASSUME NEW r \in Requests, NEW op \in Ops \ {"reset"}, NEW pc \in {"open", "snapshot"},
             NEW val, Start(r, op, pc, val)
      PROVE  CleanInv'
  BY <1>2, CStart
<1>3. {"store", "effects", "toggle", "page", "profile"} \subseteq Ops \ {"reset"}
  BY DEF Ops
<1>4. ASSUME NEW r \in Requests, NEW v \in Values,
             ChangeStore(r, v) \/ ChangeEffects(r, v) \/ SaveProfile(r, v)
      PROVE  CleanInv'
  BY <1>2, <1>3, <1>4 DEF ChangeStore, ChangeEffects, SaveProfile
<1>5. ASSUME NEW r \in Requests, NEW on \in BOOLEAN, Toggle(r, on) PROVE CleanInv'
  BY <1>2, <1>3, <1>5 DEF Toggle
<1>6. ASSUME NEW r \in Requests, NEW zone \in Zones, SavePage(r, zone) PROVE CleanInv'
  BY <1>2, <1>3, <1>6 DEF SavePage
<1>7. ASSUME NEW r \in Requests, NEW files \in SUBSET (Names \ {"config"}),
             NEW pc \in {"idle", "wipeEffects", "wipeProfiles"}, Remove(r, files, pc),
             req[r].pc \in {"idle", "wipeEffects", "wipeProfiles"},
             daemon' = "up", UNCHANGED <<harmed, raced, origin>>
      PROVE  CleanInv'
  <2>1. /\ \A f \in Names : disk'[f] = IF f \in files THEN Gone ELSE disk[f]
        /\ req'[r].op = "reset" /\ req'[r].fd = "none" /\ req'[r].pc # "write"
    BY <1>7 DEF Remove, Idle
  <2>2. \A s \in Requests : s # r =>
          /\ req'[s].pc = req[s].pc /\ req'[s].op = req[s].op
          /\ req'[s].fd = IF req[s].fd \in files THEN "none" ELSE req[s].fd
    BY <1>0, <1>7 DEF Remove, ReqType, Locals
  <2>3. req[r].pc # "write"
    BY <1>7
  <2>4. ASSUME NEW f \in Files PROVE Alone(f)'
    <3>0. f # "none" /\ f # "reset" /\ f \in Names
      BY <1>t
    <3>1. \A s \in Requests : Saving(s, f)' => s # r /\ Saving(s, f)
      BY <2>1, <2>2, <3>0, FileTable DEF Saving
    <3>2. ASSUME f \notin raced, NEW s \in Requests, Saving(s, f)' PROVE AtWork(s, f)'
      <4>1. s # r /\ AtWork(s, f) /\ Saving(s, f)
        BY <1>i, <3>1, <3>2 DEF Alone
      <4>2. disk'[f] = IF f \in files THEN Gone ELSE disk[f]
        BY <2>1, <3>0
      <4>3. req'[s].pc = req[s].pc /\ req'[s].op = req[s].op
        BY <2>2, <4>1
      <4>4. CASE f \in files
        <5>1. req'[s].fd # f
          BY <2>2, <3>0, <4>1, <4>4
        <5> QED  BY <4>2, <4>4, <5>1 DEF AtWork, Sound
      <4>5. CASE f \notin files
        <5>1. req'[s].fd = f <=> req[s].fd = f
          BY <2>2, <3>0, <4>1, <4>5
        <5> QED  BY <4>1, <4>2, <4>3, <4>5, <5>1 DEF AtWork, Writing, Saving, Sound
      <4> QED  BY <4>4, <4>5
    <3>3. \A s \in Requests : ~Saving(s, f)' => AtWork(s, f)'
      BY DEF AtWork, Saving, Writing
    <3>4. f \notin raced => \A s, t \in Requests : Saving(s, f)' /\ Saving(t, f)' => s = t
      BY <1>i, <3>1 DEF Alone
    <3> QED  BY <1>7, <3>2, <3>3, <3>4 DEF Alone
  <2>5. ASSUME NEW f \in Needed PROVE Clean(f)'
    <3>1. \A s \in Requests : Writing(s, f) => Writing(s, f)'
      BY <2>2, <2>3 DEF Writing
    <3>2. CASE f \in files
      <4>1. Sound(f)'
        BY <1>t, <2>1, <3>2 DEF Sound
      <4> QED  BY <1>7, <1>i, <4>1 DEF Clean
    <3>3. CASE f \notin files
      <4>1. UNCHANGED disk[f]
        BY <1>t, <2>1, <3>3
      <4> QED  BY <1>7, <1>i, <3>1, <4>1, CleanStep
    <3> QED  BY <3>2, <3>3
  <2>6. CleanProfile'
    BY <1>t, <1>7, <1>i, <2>1, <2>2 DEF CleanProfile, Sound
  <2> QED  BY <1>b, <1>7, <2>4, <2>5, <2>6 DEF CleanInv
<1>8. ASSUME NEW r \in Requests,
             DeleteProfile(r) \/ Reset(r) \/ WipeEffects(r) \/ WipeProfiles(r)
      PROVE  CleanInv'
  <2>1. {"profile"} \in SUBSET (Names \ {"config"}) /\ {"store"} \in SUBSET (Names \ {"config"})
        /\ {"effects"} \in SUBSET (Names \ {"config"})
        /\ {"tmp", "profile"} \in SUBSET (Names \ {"config"})
    BY DEF Names, Saved
  <2>2. daemon' = "up" /\ UNCHANGED <<harmed, raced, origin>>
    BY <1>c, <1>8 DEF DeleteProfile, Reset, WipeEffects, WipeProfiles
  <2>3. req[r].pc \in {"idle", "wipeEffects", "wipeProfiles"}
    BY <1>8 DEF DeleteProfile, Reset, WipeEffects, WipeProfiles
  <2> QED  BY <1>7, <1>8, <2>1, <2>2, <2>3 DEF DeleteProfile, Reset, WipeEffects, WipeProfiles
\* A step of a request that touches no file and does not start to write.
<1>9. ASSUME NEW r \in Requests, UNCHANGED <<disk, raced, origin>>, daemon' = "up",
             \A s \in Requests : s # r => req'[s] = req[s],
             req'[r].pc \notin {"write", "rename"}, req'[r].fd # "profile",
             req'[r].pc # "idle" => req[r].pc # "idle" /\ req'[r].op = req[r].op,
             \A f \in Needed : Writing(r, f) => f \in harmed', harmed \subseteq harmed'
      PROVE  CleanInv'
  <2>1. ASSUME NEW f \in Files PROVE Alone(f)'
    <3>1. Saving(r, f)' => Saving(r, f)
      BY <1>9 DEF Saving
    <3>2. AtWork(r, f)'
      BY <1>9 DEF AtWork, Writing
    <3>3. \A s \in Requests : s # r /\ Saving(s, f)' => Saving(s, f) /\ req'[s] = req[s]
      BY <1>9 DEF Saving
    <3> QED  BY <1>9, <1>i, <3>1, <3>2, <3>3, AloneStep
  <2>2. ASSUME NEW f \in Needed PROVE Clean(f)'
    <3>1. CASE Writing(r, f)
      BY <1>9, <3>1 DEF Clean
    <3>2. CASE ~Writing(r, f)
      <4>1. \A s \in Requests : Writing(s, f) => Writing(s, f)'
        BY <1>9, <3>2 DEF Writing
      <4> QED  BY <1>9, <1>i, <4>1, CleanStep
    <3> QED  BY <3>1, <3>2
  <2>3. CleanProfile'
    BY <1>9, <1>i DEF CleanProfile, Sound
  <2> QED  BY <1>b, <1>9, <2>1, <2>2, <2>3 DEF CleanInv
<1>10. ASSUME NEW r \in Requests, Snapshot(r) PROVE CleanInv'
  <2>1. req[r].pc = "snapshot" /\ UNCHANGED <<disk, daemon, harmed, raced, origin>>
    BY <1>10 DEF Snapshot
  <2>2. /\ \A s \in Requests : s # r => req'[s] = req[s]
        /\ req'[r].pc = "open" /\ req'[r].op = req[r].op /\ req'[r].fd = req[r].fd
    BY <1>0, <1>10 DEF Snapshot, ReqType, Locals
  <2>3. daemon = "up" /\ req[r].fd # "profile"
    BY <1>c, <2>1 DEF Shape
  <2>4. \A f \in Needed : ~Writing(r, f)
    BY <2>1 DEF Writing
  <2> QED  BY <1>9, <2>1, <2>2, <2>3, <2>4
<1>11. ASSUME NEW r \in Requests, Assign(r) PROVE CleanInv'
  <2>1. req[r].pc = "assign" /\ UNCHANGED <<disk, daemon, harmed, raced, origin>>
    BY <1>11 DEF Assign
  <2>2. /\ \A s \in Requests : s # r => req'[s] = req[s]
        /\ req'[r].pc = "idle" /\ req'[r].fd = "none"
    BY <1>0, <1>11 DEF Assign, Finish, ReqType, Idle
  <2>3. daemon = "up" /\ \A f \in Needed : ~Writing(r, f)
    BY <1>c, <2>1 DEF Writing
  <2> QED  BY <1>9, <2>1, <2>2, <2>3
<1>12. ASSUME NEW r \in Requests, SaveFail(r) PROVE CleanInv'
  <2>1. /\ req[r].pc \in {"open", "write", "rename"}
        /\ UNCHANGED <<disk, daemon, raced, origin>>
        /\ harmed' = harmed \cup ({FileOf(req[r].op)} \cap Needed)
    BY <1>12 DEF SaveFail
  <2>2. /\ \A s \in Requests : s # r => req'[s] = req[s]
        /\ req'[r].pc = "idle" /\ req'[r].fd = "none"
    BY <1>0, <1>12 DEF SaveFail, Finish, ReqType, Idle
  <2>3. daemon = "up"
    BY <1>c, <2>1
  <2>4. \A f \in Needed : Writing(r, f) => f \in harmed'
    BY <2>1 DEF Writing
  <2> QED  BY <1>9, <2>1, <2>2, <2>3, <2>4
<1>13. ASSUME NEW r \in Requests, OpenFile(r) PROVE CleanInv'
  <2>0. PICK g : g = FileOf(req[r].op)
    OBVIOUS
  <2>1. /\ req[r].pc = "open" /\ UNCHANGED <<daemon, harmed, raced, origin>>
        /\ disk' = [disk EXCEPT ![g] = Empty]
    BY <1>13, <2>0 DEF OpenFile
  <2>2. /\ \A s \in Requests : s # r => req'[s] = req[s]
        /\ req'[r].pc = "write" /\ req'[r].fd = g /\ req'[r].op = req[r].op
    BY <1>0, <1>13, <2>0 DEF OpenFile, ReqType, Locals
  <2>3. daemon = "up" /\ g \in Files
    <3>1. req[r].op \in Ops \ {"reset"} /\ daemon = "up"
      BY <1>c, <2>1 DEF Shape, Locals
    <3> QED  BY <2>0, <3>1, FileOfSave
  <2>4. \A f \in Names : disk'[f] = IF f = g THEN Empty ELSE disk[f]
    BY <1>0, <2>1 DEF DiskType
  <2>5. \A f \in Files : Saving(r, f) <=> f = g
    BY <2>0, <2>1 DEF Saving
  <2>6. ASSUME NEW f \in Files PROVE Alone(f)'
    <3>1. \A s \in Requests : s # r /\ Saving(s, f)' => Saving(s, f) /\ req'[s] = req[s]
      BY <2>2 DEF Saving
    <3>2. Saving(r, f)' => Saving(r, f)
      BY <2>0, <2>2, <2>5 DEF Saving
    <3>3. UNCHANGED disk[f] \/ Saving(r, f)
      BY <1>t, <2>4, <2>5
    <3>4. Saving(r, f) => AtWork(r, f)'
      BY <1>t, <2>2, <2>4, <2>5 DEF AtWork
    <3> QED  BY <1>i, <2>1, <3>1, <3>2, <3>3, <3>4, AloneStep
  <2>7. ASSUME NEW f \in Needed PROVE Clean(f)'
    <3>1. CASE f = g
      <4>1. Writing(r, f)'
        BY <2>0, <2>2, <3>1 DEF Writing
      <4> QED  BY <1>i, <2>1, <4>1 DEF Clean
    <3>2. CASE f # g
      <4>1. UNCHANGED disk[f] /\ \A s \in Requests : Writing(s, f) => Writing(s, f)'
        BY <1>t, <2>1, <2>2, <2>4, <3>2 DEF Writing
      <4> QED  BY <1>i, <2>1, <4>1, CleanStep
    <3> QED  BY <3>1, <3>2
  <2>8. CleanProfile'
    <3>1. disk'["profile"] = disk["profile"] /\ g # "profile"
      BY <1>t, <2>3, <2>4
    <3> QED  BY <1>i, <2>1, <2>2, <3>1 DEF CleanProfile, Sound
  <2> QED  BY <1>b, <2>1, <2>3, <2>6, <2>7, <2>8 DEF CleanInv
<1>14. ASSUME NEW r \in Requests, WriteBytes(r) PROVE CleanInv'
  <2>0. PICK g : g = FileOf(req[r].op)
    OBVIOUS
  <2>1. /\ req[r].pc = "write" /\ UNCHANGED <<daemon, raced, origin>>
        /\ harmed' = harmed \ ({g} \ raced)
        /\ \A f \in Names : disk'[f] = IF f = req[r].fd THEN WrittenOver(disk[f], req[r].val)
                                                        ELSE disk[f]
    BY <1>14, <2>0 DEF WriteBytes
  <2>2. /\ \A s \in Requests : s # r => req'[s] = req[s]
        /\ req'[r].pc # "write" /\ (req'[r].pc # "idle" => req'[r].op = req[r].op)
        /\ req'[r].fd \in {req[r].fd, "none"}
    BY <1>0, <1>14 DEF WriteBytes, Goto, Finish, ReqType, Locals, Idle
  <2>3. daemon = "up" /\ Shape(r)
    BY <1>c, <2>1
  <2>4. req[r].val \in Values \cup Settings /\ req[r].val # None /\ Size[req[r].val] \in Nat
    <3>1. req[r].val \in Kind(FileOf(req[r].op))
      BY <2>1, <2>3 DEF Shape
    <3> QED  BY <3>1, FilesAssumption DEF Kind
  <2>5. \A f \in Files : Saving(r, f) <=> f = g
    BY <2>0, <2>1 DEF Saving
  \* What a save that is alone leaves.
  <2>6. ASSUME NEW f \in Files, f = g, f \notin raced PROVE Sound(f)'
    <3>1. IF req[r].fd = f THEN disk[f] = Empty ELSE disk[f] = Gone
      BY <1>i, <2>0, <2>1, <2>6 DEF Alone, AtWork, Writing
    <3>2. CASE req[r].fd = f
      <4>1. disk'[f] = WrittenOver(Empty, req[r].val)
        BY <1>t, <2>1, <3>1, <3>2
      <4>2. ~(0 > Size[req[r].val])
        BY <2>4
      <4> QED  BY <2>4, <4>1, <4>2 DEF WrittenOver, Empty, Whole, Sound
    <3>3. CASE req[r].fd # f
      BY <1>t, <2>1, <3>1, <3>3 DEF Sound
    <3> QED  BY <3>2, <3>3
  <2>7. \A f \in Files : f # g => UNCHANGED disk[f]
    BY <1>t, <2>1, <2>5, WriterSaves
  <2>8. ASSUME NEW f \in Files PROVE Alone(f)'
    <3>1. \A s \in Requests : s # r /\ Saving(s, f)' => Saving(s, f) /\ req'[s] = req[s]
      BY <2>2 DEF Saving
    <3>2. Saving(r, f)' => Saving(r, f)
      BY <2>0, <2>2, <2>5 DEF Saving
    <3>3. UNCHANGED disk[f] \/ Saving(r, f)
      BY <2>5, <2>7
    <3>4. f \notin raced /\ Saving(r, f)' => AtWork(r, f)'
      BY <2>2, <2>5, <2>6, <3>2 DEF AtWork, Writing
    <3> QED  BY <1>i, <2>1, <3>1, <3>2, <3>3, <3>4, AloneStep
  <2>9. ASSUME NEW f \in Needed PROVE Clean(f)'
    <3>1. CASE f = g
      <4>1. f \notin harmed' => f \notin raced
        BY <1>i, <2>1, <3>1 DEF Clean
      <4>2. f \notin raced => Sound(f)'
        BY <1>t, <2>6, <3>1
      <4> QED  BY <2>1, <4>1, <4>2 DEF Clean
    <3>2. CASE f # g
      <4>1. UNCHANGED disk[f] /\ \A s \in Requests : Writing(s, f) => Writing(s, f)'
        BY <1>t, <2>0, <2>2, <2>7, <3>2 DEF Writing
      <4>2. f \in harmed => f \in harmed'
        BY <2>1, <3>2
      <4> QED  BY <1>i, <2>1, <4>1, <4>2, CleanStep
    <3> QED  BY <3>1, <3>2
  <2>10. CleanProfile'
    BY <1>t, <1>i, <2>1, <2>2 DEF CleanProfile, Sound
  <2> QED  BY <1>b, <2>1, <2>3, <2>8, <2>9, <2>10 DEF CleanInv
<1>15. ASSUME NEW r \in Requests, Rename(r) PROVE CleanInv'
  <2>1. req[r].pc = "rename" /\ UNCHANGED <<daemon, harmed, raced>>
    BY <1>15 DEF Rename
  <2>2. daemon = "up" /\ FileOf(req[r].op) = "tmp" /\ Saving(r, "tmp")
    <3>1. req[r].op = "profile" /\ daemon = "up"
      BY <1>c, <2>1 DEF Shape
    <3> QED  BY <2>1, <3>1, FileTable DEF Saving
  <2>3. CASE disk["tmp"] = Gone
    <3>1. UNCHANGED <<disk, origin>>
      BY <1>15, <2>3 DEF Rename
    <3>2. /\ \A s \in Requests : s # r => req'[s] = req[s]
          /\ req'[r].pc = "idle" /\ req'[r].fd = "none"
      BY <1>0, <1>15, <2>3 DEF Rename, Finish, ReqType, Idle
    <3>3. \A f \in Needed : ~Writing(r, f)
      BY <2>1 DEF Writing
    <3> QED  BY <1>9, <2>1, <2>2, <3>1, <3>2, <3>3
  <2>4. CASE disk["tmp"] # Gone
    <3>1. \A f \in Names : disk'[f] = IF f = "tmp" THEN Gone
                                      ELSE IF f = "profile" THEN disk["tmp"] ELSE disk[f]
      BY <1>0, <1>15, <1>t, <2>4 DEF Rename, DiskType
    <3>2. /\ req'[r].pc = "idle" /\ req'[r].fd = "none"
          /\ \A s \in Requests : s # r =>
               /\ req'[s].pc = req[s].pc /\ req'[s].op = req[s].op
               /\ req'[s].fd = IF req[s].fd = "tmp" THEN "profile"
                               ELSE IF req[s].fd = "profile" THEN "none" ELSE req[s].fd
               /\ req[s].fd \notin {"tmp", "profile"} => req'[s] = req[s]
      BY <1>0, <1>15, <2>4 DEF Rename, Idle, ReqType, Locals
    <3>3. origin' = IF "tmp" \in raced THEN "shared" ELSE "alone"
      BY <1>15, <2>4 DEF Rename
    <3>4. ASSUME NEW f \in Files, f # "tmp" PROVE Alone(f)'
      <4>1. UNCHANGED disk[f]
        BY <1>t, <3>1, <3>4
      <4>2. \A s \in Requests : s # r /\ Saving(s, f)' => Saving(s, f) /\ req'[s] = req[s]
        <5> SUFFICES ASSUME NEW s \in Requests, s # r, Saving(s, f)'
                     PROVE  Saving(s, f) /\ req'[s] = req[s]
          OBVIOUS
        <5>1. Saving(s, f)
          BY <3>2 DEF Saving
        <5>2. req[s].fd \notin {"tmp", "profile"}
          BY <1>c, <1>t, <3>4, <5>1 DEF Saving, Shape
        <5> QED  BY <3>2, <5>1, <5>2
      <4>3. ~Saving(r, f)'
        BY <3>2 DEF Saving
      <4> QED  BY <1>i, <2>1, <4>1, <4>2, <4>3, AloneStep
    <3>5. Alone("tmp")'
      <4> SUFFICES ASSUME "tmp" \notin raced
                   PROVE  \A s \in Requests : ~Saving(s, "tmp")'
        BY <2>1 DEF Alone, AtWork, Saving, Writing
      <4>1. \A s \in Requests : s # r => ~Saving(s, "tmp")
        BY <1>i, <1>t, <2>2 DEF Alone
      <4> QED  BY <3>2, <4>1 DEF Saving
    <3>6. ASSUME NEW f \in Needed PROVE Clean(f)'
      <4>1. UNCHANGED disk[f]
        BY <1>t, <3>1
      <4>2. \A s \in Requests : Writing(s, f) => Writing(s, f)'
        BY <2>1, <3>2 DEF Writing
      <4> QED  BY <1>i, <2>1, <4>1, <4>2, CleanStep
    <3>7. CleanProfile'
      <4> SUFFICES ASSUME "tmp" \notin raced
                   PROVE  Sound("profile")' /\ \A s \in Requests : req'[s].fd # "profile"
        BY <3>3 DEF CleanProfile
      <4>1. \A s \in Requests : s # r => req[s].fd # "tmp"
        BY <1>i, <1>t, <2>2, WriterSaves DEF Alone
      <4>2. Sound("tmp")
        BY <1>i, <1>t, <2>1, <2>2 DEF Alone, AtWork
      <4>3. Sound("profile")'
        BY <1>t, <3>1, <4>2 DEF Sound
      <4> QED  BY <3>2, <4>1, <4>3
    <3> QED  BY <1>b, <2>1, <2>2, <3>4, <3>5, <3>6, <3>7 DEF CleanInv
  <2> QED  BY <2>3, <2>4
<1>16. CASE Stop
  <2>1. /\ \A s \in Requests : req'[s].pc = "idle" /\ req'[s].fd = "none"
        /\ daemon' = "down" /\ UNCHANGED <<disk, raced, origin>>
        /\ harmed' = harmed \cup
             (Needed \cap {FileOf(req[r].op) : r \in {x \in Requests : req[x].pc = "write"}})
    BY <1>16 DEF Stop, Idle
  <2>2. \A f \in Files : Alone(f)'
    BY <2>1 DEF Alone, AtWork, Saving, Writing
  <2>3. ASSUME NEW f \in Needed, f \notin harmed' PROVE Clean(f)'
    <3>1. \A s \in Requests : ~Writing(s, f)
      BY <2>1, <2>3 DEF Writing
    <3> QED  BY <1>i, <2>1, <2>3, <3>1 DEF Clean, Sound
  <2>4. CleanProfile'
    BY <1>i, <2>1 DEF CleanProfile, Sound
  <2> QED  BY <1>b, <2>1, <2>2, <2>3, <2>4 DEF CleanInv, Clean
<1>17. CASE Boot
  <2>1. UNCHANGED <<disk, req, harmed, origin>> /\ daemon = "down"
        /\ raced' \in {raced, {}}
    BY <1>17 DEF Boot
  <2>2. \A s \in Requests : req[s].pc = "idle"
    BY <1>0, <2>1 DEF Shapes, Idle
  <2>3. \A f \in Files : Alone(f)'
    BY <2>1, <2>2 DEF Alone, AtWork, Saving, Writing
  <2>4. \A f \in Needed : Clean(f)'
    BY <1>i, <2>1 DEF Clean, Writing, Sound
  <2>5. CleanProfile'
    BY <1>i, <2>1 DEF CleanProfile, Sound
  <2>6. StartsAgain'
    <3>1. CASE Refused = {}
      BY <1>17, <3>1 DEF Boot, StartsAgain
    <3>2. CASE Refused # {}
      <4>1. PICK f \in Needed : disk[f].val = None /\ disk[f] # Gone
        BY <3>2 DEF Refused
      <4>2. f \in harmed
        BY <1>i, <2>2, <4>1 DEF Clean, Writing, Sound
      <4> QED  BY <2>1, <4>2 DEF StartsAgain
    <3> QED  BY <3>1, <3>2
  <2> QED  BY <2>3, <2>4, <2>5, <2>6 DEF CleanInv
\* The migration: the profile is empty until it is whole.
<1>18. ASSUME UNCHANGED <<req, harmed, raced>>, daemon # "up", daemon' # "stuck",
              \A f \in Files : UNCHANGED disk[f], CleanProfile'
       PROVE  CleanInv'
  <2>1. \A s \in Requests : req[s].pc = "idle"
    BY <1>0, <1>18 DEF Shapes, Idle
  <2>2. \A f \in Files : Alone(f)'
    BY <1>18, <2>1 DEF Alone, AtWork, Saving, Writing
  <2>3. \A f \in Needed : Clean(f)'
    BY <1>i, <1>t, <1>18 DEF Clean, Writing, Sound
  <2> QED  BY <1>b, <1>18, <2>2, <2>3 DEF CleanInv
<1>19. CASE MigrateOpen \/ MigrateWrite \/ MigrateFail
  <2>1. UNCHANGED <<req, harmed, raced>> /\ daemon \in {"starting", "migrating"}
        /\ daemon' \in {"up", "migrating"}
    BY <1>19 DEF MigrateOpen, MigrateWrite, MigrateFail
  <2>2. \A f \in Files : UNCHANGED disk[f]
    BY <1>0, <1>19, <1>t DEF MigrateOpen, MigrateWrite, MigrateFail, DiskType
  <2>3. CleanProfile'
    <3>1. CASE MigrateOpen
      BY <3>1 DEF MigrateOpen, CleanProfile
    <3>2. CASE MigrateWrite
      <4>1. Legacy[mem.store] # None /\ \A r \in Requests : req'[r].fd = "none"
        BY <1>0, <3>2 DEF MigrateWrite, Shapes, Idle
      <4>2. disk'["profile"] = Whole(Legacy[mem.store])
        BY <1>0, <1>t, <3>2 DEF MigrateWrite, DiskType
      <4> QED  BY <4>1, <4>2 DEF CleanProfile, Sound, Whole
    <3>3. CASE MigrateFail
      BY <1>i, <3>3 DEF MigrateFail, CleanProfile, Sound
    <3> QED  BY <1>19, <3>1, <3>2, <3>3
  <2> QED  BY <1>18, <2>1, <2>2, <2>3
<1> QED  BY <1>1, <1>4, <1>5, <1>6, <1>8, <1>10, <1>11, <1>12, <1>13, <1>14, <1>15, <1>16,
            <1>17, <1>19 DEF Next, Step

\* The daemon that does not start had the last saves of the store or of the
\* configuration raced, cut off or failed: with any number of handlers, resets
\* and stops.
THEOREM StartsAgainCorrect == Spec => []StartsAgain
<1>1. CleanInv => StartsAgain
  BY DEF CleanInv
<1> QED  BY <1>1, TInit, TNext, CInit, CNext, PTL DEF Spec

\* A profile that is there is whole, wherever its save failed or was cut off,
\* and whatever a migration, a removal or a reset does meanwhile: unless two
\* saves shared the temporary file or a migration was not finished.
THEOREM ProfileIsWholeCorrect == Spec => []ProfileIsWhole
<1>1. CleanInv => ProfileIsWhole
  BY DEF CleanInv, CleanProfile, Sound, ProfileIsWhole
<1> QED  BY <1>1, TInit, TNext, CInit, CNext, PTL DEF Spec

-----------------------------------------------------------------------------
(* What is on the disk is what is meant                                      *)

Kept == {"store", "effects", "config"}
Live == {"up", "starting", "migrating"} \* the daemon has its memory

\* The saves of a file that its property speaks of, and what they should hold.
Trusted(f) == IF f = "config" THEN said # None ELSE f \notin raced \cup failed
Right(f, v) == CASE f = "store"   -> v = mem.store
                 [] f = "effects" -> v = mem.effects
                 [] f = "config"  -> v.auto = said
Held(f) == IF f = "config" THEN disk[f].val.auto = said ELSE Right(f, Loaded(f))

\* One request at most is saving such a file, it has the right value, writes
\* it to the empty file that is there, and the file holds it afterwards.
Known(f) ==
  Trusted(f) =>
    /\ \A r, s \in Requests : Saving(r, f) /\ Saving(s, f) => r = s
    /\ \A r \in Requests : Saving(r, f) =>
         /\ \/ f = "store" /\ req[r].pc = "snapshot"
            \/ req[r].pc \in {"open", "write"} /\ Right(f, req[r].val)
         /\ req[r].op # "page"
    /\ \A r \in Requests : Saving(r, f) /\ req[r].pc = "write" =>
         req[r].fd = f /\ disk[f] = Empty
    /\ (\A r \in Requests : ~Saving(r, f)) /\ (daemon \in Live \/ f = "config") => Held(f)

KnownInv == (\A f \in Kept : Known(f)) /\ "effects" \notin raced

\* The files and what should be in them, one by one.
LEMMA RightTable ==
  /\ \A v : Right("store", v) <=> v = mem.store
  /\ \A v : Right("effects", v) <=> v = mem.effects
  /\ \A v : Right("config", v) <=> v.auto = said
  BY DEF Right

\* At the start memory and files are those of a fresh device.
LEMMA KInit == Init => KnownInv
<1> SUFFICES ASSUME Init PROVE KnownInv
  OBVIOUS
<1>1. \A r \in Requests : req[r].pc = "idle"
  BY DEF Init, Idle
<1>2. said = None /\ raced = {}
  BY DEF Init
<1>3. mem.store = Default /\ mem.effects = Default
  BY DEF Init
<1>4. disk["store"] = Gone /\ disk["effects"] = Gone
  BY DEF Init, Names, Saved
<1>5. Held("store") /\ Held("effects")
  BY <1>3, <1>4, RightTable DEF Held, Loaded, Gone
<1>6. Known("store") /\ Known("effects")
  BY <1>1, <1>5 DEF Known, Saving
<1>7. Known("config")
  BY <1>2 DEF Known, Trusted
<1> QED  BY <1>2, <1>6, <1>7 DEF KnownInv, Kept

\* A step that has nothing to do with the file.
LEMMA Untouched ==
  ASSUME KnownInv, NEW f \in Kept, Trusted(f)' => Trusted(f),
         UNCHANGED disk[f], daemon' \in Live => daemon \in Live,
         IF f = "store" THEN UNCHANGED mem.store
         ELSE IF f = "effects" THEN UNCHANGED mem.effects
         ELSE UNCHANGED said,
         \A r \in Requests :
           /\ Saving(r, f)' <=> Saving(r, f)
           /\ Saving(r, f) => /\ req'[r].pc = req[r].pc /\ req'[r].op = req[r].op
                              /\ req'[r].val = req[r].val
                              /\ req[r].fd = f => req'[r].fd = f
  PROVE  Known(f)'
<1>1. Known(f)
  BY DEF KnownInv
<1>2. \A v : Right(f, v)' <=> Right(f, v)
  <2>1. CASE f = "store"
    BY <2>1 DEF Right
  <2>2. CASE f = "effects"
    BY <2>2 DEF Right
  <2>3. CASE f = "config"
    BY <2>3 DEF Right
  <2> QED  BY <2>1, <2>2, <2>3 DEF Kept
<1>3. Loaded(f)' = Loaded(f)
  BY DEF Loaded
<1>4. Held(f)' <=> Held(f)
  <2>1. CASE f = "config"
    BY <2>1 DEF Held
  <2>2. CASE f # "config"
    BY <1>2, <1>3, <2>2 DEF Held, Right, Kept
  <2> QED  BY <2>1, <2>2
<1> QED  BY <1>1, <1>2, <1>4 DEF Known

\* The start of a save of a file that nobody is saving, or it is not trusted.
LEMMA KStart ==
  ASSUME TypeInv, KnownInv, NEW r \in Requests, NEW op \in Ops \ {"reset"},
         NEW pc \in {"open", "snapshot"}, NEW val, Start(r, op, pc, val),
         \A f \in Kept \ {FileOf(op)} :
           IF f = "store" THEN UNCHANGED mem.store
           ELSE IF f = "effects" THEN UNCHANGED mem.effects
           ELSE UNCHANGED said,
         FileOf(op) \in Kept /\ Trusted(FileOf(op))' =>
           /\ ~Busy(FileOf(op)) /\ op # "page"
           /\ \/ pc = "snapshot" /\ op = "store"
              \/ pc = "open" /\ Right(FileOf(op), val)'
  PROVE  \A f \in Kept : Known(f)'
<1> DEFINE v == [pc |-> pc, op |-> op, val |-> val, fd |-> "none"]
           g == FileOf(op)
<1>1. \A s \in Requests : req'[s] = IF s = r THEN v ELSE req[s]
  BY Parts DEF Start, ReqType
<1>2. /\ UNCHANGED <<disk, daemon>> /\ req[r].pc = "idle"
      /\ raced' = (IF Busy(g) THEN raced \cup {g} ELSE raced \ {g})
      /\ failed' = failed \ {g}
  BY DEF Start
<1>3. ASSUME NEW f \in Kept, f # g PROVE Known(f)'
  <2>1. \A s \in Requests : Saving(s, f)' <=> Saving(s, f)
    BY <1>1, <1>2, <1>3 DEF Saving
  <2>2. \A s \in Requests : Saving(s, f) => req'[s] = req[s]
    BY <1>1, <1>2 DEF Saving
  <2>3. IF f = "store" THEN UNCHANGED mem.store
        ELSE IF f = "effects" THEN UNCHANGED mem.effects ELSE UNCHANGED said
    BY <1>3
  <2>4. Trusted(f)' => Trusted(f)
    BY <1>2, <1>3, <2>3 DEF Trusted, Kept
  <2> QED  BY <1>2, <2>1, <2>2, <2>3, <2>4, Untouched
<1>4. ASSUME g \in Kept, Trusted(g)' PROVE Known(g)'
  <2>1. ~Busy(g) /\ op # "page"
        /\ \/ pc = "snapshot" /\ op = "store"
           \/ pc = "open" /\ Right(g, val)'
    BY <1>4
  <2>2. \A s \in Requests : Saving(s, g)' <=> s = r
    BY <1>1, <2>1 DEF Saving, Busy
  <2>3. op = "store" => g = "store"
    BY FileTable
  <2>4. req'[r].pc = pc /\ req'[r].op = op /\ req'[r].val = val
    BY <1>1
  <2> HIDE DEF g
  <2> QED  BY <2>1, <2>2, <2>3, <2>4 DEF Known
<1> QED  BY <1>3, <1>4 DEF Known

\* Every step keeps what is known: one step per action.
LEMMA KNext == TypeInv /\ KnownInv /\ [Next]_vars => KnownInv'
<1> SUFFICES ASSUME TypeInv, KnownInv, [Next]_vars PROVE KnownInv'
  OBVIOUS
<1>0. ReqType /\ DiskType /\ MemType /\ RestType /\ Shapes
  BY Parts
<1>t. /\ Kept \subseteq Names /\ Kept \subseteq Files /\ {"tmp", "profile"} \subseteq Names
      /\ \A f \in Kept : f \notin {"tmp", "profile", "none", "reset"}
  BY DEF Kept, Names, Saved, Files
<1>c. ASSUME NEW r \in Requests, req[r].pc # "idle"
      PROVE  daemon = "up" /\ Shape(r) /\ req[r] \in Locals
  BY <1>0, <1>c DEF Shapes, Idle, ReqType
\* A step that leaves all trust, memory and switch as they are, for the files
\* that its request does not save.
<1>u. ASSUME NEW r \in Requests, NEW f \in Kept, ~Saving(r, f), ~Saving(r, f)',
             UNCHANGED <<disk[f], daemon, raced, mem.store, mem.effects>>,
             f \in failed => f \in failed', f = "config" => UNCHANGED said,
             \A s \in Requests : s # r => req'[s] = req[s]
      PROVE  Known(f)'
  <2>1. \A s \in Requests : /\ Saving(s, f)' <=> Saving(s, f)
                            /\ Saving(s, f) => req'[s] = req[s]
    BY <1>u DEF Saving
  <2>2. Trusted(f)' => Trusted(f)
    BY <1>u DEF Trusted
  <2> QED  BY <1>u, <2>1, <2>2, Untouched DEF Kept
<1>1. CASE UNCHANGED vars
  <2>1. \A f \in Kept : Known(f)'
    BY <1>1, Untouched DEF vars, Trusted, Saving
  <2> QED  BY <1>1, <2>1 DEF KnownInv, vars
<1>2. {"store", "effects", "toggle", "page", "profile"} \subseteq Ops \ {"reset"}
  BY DEF Ops
<1>3. ASSUME NEW r \in Requests, NEW v \in Values, ChangeStore(r, v) PROVE KnownInv'
  <2>1. Start(r, "store", "snapshot", None) /\ UNCHANGED <<said, mem.effects>>
    BY <1>0, <1>3 DEF ChangeStore, MemType
  <2>2. Trusted("store")' => ~Busy("store")
    BY <2>1, FileTable DEF Trusted, Start
  <2>3. \A f \in Kept : Known(f)'
    <3>1. \A f \in Kept \ {FileOf("store")} :
            IF f = "store" THEN UNCHANGED mem.store
            ELSE IF f = "effects" THEN UNCHANGED mem.effects
            ELSE UNCHANGED said
      BY <2>1, FileTable DEF Kept
    <3>2. Trusted(FileOf("store"))' => ~Busy(FileOf("store"))
      BY <2>2, FileTable
    <3> QED  BY <1>2, <2>1, <3>1, <3>2, KStart
  <2>4. "effects" \notin raced'
    BY <2>1, FileTable DEF KnownInv, Start
  <2> QED  BY <2>3, <2>4 DEF KnownInv
<1>4. ASSUME NEW r \in Requests, NEW v \in Values, ChangeEffects(r, v) PROVE KnownInv'
  <2>1. /\ Start(r, "effects", "open", v) /\ UNCHANGED <<said, mem.store>>
        /\ mem'.effects = v /\ ~Busy("effects")
    BY <1>0, <1>4 DEF ChangeEffects, MemType
  <2>2. Right("effects", v)'
    BY <2>1 DEF Right
  <2>3. \A f \in Kept : Known(f)'
    BY <1>2, <2>1, <2>2, KStart, FileTable DEF Kept
  <2>4. "effects" \notin raced'
    BY <2>1, FileTable DEF KnownInv, Start
  <2> QED  BY <2>3, <2>4 DEF KnownInv
<1>5. ASSUME NEW r \in Requests, NEW on \in BOOLEAN, Toggle(r, on) PROVE KnownInv'
  <2>1. PICK c \in Settings : c = [mem.boot EXCEPT !.auto = on]
    BY <1>0 DEF MemType, Settings
  <2>2. c.auto = on
    BY <1>0, <2>1 DEF MemType, Settings
  <2>3. /\ Start(r, "toggle", "open", c) /\ UNCHANGED <<mem.store, mem.effects>>
        /\ said' = IF Busy("config") THEN None ELSE on
    BY <1>0, <1>5, <2>1 DEF Toggle, MemType
  <2>4. Trusted("config")' => ~Busy("config") /\ Right("config", c)'
    <3>1. Trusted("config")' => said' # None
      BY DEF Trusted
    <3>2. said' # None => ~Busy("config") /\ said' = on
      BY <2>3
    <3>3. said' = on => Right("config", c)'
      BY <2>2 DEF Right
    <3> QED  BY <3>1, <3>2, <3>3
  <2>5. \A f \in Kept : Known(f)'
    <3>1. \A f \in Kept \ {FileOf("toggle")} :
            IF f = "store" THEN UNCHANGED mem.store
            ELSE IF f = "effects" THEN UNCHANGED mem.effects
            ELSE UNCHANGED said
      BY <2>3, FileTable DEF Kept
    <3>2. Trusted(FileOf("toggle"))' => ~Busy(FileOf("toggle")) /\ Right(FileOf("toggle"), c)'
      BY <2>4, FileTable
    <3> QED  BY <1>2, <2>3, <3>1, <3>2, KStart
  <2>6. "effects" \notin raced'
    BY <2>3, FileTable DEF KnownInv, Start
  <2> QED  BY <2>5, <2>6 DEF KnownInv
<1>6. ASSUME NEW r \in Requests, NEW zone \in Zones, SavePage(r, zone) PROVE KnownInv'
  <2>1. /\ Start(r, "page", "open", [mem.page EXCEPT !.zone = zone])
        /\ UNCHANGED <<mem.store, mem.effects>> /\ said' = None
    BY <1>6 DEF SavePage
  <2>2. ~Trusted("config")'
    BY <2>1 DEF Trusted
  <2>3. \A f \in Kept : Known(f)'
    BY <1>2, <2>1, <2>2, KStart, FileTable DEF Kept
  <2>4. "effects" \notin raced'
    BY <2>1, FileTable DEF KnownInv, Start
  <2> QED  BY <2>3, <2>4 DEF KnownInv
<1>7. ASSUME NEW r \in Requests, NEW v \in Values, SaveProfile(r, v) PROVE KnownInv'
  <2>1. Start(r, "profile", "open", v) /\ UNCHANGED <<said, mem.store, mem.effects>>
    BY <1>7 DEF SaveProfile
  <2>2. \A f \in Kept : Known(f)'
    BY <1>2, <1>t, <2>1, KStart, FileTable
  <2>3. "effects" \notin raced'
    BY <2>1, FileTable DEF KnownInv, Start
  <2> QED  BY <2>2, <2>3 DEF KnownInv
\* The removals: of a file that is trusted no more.
<1>8. ASSUME NEW r \in Requests, NEW files, NEW pc \in {"idle", "wipeEffects", "wipeProfiles"},
             Remove(r, files, pc), req[r].pc \in {"idle", "wipeEffects", "wipeProfiles"},
             "config" \notin files, files \cap Kept \subseteq failed', failed \subseteq failed',
             UNCHANGED <<daemon, raced, mem, said>>
      PROVE  KnownInv'
  <2>1. /\ \A f \in Names : disk'[f] = IF f \in files THEN Gone ELSE disk[f]
        /\ req'[r].op = "reset"
    BY <1>8 DEF Remove, Idle
  <2>2. \A s \in Requests : s # r =>
          /\ req'[s].pc = req[s].pc /\ req'[s].op = req[s].op /\ req'[s].val = req[s].val
          /\ req'[s].fd = IF req[s].fd \in files THEN "none" ELSE req[s].fd
    BY <1>0, <1>8 DEF Remove, ReqType, Locals
  <2>3. req[r].pc # "idle" => req[r].op = "reset"
    BY <1>0, <1>8 DEF Shapes, Shape
  <2>4. ASSUME NEW f \in Kept PROVE Known(f)'
    <3>1. CASE f \in files
      <4>1. ~Trusted(f)'
        BY <1>8, <3>1 DEF Trusted
      <4> QED  BY <4>1 DEF Known
    <3>2. CASE f \notin files
      <4>1. ~Saving(r, f) /\ ~Saving(r, f)'
        BY <1>t, <2>1, <2>3, FileTable DEF Saving
      <4>2. \A s \in Requests :
              /\ Saving(s, f)' <=> Saving(s, f)
              /\ Saving(s, f) => /\ req'[s].pc = req[s].pc /\ req'[s].op = req[s].op
                                 /\ req'[s].val = req[s].val
                                 /\ req[s].fd = f => req'[s].fd = f
        BY <2>2, <3>2, <4>1 DEF Saving
      <4>3. UNCHANGED <<disk[f], daemon>>
        BY <1>t, <1>8, <2>1, <3>2
      <4>4. Trusted(f)' => Trusted(f)
        BY <1>8 DEF Trusted
      <4> QED  BY <1>8, <4>2, <4>3, <4>4, Untouched DEF Kept
    <3> QED  BY <3>1, <3>2
  <2> QED  BY <1>8, <2>4 DEF KnownInv
<1>9. ASSUME NEW r \in Requests,
             DeleteProfile(r) \/ Reset(r) \/ WipeEffects(r) \/ WipeProfiles(r)
      PROVE  KnownInv'
  <2>1. CASE DeleteProfile(r)
    BY <1>8, <1>t, <2>1 DEF DeleteProfile
  <2>2. CASE Reset(r)
    BY <1>8, <1>t, <2>2 DEF Reset
  <2>3. CASE WipeEffects(r)
    BY <1>8, <1>t, <2>3 DEF WipeEffects
  <2>4. CASE WipeProfiles(r)
    BY <1>8, <1>t, <2>4 DEF WipeProfiles
  <2> QED  BY <1>9, <2>1, <2>2, <2>3, <2>4
<1>10. ASSUME NEW r \in Requests, Snapshot(r) PROVE KnownInv'
  <2>1. /\ req[r].pc = "snapshot" /\ UNCHANGED <<disk, mem, daemon, raced, failed, said>>
        /\ \A s \in Requests : s # r => req'[s] = req[s]
        /\ req'[r].pc = "open" /\ req'[r].val = mem.store /\ req'[r].op = req[r].op
        /\ req'[r].fd = req[r].fd
    BY <1>0, <1>10 DEF Snapshot, ReqType, Locals
  <2>2. req[r].op = "store"
    BY <1>c, <2>1 DEF Shape
  <2>3. ASSUME NEW f \in Kept, f # "store" PROVE Known(f)'
    <3>1. ~Saving(r, f) /\ ~Saving(r, f)'
      BY <2>1, <2>2, <2>3, FileTable DEF Saving
    <3> QED  BY <1>u, <2>1, <3>1
  <2>4. Known("store")'
    <3>1. Known("store")
      BY DEF KnownInv, Kept
    <3>2. \A s \in Requests : Saving(s, "store")' <=> Saving(s, "store")
      BY <2>1 DEF Saving
    <3>3. Trusted("store")' <=> Trusted("store")
      BY <2>1 DEF Trusted
    <3>4. Right("store", req[r].val)'
      BY <2>1 DEF Right
    <3>5. \A v : Right("store", v)' <=> Right("store", v)
      BY <2>1 DEF Right
    <3>6. Saving(r, "store")
      BY <2>1, <2>2, FileTable DEF Saving
    <3> QED  BY <2>1, <2>2, <3>1, <3>2, <3>3, <3>4, <3>5, <3>6 DEF Known
  <2> QED  BY <2>1, <2>3, <2>4 DEF KnownInv
<1>11. ASSUME NEW r \in Requests, OpenFile(r) PROVE KnownInv'
  <2>0. PICK g : g = FileOf(req[r].op)
    OBVIOUS
  <2>1. /\ req[r].pc = "open" /\ UNCHANGED <<mem, daemon, raced, failed, said>>
        /\ disk' = [disk EXCEPT ![g] = Empty]
        /\ \A s \in Requests : s # r => req'[s] = req[s]
        /\ req'[r].pc = "write" /\ req'[r].val = req[r].val /\ req'[r].op = req[r].op
        /\ req'[r].fd = g
    BY <1>0, <1>11, <2>0 DEF OpenFile, ReqType, Locals
  <2>2. \A f \in Names : disk'[f] = IF f = g THEN Empty ELSE disk[f]
    BY <1>0, <2>1 DEF DiskType
  <2>3. ASSUME NEW f \in Kept, f # g PROVE Known(f)'
    <3>1. ~Saving(r, f) /\ ~Saving(r, f)'
      BY <2>0, <2>1, <2>3 DEF Saving
    <3>2. UNCHANGED disk[f]
      BY <1>t, <2>2, <2>3
    <3> QED  BY <1>u, <2>1, <3>1, <3>2
  <2>4. ASSUME NEW f \in Kept, f = g PROVE Known(f)'
    <3>1. Known(f) /\ (Trusted(f)' <=> Trusted(f))
      BY <2>1 DEF KnownInv, Trusted
    <3>2. FileOf(req[r].op) = f
      BY <2>0, <2>4
    <3>3. \A s \in Requests : Saving(s, f)' <=> Saving(s, f)
      BY <2>1, <3>2 DEF Saving
    <3>4. Saving(r, f)
      BY <2>1, <3>2 DEF Saving
    <3>5. disk'[f] = Empty
      BY <1>t, <2>2, <2>4
    <3>6. \A v : Right(f, v)' <=> Right(f, v)
      BY <2>1 DEF Right
    <3>7. ASSUME Trusted(f), NEW s \in Requests, Saving(s, f)
          PROVE  s = r
      BY <3>1, <3>4, <3>7 DEF Known
    <3>8. ASSUME Trusted(f)
          PROVE  Right(f, req[r].val)' /\ req'[r].op # "page" /\ req'[r].fd = f
      <4>1. Right(f, req[r].val) /\ req[r].op # "page"
        BY <2>1, <3>1, <3>4, <3>8 DEF Known
      <4>2. req'[r].val = req[r].val /\ req'[r].op = req[r].op /\ req'[r].fd = f
        BY <2>1, <2>4
      <4>3. Right(f, req[r].val)' <=> Right(f, req[r].val)
        BY <4>2, <2>1 DEF Right
      <4> QED  BY <4>1, <4>2, <4>3
    <3>9. Known(f)'
      BY <2>1, <3>1, <3>3, <3>4, <3>5, <3>7, <3>8 DEF Known
    <3> QED  BY <3>9
  <2> QED  BY <2>1, <2>3, <2>4 DEF KnownInv
\* The end of the only save of a trusted file, and of any other.
<1>12. ASSUME NEW r \in Requests, WriteBytes(r) PROVE KnownInv'
  <2> DEFINE g == FileOf(req[r].op)
  <2>1. /\ req[r].pc = "write" /\ UNCHANGED <<mem, daemon, raced, failed, said>>
        /\ \A f \in Names : disk'[f] = IF f = req[r].fd THEN WrittenOver(disk[f], req[r].val)
                                       ELSE disk[f]
        /\ \A s \in Requests : s # r => req'[s] = req[s]
        /\ req'[r].pc # "idle" => req'[r].op = req[r].op /\ req[r].op \in {"page", "profile"}
    BY <1>0, <1>12 DEF WriteBytes, Goto, Finish, Idle, ReqType, Locals
  <2>2. req[r].val \in Kind(g) /\ daemon = "up"
    BY <1>c, <2>1 DEF Shape
  <2> HIDE DEF g
  <2>3. ASSUME NEW f \in Kept, f # g PROVE Known(f)'
    <3>1. ~Saving(r, f)
      BY <2>3 DEF Saving, g
    <3>2. ~Saving(r, f)'
      BY <2>1, <2>3 DEF Saving, g
    <3>3. req[r].fd # f
      BY <1>t, <3>1, WriterSaves
    <3>4. UNCHANGED disk[f]
      BY <1>t, <2>1, <3>3
    <3> QED  BY <1>u, <2>1, <3>1, <3>2, <3>4
  <2>4. ASSUME NEW f \in Kept, f = g PROVE Known(f)'
    <3>1. Known(f) /\ (Trusted(f)' <=> Trusted(f))
      BY <2>1 DEF KnownInv, Trusted
    <3>2. Saving(r, f)
      BY <2>1, <2>4 DEF Saving, g
    <3> SUFFICES ASSUME Trusted(f) PROVE Known(f)'
      BY <3>1 DEF Known
    <3>3. Right(f, req[r].val) /\ req[r].op # "page" /\ req[r].fd = f /\ disk[f] = Empty
      BY <2>1, <3>1, <3>2 DEF Known
    <3>4. req'[r].pc = "idle"
      BY <1>t, <2>1, <2>4, <3>3, FileTable DEF g
    <3>5. \A s \in Requests : ~Saving(s, f)'
      <4>1. \A s \in Requests : s # r => ~Saving(s, f)
        BY <3>1, <3>2 DEF Known
      <4> QED  BY <2>1, <3>4, <4>1 DEF Saving
    <3>6. disk'[f] = Whole(req[r].val)
      <4>1. Size[req[r].val] \in Nat
        BY <2>2, FilesAssumption DEF Kind
      <4>2. ~(0 > Size[req[r].val])
        BY <4>1
      <4>3. disk'[f] = WrittenOver(Empty, req[r].val)
        BY <1>t, <2>1, <3>3
      <4> QED  BY <4>2, <4>3 DEF WrittenOver, Empty
    <3>7. disk'[f].val = req[r].val /\ req[r].val # None
      BY <2>2, <3>6, FilesAssumption DEF Whole, Kind
    <3>8. Held(f)'
      <4>1. Loaded(f)' = req[r].val
        BY <3>7 DEF Loaded
      <4>2. CASE f = "config"
        BY <2>1, <3>3, <3>7, <4>2, RightTable DEF Held
      <4>3. CASE f = "store"
        <5>1. Right("store", Loaded("store"))'
          BY <2>1, <3>3, <4>1, <4>3, RightTable DEF Right
        <5> QED  BY <4>3, <5>1 DEF Held
      <4>4. CASE f = "effects"
        <5>1. Right("effects", Loaded("effects"))'
          BY <2>1, <3>3, <4>1, <4>4, RightTable DEF Right
        <5> QED  BY <4>4, <5>1 DEF Held
      <4> QED  BY <4>2, <4>3, <4>4 DEF Kept
    <3> QED  BY <3>5, <3>8 DEF Known
  <2> QED  BY <2>1, <2>3, <2>4 DEF KnownInv
<1>13. ASSUME NEW r \in Requests, SaveFail(r) PROVE KnownInv'
  <2>0. PICK g : g = FileOf(req[r].op)
    OBVIOUS
  <2>1. /\ UNCHANGED <<disk, mem, daemon, raced>> /\ failed' = failed \cup {g}
        /\ said' = IF g = "config" THEN None ELSE said
        /\ \A s \in Requests : s # r => req'[s] = req[s]
        /\ req'[r].pc = "idle"
    BY <1>0, <1>13, <2>0 DEF SaveFail, Finish, Idle, ReqType
  <2>2. ASSUME NEW f \in Kept, f # g PROVE Known(f)'
    <3>1. ~Saving(r, f) /\ ~Saving(r, f)'
      BY <2>0, <2>1, <2>2 DEF Saving
    <3> QED  BY <1>u, <2>1, <2>2, <3>1
  <2>3. ~Trusted(g)'
    BY <2>1 DEF Trusted
  <2> QED  BY <2>1, <2>2, <2>3 DEF KnownInv, Known
<1>14. ASSUME NEW r \in Requests, Assign(r) PROVE KnownInv'
  <2>1. /\ req[r].pc = "assign" /\ UNCHANGED <<disk, daemon, raced, failed, said>>
        /\ UNCHANGED <<mem.store, mem.effects>>
        /\ \A s \in Requests : s # r => req'[s] = req[s]
        /\ req'[r].pc = "idle"
    BY <1>0, <1>14 DEF Assign, Finish, Idle, ReqType, MemType
  <2>2. req[r].op = "page" /\ Saving(r, "config")
    BY <1>c, <2>1, FileTable DEF Shape, Saving
  <2>3. ~Trusted("config")'
    <3>1. Trusted("config")' <=> Trusted("config")
      BY <2>1 DEF Trusted
    <3> QED  BY <2>2, <3>1 DEF KnownInv, Known, Kept
  <2>4. ASSUME NEW f \in Kept, f # "config" PROVE Known(f)'
    <3>1. ~Saving(r, f) /\ ~Saving(r, f)'
      BY <2>1, <2>2, <2>4, FileTable DEF Saving
    <3> QED  BY <1>u, <2>1, <3>1
  <2> QED  BY <2>1, <2>3, <2>4 DEF KnownInv, Known
<1>15. ASSUME NEW r \in Requests, Rename(r) PROVE KnownInv'
  <2>1. /\ req[r].pc = "rename" /\ UNCHANGED <<mem, daemon, raced, failed, said>>
    BY <1>15 DEF Rename
  <2>2. FileOf(req[r].op) = "tmp"
    BY <1>c, <2>1, FileTable DEF Shape
  <2>3. \A f \in Names \ {"tmp", "profile"} : disk'[f] = disk[f]
    BY <1>0, <1>15 DEF Rename, DiskType
  <2>4. /\ req'[r].pc = "idle"
        /\ \A s \in Requests : s # r =>
             /\ req'[s].pc = req[s].pc /\ req'[s].op = req[s].op /\ req'[s].val = req[s].val
             /\ req[s].fd \notin {"tmp", "profile"} => req'[s].fd = req[s].fd
    BY <1>0, <1>15 DEF Rename, Finish, Idle, ReqType, Locals
  <2>5. ASSUME NEW f \in Kept PROVE Known(f)'
    <3>1. ~Saving(r, f) /\ ~Saving(r, f)'
      BY <1>t, <2>2, <2>4 DEF Saving
    <3>2. \A s \in Requests :
            /\ Saving(s, f)' <=> Saving(s, f)
            /\ Saving(s, f) => /\ req'[s].pc = req[s].pc /\ req'[s].op = req[s].op
                               /\ req'[s].val = req[s].val
                               /\ req[s].fd = f => req'[s].fd = f
      BY <1>t, <2>4, <3>1 DEF Saving
    <3>3. UNCHANGED <<disk[f], daemon>>
      BY <1>t, <2>1, <2>3
    <3>4. Trusted(f)' => Trusted(f)
      BY <2>1 DEF Trusted
    <3> QED  BY <2>1, <3>2, <3>3, <3>4, Untouched
  <2> QED  BY <2>1, <2>5 DEF KnownInv
<1>16. CASE Stop
  <2>1. /\ \A s \in Requests : req'[s].pc = "idle"
        /\ daemon' = "down" /\ UNCHANGED <<disk, raced>>
        /\ said' = IF Busy("config") THEN None ELSE said
    BY <1>16 DEF Stop, Idle
  <2>2. Known("store")' /\ Known("effects")'
    BY <2>1 DEF Known, Saving, Live
  <2>3. Known("config")'
    <3> SUFFICES ASSUME Trusted("config")' PROVE Held("config")'
      BY <2>1 DEF Known, Saving
    <3>1. said' = said /\ ~Busy("config") /\ Trusted("config")
      BY <2>1 DEF Trusted
    <3>2. Held("config")
      BY <3>1 DEF KnownInv, Kept, Known, Saving, Busy
    <3> QED  BY <2>1, <3>1, <3>2 DEF Held
  <2> QED  BY <2>1, <2>2, <2>3 DEF KnownInv, Kept
<1>17. CASE Boot
  <2>1. /\ UNCHANGED <<disk, req, said>> /\ daemon = "down"
        /\ \A r \in Requests : req[r].pc = "idle"
    BY <1>0, <1>17 DEF Boot, Shapes, Idle
  <2>2. Known("config")'
    <3>1. Trusted("config")' => Held("config")
      BY <2>1 DEF Trusted, KnownInv, Kept, Known, Saving
    <3>2. Held("config")' <=> Held("config")
      BY <2>1 DEF Held
    <3> QED  BY <2>1, <3>1, <3>2 DEF Known, Saving
  <2>3. CASE Refused # {}
    <3>1. daemon' = "stuck" /\ UNCHANGED raced
      BY <1>17, <2>3 DEF Boot
    <3>2. Known("store")' /\ Known("effects")'
      BY <2>1, <3>1 DEF Known, Saving, Live
    <3> QED  BY <2>2, <3>1, <3>2 DEF KnownInv, Kept
  <2>4. CASE Refused = {}
    <3>1. /\ raced' = {} /\ mem'.store = Loaded("store") /\ mem'.effects = Loaded("effects")
      BY <1>17, <2>4 DEF Boot
    <3>2. Loaded("store")' = Loaded("store") /\ Loaded("effects")' = Loaded("effects")
      BY <2>1 DEF Loaded
    <3>3. Held("store")' /\ Held("effects")'
      BY <3>1, <3>2 DEF Held, Right
    <3>4. Known("store")' /\ Known("effects")'
      BY <2>1, <3>3 DEF Known, Saving
    <3> QED  BY <2>2, <3>1, <3>4 DEF KnownInv, Kept
  <2> QED  BY <2>3, <2>4
\* The migration leaves the memory and the other files as they are.
<1>18. CASE MigrateOpen \/ MigrateWrite \/ MigrateFail
  <2>1. UNCHANGED <<req, mem, raced, failed, said>> /\ daemon \in Live
    BY <1>18 DEF MigrateOpen, MigrateWrite, MigrateFail, Live
  <2>2. \A f \in Kept : UNCHANGED disk[f]
    BY <1>0, <1>18, <1>t DEF MigrateOpen, MigrateWrite, MigrateFail, DiskType
  <2>3. ASSUME NEW f \in Kept PROVE Known(f)'
    <3>1. \A r \in Requests : Saving(r, f)' <=> Saving(r, f)
      BY <2>1 DEF Saving
    <3>2. Trusted(f)' => Trusted(f)
      BY <2>1 DEF Trusted
    <3> QED  BY <2>1, <2>2, <3>1, <3>2, Untouched
  <2> QED  BY <2>1, <2>3 DEF KnownInv
<1> QED  BY <1>1, <1>3, <1>4, <1>5, <1>6, <1>7, <1>9, <1>10, <1>11, <1>12, <1>13, <1>14,
            <1>15, <1>16, <1>17, <1>18 DEF Next, Step

\* A save of the store that was alone leaves in the file what a start would
\* make the memory again, although saveStore writes outside the mutex.
THEOREM StoreIsSavedCorrect == Spec => []StoreIsSaved
<1>1. KnownInv => StoreIsSaved
  BY RightTable DEF KnownInv, Kept, Known, Trusted, Held, Saving, Busy, Live, StoreIsSaved
<1> QED  BY <1>1, TInit, TNext, KInit, KNext, PTL DEF Spec

\* Whenever the mutex of the effects is free the file is the memory, for any
\* number of handlers, whatever the other requests do (EffectsStore.save).
THEOREM EffectsAreSavedCorrect == Spec => []EffectsAreSaved
<1>1. KnownInv => EffectsAreSaved
  BY RightTable DEF KnownInv, Kept, Known, Trusted, Held, Saving, Busy, Live, EffectsAreSaved
<1> QED  BY <1>1, TInit, TNext, KInit, KNext, PTL DEF Spec

\* The update switch's last position is in the file, over stops and starts,
\* until the settings page saves its own copy.
THEOREM SwitchSurvivesCorrect == Spec => []SwitchSurvives
<1>1. KnownInv => SwitchSurvives
  BY DEF KnownInv, Kept, Known, Trusted, Held, Saving, Busy, Live, SwitchSurvives
<1> QED  BY <1>1, TInit, TNext, KInit, KNext, PTL DEF Spec
=============================================================================
