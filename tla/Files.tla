-------------------------------- MODULE Files --------------------------------
(***************************************************************************)
(* The files of the data directory and the requests that write them:       *)
(* store.json (internal/httpapi), effects.json (internal/piapi),           *)
(* config.json (the settings page and the update switch), a saved profile  *)
(* (internal/profiles), the factory reset, and what a start of the daemon  *)
(* makes of what it finds: it also copies a profile that is still in the   *)
(* store into the directory of profiles.                                   *)
(*                                                                         *)
(* All but a saved profile are written with os.WriteFile on the file       *)
(* itself: it is opened, which truncates it, and written from its          *)
(* beginning.  Two saves at once write over each other.                    *)
(***************************************************************************)
EXTENDS Naturals, FiniteSets

CONSTANTS
    Requests,    \* goroutines of requests
    Values,      \* what a store, the effects and a profile can be
    Default,     \* what a fresh store or fresh effects are
    Zones,       \* the settings page's part of the configuration
    Size,        \* length of what is written
    Legacy,      \* the profile in a store (it comes with a restored backup)
    None,
    MaxRequests, MaxFaults, MaxStops \* bounds

Settings == [zone : Zones, auto : BOOLEAN]

ASSUME FilesAssumption ==
    /\ Default \in Values /\ Zones # {}
    /\ Size \in [Values \cup Settings -> Nat \ {0}]
    /\ Legacy \in [Values -> Values \cup {None}]
    /\ None \notin Requests \cup Values \cup Settings \cup Nat
    /\ MaxRequests \in Nat /\ MaxFaults \in Nat /\ MaxStops \in Nat

Saved == {"store", "effects", "config"}
Needed == {"store", "config"} \* what the daemon does not start without, when torn
Names == Saved \cup {"tmp", "profile"}
Ops   == {"store", "effects", "toggle", "page", "profile", "reset"}

(* A file is a whole value, something else of some length, or not there.    *)
Whole(v) == [val |-> v, size |-> Size[v]]
Empty    == [val |-> None, size |-> 0]
Gone     == [val |-> None, size |-> None]

(* Writing v from the beginning of a file: a longer one keeps its tail.     *)
WrittenOver(file, v) ==
    IF file.size > Size[v] THEN [val |-> None, size |-> file.size] ELSE Whole(v)

VARIABLES
    disk,   \* the files
    mem,    \* what the daemon has in memory: store, effects, and of the
            \* configuration the start-up copy, the page's copy, the switch
    req,    \* control point and locals of the requests
    daemon, \* "up", "down", "stuck": it does not start, or before it serves
            \* anything "starting" and "migrating" a profile
    raced,  \* history: files whose last save to start was not alone
    failed, \* history: files removed, or whose save failed, since one started
    harmed, \* history: needed files a save of which was raced, failed or cut
            \* off, and none was made alone since
    origin, \* history: what put the profile there, a save that was "alone" or
            \* "shared" its temporary file, or a migration: "opened", "copied"
    said,   \* history: the switch's position that nothing has replaced
    requests, faults, stops

vars == <<disk, mem, req, daemon, raced, failed, harmed, origin, said,
          requests, faults, stops>>
counters == <<requests, faults, stops>>

Idle == [pc |-> "idle", op |-> "store", val |-> None, fd |-> "none"]

(* Mutant: a profile is written in place. *)
FileInPlace(op) == CASE op \in {"toggle", "page"} -> "config" [] OTHER -> op

(* The file an operation opens; a profile is renamed afterwards. *)
FileOf(op) == CASE op \in {"toggle", "page"} -> "config"
                [] op = "profile" -> "tmp"
                [] OTHER -> op

Busy(file) == \E r \in Requests : req[r].pc # "idle" /\ FileOf(req[r].op) = file

Init ==
    /\ \E c \in Settings :
         /\ disk = [f \in Names |-> IF f = "config" THEN Whole(c) ELSE Gone]
         /\ mem = [store |-> Default, effects |-> Default,
                   boot |-> c, page |-> c, auto |-> c.auto]
    /\ req = [r \in Requests |-> Idle]
    /\ daemon = "up"
    /\ raced = {} /\ failed = {} /\ harmed = {} /\ said = None
    /\ origin = "alone"
    /\ requests = 0 /\ faults = 0 /\ stops = 0

-----------------------------------------------------------------------------
(* Requests                                                                  *)

Goto(r, pc) == req' = [req EXCEPT ![r].pc = pc]
Finish(r)   == req' = [req EXCEPT ![r] = Idle]

(* A request that saves starts: it is alone with its file or it is not.      *)
Start(r, op, pc, val) ==
    /\ daemon = "up" /\ req[r].pc = "idle" /\ requests < MaxRequests
    /\ requests' = requests + 1
    /\ req' = [req EXCEPT ![r] = [pc |-> pc, op |-> op, val |-> val, fd |-> "none"]]
    /\ LET f == FileOf(op)
       IN /\ raced' = IF Busy(f) THEN raced \cup {f} ELSE raced \ {f}
          /\ failed' = failed \ {f}
          /\ harmed' = IF Busy(f) THEN harmed \cup ({f} \cap Needed) ELSE harmed
    /\ UNCHANGED <<disk, daemon, origin, faults, stops>>

(* Mutant: the save comes before the change. *)
ChangeStoreLate(r, v) ==
    /\ Start(r, "store", "open", mem.store)
    /\ mem' = [mem EXCEPT !.store = v]
    /\ UNCHANGED said

(* Any handler that changes the state: under the mutex, then saveStore.      *)
ChangeStore(r, v) ==
    /\ Start(r, "store", "snapshot", None)
    /\ mem' = [mem EXCEPT !.store = v]
    /\ UNCHANGED said

Snapshot(r) ==
    /\ req[r].pc = "snapshot"
    /\ req' = [req EXCEPT ![r].pc = "open", ![r].val = mem.store]
    /\ UNCHANGED <<disk, mem, daemon, raced, failed, harmed, said, origin, counters>>

(* Mutant: the mutex of the effects is not held while they are saved. *)
ChangeEffectsUnlocked(r, v) ==
    /\ Start(r, "effects", "open", v)
    /\ mem' = [mem EXCEPT !.effects = v]
    /\ UNCHANGED said

(* A handler of the effects changes and saves them under one lock.           *)
ChangeEffects(r, v) ==
    /\ ~Busy("effects")
    /\ Start(r, "effects", "open", v)
    /\ mem' = [mem EXCEPT !.effects = v]
    /\ UNCHANGED said

(* Mutant: the switch saves the copy it was given. *)
ToggleOldCopy(r, on) ==
    /\ Start(r, "toggle", "open", mem.boot)
    /\ mem' = [mem EXCEPT !.auto = on]
    /\ said' = IF Busy("config") THEN None ELSE on

(* The update switch saves the start-up copy with its own position.          *)
Toggle(r, on) ==
    /\ Start(r, "toggle", "open", [mem.boot EXCEPT !.auto = on])
    /\ mem' = [mem EXCEPT !.auto = on]
    /\ said' = IF Busy("config") THEN None ELSE on

(* The settings page saves its own copy, with the start-up switch in it.     *)
SavePage(r, zone) ==
    /\ Start(r, "page", "open", [mem.page EXCEPT !.zone = zone])
    /\ said' = None
    /\ UNCHANGED mem

SaveProfile(r, v) ==
    /\ Start(r, "profile", "open", v)
    /\ UNCHANGED <<mem, said>>

(* os.Remove, os.RemoveAll: who has a file open writes to one without name.  *)
Remove(r, files, pc) ==
    /\ disk' = [f \in Names |-> IF f \in files THEN Gone ELSE disk[f]]
    /\ req' = [s \in Requests |->
                 IF s = r THEN [Idle EXCEPT !.pc = pc, !.op = "reset"]
                 ELSE IF req[s].fd \in files THEN [req[s] EXCEPT !.fd = "none"]
                 ELSE req[s]]

DeleteProfile(r) ==
    /\ daemon = "up" /\ req[r].pc = "idle" /\ requests < MaxRequests
    /\ Remove(r, {"profile"}, "idle")
    /\ requests' = requests + 1
    /\ UNCHANGED <<mem, daemon, raced, failed, harmed, said, origin, faults, stops>>

(* The factory reset removes one after the other and asks for a restart;     *)
(* until that comes the daemon goes on with what it has in memory.           *)
Reset(r) ==
    /\ daemon = "up" /\ req[r].pc = "idle" /\ requests < MaxRequests
    /\ Remove(r, {"store"}, "wipeEffects")
    /\ failed' = failed \cup {"store"}
    /\ requests' = requests + 1
    /\ UNCHANGED <<mem, daemon, raced, harmed, said, origin, faults, stops>>

WipeEffects(r) ==
    /\ req[r].pc = "wipeEffects"
    /\ Remove(r, {"effects"}, "wipeProfiles")
    /\ failed' = failed \cup {"effects"}
    /\ UNCHANGED <<mem, daemon, raced, harmed, said, origin, counters>>

WipeProfiles(r) ==
    /\ req[r].pc = "wipeProfiles"
    /\ Remove(r, {"tmp", "profile"}, "idle")
    /\ UNCHANGED <<mem, daemon, raced, failed, harmed, origin, said, counters>>

(* os.WriteFile opens and truncates, ...                                     *)
OpenFile(r) ==
    /\ req[r].pc = "open"
    /\ LET f == FileOf(req[r].op)
       IN /\ disk' = [disk EXCEPT ![f] = Empty]
          /\ req' = [req EXCEPT ![r].pc = "write", ![r].fd = f]
    /\ UNCHANGED <<mem, daemon, raced, failed, harmed, said, origin, counters>>

(* ... and writes.                                                           *)
WriteBytes(r) ==
    /\ req[r].pc = "write"
    /\ disk' = [f \in Names |-> IF f = req[r].fd THEN WrittenOver(disk[f], req[r].val)
                                                ELSE disk[f]]
    /\ CASE req[r].op = "page" -> Goto(r, "assign")
         [] req[r].op = "profile" -> Goto(r, "rename")
         [] OTHER -> Finish(r)
    /\ harmed' = harmed \ ({FileOf(req[r].op)} \ raced)
    /\ UNCHANGED <<mem, daemon, raced, failed, said, origin, counters>>

(* The disk is full, or read-only: the file may be truncated already, and a  *)
(* profile's temporary file stays behind.                                    *)
SaveFail(r) ==
    /\ req[r].pc \in {"open", "write", "rename"} /\ faults < MaxFaults
    /\ faults' = faults + 1
    /\ Finish(r)
    /\ LET f == FileOf(req[r].op)
       IN /\ failed' = failed \cup {f}
          /\ harmed' = harmed \cup ({f} \cap Needed)
          /\ said' = IF f = "config" THEN None ELSE said
    /\ UNCHANGED <<disk, mem, daemon, raced, origin, requests, stops>>

(* The page keeps what it has saved. *)
Assign(r) ==
    /\ req[r].pc = "assign"
    /\ mem' = [mem EXCEPT !.page = req[r].val]
    /\ Finish(r)
    /\ UNCHANGED <<disk, daemon, raced, failed, harmed, said, origin, counters>>

(* os.Rename: who has the temporary file open has the profile open now.      *)
Rename(r) ==
    /\ req[r].pc = "rename"
    /\ IF disk["tmp"] = Gone THEN Finish(r) /\ UNCHANGED <<disk, origin>>
       ELSE /\ origin' = IF "tmp" \in raced THEN "shared" ELSE "alone"
            /\ disk' = [disk EXCEPT !["profile"] = disk["tmp"], !["tmp"] = Gone]
            /\ req' = [s \in Requests |->
                         IF s = r THEN Idle
                         ELSE IF req[s].fd = "tmp" THEN [req[s] EXCEPT !.fd = "profile"]
                         ELSE IF req[s].fd = "profile" THEN [req[s] EXCEPT !.fd = "none"]
                         ELSE req[s]]
    /\ UNCHANGED <<mem, daemon, raced, failed, harmed, said, counters>>

-----------------------------------------------------------------------------
(* The daemon stops, in the middle of anything, and starts.                  *)

Stop ==
    /\ daemon \in {"up", "starting", "migrating"} /\ stops < MaxStops
    /\ daemon' = "down" /\ stops' = stops + 1
    /\ req' = [r \in Requests |-> Idle]
    /\ harmed' = harmed \cup
         (Needed \cap {FileOf(req[r].op) : r \in {x \in Requests : req[x].pc = "write"}})
    /\ said' = IF Busy("config") THEN None ELSE said
    /\ UNCHANGED <<disk, mem, raced, failed, origin, requests, faults>>

(* Mutant: effects that cannot be read are taken for a value. *)
LoadedAsIs(f) == IF disk[f].val = None /\ f = "store" THEN Default ELSE disk[f].val

(* loadStore refuses what is not a store, NewEffectsStore takes the defaults *)
(* instead.                                                                  *)
Loaded(f) == IF disk[f].val = None THEN Default ELSE disk[f].val

(* Mutant: a store that is not there is an error. *)
RefusedWithout == {f \in Needed : disk[f].val = None}

Refused == {f \in Needed : disk[f].val = None /\ disk[f] # Gone}

(* "Already populated": a file of that profile is there, of whatever kind.    *)
Migrates(store) ==
    Legacy[store] # None /\ disk["profile"] = Gone /\ disk["tmp"] = Gone

Boot ==
    /\ daemon = "down"
    /\ IF Refused # {} THEN daemon' = "stuck" /\ UNCHANGED <<mem, raced, failed>>
       ELSE LET c == disk["config"].val
            IN /\ daemon' = IF Migrates(Loaded("store")) THEN "starting" ELSE "up"
               /\ mem' = [store |-> Loaded("store"), effects |-> Loaded("effects"),
                          boot |-> c, page |-> c, auto |-> c.auto]
               /\ raced' = {} /\ failed' = {}
    /\ UNCHANGED <<disk, req, harmed, said, origin, counters>>

(* Migrate writes the profile itself, before the daemon serves requests, ... *)
MigrateOpen ==
    /\ daemon = "starting" /\ daemon' = "migrating"
    /\ disk' = [disk EXCEPT !["profile"] = Empty]
    /\ origin' = "opened"
    /\ UNCHANGED <<mem, req, raced, failed, harmed, said, counters>>

MigrateWrite ==
    /\ daemon = "migrating" /\ daemon' = "up"
    /\ disk' = [disk EXCEPT !["profile"] = Whole(Legacy[mem.store])]
    /\ origin' = "copied"
    /\ UNCHANGED <<mem, req, raced, failed, harmed, said, counters>>

(* ... and ignores every error.                                              *)
MigrateFail ==
    /\ daemon \in {"starting", "migrating"} /\ faults < MaxFaults
    /\ daemon' = "up" /\ faults' = faults + 1
    /\ UNCHANGED <<disk, mem, req, raced, failed, harmed, said, origin, requests, stops>>

-----------------------------------------------------------------------------

Step(r) ==
    \/ Snapshot(r) \/ OpenFile(r) \/ WriteBytes(r) \/ SaveFail(r) \/ Assign(r)
    \/ Rename(r) \/ WipeEffects(r) \/ WipeProfiles(r)

Next ==
    \/ \E r \in Requests :
         \/ \E v \in Values : ChangeStore(r, v) \/ ChangeEffects(r, v) \/ SaveProfile(r, v)
         \/ \E on \in BOOLEAN : Toggle(r, on)
         \/ \E zone \in Zones : SavePage(r, zone)
         \/ DeleteProfile(r) \/ Reset(r)
         \/ Step(r)
    \/ Stop \/ Boot \/ MigrateOpen \/ MigrateWrite \/ MigrateFail

Spec == Init /\ [][Next]_vars

-----------------------------------------------------------------------------
(* Properties                                                                *)

Contents(values) == [val : values \cup {None}, size : Nat \cup {None}]
Kind(file) == IF file = "config" THEN Settings ELSE Values
Points == {"idle", "snapshot", "open", "write", "assign", "rename",
           "wipeEffects", "wipeProfiles"}

TypeOK ==
    /\ disk \in [Names -> Contents(Values \cup Settings)]
    /\ \A f \in Names : disk[f].val \in Kind(f) \cup {None}
    /\ mem \in [store : Values, effects : Values, boot : Settings, page : Settings,
                auto : BOOLEAN]
    /\ req \in [Requests -> [pc : Points, op : Ops,
                             val : Values \cup Settings \cup {None},
                             fd : Names \cup {"none"}]]
    /\ daemon \in {"up", "down", "stuck", "starting", "migrating"}
    /\ {raced, failed} \subseteq SUBSET Names /\ harmed \subseteq Needed
    /\ origin \in {"alone", "shared", "opened", "copied"}
    /\ said \in BOOLEAN \cup {None}
    /\ requests \in Nat /\ faults \in Nat /\ stops \in Nat

(* saveStore runs outside the mutex, but a save that was alone leaves in the *)
(* file what a start would make the memory again; so does one after a race.  *)
StoreIsSaved ==
    daemon = "up" /\ ~Busy("store") /\ "store" \notin raced \cup failed
        => Loaded("store") = mem.store

(* The effects need no such condition: whenever their mutex is free, the     *)
(* file is the memory, however many handlers there were (EffectsStore.save). *)
EffectsAreSaved ==
    daemon = "up" /\ ~Busy("effects") /\ "effects" \notin failed
        => Loaded("effects") = mem.effects

(* The daemon can always be started again, unless the last saves of the      *)
(* store or of the configuration were raced, cut off or failed: after a      *)
(* factory reset, at any point of it, and with torn effects too (New,        *)
(* loadStore, config.Load).                                                  *)
StartsAgain == daemon = "stuck" => harmed # {}

(* A listed profile is a whole one, also when a save of it fails or the      *)
(* daemon stops in the middle: unless the save that put it there shared the  *)
(* temporary file with another (Store.save), or it comes from a migration    *)
(* that was not finished (Migrate writes in place).                          *)
ProfileIsWhole ==
    disk["profile"] # Gone /\ disk["profile"].val = None => origin \in {"shared", "opened"}

(* "Persists to config.json so it survives restarts" (main.go): as long as   *)
(* the settings page does not save its own copy.                             *)
SwitchSurvives ==
    daemon = "up" /\ ~Busy("config") /\ said # None
        => disk["config"].val.auto = said

=============================================================================
