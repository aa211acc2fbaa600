------------------------------ MODULE Schedule ------------------------------
(***************************************************************************)
(* What light a schedule and the effects make: the pure computation of     *)
(* internal/engine/model.go, the fold of the effects into pushed rows      *)
(* (piapi.prebakePush, httpapi.bakePCBridgeEffects), the rotation of       *)
(* piweb, and the normalisation every stored setting goes through.         *)
(*                                                                         *)
(* A day has Slots hours of HourLen minutes (24 and 60 in the code); times *)
(* are minutes since some midnight.  Handlers run one after the other      *)
(* here: LampBridge has their interleavings, and the lamp.                 *)
(***************************************************************************)
EXTENDS Integers

CONSTANTS
    Slots, HourLen,
    Channels, Royal, Cyan,  \* the six channels; the two that show the moon
    MaxDay,                 \* bound on the days
    Sun,         \* day -> cosine of its place in the year, per mille
    Moon,        \* day -> lit part of the moon, per mille
    MoonShift,   \* day -> minutes the moon is off its full-moon times
    ShortSiesta, LongSiesta, MaxSeason, \* 15, 480, 180 minutes in the code
    DefaultSiesta, DefaultMoon, \* length and intensity of a setting left at 0
    Masters, Siestas, Lunars, Acclimations, Seasons, Rows, \* request bodies
    Backups,     \* the stores a backup may bring
    LampRows,    \* rows the lamp may have, from another application
    None,
    MaxChanges   \* bound on the requests and restarts

DayLen  == Slots * HourLen
Hours   == 0..Slots - 1
Minutes == 0..DayLen - 1
Days    == 0..MaxDay
Light   == 0..100
Table   == [Hours -> [Channels -> Light]]
LampTable == [Hours -> [Channels -> 0..255]]  \* bytes of a lamp's answer

LunarBodies == [on : BOOLEAN, start : Minutes, end : Minutes,
                nightStart : Minutes, nightEnd : Minutes, track : BOOLEAN,
                max : Int, threshold : Int]
SiestaBodies == [on : BOOLEAN, start : Minutes, length : Int, depth : Int]
BackupBodies == [pro : BOOLEAN, sched : [Hours -> [Channels -> Int]], master : Int,
                 siesta : SiestaBodies, lunar : LunarBodies]

ASSUME ScheduleAssumption ==
    /\ Slots \in Nat \ {0} /\ HourLen \in Nat \ {0} /\ MaxDay \in Nat
    /\ Royal \in Channels /\ Cyan \in Channels /\ Royal # Cyan
    /\ Sun \in [Days -> Int] /\ Moon \in [Days -> 0..1000]
    /\ MoonShift \in [Days -> Int]
    /\ 0 < ShortSiesta /\ ShortSiesta <= LongSiesta
    /\ {ShortSiesta, LongSiesta, MaxSeason} \subseteq Nat
    /\ DefaultSiesta \in ShortSiesta..LongSiesta /\ DefaultMoon \in 1..100
    /\ Masters \subseteq Int /\ Rows \subseteq Table
    /\ LampRows \subseteq LampTable /\ Backups \subseteq BackupBodies
    /\ Siestas \subseteq SiestaBodies /\ Lunars \subseteq LunarBodies
    /\ None \notin Int \cup BOOLEAN \cup [start : Minutes, end : Minutes]
    /\ Acclimations \subseteq [on : BOOLEAN \cup {None}, from : Int \cup {None},
                               days : Int \cup {None}, restart : BOOLEAN]
    /\ Seasons \subseteq [on : BOOLEAN \cup {None}, max : Int \cup {None}]
    /\ MaxChanges \in Nat

-----------------------------------------------------------------------------
(* Arithmetic: percentages are integers.  The code rounds float64 quotients; *)
(* the values differ from these in ties that a float misses.                 *)

Clamp(v, lo, hi) == IF v < lo THEN lo ELSE IF v > hi THEN hi ELSE v
Least(a, b) == IF a < b THEN a ELSE b
Most(a, b)  == IF a > b THEN a ELSE b

(* math.Round(a / b): halves go away from zero. *)
Round(a, b) == IF a >= 0 THEN (2 * a + b) \div (2 * b)
                         ELSE -((b - 2 * a) \div (2 * b))

Percent(v, p) == Clamp(Round(v * p, 100), 0, 100)

(* 0.7 * 45 and 0.7 * 85 are just below their halves. *)
SeventyPercent(p) == Round(7 * p, 10) - (IF p \in {45, 85} THEN 1 ELSE 0)

Wrap(m) == m % DayLen
Day(t) == t \div DayLen

WindowLen(start, end) == IF end <= start THEN end - start + DayLen ELSE end - start

InTimeWindow(m, start, end) ==
    \/ start < end /\ start <= m /\ m < end
    \/ start > end /\ (start <= m \/ m < end)

(* The stored rows' own window test: equal ends are the whole day.           *)
MinsInWindow(m, start, end) == start = end \/ InTimeWindow(m, start, end)

Interpolate(s, m) ==
    LET h == (m \div HourLen) % Slots
        next == (h + 1) % Slots
    IN [c \in Channels |->
          LET lo == s[h][c]
          IN Clamp(Round(lo * HourLen + (m % HourLen) * (s[next][c] - lo), HourLen),
                   0, 100)]

-----------------------------------------------------------------------------
(* The engine's model.  A configuration c has the fields of engine.Config.   *)

(* Mutant: acclimation never ends. *)
AcclimationForever(c, t) ==
    LET a == c.acclimation
        elapsed == (t - a.start) \div DayLen
    IN IF ~a.on \/ a.from >= 100 \/ a.days <= 0 THEN 100
       ELSE IF a.start = None \/ t < a.start \/ elapsed <= 0 \/ elapsed >= a.days
            THEN a.from
       ELSE Clamp(Round(a.from * a.days + (100 - a.from) * elapsed, a.days), 1, 100)

AcclimationPercent(c, t) ==
    LET a == c.acclimation
        elapsed == (t - a.start) \div DayLen
    IN IF ~a.on \/ a.from >= 100 \/ a.days <= 0 THEN 100
       ELSE IF a.start = None \/ t < a.start \/ elapsed <= 0 THEN a.from
       ELSE IF elapsed >= a.days THEN 100
       ELSE Clamp(Round(a.from * a.days + (100 - a.from) * elapsed, a.days), 1, 100)

SeasonalShift(c, t) ==
    IF c.seasonal.on
    THEN Round(Sun[Day(t)] * Clamp(c.seasonal.max, 0, MaxSeason), 1000) ELSE 0

(* Mutant: the shift is not wrapped into the day. *)
ShiftedInDay(base, shift) ==
    [h \in Hours |-> Interpolate(base, Clamp(h * HourLen - shift, 0, DayLen - 1))]

(* The base moved by shift minutes: resampled at the whole hours. *)
Shifted(base, shift) ==
    [h \in Hours |-> Interpolate(base, Wrap(h * HourLen - shift))]

EffectiveSchedule(c, base, t) ==
    LET s == Shifted(base, SeasonalShift(c, t))
        pct == AcclimationPercent(c, t)
    IN [h \in Hours |-> [x \in Channels |-> Percent(s[h][x], pct)]]

SiestaActive(c, t) ==
    LET start == Wrap(c.siesta.start + SeasonalShift(c, t))
        length == Most(c.siesta.length, 1)
    IN c.siesta.on /\ InTimeWindow(Wrap(t), start, Wrap(start + length))

Siesta(c, ch, t) ==
    IF SiestaActive(c, t)
    THEN [x \in Channels |-> Percent(ch[x], 100 - Clamp(c.siesta.depth, 0, 100))]
    ELSE ch

Master(c, ch) ==
    IF c.master = 100 THEN ch
    ELSE [x \in Channels |-> Least(Round(ch[x] * c.master, 100), 100)]

(* Mutant: the end of last night is forgotten. *)
OverlapsToday == {<<0, n>> : n \in 0..1}

(* clampWindowToNight tries the raw window a day earlier and later, against  *)
(* the night of today and of tomorrow, ...                                   *)
Overlaps == {<<r, n>> : r \in -1..1, n \in 0..1}

(* ... and keeps the first of the longest overlaps; None when there is none. *)
ClampWindowToNight(start, end, nightStart, nightEnd) ==
    LET from(x) == Most(start + x[1] * DayLen, nightStart + x[2] * DayLen)
        to(x) == Least(start + x[1] * DayLen + WindowLen(start, end),
                       nightStart + x[2] * DayLen + WindowLen(nightStart, nightEnd))
        len(x) == to(x) - from(x)
        earlier(x, y) == x[1] < y[1] \/ (x[1] = y[1] /\ x[2] < y[2])
        best == CHOOSE x \in Overlaps : \A y \in Overlaps \ {x} :
                   len(x) > len(y) \/ (len(x) = len(y) /\ earlier(x, y))
    IN IF len(best) <= 0 THEN None
       ELSE [start |-> Wrap(from(best)), end |-> Wrap(to(best))]

LunarWindow(c, t) ==
    LET l == c.lunar
        start == Wrap(l.start + (IF l.track THEN MoonShift[Day(t)] ELSE 0))
        end == Wrap(start + WindowLen(l.start, l.end))
        night == ClampWindowToNight(start, end, l.nightStart, l.nightEnd)
    IN IF ~l.track THEN [start |-> start, end |-> end]
       ELSE IF night = None THEN [start |-> start, end |-> start] ELSE night

LunarActive(c, eff, t) ==
    LET w == LunarWindow(c, t)
        ch == Interpolate(eff, Wrap(t))
    IN /\ c.lunar.on /\ InTimeWindow(Wrap(t), w.start, w.end)
       /\ \A x \in Channels : ch[x] <= Clamp(c.lunar.threshold, 0, 100)

MoonLevel(c, t) == Clamp(Round(c.lunar.max * Moon[Day(t)], 1000), 0, 100)

(* Mutant: moonlight is added to what is there. *)
LunarAdded(c, ch, t) ==
    [ch EXCEPT ![Royal] = Least(@ + MoonLevel(c, t), 100)]

(* applyLunar: moonlight is a floor of the channels that show it. *)
Lunar(c, ch, t) ==
    [ch EXCEPT ![Royal] = Most(@, MoonLevel(c, t)),
               ![Cyan] = IF c.pro THEN Most(@, SeventyPercent(MoonLevel(c, t)))
                                  ELSE @]

(* Config.Compute of a schedule (its manual mode only applies the master).   *)
Compute(c, base, t) ==
    LET eff == EffectiveSchedule(c, base, t)
        ch == Master(c, Siesta(c, Interpolate(eff, Wrap(t)), t))
    IN IF LunarActive(c, eff, t) THEN Lunar(c, ch, t) ELSE ch

-----------------------------------------------------------------------------
(* The rows of a push                                                        *)

(* prebakePush: today's rows by the engine's own computation. *)
Prebaked(c, rows, day) == [h \in Hours |-> Compute(c, rows, day * DayLen + h * HourLen)]

(* bakePCBridgeEffects, for pushes prebakePush leaves alone. *)
Baked(siesta, lunar, rows) ==
    LET minute(h) == h * HourLen
        dimmed == [h \in Hours |->
            IF siesta.on /\ siesta.start <= minute(h)
                         /\ minute(h) < siesta.start + siesta.length
            THEN [x \in Channels |-> Percent(rows[h][x], 100 - siesta.depth)]
            ELSE rows[h]]
        moonlit(h) == /\ lunar.on /\ lunar.max > 0
                      /\ MinsInWindow(minute(h), lunar.start, lunar.end)
                      /\ \A x \in Channels : dimmed[h][x] <= lunar.threshold
    IN [h \in Hours |->
          IF moonlit(h)
          THEN [dimmed[h] EXCEPT ![Royal] = Most(@, lunar.max),
                                 ![Cyan] = Most(@, Round(lunar.max * 7, 10))]
          ELSE dimmed[h]]

(* Mutant: brightening beyond the full light. *)
ApplyMasterUncapped(rows, master) ==
    [h \in Hours |-> [x \in Channels |-> Round(rows[h][x] * Most(master, 0), 100)]]

(* applyMasterToLampState *)
ApplyMaster(rows, master) ==
    [h \in Hours |-> [x \in Channels |-> Percent(rows[h][x], Most(master, 0))]]

(* piweb.rewritePush *)
Rotated(rows, steps) == [h \in Hours |-> rows[(h - steps) % Slots]]

-----------------------------------------------------------------------------

VARIABLES
    store,   \* httpapi's state: rows, master, siesta, lunar
    fx,      \* EffectsStore: ramp, acclimation, seasonal
    pro,     \* Config.Device: the lamp is a K7 Pro
    day,
    changes

vars == <<store, fx, pro, day, changes>>

NormalizeSiesta(s) ==
    LET length == IF s.length <= 0 THEN DefaultSiesta ELSE s.length
    IN [s EXCEPT !.length = Clamp(length, ShortSiesta, LongSiesta),
                 !.depth = Clamp(@, 1, 90)]

NormalizeLunar(l) ==
    [l EXCEPT !.max = Clamp(IF @ <= 0 THEN DefaultMoon ELSE @, 0, 100),
              !.threshold = Clamp(@, 0, 100), !.track = FALSE]

(* Mutant: the master is one of the settings a start resets. *)
NormalizeStateForgetful(st) ==
    [sched |-> [h \in Hours |-> [x \in Channels |-> Clamp(st.sched[h][x], 0, 100)]],
     master |-> 100,
     siesta |-> NormalizeSiesta(st.siesta), lunar |-> NormalizeLunar(st.lunar)]

NormalizeState(st) ==
    [sched |-> [h \in Hours |-> [x \in Channels |-> Clamp(st.sched[h][x], 0, 100)]],
     master |-> IF st.master <= 0 THEN 100 ELSE st.master, \* no limit above
     siesta |-> NormalizeSiesta(st.siesta), lunar |-> NormalizeLunar(st.lunar)]

(* Provider.EngineSnapshot *)
ConfigOf(st) ==
    [pro |-> pro, master |-> IF st.master > 0 THEN st.master ELSE 100,
     siesta |-> st.siesta,
     lunar |-> [st.lunar EXCEPT !.max = IF @ > 0 THEN @ ELSE DefaultMoon],
     acclimation |-> fx.acclimation, seasonal |-> fx.seasonal]
EngineConfig == ConfigOf(store)

DarkRows == [h \in Hours |-> [x \in Channels |-> 0]]

(* The store is fresh, or one an earlier run has left.                       *)
Init ==
    /\ \E rows \in Rows \cup {DarkRows}, s \in Siestas, l \in Lunars :
         store = [sched |-> rows, master |-> 100,
                  siesta |-> NormalizeSiesta([s EXCEPT !.on = FALSE]),
                  lunar |-> NormalizeLunar([l EXCEPT !.on = FALSE])]
    /\ fx = [ramp |-> FALSE,
             acclimation |-> [on |-> FALSE, from |-> 70, days |-> 21, start |-> None],
             seasonal |-> [on |-> FALSE, max |-> Clamp(60, 0, MaxSeason)]]
    /\ pro \in BOOLEAN /\ day = 0 /\ changes = 0

Change == changes < MaxChanges /\ changes' = changes + 1

PostMaster(v) ==
    /\ Change /\ store' = [store EXCEPT !.master = Clamp(v, 0, 200)]
    /\ UNCHANGED <<fx, pro, day>>

(* Mutant: the request is stored as it comes. *)
PostSiestaRaw(body) ==
    /\ Change /\ store' = [store EXCEPT !.siesta = body]
    /\ UNCHANGED <<fx, pro, day>>

PostSiesta(body) ==
    /\ Change /\ store' = [store EXCEPT !.siesta = NormalizeSiesta(body)]
    /\ UNCHANGED <<fx, pro, day>>

PostLunar(body) ==
    /\ Change /\ store' = [store EXCEPT !.lunar = NormalizeLunar(body)]
    /\ UNCHANGED <<fx, pro, day>>

SwitchLunar(on) ==
    /\ Change
    /\ store' = [store EXCEPT !.lunar = [NormalizeLunar(@) EXCEPT !.on = on]]
    /\ UNCHANGED <<fx, pro, day>>

(* acclimationConfig: the start is set when it is switched on the first time *)
(* or again on request.                                                      *)
PostAcclimation(body, minute) ==
    LET a == fx.acclimation
        restarts == body.on = TRUE /\ (a.start = None \/ body.restart)
    IN /\ Change
       /\ fx' = [fx EXCEPT !.acclimation =
            [on    |-> IF body.on = None THEN a.on ELSE body.on,
             from  |-> IF body.from = None THEN a.from ELSE Clamp(body.from, 1, 100),
             days  |-> IF body.days = None THEN a.days ELSE Clamp(body.days, 1, 120),
             start |-> IF restarts THEN day * DayLen + minute ELSE a.start]]
       /\ UNCHANGED <<store, pro, day>>

PostSeasonal(body) ==
    LET se == fx.seasonal
    IN /\ Change
       /\ fx' = [fx EXCEPT !.seasonal =
            [on  |-> IF body.on = None THEN se.on ELSE body.on,
             max |-> IF body.max = None THEN se.max ELSE Clamp(body.max, 0, MaxSeason)]]
       /\ UNCHANGED <<store, pro, day>>

SwitchRamp(on) ==
    /\ Change /\ fx' = [fx EXCEPT !.ramp = on]
    /\ UNCHANGED <<store, pro, day>>

(* What the lamp gets is what is stored.  The preset against dinoflagellates *)
(* switches moonlight off, after a prebaked push has used it.                *)
Push(rows, steps, dino) ==
    LET turned == Rotated(rows, steps)
        lunar == [NormalizeLunar(store.lunar) EXCEPT !.on = @ /\ ~dino]
        sent == IF ~fx.ramp THEN Prebaked(EngineConfig, turned, day)
                ELSE ApplyMaster(Baked(NormalizeSiesta(store.siesta), lunar, turned),
                                 store.master)
    IN /\ Change
       /\ store' = [store EXCEPT !.sched = sent,
                                 !.lunar = IF dino THEN lunar ELSE @]
       /\ UNCHANGED <<fx, pro, day>>

(* saveStateFromLamp: the lamp's bytes are stored as they are, another       *)
(* application's perhaps, and have their master in them; its name may tell   *)
(* the model.                                                                *)
ReadLamp ==
    /\ Change
    /\ \E rows \in Rows \cup LampRows \cup {store.sched} :
         store' = [store EXCEPT !.sched = rows, !.master = 100]
    /\ pro' \in BOOLEAN
    /\ UNCHANGED <<fx, day>>

(* handleBackup: the backup's store is normalised, and replaces this one.    *)
Restore(backup) ==
    /\ Change /\ store' = NormalizeState(backup) /\ pro' = backup.pro
    /\ UNCHANGED <<fx, day>>

Restart ==
    /\ Change /\ store' = NormalizeState(store)
    /\ UNCHANGED <<fx, pro, day>>

NextDay ==
    /\ day < MaxDay /\ day' = day + 1
    /\ UNCHANGED <<store, fx, pro, changes>>

Next ==
    \/ \E v \in Masters : PostMaster(v)
    \/ \E body \in Siestas : PostSiesta(body)
    \/ \E body \in Lunars : PostLunar(body)
    \/ \E on \in BOOLEAN : SwitchLunar(on) \/ SwitchRamp(on)
    \/ \E body \in Acclimations, m \in {0, DayLen \div 2} : PostAcclimation(body, m)
    \/ \E body \in Seasons : PostSeasonal(body)
    \/ \E rows \in Rows, steps \in {0, 1}, dino \in BOOLEAN : Push(rows, steps, dino)
    \/ \E backup \in Backups : Restore(backup)
    \/ ReadLamp \/ Restart \/ NextDay

Spec == Init /\ [][Next]_vars

-----------------------------------------------------------------------------
(* Properties                                                                *)

(* What is stored: rows of 0 to 100 by every way but a read of the lamp,     *)
(* which stores its bytes; a master without a limit from a backup; siesta    *)
(* and moonlight within the limits of their normalisation.                   *)
TypeOK ==
    /\ store.sched \in LampTable /\ store.master \in Nat
    /\ store.siesta \in [on : BOOLEAN, start : Minutes,
                         length : ShortSiesta..LongSiesta, depth : 1..90]
    /\ store.lunar \in [on : BOOLEAN, start : Minutes, end : Minutes,
                        nightStart : Minutes, nightEnd : Minutes,
                        track : {FALSE}, max : 1..100, threshold : 0..100]
    /\ fx \in [ramp : BOOLEAN,
               acclimation : [on : BOOLEAN, from : 1..100, days : 1..120,
                              start : Nat \cup {None}],
               seasonal : [on : BOOLEAN, max : 0..MaxSeason]]
    /\ pro \in BOOLEAN /\ day \in Days /\ changes \in 0..MaxChanges

LightNow(m) == Compute(EngineConfig, store.sched, day * DayLen + m)

LightAfterRestart(m) ==
    LET loaded == NormalizeState(store)
    IN Compute(ConfigOf(loaded), loaded.sched, day * DayLen + m)

(* A restart does not change the light: what the loaded and normalised store *)
(* makes the engine drive is what it drove before (normalizeState,           *)
(* EngineSnapshot), at every minute of the day.  Bytes above 100 that a read *)
(* has stored make no difference either, unless the season moves the rows by *)
(* a part of an hour and the engine mixes one of them with its neighbour.    *)
RestartSameLight ==
    \/ store.sched \in Table
    \/ SeasonalShift(EngineConfig, day * DayLen) % HourLen = 0
    => \A m \in Minutes : LightAfterRestart(m) = LightNow(m)

(* And then the light can only be less than it was: a restart brightens no   *)
(* channel at any minute, whatever a read has stored (normalizeState,        *)
(* interpolate), as long as no moonlight may come up in the darker rows.     *)
RestartNeverBrightens ==
    store.sched \notin Table /\ ~store.lunar.on =>
        \A m \in Minutes, x \in Channels : LightAfterRestart(m)[x] <= LightNow(m)[x]

(* Nothing but moonlight is to be folded into a row today.                   *)
OnlyMoonlight ==
    /\ EngineConfig.master = 100 /\ ~store.siesta.on
    /\ SeasonalShift(EngineConfig, day * DayLen) = 0
    /\ \A h \in Hours :
         AcclimationPercent(EngineConfig, day * DayLen + h * HourLen) = 100

(* Moonlight may be folded into rows that have it already, by a push of rows *)
(* read back from the lamp or by a live engine that takes over from the lamp:*)
(* it is a floor, and neither grows nor goes away (prebakePush, Compute).    *)
MoonlightOnce ==
    [][(\E rows \in Rows, steps \in {0, 1} : Push(rows, steps, FALSE))
          /\ ~fx.ramp /\ OnlyMoonlight
            => Prebaked(EngineConfig, store.sched', day) = store.sched']_vars

(* Acclimation brings the light up: with neither moonlight nor the season in *)
(* it, no minute of tomorrow is darker than it is today, whatever was        *)
(* changed, restarted or pushed before (AcclimationPercent, Compute).        *)
BrighterByTheDay ==
    day < MaxDay /\ ~store.lunar.on /\ ~fx.seasonal.on =>
        \A m \in Minutes :
            LET today == LightNow(m)
                tomorrow == LightNow(m + DayLen)
            IN \A x \in Channels : today[x] <= tomorrow[x]

(* The two ways to move a day agree: what the engine resamples for a shift   *)
(* of whole hours is what piweb rotates, and at most cut off at 100          *)
(* (EffectiveSchedule, rewritePush).                                         *)
ShiftsAgree ==
    \A steps \in -Slots..Slots :
        Shifted(store.sched, steps * HourLen) = Rotated(NormalizeState(store).sched, steps)

Arc(start, length) == {Wrap(start + i) : i \in 0..length - 1}

(* clampWindowToNight finds the longest piece of the moon's window that lies *)
(* in the night, wherever the moon has moved the window to.                  *)
LongestNightPiece ==
    \A start \in Minutes :
        LET l == store.lunar
            length == WindowLen(l.start, l.end)
            both == Arc(start, length)
                      \cap Arc(l.nightStart, WindowLen(l.nightStart, l.nightEnd))
            found == ClampWindowToNight(start, Wrap(start + length),
                                        l.nightStart, l.nightEnd)
            piece == IF found = None THEN 0 ELSE WindowLen(found.start, found.end)
        IN l.start # l.end /\ l.nightStart # l.nightEnd =>
             /\ found # None => Arc(found.start, piece) \subseteq both
             /\ \A m \in both : ~(Arc(m, piece + 1) \subseteq both)

=============================================================================
