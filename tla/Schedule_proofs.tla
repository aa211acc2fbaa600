-------------------------- MODULE Schedule_proofs --------------------------
(***************************************************************************)
(* Proofs about Schedule, for any numbers of hours, minutes and days, any  *)
(* channels, rows, places of the sun and of the moon, and any requests:    *)
(*   TypeCorrect             what is stored is in its range                *)
(*   RestartSameLightCorrect a restart does not change the light, ...      *)
(*   RestartNeverBrightensCorrect  ... and where it does, it dims it       *)
(*   ShiftsAgreeCorrect      to resample for whole hours is to rotate      *)
(*   MoonlightOnceCorrect    moonlight folded in twice is folded in once   *)
(*   BrighterByTheDayCorrect acclimation never makes the light darker      *)
(*   LongestNightPieceCorrect  the moon's window is cut to its longest     *)
(*                           piece in the night                            *)
(* The arithmetic comes first: what rounding and division keep.            *)
(***************************************************************************)
EXTENDS Schedule, TLAPS

-----------------------------------------------------------------------------
(* Arithmetic                                                                *)

LEMMA MulMono == \A x, y, z \in Int : x <= y /\ 0 <= z => x * z <= y * z
  OBVIOUS

\* Division keeps the order.
LEMMA DivMono == \A a, c \in Int, b \in Nat \ {0} : a <= c => a \div b <= c \div b
  OBVIOUS

\* Quotient and remainder, and that they are the only ones.
LEMMA DivParts ==
  \A a \in Int, b \in Nat \ {0} :
    a \div b \in Int /\ a % b \in 0..b - 1 /\ a = b * (a \div b) + (a % b)
<1>1. \A a \in Int, b \in Nat \ {0} : a % b \in 0..b - 1
  OBVIOUS
<1>2. \A a \in Int, b \in Nat \ {0} : a \div b \in Int
  OBVIOUS
<1>3. \A a \in Int, b \in Nat \ {0} : a = b * (a \div b) + (a % b)
  OBVIOUS
<1> QED  BY <1>1, <1>2, <1>3

LEMMA DivUnique ==
  \A a, q, r \in Int, b \in Nat \ {0} :
    a = b * q + r /\ 0 <= r /\ r < b => a \div b = q /\ a % b = r
  OBVIOUS

\* A value kept between two bounds.
LEMMA ClampType == \A v, lo, hi \in Int : lo <= hi => Clamp(v, lo, hi) \in lo..hi
  BY DEF Clamp

LEMMA ClampLight == \A v \in Int : Clamp(v, 0, 100) \in 0..100
  BY DEF Clamp

LEMMA ClampSame == \A lo, hi \in Int : \A v \in lo..hi : Clamp(v, lo, hi) = v
  BY DEF Clamp

LEMMA ClampMono ==
  \A v, w, lo, hi \in Int : lo <= hi /\ v <= w => Clamp(v, lo, hi) <= Clamp(w, lo, hi)
  BY DEF Clamp

\* Rounding a quotient: a number, in the order of the dividends, exact when it can be.
LEMMA RoundType == \A a \in Int, b \in Nat \ {0} : Round(a, b) \in Int
  BY DEF Round

LEMMA RoundMono ==
  \A a, c \in Int, b \in Nat \ {0} : 0 <= a /\ a <= c => Round(a, b) <= Round(c, b)
  BY DEF Round

LEMMA RoundExact == \A a \in Nat, b \in Nat \ {0} : Round(a * b, b) = a
  BY DEF Round

LEMMA RoundNat == \A a \in Nat, b \in Nat \ {0} : Round(a, b) \in Nat
<1>1. \A b \in Nat \ {0} : Round(0, b) = 0
  <2> TAKE b \in Nat \ {0}
  <2>1. Round(0 * b, b) = 0 /\ 0 * b = 0
    BY RoundExact
  <2> QED  BY <2>1
<1>2. ASSUME NEW a \in Nat, NEW b \in Nat \ {0} PROVE Round(a, b) \in Nat
  <2>1. Round(a, b) \in Int /\ Round(0, b) <= Round(a, b)
    BY RoundType, RoundMono
  <2> QED  BY <1>1, <2>1
<1> QED  BY <1>2

\* Percentages of light are light, more of more, and all of it at a hundred.
LEMMA PercentType == \A v, p \in Int : Percent(v, p) \in Light
<1> SUFFICES ASSUME NEW v \in Int, NEW p \in Int PROVE Percent(v, p) \in Light
  OBVIOUS
<1>1. v * p \in Int /\ 100 \in Nat \ {0}
  OBVIOUS
<1>2. Round(v * p, 100) \in Int
  BY <1>1, RoundType
<1> QED  BY <1>2, ClampLight DEF Percent, Light

LEMMA PercentMono ==
  \A v, w, p, q \in Nat : v <= w /\ p <= q => Percent(v, p) <= Percent(w, q)
<1> SUFFICES ASSUME NEW v \in Nat, NEW w \in Nat, NEW p \in Nat, NEW q \in Nat,
                    v <= w, p <= q
             PROVE  Percent(v, p) <= Percent(w, q)
  OBVIOUS
<1>1. v * p \in Nat /\ w * q \in Nat /\ v * p <= w * q
  <2>1. v * p <= w * p
    BY MulMono
  <2>2. p * w <= q * w /\ p * w = w * p /\ q * w = w * q
    BY MulMono
  <2>3. v * p \in Nat /\ w * q \in Nat /\ w * p \in Nat
    OBVIOUS
  <2> QED  BY <2>1, <2>2, <2>3
<1>2. /\ Round(v * p, 100) \in Int /\ Round(w * q, 100) \in Int
      /\ Round(v * p, 100) <= Round(w * q, 100)
  <2> DEFINE a == v * p  b == w * q
  <2>1. a \in Int /\ b \in Int /\ 0 <= a /\ a <= b /\ 100 \in Nat \ {0}
    BY <1>1
  <2> HIDE DEF a, b
  <2>2. Round(a, 100) \in Int /\ Round(b, 100) \in Int /\ Round(a, 100) <= Round(b, 100)
    BY <2>1, RoundType, RoundMono
  <2> QED  BY <2>2 DEF a, b
<1> QED  BY <1>2, ClampMono DEF Percent

LEMMA PercentAll == \A v \in Light : Percent(v, 100) = v
<1> SUFFICES ASSUME NEW v \in Light PROVE Percent(v, 100) = v
  OBVIOUS
<1>1. v \in 0..100 /\ v \in Nat /\ 100 \in Nat \ {0}
  BY DEF Light
<1>2. Round(v * 100, 100) = v
  BY <1>1, RoundExact
<1> QED  BY <1>1, <1>2, ClampSame DEF Percent

\* The parameters are numbers.
LEMMA Sizes ==
  /\ Slots \in Nat \ {0} /\ HourLen \in Nat \ {0} /\ DayLen \in Nat \ {0}
  /\ MaxDay \in Nat /\ Hours = 0..Slots - 1 /\ Minutes = 0..DayLen - 1
<1>1. Slots \in Nat \ {0} /\ HourLen \in Nat \ {0} /\ MaxDay \in Nat
  BY ScheduleAssumption
<1>2. Slots * HourLen \in Nat \ {0}
  BY <1>1
<1> QED  BY <1>1, <1>2 DEF DayLen, Hours, Minutes

\* A minute of a day is of that day, and that minute in it.
LEMMA MinuteOfDay ==
  \A d \in Nat, m \in Minutes : /\ d * DayLen + m \in Nat
                                /\ Day(d * DayLen + m) = d /\ Wrap(d * DayLen + m) = m
<1> SUFFICES ASSUME NEW d \in Nat, NEW m \in Minutes
             PROVE  /\ d * DayLen + m \in Nat
                    /\ Day(d * DayLen + m) = d /\ Wrap(d * DayLen + m) = m
  OBVIOUS
<1>1. DayLen \in Nat \ {0} /\ m \in Int /\ 0 <= m /\ m < DayLen
  BY Sizes
<1>2. d * DayLen + m \in Nat /\ d * DayLen + m = DayLen * d + m
  BY <1>1
<1> QED  BY <1>1, <1>2, DivUnique DEF Day, Wrap

\* The whole hours are minutes of the day.
LEMMA HourOfDay == \A h \in Hours : h * HourLen \in Minutes
<1> SUFFICES ASSUME NEW h \in Hours PROVE h * HourLen \in Minutes
  OBVIOUS
<1>1. h \in Nat /\ h <= Slots - 1 /\ Slots \in Nat /\ HourLen \in Nat \ {0}
  BY Sizes
<1>2. h * HourLen \in Nat /\ h * HourLen <= (Slots - 1) * HourLen
  BY <1>1, MulMono
<1>3. (Slots - 1) * HourLen = Slots * HourLen - HourLen
  BY <1>1
<1>4. Slots * HourLen \in Nat
  BY <1>1
<1> QED  BY <1>1, <1>2, <1>3, <1>4, Sizes DEF DayLen

LEMMA HourItself == \A h \in Hours : h \in Int /\ h - 0 = h /\ h % Slots = h
<1> SUFFICES ASSUME NEW h \in Hours PROVE h \in Int /\ h - 0 = h /\ h % Slots = h
  OBVIOUS
<1>1. h \in Int /\ 0 <= h /\ h < Slots /\ Slots \in Nat \ {0} /\ 0 \in Int
  BY Sizes
<1>2. h = Slots * 0 + h
  BY <1>1
<1>3. \A r \in Int : h = Slots * 0 + r /\ 0 <= r /\ r < Slots => h % Slots = r
  BY <1>1, DivUnique
<1> QED  BY <1>1, <1>2, <1>3

-----------------------------------------------------------------------------
(* Light is light                                                            *)

Lights == [Channels -> Light]

\* Rows within the limits are rows a lamp may have.
LEMMA TableOfLamp == Table \subseteq LampTable /\ \A s \in Table : s \in LampTable
<1>1. Light \subseteq 0..255
  BY DEF Light
<1> DEFINE Bytes == 0..255
<1>2. Light \subseteq Bytes
  BY <1>1
<1> HIDE DEF Bytes
<1>3. [Channels -> Light] \subseteq [Channels -> Bytes]
  BY <1>2
<1>4. [Hours -> [Channels -> Light]] \subseteq [Hours -> [Channels -> Bytes]]
  BY <1>3
<1> QED  BY <1>4 DEF Table, LampTable, Bytes

LEMMA LampByte == \A s \in LampTable, h \in Hours, x \in Channels : s[h][x] \in Nat
<1>1. \A v \in 0..255 : v \in Nat
  OBVIOUS
<1> QED  BY <1>1 DEF LampTable

\* Rows cut off at 100, as a start does.
Cut(s) == [h \in Hours |-> [x \in Channels |-> Clamp(s[h][x], 0, 100)]]

LEMMA CutType == \A s \in LampTable : Cut(s) \in Table
<1> SUFFICES ASSUME NEW s \in LampTable, NEW h \in Hours, NEW x \in Channels
             PROVE  Clamp(s[h][x], 0, 100) \in Light
  BY DEF Cut, Table
<1>1. s[h][x] \in 0..255
  BY DEF LampTable
<1> QED  BY <1>1 DEF Clamp, Light

LEMMA CutSame == \A s \in Table : Cut(s) = s
<1> SUFFICES ASSUME NEW s \in Table PROVE Cut(s) = s
  OBVIOUS
<1>1. \A h \in Hours, x \in Channels : Clamp(s[h][x], 0, 100) = s[h][x]
  <2> TAKE h \in Hours, x \in Channels
  <2>1. s[h][x] \in Light
    BY DEF Table
  <2> QED  BY <2>1 DEF Light, Clamp
<1>2. Cut(s) = [h \in Hours |-> [x \in Channels |-> s[h][x]]]
  BY <1>1 DEF Cut
<1>3. \A h \in Hours : [x \in Channels |-> s[h][x]] = s[h]
  BY DEF Table
<1>4. Cut(s) = [h \in Hours |-> s[h]]
  BY <1>2, <1>3
<1> QED  BY <1>4 DEF Table

SiestaType == [on : BOOLEAN, start : Minutes, length : ShortSiesta..LongSiesta,
               depth : 1..90]
LunarType == [on : BOOLEAN, start : Minutes, end : Minutes,
              nightStart : Minutes, nightEnd : Minutes,
              track : {FALSE}, max : 1..100, threshold : 0..100]
AcclimationType == [on : BOOLEAN, from : 1..100, days : 1..120, start : Nat \cup {None}]
SeasonalType == [on : BOOLEAN, max : 0..MaxSeason]

\* What EngineSnapshot can make of a store.
Configs == [pro : BOOLEAN, master : Nat \ {0}, siesta : SiestaType, lunar : LunarType,
            acclimation : AcclimationType, seasonal : SeasonalType]

\* The light between two rows.
LEMMA InterpolateType == \A s \in LampTable, m \in Int : Interpolate(s, m) \in Lights
<1> SUFFICES ASSUME NEW s \in LampTable, NEW m \in Int PROVE Interpolate(s, m) \in Lights
  OBVIOUS
<1> DEFINE h == (m \div HourLen) % Slots
           next == (h + 1) % Slots
<1>1. h \in Hours /\ next \in Hours
  <2>1. m \div HourLen \in Int
    BY Sizes, DivParts
  <2>2. h \in Hours
    BY <2>1, Sizes, DivParts
  <2> HIDE DEF h
  <2>3. h + 1 \in Int
    BY <2>2, Sizes
  <2> QED  BY <2>2, <2>3, Sizes, DivParts
<1> HIDE DEF h, next
<1>2. ASSUME NEW c \in Channels
      PROVE  Clamp(Round(s[h][c] * HourLen + (m % HourLen) * (s[next][c] - s[h][c]),
                         HourLen), 0, 100) \in Light
  <2>1. s[h][c] \in Int /\ s[next][c] \in Int /\ m % HourLen \in Int /\ HourLen \in Int
    <3>1. s[h][c] \in Nat /\ s[next][c] \in Nat
      BY <1>1, LampByte
    <3>2. m % HourLen \in Int
      BY Sizes, DivParts
    <3> QED  BY <3>1, <3>2, Sizes
  <2> DEFINE a == s[h][c] * HourLen + (m % HourLen) * (s[next][c] - s[h][c])
  <2>2. a \in Int
    BY <2>1
  <2> HIDE DEF a
  <2>3. Round(a, HourLen) \in Int
    BY <2>2, Sizes, RoundType
  <2>4. Clamp(Round(a, HourLen), 0, 100) \in 0..100
    BY <2>3, ClampLight
  <2> QED  BY <2>4 DEF a, Light
<1> QED  BY <1>2 DEF Interpolate, Lights, h, next

\* A table moved by any number of minutes.
LEMMA ShiftedType == \A base \in LampTable, shift \in Int : Shifted(base, shift) \in Table
<1> SUFFICES ASSUME NEW base \in LampTable, NEW shift \in Int, NEW h \in Hours
             PROVE  Interpolate(base, Wrap(h * HourLen - shift)) \in Lights
  BY DEF Shifted, Table, Lights
<1>1. h * HourLen - shift \in Int
  BY Sizes
<1>2. Wrap(h * HourLen - shift) \in Int
  BY <1>1, Sizes, DivParts DEF Wrap
<1> QED  BY <1>2, InterpolateType

\* Acclimation leaves some of the light.
LEMMA AcclimationRange ==
  \A c \in Configs, t \in Int : AcclimationPercent(c, t) \in 1..100
<1> SUFFICES ASSUME NEW c \in Configs, NEW t \in Int
             PROVE  AcclimationPercent(c, t) \in 1..100
  OBVIOUS
<1> DEFINE a == c.acclimation  elapsed == (t - a.start) \div DayLen
           part == Round(a.from * a.days + (100 - a.from) * elapsed, a.days)
<1>1. a.from \in 1..100 /\ a.days \in 1..120 /\ a.start \in Nat \cup {None}
  BY DEF Configs, AcclimationType
<1>2. CASE a.start \in Nat
  <2>1. elapsed \in Int
    <3>1. t - a.start \in Int
      BY <1>2
    <3> QED  BY <3>1, Sizes, DivParts
  <2> HIDE DEF elapsed, a
  <2>2. a.from * a.days + (100 - a.from) * elapsed \in Int /\ a.days \in Nat \ {0}
    BY <2>1, <1>1
  <2>3. part \in Int
    BY <2>2, RoundType
  <2> HIDE DEF part
  <2>4. Clamp(part, 1, 100) \in 1..100
    BY <2>3 DEF Clamp
  <2>5. AcclimationPercent(c, t) \in {100, a.from, Clamp(part, 1, 100)}
    BY DEF AcclimationPercent, a, elapsed, part
  <2> QED  BY <2>4, <2>5, <1>1
<1>3. CASE a.start = None
  BY <1>1, <1>3 DEF AcclimationPercent
<1> QED  BY <1>1, <1>2, <1>3

\* The season moves the day by a number of minutes.
LEMMA ShiftInt ==
  \A c \in Configs, t \in Int : Day(t) \in Days => SeasonalShift(c, t) \in Int
<1> SUFFICES ASSUME NEW c \in Configs, NEW t \in Int, Day(t) \in Days
             PROVE  SeasonalShift(c, t) \in Int
  OBVIOUS
<1>1. Sun[Day(t)] \in Int
  BY ScheduleAssumption
<1>2. Clamp(c.seasonal.max, 0, MaxSeason) \in Int
  BY ScheduleAssumption DEF Clamp, Configs, SeasonalType
<1>3. Sun[Day(t)] * Clamp(c.seasonal.max, 0, MaxSeason) \in Int /\ 1000 \in Nat \ {0}
  BY <1>1, <1>2
<1>4. Round(Sun[Day(t)] * Clamp(c.seasonal.max, 0, MaxSeason), 1000) \in Int
  BY <1>3, RoundType
<1> QED  BY <1>4 DEF SeasonalShift

\* The table of a day.
LEMMA EffectiveType ==
  \A c \in Configs, base \in LampTable, t \in Int :
    Day(t) \in Days => EffectiveSchedule(c, base, t) \in Table
<1> SUFFICES ASSUME NEW c \in Configs, NEW base \in LampTable, NEW t \in Int, Day(t) \in Days
             PROVE  EffectiveSchedule(c, base, t) \in Table
  OBVIOUS
<1> DEFINE s == Shifted(base, SeasonalShift(c, t))  pct == AcclimationPercent(c, t)
<1>1. s \in Table /\ pct \in Int
  <2>1. SeasonalShift(c, t) \in Int
    BY ShiftInt
  <2>2. pct \in 1..100
    BY AcclimationRange
  <2>3. s \in Table
    BY <2>1, ShiftedType
  <2> HIDE DEF s, pct
  <2> QED  BY <2>2, <2>3
<1> HIDE DEF s, pct
<1>2. \A h \in Hours, x \in Channels : Percent(s[h][x], pct) \in Light
  <2> TAKE h \in Hours, x \in Channels
  <2>1. s[h][x] \in Int
    <3>1. s[h][x] \in Light
      BY <1>1 DEF Table
    <3> QED  BY <3>1 DEF Light
  <2> QED  BY <2>1, <1>1, PercentType
<1> QED  BY <1>2 DEF EffectiveSchedule, Table, s, pct

\* The moon gives at most all light.
LEMMA MoonType ==
  \A c \in Configs, t \in Int :
    Day(t) \in Days => /\ MoonLevel(c, t) \in 0..100
                       /\ SeventyPercent(MoonLevel(c, t)) \in -1..100
<1> SUFFICES ASSUME NEW c \in Configs, NEW t \in Int, Day(t) \in Days
             PROVE  /\ MoonLevel(c, t) \in 0..100
                    /\ SeventyPercent(MoonLevel(c, t)) \in -1..100
  OBVIOUS
<1>1. Moon[Day(t)] \in Int /\ c.lunar.max \in Int /\ 1000 \in Nat \ {0}
  <2>1. Moon[Day(t)] \in 0..1000
    BY ScheduleAssumption
  <2>2. c.lunar.max \in 1..100
    BY DEF Configs, LunarType
  <2> QED  BY <2>1, <2>2
<1>2. c.lunar.max * Moon[Day(t)] \in Int
  BY <1>1
<1>3. Round(c.lunar.max * Moon[Day(t)], 1000) \in Int
  BY <1>1, <1>2, RoundType
<1>4. MoonLevel(c, t) \in 0..100
  BY <1>3, ClampLight DEF MoonLevel
<1>5. \A p \in 0..100 : SeventyPercent(p) \in -1..100
  <2> TAKE p \in 0..100
  <2>1. 7 * p \in Nat /\ 7 * p <= 100 * 10 /\ 10 \in Nat \ {0}
    OBVIOUS
  <2>2. Round(7 * p, 10) \in Nat /\ Round(7 * p, 10) <= Round(100 * 10, 10)
    BY <2>1, RoundNat, RoundMono
  <2>3. Round(100 * 10, 10) = 100
    BY <2>1, RoundExact
  <2> QED  BY <2>2, <2>3 DEF SeventyPercent
<1> QED  BY <1>4, <1>5

\* What the engine drives is light.
LEMMA ComputeType ==
  \A c \in Configs, base \in LampTable, t \in Int :
    Day(t) \in Days => Compute(c, base, t) \in Lights
<1> SUFFICES ASSUME NEW c \in Configs, NEW base \in LampTable, NEW t \in Int, Day(t) \in Days
             PROVE  Compute(c, base, t) \in Lights
  OBVIOUS
<1> DEFINE eff == EffectiveSchedule(c, base, t)
           row == Interpolate(eff, Wrap(t))
           ch == Master(c, Siesta(c, row, t))
<1>1. row \in Lights
  <2>1. eff \in Table
    BY EffectiveType
  <2>2. Wrap(t) \in Int
    BY Sizes, DivParts DEF Wrap
  <2> QED  BY <2>1, <2>2, InterpolateType, TableOfLamp
<1> HIDE DEF eff, row
<1>2. Siesta(c, row, t) \in Lights
  <2>1. 100 - Clamp(c.siesta.depth, 0, 100) \in Int
    <3>1. c.siesta.depth \in 1..90
      BY DEF Configs, SiestaType
    <3> QED  BY <3>1 DEF Clamp
  <2>2. \A x \in Channels : Percent(row[x], 100 - Clamp(c.siesta.depth, 0, 100)) \in Light
    <3> TAKE x \in Channels
    <3>1. row[x] \in Int
      BY <1>1 DEF Lights, Light
    <3> QED  BY <2>1, <3>1, PercentType
  <2> QED  BY <1>1, <2>2 DEF Siesta, Lights
<1>3. ch \in Lights
  <2> DEFINE si == Siesta(c, row, t)
  <2>1. \A x \in Channels : Least(Round(si[x] * c.master, 100), 100) \in Light
    <3> TAKE x \in Channels
    <3>1. si[x] \in Nat /\ c.master \in Nat
      BY <1>2 DEF Lights, Light, Configs
    <3> HIDE DEF si
    <3>2. si[x] * c.master \in Nat /\ 100 \in Nat \ {0}
      BY <3>1
    <3>3. Round(si[x] * c.master, 100) \in Nat
      BY <3>2, RoundNat
    <3> QED  BY <3>3 DEF Least, Light
  <2> QED  BY <1>2, <2>1 DEF Master, Lights
<1> HIDE DEF ch
<1>4. Lunar(c, ch, t) \in Lights
  <2>1. \A x \in Channels : Most(ch[x], MoonLevel(c, t)) \in Light
    BY <1>3, MoonType DEF Most, Lights, Light
  <2>2. \A v \in Light : Most(v, SeventyPercent(MoonLevel(c, t))) \in Light
    BY MoonType DEF Most, Light
  <2>3. Royal \in Channels /\ Cyan \in Channels
    BY ScheduleAssumption
  <2> QED  BY <1>3, <2>1, <2>2, <2>3, ScheduleAssumption DEF Lunar, Lights
<1> QED  BY <1>3, <1>4 DEF Compute, eff, row, ch

-----------------------------------------------------------------------------
(* Types                                                                     *)

Stores == [sched : LampTable, master : Nat, siesta : SiestaType, lunar : LunarType]
Effects == [ramp : BOOLEAN, acclimation : AcclimationType, seasonal : SeasonalType]

TypeInv ==
  /\ store \in Stores /\ fx \in Effects
  /\ pro \in BOOLEAN /\ day \in Days /\ changes \in 0..MaxChanges

LEMMA TypeInvIsType == TypeInv => TypeOK
  BY DEF TypeInv, TypeOK, Stores, Effects, SiestaType, LunarType, AcclimationType,
         SeasonalType

\* What the handlers make of a request body can be stored.
LEMMA SiestaNormal == \A s \in SiestaBodies : NormalizeSiesta(s) \in SiestaType
<1> SUFFICES ASSUME NEW s \in SiestaBodies PROVE NormalizeSiesta(s) \in SiestaType
  OBVIOUS
<1> DEFINE length == IF s.length <= 0 THEN DefaultSiesta ELSE s.length
<1>1. /\ s.on \in BOOLEAN /\ s.start \in Minutes /\ s.length \in Int /\ s.depth \in Int
  BY DEF SiestaBodies
<1>2. /\ ShortSiesta \in Nat /\ LongSiesta \in Nat /\ ShortSiesta <= LongSiesta
      /\ DefaultSiesta \in Nat
  BY ScheduleAssumption
<1>3. length \in Int
  BY <1>1, <1>2
<1> HIDE DEF length
<1>4. Clamp(length, ShortSiesta, LongSiesta) \in ShortSiesta..LongSiesta
  BY <1>2, <1>3 DEF Clamp
<1>5. Clamp(s.depth, 1, 90) \in 1..90
  BY <1>1 DEF Clamp
<1>6. NormalizeSiesta(s) = [s EXCEPT !.length = Clamp(length, ShortSiesta, LongSiesta),
                                     !.depth = Clamp(s.depth, 1, 90)]
  BY DEF NormalizeSiesta, length
<1> QED  BY <1>1, <1>4, <1>5, <1>6 DEF SiestaBodies, SiestaType

LEMMA LunarNormal == \A l \in LunarBodies : NormalizeLunar(l) \in LunarType
<1> SUFFICES ASSUME NEW l \in LunarBodies PROVE NormalizeLunar(l) \in LunarType
  OBVIOUS
<1>1. l.max \in Int /\ l.threshold \in Int
  BY DEF LunarBodies
<1>2. DefaultMoon \in 1..100
  BY ScheduleAssumption
<1>3. Clamp(IF l.max <= 0 THEN DefaultMoon ELSE l.max, 0, 100) \in 1..100
  BY <1>1, <1>2 DEF Clamp
<1>4. Clamp(l.threshold, 0, 100) \in 0..100
  BY <1>1 DEF Clamp
<1> QED  BY <1>3, <1>4 DEF NormalizeLunar, LunarBodies, LunarType

\* What is stored is normal, and stays as it is: of the types a body has too.
LEMMA StoredNormal ==
  /\ SiestaType \subseteq SiestaBodies /\ \A s \in SiestaType : NormalizeSiesta(s) = s
  /\ LunarType \subseteq LunarBodies /\ \A l \in LunarType : NormalizeLunar(l) = l
<1>1. /\ ShortSiesta \in Nat /\ LongSiesta \in Nat /\ 0 < ShortSiesta
  BY ScheduleAssumption
<1>2. SiestaType \subseteq SiestaBodies
  BY <1>1 DEF SiestaType, SiestaBodies
<1>3. ASSUME NEW s \in SiestaType PROVE NormalizeSiesta(s) = s
  <2>1. s.length \in ShortSiesta..LongSiesta /\ s.depth \in 1..90
    BY DEF SiestaType
  <2>2. ~(s.length <= 0) /\ Clamp(s.length, ShortSiesta, LongSiesta) = s.length
        /\ Clamp(s.depth, 1, 90) = s.depth
    BY <1>1, <2>1 DEF Clamp
  <2>3. NormalizeSiesta(s) = [s EXCEPT !.length = s.length, !.depth = s.depth]
    BY <2>2 DEF NormalizeSiesta
  <2> QED  BY <2>3 DEF SiestaType
<1>4. LunarType \subseteq LunarBodies
  <2>1. 1..100 \subseteq Int /\ 0..100 \subseteq Int /\ {FALSE} \subseteq BOOLEAN
    OBVIOUS
  <2> DEFINE Full == 1..100  Low == 0..100  Off == {FALSE}
  <2>2. LunarType = [on : BOOLEAN, start : Minutes, end : Minutes, nightStart : Minutes,
                     nightEnd : Minutes, track : Off, max : Full, threshold : Low]
    BY DEF LunarType
  <2>3. Full \subseteq Int /\ Low \subseteq Int /\ Off \subseteq BOOLEAN
    BY <2>1
  <2> HIDE DEF Full, Low, Off
  <2> QED  BY <2>2, <2>3 DEF LunarBodies
<1>5. ASSUME NEW l \in LunarType PROVE NormalizeLunar(l) = l
  <2>1. l.max \in 1..100 /\ l.threshold \in 0..100 /\ l.track = FALSE
    BY DEF LunarType
  <2>2. ~(l.max <= 0) /\ Clamp(l.max, 0, 100) = l.max
        /\ Clamp(l.threshold, 0, 100) = l.threshold
    BY <2>1 DEF Clamp
  <2>3. NormalizeLunar(l) = [l EXCEPT !.max = l.max, !.threshold = l.threshold,
                                      !.track = FALSE]
    BY <2>2 DEF NormalizeLunar
  <2> QED  BY <2>1, <2>3 DEF LunarType
<1> QED  BY <1>2, <1>3, <1>4, <1>5

\* What the engine is given.
LEMMA ConfigType == TypeInv => EngineConfig \in Configs
<1> SUFFICES ASSUME TypeInv PROVE EngineConfig \in Configs
  OBVIOUS
<1>1. /\ store.master \in Nat /\ store.siesta \in SiestaType
      /\ store.lunar \in LunarType /\ pro \in BOOLEAN
      /\ fx.acclimation \in AcclimationType /\ fx.seasonal \in SeasonalType
  BY DEF TypeInv, Stores, Effects
<1>2. (IF store.master > 0 THEN store.master ELSE 100) \in Nat \ {0}
  BY <1>1
<1>3. [store.lunar EXCEPT !.max = IF @ > 0 THEN @ ELSE DefaultMoon] \in LunarType
  <2>1. store.lunar.max \in 1..100
    BY <1>1 DEF LunarType
  <2>2. \A l \in LunarType : \A m : m = l.max => [l EXCEPT !.max = m] = l
    BY DEF LunarType
  <2>3. (IF store.lunar.max > 0 THEN store.lunar.max ELSE DefaultMoon) = store.lunar.max
    BY <2>1
  <2> QED  BY <1>1, <2>2, <2>3
<1> QED  BY <1>1, <1>2, <1>3 DEF EngineConfig, ConfigOf, Configs

\* The rows turned by hours are rows.
LEMMA RotatedType == \A rows \in Table, steps \in Int : Rotated(rows, steps) \in Table
<1> SUFFICES ASSUME NEW rows \in Table, NEW steps \in Int, NEW h \in Hours
             PROVE  rows[(h - steps) % Slots] \in Lights
  BY DEF Rotated, Table, Lights
<1>1. h - steps \in Int
  BY Sizes
<1>2. (h - steps) % Slots \in Hours
  BY <1>1, Sizes, DivParts
<1> QED  BY <1>2 DEF Table, Lights

\* What a push leaves of the rows, in either way.
LEMMA PrebakedType ==
  \A c \in Configs, rows \in Table, d \in Days : Prebaked(c, rows, d) \in Table
<1> SUFFICES ASSUME NEW c \in Configs, NEW rows \in Table, NEW d \in Days, NEW h \in Hours
             PROVE  Compute(c, rows, d * DayLen + h * HourLen) \in Lights
  BY DEF Prebaked, Table, Lights
<1>1. d \in Nat
  BY Sizes DEF Days
<1>2. /\ d * DayLen + h * HourLen \in Int
      /\ Day(d * DayLen + h * HourLen) \in Days
  BY <1>1, HourOfDay, MinuteOfDay
<1> QED  BY <1>2, ComputeType, TableOfLamp

LEMMA BakedType ==
  \A s \in SiestaType, l \in LunarType, rows \in Table, master \in Nat :
    ApplyMaster(Baked(s, l, rows), master) \in Table
<1> SUFFICES ASSUME NEW s \in SiestaType, NEW l \in LunarType, NEW rows \in Table,
                    NEW master \in Nat
             PROVE  ApplyMaster(Baked(s, l, rows), master) \in Table
  OBVIOUS
<1> DEFINE minute(h) == h * HourLen
           dimmed == [h \in Hours |->
             IF s.on /\ s.start <= minute(h) /\ minute(h) < s.start + s.length
             THEN [x \in Channels |-> Percent(rows[h][x], 100 - s.depth)] ELSE rows[h]]
           moonlit(h) == /\ l.on /\ l.max > 0
                         /\ MinsInWindow(minute(h), l.start, l.end)
                         /\ \A x \in Channels : dimmed[h][x] <= l.threshold
           out == [h \in Hours |->
             IF moonlit(h) THEN [dimmed[h] EXCEPT ![Royal] = Most(@, l.max),
                                                  ![Cyan] = Most(@, Round(l.max * 7, 10))]
             ELSE dimmed[h]]
<1>1. Baked(s, l, rows) = out
  BY DEF Baked
<1>2. dimmed \in Table
  <2>1. ASSUME NEW h \in Hours, NEW x \in Channels
        PROVE  Percent(rows[h][x], 100 - s.depth) \in Light
    <3>1. rows[h][x] \in Light
      BY DEF Table
    <3>2. rows[h][x] \in Int /\ 100 - s.depth \in Int
      BY <3>1 DEF Light, SiestaType
    <3> QED  BY <3>2, PercentType
  <2>2. \A h \in Hours : [x \in Channels |-> Percent(rows[h][x], 100 - s.depth)] \in Lights
    BY <2>1 DEF Lights
  <2>3. \A h \in Hours : rows[h] \in Lights
    BY DEF Table, Lights
  <2> QED  BY <2>2, <2>3 DEF Table, Lights
<1> HIDE DEF dimmed, moonlit
<1>3. \A h \in Hours, x \in Channels : out[h][x] \in Int
  <2> TAKE h \in Hours, x \in Channels
  <2>1. dimmed[h] \in Lights /\ \A y \in Channels : dimmed[h][y] \in Int
    <3>1. dimmed[h] \in Lights
      BY <1>2 DEF Table, Lights
    <3>2. Light \subseteq Int
      BY DEF Light
    <3> QED  BY <3>1, <3>2 DEF Lights
  <2>2. l.max \in Nat /\ Round(l.max * 7, 10) \in Int
    <3>1. l.max \in 1..100
      BY DEF LunarType
    <3>2. l.max * 7 \in Int /\ 10 \in Nat \ {0}
      BY <3>1
    <3>3. Round(l.max * 7, 10) \in Int
      BY <3>2, RoundType
    <3> QED  BY <3>1, <3>3
  <2>3. \A v \in Int : Most(v, l.max) \in Int /\ Most(v, Round(l.max * 7, 10)) \in Int
    BY <2>2 DEF Most
  <2>4. CASE moonlit(h)
    <3>1. out[h] = [dimmed[h] EXCEPT ![Royal] = Most(@, l.max),
                                     ![Cyan] = Most(@, Round(l.max * 7, 10))]
      BY <2>4
    <3> QED  BY <3>1, <2>1, <2>3, ScheduleAssumption DEF Lights
  <2>5. CASE ~moonlit(h)
    BY <2>1, <2>5
  <2> QED  BY <2>4, <2>5
<1> HIDE DEF out
<1>4. Most(master, 0) \in Int
  BY DEF Most
<1>5. \A h \in Hours, x \in Channels : Percent(out[h][x], Most(master, 0)) \in Light
  BY <1>3, <1>4, PercentType
<1> QED  BY <1>1, <1>5 DEF ApplyMaster, Table

\* What normalizeState makes of a store, its own or a backup's, can be stored.
LEMMA StateNormal ==
  ASSUME NEW st, st.master \in Int, st.siesta \in SiestaBodies, st.lunar \in LunarBodies,
         \A h \in Hours, x \in Channels : st.sched[h][x] \in Int
  PROVE  NormalizeState(st) \in Stores
<1> DEFINE rows == [h \in Hours |-> [x \in Channels |-> Clamp(st.sched[h][x], 0, 100)]]
<1>1. rows \in LampTable
  <2>1. \A h \in Hours, x \in Channels : Clamp(st.sched[h][x], 0, 100) \in 0..255
    BY DEF Clamp
  <2> QED  BY <2>1 DEF LampTable
<1>2. (IF st.master <= 0 THEN 100 ELSE st.master) \in Nat
  OBVIOUS
<1>3. NormalizeSiesta(st.siesta) \in SiestaType /\ NormalizeLunar(st.lunar) \in LunarType
  BY SiestaNormal, LunarNormal
<1> QED  BY <1>1, <1>2, <1>3 DEF NormalizeState, Stores

\* The types hold at the start.
LEMMA TInit == Init => TypeInv
<1> SUFFICES ASSUME Init PROVE TypeInv
  OBVIOUS
<1>1. store \in Stores
  <2>1. PICK rows \in Rows \cup {DarkRows}, s \in Siestas, l \in Lunars :
          store = [sched |-> rows, master |-> 100,
                   siesta |-> NormalizeSiesta([s EXCEPT !.on = FALSE]),
                   lunar |-> NormalizeLunar([l EXCEPT !.on = FALSE])]
    BY DEF Init
  <2>2. rows \in Table
    <3>1. 0 \in Light
      BY DEF Light
    <3>2. DarkRows \in Table
      BY <3>1 DEF DarkRows, Table
    <3> QED  BY <3>2, ScheduleAssumption
  <2>3. [s EXCEPT !.on = FALSE] \in SiestaBodies
    <3>1. s \in SiestaBodies
      BY ScheduleAssumption
    <3> QED  BY <3>1 DEF SiestaBodies
  <2>4. [l EXCEPT !.on = FALSE] \in LunarBodies
    <3>1. l \in LunarBodies
      BY ScheduleAssumption
    <3> QED  BY <3>1 DEF LunarBodies
  <2>5. rows \in LampTable
    BY <2>2, TableOfLamp
  <2> QED  BY <2>1, <2>3, <2>4, <2>5, SiestaNormal, LunarNormal DEF Stores
<1>2. fx \in Effects
  <2>1. Clamp(60, 0, MaxSeason) \in 0..MaxSeason
    BY ScheduleAssumption DEF Clamp
  <2> QED  BY <2>1 DEF Init, Effects, AcclimationType, SeasonalType
<1>3. pro \in BOOLEAN /\ day \in Days /\ changes \in 0..MaxChanges
  BY ScheduleAssumption DEF Init, Days
<1> QED  BY <1>1, <1>2, <1>3 DEF TypeInv

\* Every step keeps them: one step per action.
LEMMA TNext == TypeInv /\ [Next]_vars => TypeInv'
<1> SUFFICES ASSUME TypeInv, [Next]_vars PROVE TypeInv'
  OBVIOUS
<1>0. /\ store \in Stores /\ fx \in Effects
      /\ pro \in BOOLEAN /\ day \in Days /\ changes \in 0..MaxChanges
  BY DEF TypeInv
<1>c. Change => changes' \in 0..MaxChanges
  BY <1>0, ScheduleAssumption DEF Change
<1>s. ASSUME store' \in Stores, Change, UNCHANGED <<fx, pro, day>> PROVE TypeInv'
  BY <1>0, <1>c, <1>s DEF TypeInv
<1>r. ASSUME store' \in Stores, pro' \in BOOLEAN, Change, UNCHANGED <<fx, day>>
      PROVE  TypeInv'
  BY <1>0, <1>c, <1>r DEF TypeInv
<1>f. ASSUME fx' \in Effects, Change, UNCHANGED <<store, pro, day>> PROVE TypeInv'
  BY <1>0, <1>c, <1>f DEF TypeInv
<1>1. ASSUME NEW v \in Masters, PostMaster(v) PROVE TypeInv'
  <2>1. v \in Int
    BY ScheduleAssumption
  <2>2. Clamp(v, 0, 200) \in Nat
    BY <2>1 DEF Clamp
  <2>3. store' \in Stores
    BY <1>0, <1>1, <2>2 DEF PostMaster, Stores
  <2> QED  BY <1>s, <1>1, <2>3 DEF PostMaster
<1>2. ASSUME NEW body \in Siestas, PostSiesta(body) PROVE TypeInv'
  <2>1. NormalizeSiesta(body) \in SiestaType
    BY SiestaNormal, ScheduleAssumption
  <2>2. store' \in Stores
    BY <1>0, <1>2, <2>1 DEF PostSiesta, Stores
  <2> QED  BY <1>s, <1>2, <2>2 DEF PostSiesta
<1>3. ASSUME NEW body \in Lunars, PostLunar(body) PROVE TypeInv'
  <2>1. NormalizeLunar(body) \in LunarType
    BY LunarNormal, ScheduleAssumption
  <2>2. store' \in Stores
    BY <1>0, <1>3, <2>1 DEF PostLunar, Stores
  <2> QED  BY <1>s, <1>3, <2>2 DEF PostLunar
<1>4. ASSUME NEW on \in BOOLEAN, SwitchLunar(on) PROVE TypeInv'
  <2>1. NormalizeLunar(store.lunar) \in LunarType
    BY <1>0, StoredNormal DEF Stores
  <2>2. [NormalizeLunar(store.lunar) EXCEPT !.on = on] \in LunarType
    BY <2>1 DEF LunarType
  <2>3. store' \in Stores
    BY <1>0, <1>4, <2>2 DEF SwitchLunar, Stores
  <2> QED  BY <1>s, <1>4, <2>3 DEF SwitchLunar
<1>5. ASSUME NEW on \in BOOLEAN, SwitchRamp(on) PROVE TypeInv'
  <2>1. fx' \in Effects
    BY <1>0, <1>5 DEF SwitchRamp, Effects
  <2> QED  BY <1>f, <1>5, <2>1 DEF SwitchRamp
<1>6. ASSUME NEW body \in Acclimations, NEW m \in {0, DayLen \div 2},
             PostAcclimation(body, m)
      PROVE  TypeInv'
  <2> DEFINE a == fx.acclimation
             on == IF body.on = None THEN a.on ELSE body.on
             from == IF body.from = None THEN a.from ELSE Clamp(body.from, 1, 100)
             days == IF body.days = None THEN a.days ELSE Clamp(body.days, 1, 120)
             restarts == body.on = TRUE /\ (a.start = None \/ body.restart)
             start == IF restarts THEN day * DayLen + m ELSE a.start
  <2>1. a \in AcclimationType
    BY <1>0 DEF Effects
  <2>2. /\ body.on \in BOOLEAN \cup {None} /\ body.from \in Int \cup {None}
        /\ body.days \in Int \cup {None}
    BY ScheduleAssumption
  <2>3. on \in BOOLEAN
    BY <2>1, <2>2 DEF AcclimationType
  <2>4. from \in 1..100
    BY <2>1, <2>2 DEF AcclimationType, Clamp
  <2>5. days \in 1..120
    BY <2>1, <2>2 DEF AcclimationType, Clamp
  <2>6. start \in Nat \cup {None}
    <3>1. day \in Nat /\ m \in Nat /\ DayLen \in Nat
      <4>1. DayLen \div 2 \in Nat
        BY Sizes
      <4> QED  BY <1>0, <4>1, Sizes DEF Days
    <3>2. day * DayLen + m \in Nat
      BY <3>1
    <3> QED  BY <2>1, <3>2 DEF AcclimationType
  <2>7. fx' = [fx EXCEPT !.acclimation = [on |-> on, from |-> from, days |-> days,
                                          start |-> start]]
    BY <1>6 DEF PostAcclimation
  <2> HIDE DEF on, from, days, start
  <2>8. [on |-> on, from |-> from, days |-> days, start |-> start] \in AcclimationType
    BY <2>3, <2>4, <2>5, <2>6 DEF AcclimationType
  <2>9. fx' \in Effects
    BY <1>0, <2>7, <2>8 DEF Effects
  <2> QED  BY <1>f, <1>6, <2>9 DEF PostAcclimation
<1>7. ASSUME NEW body \in Seasons, PostSeasonal(body) PROVE TypeInv'
  <2> DEFINE on == IF body.on = None THEN fx.seasonal.on ELSE body.on
             max == IF body.max = None THEN fx.seasonal.max
                                       ELSE Clamp(body.max, 0, MaxSeason)
  <2>1. fx.seasonal \in SeasonalType
    BY <1>0 DEF Effects
  <2>2. body.on \in BOOLEAN \cup {None} /\ body.max \in Int \cup {None}
    BY ScheduleAssumption
  <2>3. on \in BOOLEAN
    BY <2>1, <2>2 DEF SeasonalType
  <2>4. max \in 0..MaxSeason
    BY <2>1, <2>2, ScheduleAssumption DEF SeasonalType, Clamp
  <2>5. fx' = [fx EXCEPT !.seasonal = [on |-> on, max |-> max]]
    BY <1>7 DEF PostSeasonal
  <2> HIDE DEF on, max
  <2>6. [on |-> on, max |-> max] \in SeasonalType
    BY <2>3, <2>4 DEF SeasonalType
  <2>7. fx' \in Effects
    BY <1>0, <2>5, <2>6 DEF Effects
  <2> QED  BY <1>f, <1>7, <2>7 DEF PostSeasonal
<1>8. ASSUME NEW rows \in Rows, NEW steps \in {0, 1}, NEW dino \in BOOLEAN,
             Push(rows, steps, dino)
      PROVE  TypeInv'
  <2> DEFINE turned == Rotated(rows, steps)
             lunar == [NormalizeLunar(store.lunar) EXCEPT !.on = @ /\ ~dino]
             baked == ApplyMaster(Baked(NormalizeSiesta(store.siesta), lunar, turned),
                                  store.master)
             sent == IF ~fx.ramp THEN Prebaked(EngineConfig, turned, day) ELSE baked
  <2>1. turned \in Table
    BY RotatedType, ScheduleAssumption
  <2>2. lunar \in LunarType
    <3>1. NormalizeLunar(store.lunar) \in LunarType
      BY <1>0, StoredNormal DEF Stores
    <3> DEFINE l == NormalizeLunar(store.lunar)
    <3> HIDE DEF l
    <3>2. l \in LunarType
      BY <3>1 DEF l
    <3>3. [l EXCEPT !.on = @ /\ ~dino] \in LunarType
      BY <3>2 DEF LunarType
    <3> QED  BY <3>3 DEF l
  <2> HIDE DEF turned, lunar
  <2>3. Prebaked(EngineConfig, turned, day) \in Table
    BY <1>0, <2>1, PrebakedType, ConfigType
  <2>4. baked \in Table
    <3>1. NormalizeSiesta(store.siesta) \in SiestaType /\ store.master \in Nat
      BY <1>0, StoredNormal DEF Stores
    <3> QED  BY <2>1, <2>2, <3>1, BakedType
  <2> HIDE DEF baked
  <2>5. sent \in LampTable
    BY <2>3, <2>4, TableOfLamp
  <2>6. store' = [store EXCEPT !.sched = sent, !.lunar = IF dino THEN lunar ELSE @]
    BY <1>8 DEF Push, turned, lunar, baked
  <2> HIDE DEF sent
  <2>7. store' \in Stores
    BY <1>0, <2>2, <2>5, <2>6 DEF Stores
  <2> QED  BY <1>s, <1>8, <2>7 DEF Push
<1>9. CASE ReadLamp
  <2>1. PICK rows \in Rows \cup LampRows \cup {store.sched} :
          store' = [store EXCEPT !.sched = rows, !.master = 100]
    BY <1>9 DEF ReadLamp
  <2>2. rows \in LampTable
    BY <1>0, ScheduleAssumption, TableOfLamp DEF Stores
  <2>3. store' \in Stores
    BY <1>0, <2>1, <2>2 DEF Stores
  <2>4. pro' \in BOOLEAN /\ Change /\ UNCHANGED <<fx, day>>
    BY <1>9 DEF ReadLamp
  <2> QED  BY <1>r, <2>3, <2>4
<1>10. CASE Restart
  <2>1. store' = NormalizeState(store)
    BY <1>10 DEF Restart
  <2>2. /\ store.siesta \in SiestaBodies /\ store.lunar \in LunarBodies
        /\ store.master \in Int
    BY <1>0, StoredNormal DEF Stores
  <2>3. \A h \in Hours, x \in Channels : store.sched[h][x] \in Int
    BY <1>0 DEF Stores, LampTable
  <2>4. store' \in Stores
    BY <2>1, <2>2, <2>3, StateNormal
  <2> QED  BY <1>s, <1>10, <2>4 DEF Restart
<1>13. ASSUME NEW backup \in Backups, Restore(backup) PROVE TypeInv'
  <2>1. backup \in BackupBodies
    BY ScheduleAssumption
  <2>2. /\ backup.siesta \in SiestaBodies /\ backup.lunar \in LunarBodies
        /\ backup.master \in Int /\ backup.pro \in BOOLEAN
        /\ \A h \in Hours, x \in Channels : backup.sched[h][x] \in Int
    BY <2>1 DEF BackupBodies
  <2>3. store' = NormalizeState(backup) /\ pro' = backup.pro /\ Change
        /\ UNCHANGED <<fx, day>>
    BY <1>13 DEF Restore
  <2>4. NormalizeState(backup) \in Stores
    BY <2>2, StateNormal
  <2> QED  BY <1>r, <2>2, <2>3, <2>4
<1>11. CASE NextDay
  <2>1. day' \in Days
    BY <1>0, <1>11, Sizes DEF NextDay, Days
  <2> QED  BY <1>0, <1>11, <2>1 DEF NextDay, TypeInv
<1>12. CASE UNCHANGED vars
  BY <1>0, <1>12 DEF vars, TypeInv
<1> QED  BY <1>1, <1>2, <1>3, <1>4, <1>5, <1>6, <1>7, <1>8, <1>9, <1>10, <1>11, <1>12,
         <1>13 DEF Next

\* The types are kept.
LEMMA TypesKept == Spec => []TypeInv
<1> QED  BY TInit, TNext, PTL DEF Spec

\* What is stored: whatever is posted, pushed with whatever effects, rotated, restored
\* and restarted, siesta and moonlight are within the limits of their normalisation,
\* and rows at most the bytes of a lamp.
THEOREM TypeCorrect == Spec => []TypeOK
<1> QED  BY TypesKept, TypeInvIsType, PTL

-----------------------------------------------------------------------------
(* Shifts                                                                    *)

\* At a whole hour there is nothing between two rows.
LEMMA WholeHour ==
  \A s \in LampTable, k \in Int : Interpolate(s, k * HourLen) = Cut(s)[k % Slots]
<1> SUFFICES ASSUME NEW s \in LampTable, NEW k \in Int
             PROVE  Interpolate(s, k * HourLen) = Cut(s)[k % Slots]
  OBVIOUS
<1>1. (k * HourLen) \div HourLen = k /\ (k * HourLen) % HourLen = 0
  <2>1. k * HourLen \in Int /\ k * HourLen = HourLen * k + 0 /\ 0 < HourLen
    BY Sizes
  <2> QED  BY <2>1, Sizes, DivUnique
<1>2. k % Slots \in Hours /\ ((k % Slots) + 1) % Slots \in Hours
  <2>1. k % Slots \in Hours
    BY Sizes, DivParts
  <2>2. (k % Slots) + 1 \in Int
    BY <2>1, Sizes
  <2> QED  BY <2>1, <2>2, Sizes, DivParts
<1> DEFINE h == k % Slots  next == ((k % Slots) + 1) % Slots
<1>3. Interpolate(s, k * HourLen) =
        [c \in Channels |-> Clamp(Round(s[h][c] * HourLen + 0 * (s[next][c] - s[h][c]),
                                        HourLen), 0, 100)]
  BY <1>1 DEF Interpolate
<1> HIDE DEF h, next
<1>4. ASSUME NEW c \in Channels
      PROVE  Round(s[h][c] * HourLen + 0 * (s[next][c] - s[h][c]), HourLen) = s[h][c]
  <2>1. s[h][c] \in 0..255 /\ s[next][c] \in 0..255
    BY <1>2 DEF LampTable, h, next
  <2>2. s[h][c] \in Nat /\ s[next][c] \in Int
    BY <2>1
  <2>3. s[h][c] * HourLen + 0 * (s[next][c] - s[h][c]) = s[h][c] * HourLen
    BY <2>2, Sizes
  <2>4. Round(s[h][c] * HourLen, HourLen) = s[h][c]
    BY <2>2, Sizes, RoundExact
  <2> QED  BY <2>3, <2>4
<1>5. Cut(s)[h] = [c \in Channels |-> Clamp(s[h][c], 0, 100)]
  BY <1>2 DEF Cut, h
<1> QED  BY <1>3, <1>4, <1>5 DEF h

\* Whole hours wrap around the day as hours do.
LEMMA WrapHours == \A k \in Int : k % Slots \in Hours /\ Wrap(k * HourLen) = (k % Slots) * HourLen
<1> SUFFICES ASSUME NEW k \in Int
             PROVE  k % Slots \in Hours /\ Wrap(k * HourLen) = (k % Slots) * HourLen
  OBVIOUS
<1> DEFINE q == k \div Slots  r == k % Slots
<1>1. q \in Int /\ r \in 0..Slots - 1 /\ k = Slots * q + r
  BY Sizes, DivParts
<1> HIDE DEF q, r
<1>2. k * HourLen = DayLen * q + r * HourLen
  <2>1. Slots \in Int /\ HourLen \in Int /\ r \in Int
    BY <1>1, Sizes
  <2>2. (Slots * q + r) * HourLen = (Slots * HourLen) * q + r * HourLen
    BY <2>1, <1>1
  <2> QED  BY <2>2, <1>1 DEF DayLen
<1>3. r * HourLen \in Int /\ 0 <= r * HourLen /\ r * HourLen < DayLen
  BY <1>1, HourOfDay, Sizes
<1>4. k * HourLen \in Int
  BY Sizes
<1>5. Wrap(k * HourLen) = r * HourLen
  <2> DEFINE a == k * HourLen  e == r * HourLen
  <2>1. a \in Int /\ e \in Int /\ q \in Int /\ DayLen \in Nat \ {0}
        /\ a = DayLen * q + e /\ 0 <= e /\ e < DayLen
    BY <1>1, <1>2, <1>3, <1>4, Sizes
  <2> HIDE DEF a, e
  <2>2. a % DayLen = e
    BY <2>1, DivUnique
  <2> QED  BY <2>2 DEF Wrap, a, e
<1> QED  BY <1>1, <1>5, Sizes DEF r

\* To move the day by whole hours is to rotate the rows, cut off at 100.
LEMMA ShiftIsRotation ==
  \A s \in LampTable, steps \in Int : Shifted(s, steps * HourLen) = Rotated(Cut(s), steps)
<1> SUFFICES ASSUME NEW s \in LampTable, NEW steps \in Int, NEW h \in Hours
             PROVE  Interpolate(s, Wrap(h * HourLen - steps * HourLen))
                      = Cut(s)[(h - steps) % Slots]
  BY DEF Shifted, Rotated
<1>1. h \in Int /\ HourLen \in Int
  BY Sizes
<1>2. h * HourLen - steps * HourLen = (h - steps) * HourLen /\ h - steps \in Int
  BY <1>1
<1> DEFINE r == (h - steps) % Slots
<1>3. r \in Hours /\ Wrap((h - steps) * HourLen) = r * HourLen
  BY <1>2, WrapHours
<1> HIDE DEF r
<1>4. r \in Int /\ r % Slots = r
  BY <1>3, HourItself
<1>5. Interpolate(s, r * HourLen) = Cut(s)[r % Slots]
  BY <1>4, WholeHour
<1> QED  BY <1>2, <1>3, <1>4, <1>5 DEF r

\* The two ways to move a day agree, for every store, lengths of day and hour.
THEOREM ShiftsAgreeCorrect == Spec => []ShiftsAgree
<1>1. TypeInv => ShiftsAgree
  <2> SUFFICES ASSUME TypeInv, NEW steps \in -Slots..Slots
               PROVE  Shifted(store.sched, steps * HourLen)
                        = Rotated(NormalizeState(store).sched, steps)
    BY DEF ShiftsAgree
  <2>1. store.sched \in LampTable /\ steps \in Int
    BY Sizes DEF TypeInv, Stores
  <2>2. NormalizeState(store).sched = Cut(store.sched)
    BY DEF NormalizeState, Cut
  <2> QED  BY <2>1, <2>2, ShiftIsRotation
<1> QED  BY <1>1, TypesKept, PTL

-----------------------------------------------------------------------------
(* Moonlight                                                                 *)

\* The table of a day that nothing moves or dims is the base.
LEMMA PlainEffective ==
  ASSUME NEW c \in Configs, NEW s \in Table, NEW t \in Int,
         SeasonalShift(c, t) = 0, AcclimationPercent(c, t) = 100
  PROVE  EffectiveSchedule(c, s, t) = s
<1>1. Shifted(s, 0) = s
  <2>1. Shifted(s, 0 * HourLen) = Rotated(s, 0) /\ 0 * HourLen = 0
    BY Sizes, ShiftIsRotation, TableOfLamp, CutSame
  <2>2. \A h \in Hours : (h - 0) % Slots = h
    BY HourItself
  <2>3. Rotated(s, 0) = [h \in Hours |-> s[h]]
    BY <2>2 DEF Rotated
  <2> QED  BY <2>1, <2>3 DEF Table
<1>2. EffectiveSchedule(c, s, t) = [h \in Hours |-> [x \in Channels |-> Percent(s[h][x], 100)]]
  BY <1>1 DEF EffectiveSchedule
<1>3. \A h \in Hours, x \in Channels : Percent(s[h][x], 100) = s[h][x]
  BY PercentAll DEF Table
<1>4. \A h \in Hours : [x \in Channels |-> Percent(s[h][x], 100)] = s[h]
  BY <1>3 DEF Table
<1>5. s = [h \in Hours |-> s[h]]
  BY DEF Table
<1>6. [h \in Hours |-> [x \in Channels |-> Percent(s[h][x], 100)]] = [h \in Hours |-> s[h]]
  BY <1>4
<1> QED  BY <1>2, <1>5, <1>6

\* Moonlight in rows at hour h: what Compute makes of a row when there is nothing else.
Moonlit(c, row, t) ==
  LET w == LunarWindow(c, t)
  IN IF /\ c.lunar.on /\ InTimeWindow(Wrap(t), w.start, w.end)
        /\ \A x \in Channels : row[x] <= Clamp(c.lunar.threshold, 0, 100)
     THEN Lunar(c, row, t) ELSE row

LEMMA PlainCompute ==
  ASSUME NEW c \in Configs, NEW s \in Table, NEW d \in Days, NEW h \in Hours,
         NEW t \in Int, t = d * DayLen + h * HourLen,
         c.master = 100, ~c.siesta.on,
         SeasonalShift(c, t) = 0, AcclimationPercent(c, t) = 100
  PROVE  Compute(c, s, t) = Moonlit(c, s[h], t)
<1>1. EffectiveSchedule(c, s, t) = s
  BY PlainEffective
<1>2. Wrap(t) = h * HourLen
  <2>1. d \in Nat /\ h * HourLen \in Minutes
    BY Sizes, HourOfDay DEF Days
  <2> QED  BY <2>1, MinuteOfDay
<1>3. Interpolate(s, Wrap(t)) = s[h]
  <2>1. h \in Int /\ h % Slots = h
    BY HourItself
  <2>3. Interpolate(s, h * HourLen) = s[h % Slots]
    BY <2>1, WholeHour, TableOfLamp, CutSame
  <2> QED  BY <1>2, <2>1, <2>3
<1>4. Master(c, Siesta(c, s[h], t)) = s[h]
  BY DEF Master, Siesta, SiestaActive
<1>5. LunarActive(c, s, t) <=>
        LET w == LunarWindow(c, t)
        IN /\ c.lunar.on /\ InTimeWindow(Wrap(t), w.start, w.end)
           /\ \A x \in Channels : s[h][x] <= Clamp(c.lunar.threshold, 0, 100)
  BY <1>3 DEF LunarActive
<1> QED  BY <1>1, <1>3, <1>4, <1>5 DEF Compute, Moonlit

\* Moonlight is a floor: where it is, it changes nothing.
LEMMA MoonlitOnce ==
  ASSUME NEW c \in Configs, NEW row \in Lights, NEW t \in Int, Day(t) \in Days
  PROVE  Moonlit(c, Moonlit(c, row, t), t) = Moonlit(c, row, t)
<1> DEFINE m == MoonLevel(c, t)  n == SeventyPercent(m)
<1>1. m \in Int /\ n \in Int
  BY MoonType
<1>2. \A x \in Channels : row[x] \in Int
  BY DEF Lights, Light
<1>3. Royal \in Channels /\ Cyan \in Channels /\ Royal # Cyan
  BY ScheduleAssumption
<1> DEFINE lit == Lunar(c, row, t)
<1>4. lit = [row EXCEPT ![Royal] = Most(row[Royal], m),
                        ![Cyan] = IF c.pro THEN Most(row[Cyan], n) ELSE row[Cyan]]
  BY <1>3 DEF Lunar
<1> HIDE DEF m, n
<1>5. /\ DOMAIN lit = Channels
      /\ lit[Royal] = Most(row[Royal], m)
      /\ lit[Cyan] = IF c.pro THEN Most(row[Cyan], n) ELSE row[Cyan]
  BY <1>3, <1>4 DEF Lights
<1> HIDE DEF lit
<1>6. Most(lit[Royal], m) = lit[Royal] /\ (c.pro => Most(lit[Cyan], n) = lit[Cyan])
  BY <1>1, <1>2, <1>3, <1>5 DEF Most
<1>7. Lunar(c, lit, t) = [lit EXCEPT ![Royal] = Most(lit[Royal], m),
                                     ![Cyan] = IF c.pro THEN Most(lit[Cyan], n)
                                                        ELSE lit[Cyan]]
  BY <1>3 DEF Lunar, m, n
<1>8. Lunar(c, lit, t) = lit
  <2>1. lit = [x \in Channels |-> lit[x]]
    BY <1>3, <1>4, <1>5 DEF Lights
  <2> QED  BY <1>3, <1>6, <1>7, <2>1
<1>9. Moonlit(c, row, t) \in {row, lit}
  BY DEF Moonlit, lit
<1>10. CASE Moonlit(c, row, t) = row
  BY <1>10
<1>11. CASE Moonlit(c, row, t) = lit
  <2>1. Moonlit(c, lit, t) \in {lit, Lunar(c, lit, t)}
    BY DEF Moonlit
  <2> QED  BY <1>8, <1>11, <2>1
<1> QED  BY <1>9, <1>10, <1>11

\* Where nothing but moonlight is to be folded in, a second push folds nothing in.
LEMMA PrebakedOnce ==
  ASSUME TypeInv, OnlyMoonlight, NEW rows \in Table
  PROVE  LET sent == Prebaked(EngineConfig, rows, day)
         IN Prebaked(EngineConfig, sent, day) = sent
<1> DEFINE c == EngineConfig  sent == Prebaked(c, rows, day)
           t(h) == day * DayLen + h * HourLen
<1>1. c \in Configs /\ day \in Days
  BY ConfigType DEF TypeInv
<1>2. sent \in Table
  BY <1>1, PrebakedType
<1>3. c.master = 100 /\ ~c.siesta.on
  BY DEF OnlyMoonlight, EngineConfig, ConfigOf
<1>4. ASSUME NEW h \in Hours
      PROVE  /\ t(h) \in Int /\ Day(t(h)) = day
             /\ SeasonalShift(c, t(h)) = 0 /\ AcclimationPercent(c, t(h)) = 100
  <2>1. day \in Nat /\ DayLen \in Nat \ {0} /\ 0 \in Minutes
    BY <1>1, Sizes DEF Days
  <2>2. t(h) \in Int /\ Day(t(h)) = day
    <3> DEFINE m == h * HourLen
    <3>1. m \in Minutes
      BY HourOfDay
    <3> HIDE DEF m
    <3>2. day * DayLen + m \in Nat /\ Day(day * DayLen + m) = day
      BY <2>1, <3>1, MinuteOfDay
    <3> QED  BY <3>2 DEF m
  <2>3. Day(day * DayLen) = day
    <3>1. Day(day * DayLen + 0) = day /\ day * DayLen + 0 = day * DayLen
      BY <2>1, MinuteOfDay
    <3> QED  BY <3>1
  <2>4. SeasonalShift(c, t(h)) = SeasonalShift(c, day * DayLen)
    BY <2>2, <2>3 DEF SeasonalShift
  <2> QED  BY <2>2, <2>4 DEF OnlyMoonlight
<1> HIDE DEF c, sent
<1>5. ASSUME NEW s \in Table, NEW h \in Hours
      PROVE  Compute(c, s, t(h)) = Moonlit(c, s[h], t(h))
  BY <1>1, <1>3, <1>4, PlainCompute
<1>6. sent = [h \in Hours |-> Moonlit(c, rows[h], t(h))]
  BY <1>5 DEF Prebaked, sent
<1>7. Prebaked(c, sent, day) = [h \in Hours |-> Moonlit(c, sent[h], t(h))]
  BY <1>2, <1>5 DEF Prebaked
<1>8. ASSUME NEW h \in Hours PROVE Moonlit(c, sent[h], t(h)) = sent[h]
  <2>1. rows[h] \in Lights
    BY DEF Table, Lights
  <2>2. Moonlit(c, Moonlit(c, rows[h], t(h)), t(h)) = Moonlit(c, rows[h], t(h))
    BY <1>1, <1>4, <2>1, MoonlitOnce
  <2>3. sent[h] = Moonlit(c, rows[h], t(h))
    BY <1>6
  <2> QED  BY <2>2, <2>3
<1>9. Prebaked(c, sent, day) = [h \in Hours |-> sent[h]]
  BY <1>7, <1>8
<1> QED  BY <1>2, <1>9 DEF Table, c, sent

\* Moonlight that is folded into rows that have it already neither grows nor goes
\* away, for every phase of the moon, window, threshold and pair of channels.
THEOREM MoonlightOnceCorrect == Spec => MoonlightOnce
<1>1. TypeInv /\ [Next]_vars =>
        [(\E rows \in Rows, steps \in {0, 1} : Push(rows, steps, FALSE))
           /\ ~fx.ramp /\ OnlyMoonlight
             => Prebaked(EngineConfig, store.sched', day) = store.sched']_vars
  <2> SUFFICES ASSUME TypeInv, NEW rows \in Rows, NEW steps \in {0, 1},
                      Push(rows, steps, FALSE), ~fx.ramp, OnlyMoonlight
               PROVE  Prebaked(EngineConfig, store.sched', day) = store.sched'
    OBVIOUS
  <2> DEFINE turned == Rotated(rows, steps)
  <2>1. turned \in Table
    BY RotatedType, ScheduleAssumption
  <2>2. store.sched' = Prebaked(EngineConfig, turned, day)
    <3>1. store' = [store EXCEPT !.sched = Prebaked(EngineConfig, turned, day),
                                 !.lunar = @]
      BY DEF Push
    <3>2. store \in Stores
      BY DEF TypeInv
    <3> HIDE DEF turned
    <3> QED  BY <3>1, <3>2 DEF Stores
  <2> HIDE DEF turned
  <2> QED  BY <2>1, <2>2, PrebakedOnce
<1> QED  BY <1>1, TypesKept, PTL DEF Spec, MoonlightOnce

-----------------------------------------------------------------------------
(* Acclimation                                                               *)

\* A weighted mean keeps the order of what it is made of.
LEMMA Mix ==
  ASSUME NEW H \in Nat \ {0}, NEW k \in 0..H - 1,
         NEW lo \in Nat, NEW hi \in Nat, NEW lo2 \in Nat, NEW hi2 \in Nat,
         lo <= lo2, hi <= hi2
  PROVE  /\ lo * H + k * (hi - lo) \in Nat /\ lo2 * H + k * (hi2 - lo2) \in Nat
         /\ lo * H + k * (hi - lo) <= lo2 * H + k * (hi2 - lo2)
<1> DEFINE g == H - k
<1>1. g \in Nat /\ k \in Nat /\ H = g + k
  OBVIOUS
<1> HIDE DEF g
<1>2. /\ lo * H + k * (hi - lo) = lo * g + hi * k
      /\ lo2 * H + k * (hi2 - lo2) = lo2 * g + hi2 * k
  BY <1>1
<1>3. lo * g <= lo2 * g /\ hi * k <= hi2 * k
  BY <1>1, MulMono
<1>4. lo * g \in Nat /\ hi * k \in Nat /\ lo2 * g \in Nat /\ hi2 * k \in Nat
  BY <1>1
<1> QED  BY <1>2, <1>3, <1>4

\* One table nowhere darker than another.
Under(s, r) == \A h \in Hours, x \in Channels : s[h][x] <= r[h][x]

\* Then it is not darker between the rows either.
LEMMA InterpolateMono ==
  ASSUME NEW s \in LampTable, NEW r \in LampTable, Under(s, r), NEW m \in Int, NEW c \in Channels
  PROVE  Interpolate(s, m)[c] <= Interpolate(r, m)[c]
<1> DEFINE h == (m \div HourLen) % Slots
           next == (h + 1) % Slots
           k == m % HourLen
<1>1. h \in Hours /\ next \in Hours /\ k \in 0..HourLen - 1
  <2>1. m \div HourLen \in Int
    BY Sizes, DivParts
  <2>2. h \in Hours
    BY <2>1, Sizes, DivParts
  <2>3. k \in 0..HourLen - 1
    BY Sizes, DivParts
  <2> HIDE DEF h, k
  <2>4. h + 1 \in Int
    BY <2>2, Sizes
  <2> QED  BY <2>2, <2>3, <2>4, Sizes, DivParts
<1> HIDE DEF h, next, k
<1> DEFINE a == s[h][c] * HourLen + k * (s[next][c] - s[h][c])
           b == r[h][c] * HourLen + k * (r[next][c] - r[h][c])
<1>2. a \in Nat /\ b \in Nat /\ a <= b
  <2>2. s[h][c] \in Nat /\ s[next][c] \in Nat /\ r[h][c] \in Nat /\ r[next][c] \in Nat
    BY <1>1, LampByte
  <2>3. s[h][c] <= r[h][c] /\ s[next][c] <= r[next][c]
    BY <1>1 DEF Under
  <2> QED  BY <1>1, <2>2, <2>3, Sizes, Mix
<1>3. /\ Interpolate(s, m)[c] = Clamp(Round(a, HourLen), 0, 100)
      /\ Interpolate(r, m)[c] = Clamp(Round(b, HourLen), 0, 100)
  BY DEF Interpolate, h, next, k
<1> HIDE DEF a, b
<1>4. /\ Round(a, HourLen) \in Int /\ Round(b, HourLen) \in Int
      /\ Round(a, HourLen) <= Round(b, HourLen)
  BY <1>2, Sizes, RoundType, RoundMono
<1> QED  BY <1>3, <1>4 DEF Clamp

\* A day later acclimation gives no less, before, during and after it.
LEMMA AcclimationMono ==
  \A c \in Configs, t \in Int :
    AcclimationPercent(c, t) <= AcclimationPercent(c, t + DayLen)
<1> SUFFICES ASSUME NEW c \in Configs, NEW t \in Int
             PROVE  AcclimationPercent(c, t) <= AcclimationPercent(c, t + DayLen)
  OBVIOUS
<1> DEFINE a == c.acclimation
           e == (t - a.start) \div DayLen
           f == ((t + DayLen) - a.start) \div DayLen
           part(n) == a.from * a.days + (100 - a.from) * n
<1>1. a.from \in 1..100 /\ a.days \in 1..120 /\ a.start \in Nat \cup {None}
  BY DEF Configs, AcclimationType
<1>2. AcclimationPercent(c, t) \in 1..100 /\ AcclimationPercent(c, t + DayLen) \in 1..100
  BY AcclimationRange, Sizes
<1>3. CASE ~a.on \/ a.from >= 100 \/ a.days <= 0
  BY <1>3 DEF AcclimationPercent
<1>4. CASE a.start = None
  BY <1>1, <1>4 DEF AcclimationPercent
<1>5. CASE a.on /\ a.from < 100 /\ a.start \in Nat /\ a.start # None
  <2>1. e \in Int /\ f \in Int /\ e <= f
    <3>1. /\ t - a.start \in Int /\ (t + DayLen) - a.start \in Int
          /\ t - a.start <= (t + DayLen) - a.start
      BY <1>5, Sizes
    <3> QED  BY <3>1, Sizes, DivParts, DivMono
  <2>2. /\ AcclimationPercent(c, t) =
             IF t < a.start \/ e <= 0 THEN a.from
             ELSE IF e >= a.days THEN 100 ELSE Clamp(Round(part(e), a.days), 1, 100)
        /\ AcclimationPercent(c, t + DayLen) =
             IF t + DayLen < a.start \/ f <= 0 THEN a.from
             ELSE IF f >= a.days THEN 100 ELSE Clamp(Round(part(f), a.days), 1, 100)
    BY <1>1, <1>5 DEF AcclimationPercent
  <2> HIDE DEF e, f
  \* With the days the part grows, and begins at from.
  <2>3. ASSUME NEW n \in Int, NEW o \in Int, 0 <= n, n <= o
        PROVE  /\ Round(part(n), a.days) \in Int /\ Round(part(o), a.days) \in Int
               /\ Round(part(n), a.days) <= Round(part(o), a.days)
               /\ a.from <= Round(part(o), a.days)
    <3> DEFINE g == 100 - a.from  d == a.days  fr == a.from
    <3>1. g \in Nat /\ d \in Nat \ {0} /\ fr \in Nat
      BY <1>1
    <3>2. part(n) = fr * d + g * n /\ part(o) = fr * d + g * o
      OBVIOUS
    <3> HIDE DEF a, g, d, fr, part
    <3>3. g * n = n * g /\ g * o = o * g /\ n * g <= o * g /\ 0 * g <= o * g /\ 0 * g = 0
      BY <2>3, <3>1, MulMono
    <3>4. fr * d \in Nat /\ g * n \in Nat /\ g * o \in Nat
      BY <2>3, <3>1
    <3>5. /\ part(n) \in Nat /\ part(o) \in Nat /\ part(n) <= part(o)
          /\ fr * d <= part(o)
      BY <3>2, <3>3, <3>4
    <3>6. /\ Round(part(n), d) \in Int /\ Round(part(o), d) \in Int
          /\ Round(part(n), d) <= Round(part(o), d)
      BY <3>1, <3>5, RoundType, RoundMono
    <3>7. Round(fr * d, d) <= Round(part(o), d) /\ Round(fr * d, d) = fr
      BY <3>1, <3>4, <3>5, RoundMono, RoundExact
    <3> QED  BY <3>6, <3>7 DEF d, fr
  <2> HIDE DEF part, a
  <2>4. CASE t + DayLen < a.start \/ f <= 0
    <3>1. t < a.start \/ e <= 0
      BY <1>5, <2>1, <2>4, Sizes
    <3> QED  BY <1>1, <2>2, <2>4, <3>1
  <2>5. CASE ~(t + DayLen < a.start \/ f <= 0) /\ f >= a.days
    BY <1>2, <2>2, <2>5
  <2>6. CASE ~(t + DayLen < a.start \/ f <= 0) /\ ~(f >= a.days)
    <3>1. AcclimationPercent(c, t + DayLen) = Clamp(Round(part(f), a.days), 1, 100)
      BY <2>2, <2>6
    <3>2. CASE t < a.start \/ e <= 0
      <4>1. /\ AcclimationPercent(c, t) = a.from /\ Round(part(f), a.days) \in Int
            /\ a.from <= Round(part(f), a.days)
        BY <2>1, <2>2, <2>3, <2>6, <3>2
      <4> QED  BY <3>1, <4>1, <1>1 DEF Clamp
    <3>3. CASE ~(t < a.start \/ e <= 0)
      <4>1. AcclimationPercent(c, t) = Clamp(Round(part(e), a.days), 1, 100)
        BY <1>1, <2>1, <2>2, <2>6, <3>3
      <4>2. /\ Round(part(e), a.days) \in Int /\ Round(part(f), a.days) \in Int
            /\ Round(part(e), a.days) <= Round(part(f), a.days)
        BY <2>1, <2>3, <3>3
      <4> QED  BY <3>1, <4>1, <4>2 DEF Clamp
    <3> QED  BY <3>2, <3>3
  <2> QED  BY <2>4, <2>5, <2>6
<1> QED  BY <1>1, <1>3, <1>4, <1>5

\* The time of day is the same a day later.
LEMMA WrapDay == \A t \in Int : Wrap(t + DayLen) = Wrap(t)
<1> SUFFICES ASSUME NEW t \in Int PROVE Wrap(t + DayLen) = Wrap(t)
  OBVIOUS
<1> DEFINE q == t \div DayLen  r == t % DayLen
<1>1. q \in Int /\ r \in 0..DayLen - 1 /\ t = DayLen * q + r /\ DayLen \in Nat \ {0}
  BY Sizes, DivParts
<1> HIDE DEF q, r
<1>2. t + DayLen = DayLen * (q + 1) + r /\ q + 1 \in Int /\ r \in Int
      /\ 0 <= r /\ r < DayLen /\ t + DayLen \in Int
  BY <1>1
<1>3. (t + DayLen) % DayLen = r
  BY <1>1, <1>2, DivUnique
<1> QED  BY <1>3 DEF Wrap, r

\* What dims the light keeps its order.
LEMMA DimmedMono ==
  ASSUME NEW c \in Configs, NEW u \in Lights, NEW v \in Lights,
         \A x \in Channels : u[x] <= v[x], NEW t, NEW t2,
         SiestaActive(c, t) <=> SiestaActive(c, t2)
  PROVE  \A x \in Channels :
           Master(c, Siesta(c, u, t))[x] <= Master(c, Siesta(c, v, t2))[x]
<1> DEFINE p == 100 - Clamp(c.siesta.depth, 0, 100)
<1>1. p \in Nat
  <2>1. c.siesta.depth \in 1..90
    BY DEF Configs, SiestaType
  <2> QED  BY <2>1 DEF Clamp
<1> HIDE DEF p
<1>3. \A x \in Channels : u[x] \in Nat /\ v[x] \in Nat
  BY DEF Lights, Light
<1> DEFINE du == Siesta(c, u, t)  dv == Siesta(c, v, t2)
<1>4. \A x \in Channels : du[x] \in Nat /\ dv[x] \in Nat /\ du[x] <= dv[x]
  <2>1. CASE SiestaActive(c, t)
    <3> TAKE x \in Channels
    <3>1. du[x] = Percent(u[x], p) /\ dv[x] = Percent(v[x], p)
      BY <2>1 DEF Siesta, p
    <3>2. Percent(u[x], p) <= Percent(v[x], p)
      BY <1>1, <1>3, PercentMono
    <3>3. Percent(u[x], p) \in Light /\ Percent(v[x], p) \in Light
      BY <1>1, <1>3, PercentType
    <3> QED  BY <3>1, <3>2, <3>3 DEF Light
  <2>2. CASE ~SiestaActive(c, t)
    BY <1>3, <2>2 DEF Siesta
  <2> QED  BY <2>1, <2>2
<1> HIDE DEF du, dv
<1>5. ASSUME NEW x \in Channels PROVE Master(c, du)[x] <= Master(c, dv)[x]
  <2>1. CASE c.master = 100
    BY <1>4, <2>1 DEF Master
  <2>2. CASE c.master # 100
    <3>1. /\ Master(c, du)[x] = Least(Round(du[x] * c.master, 100), 100)
          /\ Master(c, dv)[x] = Least(Round(dv[x] * c.master, 100), 100)
      BY <2>2 DEF Master
    <3> DEFINE i == du[x] * c.master  j == dv[x] * c.master
    <3>2. i \in Nat /\ j \in Nat /\ i <= j /\ 100 \in Nat \ {0}
      <4>1. c.master \in Nat /\ du[x] \in Nat /\ dv[x] \in Nat /\ du[x] <= dv[x]
        BY <1>4 DEF Configs
      <4> QED  BY <4>1, MulMono
    <3> HIDE DEF i, j
    <3>3. Round(i, 100) \in Int /\ Round(j, 100) \in Int /\ Round(i, 100) <= Round(j, 100)
      BY <3>2, RoundType, RoundMono
    <3> QED  BY <3>1, <3>3 DEF Least, i, j
  <2> QED  BY <2>1, <2>2
<1> QED  BY <1>5 DEF du, dv

\* The light at one time and a day later, with neither moonlight nor the season.
LEMMA ComputeMono ==
  ASSUME NEW c \in Configs, NEW s \in LampTable, NEW t \in Int,
         Day(t) \in Days, Day(t + DayLen) \in Days, ~c.seasonal.on, ~c.lunar.on
  PROVE  \A x \in Channels : Compute(c, s, t)[x] <= Compute(c, s, t + DayLen)[x]
<1> DEFINE u == t + DayLen
           eff == EffectiveSchedule(c, s, t)  eff2 == EffectiveSchedule(c, s, u)
           w == Wrap(t)
<1>1. u \in Int /\ Wrap(u) = w /\ w \in Int
  <2>1. u \in Int
    BY Sizes
  <2>2. Wrap(u) = w
    BY WrapDay
  <2>3. w \in Int
    BY Sizes, DivParts DEF Wrap
  <2> QED  BY <2>1, <2>2, <2>3
<1>2. eff \in Table /\ eff2 \in Table
  BY <1>1, EffectiveType
<1>3. Under(eff, eff2)
  <2> DEFINE z == Shifted(s, 0)
             p == AcclimationPercent(c, t)  q == AcclimationPercent(c, u)
  <2>1. SeasonalShift(c, t) = 0 /\ SeasonalShift(c, u) = 0
    BY DEF SeasonalShift
  <2>2. z \in Table
    BY ShiftedType
  <2>3. p \in 1..100 /\ q \in 1..100 /\ p <= q
    BY <1>1, AcclimationRange, AcclimationMono
  <2>4. /\ eff = [h \in Hours |-> [x \in Channels |-> Percent(z[h][x], p)]]
        /\ eff2 = [h \in Hours |-> [x \in Channels |-> Percent(z[h][x], q)]]
    BY <2>1 DEF EffectiveSchedule
  <2> HIDE DEF z, p, q, eff, eff2
  <2>5. ASSUME NEW h \in Hours, NEW x \in Channels PROVE eff[h][x] <= eff2[h][x]
    <3>1. z[h][x] \in Light
      BY <2>2 DEF Table
    <3>2. z[h][x] \in Nat /\ p \in Nat /\ q \in Nat
      BY <2>3, <3>1 DEF Light
    <3>3. Percent(z[h][x], p) <= Percent(z[h][x], q)
      BY <2>3, <3>2, PercentMono
    <3> QED  BY <2>4, <3>3
  <2> QED  BY <2>5 DEF Under
<1> HIDE DEF eff, eff2
<1> DEFINE a == Interpolate(eff, w)  b == Interpolate(eff2, w)
<1>4. a \in Lights /\ b \in Lights /\ \A x \in Channels : a[x] <= b[x]
  BY <1>1, <1>2, <1>3, InterpolateType, InterpolateMono, TableOfLamp
<1>5. ~LunarActive(c, eff, t) /\ ~LunarActive(c, eff2, u)
  BY DEF LunarActive
<1>6. /\ Compute(c, s, t) = Master(c, Siesta(c, a, t))
      /\ Compute(c, s, u) = Master(c, Siesta(c, b, u))
  BY <1>1, <1>5 DEF Compute, eff, eff2
<1> HIDE DEF a, b
<1>7. SiestaActive(c, t) <=> SiestaActive(c, u)
  <2>1. SeasonalShift(c, t) = 0 /\ SeasonalShift(c, u) = 0
    BY DEF SeasonalShift
  <2> QED  BY <1>1, <2>1 DEF SiestaActive
<1> QED  BY <1>4, <1>6, <1>7, DimmedMono

\* Acclimation brings the light up: no minute of tomorrow is darker than it is today,
\* for every schedule, siesta, master, length and start of acclimation.
THEOREM BrighterByTheDayCorrect == Spec => []BrighterByTheDay
<1>1. TypeInv => BrighterByTheDay
  <2> SUFFICES ASSUME TypeInv, day < MaxDay, ~store.lunar.on, ~fx.seasonal.on,
                      NEW m \in Minutes
               PROVE  \A x \in Channels : LightNow(m)[x] <= LightNow(m + DayLen)[x]
    BY DEF BrighterByTheDay
  <2> DEFINE c == EngineConfig  t == day * DayLen + m
  <2>1. c \in Configs /\ ~c.seasonal.on /\ ~c.lunar.on
    <3>1. store.lunar \in LunarType
      BY DEF TypeInv, Stores
    <3>2. ~c.seasonal.on
      BY DEF EngineConfig, ConfigOf
    <3>3. c.lunar.on = store.lunar.on
      BY <3>1 DEF EngineConfig, ConfigOf, LunarType
    <3> QED  BY <3>2, <3>3, ConfigType
  <2>2. store.sched \in LampTable /\ day \in Nat /\ day \in Days /\ day + 1 \in Days
    BY Sizes DEF TypeInv, Stores, Days
  <2>3. t \in Int /\ Day(t) \in Days
    BY <2>2, MinuteOfDay
  <2>4. /\ day * DayLen + (m + DayLen) = t + DayLen
        /\ (day + 1) * DayLen + m = t + DayLen
    BY <2>2, Sizes
  <2>5. Day(t + DayLen) \in Days
    <3>1. day + 1 \in Nat
      BY <2>2
    <3>2. Day((day + 1) * DayLen + m) = day + 1
      BY <3>1, MinuteOfDay
    <3> QED  BY <2>2, <2>4, <3>2
  <2>6. \A x \in Channels : Compute(c, store.sched, t)[x]
                              <= Compute(c, store.sched, t + DayLen)[x]
    <3> HIDE DEF c, t
    <3> QED  BY <2>1, <2>2, <2>3, <2>5, ComputeMono
  <2> QED  BY <2>4, <2>6 DEF LightNow
<1> QED  BY <1>1, TypesKept, PTL

-----------------------------------------------------------------------------
(* Restarts                                                                  *)

\* What a start makes of the store: only a master of 0 is loaded as another number,
\* and EngineSnapshot takes the one for the other; the rows are cut off.
LEMMA Loaded ==
  ASSUME TypeInv, NEW m \in Minutes
  PROVE  LightAfterRestart(m) = Compute(EngineConfig, Cut(store.sched), day * DayLen + m)
<1> DEFINE loaded == NormalizeState(store)
<1>1. /\ store.master \in Nat /\ store.siesta \in SiestaType /\ store.lunar \in LunarType
  BY DEF TypeInv, Stores
<1>2. /\ loaded.sched = Cut(store.sched)
      /\ loaded.master = IF store.master <= 0 THEN 100 ELSE store.master
      /\ loaded.siesta = NormalizeSiesta(store.siesta)
      /\ loaded.lunar = NormalizeLunar(store.lunar)
  BY DEF NormalizeState, Cut
<1> HIDE DEF loaded
<1>3. loaded.siesta = store.siesta /\ loaded.lunar = store.lunar
  BY <1>1, <1>2, StoredNormal
<1>4. (IF loaded.master > 0 THEN loaded.master ELSE 100)
        = (IF store.master > 0 THEN store.master ELSE 100)
  BY <1>1, <1>2
<1>5. ConfigOf(loaded) = EngineConfig
  BY <1>3, <1>4 DEF ConfigOf, EngineConfig
<1> QED  BY <1>2, <1>5 DEF LightAfterRestart, loaded

\* The time of a minute of today.
LEMMA Today ==
  ASSUME TypeInv, NEW m \in Minutes
  PROVE  /\ day * DayLen + m \in Int /\ Day(day * DayLen + m) = day
         /\ Day(day * DayLen + m) \in Days
         /\ SeasonalShift(EngineConfig, day * DayLen + m)
              = SeasonalShift(EngineConfig, day * DayLen)
<1>1. day \in Nat /\ day \in Days /\ DayLen \in Nat \ {0} /\ 0 \in Minutes
  BY Sizes DEF TypeInv, Days
<1>2. day * DayLen + m \in Int /\ Day(day * DayLen + m) = day
  BY <1>1, MinuteOfDay
<1>3. Day(day * DayLen) = day
  <2>1. Day(day * DayLen + 0) = day /\ day * DayLen + 0 = day * DayLen
    BY <1>1, MinuteOfDay
  <2> QED  BY <2>1
<1> QED  BY <1>1, <1>2, <1>3 DEF SeasonalShift

\* A restart does not change the light, though it cuts off rows a read has stored
\* above 100, unless the season moves them by a part of an hour.
THEOREM RestartSameLightCorrect == Spec => []RestartSameLight
<1>1. TypeInv => RestartSameLight
  <2> SUFFICES ASSUME TypeInv, NEW m \in Minutes,
                      \/ store.sched \in Table
                      \/ SeasonalShift(EngineConfig, day * DayLen) % HourLen = 0
               PROVE  LightAfterRestart(m) = LightNow(m)
    BY DEF RestartSameLight
  <2> DEFINE c == EngineConfig  s == store.sched  t == day * DayLen + m
             shift == SeasonalShift(c, t)
  <2>1. c \in Configs /\ s \in LampTable /\ t \in Int /\ Day(t) \in Days
    BY ConfigType, Today DEF TypeInv, Stores
  <2>2. Shifted(Cut(s), shift) = Shifted(s, shift)
    <3>1. CASE s \in Table
      BY <3>1, CutSame
    <3>2. CASE SeasonalShift(EngineConfig, day * DayLen) % HourLen = 0
      <4>1. shift \in Int /\ shift % HourLen = 0
        BY <2>1, <3>2, ShiftInt, Today
      <4> HIDE DEF shift, s
      <4> DEFINE k == shift \div HourLen
      <4>2. k \in Int /\ shift = HourLen * k + (shift % HourLen)
        BY <4>1, Sizes, DivParts
      <4> HIDE DEF k
      <4>3. shift = k * HourLen
        BY <4>1, <4>2, Sizes
      <4>4. Cut(s) \in Table /\ Cut(s) \in LampTable
        BY <2>1, CutType, TableOfLamp
      <4>5. /\ Shifted(s, k * HourLen) = Rotated(Cut(s), k)
            /\ Shifted(Cut(s), k * HourLen) = Rotated(Cut(Cut(s)), k)
        BY <2>1, <4>2, <4>4, ShiftIsRotation
      <4> QED  BY <4>3, <4>4, <4>5, CutSame
    <3> QED  BY <3>1, <3>2
  <2>3. EffectiveSchedule(c, Cut(s), t) = EffectiveSchedule(c, s, t)
    BY <2>2 DEF EffectiveSchedule
  <2>4. Compute(c, Cut(s), t) = Compute(c, s, t)
    <3> HIDE DEF c, s, t
    <3> QED  BY <2>3 DEF Compute
  <2> QED  BY <2>4, Loaded DEF LightNow
<1> QED  BY <1>1, TypesKept, PTL

\* With rows a read has stored above 100 a restart brightens no channel, for every
\* season, siesta, master and acclimation, as long as moonlight is off.
THEOREM RestartNeverBrightensCorrect == Spec => []RestartNeverBrightens
<1>1. TypeInv => RestartNeverBrightens
  <2> SUFFICES ASSUME TypeInv, ~store.lunar.on, NEW m \in Minutes, NEW x \in Channels
               PROVE  LightAfterRestart(m)[x] <= LightNow(m)[x]
    BY DEF RestartNeverBrightens
  <2> DEFINE c == EngineConfig  s == store.sched  t == day * DayLen + m
             shift == SeasonalShift(c, t)  p == AcclimationPercent(c, t)  w == Wrap(t)
             u == Shifted(Cut(s), shift)  v == Shifted(s, shift)
             eff == EffectiveSchedule(c, Cut(s), t)  eff2 == EffectiveSchedule(c, s, t)
             a == Interpolate(eff, w)  b == Interpolate(eff2, w)
  <2>1. c \in Configs /\ s \in LampTable /\ t \in Int /\ Day(t) \in Days
    BY ConfigType, Today DEF TypeInv, Stores
  <2>2. ~c.lunar.on
    <3>1. store.lunar \in LunarType
      BY DEF TypeInv, Stores
    <3> QED  BY <3>1 DEF EngineConfig, ConfigOf, LunarType
  <2>3. Compute(c, Cut(s), t)[x] <= Compute(c, s, t)[x]
    <3> HIDE DEF c, s, t
    <3>1. Cut(s) \in LampTable /\ Under(Cut(s), s)
      <4>1. \A h \in Hours, y \in Channels : s[h][y] \in 0..255
        BY <2>1 DEF LampTable
      <4>2. \A h \in Hours, y \in Channels : Clamp(s[h][y], 0, 100) <= s[h][y]
        BY <4>1 DEF Clamp
      <4> QED  BY <2>1, <4>2, CutType, TableOfLamp DEF Under, Cut
    <3>2. shift \in Int /\ p \in 1..100 /\ w \in Int
      BY <2>1, ShiftInt, AcclimationRange, Sizes, DivParts DEF Wrap
    <3>3. u \in Table /\ v \in Table
      BY <2>1, <3>1, <3>2, ShiftedType
    <3>4. ASSUME NEW h \in Hours, NEW y \in Channels PROVE u[h][y] <= v[h][y]
      <4> DEFINE g == Wrap(h * HourLen - shift)
      <4>1. g \in Int
        <5>1. h * HourLen - shift \in Int
          BY <3>2, Sizes
        <5> QED  BY <5>1, Sizes, DivParts DEF Wrap
      <4>2. u[h] = Interpolate(Cut(s), g) /\ v[h] = Interpolate(s, g)
        BY DEF Shifted
      <4> HIDE DEF g
      <4> QED  BY <2>1, <3>1, <4>1, <4>2, InterpolateMono
    <3>5. /\ eff = [h \in Hours |-> [y \in Channels |-> Percent(u[h][y], p)]]
          /\ eff2 = [h \in Hours |-> [y \in Channels |-> Percent(v[h][y], p)]]
      BY DEF EffectiveSchedule
    <3>6. eff \in Table /\ eff2 \in Table
      BY <2>1, <3>1, EffectiveType
    <3> HIDE DEF u, v, p, eff, eff2, shift
    <3>7. Under(eff, eff2)
      <4> SUFFICES ASSUME NEW h \in Hours, NEW y \in Channels
                   PROVE  eff[h][y] <= eff2[h][y]
        BY DEF Under
      <4>1. u[h][y] \in Light /\ v[h][y] \in Light
        BY <3>3 DEF Table
      <4>2. u[h][y] \in Nat /\ v[h][y] \in Nat /\ p \in Nat
        BY <3>2, <4>1 DEF Light
      <4>3. Percent(u[h][y], p) <= Percent(v[h][y], p)
        BY <3>4, <4>2, PercentMono
      <4> QED  BY <3>5, <4>3
    <3>8. a \in Lights /\ b \in Lights /\ \A y \in Channels : a[y] <= b[y]
      <4> HIDE DEF w
      <4> QED  BY <3>2, <3>6, <3>7, InterpolateType, InterpolateMono, TableOfLamp
    <3>9. ~LunarActive(c, eff, t) /\ ~LunarActive(c, eff2, t)
      BY <2>2 DEF LunarActive
    <3>10. /\ Compute(c, Cut(s), t) = Master(c, Siesta(c, a, t))
           /\ Compute(c, s, t) = Master(c, Siesta(c, b, t))
      BY <3>9 DEF Compute, eff, eff2
    <3> HIDE DEF a, b
    <3> QED  BY <2>1, <3>8, <3>10, DimmedMono
  <2> QED  BY <2>3, Loaded DEF LightNow
<1> QED  BY <1>1, TypesKept, PTL

-----------------------------------------------------------------------------
(* The moon's window and the night                                           *)

\* Times of the day are equal when the times differ by days.
LEMMA WrapEqual ==
  \A x, y \in Int : Wrap(x) = Wrap(y) <=> \E k \in Int : x = y + k * DayLen
<1> SUFFICES ASSUME NEW x \in Int, NEW y \in Int
             PROVE  Wrap(x) = Wrap(y) <=> \E k \in Int : x = y + k * DayLen
  OBVIOUS
<1> DEFINE a == x \div DayLen  b == y \div DayLen  r == y % DayLen
<1>1. DayLen \in Nat \ {0} /\ a \in Int /\ b \in Int /\ r \in 0..DayLen - 1
      /\ x = DayLen * a + (x % DayLen) /\ y = DayLen * b + r
  BY Sizes, DivParts
<1> HIDE DEF a, b, r
<1>2. ASSUME Wrap(x) = Wrap(y) PROVE \E k \in Int : x = y + k * DayLen
  <2>1. x = DayLen * a + r
    BY <1>1, <1>2 DEF Wrap, r
  <2>2. x = y + (a - b) * DayLen /\ a - b \in Int
    BY <1>1, <2>1
  <2> QED  BY <2>2
<1>3. ASSUME NEW k \in Int, x = y + k * DayLen PROVE Wrap(x) = Wrap(y)
  <2>1. x = DayLen * (b + k) + r /\ b + k \in Int /\ r \in Int /\ 0 <= r /\ r < DayLen
    BY <1>1, <1>3
  <2>2. x % DayLen = r
    BY <1>1, <2>1, DivUnique
  <2> QED  BY <2>2 DEF Wrap, r
<1> QED  BY <1>2, <1>3

\* A time of the day is a minute of it, and its own.
LEMMA WrapType == \A x \in Int : Wrap(x) \in Minutes /\ Wrap(x) \in Int
<1> SUFFICES ASSUME NEW x \in Int PROVE Wrap(x) \in Minutes /\ Wrap(x) \in Int
  OBVIOUS
<1>1. x % DayLen \in 0..DayLen - 1
  BY Sizes, DivParts
<1> QED  BY <1>1, Sizes DEF Wrap

LEMMA WrapSum == \A x, i \in Int : Wrap(Wrap(x) + i) = Wrap(x + i)
<1> SUFFICES ASSUME NEW x \in Int, NEW i \in Int PROVE Wrap(Wrap(x) + i) = Wrap(x + i)
  OBVIOUS
<1> DEFINE q == x \div DayLen
<1>1. q \in Int /\ x = DayLen * q + Wrap(x) /\ Wrap(x) \in Int /\ DayLen \in Int
  <2>1. q \in Int /\ x = DayLen * q + (x % DayLen)
    BY Sizes, DivParts
  <2>2. Wrap(x) \in Int /\ DayLen \in Int
    BY Sizes, WrapType
  <2> QED  BY <2>1, <2>2 DEF Wrap
<1> HIDE DEF q
<1>2. x + i = (Wrap(x) + i) + q * DayLen /\ x + i \in Int /\ Wrap(x) + i \in Int
  BY <1>1
<1> QED  BY <1>1, <1>2, WrapEqual

LEMMA WrapSame == \A m \in Minutes : Wrap(m) = m
<1> SUFFICES ASSUME NEW m \in Minutes PROVE Wrap(m) = m
  OBVIOUS
<1>1. 0 \in Nat /\ 0 * DayLen + m = m
  BY Sizes
<1> QED  BY <1>1, MinuteOfDay

\* A window of less than a day has the length it was made with.
LEMMA WindowOfLength ==
  \A x \in Int, n \in 1..DayLen - 1 : WindowLen(Wrap(x), Wrap(x + n)) = n
<1> SUFFICES ASSUME NEW x \in Int, NEW n \in 1..DayLen - 1
             PROVE  WindowLen(Wrap(x), Wrap(x + n)) = n
  OBVIOUS
<1> DEFINE w == Wrap(x)
<1>1. w \in Int /\ 0 <= w /\ w < DayLen /\ n \in Int /\ 1 <= n /\ n < DayLen
      /\ DayLen \in Nat \ {0}
  BY Sizes, WrapType
<1>2. Wrap(x + n) = Wrap(w + n)
  BY <1>1, WrapSum
<1> HIDE DEF w
<1>3. CASE w + n < DayLen
  <2>1. Wrap(w + n) = w + n
    BY <1>1, <1>3, Sizes, WrapSame
  <2> QED  BY <1>1, <1>2, <2>1 DEF WindowLen, w
<1>4. CASE w + n >= DayLen
  <2>1. Wrap(w + n - DayLen) = w + n - DayLen
    BY <1>1, <1>4, Sizes, WrapSame
  <2>2. Wrap(w + n) = Wrap(w + n - DayLen)
    <3>1. Wrap((w + n - DayLen) + DayLen) = Wrap(w + n - DayLen)
      BY <1>1, WrapDay
    <3>2. (w + n - DayLen) + DayLen = w + n
      BY <1>1
    <3> QED  BY <3>1, <3>2
  <2> QED  BY <1>1, <1>2, <1>4, <2>1, <2>2 DEF WindowLen, w
<1> QED  BY <1>1, <1>3, <1>4

\* A window between different times of the day is shorter than a day.
LEMMA WindowShort ==
  \A s, e \in Minutes : s # e => WindowLen(s, e) \in 1..DayLen - 1
  BY Sizes DEF WindowLen

\* Of what is in an arc, seen from its start on some day.
LEMMA InArc ==
  ASSUME NEW s \in Int, NEW n \in 1..DayLen - 1, NEW x \in Int, Wrap(x) \in Arc(s, n)
  PROVE  \E k \in Int : s + k * DayLen <= x /\ x < s + k * DayLen + n
<1>1. PICK i \in 0..n - 1 : Wrap(x) = Wrap(s + i)
  BY DEF Arc
<1>2. s + i \in Int /\ n \in Int /\ i \in Int
  BY <1>1
<1>3. PICK k \in Int : x = (s + i) + k * DayLen
  BY <1>1, <1>2, WrapEqual
<1>4. k * DayLen \in Int
  BY Sizes
<1> QED  BY <1>1, <1>3, <1>4

\* The other way round.
LEMMA ToArc ==
  ASSUME NEW s \in Int, NEW n \in 1..DayLen - 1, NEW x \in Int, NEW k \in Int,
         s + k * DayLen <= x, x < s + k * DayLen + n
  PROVE  Wrap(x) \in Arc(s, n)
<1> DEFINE i == x - (s + k * DayLen)
<1>1. k * DayLen \in Int
  BY Sizes
<1>2. i \in 0..n - 1 /\ i \in Int /\ x = (s + i) + k * DayLen /\ s + i \in Int
  BY <1>1
<1> HIDE DEF i
<1>3. Wrap(x) = Wrap(s + i)
  BY <1>2, WrapEqual
<1> QED  BY <1>2, <1>3 DEF Arc

\* An arc in another one does not reach its end: the minute there is not in it.
LEMMA Inside ==
  ASSUME NEW s \in Int, NEW n \in 1..DayLen - 1, NEW m \in Int, NEW k \in Int,
         NEW p \in Nat, s + k * DayLen <= m, m < s + k * DayLen + n,
         \A i \in 0..p : Wrap(m + i) \in Arc(s, n)
  PROVE  m + p < s + k * DayLen + n
<1> SUFFICES ASSUME m + p >= s + k * DayLen + n PROVE FALSE
  BY Sizes
<1> DEFINE e == s + k * DayLen + n
<1>1. k * DayLen \in Int /\ e \in Int /\ DayLen \in Nat \ {0} /\ n \in Int
      /\ 1 <= n /\ n < DayLen
  BY Sizes
<1>2. e - m \in 0..p /\ m + (e - m) = e
  BY <1>1
<1>3. Wrap(e) \in Arc(s, n)
  BY <1>2
<1>4. PICK j \in Int : s + j * DayLen <= e /\ e < s + j * DayLen + n
  BY <1>1, <1>3, InArc
<1> DEFINE d == j - k
<1>5. d \in Int /\ d * DayLen <= n /\ 0 < d * DayLen
  <2>1. j * DayLen \in Int /\ j * DayLen - k * DayLen = d * DayLen
    BY Sizes
  <2>2. j * DayLen <= k * DayLen + n /\ k * DayLen + n < j * DayLen + n
    BY <1>1, <1>4, <2>1
  <2> QED  BY <1>1, <2>1, <2>2
<1> HIDE DEF d
<1>6. d >= 1
  <2> SUFFICES ASSUME d <= 0 PROVE FALSE
    BY <1>5
  <2>1. d * DayLen <= 0 * DayLen /\ 0 * DayLen = 0
    BY <1>1, <1>5, MulMono
  <2> QED  BY <1>1, <1>5, <2>1
<1>7. 1 * DayLen <= d * DayLen /\ 1 * DayLen = DayLen
  BY <1>1, <1>5, <1>6, MulMono
<1> QED  BY <1>1, <1>5, <1>7

\* Of numbers for the overlaps one is the first of the largest.
LEMMA FirstLargest ==
  ASSUME NEW f \in [Overlaps -> Int]
  PROVE  \E x \in Overlaps : \A y \in Overlaps \ {x} :
           f[x] > f[y] \/ (f[x] = f[y] /\ (x[1] < y[1] \/ (x[1] = y[1] /\ x[2] < y[2])))
<1>1. Overlaps = {<<-1, 0>>, <<-1, 1>>, <<0, 0>>, <<0, 1>>, <<1, 0>>, <<1, 1>>}
  BY DEF Overlaps
<1> QED  BY <1>1

\* Where the window w minutes long from start and the night n minutes long from
\* night overlap, a day earlier or later: the definitions of ClampWindowToNight.
From(start, night, x) == Most(start + x[1] * DayLen, night + x[2] * DayLen)
To(start, w, night, n, x) ==
  Least(start + x[1] * DayLen + w, night + x[2] * DayLen + n)
Overlap(start, w, night, n, x) == To(start, w, night, n, x) - From(start, night, x)

\* It finds the largest of them, x, when there is one.
Largest(start, w, night, n, x, found) ==
  /\ \A y \in Overlaps : Overlap(start, w, night, n, y) <= Overlap(start, w, night, n, x)
  /\ Overlap(start, w, night, n, x) \in Int
  /\ found = IF Overlap(start, w, night, n, x) <= 0 THEN None
             ELSE [start |-> Wrap(From(start, night, x)),
                   end |-> Wrap(To(start, w, night, n, x))]

LEMMA Clamped ==
  ASSUME NEW start \in Minutes, NEW end \in Minutes,
         NEW ns \in Minutes, NEW ne \in Minutes, NEW w \in Int, NEW n \in Int,
         w = WindowLen(start, end), n = WindowLen(ns, ne)
  PROVE  \E x \in Overlaps :
           Largest(start, w, ns, n, x, ClampWindowToNight(start, end, ns, ne))
<1> DEFINE from(x) == Most(start + x[1] * DayLen, ns + x[2] * DayLen)
           to(x) == Least(start + x[1] * DayLen + WindowLen(start, end),
                          ns + x[2] * DayLen + WindowLen(ns, ne))
           len(x) == to(x) - from(x)
           earlier(x, y) == x[1] < y[1] \/ (x[1] = y[1] /\ x[2] < y[2])
           first(x) == \A y \in Overlaps \ {x} :
                         len(x) > len(y) \/ (len(x) = len(y) /\ earlier(x, y))
           best == CHOOSE x \in Overlaps :
                     \A y \in Overlaps \ {x} :
                       len(x) > len(y) \/ (len(x) = len(y) /\ earlier(x, y))
<1>1. ClampWindowToNight(start, end, ns, ne) =
        IF len(best) <= 0 THEN None ELSE [start |-> Wrap(from(best)), end |-> Wrap(to(best))]
  BY DEF ClampWindowToNight
<1>2. \A x : from(x) = From(start, ns, x) /\ to(x) = To(start, w, ns, n, x)
             /\ len(x) = Overlap(start, w, ns, n, x)
  BY DEF From, To, Overlap
<1>3. \A x \in Overlaps : len(x) \in Int
  <2> TAKE x \in Overlaps
  <2>1. x[1] \in Int /\ x[2] \in Int
    BY DEF Overlaps
  <2>2. /\ start + x[1] * DayLen \in Int /\ ns + x[2] * DayLen \in Int
        /\ WindowLen(start, end) \in Int /\ WindowLen(ns, ne) \in Int
    <3> HIDE DEF from, to, len, best
    <3>1. x[1] * DayLen \in Int /\ x[2] * DayLen \in Int /\ start \in Int /\ ns \in Int
      BY <2>1, Sizes
    <3> QED  BY <3>1
  <2> QED  BY <2>2 DEF Most, Least
<1> HIDE DEF from, to, len
<1>4. \E x \in Overlaps : first(x)
  <2> DEFINE f == [x \in Overlaps |-> len(x)]
  <2>1. f \in [Overlaps -> Int] /\ \A x \in Overlaps : f[x] = len(x)
    BY <1>3
  <2> HIDE DEF f
  <2>2. PICK x \in Overlaps : \A y \in Overlaps \ {x} :
           f[x] > f[y] \/ (f[x] = f[y] /\ (x[1] < y[1] \/ (x[1] = y[1] /\ x[2] < y[2])))
    BY <2>1, FirstLargest
  <2>3. first(x)
    BY <2>1, <2>2
  <2> QED  BY <2>3
<1>5. best \in Overlaps /\ first(best)
  BY <1>4
<1> HIDE DEF best
<1>6. ASSUME NEW y \in Overlaps PROVE len(y) <= len(best)
  <2>1. CASE y = best
    BY <1>3, <1>5, <2>1
  <2>2. CASE y # best
    <3>1. len(best) > len(y) \/ len(best) = len(y)
      BY <1>5, <2>2
    <3> QED  BY <1>3, <1>5, <3>1
  <2> QED  BY <2>1, <2>2
<1> QED  BY <1>1, <1>2, <1>3, <1>5, <1>6 DEF Largest

\* An arc that begins today or yesterday is one of the last day's.
LEMMA ThisDayOrLast ==
  ASSUME NEW s \in Minutes, NEW n \in 1..DayLen - 1, NEW m \in Minutes, NEW k \in Int,
         s + k * DayLen <= m, m < s + k * DayLen + n
  PROVE  k \in {-1, 0}
<1>1. s \in Int /\ m \in Int /\ n \in Int /\ k * DayLen \in Int /\ DayLen \in Int
      /\ 0 <= s /\ s < DayLen /\ 0 <= m /\ m < DayLen /\ n < DayLen /\ 0 < DayLen
  BY Sizes
<1>2. k <= 0
  <2> SUFFICES ASSUME k >= 1 PROVE FALSE
    OBVIOUS
  <2>1. 1 * DayLen <= k * DayLen /\ 1 * DayLen = DayLen
    BY <1>1, MulMono
  <2> QED  BY <1>1, <2>1
<1>3. k >= -1
  <2> SUFFICES ASSUME k <= -2 PROVE FALSE
    OBVIOUS
  <2>1. k * DayLen <= -2 * DayLen
    BY <1>1, MulMono
  <2> QED  BY <1>1, <2>1
<1> QED  BY <1>2, <1>3

\* The piece it finds lies in both arcs, and no longer one does.
LEMMA LongestPiece ==
  ASSUME NEW start \in Minutes, NEW w \in 1..DayLen - 1,
         NEW ns \in Minutes, NEW ne \in Minutes, NEW n \in 1..DayLen - 1,
         n = WindowLen(ns, ne), NEW both, both = Arc(start, w) \cap Arc(ns, n),
         NEW found, found = ClampWindowToNight(start, Wrap(start + w), ns, ne),
         NEW piece, piece = IF found = None THEN 0 ELSE WindowLen(found.start, found.end)
  PROVE  /\ found # None => Arc(found.start, piece) \subseteq both
         /\ \A m \in both : ~(Arc(m, piece + 1) \subseteq both)
<1>1. PICK x \in Overlaps : Largest(start, w, ns, n, x, found)
  <2> DEFINE e == Wrap(start + w)
  <2>1. w = WindowLen(start, e)
    <3>1. start \in Int /\ Wrap(start) = start
      BY Sizes, WrapSame
    <3> QED  BY <3>1, WindowOfLength
  <2>2. e \in Minutes /\ w \in Int /\ n \in Int
    BY Sizes, WrapType
  <2>3. found = ClampWindowToNight(start, e, ns, ne)
    OBVIOUS
  <2> HIDE DEF e
  <2> QED  BY <2>1, <2>2, <2>3, Clamped
<1> DEFINE a == From(start, ns, x)  b == To(start, w, ns, n, x)
           len == Overlap(start, w, ns, n, x)
<1>2. /\ start \in Int /\ ns \in Int /\ w \in Int /\ n \in Int /\ DayLen \in Nat \ {0}
      /\ x[1] \in Int /\ x[2] \in Int
  BY Sizes DEF Overlaps
<1>3. /\ a \in Int /\ b \in Int /\ len = b - a
      /\ start + x[1] * DayLen <= a /\ b <= start + x[1] * DayLen + w
      /\ ns + x[2] * DayLen <= a /\ b <= ns + x[2] * DayLen + n
  <2>1. start + x[1] * DayLen \in Int /\ ns + x[2] * DayLen \in Int
    BY <1>2
  <2> QED  BY <1>2, <2>1 DEF From, To, Overlap, Most, Least
<1>r. found = IF len <= 0 THEN None ELSE [start |-> Wrap(a), end |-> Wrap(b)]
  BY <1>1 DEF Largest
<1>l. \A y \in Overlaps : Overlap(start, w, ns, n, y) <= len
  BY <1>1 DEF Largest
<1> HIDE DEF a, b, len
<1>n. a \in Int /\ b \in Int => [start |-> Wrap(a), end |-> Wrap(b)] # None
  <2> SUFFICES ASSUME a \in Int, b \in Int
               PROVE  [start |-> Wrap(a), end |-> Wrap(b)] # None
    OBVIOUS
  <2>1. Wrap(a) \in Minutes /\ Wrap(b) \in Minutes
    BY WrapType
  <2>2. [start |-> Wrap(a), end |-> Wrap(b)] \in [start : Minutes, end : Minutes]
    BY <2>1
  <2> QED  BY <2>2, ScheduleAssumption
\* As long as the overlap of each arc with the other, ...
<1>4. /\ len <= 0 => found = None /\ piece = 0
      /\ len > 0 => found # None /\ found.start = Wrap(a) /\ piece = len
                    /\ len \in 1..DayLen - 1
  <2>1. len <= 0 => found = None /\ piece = 0
    BY <1>r
  <2>2. ASSUME len > 0
        PROVE  found # None /\ found.start = Wrap(a) /\ piece = len /\ len \in 1..DayLen - 1
    <3>1. found = [start |-> Wrap(a), end |-> Wrap(b)]
      BY <1>r, <1>3, <2>2
    <3>2. found # None /\ found.start = Wrap(a) /\ found.end = Wrap(b)
      BY <1>3, <1>n, <3>1
    <3>3. len \in 1..DayLen - 1
      <4>1. start + x[1] * DayLen \in Int
        BY <1>2
      <4> QED  BY <1>2, <1>3, <2>2, <4>1
    <3>4. b = a + len
      BY <1>3, <3>3
    <3>5. piece = WindowLen(Wrap(a), Wrap(a + len))
      BY <3>2, <3>4
    <3>6. WindowLen(Wrap(a), Wrap(a + len)) = len
      BY <1>3, <3>3, WindowOfLength
    <3> QED  BY <3>2, <3>3, <3>5, <3>6
  <2> QED  BY <1>3, <2>1, <2>2
<1>5. piece \in Nat /\ (len <= piece)
  BY <1>2, <1>3, <1>4
\* ... it lies in both, ...
<1>6. ASSUME found # None PROVE Arc(found.start, piece) \subseteq both
  <2>1. len > 0 /\ found.start = Wrap(a) /\ piece = len /\ len \in 1..DayLen - 1
    BY <1>3, <1>4, <1>6
  <2> SUFFICES ASSUME NEW i \in 0..len - 1 PROVE Wrap(Wrap(a) + i) \in both
    BY <2>1 DEF Arc
  <2>2. a + i \in Int /\ i \in Int /\ a <= a + i /\ a + i < b
    BY <1>3, <2>1
  <2>3. Wrap(Wrap(a) + i) = Wrap(a + i)
    BY <1>3, <2>2, WrapSum
  <2>4. Wrap(a + i) \in Arc(start, w)
    <3>1. start + x[1] * DayLen <= a + i /\ a + i < start + x[1] * DayLen + w
      <4>1. start + x[1] * DayLen \in Int
        BY <1>2
      <4> QED  BY <1>2, <1>3, <2>2, <4>1
    <3> QED  BY <1>2, <2>2, <3>1, ToArc
  <2>5. Wrap(a + i) \in Arc(ns, n)
    <3>1. ns + x[2] * DayLen <= a + i /\ a + i < ns + x[2] * DayLen + n
      <4>1. ns + x[2] * DayLen \in Int
        BY <1>2
      <4> QED  BY <1>2, <1>3, <2>2, <4>1
    <3> QED  BY <1>2, <2>2, <3>1, ToArc
  <2> QED  BY <2>3, <2>4, <2>5
\* ... and a longer piece would make a longer overlap of some of their days.
<1>7. ASSUME NEW m \in both, Arc(m, piece + 1) \subseteq both PROVE FALSE
  <2>1. m \in Minutes /\ m \in Int /\ Wrap(m) = m
    <3>1. PICK i \in 0..w - 1 : m = Wrap(start + i)
      BY DEF Arc
    <3>2. start + i \in Int
      BY <1>2
    <3>3. m \in Minutes /\ m \in Int
      BY <3>1, <3>2, WrapType
    <3> QED  BY <3>3, WrapSame
  <2>2. \A i \in 0..piece : Wrap(m + i) \in Arc(start, w) /\ Wrap(m + i) \in Arc(ns, n)
    <3>1. 0..(piece + 1) - 1 = 0..piece
      BY <1>5
    <3> QED  BY <1>7, <3>1 DEF Arc
  <2>3. PICK k \in Int : start + k * DayLen <= m /\ m < start + k * DayLen + w
    BY <1>2, <1>7, <2>1, InArc
  <2>4. PICK j \in Int : ns + j * DayLen <= m /\ m < ns + j * DayLen + n
    BY <1>2, <1>7, <2>1, InArc
  <2>5. m + piece < start + k * DayLen + w
    BY <1>2, <1>5, <2>1, <2>2, <2>3, Inside
  <2>6. m + piece < ns + j * DayLen + n
    BY <1>2, <1>5, <2>1, <2>2, <2>4, Inside
  <2>7. k \in {-1, 0} /\ j \in {-1, 0}
    BY <2>1, <2>3, <2>4, Sizes, ThisDayOrLast
  <2> DEFINE y == <<k - j, 0>>
  <2>8. y \in Overlaps /\ y[1] = k - j /\ y[2] = 0
    BY <2>7 DEF Overlaps
  <2> HIDE DEF y
  <2>9. Overlap(start, w, ns, n, y) >= piece + 1
    <3> DEFINE K == k * DayLen  J == j * DayLen
    <3>1. K \in Int /\ J \in Int /\ y[1] * DayLen = K - J /\ y[2] * DayLen = 0
      BY <1>2, <2>8
    <3>2. /\ start + K <= m /\ m + piece < start + K + w
          /\ ns + J <= m /\ m + piece < ns + J + n
      BY <2>3, <2>4, <2>5, <2>6
    <3> HIDE DEF K, J
    <3>3. From(start, ns, y) <= m - J /\ From(start, ns, y) \in Int
      BY <1>2, <2>1, <3>1, <3>2 DEF From, Most
    <3>4. To(start, w, ns, n, y) >= m - J + piece + 1 /\ To(start, w, ns, n, y) \in Int
      BY <1>2, <1>5, <2>1, <3>1, <3>2 DEF To, Least
    <3> QED  BY <1>5, <2>1, <3>1, <3>3, <3>4 DEF Overlap
  <2>10. Overlap(start, w, ns, n, y) \in Int
    <3>1. y[1] * DayLen \in Int /\ y[2] * DayLen \in Int
      BY <1>2, <2>7, <2>8
    <3> QED  BY <1>2, <3>1 DEF Overlap, From, To, Most, Least
  <2> QED  BY <1>3, <1>5, <1>l, <2>8, <2>9, <2>10
<1> QED  BY <1>6, <1>7

\* clampWindowToNight finds the longest piece of the moon's window that lies in the
\* night, for every window, night, place of the moon and length of the day.
THEOREM LongestNightPieceCorrect == Spec => []LongestNightPiece
<1>1. TypeInv => LongestNightPiece
  <2> SUFFICES ASSUME TypeInv
               PROVE  LongestNightPiece
    OBVIOUS
  <2> DEFINE l == store.lunar
             w == WindowLen(l.start, l.end)
             n == WindowLen(l.nightStart, l.nightEnd)
             both(start) == Arc(start, w) \cap Arc(l.nightStart, n)
             found(start) == ClampWindowToNight(start, Wrap(start + w),
                                                l.nightStart, l.nightEnd)
             piece(start) == IF found(start) = None THEN 0
                             ELSE WindowLen(found(start).start, found(start).end)
  <2>1. /\ l.start \in Minutes /\ l.end \in Minutes
        /\ l.nightStart \in Minutes /\ l.nightEnd \in Minutes
    BY DEF TypeInv, Stores, LunarType
  <2>2. ASSUME NEW start \in Minutes, l.start # l.end, l.nightStart # l.nightEnd
        PROVE  /\ found(start) # None => Arc(found(start).start, piece(start)) \subseteq both(start)
               /\ \A m \in both(start) : ~(Arc(m, piece(start) + 1) \subseteq both(start))
    <3>1. w \in 1..DayLen - 1 /\ n \in 1..DayLen - 1
      BY <2>1, <2>2, WindowShort
    <3> DEFINE b == both(start)  f == found(start)  p == piece(start)
               s == l.nightStart  e == l.nightEnd
    <3>2. /\ b = Arc(start, w) \cap Arc(s, n) /\ n = WindowLen(s, e)
          /\ f = ClampWindowToNight(start, Wrap(start + w), s, e)
          /\ p = IF f = None THEN 0 ELSE WindowLen(f.start, f.end)
          /\ s \in Minutes /\ e \in Minutes
      BY <2>1
    <3> SUFFICES (f # None => Arc(f.start, p) \subseteq b)
                 /\ \A m \in b : ~(Arc(m, p + 1) \subseteq b)
      OBVIOUS
    <3> HIDE DEF b, f, p, s, e, n, w
    <3> QED  BY <3>1, <3>2, LongestPiece
  <2> QED  BY <2>2 DEF LongestNightPiece
<1> QED  BY <1>1, TypesKept, PTL

==============================================================================
