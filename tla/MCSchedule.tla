----------------------------- MODULE MCSchedule -----------------------------
(* A day of three hours of four minutes, three days, three channels.         *)
EXTENDS Schedule

MCSun       == [d \in Days |-> IF d = 0 THEN 1000 ELSE IF d = 1 THEN 0 ELSE -630]
MCMoon      == [d \in Days |-> IF d = 0 THEN 1000 ELSE IF d = 1 THEN 640 ELSE 0]
MCMoonShift == [d \in Days |-> 3 * d]

(* A bright day, and a night that is dark but for a little cyan. *)
MCRows == {[h \in Hours |-> IF h = 0 THEN [x \in Channels |-> IF x = Cyan THEN 7 ELSE 0]
                            ELSE [x \in Channels |-> 33 * h + 34 * (h - 1)]]}
(* Another application's rows, and a backup of another bridge. *)
MCLampRows == {[h \in Hours |-> [x \in Channels |-> IF h = 1 THEN 255 ELSE 90 * h]]}
MCBackups == {[pro |-> TRUE, master |-> 300,
               sched |-> [h \in Hours |-> [x \in Channels |-> 65 * h - 5]],
               siesta |-> [on |-> FALSE, start |-> 3, length |-> 0, depth |-> 95],
               lunar |-> [on |-> FALSE, start |-> 0, end |-> 2, nightStart |-> 8,
                          nightEnd |-> 6, track |-> TRUE, max |-> 0, threshold |-> 110]]}
MCMasters == {0, 50, 150}
(* Noon, and one that goes past midnight; longer and deeper than allowed. *)
MCSiestas == {[on |-> TRUE, start |-> 5, length |-> 0, depth |-> 25],
              [on |-> TRUE, start |-> 10, length |-> 9, depth |-> 100]}
LunarBody(start, end, night, max) ==
    [on |-> TRUE, start |-> start, end |-> end, nightStart |-> night,
     nightEnd |-> 4, track |-> TRUE, max |-> max, threshold |-> 7]
MCLunars == {LunarBody(9, 3, 9, 45), LunarBody(10, 7, 6, 6), LunarBody(2, 2, 5, 0)}
MCAcclimations == {[on |-> TRUE, from |-> 35, days |-> 2, restart |-> FALSE],
                   [on |-> None, from |-> 0, days |-> None, restart |-> TRUE]}
MCSeasons == {[on |-> TRUE, max |-> None], [on |-> None, max |-> 500]}
=============================================================================
