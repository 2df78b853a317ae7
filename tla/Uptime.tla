------------------------------- MODULE Uptime -------------------------------
(***************************************************************************)
(* secondsToDHMS (app/util.js): how pollStats turns the uptime of an       *)
(* entity, in seconds, into the text of the information box.  The text is  *)
(* kept as the numbers it shows; the days are left out of it when there    *)
(* are none.                                                               *)
(***************************************************************************)
EXTENDS Integers

Minute == 60
Hour == 3600
Day == 86400

\* totalSeconds is reduced modulo an hour, not a day, before the hours are
\* computed from it, and once more after that.
secondsToDHMS(total) ==
  LET rest == total % Hour
  IN  [days |-> total \div Day, hours |-> rest \div Hour,
       minutes |-> (rest % Hour) \div Minute,
       seconds |-> rest % Minute, showsDays |-> total \div Day > 0]

\* The time that a reader takes from the text
Read(t) ==
  (IF t.showsDays THEN t.days * Day ELSE 0)
    + t.hours * Hour + t.minutes * Minute + t.seconds

\* The text is short of the uptime by the whole hours since the last full
\* day, and by nothing else: days, minutes and seconds are right at every
\* boundary, but the hours of "3d 21h 5m 34s" always show as 0.
UptimeLosesOnlyHours ==
  \A t \in Nat :
    /\ secondsToDHMS(t).hours = 0
    /\ Read(secondsToDHMS(t)) = t - Hour * ((t % Day) \div Hour)

\* The text is the uptime, as the comment of secondsToDHMS has it ("3d 21h 5m
\* 34s"), exactly within the first hour of each day.
UptimeRightForAnHourADay ==
  \A t \in Nat : Read(secondsToDHMS(t)) = t <=> t % Day < Hour

=============================================================================
