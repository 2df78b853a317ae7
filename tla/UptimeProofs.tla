---------------------------- MODULE UptimeProofs ----------------------------
(***************************************************************************)
(* What the uptime text shows, for every uptime: all but the hours, so the *)
(* text is right for one hour of the day.                                  *)
(***************************************************************************)
EXTENDS Uptime, TLAPS

\* The seconds of an uptime past its last full hour are split into minutes
\* and seconds without a remainder.
LEMMA MinutesAndSeconds ==
  ASSUME NEW t \in Nat
  PROVE  LET r == t % Hour
         IN  /\ r \in 0 .. Hour - 1
             /\ r \div Hour = 0
             /\ ((r % Hour) \div Minute) * Minute + (r % Minute) = r
<1> DEFINE r == t % Hour
<1>1. r \in 0 .. Hour - 1
  BY DEF Hour
<1> HIDE DEF r
<1>2. r \div Hour = 0 /\ r % Hour = r
  BY <1>1 DEF Hour
<1>3. (r \div Minute) * Minute + (r % Minute) = r
  BY <1>1 DEF Minute, Hour
<1> QED
  BY <1>1, <1>2, <1>3 DEF r

\* An uptime is its full days, the full hours of the rest, and what is past
\* the last full hour: a day being a whole number of hours.
LEMMA DaysAndHours ==
  ASSUME NEW t \in Nat
  PROVE  t = (t \div Day) * Day + Hour * ((t % Day) \div Hour) + (t % Hour)
BY DEF Day, Hour

\* secondsToDHMS shows every uptime short of its hours and of nothing else.
THEOREM UptimeText == UptimeLosesOnlyHours
<1> SUFFICES ASSUME NEW t \in Nat
             PROVE  /\ secondsToDHMS(t).hours = 0
                    /\ Read(secondsToDHMS(t)) = t - Hour * ((t % Day) \div Hour)
  BY DEF UptimeLosesOnlyHours
<1> DEFINE s == secondsToDHMS(t)
<1>1. s.hours = 0
  BY MinutesAndSeconds DEF secondsToDHMS
<1>2. s.minutes * Minute + s.seconds = (t % Hour)
  BY MinutesAndSeconds DEF secondsToDHMS
<1>3. (IF s.showsDays THEN s.days * Day ELSE 0) = (t \div Day) * Day
  <2>1. t \div Day \in Nat
    BY DEF Day
  <2>2. s.days = t \div Day /\ (s.showsDays <=> t \div Day > 0)
    BY DEF secondsToDHMS
  <2>3. CASE t \div Day > 0
    BY <2>2, <2>3
  <2>4. CASE t \div Day = 0
    <3>1. ~(t \div Day > 0) /\ (t \div Day) * Day = 0
      BY <2>4 DEF Day
    <3> QED
      BY <3>1, <2>2
  <2> QED
    BY <2>1, <2>3, <2>4
<1>4. /\ s.minutes \in Int /\ s.seconds \in Int /\ s.days \in Int
      /\ t \div Day \in Int /\ (t % Day) \div Hour \in Int /\ t % Hour \in Int
  BY DEF secondsToDHMS, Day, Hour, Minute
<1>5. Read(s) = (t \div Day) * Day + (t % Hour)
  <2> HIDE DEF s
  <2>1. /\ (t \div Day) * Day \in Int /\ s.minutes * Minute \in Int
        /\ s.hours * Hour = 0
    BY <1>1, <1>4 DEF Day, Minute, Hour
  <2> QED
    BY <1>2, <1>3, <1>4, <2>1 DEF Read
<1> QED
  BY <1>1, <1>4, <1>5, DaysAndHours DEF Day, Hour

\* secondsToDHMS is right in the first hour of each day and wrong, by one to
\* 23 hours, in all the others.
THEOREM UptimeRight == UptimeRightForAnHourADay
<1> SUFFICES ASSUME NEW t \in Nat
             PROVE  Read(secondsToDHMS(t)) = t <=> t % Day < Hour
  BY DEF UptimeRightForAnHourADay
<1> DEFINE q == t % Day
<1>1. q \in Nat
  BY DEF Day
<1>2. Read(secondsToDHMS(t)) = t - Hour * (q \div Hour)
  BY UptimeText DEF UptimeLosesOnlyHours
<1> HIDE DEF q
<1>3. q \div Hour = 0 <=> q < Hour
  BY <1>1 DEF Hour
<1>4. q \div Hour \in Int
  BY <1>1 DEF Hour
<1> QED
  BY <1>2, <1>3, <1>4 DEF q, Hour

=============================================================================
