------------------------------ MODULE TimeProofs -------------------------------
(***************************************************************************)
(* What TLAPS proves of hours and days: of Calendar, for every zone whose  *)
(* changes are like those of a real one, every expression, window and      *)
(* length of the day; and of Watch, for every world, on the real calendar. *)
(* The two are separate systems that share only what is known of least     *)
(* elements.                                                               *)
(*                                                                         *)
(* Calendar rests on one fact, WallClockIsReached: from the second day on, *)
(* the instant local_instant gives a wall-clock time is the first one at   *)
(* which the clock has got that far.  What is compared against the clock   *)
(* is then monotone in the wall-clock time, though the clock itself is not *)
(* monotone in the instant.                                                *)
(*                                                                         *)
(* NewsIsNotRepeated rests on a balance kept for each id: how often it was *)
(* told, whether it waits to be, and whether the next poll would have      *)
(* something to say of it are together no more than its changes and the    *)
(* times it was deleted.  That needs what a poll says of an id to be a     *)
(* function of the world and the id alone, whatever the listing            *)
(* (PolledIsContent).  And each deletion takes a retention period (AgeInv).*)
(*                                                                         *)
(* DeadlinesComeInTime rests on every deadline being in the month it is    *)
(* filed in and the same whichever way it is computed (DueInMonth), so     *)
(* that a poll sees all that fall due in its horizon.                      *)
(***************************************************************************)
EXTENDS Calendar, Watch, WellFoundedInduction, TLAPS

-----------------------------------------------------------------------------
(* Least elements                                                           *)

\* Min of integers that are not below x is the least of them.
LEMMA LeastInteger ==
  ASSUME NEW x \in Int, NEW S \in SUBSET Int, S # {}, \A y \in S : x <= y
  PROVE  Min(S) \in S /\ \A y \in S : Min(S) <= y
<1> DEFINE N == {n \in Nat : x + n \in S}
           Less == OpToRel(<, Nat)
<1>1. N # {} /\ N \in SUBSET Nat
  <2>1. PICK y \in S : TRUE
    OBVIOUS
  <2>2. y - x \in Nat /\ x + (y - x) = y
    BY <2>1
  <2>3. y - x \in N
    BY <2>1, <2>2
  <2> QED BY <2>3
<1>2. \E n \in N : \A k \in N : n <= k
  <2>1. IsWellFoundedOn(Less, Nat)
    BY NatLessThanWellFounded
  <2>2. \A k, n \in Nat : k < n => <<k, n>> \in Less
    BY DEF OpToRel
  <2> HIDE DEF Less, N
  <2>3. PICK n \in N : \A k \in N : <<k, n>> \notin Less
    BY <1>1, <2>1, WFMin
  <2>4. \A k \in N : k \in Nat /\ n \in Nat /\ ~(k < n)
    BY <1>1, <2>2, <2>3
  <2> QED BY <2>3, <2>4
<1>3. PICK n \in N : \A k \in N : n <= k
  BY <1>2
<1>4. n \in Nat /\ x + n \in S
  BY <1>3
<1>5. ASSUME NEW y \in S PROVE x + n <= y
  <2>1. y \in Int /\ y - x \in Nat /\ x + (y - x) = y
    OBVIOUS
  <2>2. n <= y - x
    BY <1>3, <2>1
  <2> QED BY <1>4, <2>1, <2>2
<1> QED BY <1>4, <1>5 DEF Min

\* There is only one least element.
LEMMA OneLeast ==
  ASSUME NEW S \in SUBSET Int, NEW x \in S, \A y \in S : x <= y
  PROVE  Min(S) = x
<1>1. Min(S) \in S /\ Min(S) <= x
  BY LeastInteger
<1>2. x \in Int /\ Min(S) \in Int /\ x <= Min(S)
  BY <1>1
<1> QED BY <1>1, <1>2

\* Instants, wall-clock times and days from the first on are not below zero.
LEMMA MinIsLeast ==
  ASSUME NEW S \in SUBSET Nat, S # {}
  PROVE  Min(S) \in S /\ \A y \in S : Min(S) <= y
<1>1. 0 \in Int /\ S \in SUBSET Int /\ \A y \in S : 0 <= y
  OBVIOUS
<1> QED BY <1>1, LeastInteger

-----------------------------------------------------------------------------
(* Days and times of day                                                    *)

\* A wall-clock time is its day's midnight and a time of day.
LEMMA DaysAndTimes ==
  ASSUME NEW l \in Nat
  PROVE  /\ l \div Day \in Nat /\ l % Day \in TimeOfDay
         /\ l = ((l \div Day) * Day) + (l % Day)
         /\ (l \div Day) * Day \in Nat
  BY CalendarAssumption DEF TimeOfDay

\* A time of day taken from another goes round the clock.
LEMMA RoundTheClock ==
  ASSUME NEW s \in TimeOfDay, NEW t \in TimeOfDay
  PROVE  (t - s) % Day = IF t < s THEN t - s + Day ELSE t - s
  BY CalendarAssumption DEF TimeOfDay

-----------------------------------------------------------------------------
(* The clock on the wall                                                    *)

\* A zone the clock may be in, and what is known of it.
LEMMA ZoneFacts ==
  ASSUME zone \in Zones
  PROVE  /\ \A i \in Instant : i \in Nat /\ zone[i] \in Nat /\ zone[i] < Day
         /\ \A i \in Instant : Local(i) \in Nat /\ i <= Local(i) /\ Local(i) < i + Day
         /\ \A i \in 0..LastInstant-1 : Local(i + 1) <= Local(i) + MaxGap + 1
         /\ \A i, j \in Instant :
              i + 1 < j /\ Local(i) < Local(j) => Local(i + 1) <= Local(j)
<1>1. zone \in [Instant -> Nat]
  BY CalendarAssumption
<1>2. \A i \in Instant : i \in Nat /\ zone[i] \in Nat /\ zone[i] < Day
  <2>1. \A i \in Instant : zone[i] < Day
    BY ZoneAssumption
  <2> QED BY <1>1, <2>1 DEF Instant
<1>3. \A i \in 0..LastInstant-1 :
        i \in Instant /\ i + 1 \in Instant /\ zone[i + 1] <= zone[i] + MaxGap
  BY CalendarAssumption, ZoneAssumption DEF Instant
<1>4. \A i \in Instant : Local(i) \in Nat /\ i <= Local(i) /\ Local(i) < i + Day
  BY <1>2, CalendarAssumption DEF Local
<1>5. \A i \in 0..LastInstant-1 : Local(i + 1) <= Local(i) + MaxGap + 1
  BY <1>2, <1>3, CalendarAssumption DEF Local
<1>6. ASSUME NEW i \in Instant, NEW j \in Instant, i + 1 < j, Local(i) < Local(j)
      PROVE  Local(i + 1) <= Local(j)
  <2>1. i + zone[i] < j + zone[j] => i + 1 + zone[i + 1] <= j + zone[j]
    BY <1>6, ZoneAssumption
  <2> QED BY <1>6, <2>1 DEF Local
<1> QED BY <1>2, <1>4, <1>5, <1>6

\* The first instant at which the clock has got as far as a time it reaches.
LEMMA ReachedIsFirst ==
  ASSUME zone \in Zones, NEW l \in Nat, NEW k \in Instant, l <= Local(k)
  PROVE  /\ Reached(l) \in Instant /\ l <= Local(Reached(l))
         /\ \A i \in Instant : l <= Local(i) => Reached(l) <= i
         /\ \A i \in Instant : i < Reached(l) => Local(i) < l
<1> DEFINE S == {i \in Instant : Local(i) >= l}
<1>1. \A i \in Instant : i \in Nat /\ Local(i) \in Nat
  BY ZoneFacts
<1>2. S \in SUBSET Nat /\ S # {}
  BY <1>1
<1>3. Min(S) \in S /\ \A i \in S : Min(S) <= i
  BY <1>2, MinIsLeast
<1>4. Reached(l) = Min(S)
  BY DEF Reached
<1>5. Reached(l) \in Instant /\ l <= Local(Reached(l))
  BY <1>1, <1>3, <1>4
<1>6. \A i \in Instant : l <= Local(i) => Reached(l) <= i
  BY <1>1, <1>3, <1>4
<1>7. \A i \in Instant : i < Reached(l) => Local(i) < l
  <2> SUFFICES ASSUME NEW i \in Instant, i < Reached(l) PROVE Local(i) < l
    OBVIOUS
  <2>1. i \in Nat /\ Local(i) \in Nat /\ Reached(l) \in Nat
    BY <1>1, <1>5
  <2>2. ~(l <= Local(i))
    BY <1>6, <2>1
  <2> QED BY <2>1, <2>2
<1> QED BY <1>5, <1>6, <1>7

\* The earlier of two instants, or the first after the gap, is the first at which
\* the clock has got as far as the time.
LEMMA WallClockIsReached ==
  ASSUME zone \in Zones, NEW l \in Nat, Local(0) < l, NEW k \in Instant, l <= Local(k)
  PROVE  LocalInstant(l) = {Reached(l)}
<1> DEFINE r == Reached(l)
           m == Local(r) - l
           shown == {n \in 0..MaxGap : Showing(l + n) # {}}
<1>1. /\ r \in Instant /\ l <= Local(r)
      /\ \A i \in Instant : l <= Local(i) => r <= i
      /\ \A i \in Instant : i < r => Local(i) < l
  BY ReachedIsFirst
<1> HIDE DEF r
<1>2. /\ \A i \in Instant : i \in Nat /\ Local(i) \in Nat
      /\ \A i \in 0..LastInstant-1 : Local(i + 1) <= Local(i) + MaxGap + 1
      /\ \A i, j \in Instant : i + 1 < j /\ Local(i) < Local(j) => Local(i + 1) <= Local(j)
  BY ZoneFacts
<1>3. r \in Nat /\ r # 0 /\ r <= LastInstant /\ Local(r) \in Nat
  BY <1>1, <1>2 DEF Instant
<1>4. PICK before \in Instant : before \in 0..LastInstant-1 /\ before + 1 = r
  <2>1. r - 1 \in Instant /\ r - 1 \in 0..LastInstant-1 /\ (r - 1) + 1 = r
    BY <1>3, CalendarAssumption DEF Instant
  <2> QED BY <2>1
<1>5. Local(before) < l /\ Local(before) \in Nat /\ before \in Nat
  BY <1>1, <1>2, <1>3, <1>4
<1>6. m \in 0..MaxGap
  <2>1. Local(r) <= Local(before) + MaxGap + 1
    BY <1>2, <1>4
  <2> QED BY <1>1, <1>3, <1>5, <2>1, CalendarAssumption
<1>7. r \in Showing(l + m)
  BY <1>1, <1>3 DEF Showing
<1>8. ASSUME NEW n \in 0..MaxGap, NEW i \in Showing(l + n) PROVE m <= n /\ r <= i
  <2>1. i \in Instant /\ Local(i) = l + n /\ i \in Nat /\ Local(i) \in Nat /\ n \in Nat
    BY <1>2, <1>8, CalendarAssumption DEF Showing
  <2>2. r <= i
    BY <1>1, <2>1
  <2>3. CASE i = r
    BY <1>3, <2>1, <2>3
  <2>4. CASE i # r
    <3>1. before + 1 < i /\ Local(before) < Local(i)
      BY <1>3, <1>4, <1>5, <2>1, <2>2, <2>4
    <3>2. Local(r) <= Local(i)
      BY <1>2, <1>4, <2>1, <3>1
    <3> QED BY <1>3, <2>1, <2>2, <3>2
  <2> QED BY <2>3, <2>4
<1> HIDE DEF m
<1>9. shown # {} /\ Min(shown) = m
  <2>1. m \in shown
    BY <1>6, <1>7
  <2>2. shown \in SUBSET Nat
    BY CalendarAssumption
  <2>3. \A n \in shown : m <= n
    BY <1>8
  <2> QED BY <2>1, <2>2, <2>3, OneLeast
<1>10. Min(Showing(l + m)) = r
  <2>1. Showing(l + m) \in SUBSET Nat
    BY <1>2 DEF Showing
  <2>2. \A i \in Showing(l + m) : r <= i
    BY <1>6, <1>8
  <2> QED BY <1>7, <2>1, <2>2, OneLeast
<1>11. LocalInstant(l) = IF shown = {} THEN {} ELSE {Min(Showing(l + Min(shown)))}
  BY DEF LocalInstant
<1> HIDE DEF shown
<1> QED BY <1>9, <1>10, <1>11 DEF r

-----------------------------------------------------------------------------
(* The properties, in any state of the schedule's row                       *)

\* A schedule is due when, and only when, the clock first got as far as a time of
\* its expression between the anchor and now.
LEMMA DueWhenReached == TypeOK => DueIsTheWallClock
<1> SUFFICES ASSUME TypeOK, anchor # NoRow
             PROVE  Due(clock) <=> \E o \in Occurrences(cron) : anchor < o /\ o <= clock
  BY DEF DueIsTheWallClock
<1>1. zone \in Zones /\ anchor \in Day..clock /\ clock \in Day..MaxTime
  BY DEF TypeOK
<1>2. /\ anchor \in Instant /\ clock \in Instant /\ Day <= anchor /\ 0 \in Instant
      /\ LastInstant \in Instant
  BY <1>1, CalendarAssumption DEF Instant
<1>3. Local(0) < Local(anchor) /\ Local(0) \in Nat /\ Local(anchor) \in Nat /\ anchor \in Nat
  BY <1>1, <1>2, ZoneFacts, CalendarAssumption
<1>4. \A l \in Candidates(cron) : l \in Nat /\ l <= Local(LastInstant)
  <2>1. Local(LastInstant) \in Nat
    BY <1>1, <1>2, ZoneFacts
  <2> QED BY <2>1, CalendarAssumption DEF Candidates
<1>5. ASSUME NEW l \in Candidates(cron)
      PROVE  /\ Reached(l) \in Instant /\ Reached(l) \in Nat
             /\ l <= Local(Reached(l)) /\ Local(Reached(l)) \in Nat
             /\ \A i \in Instant : l <= Local(i) => Reached(l) <= i
             /\ \A i \in Instant : i < Reached(l) => Local(i) < l
             /\ l > Local(anchor) => LocalInstant(l) = {Reached(l)}
  <2>1. Reached(l) \in Instant /\ l <= Local(Reached(l))
        /\ (\A i \in Instant : l <= Local(i) => Reached(l) <= i)
        /\ (\A i \in Instant : i < Reached(l) => Local(i) < l)
    BY <1>1, <1>2, <1>4, ReachedIsFirst
  <2>2. l > Local(anchor) => LocalInstant(l) = {Reached(l)}
    <3>1. l > Local(anchor) => Local(0) < l
      BY <1>3, <1>4
    <3> QED BY <1>1, <1>2, <1>4, <3>1, WallClockIsReached
  <2>3. Reached(l) \in Nat /\ Local(Reached(l)) \in Nat
    BY <1>1, <2>1, ZoneFacts
  <2> QED BY <2>1, <2>2, <2>3
<1> DEFINE later == {l \in Candidates(cron) :
                       l > Local(anchor) /\ \E i \in LocalInstant(l) : i > anchor}
<1>6. \A l \in Candidates(cron) :
        l \in later <=> l > Local(anchor) /\ Reached(l) > anchor
  BY <1>5
<1>7. Due(clock) <=> later # {} /\ \E next \in LocalInstant(Min(later)) : clock >= next
  BY DEF Due, NextAfter
<1>8. later \in SUBSET Nat
  BY <1>4
<1>9. later \subseteq Candidates(cron)
  OBVIOUS
<1> HIDE DEF later
<1>10. clock \in Nat
  BY <1>1, CalendarAssumption
<1>11. later # {} =>
         /\ Min(later) \in later /\ Min(later) \in Candidates(cron)
         /\ Min(later) \in Nat /\ \A l \in later : Min(later) <= l
         /\ LocalInstant(Min(later)) = {Reached(Min(later))}
         /\ Reached(Min(later)) > anchor
  <2> SUFFICES ASSUME later # {} PROVE
         /\ Min(later) \in later /\ Min(later) \in Candidates(cron)
         /\ Min(later) \in Nat /\ \A l \in later : Min(later) <= l
         /\ LocalInstant(Min(later)) = {Reached(Min(later))}
         /\ Reached(Min(later)) > anchor
    OBVIOUS
  <2>1. Min(later) \in later /\ \A l \in later : Min(later) <= l
    BY <1>8, MinIsLeast
  <2>2. Min(later) \in Candidates(cron) /\ Min(later) \in Nat
    BY <1>4, <1>9, <2>1
  <2>3. Min(later) > Local(anchor) /\ Reached(Min(later)) > anchor
    BY <1>6, <2>1, <2>2
  <2> QED BY <1>5, <2>1, <2>2, <2>3
<1>12. ASSUME Due(clock)
       PROVE  \E o \in Occurrences(cron) : anchor < o /\ o <= clock
  <2>1. /\ Min(later) \in Candidates(cron) /\ Reached(Min(later)) > anchor
        /\ clock >= Reached(Min(later))
    BY <1>7, <1>11, <1>12
  <2>2. Reached(Min(later)) \in Occurrences(cron)
    BY <2>1 DEF Occurrences
  <2>3. Reached(Min(later)) \in Nat
    BY <1>5, <2>1
  <2> QED BY <1>3, <1>10, <2>1, <2>2, <2>3
<1>13. ASSUME NEW o \in Occurrences(cron), anchor < o, o <= clock PROVE Due(clock)
  <2>1. PICK l \in Candidates(cron) : o = Reached(l)
    BY <1>13 DEF Occurrences
  <2>2. l > Local(anchor)
    BY <1>2, <1>3, <1>4, <1>5, <1>13, <2>1
  <2>3. l \in later
    BY <1>3, <1>5, <1>6, <1>13, <2>1, <2>2
  <2>4. Min(later) <= l /\ Min(later) \in Nat /\ Min(later) \in Candidates(cron)
    BY <1>11, <2>3
  <2>5. Reached(Min(later)) <= Reached(l)
    <3>1. Min(later) <= Local(Reached(l)) /\ Reached(l) \in Instant
      BY <1>4, <1>5, <2>4
    <3> QED BY <1>5, <2>4, <3>1
  <2>6. Reached(Min(later)) <= clock
    BY <1>5, <1>10, <1>13, <2>1, <2>4, <2>5
  <2> QED BY <1>5, <1>7, <1>10, <1>11, <2>3, <2>4, <2>6
<1> QED BY <1>12, <1>13

\* The budget's day begins at the first instant the owner's calendar shows today.
LEMMA DayBeginsWhenReached == TypeOK => BudgetDayIsTheLocalDay
<1> SUFFICES ASSUME TypeOK PROVE BudgetDayIsTheLocalDay
  OBVIOUS
<1> DEFINE today == Local(clock) \div Day
           midnight == today * Day
<1>1. zone \in Zones /\ clock \in Instant /\ Day <= clock /\ 0 \in Instant
      /\ clock \in Nat /\ Day \in Nat \ {0}
  BY CalendarAssumption DEF TypeOK, Instant
<1>2. \A i \in Instant : i \in Nat /\ Local(i) \in Nat /\ i <= Local(i) /\ Local(i) < i + Day
  BY <1>1, ZoneFacts
<1>3. \A i \in Instant :
        /\ (Local(i) \div Day) * Day \in Nat /\ Local(i) % Day \in 0..Day-1
        /\ Local(i) = ((Local(i) \div Day) * Day) + (Local(i) % Day)
  BY <1>2, DaysAndTimes DEF TimeOfDay
<1>4. /\ midnight \in Nat /\ midnight <= Local(clock)
      /\ Local(clock) - (Local(clock) % Day) = midnight
      /\ Local(clock) < midnight + Day
  <2>1. /\ midnight \in Nat /\ Local(clock) % Day \in 0..Day-1
        /\ Local(clock) = midnight + (Local(clock) % Day)
    BY <1>1, <1>3
  <2> HIDE DEF midnight
  <2> QED BY <1>1, <1>2, <2>1
<1>5. Local(0) < midnight
  <2>1. Local(0) < Day /\ Day <= Local(clock) /\ Local(clock) \in Nat /\ Local(0) \in Nat
    BY <1>1, <1>2
  <2>2. today \in Nat /\ today # 0
    BY <1>1, <2>1, <1>4
  <2>3. midnight >= Day
    BY <1>1, <2>2
  <2> HIDE DEF midnight
  <2> QED BY <1>1, <1>4, <2>1, <2>3
<1>6. LocalInstant(midnight) = {Reached(midnight)}
  <2> HIDE DEF midnight
  <2> QED BY <1>1, <1>4, <1>5, WallClockIsReached
<1>7. /\ Reached(midnight) \in Instant
      /\ \A i \in Instant : midnight <= Local(i) => Reached(midnight) <= i
  <2> HIDE DEF midnight
  <2> QED BY <1>1, <1>4, ReachedIsFirst
<1>8. DayStart(clock) = Reached(midnight)
  <2>1. {Reached(midnight)} \in SUBSET Nat
    BY <1>2, <1>7
  <2>2. Min({Reached(midnight)}) = Reached(midnight)
    <3> HIDE DEF midnight
    <3> QED BY <2>1, MinIsLeast
  <2>3. DayStart(clock) = IF LocalInstant(midnight) # {} THEN Min(LocalInstant(midnight))
                          ELSE clock - (clock % Day)
    BY <1>4 DEF DayStart
  <2> HIDE DEF midnight
  <2> QED BY <1>6, <2>2, <2>3
<1>9. \A i \in 0..clock : Local(i) \div Day = today => DayStart(clock) <= i
  <2> SUFFICES ASSUME NEW i \in 0..clock, Local(i) \div Day = today
               PROVE  DayStart(clock) <= i
    OBVIOUS
  <2>1. i \in Instant
    BY <1>1, CalendarAssumption DEF Instant
  <2>2. Local(i) = midnight + (Local(i) % Day) /\ Local(i) % Day \in 0..Day-1
    BY <1>3, <2>1
  <2> HIDE DEF midnight
  <2>3. midnight <= Local(i)
    BY <1>1, <1>2, <1>4, <2>1, <2>2
  <2> QED BY <1>7, <1>8, <2>1, <2>3
<1> QED BY <1>8, <1>9 DEF BudgetDayIsTheLocalDay

\* A window that wraps midnight is quiet on both sides of it, one that does not is
\* quiet between its ends, and one that is empty never.
LEMMA QuietRoundTheClock == TypeOK => QuietHoursGoRound
<1> SUFFICES ASSUME TypeOK, NEW window \in Windows
             PROVE  IsQuiet(window, clock) <=>
                      ((Local(clock) % Day) - window[1]) % Day < (window[2] - window[1]) % Day
  BY DEF QuietHoursGoRound
<1>1. window[1] \in TimeOfDay /\ window[2] \in TimeOfDay
  BY CalendarAssumption
<1>2. Local(clock) % Day \in TimeOfDay
  <2>1. zone \in Zones /\ clock \in Instant
    BY CalendarAssumption DEF TypeOK, Instant
  <2>2. Local(clock) \in Nat
    BY <2>1, ZoneFacts
  <2> QED BY <2>2, DaysAndTimes
<1> DEFINE t == Local(clock) % Day
<1>3. /\ (t - window[1]) % Day = IF t < window[1] THEN t - window[1] + Day ELSE t - window[1]
      /\ (window[2] - window[1]) % Day =
           IF window[2] < window[1] THEN window[2] - window[1] + Day ELSE window[2] - window[1]
  BY <1>1, <1>2, RoundTheClock
<1>4. IsQuiet(window, clock) <=>
        IF window[1] > window[2] THEN window[1] <= t \/ t < window[2]
        ELSE window[1] <= t /\ t < window[2]
  BY DEF IsQuiet
<1> HIDE DEF t
<1>5. t \in 0..Day-1 /\ window[1] \in 0..Day-1 /\ window[2] \in 0..Day-1
  BY <1>1, <1>2 DEF t, TimeOfDay
<1>6. IsQuiet(window, clock) <=> (t - window[1]) % Day < (window[2] - window[1]) % Day
  BY <1>3, <1>4, <1>5, CalendarAssumption
<1> QED BY <1>6 DEF t

-----------------------------------------------------------------------------

\* Every step keeps the clock, and an anchor that is not ahead of it.
LEMMA CalendarTypes == TypeOK /\ [CalendarNext]_calendarVars => TypeOK'
<1> SUFFICES ASSUME TypeOK, [CalendarNext]_calendarVars PROVE TypeOK'
  OBVIOUS
<1> USE CalendarAssumption DEF TypeOK, NoRow
<1>1. ASSUME NEW times \in Expressions, Boot(times) PROVE TypeOK'
  BY <1>1 DEF Boot
<1>2. CASE Stop
  BY <1>2 DEF Stop
<1>3. CASE Claim
  BY <1>3 DEF Claim
<1>4. CASE ClockTick
  BY <1>4 DEF ClockTick
<1>5. ASSUME NEW on \in BOOLEAN, SetEnabled(on) PROVE TypeOK'
  BY <1>5 DEF SetEnabled
<1>6. CASE UNCHANGED calendarVars
  BY <1>6 DEF calendarVars
<1> QED BY <1>1, <1>2, <1>3, <1>4, <1>5, <1>6 DEF CalendarNext

\* The types hold of every reachable state.
LEMMA CalendarTypeHolds == CalendarSpec => []TypeOK
<1>1. CalendarInit => TypeOK
  BY CalendarAssumption DEF CalendarInit, TypeOK
<1> QED BY <1>1, CalendarTypes, PTL DEF CalendarSpec

\* In every zone whose changes are like those of a real one, a skipped hour skips
\* no occurrence of a schedule and a repeated one repeats none, however late the
\* checks come and whatever the daemon was doing meanwhile.
THEOREM DueIsTheWallClockHolds == CalendarSpec => []DueIsTheWallClock
BY CalendarTypeHolds, DueWhenReached, PTL

\* In every such zone the budget's day is the owner's: it begins when the calendar
\* first shows today, at a midnight that exists twice or not at all.
THEOREM BudgetDayIsTheLocalDayHolds == CalendarSpec => []BudgetDayIsTheLocalDay
BY CalendarTypeHolds, DayBeginsWhenReached, PTL

\* Quiet hours go round the clock, for every window and every length of the day.
THEOREM QuietHoursGoRoundHolds == CalendarSpec => []QuietHoursGoRound
BY CalendarTypeHolds, QuietRoundTheClock, PTL

-----------------------------------------------------------------------------
(* Ids, and what a poll says of them                                        *)

ItemId == {<<"item", i>> : i \in Item}
ClashId == {<<"clash", c>> : c \in {p \in Item \X Item : p[1] < p[2]}}
ErrorId == {<<"error", a>> : a \in Account}
TaxId == {<<"tax", t>> : t \in {"agi", "preliminarskatt", "moms"} \X Int}

Id == ItemId \cup ClashId \cup ErrorId \cup TaxId

FiledFor(t) == t[2] + IF t[1] = "moms" THEN 2 ELSE 1

\* What an item's row says.
ItemContent(i) ==
  CASE world.style = "notion" -> <<DueDate(i)>>
    [] world.style = "fortnox" -> <<day[i], Overdue(day[i])>>
    [] world.style \in {"google", "kth"} /\ world.items[i].sort = "mail" -> <<>>
    [] world.style = "canvas" \/ (world.style = "google" /\ world.items[i].sort # "mail")
         -> <<day[i]>>

Content(id) ==
  CASE id[1] = "item" -> ItemContent(id[2])
    [] id[1] = "clash" -> <<day[id[2][1]], day[id[2][2]]>>
    [] id[1] = "error" -> <<fault[id[2]]>>
    [] id[1] = "tax" -> <<DueIn(FiledFor(id[2]))>>

WorldInv ==
  /\ world \in Worlds
  /\ now \in Nat
  /\ open \in SUBSET Item
  /\ day \in [Item -> Nat]
  /\ fault \in [Account -> {"none"} \cup world.faults]

\* A world's parts.
LEMMA WorldParts ==
  ASSUME world \in Worlds
  PROVE  /\ world.style \in Style /\ "none" \notin world.faults
         /\ world.start \in Nat /\ world.step \in Nat
         /\ Item \in SUBSET Nat
         /\ \A i \in Item : /\ world.items[i].day \in Nat
                            /\ world.items[i].may \in SUBSET Nat
<1>1. world.items \in Seq(Thing)
  BY WatchAssumption
<1>2. Item = 1..Len(world.items) /\ Len(world.items) \in Nat
  BY <1>1 DEF Item
<1>3. \A i \in Item : world.items[i] \in Thing
  BY <1>1, <1>2
<1>4. \A i \in Item : /\ world.items[i].day \in Nat
                      /\ world.items[i].may \in SUBSET Nat
  BY <1>3 DEF Thing
<1> QED BY <1>2, <1>4, WatchAssumption

\* What may stand in a poll's answer.
Faithful(entries) ==
  \A id \in DOMAIN entries :
    /\ id \in Id /\ entries[id] = Content(id)
    /\ id[1] = "error" => fault[id[2]] # "none"

LEMMA JoinedIsFaithful ==
  ASSUME NEW e, NEW f, Faithful(e), Faithful(f)
  PROVE  Faithful(Both(e, f))
BY DEF Faithful, Both

LEMMA DatedIsFaithful ==
  ASSUME NEW events \in SUBSET Item, world.style \in {"google", "canvas"},
         \A i \in events : world.style = "google" => world.items[i].sort # "mail"
  PROVE  Faithful(DatedEntries(events))
BY DEF Faithful, DatedEntries, Id, ItemId, Content, ItemContent

LEMMA MailIsFaithful ==
  ASSUME NEW mail \in SUBSET Item, world.style \in {"google", "kth"},
         \A i \in mail : world.items[i].sort = "mail"
  PROVE  Faithful(MailEntries(mail))
BY DEF Faithful, MailEntries, Id, ItemId, Content, ItemContent

LEMMA FailureIsFaithful == Faithful(AccountFailure(Failures))
BY DEF Faithful, AccountFailure, Failures, Id, ErrorId, Content

LEMMA InvoicesAreFaithful ==
  ASSUME open \in SUBSET Item, world.style = "fortnox"
  PROVE  Faithful(InvoiceEntries)
BY DEF Faithful, InvoiceEntries, Id, ItemId, Content, ItemContent

LEMMA ConflictsAreFaithful ==
  ASSUME WorldInv, NEW events \in SUBSET Item, NEW listing \in Bijection(Item, Item)
  PROVE  Faithful(ConflictEntries(events, listing))
<1>1. \A i \in Item : day[i] \in Nat /\ listing[i] \in Nat /\ i \in Nat
  BY WorldParts DEF WorldInv, Bijection, Injection
<1>2. \A p \in FindConflicts(events, listing) :
        p[1] \in Item /\ p[2] \in Item /\ p[1] # p[2] /\ p = <<p[1], p[2]>>
  BY <1>1 DEF FindConflicts
<1>3. \A p \in FindConflicts(events, listing) :
        Ordered(p) \in {q \in Item \X Item : q[1] < q[2]}
  BY <1>1, <1>2 DEF Ordered
<1> QED BY <1>3 DEF Faithful, ConflictEntries, Id, ClashId, Content

\* Every declaration is filed in one month, which says when it is due.
LEMMA FiledOnce ==
  ASSUME NEW m \in Int, NEW d \in FiledIn(m)
  PROVE  /\ <<d.kind, d.period>> \in {"agi", "preliminarskatt", "moms"} \X Int
         /\ FiledFor(<<d.kind, d.period>>) = m /\ d.due = DueIn(m)
BY DEF FiledIn, FiledFor

LEMMA DeadlinesAreFaithful == Faithful(DeadlineEntries)
<1> DEFINE upcoming == UpcomingDeadlines(now, HorizonDays)
           Found(id) == CHOOSE d \in upcoming : <<"tax", <<d.kind, d.period>>>> = id
           ids == {<<"tax", <<d.kind, d.period>>>> : d \in upcoming}
<1>1. \A d \in upcoming : \E m \in Int : d \in FiledIn(m)
  BY DEF UpcomingDeadlines
<1>2. \A d \in upcoming :
        /\ <<d.kind, d.period>> \in {"agi", "preliminarskatt", "moms"} \X Int
        /\ d.due = DueIn(FiledFor(<<d.kind, d.period>>))
  BY <1>1, FiledOnce
<1>3. \A id \in ids : Found(id) \in upcoming /\ id = <<"tax", <<Found(id).kind, Found(id).period>>>>
  OBVIOUS
<1>4. DeadlineEntries = [id \in ids |-> <<Found(id).due>>]
  BY DEF DeadlineEntries
<1> HIDE DEF upcoming, Found, ids
<1>5. ASSUME NEW id \in ids
      PROVE  /\ id[1] = "tax" /\ id[2] = <<Found(id).kind, Found(id).period>>
             /\ id \in TaxId
  BY <1>2, <1>3 DEF TaxId
<1>6. \A id \in ids : Found(id).due = DueIn(FiledFor(id[2]))
  BY <1>2, <1>3, <1>5
<1> QED BY <1>4, <1>5, <1>6 DEF Faithful, Id, Content

LEMMA PolledIsContent ==
  ASSUME WorldInv, NEW entries \in Polled
  PROVE  Faithful(entries)
<1>1. world.style \in Style
  BY WorldParts DEF WorldInv
<1>2. CASE world.style = "google"
  <2> DEFINE events == UNION {ListEvents(a) : a \in Account}
             mail == UNION {ListRecent(a) : a \in Account}
  <2>1. events \in SUBSET Item /\ \A i \in events : world.items[i].sort # "mail"
    BY DEF ListEvents, Of, WorldInv
  <2>2. mail \in SUBSET Item /\ \A i \in mail : world.items[i].sort = "mail"
    BY DEF ListRecent, Of, WorldInv
  <2>3. PICK listing \in Bijection(Item, Item) :
          entries = Both(Both(DatedEntries(events), ConflictEntries(events, listing)),
                         Both(MailEntries(mail), AccountFailure(Failures)))
    BY <1>2 DEF Polled, PollGoogle
  <2>4. Faithful(DatedEntries(events))
    BY <1>2, <2>1, DatedIsFaithful
  <2>5. Faithful(ConflictEntries(events, listing))
    BY <2>1, ConflictsAreFaithful
  <2>6. Faithful(MailEntries(mail))
    BY <1>2, <2>2, MailIsFaithful
  <2> HIDE DEF events, mail
  <2> QED BY <2>3, <2>4, <2>5, <2>6, FailureIsFaithful, JoinedIsFaithful
<1>3. CASE world.style = "kth"
  <2>1. PICK unread \in [Account -> SUBSET Item] :
          /\ \A a \in Account : unread[a] \in ListUnread(a)
          /\ entries = Both(MailEntries(UNION {unread[a] : a \in Account}),
                            AccountFailure(Failures))
    BY <1>3 DEF Polled, PollKth
  <2> DEFINE mail == UNION {unread[a] : a \in Account}
  <2>2. \A a \in Account : \A i \in unread[a] : i \in Item /\ world.items[i].sort = "mail"
    BY <2>1 DEF ListUnread, Of, WorldInv
  <2>3. mail \in SUBSET Item /\ \A i \in mail : world.items[i].sort = "mail"
    BY <2>2
  <2>4. Faithful(MailEntries(mail))
    BY <1>3, <2>3, MailIsFaithful
  <2> HIDE DEF mail
  <2> QED BY <2>1, <2>4, FailureIsFaithful, JoinedIsFaithful DEF mail
<1>4. CASE world.style = "notion"
  BY <1>4 DEF Polled, PollNotion, Faithful, Id, ItemId, Content, ItemContent, WorldInv
<1>5. CASE world.style = "canvas"
  <2>1. entries = DatedEntries({i \in open : day[i] >= now - StaleDeadline})
    BY <1>5 DEF Polled, PollCanvas
  <2>2. {i \in open : day[i] >= now - StaleDeadline} \in SUBSET Item
    BY DEF WorldInv
  <2> QED BY <1>5, <2>1, <2>2, DatedIsFaithful
<1>6. CASE world.style = "fortnox"
  <2>1. entries = Both(InvoiceEntries, DeadlineEntries)
    BY <1>6 DEF Polled, PollFortnox
  <2> QED
    BY <1>6, <2>1, InvoicesAreFaithful, DeadlinesAreFaithful, JoinedIsFaithful DEF WorldInv
<1> QED BY <1>1, <1>2, <1>3, <1>4, <1>5, <1>6 DEF Style

-----------------------------------------------------------------------------
(* The balance                                                              *)

\* It waits for triage.
Pending(id) == IF id \in Untriaged THEN 1 ELSE 0

\* A poll would record it, or record it anew.
Left(id) ==
  IF /\ id[1] = "error" => fault[id[2]] # "none"
     /\ id \in DOMAIN rows => rows[id].payload # Content(id)
  THEN 1 ELSE 0

\* An invoice that will be announced once more when it is overdue.
Early(id) ==
  IF world.style = "fortnox" /\ id[1] = "item" /\ day[id[2]] >= now THEN 1 ELSE 0

Balance(id) ==
  Count(told, id) + Pending(id) + Left(id) + Early(id) <= Count(dropped, id) + Changes(id)

Tally(tally) == DOMAIN tally \subseteq Id /\ \A id \in DOMAIN tally : tally[id] \in Nat

IsRow(row) ==
  \E p, c, t : t \in BOOLEAN /\ row = [payload |-> p, created |-> c, triaged |-> t]

RowInv ==
  \A id \in DOMAIN rows : id \in Id /\ IsRow(rows[id])

NewsTypes ==
  /\ WorldInv /\ RowInv
  /\ Tally(told) /\ Tally(dropped)
  /\ moves \in [Item -> Nat] /\ breaks \in [Account -> Nat]

NewsInv == NewsTypes /\ \A id \in Id : Balance(id)

\* What stands on both sides of the balance.
LEMMA ChangesAreCounted == NewsTypes => \A id \in Id : Changes(id) \in Nat
<1> SUFFICES ASSUME NewsTypes, NEW id \in Id PROVE Changes(id) \in Nat
  OBVIOUS
<1>1. CASE id \in ItemId
  <2>1. PICK i \in Item : id = <<"item", i>>
    BY <1>1 DEF ItemId
  <2>2. moves[i] \in Nat
    BY DEF NewsTypes
  <2>3. Changes(id) = (IF world.style = "fortnox" THEN 2 ELSE 1) * (1 + moves[i])
    BY <2>1 DEF Changes
  <2> QED BY <2>2, <2>3
<1>2. CASE id \in ClashId
  BY <1>2 DEF ClashId, Changes, NewsTypes
<1>3. CASE id \in ErrorId
  BY <1>3 DEF ErrorId, Changes, NewsTypes
<1>4. CASE id \in TaxId
  BY <1>4 DEF TaxId, Changes
<1> QED BY <1>1, <1>2, <1>3, <1>4 DEF Id

LEMMA Sides ==
  ASSUME NewsTypes, NEW id \in Id
  PROVE  /\ Count(told, id) \in Nat /\ Count(dropped, id) \in Nat
         /\ Pending(id) \in {0, 1} /\ Left(id) \in {0, 1} /\ Early(id) \in {0, 1}
         /\ Changes(id) \in Nat
BY ChangesAreCounted DEF NewsTypes, Tally, Count, Pending, Left, Early

LEMMA NewsInit == Init => NewsInv
<1> SUFFICES ASSUME Init PROVE NewsInv
  OBVIOUS
<1>1. WorldInv
  BY WorldParts DEF Init, WorldInv
<1>2. DOMAIN rows = {} /\ DOMAIN told = {} /\ DOMAIN dropped = {}
  BY DEF Init
<1>3. NewsTypes
  BY <1>1, <1>2 DEF NewsTypes, RowInv, Tally, Init
<1>4. ASSUME NEW id \in Id PROVE Balance(id)
  <2>1. Count(told, id) = 0 /\ Count(dropped, id) = 0 /\ Pending(id) = 0
    BY <1>2 DEF Count, Pending, Untriaged
  <2>2. Left(id) + Early(id) <= Changes(id)
    <3>1. CASE id \in ItemId
      BY <3>1 DEF ItemId, Left, Early, Changes, Init
    <3>2. CASE id \in ClashId
      BY <3>2 DEF ClashId, Left, Early, Changes, Init
    <3>3. CASE id \in ErrorId
      BY <3>3 DEF ErrorId, Left, Early, Changes, Init
    <3>4. CASE id \in TaxId
      BY <3>4 DEF TaxId, Left, Early, Changes
    <3> QED BY <3>1, <3>2, <3>3, <3>4 DEF Id
  <2> QED BY <1>3, <2>1, <2>2, Sides DEF Balance
<1> QED BY <1>3, <1>4 DEF NewsInv

\* The ids there may be are the world's.
LEMMA IdStays ==
  ASSUME world' = world
  PROVE  Id' = Id /\ Item' = Item /\ Account' = Account
BY DEF Id, ItemId, ClashId, ErrorId, TaxId, Item, Account

\* What a poll says changes only with the day, the thing and the fault.
LEMMA ContentStays ==
  ASSUME UNCHANGED <<world, now, day, fault>>, NEW id
  PROVE  Content(id)' = Content(id) /\ Early(id)' = Early(id)
BY DEF Content, ItemContent, DueDate, Overdue, Early

\* What an upsert does to each row.
LEMMA Recorded ==
  ASSUME RowInv, NEW entries, Record(entries)
  PROVE  /\ DOMAIN rows' = DOMAIN rows \cup DOMAIN entries
         /\ \A id \in DOMAIN entries : id \notin DOMAIN rows => rows'[id] = NewRow(entries[id])
         /\ \A id \in DOMAIN entries : id \in DOMAIN rows =>
              /\ IsRow(rows'[id]) /\ rows'[id].payload = entries[id]
              /\ rows'[id].created = rows[id].created
              /\ rows'[id].triaged <=> rows[id].triaged /\ rows[id].payload = entries[id]
         /\ \A id \in DOMAIN rows : id \notin DOMAIN entries => rows'[id] = rows[id]
<1>1. DOMAIN rows' = DOMAIN rows \cup DOMAIN entries
  BY DEF Record
<1>2. ASSUME NEW id \in DOMAIN entries, id \notin DOMAIN rows
      PROVE  rows'[id] = NewRow(entries[id])
  BY <1>2 DEF Record
<1>3. ASSUME NEW id \in DOMAIN entries, id \in DOMAIN rows
      PROVE  /\ IsRow(rows'[id]) /\ rows'[id].payload = entries[id]
             /\ rows'[id].created = rows[id].created
             /\ rows'[id].triaged <=> rows[id].triaged /\ rows[id].payload = entries[id]
  <2>1. PICK p, c, t : /\ t \in BOOLEAN
                       /\ rows[id] = [payload |-> p, created |-> c, triaged |-> t]
    BY <1>3 DEF RowInv, IsRow
  <2> DEFINE keep == rows[id].triaged /\ rows[id].payload = entries[id]
  <2>2. rows'[id] = [[rows[id] EXCEPT !.payload = entries[id]] EXCEPT !.triaged = keep]
    <3>1. [rows[id] EXCEPT !.payload = entries[id]].triaged = rows[id].triaged
      BY <2>1
    <3> QED BY <1>3, <3>1 DEF Record
  <2>3. keep \in BOOLEAN
    OBVIOUS
  <2> HIDE DEF keep
  <2>4. rows'[id] = [payload |-> entries[id], created |-> c, triaged |-> keep]
    <3>1. [rows[id] EXCEPT !.payload = entries[id]]
            = [payload |-> entries[id], created |-> c, triaged |-> t]
      BY <2>1
    <3>2. [[payload |-> entries[id], created |-> c, triaged |-> t] EXCEPT !.triaged = keep]
            = [payload |-> entries[id], created |-> c, triaged |-> keep]
      OBVIOUS
    <3> QED BY <2>2, <3>1, <3>2
  <2>5. IsRow(rows'[id])
    BY <2>3, <2>4 DEF IsRow
  <2>6. /\ rows'[id].payload = entries[id] /\ rows'[id].triaged = keep
        /\ rows'[id].created = rows[id].created
    BY <2>1, <2>4
  <2> QED BY <2>5, <2>6 DEF keep
<1>4. ASSUME NEW id \in DOMAIN rows, id \notin DOMAIN entries
      PROVE  rows'[id] = rows[id]
  BY <1>4 DEF Record
<1> QED BY <1>1, <1>2, <1>3, <1>4

LEMMA PollKeepsNews == NewsInv /\ WatchPoll => NewsInv'
<1> SUFFICES ASSUME NewsInv, WatchPoll PROVE NewsInv'
  OBVIOUS
<1>1. PICK entries \in Polled : Record(entries)
  BY DEF WatchPoll
<1>2. UNCHANGED <<world, now, open, day, fault, told, dropped, moves, breaks>>
  BY DEF WatchPoll, thingVars
<1>3. Id' = Id /\ Item' = Item /\ Account' = Account
  BY <1>2, IdStays
<1>4. NewsTypes /\ WorldInv /\ RowInv
  BY DEF NewsInv, NewsTypes
<1>5. \A id \in DOMAIN entries :
        /\ id \in Id /\ entries[id] = Content(id)
        /\ id[1] = "error" => fault[id[2]] # "none"
  BY <1>1, <1>4, PolledIsContent DEF Faithful
<1>6. DOMAIN rows' = DOMAIN rows \cup DOMAIN entries
  BY <1>1, <1>4, Recorded
<1>7. ASSUME NEW id \in DOMAIN entries, id \notin DOMAIN rows
      PROVE  rows'[id] = [payload |-> entries[id], created |-> now, triaged |-> FALSE]
  BY <1>1, <1>4, <1>7, Recorded DEF NewRow
<1>8. ASSUME NEW id \in DOMAIN entries, id \in DOMAIN rows
      PROVE  /\ IsRow(rows'[id]) /\ rows'[id].payload = entries[id]
             /\ rows'[id].triaged <=> rows[id].triaged /\ rows[id].payload = entries[id]
  BY <1>1, <1>4, <1>8, Recorded
<1>9. ASSUME NEW id \in DOMAIN rows, id \notin DOMAIN entries
      PROVE  rows'[id] = rows[id]
  BY <1>1, <1>4, <1>9, Recorded
<1>10. RowInv'
  <2> SUFFICES ASSUME NEW id \in DOMAIN rows' PROVE id \in Id /\ IsRow(rows'[id])
    BY <1>3 DEF RowInv
  <2>1. id \in Id
    BY <1>4, <1>5, <1>6 DEF RowInv
  <2>2. CASE id \notin DOMAIN entries
    BY <1>4, <1>6, <1>9, <2>1, <2>2 DEF RowInv
  <2>3. CASE id \in DOMAIN entries /\ id \notin DOMAIN rows
    <3>1. rows'[id] = [payload |-> entries[id], created |-> now, triaged |-> FALSE]
      BY <1>7, <2>3
    <3>2. IsRow(rows'[id])
      BY <3>1 DEF IsRow
    <3> QED BY <2>1, <3>2
  <2>4. CASE id \in DOMAIN entries /\ id \in DOMAIN rows
    BY <1>8, <2>1, <2>4
  <2> QED BY <2>2, <2>3, <2>4
<1>11. NewsTypes'
  BY <1>3, <1>2, <1>4, <1>10 DEF NewsTypes, WorldInv, Tally
<1>12. ASSUME NEW id \in Id PROVE Balance(id)'
  <2>1. Content(id)' = Content(id) /\ Early(id)' = Early(id)
    BY <1>2, ContentStays
  <2>2. /\ Count(told, id)' = Count(told, id) /\ Count(dropped, id)' = Count(dropped, id)
        /\ Changes(id)' = Changes(id)
    BY <1>2 DEF Count, Changes
  <2>3. Pending(id)' + Left(id)' <= Pending(id) + Left(id)
    <3>1. CASE id \notin DOMAIN entries
      <4>1. id \in DOMAIN rows' <=> id \in DOMAIN rows
        BY <1>6, <3>1
      <4>2. id \in DOMAIN rows => rows'[id] = rows[id]
        BY <1>9, <3>1
      <4>3. Left(id)' = Left(id)
        BY <1>2, <2>1, <4>1, <4>2 DEF Left
      <4>4. Pending(id)' = Pending(id)
        BY <4>1, <4>2 DEF Pending, Untriaged
      <4> QED BY <1>4, <4>3, <4>4 DEF Left, Pending
    <3>2. CASE id \in DOMAIN entries /\ id \notin DOMAIN rows
      <4>1. Left(id) = 1
        BY <1>5, <3>2 DEF Left
      <4>2. rows'[id].payload = Content(id)' /\ id \in DOMAIN rows'
        <5>1. rows'[id] = [payload |-> entries[id], created |-> now, triaged |-> FALSE]
          BY <1>7, <3>2
        <5> QED BY <1>5, <1>6, <2>1, <3>2, <5>1
      <4>3. Left(id)' = 0
        BY <4>2 DEF Left
      <4>4. Pending(id) = 0
        BY <3>2 DEF Pending, Untriaged
      <4> QED BY <4>1, <4>3, <4>4 DEF Pending
    <3>3. CASE id \in DOMAIN entries /\ id \in DOMAIN rows
      <4>1. rows'[id].payload = Content(id)' /\ id \in DOMAIN rows'
        BY <1>5, <1>6, <1>8, <2>1, <3>3
      <4>2. Left(id)' = 0
        BY <4>1 DEF Left
      <4>3. CASE rows[id].payload = Content(id)
        <5>1. Pending(id)' = Pending(id)
          <6>1. rows'[id].triaged <=> rows[id].triaged
            BY <1>5, <1>8, <3>3, <4>3
          <6> QED BY <3>3, <4>1, <6>1 DEF Pending, Untriaged
        <5> QED BY <4>2, <5>1 DEF Pending, Left
      <4>4. CASE rows[id].payload # Content(id)
        <5>1. Left(id) = 1
          BY <1>5, <3>3, <4>4 DEF Left
        <5> QED BY <4>2, <5>1 DEF Pending
      <4> QED BY <4>3, <4>4
    <3> QED BY <3>1, <3>2, <3>3
  <2>4. Balance(id)
    BY DEF NewsInv
  <2> QED BY <1>4, <1>11, <2>1, <2>2, <2>3, <2>4, Sides DEF Balance, Pending, Left, Early
<1> QED BY <1>3, <1>11, <1>12 DEF NewsInv

\* One more in a tally.
LEMMA OneMoreCounts ==
  ASSUME NEW tally, Tally(tally), NEW ids \in SUBSET Id
  PROVE  /\ Tally(OneMore(tally, ids))
         /\ \A id \in Id : Count(OneMore(tally, ids), id)
                             = Count(tally, id) + IF id \in ids THEN 1 ELSE 0
BY DEF Tally, OneMore, Count

\* What triage does to each row.
LEMMA MarkedTriaged ==
  ASSUME RowInv, Triage, NEW id \in DOMAIN rows
  PROVE  /\ IsRow(rows'[id]) /\ rows'[id].payload = rows[id].payload
         /\ rows'[id].created = rows[id].created /\ rows'[id].triaged = TRUE
<1>1. PICK p, c, t : /\ t \in BOOLEAN
                     /\ rows[id] = [payload |-> p, created |-> c, triaged |-> t]
  BY DEF RowInv, IsRow
<1>2. rows'[id] = [rows[id] EXCEPT !.triaged = TRUE]
  BY DEF Triage
<1>3. rows'[id] = [payload |-> p, created |-> c, triaged |-> TRUE]
  <2> DEFINE marked == TRUE
  <2>1. rows'[id] = [rows[id] EXCEPT !.triaged = marked]
    BY <1>2
  <2> HIDE DEF marked
  <2>2. rows'[id] = [payload |-> p, created |-> c, triaged |-> marked]
    BY <1>1, <2>1
  <2> QED BY <2>2 DEF marked
<1>4. IsRow(rows'[id])
  BY <1>3 DEF IsRow
<1> QED BY <1>1, <1>3, <1>4

LEMMA TriageKeepsNews == NewsInv /\ Triage => NewsInv'
<1> SUFFICES ASSUME NewsInv, Triage PROVE NewsInv'
  OBVIOUS
<1>1. /\ UNCHANGED <<world, now, open, day, fault, dropped, moves, breaks>>
      /\ told' = OneMore(told, Untriaged)
      /\ rows' = [id \in DOMAIN rows |-> [rows[id] EXCEPT !.triaged = TRUE]]
  BY DEF Triage, thingVars
<1>2. NewsTypes /\ WorldInv /\ RowInv /\ Untriaged \in SUBSET Id
  BY DEF NewsInv, NewsTypes, RowInv, Untriaged
<1>3. Id' = Id /\ Item' = Item /\ Account' = Account
  BY <1>1, IdStays
<1>4. ASSUME NEW id \in DOMAIN rows
      PROVE  /\ IsRow(rows'[id]) /\ rows'[id].payload = rows[id].payload
             /\ rows'[id].triaged = TRUE
  BY <1>2, MarkedTriaged
<1>5. DOMAIN rows' = DOMAIN rows
  BY <1>1
<1>6. NewsTypes'
  <2>1. RowInv'
    BY <1>2, <1>3, <1>4, <1>5 DEF RowInv
  <2>2. Tally(told')
    BY <1>1, <1>2, OneMoreCounts DEF NewsTypes
  <2> QED BY <1>1, <1>2, <1>3, <2>1, <2>2 DEF NewsTypes, WorldInv, Tally
<1>7. ASSUME NEW id \in Id PROVE Balance(id)'
  <2>1. Content(id)' = Content(id) /\ Early(id)' = Early(id)
    BY <1>1, ContentStays
  <2>2. Count(dropped, id)' = Count(dropped, id) /\ Changes(id)' = Changes(id)
    BY <1>1 DEF Count, Changes
  <2>3. Left(id)' = Left(id)
    BY <1>1, <1>4, <1>5, <2>1 DEF Left
  <2>4. Pending(id)' = 0
    BY <1>4, <1>5 DEF Pending, Untriaged
  <2>5. Count(told, id)' = Count(told, id) + Pending(id)
    BY <1>1, <1>2, OneMoreCounts DEF NewsTypes, Pending
  <2>6. Balance(id)
    BY DEF NewsInv
  <2> QED BY <1>2, <2>1, <2>2, <2>3, <2>4, <2>5, <2>6, Sides DEF Balance
<1> QED BY <1>3, <1>6, <1>7 DEF NewsInv

LEMMA PruneKeepsNews == NewsInv /\ Prune => NewsInv'
<1> SUFFICES ASSUME NewsInv, Prune PROVE NewsInv'
  OBVIOUS
<1>1. /\ UNCHANGED <<world, now, open, day, fault, told, moves, breaks>>
      /\ dropped' = OneMore(dropped, Stale)
      /\ rows' = [id \in DOMAIN rows \ Stale |-> rows[id]]
  BY DEF Prune, thingVars
<1>2. NewsTypes /\ WorldInv /\ RowInv /\ Stale \in SUBSET Id
  BY DEF NewsInv, NewsTypes, RowInv, Stale
<1>3. Id' = Id /\ Item' = Item /\ Account' = Account
  BY <1>1, IdStays
<1>4. /\ DOMAIN rows' = DOMAIN rows \ Stale
      /\ \A id \in DOMAIN rows' : rows'[id] = rows[id]
  BY <1>1
<1>5. NewsTypes'
  <2>1. RowInv'
    BY <1>2, <1>3, <1>4 DEF RowInv
  <2>2. Tally(dropped')
    BY <1>1, <1>2, OneMoreCounts DEF NewsTypes
  <2> QED BY <1>1, <1>2, <1>3, <2>1, <2>2 DEF NewsTypes, WorldInv, Tally
<1>6. ASSUME NEW id \in Id PROVE Balance(id)'
  <2>1. Content(id)' = Content(id) /\ Early(id)' = Early(id)
    BY <1>1, ContentStays
  <2>2. Count(told, id)' = Count(told, id) /\ Changes(id)' = Changes(id)
    BY <1>1 DEF Count, Changes
  <2>3. Count(dropped, id)' = Count(dropped, id) + IF id \in Stale THEN 1 ELSE 0
    BY <1>1, <1>2, OneMoreCounts DEF NewsTypes
  <2>4. CASE id \in Stale
    <3>1. Pending(id)' = 0
      BY <1>4, <2>4 DEF Pending, Untriaged
    <3> QED BY <1>2, <1>5, <2>1, <2>2, <2>3, <2>4, <3>1, Sides DEF Balance, NewsInv, Left
  <2>5. CASE id \notin Stale
    <3>1. Pending(id)' = Pending(id)
      BY <1>4, <2>5 DEF Pending, Untriaged
    <3>2. Left(id)' = Left(id)
      BY <1>1, <1>4, <2>1, <2>5 DEF Left
    <3> QED BY <1>2, <2>1, <2>2, <2>3, <2>5, <3>1, <3>2, Sides DEF Balance, NewsInv
  <2> QED BY <2>4, <2>5
<1> QED BY <1>3, <1>5, <1>6 DEF NewsInv

-----------------------------------------------------------------------------
(* The world's steps                                                        *)

\* A step of the world tells nobody anything: what there is to say must be paid
\* for by its changes.
LEMMA WorldKeepsNews ==
  ASSUME NewsInv, WorldInv', UNCHANGED <<world, rows, told, dropped>>,
         moves' \in [Item -> Nat], breaks' \in [Account -> Nat],
         \A id \in Id : Left(id)' + Early(id)' + Changes(id)
                          <= Left(id) + Early(id) + Changes(id)'
  PROVE  NewsInv'
<1>1. Id' = Id /\ Item' = Item /\ Account' = Account
  BY IdStays
<1>2. NewsTypes'
  BY <1>1 DEF NewsTypes, NewsInv, RowInv, Tally
<1>3. (NewsTypes => \A id \in Id : Changes(id) \in Nat)'
  BY ChangesAreCounted, PTL
<1>4. ASSUME NEW id \in Id PROVE Balance(id)'
  <2>1. /\ Count(told, id)' = Count(told, id) /\ Count(dropped, id)' = Count(dropped, id)
        /\ Pending(id)' = Pending(id)
    BY DEF Count, Pending, Untriaged
  <2>2. NewsTypes /\ Balance(id) /\ id \in Id'
    BY <1>1 DEF NewsInv
  <2>3. /\ Left(id) \in {0, 1} /\ Early(id) \in {0, 1} /\ Changes(id) \in Nat
        /\ Pending(id) \in {0, 1} /\ Count(told, id) \in Nat /\ Count(dropped, id) \in Nat
    BY <2>2, Sides
  <2>4. Left(id)' \in {0, 1} /\ Early(id)' \in {0, 1}
    BY DEF Left, Early
  <2>5. Changes(id)' \in Nat
    BY <1>2, <1>3, <2>2
  <2> QED BY <2>1, <2>2, <2>3, <2>4, <2>5 DEF Balance
<1> QED BY <1>1, <1>2, <1>4 DEF NewsInv

\* A day passes: an invoice that is overdue now was not, and has changed for it.
LEMMA TickKeepsNews == NewsInv /\ Tick => NewsInv'
<1> SUFFICES ASSUME NewsInv, Tick PROVE NewsInv'
  OBVIOUS
<1>1. /\ now' = now + world.step
      /\ UNCHANGED <<world, open, day, fault, rows, told, dropped, moves, breaks>>
  BY DEF Tick, thingVars, historyVars
<1>2. WorldInv /\ NewsTypes
  BY DEF NewsInv, NewsTypes
<1>3. now \in Nat /\ now' \in Nat /\ now <= now'
  BY <1>1, <1>2, WorldParts DEF WorldInv
<1>4. WorldInv'
  BY <1>1, <1>2, <1>3, IdStays DEF WorldInv
<1>5. ASSUME NEW id \in Id
      PROVE  Left(id)' + Early(id)' + Changes(id) <= Left(id) + Early(id) + Changes(id)'
  <2>1. Changes(id)' = Changes(id) /\ Changes(id) \in Nat
    BY <1>1, <1>2, Sides DEF Changes
  <2>2. CASE Content(id)' = Content(id)
    <3>1. Left(id)' = Left(id)
      BY <1>1, <2>2 DEF Left
    <3>2. Early(id)' <= Early(id)
      <4>1. CASE id \in ItemId
        <5>1. PICK i \in Item : id = <<"item", i>> /\ day[i] \in Nat
          BY <1>2, <4>1 DEF ItemId, WorldInv
        <5> QED BY <1>1, <1>3, <5>1 DEF Early
      <4>2. CASE id \notin ItemId
        BY <4>2 DEF Id, ClashId, ErrorId, TaxId, Early
      <4> QED BY <4>1, <4>2
    <3> QED BY <2>1, <3>1, <3>2 DEF Left, Early
  <2>3. CASE Content(id)' # Content(id)
    <3>1. PICK i \in Item : id = <<"item", i>>
      BY <1>1, <2>3 DEF Id, ItemId, ClashId, ErrorId, TaxId, Content
    <3>2. ItemContent(i)' # ItemContent(i)
      BY <2>3, <3>1 DEF Content
    <3>3. world.style = "fortnox" /\ Overdue(day[i])' # Overdue(day[i])
      BY <1>1, <3>2 DEF ItemContent, DueDate
    <3>4. day[i] >= now /\ day'[i] < now'
      BY <1>1, <1>2, <1>3, <3>3 DEF Overdue, WorldInv
    <3>5. Early(id) = 1 /\ Early(id)' = 0
      BY <1>1, <1>2, <1>3, <3>1, <3>3, <3>4 DEF Early, WorldInv
    <3> QED BY <2>1, <3>5 DEF Left
  <2> QED BY <2>2, <2>3
<1>6. moves' \in [Item -> Nat] /\ breaks' \in [Account -> Nat]
  BY <1>1, <1>2 DEF NewsTypes
<1> QED BY <1>1, <1>4, <1>5, <1>6, WorldKeepsNews

LEMMA ToggleKeepsNews == ASSUME NewsInv, NEW i \in Item, Toggle(i) PROVE NewsInv'
<1>1. /\ UNCHANGED <<world, now, day, fault, rows, told, dropped, moves, breaks>>
      /\ open' = IF i \in open THEN open \ {i} ELSE open \cup {i}
  BY DEF Toggle
<1>2. WorldInv /\ NewsTypes
  BY DEF NewsInv, NewsTypes
<1>3. WorldInv'
  BY <1>1, <1>2, IdStays DEF WorldInv
<1>4. ASSUME NEW id \in Id
      PROVE  Left(id)' + Early(id)' + Changes(id) <= Left(id) + Early(id) + Changes(id)'
  <2>1. Content(id)' = Content(id) /\ Early(id)' = Early(id)
    BY <1>1, ContentStays
  <2>2. Changes(id)' = Changes(id) /\ Left(id)' = Left(id)
    BY <1>1, <2>1 DEF Changes, Left
  <2> QED BY <1>2, <2>1, <2>2, Sides
<1>5. moves' \in [Item -> Nat] /\ breaks' \in [Account -> Nat]
  BY <1>1, <1>2 DEF NewsTypes
<1> QED BY <1>1, <1>3, <1>4, <1>5, WorldKeepsNews

\* A thing is moved: its row, and those of its clashes, have a change more.
LEMMA MoveKeepsNews ==
  ASSUME NewsInv, NEW i \in Item, NEW to \in world.items[i].may, Move(i, to)
  PROVE  NewsInv'
<1>1. /\ UNCHANGED <<world, now, open, fault, rows, told, dropped, breaks>>
      /\ day' = [day EXCEPT ![i] = to]
      /\ moves' = [moves EXCEPT ![i] = @ + 1]
  BY DEF Move
<1>2. WorldInv /\ NewsTypes
  BY DEF NewsInv, NewsTypes
<1>3. /\ to \in Nat /\ moves[i] \in Nat
      /\ day \in [Item -> Nat] /\ moves \in [Item -> Nat]
  BY <1>2, WorldParts DEF WorldInv, NewsTypes
<1>4. /\ day' \in [Item -> Nat] /\ moves' \in [Item -> Nat]
      /\ \A j \in Item : j # i => day'[j] = day[j] /\ moves'[j] = moves[j]
      /\ moves'[i] = moves[i] + 1
  BY <1>1, <1>3
<1>5. WorldInv'
  BY <1>1, <1>2, <1>4, IdStays DEF WorldInv
<1>6. ASSUME NEW id \in Id
      PROVE  Left(id)' + Early(id)' + Changes(id) <= Left(id) + Early(id) + Changes(id)'
  <2>1. /\ Left(id) \in {0, 1} /\ Early(id) \in {0, 1} /\ Changes(id) \in Nat
        /\ Left(id)' \in {0, 1} /\ Early(id)' \in {0, 1}
    BY <1>2, Sides DEF Left, Early
  <2>2. ASSUME Content(id)' = Content(id), Early(id)' = Early(id), Changes(id)' = Changes(id)
        PROVE  Left(id)' + Early(id)' + Changes(id) <= Left(id) + Early(id) + Changes(id)'
    <3>1. Left(id)' = Left(id)
      BY <1>1, <2>2 DEF Left
    <3> QED BY <2>1, <2>2, <3>1
  <2>3. CASE id \in ItemId
    <3>1. PICK j \in Item : id = <<"item", j>>
      BY <2>3 DEF ItemId
    <3>2. CASE j = i
      <4>1. CASE world.style = "fortnox"
        <5>1. Changes(id) = 2 * (1 + moves[i]) /\ Changes(id)' = 2 * (1 + moves'[i])
          BY <1>1, <3>1, <3>2, <4>1 DEF Changes
        <5> QED BY <1>3, <1>4, <2>1, <5>1
      <4>2. CASE world.style # "fortnox"
        <5>1. Changes(id) = 1 * (1 + moves[i]) /\ Changes(id)' = 1 * (1 + moves'[i])
          BY <1>1, <3>1, <3>2, <4>2 DEF Changes
        <5>2. Early(id) = 0 /\ Early(id)' = 0
          BY <1>1, <4>2 DEF Early
        <5> QED BY <1>3, <1>4, <2>1, <5>1, <5>2
      <4> QED BY <4>1, <4>2
    <3>3. CASE j # i
      <4>1. day'[j] = day[j] /\ moves'[j] = moves[j]
        BY <1>4, <3>3
      <4>2. Content(id)' = Content(id)
        <5>1. DueDate(j)' = DueDate(j)
          BY <1>1, <4>1 DEF DueDate
        <5>2. Overdue(day[j])' = Overdue(day[j])
          BY <1>1, <4>1 DEF Overdue
        <5>3. ItemContent(j)' = ItemContent(j)
          BY <1>1, <4>1, <5>1, <5>2 DEF ItemContent
        <5> QED BY <3>1, <5>3 DEF Content
      <4>3. Early(id)' = Early(id) /\ Changes(id)' = Changes(id)
        BY <1>1, <3>1, <4>1 DEF Early, Changes
      <4> QED BY <2>2, <4>2, <4>3
    <3> QED BY <3>2, <3>3
  <2>4. CASE id \in ClashId
    <3>1. PICK c \in Item \X Item : id = <<"clash", c>> /\ c[1] < c[2]
      BY <2>4 DEF ClashId
    <3>2. Early(id) = 0 /\ Early(id)' = 0
      BY <3>1 DEF Early
    <3>3. /\ Changes(id) = 1 + moves[c[1]] + moves[c[2]]
          /\ Changes(id)' = 1 + moves'[c[1]] + moves'[c[2]]
      BY <3>1 DEF Changes
    <3>4. c[1] \in Item /\ c[2] \in Item /\ i \in Nat /\ c[1] \in Nat /\ c[2] \in Nat
      BY <1>2, <3>1, WorldParts DEF WorldInv
    <3>5. /\ moves[c[1]] \in Nat /\ moves[c[2]] \in Nat
          /\ moves'[c[1]] \in Nat /\ moves'[c[2]] \in Nat
      BY <1>3, <1>4, <3>4
    <3>6. CASE c[1] # i /\ c[2] # i
      <4>1. Content(id)' = Content(id)
        BY <1>4, <3>1, <3>4, <3>6 DEF Content
      <4> QED BY <1>4, <2>2, <3>2, <3>3, <3>4, <3>6, <4>1
    <3>7. CASE c[1] = i
      <4>1. moves'[c[1]] = moves[c[1]] + 1 /\ moves'[c[2]] = moves[c[2]]
        BY <1>4, <3>1, <3>4, <3>7
      <4> QED BY <2>1, <3>2, <3>3, <3>5, <4>1
    <3>8. CASE c[2] = i
      <4>1. moves'[c[2]] = moves[c[2]] + 1 /\ moves'[c[1]] = moves[c[1]]
        BY <1>4, <3>1, <3>4, <3>8
      <4> QED BY <2>1, <3>2, <3>3, <3>5, <4>1
    <3> QED BY <3>6, <3>7, <3>8
  <2>5. CASE id \in ErrorId
    <3>1. Content(id)' = Content(id) /\ Early(id)' = Early(id) /\ Changes(id)' = Changes(id)
      BY <1>1, <2>5 DEF ErrorId, Content, Early, Changes
    <3> QED BY <2>2, <3>1
  <2>6. CASE id \in TaxId
    <3>1. Content(id)' = Content(id) /\ Early(id)' = Early(id) /\ Changes(id)' = Changes(id)
      BY <2>6 DEF TaxId, Content, Early, Changes
    <3> QED BY <2>2, <3>1
  <2> QED BY <2>3, <2>4, <2>5, <2>6 DEF Id
<1>7. breaks' \in [Account -> Nat]
  BY <1>1, <1>2 DEF NewsTypes
<1> QED BY <1>1, <1>4, <1>5, <1>6, <1>7, WorldKeepsNews

\* An account breaks, or is mended: only its own row is concerned.
LEMMA FaultKeepsNews ==
  ASSUME NewsInv, NEW a \in Account,
         NEW with \in {"none"} \cup world.faults,
         fault' = [fault EXCEPT ![a] = with],
         \/ with = "none" /\ breaks' = breaks
         \/ breaks' = [breaks EXCEPT ![a] = @ + 1],
         UNCHANGED <<world, now, open, day, rows, told, dropped, moves>>
  PROVE  NewsInv'
<1>1. WorldInv /\ NewsTypes
  BY DEF NewsInv, NewsTypes
<1>2. fault \in [Account -> {"none"} \cup world.faults] /\ breaks \in [Account -> Nat]
  BY <1>1 DEF WorldInv, NewsTypes
<1>3. /\ fault' \in [Account -> {"none"} \cup world.faults] /\ breaks' \in [Account -> Nat]
      /\ fault'[a] = with
      /\ \A b \in Account : b # a => fault'[b] = fault[b] /\ breaks'[b] = breaks[b]
      /\ (with = "none" /\ breaks'[a] = breaks[a]) \/ breaks'[a] = breaks[a] + 1
  BY <1>2
<1>4. WorldInv'
  BY <1>1, <1>3, IdStays DEF WorldInv
<1>5. ASSUME NEW id \in Id
      PROVE  Left(id)' + Early(id)' + Changes(id) <= Left(id) + Early(id) + Changes(id)'
  <2>1. /\ Left(id) \in {0, 1} /\ Early(id) \in {0, 1} /\ Changes(id) \in Nat
        /\ Left(id)' \in {0, 1} /\ Early(id)' = Early(id)
    BY <1>1, Sides DEF Left, Early
  <2>2. CASE id = <<"error", a>>
    <3>1. Changes(id) = breaks[a] /\ Changes(id)' = breaks'[a]
      BY <2>2 DEF Changes
    <3>2. CASE with = "none" /\ breaks'[a] = breaks[a]
      <4>1. Left(id)' = 0
        BY <1>3, <2>2, <3>2 DEF Left
      <4> QED BY <2>1, <3>1, <3>2, <4>1
    <3>3. CASE breaks'[a] = breaks[a] + 1
      BY <2>1, <3>1, <3>3
    <3> QED BY <1>3, <3>2, <3>3
  <2>3. CASE id # <<"error", a>>
    <3>1. id[1] = "error" => id[2] \in Account /\ id[2] # a
      BY <2>3 DEF Id, ItemId, ClashId, ErrorId, TaxId
    <3>2. id[1] = "error" => fault'[id[2]] = fault[id[2]] /\ breaks'[id[2]] = breaks[id[2]]
      BY <1>3, <3>1
    <3>3. Content(id)' = Content(id)
      BY <3>2 DEF Content, ItemContent, DueDate, Overdue
    <3>4. Changes(id)' = Changes(id)
      BY <3>2 DEF Changes
    <3>5. Left(id)' = Left(id)
      BY <3>2, <3>3 DEF Left
    <3> QED BY <2>1, <3>4, <3>5
  <2> QED BY <2>2, <2>3
<1>6. moves' \in [Item -> Nat]
  BY <1>1 DEF NewsTypes
<1> QED BY <1>3, <1>4, <1>5, <1>6, WorldKeepsNews

LEMMA NewsIsKept == NewsInv /\ [Next]_vars => NewsInv'
<1> SUFFICES ASSUME NewsInv, [Next]_vars PROVE NewsInv'
  OBVIOUS
<1>1. CASE WatchPoll
  BY <1>1, PollKeepsNews
<1>2. CASE Triage
  BY <1>2, TriageKeepsNews
<1>3. CASE Prune
  BY <1>3, PruneKeepsNews
<1>4. CASE Tick
  BY <1>4, TickKeepsNews
<1>5. ASSUME NEW i \in Item, Toggle(i) PROVE NewsInv'
  BY <1>5, ToggleKeepsNews
<1>6. ASSUME NEW i \in Item, NEW to \in world.items[i].may, Move(i, to) PROVE NewsInv'
  BY <1>6, MoveKeepsNews
<1>7. ASSUME NEW a \in Account, NEW with \in world.faults, Break(a, with) PROVE NewsInv'
  <2>1. /\ fault' = [fault EXCEPT ![a] = with]
        /\ breaks' = [breaks EXCEPT ![a] = @ + 1]
        /\ UNCHANGED <<world, now, open, day, rows, told, dropped, moves>>
    BY <1>7 DEF Break
  <2> QED BY <2>1, FaultKeepsNews
<1>8. ASSUME NEW a \in Account, Mend(a) PROVE NewsInv'
  <2>1. /\ fault' = [fault EXCEPT ![a] = "none"] /\ breaks' = breaks
        /\ UNCHANGED <<world, now, open, day, rows, told, dropped, moves>>
    BY <1>8 DEF Mend, historyVars
  <2> QED BY <2>1, FaultKeepsNews
<1>9. CASE UNCHANGED vars
  <2>1. UNCHANGED <<world, now, open, day, fault, rows, told, dropped, moves, breaks>>
    BY <1>9 DEF vars, thingVars, historyVars
  <2>2. WorldInv' /\ moves' \in [Item -> Nat] /\ breaks' \in [Account -> Nat]
    BY <2>1, IdStays DEF NewsInv, NewsTypes, WorldInv
  <2>3. ASSUME NEW id \in Id
        PROVE  Left(id)' + Early(id)' + Changes(id) <= Left(id) + Early(id) + Changes(id)'
    <3>1. Left(id)' = Left(id) /\ Early(id)' = Early(id) /\ Changes(id)' = Changes(id)
      BY <2>1, ContentStays DEF Left, Changes
    <3> QED BY <3>1, Sides DEF NewsInv
  <2> QED BY <2>1, <2>2, <2>3, WorldKeepsNews
<1> QED BY <1>1, <1>2, <1>3, <1>4, <1>5, <1>6, <1>7, <1>8, <1>9 DEF Next

-----------------------------------------------------------------------------
(* Retention                                                                *)

\* Retention needs time: a row stands for Retention days before it is deleted, and
\* for as long again whenever it is recorded anew.
Period == Retention + 1
Spent(id) == world.start + Count(dropped, id) * Period

AgeInv ==
  /\ now \in Nat /\ world.start \in Nat /\ world.step \in Nat
  /\ \A id \in Id : Spent(id) <= now
  /\ \A id \in Id : id \in DOMAIN rows => rows[id].created \in Nat /\ Spent(id) <= rows[id].created

LEMMA SpentIsWhole ==
  ASSUME NewsTypes, AgeInv, NEW id \in Id
  PROVE  Spent(id) \in Int /\ Period \in Nat /\ Period >= 1
<1>1. Count(dropped, id) \in Nat
  BY Sides
<1>2. Period \in Nat /\ Period >= 1
  BY WatchAssumption DEF Period
<1> QED BY <1>1, <1>2 DEF Spent, AgeInv

LEMMA AgeInit == Init => AgeInv
<1> SUFFICES ASSUME Init PROVE AgeInv
  OBVIOUS
<1>1. now = world.start /\ world.start \in Nat /\ world.step \in Nat
  BY WorldParts DEF Init
<1>2. DOMAIN rows = {} /\ \A id \in Id : Count(dropped, id) = 0
  BY DEF Init, Count
<1>3. \A id \in Id : Spent(id) = world.start
  BY <1>1, <1>2, WatchAssumption DEF Spent, Period
<1> QED BY <1>1, <1>2, <1>3 DEF AgeInv

\* Time passes, and what is recorded anew bears the day it is.
LEMMA DatesAreKept ==
  ASSUME AgeInv, UNCHANGED <<world, dropped>>, now' \in Nat, now <= now',
         \A id \in Id : id \in DOMAIN rows' =>
           \/ id \in DOMAIN rows /\ rows'[id].created = rows[id].created
           \/ rows'[id].created = now',
         NewsTypes
  PROVE  AgeInv'
<1>1. Id' = Id
  BY IdStays
<1>2. ASSUME NEW id \in Id PROVE Spent(id)' = Spent(id) /\ Spent(id) \in Int
  <2>1. Spent(id)' = Spent(id)
    BY DEF Spent, Count, Period
  <2> QED BY <2>1, SpentIsWhole
<1>3. ASSUME NEW id \in Id PROVE Spent(id)' <= now'
  BY <1>2 DEF AgeInv
<1>4. ASSUME NEW id \in Id, id \in DOMAIN rows'
      PROVE  rows'[id].created \in Nat /\ Spent(id)' <= rows'[id].created
  BY <1>2, <1>3, <1>4 DEF AgeInv
<1> QED BY <1>1, <1>3, <1>4 DEF AgeInv

\* A row that is deleted is older than a retention period.
LEMMA PruneKeepsAge == NewsInv /\ AgeInv /\ Prune => AgeInv'
<1> SUFFICES ASSUME NewsInv, AgeInv, Prune PROVE AgeInv'
  OBVIOUS
<1>1. /\ UNCHANGED <<world, now>>
      /\ dropped' = OneMore(dropped, Stale)
      /\ rows' = [id \in DOMAIN rows \ Stale |-> rows[id]]
  BY DEF Prune
<1>2. NewsTypes /\ RowInv /\ Stale \in SUBSET Id /\ Id' = Id
  BY <1>1, IdStays DEF NewsInv, NewsTypes, RowInv, Stale
<1>3. ASSUME NEW id \in Id
      PROVE  Count(dropped, id)' = Count(dropped, id) + IF id \in Stale THEN 1 ELSE 0
  BY <1>1, <1>2, OneMoreCounts DEF NewsTypes
<1>4. ASSUME NEW id \in Id, id \notin Stale
      PROVE  Spent(id)' = Spent(id)
  <2>1. Count(dropped, id) \in Nat
    BY <1>2, Sides
  <2>2. Count(dropped, id)' = Count(dropped, id)
    BY <1>3, <1>4, <2>1
  <2> QED BY <1>1, <2>2 DEF Spent, Period
<1>5. ASSUME NEW id \in Stale
      PROVE  Spent(id)' <= now
  <2> DEFINE c == Count(dropped, id)
  <2>1. c \in Nat /\ Count(dropped, id)' = c + 1
    BY <1>2, <1>3, Sides
  <2>2. rows[id].created \in Nat /\ Spent(id) <= rows[id].created /\ id \in DOMAIN rows
    BY <1>2 DEF AgeInv, Stale
  <2>3. rows[id].created < now - Retention
    BY DEF Stale
  <2>4. Period \in Nat /\ Period = Retention + 1 /\ Retention \in Nat
    BY WatchAssumption DEF Period
  <2>5. Spent(id) = world.start + c * Period /\ Spent(id)' = world.start + (c + 1) * Period
    BY <1>1, <2>1 DEF Spent, Period
  <2> HIDE DEF c
  <2>6. (c + 1) * Period = c * Period + Period /\ c * Period \in Nat
    BY <2>1, <2>4
  <2>7. now \in Nat /\ world.start \in Nat
    BY DEF AgeInv
  <2> QED BY <2>2, <2>3, <2>4, <2>5, <2>6, <2>7
<1>6. \A id \in Id : Spent(id)' <= now'
  BY <1>1, <1>4, <1>5 DEF AgeInv
<1>7. ASSUME NEW id \in Id, id \in DOMAIN rows'
      PROVE  rows'[id].created \in Nat /\ Spent(id)' <= rows'[id].created
  <2>1. id \in DOMAIN rows /\ id \notin Stale /\ rows'[id] = rows[id]
    BY <1>1, <1>7
  <2> QED BY <1>4, <2>1 DEF AgeInv
<1> QED BY <1>1, <1>2, <1>6, <1>7 DEF AgeInv

LEMMA AgeIsKept == NewsInv /\ AgeInv /\ [Next]_vars => AgeInv'
<1> SUFFICES ASSUME NewsInv, AgeInv, [Next]_vars PROVE AgeInv'
  OBVIOUS
<1>0. NewsTypes /\ RowInv /\ now \in Nat /\ world.step \in Nat
  BY DEF NewsInv, NewsTypes, AgeInv
<1>1. CASE WatchPoll
  <2>1. PICK entries \in Polled : Record(entries)
    BY <1>1 DEF WatchPoll
  <2>2. UNCHANGED <<world, now, dropped>>
    BY <1>1 DEF WatchPoll
  <2>3. ASSUME NEW id \in DOMAIN rows'
        PROVE  \/ id \in DOMAIN rows /\ rows'[id].created = rows[id].created
               \/ rows'[id].created = now'
    <3>1. CASE id \in DOMAIN rows
      BY <1>0, <2>1, <3>1, Recorded
    <3>2. CASE id \notin DOMAIN rows
      <4>0. id \in DOMAIN entries
        BY <1>0, <2>1, <2>3, <3>2, Recorded
      <4>1. rows'[id] = NewRow(entries[id])
        BY <1>0, <2>1, <3>2, <4>0, Recorded
      <4>2. rows'[id].created = now
        BY <4>1 DEF NewRow
      <4> QED BY <2>2, <4>2
    <3> QED BY <3>1, <3>2
  <2> QED BY <1>0, <2>2, <2>3, DatesAreKept
<1>2. CASE Triage
  <2>1. UNCHANGED <<world, now, dropped>> /\ DOMAIN rows' = DOMAIN rows
    BY <1>2 DEF Triage
  <2>2. \A id \in DOMAIN rows : rows'[id].created = rows[id].created
    BY <1>0, <1>2, MarkedTriaged
  <2> QED BY <1>0, <2>1, <2>2, DatesAreKept
<1>3. CASE Prune
  BY <1>3, PruneKeepsAge
<1>4. CASE Tick
  <2>1. UNCHANGED <<world, dropped, rows>> /\ now' = now + world.step
    BY <1>4 DEF Tick, historyVars
  <2> QED BY <1>0, <2>1, DatesAreKept
<1>5. CASE \/ \E i \in Item : Toggle(i)
           \/ \E i \in Item : \E to \in world.items[i].may : Move(i, to)
           \/ \E a \in Account : \E with \in world.faults : Break(a, with)
           \/ \E a \in Account : Mend(a)
           \/ UNCHANGED vars
  <2>1. UNCHANGED <<world, now, dropped, rows>>
    BY <1>5 DEF Toggle, Move, Break, Mend, vars, historyVars
  <2> QED BY <1>0, <2>1, DatesAreKept
<1> QED BY <1>1, <1>2, <1>3, <1>4, <1>5 DEF Next

\* At most so many more as there were deletions, each of which took its time.
LEMMA FewerTakeLess ==
  ASSUME NEW n \in Int, NEW m \in Int, n <= m, NEW p \in Nat
  PROVE  n * p <= m * p
<1>1. PICK k \in Nat : m = n + k
  <2>1. m - n \in Nat /\ m = n + (m - n)
    OBVIOUS
  <2> QED BY <2>1
<1>2. k * p \in Nat
  OBVIOUS
<1>3. (n + k) * p = n * p + k * p /\ n * p \in Int
  OBVIOUS
<1> QED BY <1>1, <1>2, <1>3

\* A clash is only ever reported under its sorted ids.
LEMMA NewsInvIsEnough == NewsInv /\ AgeInv => NewsIsNotRepeated
<1> SUFFICES ASSUME NewsInv, AgeInv, NEW id \in DOMAIN told
             PROVE  (Times(told, id) - Changes(id)) * (Retention + 1) <= now - world.start
  BY DEF NewsIsNotRepeated
<1>1. NewsTypes /\ id \in Id /\ Balance(id)
  BY DEF NewsInv, NewsTypes, Tally
<1>2. Count(told, id) <= Count(dropped, id) + Changes(id)
  BY <1>1, Sides DEF Balance
<1>3. Count(told, id) \in Nat /\ Count(dropped, id) \in Nat /\ Changes(id) \in Nat
  BY <1>1, Sides
<1>4. Times(told, id) = Count(told, id)
  <2>1. CASE id[1] # "clash"
    BY <1>3, <2>1 DEF Times
  <2>2. CASE id[1] = "clash"
    <3> DEFINE other == <<"clash", <<id[2][2], id[2][1]>>>>
    <3>1. other \notin Id
      <4>1. PICK c \in Item \X Item : id = <<"clash", c>> /\ c[1] < c[2]
        BY <1>1, <2>2 DEF Id, ItemId, ClashId, ErrorId, TaxId
      <4>2. c[1] \in Nat /\ c[2] \in Nat
        BY <1>1, <4>1, WorldParts DEF NewsTypes, WorldInv
      <4> QED BY <4>1, <4>2 DEF Id, ItemId, ClashId, ErrorId, TaxId
    <3>2. Count(told, other) = 0
      BY <1>1, <3>1 DEF NewsTypes, Tally, Count
    <3> HIDE DEF other
    <3>3. Times(told, id) = Count(told, id) + 0
      BY <2>2, <3>2 DEF Times, other
    <3> QED BY <1>3, <3>3
  <2> QED BY <2>1, <2>2
<1> DEFINE n == Times(told, id) - Changes(id)
           m == Count(dropped, id)
<1>5. n \in Int /\ m \in Int /\ n <= m
  BY <1>2, <1>3, <1>4
<1>6. Spent(id) <= now /\ now \in Nat /\ world.start \in Nat /\ Spent(id) = world.start + m * Period
  BY <1>1 DEF AgeInv, Spent
<1>7. Period \in Nat /\ Period = Retention + 1
  BY WatchAssumption DEF Period
<1> HIDE DEF n, m
<1>8. n * Period <= m * Period
  BY <1>5, <1>7, FewerTakeLess
<1>9. n * Period \in Int /\ m * Period \in Int
  BY <1>5, <1>7
<1>10. n * Period <= now - world.start
  BY <1>6, <1>8, <1>9
<1> QED BY <1>7, <1>10 DEF n

\* In every world, however the connectors are polled, nothing is put before triage
\* more often than it appeared or changed, and once more in each retention period
\* at the most, when retention deleted a row that a connector reports still.
THEOREM NewsIsNotRepeatedHolds == Spec => []NewsIsNotRepeated
<1>1. Init => NewsInv /\ AgeInv
  BY NewsInit, AgeInit
<1>2. NewsInv /\ AgeInv /\ [Next]_vars => (NewsInv /\ AgeInv)'
  BY NewsIsKept, AgeIsKept
<1> QED BY <1>1, <1>2, NewsInvIsEnough, PTL DEF Spec

-----------------------------------------------------------------------------
(* Months                                                                   *)

\* What of a year is over when a month begins.
LEMMA YearsMonths ==
  /\ \A i \in 1..12 : Before[i] \in Nat /\ Before[i] <= 334
  /\ Before[1] = 0 /\ Before[12] = 334
  /\ \A i \in 1..11 : Before[i] + 28 <= Before[i + 1]
  /\ \A i \in {1, 3, 5, 7, 8, 10} : Before[i] + 31 <= Before[i + 1]
  /\ \A i, j \in 1..12 : i <= j => Before[i] <= Before[j]
BY DEF Before

\* A month and its place in its year.
LEMMA PlaceInYear ==
  ASSUME NEW m \in Int
  PROVE  /\ m \div 12 \in Int /\ OfYear(m) \in 1..12 /\ m = 12 * (m \div 12) + OfYear(m) - 1
         /\ (m + 46) \div 48 \in Int
         /\ FirstOf(m) \in Int
BY YearsMonths DEF OfYear, FirstOf

\* The days before a month: whole years', those of its own, and the leap days.
LEMMA DaysBefore ==
  ASSUME NEW m \in Int
  PROVE  /\ FirstOf(m) = 365 * (m \div 12) + Before[OfYear(m)] + (m + 46) \div 48
         /\ Before[OfYear(m)] \in Nat /\ Before[OfYear(m)] <= 334
<1>1. OfYear(m) \in 1..12
  BY PlaceInYear
<1>2. Before[OfYear(m)] \in Nat /\ Before[OfYear(m)] <= 334
  BY <1>1, YearsMonths
<1> QED BY <1>2 DEF FirstOf

LEMMA MonthsFollow ==
  ASSUME NEW m \in Int
  PROVE  /\ FirstOf(m) + 28 <= FirstOf(m + 1)
         /\ OfYear(m) \in {1, 3, 5, 7, 8, 10, 12} => FirstOf(m) + 31 <= FirstOf(m + 1)
<1> DEFINE n == m + 1
           y == m \div 12
           z == n \div 12
           b == Before[OfYear(m)]
           c == Before[OfYear(n)]
           k == (m + 46) \div 48
           l == (n + 46) \div 48
<1>1. k <= l /\ k \in Int /\ l \in Int /\ y \in Int /\ z \in Int
  OBVIOUS
<1>2. b \in Nat /\ FirstOf(m) = 365 * y + b + k
  BY DaysBefore
<1>3. c \in Nat /\ FirstOf(n) = 365 * z + c + l
  <2>1. n \in Int
    OBVIOUS
  <2> HIDE DEF n
  <2> QED BY <2>1, DaysBefore
<1>4. CASE OfYear(m) = 12
  <2>1. z = y + 1 /\ OfYear(n) = 1
    BY <1>4 DEF OfYear
  <2>2. b = 334 /\ c = 0
    BY <1>4, <2>1, YearsMonths
  <2> HIDE DEF y, z, b, c, k, l
  <2> QED BY <1>1, <1>2, <1>3, <2>1, <2>2
<1>5. CASE OfYear(m) # 12
  <2>1. z = y /\ OfYear(n) = OfYear(m) + 1
    BY <1>5 DEF OfYear
  <2>2. OfYear(m) \in 1..11
    BY <1>5, PlaceInYear
  <2>3. b + 28 <= c /\ (OfYear(m) \in {1, 3, 5, 7, 8, 10, 12} => b + 31 <= c)
    BY <1>5, <2>1, <2>2, YearsMonths
  <2> HIDE DEF y, z, b, c, k, l
  <2> QED BY <1>1, <1>2, <1>3, <2>1, <2>3
<1> QED BY <1>4, <1>5

LEMMA MonthsAreOrdered ==
  ASSUME NEW m \in Int, NEW n \in Int, m <= n
  PROVE  FirstOf(m) <= FirstOf(n)
<1> DEFINE y == m \div 12
           z == n \div 12
           b == Before[OfYear(m)]
           c == Before[OfYear(n)]
           k == (m + 46) \div 48
           l == (n + 46) \div 48
<1>1. k <= l /\ k \in Int /\ l \in Int /\ y \in Int /\ z \in Int /\ y <= z
  OBVIOUS
<1>2. b \in Nat /\ c \in Nat /\ b <= 334
  BY DaysBefore
<1>3. FirstOf(m) = 365 * y + b + k /\ FirstOf(n) = 365 * z + c + l
  BY DaysBefore
<1>4. y = z => b <= c
  <2> SUFFICES ASSUME y = z PROVE b <= c
    OBVIOUS
  <2>1. /\ OfYear(m) \in 1..12 /\ m = 12 * y + OfYear(m) - 1
        /\ OfYear(n) \in 1..12 /\ n = 12 * z + OfYear(n) - 1
    BY PlaceInYear
  <2> HIDE DEF y, z
  <2>2. OfYear(m) <= OfYear(n)
    BY <1>1, <2>1
  <2> QED BY <2>1, <2>2, YearsMonths
<1> HIDE DEF y, z, b, c, k, l
<1> QED BY <1>1, <1>2, <1>3, <1>4

\* A day is in one month.
LEMMA OneMonth ==
  ASSUME NEW m \in Int, NEW n \in Int, NEW d \in Int,
         FirstOf(m) <= d, d < FirstOf(m + 1), FirstOf(n) <= d, d < FirstOf(n + 1)
  PROVE  m = n
<1>1. m < n => FirstOf(m + 1) <= FirstOf(n)
  BY MonthsAreOrdered
<1>2. n < m => FirstOf(n + 1) <= FirstOf(m)
  BY MonthsAreOrdered
<1> QED BY <1>1, <1>2, PlaceInYear

LEMMA MonthOfDay ==
  ASSUME NEW d \in Nat, d < FirstOf(LastMonth + 1)
  PROVE  /\ MonthOf(d) \in Month
         /\ FirstOf(MonthOf(d)) <= d /\ d < FirstOf(MonthOf(d) + 1)
<1> DEFINE S == {n \in Month : d < FirstOf(n + 1)}
<1>1. LastMonth \in S /\ S \in SUBSET Int /\ \A n \in S : 0 <= n
  BY LastMonthAssumption DEF Month
<1>2. PICK m \in S : \A n \in S : m <= n
  <2> HIDE DEF S
  <2>1. S # {} /\ 0 \in Int
    BY <1>1
  <2>2. Min(S) \in S /\ \A n \in S : Min(S) <= n
    BY <1>1, <2>1, LeastInteger
  <2> QED BY <2>2
<1>3. m \in Month /\ m \in Nat /\ d < FirstOf(m + 1)
  BY <1>2, LastMonthAssumption DEF Month
<1>4. FirstOf(m) <= d
  <2>1. CASE m = 0
    <3>1. FirstOf(0) = 0
      BY YearsMonths DEF FirstOf, OfYear
    <3> QED BY <2>1, <3>1
  <2>2. CASE m # 0
    <3>1. m - 1 \in Month /\ (m - 1) + 1 = m /\ m - 1 \notin S
      BY <1>2, <1>3, <2>2, LastMonthAssumption DEF Month
    <3>2. ~(d < FirstOf(m))
      BY <3>1
    <3> QED BY <1>3, <3>2, PlaceInYear
  <2> QED BY <2>1, <2>2
<1> QED BY <1>3, <1>4 DEF MonthOf

-----------------------------------------------------------------------------
(* When a declaration is due                                                *)

\* The ordinary day and the two that follow are in the month and no holidays.
LEMMA NoHoliday ==
  ASSUME NEW m \in Int, NEW k \in 0..2
  PROVE  FirstOf(m) + DueDay(m) - 1 + k \notin Holidays
<1> DEFINE d == FirstOf(m) + DueDay(m) - 1 + k
<1>1. DueDay(m) \in {12, 17} /\ d \in Int
  BY PlaceInYear DEF DueDay
<1>2. FirstOf(m) <= d /\ d < FirstOf(m + 1)
  <2>1. FirstOf(m) \in Int /\ FirstOf(m + 1) \in Int /\ FirstOf(m) + 28 <= FirstOf(m + 1)
    BY MonthsFollow, PlaceInYear
  <2> QED BY <1>1, <2>1
<1>3. SUFFICES ASSUME NEW p \in Month, NEW q \in 1..31, <<OfYear(p), q>> \in FixedHolidays,
                      d = FirstOf(p) + q - 1
               PROVE  FALSE
  BY DEF Holidays
<1>4. p \in Int /\ q \in Int
  BY LastMonthAssumption DEF Month
<1>5. q \in {1, 6, 24, 25, 26, 31} /\ (OfYear(p) \in {1, 5, 12} \/ q = 6)
  BY <1>3 DEF FixedHolidays
<1>6. FirstOf(p) <= d /\ d < FirstOf(p + 1)
  <2>1. FirstOf(p) \in Int /\ FirstOf(p + 1) \in Int
    BY <1>4, PlaceInYear
  <2>2. /\ FirstOf(p) + 28 <= FirstOf(p + 1)
        /\ OfYear(p) \in {1, 5, 12} => FirstOf(p) + 31 <= FirstOf(p + 1)
    BY <1>4, MonthsFollow
  <2> QED BY <1>3, <1>4, <1>5, <2>1, <2>2
<1>7. p = m
  BY <1>1, <1>2, <1>4, <1>6, OneMonth
<1> QED BY <1>1, <1>3, <1>5, <1>7, PlaceInYear

LEMMA DueInMonth ==
  ASSUME NEW m \in Int
  PROVE  /\ DueIn(m) \in Int
         /\ FirstOf(m) <= DueIn(m) /\ DueIn(m) < FirstOf(m + 1)
         /\ DueIn(m) = NextWorkingDay(FirstOf(m) + IF OfYear(m) \in {1, 8} THEN 16 ELSE 11)
<1> DEFINE x == FirstOf(m) + DueDay(m) - 1
           S == {d \in x..x+13 : IsWorkingDay(d)}
<1>1. DueDay(m) \in {12, 17} /\ x \in Int
  BY PlaceInYear DEF DueDay
<1>2. x = FirstOf(m) + IF OfYear(m) \in {1, 8} THEN 16 ELSE 11
  BY PlaceInYear DEF DueDay
<1>3. \E k \in 0..2 : IsWorkingDay(x + k)
  <2>1. ~Weekend(x) \/ ~Weekend(x + 1) \/ ~Weekend(x + 2)
    BY <1>1 DEF Weekend
  <2>2. \A k \in 0..2 : x + k \notin Holidays
    BY NoHoliday
  <2> HIDE DEF x
  <2>3. x \notin Holidays /\ x + 1 \notin Holidays /\ x + 2 \notin Holidays /\ x + 0 = x
    BY <1>1, <2>2
  <2> QED BY <2>1, <2>3 DEF IsWorkingDay
<1> HIDE DEF x
<1>4. PICK k \in 0..2 : IsWorkingDay(x + k)
  BY <1>3
<1>5. S \in SUBSET Int /\ x + k \in S /\ \A y \in S : x <= y
  BY <1>1, <1>4
<1>6. PICK w \in S : \A y \in S : w <= y
  BY <1>1, <1>5, LeastInteger
<1>7. w \in Int /\ x <= w /\ w <= x + 2 /\ IsWorkingDay(w)
  BY <1>1, <1>5, <1>6
<1>8. \A e \in x..w-1 : ~IsWorkingDay(e)
  BY <1>1, <1>6, <1>7
<1>9. DueIn(m) = w
  <2>1. w \in {x + 14} \cup S /\ {x + 14} \cup S \in SUBSET Int
    BY <1>1, <1>5, <1>6
  <2>2. \A y \in {x + 14} \cup S : w <= y
    BY <1>1, <1>6, <1>7
  <2>3. Min({x + 14} \cup S) = w
    BY <2>1, <2>2, OneLeast
  <2> QED BY <2>3 DEF DueIn, AdjustForWeekendAndHolidays, x
<1>10. NextWorkingDay(x) = w
  <2>1. w \in x..x+31
    BY <1>1, <1>7
  <2>2. ASSUME NEW d \in x..x+31, IsWorkingDay(d), \A e \in x..d-1 : ~IsWorkingDay(e)
        PROVE  d = w
    BY <1>1, <1>7, <1>8, <2>2
  <2> QED BY <1>7, <1>8, <2>1, <2>2 DEF NextWorkingDay
<1>11. FirstOf(m) <= w /\ w < FirstOf(m + 1)
  <2>1. x + 2 < FirstOf(m + 1)
    <3>1. /\ FirstOf(m) \in Int /\ FirstOf(m + 1) \in Int
          /\ FirstOf(m) + 28 <= FirstOf(m + 1)
      BY MonthsFollow, PlaceInYear
    <3> QED BY <1>1, <3>1 DEF x
  <2>2. FirstOf(m) <= x
    BY <1>1, PlaceInYear DEF x
  <2> QED BY <1>1, <1>7, <2>1, <2>2, PlaceInYear
<1> QED BY <1>2, <1>7, <1>9, <1>10, <1>11

-----------------------------------------------------------------------------
(* Every deadline on record                                                 *)

TaxRow(d) == <<"tax", <<d.kind, d.period>>>>
DueOf(id) == DueIn(FiledFor(id[2]))

\* A deadline is recorded with its date, and no earlier than it can be seen.
TaxRowInv ==
  \A id \in DOMAIN rows :
    id \in TaxId =>
      /\ rows[id].payload = <<DueOf(id)>>
      /\ rows[id].created \in Nat /\ DueOf(id) <= rows[id].created + HorizonDays

\* What the last poll could see and is not over is on record.
KnownInv ==
  lastOk # Never =>
    \A m \in Month : \A d \in FiledIn(m) :
      now <= d.due /\ d.due <= lastOk + HorizonDays => TaxRow(d) \in DOMAIN rows

TaxInv ==
  world.style = "fortnox" =>
    /\ now <= world.until
    /\ lastOk \in Nat \cup {Never} /\ lastOk <= now
    /\ TaxRowInv /\ KnownInv

LEMMA TaxIds ==
  ASSUME NEW m \in Int, NEW d \in FiledIn(m)
  PROVE  TaxRow(d) \in TaxId /\ DueOf(TaxRow(d)) = d.due /\ d.due = DueIn(m) /\ d.due \in Int
<1>1. /\ <<d.kind, d.period>> \in {"agi", "preliminarskatt", "moms"} \X Int
      /\ FiledFor(<<d.kind, d.period>>) = m /\ d.due = DueIn(m)
  BY FiledOnce
<1>2. DueIn(m) \in Int
  BY DueInMonth
<1> QED BY <1>1, <1>2 DEF TaxRow, TaxId, DueOf

\* A day of the world is in a month of the calendar, and so are the days ahead.
LEMMA DaysAhead ==
  ASSUME WorldInv, world.style = "fortnox", now <= world.until,
         NEW ahead \in 0..HorizonDays
  PROVE  /\ now + ahead \in Nat /\ MonthOf(now + ahead) \in Month
         /\ FirstOf(MonthOf(now + ahead)) <= now + ahead
         /\ now + ahead < FirstOf(MonthOf(now + ahead) + 1)
<1>1. now \in Nat /\ world.until \in Nat /\ ahead \in Nat /\ ahead <= HorizonDays
  BY WatchAssumption DEF WorldInv, HorizonDays
<1>2. world.until + HorizonDays < FirstOf(LastMonth + 1)
  BY CalendarGoesOn DEF WorldInv
<1>3. now + ahead \in Nat /\ now + ahead < FirstOf(LastMonth + 1)
  <2>1. FirstOf(LastMonth + 1) \in Int
    BY LastMonthAssumption, PlaceInYear
  <2> QED BY <1>1, <1>2, <2>1 DEF HorizonDays
<1> HIDE DEF HorizonDays
<1> QED BY <1>3, MonthOfDay

\* What falls due in the horizon is among the upcoming.
LEMMA UpcomingIsComplete ==
  ASSUME WorldInv, world.style = "fortnox", now <= world.until,
         NEW m \in Int, NEW d \in FiledIn(m), now <= d.due, d.due <= now + HorizonDays
  PROVE  m \in Month /\ d \in UpcomingDeadlines(now, HorizonDays)
<1> DEFINE first == MonthOf(now)
           last == MonthOf(now + HorizonDays)
<1>1. d.due \in Int /\ FirstOf(m) <= d.due /\ d.due < FirstOf(m + 1)
  BY TaxIds, DueInMonth
<1>2. /\ now \in Nat /\ first \in Month /\ FirstOf(first) <= now
  <2>1. 0 \in 0..HorizonDays /\ now \in Nat /\ now + 0 = now
    BY DEF HorizonDays, WorldInv
  <2> QED BY <2>1, DaysAhead
<1>3. /\ now + HorizonDays \in Nat /\ last \in Month
      /\ now + HorizonDays < FirstOf(last + 1)
  <2>1. HorizonDays \in 0..HorizonDays
    BY DEF HorizonDays
  <2> QED BY <2>1, DaysAhead
<1> HIDE DEF first, last
<1>4. first \in Int /\ last \in Int /\ 0 <= first /\ last <= LastMonth
  BY <1>2, <1>3, LastMonthAssumption DEF Month
<1>5. first <= m
  <2>1. m + 1 <= first => FirstOf(m + 1) <= FirstOf(first)
    BY <1>4, MonthsAreOrdered
  <2>2. FirstOf(m + 1) \in Int /\ FirstOf(first) \in Int
    BY <1>4, PlaceInYear
  <2> QED BY <1>1, <1>2, <1>4, <2>1, <2>2
<1>6. m <= last
  <2>1. last + 1 <= m => FirstOf(last + 1) <= FirstOf(m)
    BY <1>4, MonthsAreOrdered
  <2>2. FirstOf(last + 1) \in Int /\ FirstOf(m) \in Int
    BY <1>4, PlaceInYear
  <2> QED BY <1>1, <1>3, <1>4, <2>1, <2>2
<1>7. m \in Month /\ m \in first..last
  BY <1>4, <1>5, <1>6, LastMonthAssumption DEF Month
<1> QED BY <1>7 DEF UpcomingDeadlines, first, last

LEMMA TaxInit == Init => TaxInv
<1> SUFFICES ASSUME Init PROVE TaxInv
  OBVIOUS
<1>1. WorldInv
  BY NewsInit DEF NewsInv, NewsTypes
<1>2. DOMAIN rows = {} /\ lastOk = Never /\ now = world.start /\ now <= world.until
  BY WatchAssumption DEF Init
<1> QED BY <1>1, <1>2 DEF TaxInv, TaxRowInv, KnownInv, Never, WorldInv

LEMMA PollKeepsTax == NewsInv /\ TaxInv /\ WatchPoll => TaxInv'
<1> SUFFICES ASSUME NewsInv, TaxInv, WatchPoll, world.style = "fortnox" PROVE TaxInv'
  BY DEF TaxInv, WatchPoll
<1>1. UNCHANGED <<world, now>> /\ lastOk' = now
  BY DEF WatchPoll
<1>2. WorldInv /\ RowInv /\ TaxRowInv /\ now <= world.until /\ now \in Nat
  BY DEF NewsInv, NewsTypes, TaxInv, WorldInv
<1>3. PICK entries \in Polled : Record(entries)
  BY DEF WatchPoll
<1>4. entries = Both(InvoiceEntries, DeadlineEntries)
  BY <1>3 DEF Polled, PollFortnox
<1>5. DOMAIN entries = DOMAIN InvoiceEntries \cup DOMAIN DeadlineEntries
  BY <1>4 DEF Both
<1>6. DOMAIN DeadlineEntries = {TaxRow(d) : d \in UpcomingDeadlines(now, HorizonDays)}
  BY DEF DeadlineEntries, TaxRow
<1>7. ASSUME NEW id \in DOMAIN entries, id \in TaxId
      PROVE  /\ entries[id] = <<DueOf(id)>>
             /\ DueOf(id) \in Int /\ DueOf(id) <= now + HorizonDays
  <2>1. entries[id] = Content(id)
    BY <1>2, PolledIsContent DEF Faithful
  <2>2. entries[id] = <<DueOf(id)>>
    BY <1>7, <2>1 DEF TaxId, Content, DueOf
  <2>3. id \notin DOMAIN InvoiceEntries
    BY <1>7 DEF TaxId, InvoiceEntries
  <2>4. PICK d \in UpcomingDeadlines(now, HorizonDays) : id = TaxRow(d)
    BY <1>5, <1>6, <1>7, <2>3
  <2>5. PICK m \in Int : d \in FiledIn(m)
    BY DEF UpcomingDeadlines
  <2>6. d.due <= now + HorizonDays
    BY DEF UpcomingDeadlines
  <2> QED BY <2>2, <2>4, <2>5, <2>6, TaxIds
<1>8. TaxRowInv'
  <2> SUFFICES ASSUME NEW id \in DOMAIN rows', id \in TaxId
               PROVE  /\ rows'[id].payload = <<DueOf(id)>>
                      /\ rows'[id].created \in Nat
                      /\ DueOf(id) <= rows'[id].created + HorizonDays
    BY DEF TaxRowInv, DueOf, FiledFor, TaxId
  <2>1. CASE id \notin DOMAIN entries
    BY <1>2, <1>3, <2>1, Recorded DEF TaxRowInv
  <2>2. CASE id \in DOMAIN entries /\ id \notin DOMAIN rows
    <3>1. rows'[id] = [payload |-> entries[id], created |-> now, triaged |-> FALSE]
      <4>1. rows'[id] = NewRow(entries[id])
        BY <1>2, <1>3, <2>2, Recorded
      <4> QED BY <4>1 DEF NewRow
    <3> QED BY <1>2, <1>7, <2>2, <3>1
  <2>3. CASE id \in DOMAIN entries /\ id \in DOMAIN rows
    <3>1. rows'[id].payload = entries[id] /\ rows'[id].created = rows[id].created
      BY <1>2, <1>3, <2>3, Recorded
    <3> QED BY <1>2, <1>7, <2>3, <3>1 DEF TaxRowInv
  <2>4. DOMAIN rows' = DOMAIN rows \cup DOMAIN entries
    BY <1>2, <1>3, Recorded
  <2> QED BY <2>1, <2>2, <2>3, <2>4
<1>9. KnownInv'
  <2> SUFFICES ASSUME NEW m \in Month, NEW d \in FiledIn(m),
                      now <= d.due, d.due <= now + HorizonDays
               PROVE  TaxRow(d) \in DOMAIN rows'
    BY <1>1 DEF KnownInv, FiledIn, TaxRow
  <2>1. m \in Int
    BY LastMonthAssumption DEF Month
  <2>2. d \in UpcomingDeadlines(now, HorizonDays)
    BY <1>2, <2>1, UpcomingIsComplete
  <2>3. TaxRow(d) \in DOMAIN entries
    BY <1>5, <1>6, <2>2
  <2> QED BY <1>2, <1>3, <2>3, Recorded
<1> QED BY <1>1, <1>2, <1>8, <1>9 DEF TaxInv

\* A deadline that is not over has been on record for no longer than retention keeps it.
LEMMA PruneKeepsTax ==
  ASSUME Retention >= HorizonDays, NewsInv, TaxInv, Prune
  PROVE  TaxInv'
<1> SUFFICES ASSUME world.style = "fortnox" PROVE TaxInv'
  BY DEF TaxInv, Prune
<1>1. /\ UNCHANGED <<world, now, lastOk>>
      /\ rows' = [id \in DOMAIN rows \ Stale |-> rows[id]]
  BY DEF Prune
<1>2. TaxRowInv /\ KnownInv /\ now \in Nat /\ lastOk \in Nat \cup {Never}
  BY DEF NewsInv, NewsTypes, TaxInv, WorldInv
<1>3. TaxRowInv'
  BY <1>1, <1>2 DEF TaxRowInv, DueOf, FiledFor, TaxId
<1>4. KnownInv'
  <2> SUFFICES ASSUME lastOk # Never, NEW m \in Month, NEW d \in FiledIn(m),
                      now <= d.due, d.due <= lastOk + HorizonDays
               PROVE  TaxRow(d) \in DOMAIN rows'
    BY <1>1 DEF KnownInv, FiledIn, TaxRow
  <2>1. TaxRow(d) \in DOMAIN rows
    BY <1>2 DEF KnownInv
  <2>2. m \in Int
    BY LastMonthAssumption DEF Month
  <2>3. TaxRow(d) \in TaxId /\ DueOf(TaxRow(d)) = d.due /\ d.due \in Int
    BY <2>2, TaxIds
  <2>4. /\ rows[TaxRow(d)].created \in Nat
        /\ d.due <= rows[TaxRow(d)].created + HorizonDays
    BY <1>2, <2>1, <2>3 DEF TaxRowInv
  <2>5. ~(rows[TaxRow(d)].created < now - Retention)
    BY <1>2, <2>3, <2>4, WatchAssumption DEF HorizonDays
  <2>6. TaxRow(d) \notin Stale
    BY <2>5 DEF Stale
  <2> QED BY <1>1, <2>1, <2>6
<1> QED BY <1>1, <1>3, <1>4 DEF TaxInv

\* No other step takes a row away, changes a date, or takes time back.
LEMMA QuietKeepsTax ==
  ASSUME NewsInv, TaxInv, UNCHANGED <<world, lastOk>>,
         now' \in Nat, now <= now', now' <= world.until \/ now' = now,
         DOMAIN rows' = DOMAIN rows,
         \A id \in DOMAIN rows : /\ rows'[id].payload = rows[id].payload
                                 /\ rows'[id].created = rows[id].created
  PROVE  TaxInv'
<1> SUFFICES ASSUME world.style = "fortnox" PROVE TaxInv'
  BY DEF TaxInv
<1>1. /\ TaxRowInv /\ KnownInv /\ now \in Nat /\ now <= world.until
      /\ lastOk \in Nat \cup {Never} /\ lastOk <= now
  BY DEF NewsInv, NewsTypes, TaxInv, WorldInv
<1>2. TaxRowInv'
  BY <1>1 DEF TaxRowInv, DueOf, FiledFor, TaxId
<1>3. KnownInv'
  <2> SUFFICES ASSUME lastOk # Never, NEW m \in Month, NEW d \in FiledIn(m),
                      now' <= d.due, d.due <= lastOk + HorizonDays
               PROVE  TaxRow(d) \in DOMAIN rows
    BY DEF KnownInv, FiledIn, TaxRow
  <2>1. m \in Int
    BY LastMonthAssumption DEF Month
  <2>2. d.due \in Int
    BY <2>1, TaxIds
  <2>3. now <= d.due
    BY <1>1, <2>2
  <2> QED BY <1>1, <2>3 DEF KnownInv
<1>4. now' <= world.until
  BY <1>1
<1>5. lastOk \in Nat \cup {Never} /\ lastOk <= now'
  BY <1>1 DEF Never
<1> QED BY <1>2, <1>3, <1>4, <1>5 DEF TaxInv

LEMMA TaxIsKept ==
  ASSUME Retention >= HorizonDays
  PROVE  NewsInv /\ TaxInv /\ [Next]_vars => TaxInv'
<1> SUFFICES ASSUME NewsInv, TaxInv, [Next]_vars PROVE TaxInv'
  OBVIOUS
<1>1. now \in Nat /\ RowInv /\ world \in Worlds
  BY DEF NewsInv, NewsTypes, WorldInv
<1>2. CASE WatchPoll
  BY <1>2, PollKeepsTax
<1>3. CASE Triage
  <2>1. UNCHANGED <<world, now, lastOk>> /\ DOMAIN rows' = DOMAIN rows
    BY <1>3 DEF Triage
  <2>2. \A id \in DOMAIN rows : /\ rows'[id].payload = rows[id].payload
                                /\ rows'[id].created = rows[id].created
    BY <1>1, <1>3, MarkedTriaged
  <2> QED BY <1>1, <2>1, <2>2, QuietKeepsTax
<1>4. CASE Prune
  BY <1>4, PruneKeepsTax
<1>5. CASE Tick
  <2>1. /\ now' = now + world.step /\ now + world.step <= world.until
        /\ UNCHANGED <<world, rows, lastOk>>
    BY <1>5 DEF Tick, historyVars
  <2>2. world.step \in Nat /\ now' \in Nat /\ now <= now'
    BY <1>1, <2>1, WorldParts
  <2> QED BY <2>1, <2>2, QuietKeepsTax
<1>6. CASE \/ \E i \in Item : Toggle(i)
           \/ \E i \in Item : \E to \in world.items[i].may : Move(i, to)
           \/ \E a \in Account : \E with \in world.faults : Break(a, with)
           \/ \E a \in Account : Mend(a)
           \/ UNCHANGED vars
  <2>1. UNCHANGED <<world, now, rows, lastOk>>
    BY <1>6 DEF Toggle, Move, Break, Mend, vars, historyVars
  <2> QED BY <1>1, <2>1, QuietKeepsTax
<1> QED BY <1>2, <1>3, <1>4, <1>5, <1>6 DEF Next

\* The rule, said from the period, names the deadlines that are computed.
LEMMA LawfulIsComputed ==
  ASSUME NEW from \in Nat, MonthOf(from) \in Month, NEW until \in Nat,
         NEW d \in LawfulDeadlines(from, until)
  PROVE  \E m \in Int : d \in FiledIn(m) /\ from <= d.due /\ d.due <= until
<1>1. PICK p :
        /\ d = [kind |-> p[1], period |-> p[2], due |-> LawfulDue(p[1], p[2])]
        /\ p[1] \in {"agi", "preliminarskatt", "moms"} /\ p[2] \in Int
        /\ p[1] = "moms" => (OfYear(p[2]) % 3) = 0
        /\ from <= d.due /\ d.due <= until
  BY DEF LawfulDeadlines
<1> DEFINE m == p[2] + IF p[1] = "moms" THEN 2 ELSE 1
<1>2. m \in Int
  BY <1>1
<1>3. d.due = DueIn(m)
  BY <1>1, <1>2, DueInMonth DEF LawfulDue
<1>4. d \in FiledIn(m)
  <2>1. CASE p[1] = "moms"
    <3>1. m - 2 = p[2]
      BY <1>1, <2>1
    <3>2. OfYear(m) \in MomsFilingMonths
      BY <1>1, <2>1 DEF OfYear, MomsFilingMonths
    <3> HIDE DEF m
    <3> QED BY <1>1, <1>3, <2>1, <3>1, <3>2 DEF FiledIn
  <2>2. CASE p[1] # "moms"
    <3>1. m - 1 = p[2]
      BY <1>1, <2>2
    <3> HIDE DEF m
    <3> QED BY <1>1, <1>3, <2>2, <3>1 DEF FiledIn
  <2> QED BY <2>1, <2>2
<1> QED BY <1>1, <1>2, <1>4

LEMMA TaxInvIsEnough == NewsInv /\ TaxInv => DeadlinesComeInTime
<1> SUFFICES ASSUME NewsInv, TaxInv, world.style = "fortnox", lastOk # Never,
                    now - lastOk <= 7,
                    NEW d \in LawfulDeadlines(now, now + HorizonDays - 7)
             PROVE  /\ TaxRow(d) \in DOMAIN rows
                    /\ rows[TaxRow(d)].payload = <<d.due>>
  BY DEF DeadlinesComeInTime, TaxRow
<1>1. /\ WorldInv /\ now \in Nat /\ now <= world.until /\ lastOk \in Nat /\ lastOk <= now
      /\ TaxRowInv /\ KnownInv
  BY DEF NewsInv, NewsTypes, WorldInv, TaxInv
<1>2. MonthOf(now) \in Month
  <2>1. 0 \in 0..HorizonDays /\ now + 0 = now
    BY <1>1 DEF HorizonDays
  <2> QED BY <1>1, <2>1, DaysAhead
<1>3. now + HorizonDays - 7 \in Nat
  BY <1>1 DEF HorizonDays
<1>4. PICK m \in Int : /\ d \in FiledIn(m)
                       /\ now <= d.due /\ d.due <= now + HorizonDays - 7
  BY <1>1, <1>2, <1>3, LawfulIsComputed
<1>5. TaxRow(d) \in TaxId /\ DueOf(TaxRow(d)) = d.due /\ d.due \in Int
  BY <1>4, TaxIds
<1>6. d.due <= now + HorizonDays /\ d.due <= lastOk + HorizonDays
  BY <1>1, <1>4, <1>5 DEF HorizonDays
<1>7. m \in Month
  BY <1>1, <1>4, <1>6, UpcomingIsComplete
<1>8. TaxRow(d) \in DOMAIN rows
  BY <1>1, <1>4, <1>6, <1>7 DEF KnownInv
<1> QED BY <1>1, <1>5, <1>8 DEF TaxRowInv

\* For as long as retention keeps a row for the horizon, every declaration due
\* within 38 days is on record under its lawful date, whatever failed in the last
\* week: on the real calendar, for every day there is.
THEOREM DeadlinesComeInTimeHolds ==
  ASSUME Retention >= HorizonDays
  PROVE  Spec => []DeadlinesComeInTime
<1>1. Spec => []NewsInv
  BY NewsInit, NewsIsKept, PTL DEF Spec
<1>2. NewsInv /\ TaxInv /\ [Next]_vars => TaxInv'
  BY TaxIsKept
<1>3. Spec => []TaxInv
  BY <1>1, <1>2, TaxInit, PTL DEF Spec
<1> QED BY <1>1, <1>3, TaxInvIsEnough, PTL
=============================================================================
