-------------------------------- MODULE Calendar --------------------------------
(***************************************************************************)
(* Wall clocks and instants.  A cron schedule, the session budget's day    *)
(* and the quiet hours are all said in the owner's local time, and the     *)
(* owner's clock skips an hour in spring and repeats one in autumn.  A     *)
(* schedule fires when a check finds it due, however late the check comes, *)
(* and the anchor it leaves is the instant it fired, not the instant it    *)
(* was due.                                                                *)
(*                                                                         *)
(* Instants are ticks of UTC; the time zone is the offset in force at each *)
(* instant; a wall-clock time is a number of ticks too, and its time of    *)
(* day is what is left of it after whole days.                             *)
(***************************************************************************)
EXTENDS Integers, FiniteSets, FiniteSetsExt

CONSTANTS
  Day,          \* ticks in a day
  Zones,        \* the zones to try: the offset at every instant
  Expressions,  \* cron expressions a version may name: sets of times of day
  Windows,      \* the quiet windows to try: <<start, end>>, times of day
  MaxGap,       \* MAX_GAP_MINUTES
  LastInstant,  \* bound: the instants there are
  MaxTime       \* bound: the clock

Instant == 0..LastInstant
TimeOfDay == 0..Day-1

ASSUME CalendarAssumption ==
  /\ Day \in Nat \ {0} /\ MaxGap \in Nat /\ LastInstant \in Nat
  /\ MaxTime \in Day..LastInstant
  /\ Zones \subseteq [Instant -> Nat]
  /\ Expressions \subseteq SUBSET TimeOfDay
  /\ Windows \subseteq TimeOfDay \X TimeOfDay

\* Offsets differ by less than a day; a clock that goes forward skips no more
\* than the walk out of a gap covers, and no later change shows what it skipped.
ASSUME ZoneAssumption ==
  \A offset \in Zones :
    /\ \A i \in Instant : offset[i] < Day
    /\ \A i \in 0..LastInstant-1 : offset[i + 1] <= offset[i] + MaxGap
    /\ \A i, j \in Instant :
         i + 1 < j /\ i + offset[i] < j + offset[j] =>
           i + 1 + offset[i + 1] <= j + offset[j]

VARIABLES
  zone,         \* configuration
  clock,
  proc,         \* the daemon
  cron, enabled, anchor    \* the schedule's row (anchor NoRow: there is none)

calendarVars == <<zone, clock, proc, cron, enabled, anchor>>

NoRow == -1

CalendarInit ==
  /\ zone \in Zones
  /\ clock = Day       \* there is a yesterday
  /\ proc = "down"
  /\ cron \in Expressions /\ enabled = TRUE /\ anchor = NoRow

-----------------------------------------------------------------------------
(* local_instant, next_after, due                                           *)

Local(i) == i + zone[i]
Showing(l) == {i \in Instant : Local(i) = l}

\* The instant a wall-clock time means: the earlier of two; where there is
\* none, the first instant after the gap.
LocalInstant(l) ==
  LET shown == {m \in 0..MaxGap : Showing(l + m) # {}}
  IN IF shown = {} THEN {} ELSE {Min(Showing(l + Min(shown)))}

\* Wall-clock times a cron expression names, of those the horizon reaches.
Candidates(times) == {l \in 0..Local(LastInstant) - MaxGap : l % Day \in times}

\* Mutant: the candidate after a repeated hour is taken for a new one.
NextAfterUnfiltered(times, after) ==
  LET later == {l \in Candidates(times) : l > Local(after) /\ LocalInstant(l) # {}}
  IN IF later = {} THEN {} ELSE LocalInstant(Min(later))

\* The first candidate later on the wall clock that is also a later instant.
NextAfter(times, after) ==
  LET later == {l \in Candidates(times) :
                  l > Local(after) /\ \E i \in LocalInstant(l) : i > after}
  IN IF later = {} THEN {} ELSE LocalInstant(Min(later))

Due(now) == anchor # NoRow /\ \E next \in NextAfter(cron, anchor) : now >= next

-----------------------------------------------------------------------------
(* Budget::day_start and NotificationPolicy::is_quiet                       *)

\* Mutant: midnight is taken at the offset in force now.
DayStartAtOffset(now) == now - (Local(now) % Day)

\* Midnight where the owner is; UTC's where the zone has none to offer.
DayStart(now) ==
  LET midnight == LocalInstant(Local(now) - (Local(now) % Day))
  IN IF midnight # {} THEN Min(midnight) ELSE now - (now % Day)

\* Mutant: a window that wraps midnight is read like one that does not.
IsQuietUnwrapped(window, now) ==
  LET t == Local(now) % Day IN window[1] <= t /\ t < window[2]

IsQuiet(window, now) ==
  LET t == Local(now) % Day IN
  IF window[1] > window[2] THEN window[1] <= t \/ t < window[2]
  ELSE window[1] <= t /\ t < window[2]

-----------------------------------------------------------------------------
(* The schedule's row, the daemon and the owner                             *)

\* ensure: the first time anchors the schedule; every time puts the
\* expression of the version that starts and leaves the anchor alone.
Boot(times) ==
  /\ proc = "down"
  /\ proc' = "up"
  /\ cron' = times
  /\ anchor' = IF anchor = NoRow THEN clock ELSE anchor
  /\ UNCHANGED <<zone, clock, enabled>>

Stop ==
  /\ proc = "up"
  /\ proc' = "down"
  /\ UNCHANGED <<zone, clock, cron, enabled, anchor>>

Claim ==
  /\ proc = "up" /\ enabled
  /\ Due(clock)
  /\ anchor' = clock
  /\ UNCHANGED <<zone, clock, proc, cron, enabled>>

SetEnabled(on) ==
  /\ anchor # NoRow
  /\ enabled' = on
  /\ UNCHANGED <<zone, clock, proc, cron, anchor>>

ClockTick ==
  /\ clock < MaxTime
  /\ clock' = clock + 1
  /\ UNCHANGED <<zone, proc, cron, enabled, anchor>>

CalendarNext ==
  \/ \E times \in Expressions : Boot(times)
  \/ Stop \/ Claim \/ ClockTick
  \/ \E on \in BOOLEAN : SetEnabled(on)

CalendarSpec == CalendarInit /\ [][CalendarNext]_calendarVars

-----------------------------------------------------------------------------
(* Properties                                                               *)

TypeOK ==
  /\ zone \in Zones
  /\ clock \in Day..MaxTime
  /\ proc \in {"up", "down"}
  /\ cron \in Expressions /\ enabled \in BOOLEAN
  /\ anchor \in (Day..clock) \cup {NoRow}

\* The first instant at which the wall clock has got as far as a time.
Reached(l) == Min({i \in Instant : Local(i) >= l})

\* A schedule is due exactly when the wall clock has, since it last fired,
\* first got as far as a time the expression names: an hour that is skipped
\* skips no occurrence, and one that is repeated repeats none.
Occurrences(times) == {Reached(l) : l \in Candidates(times)}
DueIsTheWallClock ==
  anchor # NoRow => (Due(clock) <=> \E o \in Occurrences(cron) : anchor < o /\ o <= clock)

\* The budget's day begins when the owner's calendar first showed today, so it
\* holds every instant of today.
BudgetDayIsTheLocalDay ==
  LET today == Local(clock) \div Day IN
  /\ DayStart(clock) = Reached(today * Day)
  /\ \A i \in 0..clock : Local(i) \div Day = today => DayStart(clock) <= i

\* Quiet hours are the way round the clock from their start to their end.
QuietHoursGoRound ==
  \A window \in Windows :
    IsQuiet(window, clock) <=>
      ((Local(clock) % Day) - window[1]) % Day < (window[2] - window[1]) % Day
=============================================================================
