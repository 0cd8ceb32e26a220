--------------------------------- MODULE Watch ---------------------------------
(***************************************************************************)
(* What the connectors see.  The daemon polls a connector on a timer and   *)
(* records each row of its answer under a stable id: a new id is news, a   *)
(* changed payload re-opens the row for triage, the same payload again is  *)
(* nothing.  Each connector decides what it answers and what makes a poll  *)
(* fail: Google and KTH answer per account, with a row for each account    *)
(* that could not be read; Notion, Canvas and Fortnox fail as a whole.     *)
(*                                                                         *)
(* The world is one connector and the things it may report: events, mail,  *)
(* dated items and invoices that come and go and are moved, and accounts   *)
(* that stop working.  One unit of time is a day.  A poll and the triage   *)
(* of what it recorded are one step each here; module Attention has the    *)
(* statements they consist of.                                             *)
(***************************************************************************)
EXTENDS Deadlines, Sequences

CONSTANTS
  Worlds,      \* the worlds to try
  MaxUnread,   \* MAX_UNREAD
  Retention    \* RetentionPolicy::events_days

Lookahead == 7        \* google: LOOKAHEAD, and newer_than:7d
Horizon == 14         \* notion: HORIZON
OverdueGrace == 365   \* notion: OVERDUE_GRACE
StaleDeadline == 14   \* canvas: STALE_DEADLINE_WINDOW
HorizonDays == 45     \* fortnox: HORIZON_DAYS

Style == {"google", "kth", "notion", "canvas", "fortnox"}

Thing ==
  [sort : {"event", "mail", "item"}, account : STRING, day : Nat, may : SUBSET Nat,
   length : Nat, allDay : BOOLEAN, uid : STRING, rank : Nat, others : SUBSET (Nat \X Nat)]

ASSUME WatchAssumption ==
  /\ MaxUnread \in Nat /\ Retention \in Nat \ {0}
  /\ \A w \in Worlds :
       /\ w.style \in Style /\ {w.start, w.until, w.step, w.turns} \subseteq Nat
       /\ w.start <= w.until
       /\ w.items \in Seq(Thing) /\ "none" \notin w.faults

\* The calendar goes on for as long as anybody looks ahead.
ASSUME CalendarGoesOn ==
  \A w \in Worlds :
    w.style = "fortnox" => w.until + HorizonDays < FirstOf(LastMonth + 1)

VARIABLES
  world,    \* configuration: style, accounts, items; bounds on days and changes
  now,
  open,     \* items there are: on the calendar, unread, not trashed, unpaid
  day,      \* the day each starts, arrived or is due
  fault,    \* what an account fails with ("none": it answers)
  rows,     \* events, by external id
  \* history and bounds
  lastOk,   \* the day of the last poll that succeeded (Never: none)
  told,     \* how often each row was put in front of triage
  dropped,  \* how often retention deleted it
  moves,    \* how often each item was moved
  breaks,   \* how often each account's fault began or turned into another
  seen,     \* accounts whose present outage a poll has reported
  heard,    \* accounts whose present outage triage has been shown
  turns

historyVars == <<lastOk, told, dropped, moves, breaks, seen, heard, turns>>
thingVars == <<open, day, fault>>
vars == <<world, now, thingVars, rows, historyVars>>

Never == -1
Item == DOMAIN world.items
Account == world.accounts
Of(sort, account) ==
  {i \in open : world.items[i].sort = sort /\ world.items[i].account = account}

Init ==
  /\ world \in Worlds
  /\ now = world.start
  /\ open \in SUBSET Item
  /\ day = [i \in Item |-> world.items[i].day]
  /\ fault = [a \in Account |-> "none"]
  /\ rows = <<>>
  /\ lastOk = Never
  /\ told = <<>> /\ dropped = <<>>
  /\ moves = [i \in Item |-> 0]
  /\ breaks = [a \in Account |-> 0]
  /\ seen = {} /\ heard = {} /\ turns = 0

-----------------------------------------------------------------------------
(* What the services answer.                                                *)

\* A dead grant takes both of Google's signals down, a fault of one only it.
Answers(account, signal) == fault[account] \notin {"grant", signal}

\* Events with any overlap with [now, now + LOOKAHEAD).
End(i) == day[i] + world.items[i].length

ListEvents(account) ==
  IF Answers(account, "calendar")
  THEN {i \in Of("event", account) : day[i] < now + Lookahead /\ End(i) > now}
  ELSE {}

Newer(i, j) == day[i] > day[j] \/ (day[i] = day[j] /\ i > j)

\* The most recent of a week's unread mail.
ListRecent(account) ==
  LET recent == {i \in Of("mail", account) : now - Lookahead <= day[i] /\ day[i] <= now}
  IN IF Answers(account, "mail")
     THEN {i \in recent : Cardinality({j \in recent : Newer(j, i)}) < MaxUnread}
     ELSE {}

\* Any of the unread mail, when there is more of it: the request has a $top and
\* no $orderby.
ListUnread(account) ==
  LET unread == {i \in Of("mail", account) : day[i] <= now}
  IN IF Answers(account, "mail")
     THEN {S \in SUBSET unread : Cardinality(S) = Min({MaxUnread, Cardinality(unread)})}
     ELSE {{}}

\* The date of a Notion row: a hinted property first, then the nearest.
DueDate(i) ==
  LET dates == {<<world.items[i].rank, day[i]>>} \cup world.items[i].others
      best == Min({d[1] : d \in dates})
  IN Min({d[2] : d \in {e \in dates : e[1] = best}})

-----------------------------------------------------------------------------
(* The rows of a poll, as payloads by external id.                          *)

\* The rows of two kinds, whose ids differ.
Both(e, f) ==
  [id \in DOMAIN e \cup DOMAIN f |-> IF id \in DOMAIN e THEN e[id] ELSE f[id]]

DatedEntries(events) == [id \in {<<"item", i>> : i \in events} |-> <<day[id[2]]>>]
MailEntries(mail) == [id \in {<<"item", i>> : i \in mail} |-> <<>>]

\* One row per account, whatever of it failed; its payload is what failed and why.
AccountFailure(failures) ==
  [id \in {<<"error", a>> : a \in failures} |-> <<fault[id[2]]>>]

SameMeeting(i, j) ==
  world.items[i].uid # "none" /\ world.items[i].uid = world.items[j].uid

\* Timed events sorted by start, and those that start together as they are listed;
\* each against those that follow, up to the first that starts after it ends.
FindConflicts(events, listing) ==
  LET timed == {i \in events : ~world.items[i].allDay}
      Follows(j, i) == \/ day[j] > day[i]
                       \/ day[j] = day[i] /\ listing[j] > listing[i]
  IN {p \in timed \X timed :
        /\ Follows(p[2], p[1])
        /\ day[p[2]] < End(p[1])
        /\ ~SameMeeting(p[1], p[2])}

\* Mutant: the pair as it was found.
OrderedAsFound(p) == p

\* The two qualified ids, sorted.
Ordered(p) == IF p[1] <= p[2] THEN p ELSE <<p[2], p[1]>>

ConflictEntries(events, listing) ==
  LET clashes == {Ordered(p) : p \in FindConflicts(events, listing)}
  IN [id \in {<<"clash", c>> : c \in clashes} |-> <<day[id[2][1]], day[id[2][2]]>>]

Overdue(due) == IF due < now THEN 1 ELSE 0

InvoiceEntries ==
  [id \in {<<"item", i>> : i \in open} |-> <<day[id[2]], Overdue(day[id[2]])>>]

DeadlineEntries ==
  LET upcoming == UpcomingDeadlines(now, HorizonDays)
      Found(id) == CHOOSE d \in upcoming : <<"tax", <<d.kind, d.period>>>> = id
  IN [id \in {<<"tax", <<d.kind, d.period>>>> : d \in upcoming} |-> <<Found(id).due>>]

-----------------------------------------------------------------------------
(* The polls: what each may answer, which is nothing when it fails.         *)

Failures == {a \in Account : fault[a] # "none"}

\* Every account failing, or none authorised, is an error; one failing is a row.
PollGoogle ==
  IF Failures = Account THEN {}
  ELSE LET events == UNION {ListEvents(a) : a \in Account}
           mail == UNION {ListRecent(a) : a \in Account}
       IN {Both(Both(DatedEntries(events), ConflictEntries(events, listing)),
                Both(MailEntries(mail), AccountFailure(Failures)))
           : listing \in Bijection(Item, Item)}

PollKth ==
  IF Failures = Account THEN {}
  ELSE {Both(MailEntries(UNION {unread[a] : a \in Account}), AccountFailure(Failures))
        : unread \in {f \in [Account -> SUBSET Item] : \A a \in Account : f[a] \in ListUnread(a)}}

\* Any failure fails these three.
PollNotion ==
  LET due == {i \in open : DueDate(i) \in now - OverdueGrace..now + Horizon}
  IN IF Failures # {} THEN {}
     ELSE {[id \in {<<"item", i>> : i \in due} |-> <<DueDate(id[2])>>]}

PollCanvas ==
  IF Failures # {} THEN {}
  ELSE {DatedEntries({i \in open : day[i] >= now - StaleDeadline})}

PollFortnox ==
  IF Failures # {} THEN {} ELSE {Both(InvoiceEntries, DeadlineEntries)}

Polled ==
  CASE world.style = "google" -> PollGoogle
    [] world.style = "kth" -> PollKth
    [] world.style = "notion" -> PollNotion
    [] world.style = "canvas" -> PollCanvas
    [] world.style = "fortnox" -> PollFortnox

-----------------------------------------------------------------------------
(* The daemon.                                                              *)

NewRow(payload) == [payload |-> payload, created |-> now, triaged |-> FALSE]

\* One upsert per row: a changed payload clears triage, the same one keeps it.
Record(entries) ==
  rows' = [id \in DOMAIN rows \cup DOMAIN entries |->
             IF id \notin DOMAIN entries THEN rows[id]
             ELSE IF id \notin DOMAIN rows THEN NewRow(entries[id])
             ELSE [rows[id] EXCEPT !.payload = entries[id],
                                   !.triaged = @ /\ rows[id].payload = entries[id]]]

WatchPoll ==
  \E entries \in Polled :
    /\ Record(entries)
    /\ lastOk' = now
    /\ seen' = seen \cup Failures
    /\ UNCHANGED <<world, now, thingVars, told, dropped, moves, breaks, heard, turns>>

Count(tally, id) == IF id \in DOMAIN tally THEN tally[id] ELSE 0

OneMore(tally, ids) ==
  [id \in DOMAIN tally \cup ids |-> Count(tally, id) + IF id \in ids THEN 1 ELSE 0]

Untriaged == {id \in DOMAIN rows : ~rows[id].triaged}

Triage ==
  /\ Untriaged # {}
  /\ rows' = [id \in DOMAIN rows |-> [rows[id] EXCEPT !.triaged = TRUE]]
  /\ told' = OneMore(told, Untriaged)
  /\ heard' = heard \cup {a \in Failures : <<"error", a>> \in Untriaged}
  /\ UNCHANGED <<world, now, thingVars, lastOk, dropped, moves, breaks, seen, turns>>

Stale == {id \in DOMAIN rows : rows[id].triaged /\ rows[id].created < now - Retention}

\* Retention deletes what was triaged and recorded long ago, reported still or not.
Prune ==
  /\ Stale # {}
  /\ rows' = [id \in DOMAIN rows \ Stale |-> rows[id]]
  /\ dropped' = OneMore(dropped, Stale)
  /\ UNCHANGED <<world, now, thingVars, lastOk, told, moves, breaks, seen, heard, turns>>

-----------------------------------------------------------------------------
(* The world.                                                               *)

Tick ==
  /\ now + world.step <= world.until
  /\ now' = now + world.step
  /\ UNCHANGED <<world, thingVars, rows, historyVars>>

Turn == turns < world.turns /\ turns' = turns + 1

\* Something appears, is read, paid, trashed, or comes back.
Toggle(i) ==
  /\ Turn
  /\ open' = IF i \in open THEN open \ {i} ELSE open \cup {i}
  /\ UNCHANGED <<world, now, day, fault, rows, lastOk, told, dropped, moves, breaks, seen, heard>>

Move(i, to) ==
  /\ Turn /\ to # day[i]
  /\ day' = [day EXCEPT ![i] = to]
  /\ moves' = [moves EXCEPT ![i] = @ + 1]
  /\ UNCHANGED <<world, now, open, fault, rows, lastOk, told, dropped, breaks, seen, heard>>

\* An account stops working, or fails with something else.
Break(a, with) ==
  /\ Turn /\ with # fault[a]
  /\ fault' = [fault EXCEPT ![a] = with]
  /\ breaks' = [breaks EXCEPT ![a] = @ + 1]
  /\ seen' = seen \ {a} /\ heard' = heard \ {a}
  /\ UNCHANGED <<world, now, open, day, rows, lastOk, told, dropped, moves>>

Mend(a) ==
  /\ fault[a] # "none"
  /\ fault' = [fault EXCEPT ![a] = "none"]
  /\ UNCHANGED <<world, now, open, day, rows, historyVars>>

Next ==
  \/ WatchPoll \/ Triage \/ Prune \/ Tick
  \/ \E i \in Item : Toggle(i)
  \/ \E i \in Item : \E to \in world.items[i].may : Move(i, to)
  \/ \E a \in Account : \E with \in world.faults : Break(a, with)
  \/ \E a \in Account : Mend(a)

Spec == Init /\ [][Next]_vars

-----------------------------------------------------------------------------
(* What could go wrong.                                                     *)

\* How often the subject of a row is in a tally: a clash is about two events,
\* whichever is named first.
Times(tally, id) ==
  Count(tally, id)
  + IF id[1] = "clash" THEN Count(tally, <<"clash", <<id[2][2], id[2][1]>>>>) ELSE 0

\* How often there was something new to say about it: when it was first seen, when
\* it was moved, and, for an invoice, when a due date passed.
Changes(id) ==
  CASE id[1] = "item" -> (IF world.style = "fortnox" THEN 2 ELSE 1) * (1 + moves[id[2]])
    [] id[1] = "clash" -> 1 + moves[id[2][1]] + moves[id[2][2]]
    [] id[1] = "error" -> breaks[id[2]]
    [] id[1] = "tax" -> 1

\* However often the connectors are polled, in whatever order they list what they
\* have and whichever accounts answer, nothing is put in front of triage again
\* unless something about it changed.  The one exception is what retention deleted
\* and a connector reports still: no more often than once in a retention period.
NewsIsNotRepeated ==
  \A id \in DOMAIN told :
    (Times(told, id) - Changes(id)) * (Retention + 1) <= now - world.start

\* Every declaration due within 38 days is on record under its lawful date, even if
\* the connector or the daemon was down for the last week.
DeadlinesComeInTime ==
  world.style = "fortnox" /\ lastOk # Never /\ now - lastOk <= 7
    => \A d \in LawfulDeadlines(now, now + HorizonDays - 7) :
         /\ <<"tax", <<d.kind, d.period>>>> \in DOMAIN rows
         /\ rows[<<"tax", <<d.kind, d.period>>>>].payload = <<d.due>>

\* What the connectors' documents say of an account that stops answering: it is
\* reported by a row, and the row goes through triage like any other event.
OutagesAreTold ==
  \A a \in seen \cap Failures : <<"error", a>> \notin Untriaged => a \in heard
=============================================================================
