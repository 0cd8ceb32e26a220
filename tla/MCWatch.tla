-------------------------------- MODULE MCWatch --------------------------------
(***************************************************************************)
(* The instances of Watch that TLC checks.                                 *)
(***************************************************************************)
EXTENDS Watch

Plain(sort, account, on, may) ==
  [sort |-> sort, account |-> account, day |-> on, may |-> may, length |-> 1,
   allDay |-> FALSE, uid |-> "none", rank |-> 1, others |-> {}]

World(style, start, until, step, changes, accounts, faults, items) ==
  [style |-> style, start |-> start, until |-> until, step |-> step, turns |-> changes,
   accounts |-> accounts, faults |-> faults, items |-> items]

Mailboxes == {"private", "work"}

\* Two events that start together, one moved elsewhere, one meeting in both calendars.
MCCalendars ==
  World("google", 0, 4, 2, 2, Mailboxes, {"grant", "calendar"},
        <<[Plain("event", "work", 3, {}) EXCEPT !.length = 2],
          Plain("event", "private", 3, {2, 4}),
          [Plain("event", "private", 3, {}) EXCEPT !.allDay = TRUE]>>)

MCTwice ==
  World("google", 0, 4, 2, 2, Mailboxes, {"mail"},
        <<[Plain("event", "work", 3, {}) EXCEPT !.uid = "meeting", !.length = 0],
          [Plain("event", "private", 3, {4}) EXCEPT !.uid = "meeting"],
          [Plain("event", "private", 3, {}) EXCEPT !.length = 2]>>)

MCGmail ==
  World("google", 5, 15, 5, 2, Mailboxes, {"grant", "mail"},
        <<Plain("mail", "work", 5, {}), Plain("mail", "work", 6, {}),
          Plain("mail", "private", 9, {})>>)

MCOutlook ==
  World("kth", 5, 110, 35, 1, {"kth", "other"}, {"grant"},
        <<Plain("mail", "kth", 5, {}), Plain("mail", "kth", 6, {}),
          Plain("mail", "other", 5, {})>>)

MCTasks ==
  World("notion", 0, 400, 100, 3, {"space"}, {"grant"},
        <<Plain("item", "space", 10, {120}),
          [Plain("item", "space", 3, {}) EXCEPT !.others = {<<0, 210>>}]>>)

MCCourses ==
  World("canvas", 0, 240, 60, 3, {"kth"}, {"grant"},
        <<Plain("item", "kth", 200, {20, 150}), Plain("item", "kth", 10, {})>>)

\* From the first days of July, of December and of the leap year's February.
MCBooks(start) ==
  World("fortnox", start, start + 56, 7, 1, {"company"}, {"grant"},
        <<Plain("item", "company", start + 20, {start + 40})>>)

MCWorlds ==
  {MCCalendars, MCTwice, MCGmail, MCOutlook, MCTasks, MCCourses}
  \cup {MCBooks(start) : start \in {31, 182, 335}}

MCOutages ==
  {World(style, 0, 14, 7, 2, Mailboxes, {"grant"}, <<Plain("mail", "work", 0, {})>>)
     : style \in {"google", "kth"}}
=============================================================================
