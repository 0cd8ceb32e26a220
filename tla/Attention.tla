------------------------------- MODULE Attention -------------------------------
(***************************************************************************)
(* What reaches the owner unasked.  Connector polls record events; a       *)
(* triage pass drops the muted ones, has one `claude` session score a      *)
(* batch, and for each score either rings the owner's phone or holds a     *)
(* line for the digest; the scheduled briefings each spend a session, and  *)
(* the morning one carries the digest and then drops what it carried.      *)
(*                                                                         *)
(* One step per statement on the database, per message to Telegram and per *)
(* session.  A poll, a triage pass and each briefing are jobs of the       *)
(* scheduler: they interleave, and the overlap guard keeps each job alone. *)
(* The process may crash between any two steps and a statement, a session  *)
(* or a message may fail at any step.                                      *)
(***************************************************************************)
EXTENDS Integers, FiniteSets, Sequences

CONSTANTS
  MaxEvents,      \* bound: events the connectors report
  Payloads,       \* bound: how many payloads each event goes through
  Muted,          \* <<event, payload>> pairs tier 0 drops
  Scan,           \* TRIAGE_SCAN_LIMIT
  Batch,          \* TIER1_BATCH
  MaxAttempts,    \* TRIAGE_MAX_ATTEMPTS
  MaxPerHour,     \* NotifyConfig::max_per_hour
  Window,         \* RATE_WINDOW, in ticks of the clock
  Quiet,          \* the hours of the day nobody may be rung
  MaxDigest,      \* MAX_DIGEST_LINES
  DailySessions,  \* the session budget of a day
  DayLength,      \* ticks in a day
  MaxTime,        \* bound: the clock
  Briefing,       \* the scheduled briefings
  Morning,        \* the one that carries the digest
  Occurs,         \* the instants each briefing's cron expression names
  Setups,         \* what startup may find: a `claude` to run, a Telegram bot
  MaxTrouble      \* bound: crashes and faults

Event == 1..MaxEvents
Time == 0..MaxTime

ASSUME AttentionAssumption ==
  /\ MaxEvents \in Nat /\ Payloads \in [Event -> Nat] /\ MaxTime \in Nat /\ MaxTrouble \in Nat
  /\ Scan \in Nat /\ Batch \in Nat /\ MaxAttempts \in Nat \ {0}
  /\ MaxPerHour \in Nat /\ Window \in Nat /\ DayLength \in Nat \ {0}
  /\ MaxDigest \in Nat \ {0} /\ DailySessions \in Nat
  /\ IsFiniteSet(Briefing) /\ Morning \in Briefing
  /\ Occurs \in [Briefing -> SUBSET Nat]
  /\ Setups \subseteq [runner : BOOLEAN, pusher : BOOLEAN]

VARIABLES
  \* durable: events
  version,     \* the payload recorded last (0: no row)
  triaged,     \* triaged_at is set
  basis,       \* history: the payload the stored verdict was reached on
  attempts,    \* triage_attempts
  fate,        \* history: what became of the verdict stored
  \* durable: kv, schedules, runs
  logged,      \* notify.sent: the instants sends are logged under, in order
  front,       \* notify.digest: lines removed so far ...
  back,        \* ... of the lines pushed so far, so it holds front+1..back
  overflowed,  \* notify.digest_dropped
  anchor,      \* schedules.last_run_at of each briefing (NoRow: no row)
  spent,       \* runs rows of unattended sessions: the tick each started at
  chatted,     \* runs rows of chat sessions, likewise
  \* in memory: one triage pass
  tpc, tnow, read, batch, todo, at, answer, recent,
  \* in memory: the briefings
  bpc, sf, sb,
  \* the world
  clock, setup, proc,
  \* history and bounds
  rung,        \* interruptions delivered: the instant each one's pass began
  told,        \* digest lines the owner has been sent
  mailed,      \* briefings and short lines delivered, per briefing
  first,       \* the anchor a briefing was registered with
  spoke,       \* whether the latest morning briefing said anything
  trouble

eventVars == <<version, triaged, basis, attempts, fate>>
digestVars == <<front, back, overflowed>>
budgetVars == <<spent, chatted>>
passLocals == <<tnow, read, batch, todo, at, answer, recent>>
passVars == <<tpc, passLocals>>
briefVars == <<bpc, sf, sb>>
ownerVars == <<rung, told, mailed, spoke>>
cronVars == <<anchor, first>>
worldVars == <<clock, setup, proc>>

vars == <<eventVars, logged, digestVars, budgetVars, passVars, briefVars, ownerVars,
          cronVars, worldVars, trouble>>

NoRow == -1
Score == {"low", "high"}
PassPC == {"idle", "drop", "bill", "session", "miss", "abandon", "tell", "score",
           "send", "log", "hold"}
BriefPC == {"idle", "gather", "ask", "bill", "session", "send", "clear", "fallback"}

Init ==
  /\ version = [e \in Event |-> 0]
  /\ triaged = [e \in Event |-> FALSE]
  /\ basis = [e \in Event |-> 0]
  /\ attempts = [e \in Event |-> 0]
  /\ fate = [e \in Event |-> "none"]
  /\ logged = <<>>
  /\ front = 0 /\ back = 0 /\ overflowed = 0
  /\ anchor = [b \in Briefing |-> NoRow]
  /\ first = [b \in Briefing |-> NoRow]
  /\ spent = <<>> /\ chatted = <<>>
  /\ tpc = "idle" /\ tnow = 0
  /\ read = [e \in Event |-> 0]
  /\ batch = {} /\ todo = {} /\ at = 0
  /\ answer = [e \in Event |-> "none"]
  /\ recent = 0
  /\ bpc = [b \in Briefing |-> "idle"]
  /\ sf = 0 /\ sb = 0
  /\ clock = 0
  /\ setup = [runner |-> FALSE, pusher |-> FALSE]
  /\ proc = "down"
  /\ rung = <<>>
  /\ told = {}
  /\ mailed = [b \in Briefing |-> 0]
  /\ spoke = TRUE
  /\ trouble = 0

Up == proc = "up"
Trouble == trouble < MaxTrouble /\ trouble' = trouble + 1
NoTrouble == UNCHANGED trouble

-----------------------------------------------------------------------------
(* The event store                                                          *)

\* EventStore::record: a new row, or a changed payload, which is a new question.
\* (An unchanged payload changes nothing.)
Record(e) ==
  /\ version[e] < Payloads[e]
  /\ \A f \in Event : f < e => version[f] > 0    \* ids in the order of insertion
  /\ version' = [version EXCEPT ![e] = @ + 1]
  /\ triaged' = [triaged EXCEPT ![e] = FALSE]
  /\ basis' = [basis EXCEPT ![e] = 0]
  /\ attempts' = [attempts EXCEPT ![e] = 0]
  /\ fate' = [fate EXCEPT ![e] = "none"]

\* run_watch_poll, item by item.  A poll that fails half way leaves what it has
\* recorded, and the next one finds the rest.
RunWatchPoll(e) ==
  /\ Up
  /\ Record(e)
  /\ NoTrouble
  /\ UNCHANGED <<logged, digestVars, budgetVars, passVars, briefVars, ownerVars,
                 cronVars, worldVars>>

Untriaged == {e \in Event : version[e] > 0 /\ ~triaged[e]}

\* Fewest failed attempts first, then oldest first.
Before(e, f) ==
  \/ attempts[e] < attempts[f]
  \/ attempts[e] = attempts[f] /\ e < f

FirstOf(n, S) == {e \in S : Cardinality({f \in S : Before(f, e)}) < n}

SetSalience(e, outcome) ==
  /\ triaged' = [triaged EXCEPT ![e] = TRUE]
  /\ basis' = [basis EXCEPT ![e] = read[e]]
  /\ fate' = [fate EXCEPT ![e] = outcome]
  /\ UNCHANGED <<version, attempts>>

-----------------------------------------------------------------------------
(* The notification log, the notification policy and the session budget     *)

Pick(a, b) == IF a < b THEN a ELSE b

\* One transaction under the digest's lock: append, and past the cap push the
\* oldest line out and count it.
PushDigest ==
  LET overflow == IF back + 1 - front > MaxDigest THEN 1 ELSE 0 IN
  /\ back' = back + 1
  /\ front' = front + overflow
  /\ overflowed' = overflowed + overflow

\* Mutant: the backlog is taken whole.
TakeDigest(count) == front' = back /\ UNCHANGED <<back, overflowed>>

\* Drops whatever stands at the front by now.
DropDigestPrefix(count) ==
  /\ front' = Pick(back, front + count)
  /\ UNCHANGED <<back, overflowed>>

\* Mutant: a history kept in memory, gone with the pass.
RecentForgotten(history, now) == 0

Recent(history, now) == Cardinality({i \in DOMAIN history : history[i] > now - Window})

Interrupts(score, now, sends) ==
  /\ score = "high"
  /\ now % DayLength \notin Quiet
  /\ sends < MaxPerHour

DayStart(now) == now - (now % DayLength)

CountSince(runs, since) == Cardinality({i \in DOMAIN runs : runs[i] >= since})

SpentToday(now) ==
  CountSince(spent, DayStart(now)) + CountSince(chatted, DayStart(now))

\* Mutant: off by one.
TryConsumeOneMore(now) == SpentToday(now) <= DailySessions

TryConsume(now) == SpentToday(now) < DailySessions

\* The row a session opens before it spawns.
StartRun == spent' = Append(spent, clock)

\* A chat turn opens one too, and asks nobody.
Chat ==
  /\ Up
  /\ chatted = <<>>                     \* bound: one turn
  /\ chatted' = Append(chatted, clock)
  /\ NoTrouble
  /\ UNCHANGED <<eventVars, logged, digestVars, spent, passVars, briefVars, ownerVars,
                 cronVars, worldVars>>

-----------------------------------------------------------------------------
(* One triage pass: run_triage                                              *)

PassMoves(p) == tpc' = p

PassOver ==
  /\ tpc' = "idle" /\ tnow' = 0
  /\ read' = [e \in Event |-> 0]
  /\ batch' = {} /\ todo' = {} /\ at' = 0
  /\ answer' = [e \in Event |-> "none"]
  /\ recent' = 0

\* Nothing but the pass itself changes.
PassOnly ==
  UNCHANGED <<eventVars, logged, digestVars, budgetVars, briefVars, ownerVars, cronVars,
              worldVars>>

\* Reads the untriaged events and splits them: muted ones are dropped, the
\* first of the rest are what the session will be shown.
ReadUntriaged ==
  /\ Up
  /\ tpc = "idle"
  /\ LET scan == FirstOf(Scan, Untriaged)
         muted == {e \in scan : <<e, version[e]>> \in Muted}
     IN /\ todo' = muted
        /\ batch' = FirstOf(Batch, scan \ muted)
  /\ todo' \cup batch' # {}
  /\ read' = [e \in Event |-> IF e \in todo' \cup batch' THEN version[e] ELSE 0]
  /\ tnow' = clock
  /\ PassMoves("drop")
  /\ NoTrouble
  /\ UNCHANGED <<at, answer, recent>>
  /\ PassOnly

DropMuted(e) ==
  /\ tpc = "drop"
  /\ e \in todo
  /\ SetSalience(e, "muted")
  /\ todo' = todo \ {e}
  /\ NoTrouble
  /\ UNCHANGED <<tpc, tnow, read, batch, at, answer, recent>>
  /\ UNCHANGED <<logged, digestVars, budgetVars, briefVars, ownerVars, cronVars, worldVars>>

\* Nothing left to score, no `claude`, or the day's budget spent: tier 0 only.
AskBudget ==
  /\ tpc = "drop"
  /\ todo = {}
  /\ IF batch # {} /\ setup.runner /\ TryConsume(tnow)
     THEN PassMoves("bill") /\ UNCHANGED passLocals
     ELSE PassOver
  /\ NoTrouble
  /\ PassOnly

StartTier1 ==
  /\ tpc = "bill"
  /\ StartRun
  /\ PassMoves("session")
  /\ NoTrouble
  /\ UNCHANGED <<passLocals, chatted>>
  /\ UNCHANGED <<eventVars, logged, digestVars, briefVars, ownerVars, cronVars, worldVars>>

\* The model scores some of the batch.  Ids it was not shown are discarded.
Tier1 ==
  /\ tpc = "session"
  /\ \E scored \in SUBSET batch :
       \E score \in [scored -> Score] :
         /\ answer' = [e \in Event |-> IF e \in scored THEN score[e] ELSE "none"]
         /\ todo' = batch \ scored
  /\ PassMoves("miss")
  /\ NoTrouble
  /\ UNCHANGED <<tnow, read, batch, at, recent>>
  /\ PassOnly

\* Mutant: a miss costs nothing.
ChargeNothing(e) ==
  /\ tpc = "miss"
  /\ e \in todo
  /\ todo' = todo \ {e}
  /\ NoTrouble
  /\ UNCHANGED <<tpc, tnow, read, batch, at, answer, recent>>
  /\ PassOnly

\* Events it was shown and left out are charged an attempt.
ChargeAttempt(e) ==
  /\ tpc = "miss"
  /\ e \in todo
  /\ attempts' = [attempts EXCEPT ![e] = @ + 1]
  /\ IF attempts[e] + 1 >= MaxAttempts
     THEN PassMoves("abandon") /\ at' = e /\ UNCHANGED todo
     ELSE todo' = todo \ {e} /\ UNCHANGED <<tpc, at>>
  /\ NoTrouble
  /\ UNCHANGED <<version, triaged, basis, fate>>
  /\ UNCHANGED <<tnow, read, batch, answer, recent>>
  /\ UNCHANGED <<logged, digestVars, budgetVars, briefVars, ownerVars, cronVars, worldVars>>

\* Given up on: stamped, with no score.
Abandon ==
  /\ tpc = "abandon"
  /\ triaged' = [triaged EXCEPT ![at] = TRUE]
  /\ basis' = [basis EXCEPT ![at] = read[at]]
  /\ fate' = [fate EXCEPT ![at] = "none"]
  /\ PassMoves("tell")
  /\ NoTrouble
  /\ UNCHANGED <<version, attempts>>
  /\ UNCHANGED passLocals
  /\ UNCHANGED <<logged, digestVars, budgetVars, briefVars, ownerVars, cronVars, worldVars>>

\* The line the verdict on `at` became, unless a changed payload has undone it.
Held == fate' = [fate EXCEPT ![at] = IF triaged[at] THEN "digest" ELSE @]

TellAbandoned ==
  /\ tpc = "tell"
  /\ PushDigest
  /\ Held
  /\ todo' = todo \ {at}
  /\ PassMoves("miss")
  /\ NoTrouble
  /\ UNCHANGED <<version, triaged, basis, attempts>>
  /\ UNCHANGED <<tnow, read, batch, at, answer, recent>>
  /\ UNCHANGED <<logged, budgetVars, briefVars, ownerVars, cronVars, worldVars>>

\* The send history is read once, before the first score is acted on.
ReadRecent ==
  /\ tpc = "miss"
  /\ todo = {}
  /\ recent' = Recent(logged, tnow)
  /\ todo' = {e \in batch : answer[e] # "none"}
  /\ PassMoves("score")
  /\ NoTrouble
  /\ UNCHANGED <<tnow, read, batch, at, answer>>
  /\ PassOnly

\* Mutant: the whole batch is stamped before anything is sent.
StampBatch(e) ==
  /\ tpc = "score"
  /\ e \in todo
  /\ triaged' = [f \in Event |-> triaged[f] \/ f \in todo]
  /\ basis' = [f \in Event |-> IF f \in todo THEN read[f] ELSE basis[f]]
  /\ at' = e
  /\ todo' = todo \ {e}
  /\ PassMoves(IF Interrupts(answer[e], tnow, recent) /\ setup.pusher THEN "send" ELSE "hold")
  /\ NoTrouble
  /\ UNCHANGED <<version, attempts, fate, tnow, read, batch, answer, recent>>
  /\ UNCHANGED <<logged, digestVars, budgetVars, briefVars, ownerVars, cronVars, worldVars>>

StampScore(e) ==
  /\ tpc = "score"
  /\ e \in todo
  /\ SetSalience(e, "none")
  /\ at' = e
  /\ todo' = todo \ {e}
  /\ PassMoves(IF Interrupts(answer[e], tnow, recent) /\ setup.pusher THEN "send" ELSE "hold")
  /\ NoTrouble
  /\ UNCHANGED <<tnow, read, batch, answer, recent>>
  /\ UNCHANGED <<logged, digestVars, budgetVars, briefVars, ownerVars, cronVars, worldVars>>

\* Telegram delivers, or the call fails - whether or not it was delivered - and
\* the line is held instead.
Notify(delivered, ok) ==
  /\ tpc = "send"
  /\ ok => delivered
  /\ IF ok THEN NoTrouble ELSE Trouble
  /\ rung' = IF delivered THEN Append(rung, tnow) ELSE rung
  /\ fate' = IF delivered /\ triaged[at] THEN [fate EXCEPT ![at] = "rung"] ELSE fate
  /\ PassMoves(IF ok THEN "log" ELSE "hold")
  /\ UNCHANGED <<version, triaged, basis, attempts>>
  /\ UNCHANGED passLocals
  /\ UNCHANGED <<logged, digestVars, budgetVars, briefVars, told, mailed, spoke, cronVars,
                 worldVars>>

\* Logged under the instant the pass began.
LogSend ==
  /\ tpc = "log"
  /\ logged' = Append(logged, tnow)
  /\ recent' = recent + 1
  /\ PassMoves("score")
  /\ NoTrouble
  /\ UNCHANGED <<tnow, read, batch, todo, at, answer>>
  /\ UNCHANGED <<eventVars, digestVars, budgetVars, briefVars, ownerVars, cronVars, worldVars>>

HoldBack ==
  /\ tpc = "hold"
  /\ PushDigest
  /\ Held
  /\ PassMoves("score")
  /\ NoTrouble
  /\ UNCHANGED <<version, triaged, basis, attempts>>
  /\ UNCHANGED passLocals
  /\ UNCHANGED <<logged, budgetVars, briefVars, ownerVars, cronVars, worldVars>>

PassEnds ==
  /\ tpc = "score"
  /\ todo = {}
  /\ PassOver
  /\ NoTrouble
  /\ PassOnly

\* A statement or the session fails: the pass is over, whatever it has not done.
PassFails ==
  /\ tpc \notin {"idle", "send"}
  /\ PassOver
  /\ Trouble
  /\ PassOnly

Triage ==
  \/ ReadUntriaged \/ AskBudget \/ StartTier1 \/ Tier1 \/ Abandon \/ TellAbandoned
  \/ ReadRecent \/ LogSend \/ HoldBack \/ PassEnds
  \/ \E e \in Event : DropMuted(e) \/ ChargeAttempt(e) \/ StampScore(e)
  \/ Notify(TRUE, TRUE)

-----------------------------------------------------------------------------
(* The briefings: cron_job, claim, run_morning_briefing, deliver            *)

\* The digest read by the morning briefing is forgotten with it.
BriefMoves(b, p) ==
  /\ bpc' = [bpc EXCEPT ![b] = p]
  /\ IF b = Morning /\ p = "idle" THEN sf' = 0 /\ sb' = 0 ELSE UNCHANGED <<sf, sb>>

BriefOnly ==
  UNCHANGED <<eventVars, logged, digestVars, budgetVars, passVars, ownerVars, cronVars,
              worldVars>>

\* The first occurrence after the anchor has come.
Due(b) == anchor[b] # NoRow /\ \E o \in Occurs[b] : anchor[b] < o /\ o <= clock

\* Mutant: the anchor is left for the end.
ClaimUnmarked(b) ==
  /\ Up
  /\ bpc[b] = "idle"
  /\ Due(b)
  /\ spoke' = IF b = Morning THEN FALSE ELSE spoke
  /\ BriefMoves(b, "gather")
  /\ NoTrouble
  /\ UNCHANGED <<eventVars, logged, digestVars, budgetVars, passVars, rung, told, mailed,
                 cronVars, worldVars>>

\* The anchor moves before the briefing is written.
Claim(b) ==
  /\ Up
  /\ bpc[b] = "idle"
  /\ Due(b)
  /\ anchor' = [anchor EXCEPT ![b] = clock]
  /\ spoke' = IF b = Morning THEN FALSE ELSE spoke
  /\ BriefMoves(b, "gather")
  /\ NoTrouble
  /\ UNCHANGED <<eventVars, logged, digestVars, budgetVars, passVars, rung, told,
                 mailed, first, worldVars>>

\* The material the morning briefing finds empty: no digest, no backlog.  Today's
\* calendar and the scores since the last one decide it as well, and may not be.
NothingToSay(b) == b = Morning /\ front = back /\ Untriaged = {}

\* The digest is read and left in place.  Nothing to say is nothing to pay for.
Gather(b) ==
  /\ bpc[b] = "gather"
  /\ IF b = Morning THEN sf' = front /\ sb' = back ELSE UNCHANGED <<sf, sb>>
  /\ \E p \in {"ask", "fallback"} :
       /\ p = "fallback" => NothingToSay(b)
       /\ bpc' = [bpc EXCEPT ![b] = p]
  /\ NoTrouble
  /\ BriefOnly

\* Mutant: no briefing, no word.
UnwrittenSilently(b) == BriefMoves(b, "idle")

\* No briefing: the morning one says why, in one line.
Unwritten(b) == BriefMoves(b, IF b = Morning THEN "fallback" ELSE "idle")

AskBriefing(b) ==
  /\ bpc[b] = "ask"
  /\ IF setup.runner /\ TryConsume(clock) THEN BriefMoves(b, "bill") ELSE Unwritten(b)
  /\ NoTrouble
  /\ BriefOnly

StartBriefing(b) ==
  /\ bpc[b] = "bill"
  /\ StartRun
  /\ BriefMoves(b, "session")
  /\ NoTrouble
  /\ UNCHANGED <<eventVars, logged, digestVars, chatted, passVars, ownerVars,
                 cronVars, worldVars>>

\* The session answers, or answers with nothing.
Written(b) ==
  /\ bpc[b] = "session"
  /\ \/ setup.pusher /\ BriefMoves(b, "send")
     \/ Unwritten(b)
  /\ NoTrouble
  /\ BriefOnly

\* One message.  Only after it is known to be sent is the digest cleared.
SendBriefing(b, delivered, ok) ==
  /\ bpc[b] = "send"
  /\ ok => delivered
  /\ IF ok THEN NoTrouble ELSE Trouble
  /\ mailed' = IF delivered THEN [mailed EXCEPT ![b] = @ + 1] ELSE mailed
  /\ spoke' = (spoke \/ (b = Morning /\ delivered))
  /\ told' = IF b = Morning /\ delivered THEN told \cup (sf+1..sb) ELSE told
  /\ BriefMoves(b, IF b = Morning /\ ok THEN "clear" ELSE "idle")
  /\ UNCHANGED <<eventVars, logged, digestVars, budgetVars, passVars, rung,
                 cronVars, worldVars>>

ClearDigest ==
  /\ bpc[Morning] = "clear"
  /\ DropDigestPrefix(sb - sf)
  /\ BriefMoves(Morning, "idle")
  /\ NoTrouble
  /\ UNCHANGED <<eventVars, logged, budgetVars, passVars, ownerVars, cronVars,
                 worldVars>>

\* One line in place of a briefing, if there is anyone to send it.  The digest
\* stays.
PushFallback(delivered, ok) ==
  /\ bpc[Morning] = "fallback"
  /\ delivered => setup.pusher
  /\ ok => delivered = setup.pusher
  /\ IF ok THEN NoTrouble ELSE setup.pusher /\ Trouble
  /\ mailed' = IF delivered THEN [mailed EXCEPT ![Morning] = @ + 1] ELSE mailed
  /\ spoke' = (spoke \/ delivered)
  /\ BriefMoves(Morning, "idle")
  /\ UNCHANGED <<eventVars, logged, digestVars, budgetVars, passVars, rung, told,
                 cronVars, worldVars>>

\* A statement or the session fails: the breaker hears of it, the owner does not.
BriefingFails(b) ==
  /\ bpc[b] \notin {"idle", "send", "fallback"}
  /\ BriefMoves(b, "idle")
  /\ Trouble
  /\ BriefOnly

Brief(b) ==
  \/ Claim(b) \/ Gather(b) \/ AskBriefing(b) \/ StartBriefing(b) \/ Written(b)
  \/ SendBriefing(b, TRUE, TRUE)
  \/ b = Morning /\ (ClearDigest \/ PushFallback(setup.pusher, TRUE))

-----------------------------------------------------------------------------
(* The process, the clock and the specification                             *)

\* register_built_ins: a briefing is anchored when it is first registered, and
\* keeps its anchor afterwards.
Boot ==
  /\ proc = "down"
  /\ proc' = "up"
  /\ setup' \in Setups
  /\ anchor' = [b \in Briefing |-> IF anchor[b] = NoRow THEN clock ELSE anchor[b]]
  /\ first' = [b \in Briefing |-> IF anchor[b] = NoRow THEN clock ELSE first[b]]
  /\ NoTrouble
  /\ UNCHANGED <<eventVars, logged, digestVars, budgetVars, passVars, briefVars, ownerVars,
                 clock>>

Crash ==
  /\ Up
  /\ proc' = "down"
  /\ Trouble
  /\ PassOver
  /\ bpc' = [b \in Briefing |-> "idle"]
  /\ sf' = 0 /\ sb' = 0
  /\ UNCHANGED <<eventVars, logged, digestVars, budgetVars, ownerVars, cronVars, clock, setup>>

Tick ==
  /\ clock < MaxTime
  /\ clock' = clock + 1
  /\ NoTrouble
  /\ UNCHANGED <<eventVars, logged, digestVars, budgetVars, passVars, briefVars, ownerVars,
                 cronVars, setup, proc>>

Next ==
  \/ \E e \in Event : RunWatchPoll(e)
  \/ Chat
  \/ Triage
  \/ PassFails
  \/ \E delivered \in BOOLEAN : Notify(delivered, FALSE)
  \/ \E b \in Briefing : Brief(b) \/ BriefingFails(b)
  \/ \E b \in Briefing, delivered \in BOOLEAN : SendBriefing(b, delivered, FALSE)
  \/ \E delivered \in BOOLEAN : PushFallback(delivered, FALSE)
  \/ Boot
  \/ Crash
  \/ Tick

Spec == Init /\ [][Next]_vars

\* A step that can be taken is taken: the jobs run on, launchd starts the process
\* again.  Neither the world nor time owes anything.
FairSpec ==
  /\ Spec
  /\ WF_vars(Triage)
  /\ \A b \in Briefing : WF_vars(Brief(b))
  /\ WF_vars(Boot)

-----------------------------------------------------------------------------
(* Properties                                                               *)

TypeOK ==
  /\ version \in [Event -> Nat] /\ \A e \in Event : version[e] <= Payloads[e]
  /\ triaged \in [Event -> BOOLEAN]
  /\ basis \in [Event -> Nat]
  /\ attempts \in [Event -> 0..MaxAttempts]
  /\ fate \in [Event -> {"none", "muted", "digest", "rung"}]
  /\ logged \in Seq(Time)
  /\ front \in Nat /\ back \in Nat /\ overflowed \in Nat
  /\ front <= back /\ back - front <= MaxDigest
  /\ anchor \in [Briefing -> Time \cup {NoRow}] /\ first \in [Briefing -> Time \cup {NoRow}]
  /\ spent \in Seq(Time) /\ chatted \in Seq(Time)
  /\ tpc \in PassPC /\ tnow \in Time
  /\ read \in [Event -> Nat]
  /\ batch \subseteq Event /\ todo \subseteq Event /\ at \in Event \cup {0}
  /\ answer \in [Event -> Score \cup {"none"}]
  /\ recent \in Nat
  /\ bpc \in [Briefing -> BriefPC]
  /\ sf \in Nat /\ sb \in Nat
  /\ clock \in Time /\ setup \in [runner : BOOLEAN, pusher : BOOLEAN]
  /\ proc \in {"up", "down"}
  /\ rung \in Seq(Time)
  /\ told \subseteq 1..back
  /\ mailed \in [Briefing -> Nat]
  /\ spoke \in BOOLEAN
  /\ trouble \in 0..MaxTrouble

\* Lines that left the digest and that no briefing ever carried.
Untold == 1..front \ told

\* The count `ea status` shows of lines discarded to the cap never understates
\* what the owner was not told: a line the briefing's prefix destroys because
\* the cap moved the digest under it stands for a line it carried that the cap
\* had counted.
UntoldIsCounted == Cardinality(Untold) <= overflowed

\* A verdict that stands has rung the phone or is a line of the digest; each
\* crash or fault costs at most the one verdict it fell on.
Silent == {e \in Event : triaged[e] /\ fate[e] = "none"}
InHand == IF tpc \in {"tell", "send", "hold"} THEN {at} ELSE {}
LossIsOnePerTrouble == Cardinality(Silent \ InHand) <= trouble

\* The hourly limit counts across restarts and inside a pass: only a send whose
\* outcome was lost, to a crash or a fault, escapes it.
Rationed(now) ==
  Cardinality({i \in DOMAIN rung : now - Window < rung[i] /\ rung[i] <= now})
InterruptionsAreRationed == \A now \in Time : Rationed(now) <= MaxPerHour + trouble

\* The budget is a ceiling, not a semaphore: the unattended sessions of a day
\* pass it by less than the number of jobs that may be asking at once.
Unattended(day) == Cardinality({i \in DOMAIN spent : DayStart(spent[i]) = day})
BudgetHolds ==
  \A day \in {DayStart(t) : t \in Time} :
    Unattended(day) <= DailySessions + Cardinality(Briefing)

\* A briefing is sent at most once for an occurrence of its schedule, whatever
\* crashes and restarts there were, and missed occurrences collapse into one.
BriefedOncePerOccurrence ==
  \A b \in Briefing :
    mailed[b] <= Cardinality({o \in Occurs[b] : first[b] < o /\ o <= clock})

\* While nothing fails, a morning briefing that is over has said something.
MorningIsNeverSilent ==
  (trouble = 0 /\ bpc[Morning] = "idle" /\ setup.pusher) => spoke

\* A stored verdict was reached on the payload stored with it.
VerdictIsOfItsPayload == \A e \in Event : triaged[e] => basis[e] = version[e]

\* Every event is scored, dropped or given up on, if the budget lasts that long.
EventsAreSettled == \A e \in Event : version[e] > 0 ~> triaged[e]
=============================================================================
